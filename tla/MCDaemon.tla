------------------------------ MODULE MCDaemon ------------------------------
(***************************************************************************)
(* Instances of TaskDaemon: three pids, so that a stale file, a starting   *)
(* daemon and an unrelated program can meet.                               *)
(***************************************************************************)
EXTENDS TaskDaemon
MCCallList == Sequential \cup Concurrent
=============================================================================
