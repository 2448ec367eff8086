---------------------------- MODULE MCConcurrent ----------------------------
(***************************************************************************)
(* The smallest instance of ConcurrentTasks in which each of the three     *)
(* sessions meets a write lock held by another: a project to add to the    *)
(* fairshare file, a user's directory, and a mail of the first of two      *)
(* rounds, which the second round's SELECT flushes.                        *)
(***************************************************************************)
EXTENDS ConcurrentTasks, TLC

CONSTANTS p1, u1, m1

MCUserDirs == <<"/storage/home/">>
MCGroupDirs == <<"/lustre/group/">>
MCRoundOf == m1 :> 1
=============================================================================
