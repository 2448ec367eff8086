---------------------------- MODULE MCProjectGroups ---------------------------
(***************************************************************************)
(* TLC instance of ProjectGroups: two default groups and one resource      *)
(* group, so that gids 1 to 3 are the configured groups' and projects are  *)
(* numbered from 4.                                                        *)
(***************************************************************************)
EXTENDS ProjectGroups, TLC

CONSTANTS hpc, hpcusers, cpu

MCDefaultGroups == <<hpc, hpcusers>>
MCResourceGroups == <<cpu>>
Alike == Permutations(User) \cup Permutations(Slot)
=============================================================================
