--------------------------- MODULE MCDirectories ---------------------------
(***************************************************************************)
(* Instances of Directories: the paths of the configuration template, one  *)
(* below which users get a directory and two below which projects do.      *)
(***************************************************************************)
EXTENDS Directories
MCUserDirs == <<"/storage/home/">>
MCGroupDirs == <<"/lustre/group/", "/storage/group/">>
=============================================================================
