------------------------------ MODULE MCManaged ------------------------------
(***************************************************************************)
(* The instance of ManagedPipeline; what the API may answer is chosen here.*)
(***************************************************************************)
EXTENDS ManagedPipeline

CONSTANTS p1, k1

Answer(projects, status) == [projects |-> projects, keys |-> {k1}, status |-> status]

\* Leaving, returning, and a status that is withdrawn.
ApiStatus == {Answer(<< >>, TRUE), Answer(<<p1>>, TRUE), Answer(<<p1>>, FALSE)}
=============================================================================
