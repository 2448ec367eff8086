------------------------------- MODULE MCFlat -------------------------------
(***************************************************************************)
(* Instances of FlatPipeline.  User, Project, Key, Workshop, Staff and     *)
(* Faults are given by each cfg; what the API may answer is chosen here.   *)
(***************************************************************************)
EXTENDS FlatPipeline

CONSTANTS p1, w1, k1, k2

Answer(projects, keys, status) ==
    [projects |-> projects, keys |-> keys, status |-> status]
Gone == Answer(<< >>, {k1}, TRUE)

\* Leaving and returning.
ApiLeave == {Gone, Answer(<<p1>>, {k1}, TRUE)}

\* The same, with the status given or withdrawn.
ApiStatus == ApiLeave \cup {Answer(<<p1>>, {k1}, FALSE)}

\* A key that is replaced, a status or the only key that is withdrawn.
ApiKeyChange == {Gone, Answer(<<p1>>, {k1}, TRUE), Answer(<<p1>>, {k2}, TRUE),
                 Answer(<<p1>>, {}, TRUE), Answer(<<p1>>, {k1}, FALSE)}

\* Every way to be on a project and on a workshop.
ApiProjects == {Gone} \cup {Answer(ps, {k1}, TRUE) :
                              ps \in {<<p1>>, <<w1>>, <<p1, w1>>, <<w1, p1>>}}

\* Everything at once.
ApiEverything == ApiKeyChange \cup ApiProjects

\* A bound for the run with every fault: the API changes while the daemon sleeps.
\* That it may change between the two requests is in the run without.
ApiChangesInSleep == api' # api => pc = "sleep"
=============================================================================
