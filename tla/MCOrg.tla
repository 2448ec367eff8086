------------------------------- MODULE MCOrg -------------------------------
(***************************************************************************)
(* Instances of OrgPipeline; what the API may answer is chosen here.       *)
(***************************************************************************)
EXTENDS OrgPipeline

CONSTANTS p1, p2, k1, k2

Answer(projects, keys, status) ==
    [projects |-> projects, keys |-> keys, status |-> status]
Gone == Answer(<< >>, {k1}, TRUE)

\* Leaving and joining two projects, in every order.
ApiProjects == {Gone, Answer(<<p1>>, {k1}, TRUE), Answer(<<p2>>, {k1}, TRUE),
                Answer(<<p1, p2>>, {k1}, TRUE)}

\* A member of two projects who leaves one and comes back.
ApiShrink == {Answer(<<p1>>, {k1}, TRUE), Answer(<<p1, p2>>, {k1}, TRUE)}

\* A member of two projects who leaves one or changes keys.
ApiKeys2 == {Answer(<<p1>>, {k1}, TRUE), Answer(<<p1, p2>>, {k1}, TRUE),
             Answer(<<p1, p2>>, {k1, k2}, TRUE)}
=============================================================================
