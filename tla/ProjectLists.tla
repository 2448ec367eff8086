---------------------------- MODULE ProjectLists ----------------------------
(***************************************************************************)
(* The lists of projects that apisync keeps per user (the JSON column      *)
(* projects_api) and receives from the signup API, as sequences.           *)
(***************************************************************************)
EXTENDS Integers, Sequences, FiniteSets

SetOf(s) == {s[i] : i \in DOMAIN s}
Last(s) == s[Len(s)]

\* An association is listed once.
Distinct(s) == \A i, j \in 1..Len(s) : s[i] = s[j] => i = j

\* The k-th smallest member of a set of positions.
Kth(S, k) == CHOOSE i \in S : Cardinality({j \in S : j < i}) = k - 1

\* Append, in the order of t, the members of t that s lacks.  The code meets
\* an association once per key of the user; the test for membership makes the
\* repetitions harmless.
AppendMissing(s, t) ==
    LET missing == {i \in 1..Len(t) : t[i] \notin SetOf(s)}
    IN  s \o [k \in 1..Cardinality(missing) |-> t[Kth(missing, k)]]
=============================================================================
