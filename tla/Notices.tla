------------------------------- MODULE Notices -------------------------------
(***************************************************************************)
(* What the notification flags of the cache promise: every notice that was *)
(* asked for is delivered at least once before it is forgotten.  A notice  *)
(* about a key may instead be covered by a mail about the whole account.   *)
(***************************************************************************)
CONSTANTS User, Notice,
          Whole        \* those of Notice that cover every other one

VARIABLES pending,     \* committed requests, per user
          sent         \* of these, the ones delivered since they were asked for

noticeVars == <<pending, sent>>

Init == /\ pending = [u \in User |-> {}]
        /\ sent = [u \in User |-> {}]

\* Notices are asked for; one that was not pending has not been delivered.
Raise ==
    /\ pending' \in [User -> SUBSET Notice]
    /\ \A u \in User : pending[u] \subseteq pending'[u]
    /\ sent' = [u \in User |-> sent[u] \cap pending[u]]

\* Mails go out for pending notices.
Deliver ==
    /\ sent' \in [User -> SUBSET Notice]
    /\ \A u \in User : /\ sent[u] \subseteq sent'[u]
                       /\ sent'[u] \subseteq sent[u] \cup pending[u]
    /\ UNCHANGED pending

\* What a user no longer needs to be told.
Settled(u) ==
    IF sent[u] \cap Whole # {} THEN (Notice \ Whole) \cup sent[u] ELSE sent[u]

\* Delivered notices are forgotten, and no other.
Settle ==
    /\ pending' \in [User -> SUBSET Notice]
    /\ \A u \in User : /\ pending'[u] \subseteq pending[u]
                       /\ pending[u] \ pending'[u] \subseteq Settled(u)
    /\ sent' = [u \in User |-> sent[u] \cap pending'[u]]

Next == Raise \/ Deliver \/ Settle

Spec == Init /\ [][Next]_noticeVars
==============================================================================
