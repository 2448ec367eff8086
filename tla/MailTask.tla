------------------------------ MODULE MailTask ------------------------------
(***************************************************************************)
(* The emailsend task seen by the tasks that run beside it: its rounds of  *)
(* mails, what the mail server accepted, and the flags that the finally    *)
(* clause commits.  Which mail is due and why is EmailSendFlat's; here a   *)
(* mail is a name with a round.                                            *)
(***************************************************************************)
EXTENDS Integers, FiniteSets

CONSTANTS Mail,
          RoundOf,   \* the round that selects a mail
          LastRound, \* _run_flat has four
          Faults     \* "refused": the server takes no mail; "lost": it took
                     \* one and the answer is lost; "raise": send() raises

MailAssumption ==
    /\ IsFiniteSet(Mail)
    /\ LastRound \in Nat \ {0} /\ RoundOf \in [Mail -> 1..LastRound]

VARIABLES asked,   \* the mails the committed flags ask for
          told,    \* observer: those that were accepted since they were last
                   \* asked for, if ever
          unsure,  \* observer: those accepted whose record a fault lost
          marked,  \* those this run's session has settled
          round,
          waiting, \* the mails of the round that are not tried yet
          pc

vars == <<asked, told, unsure, marked, round, waiting, pc>>

TypeOK ==
    /\ asked \subseteq Mail /\ told \subseteq Mail /\ unsure \subseteq Mail
    /\ marked \subseteq asked /\ waiting \subseteq asked
    /\ round \in 0..LastRound
    /\ pc \in {"idle", "select", "send", "commit"}

Init ==
    /\ asked = {} /\ told = Mail /\ unsure = {} /\ marked = {}
    /\ round = 0 /\ waiting = {}
    /\ pc = "idle"

-----------------------------------------------------------------------------
\* apisync and ldapupdate set a flag: the mail is due, once.
Ask ==
    /\ pc = "idle"
    /\ \E m \in Mail \ asked :
         /\ asked' = asked \cup {m}
         /\ told' = told \ {m} /\ unsure' = unsure \ {m}
    /\ UNCHANGED <<marked, round, waiting, pc>>

StartRun ==
    /\ pc = "idle"
    /\ round' = 1 /\ pc' = "select"
    /\ UNCHANGED <<asked, told, unsure, marked, waiting>>

\* The SELECT of a round; the session's earlier changes are flushed before it.
Select ==
    /\ pc = "select"
    /\ waiting' = {m \in asked : RoundOf[m] = round}
    /\ pc' = "send"
    /\ UNCHANGED <<asked, told, unsure, marked, round>>

\* Mutant: the flag is settled whatever the server answered.
RefuseMarked ==
    /\ pc = "send" /\ "refused" \in Faults
    /\ \E m \in waiting : waiting' = waiting \ {m} /\ marked' = marked \cup {m}
    /\ UNCHANGED <<asked, told, unsure, round, pc>>

\* A round's chunks are sent concurrently: its mails in any order.
Send ==
    /\ pc = "send"
    /\ \E m \in waiting :
         /\ waiting' = waiting \ {m}
         /\ told' = told \cup {m} /\ marked' = marked \cup {m}
    /\ UNCHANGED <<asked, unsure, round, pc>>

\* send() returns False or None.
Refuse ==
    /\ pc = "send" /\ "refused" \in Faults
    /\ \E m \in waiting : waiting' = waiting \ {m}
    /\ UNCHANGED <<asked, told, unsure, marked, round, pc>>

\* sendmail() was answered, quit() was not: accepted, and None all the same.
AnswerLost ==
    /\ pc = "send" /\ "lost" \in Faults
    /\ \E m \in waiting : /\ waiting' = waiting \ {m}
                          /\ told' = told \cup {m} /\ unsure' = unsure \cup {m}
    /\ UNCHANGED <<asked, marked, round, pc>>

\* An exception send() does not handle ends its chunk at once; the other chunks
\* finish, then the rounds that follow are skipped.
Raise ==
    /\ pc = "send" /\ "raise" \in Faults
    /\ \E m \in waiting : waiting' \in SUBSET (waiting \ {m})
    /\ round' = LastRound
    /\ UNCHANGED <<asked, told, unsure, marked, pc>>

\* Mutant: one round too many.
EndRoundLate ==
    /\ pc = "send" /\ waiting = {}
    /\ IF round > LastRound THEN pc' = "commit" /\ UNCHANGED round
                            ELSE pc' = "select" /\ round' = round + 1
    /\ UNCHANGED <<asked, told, unsure, marked, waiting>>

EndRound ==
    /\ pc = "send" /\ waiting = {}
    /\ IF round = LastRound THEN pc' = "commit" /\ UNCHANGED round
                            ELSE pc' = "select" /\ round' = round + 1
    /\ UNCHANGED <<asked, told, unsure, marked, waiting>>

EndRun == pc' = "idle" /\ round' = 0 /\ waiting' = {} /\ marked' = {}

\* The finally clause.
Commit ==
    /\ pc = "commit"
    /\ asked' = asked \ marked
    /\ EndRun
    /\ UNCHANGED <<told, unsure>>

\* A signal cancels the run at an await; a mail on its way may be accepted.
Cancel ==
    /\ pc \in {"select", "send"}
    /\ \E m \in SUBSET waiting :
         told' = told \cup m /\ unsure' = unsure \cup m
    /\ asked' = asked \ marked
    /\ EndRun

\* The process, or its session, ends amid the run: nothing is committed.
Abandon ==
    /\ pc # "idle"
    /\ unsure' = unsure \cup marked
    /\ EndRun
    /\ UNCHANGED <<asked, told>>

\* A cleared flag means that the mail went out, and a flag that stays set that
\* it did not, unless a fault kept the task from learning or recording it: no
\* mail is lost, and none is repeated for another reason (264-320).
MailRecorded ==
    pc = "idle" => asked \cap told \subseteq unsure /\ Mail \ asked \subseteq told
=============================================================================
