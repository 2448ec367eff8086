------------------------------ MODULE HttpFetch ------------------------------
(***************************************************************************)
(* fetch_data of apisync: the two GETs to the signup API run concurrently  *)
(* over one SessionWithRetry, each with its own tries; the answers are     *)
(* judged together once both are there.                                    *)
(***************************************************************************)
EXTENDS Integers, FiniteSets

CONSTANTS Get,    \* the two requests: "sshkeys" and "userproject"
          NTry,   \* connection.retry
          HandleSessionClose  \* the session is closed by the caller

ASSUME FetchAssumption ==
    NTry \in Nat \ {0} /\ HandleSessionClose \in BOOLEAN /\ IsFiniteSet(Get)

\* What ends a GET: the list that was asked for, the body of an error page, an
\* erroneous status (400, 403, 404, 409), an empty 2xx answer, an SSL error.  A
\* failed connection and an empty answer of another status are tried again.
Final == {"list", "page", "erroneous", "empty", "ssl"}

VARIABLES try,     \* the number of the current try, per GET
          answer,  \* what the GET came to; "none" while it is on its way
          asking,  \* a request is open (FALSE: sleepretry)
          closed,  \* the session is closed
          result   \* what fetch_data comes to

fetchVars == <<try, answer, asking, closed, result>>

FetchTypeOK ==
    /\ try \in [Get -> 1..NTry + 1]
    /\ answer \in [Get -> Final \cup {"none", "exhausted", "noSession"}]
    /\ asking \in [Get -> BOOLEAN]
    /\ closed \in BOOLEAN
    /\ result \in {"none", "data", "SyncHttpError", "exit"}

FetchInit ==
    /\ try = [g \in Get |-> 1]
    /\ answer = [g \in Get |-> "none"]
    /\ asking = [g \in Get |-> FALSE]
    /\ closed = FALSE
    /\ result = "none"

-----------------------------------------------------------------------------
\* Mutant: the tries are not counted against the limit.
AskForever(g) ==
    /\ answer[g] = "none" /\ ~asking[g]
    /\ asking' = [asking EXCEPT ![g] = TRUE]
    /\ UNCHANGED <<try, answer, closed, result>>

\* The loop condition holds: the request is sent.  aiohttp refuses one on a
\* closed session with a RuntimeError.
Ask(g) ==
    /\ answer[g] = "none" /\ ~asking[g] /\ try[g] <= NTry
    /\ IF closed
       THEN answer' = [answer EXCEPT ![g] = "noSession"] /\ UNCHANGED asking
       ELSE asking' = [asking EXCEPT ![g] = TRUE] /\ UNCHANGED answer
    /\ UNCHANGED <<try, closed, result>>

\* The finally clause of _http_method.
\* Mutant: the first GET to end closes the session.
CloseUnlessHandledAlways == closed' = TRUE
CloseUnlessHandled == closed' = (closed \/ ~HandleSessionClose)

Answered(g) ==
    /\ asking[g]
    /\ \E a \in Final : answer' = [answer EXCEPT ![g] = a]
    /\ asking' = [asking EXCEPT ![g] = FALSE]
    /\ CloseUnlessHandled
    /\ UNCHANGED <<try, result>>

\* Mutant: n is not advanced.
TryAgainSame(g) ==
    /\ asking[g]
    /\ asking' = [asking EXCEPT ![g] = FALSE]
    /\ UNCHANGED <<try, answer, closed, result>>

TryAgain(g) ==
    /\ asking[g]
    /\ asking' = [asking EXCEPT ![g] = FALSE]
    /\ try' = [try EXCEPT ![g] = @ + 1]
    /\ UNCHANGED <<answer, closed, result>>

\* The else clause of the loop: the last client error is raised; without one
\* "raise None" is a TypeError, and http_get makes both a SyncHttpError.
Exhausted(g) ==
    /\ answer[g] = "none" /\ ~asking[g] /\ try[g] > NTry
    /\ answer' = [answer EXCEPT ![g] = "exhausted"]
    /\ CloseUnlessHandled
    /\ UNCHANGED <<try, asking, result>>

\* Once gather has both: an exception or an erroneous status is a
\* SyncHttpError; json.loads of a page or of a response object ends the daemon.
Verdict(answers) ==
    CASE answers \subseteq {"list"} -> "data"
      [] answers \subseteq {"list", "page", "empty"} /\ ~(answers \subseteq {"list"}) -> "exit"
      [] OTHER -> "SyncHttpError"

\* Mutant: one good answer is enough.
ResultAny == IF \E g \in Get : answer[g] = "list" THEN "data"
             ELSE Verdict({answer[g] : g \in Get})
Result == Verdict({answer[g] : g \in Get})

FetchData ==
    /\ result = "none" /\ \A g \in Get : answer[g] # "none"
    /\ result' = Result
    /\ closed' = TRUE
    /\ UNCHANGED <<try, answer, asking>>

FetchStep(g) == Ask(g) \/ Answered(g) \/ TryAgain(g) \/ Exhausted(g)
FetchNext == FetchData \/ \E g \in Get : FetchStep(g)

\* Each request ends: aiohttp's timeouts bound it, and so does sleepretry.
FetchSpec == FetchInit /\ [][FetchNext]_fetchVars /\ WF_fetchVars(FetchData) /\ \A g \in Get : WF_fetchVars(FetchStep(g))

-----------------------------------------------------------------------------
\* One GET that ends early does not take the session from the other, which may
\* still be asking or waiting for its next try (handle_session_close, 116-118).
SessionOpenWhileAsking ==
    \A g \in Get : answer[g] = "none" => ~closed

\* apisync works on data only when both lists arrived (384-399): one list of
\* the API next to a failure would read as if keys or projects were withdrawn.
DataMeansBothLists == result = "data" => \A g \in Get : answer[g] = "list"

\* Every fetch comes to a result, however the server behaves.
FetchEnds == <>(result # "none")
=============================================================================
