--------------------------- MODULE ServiceProofs ---------------------------
(***************************************************************************)
(* Proofs about the service around the tasks.  TaskDaemon, for every set   *)
(* of pids and every call_list: its pidfile protocol tests and writes in   *)
(* separate steps, so it is only right when starts do not overlap, and     *)
(* OneStarter is an assumption of the safety theorems.  HttpFetch, for     *)
(* every set of requests and every limit of tries: the session is only     *)
(* shared safely when its caller closes it, HandleSessionClose.  The two   *)
(* components share no variable.                                           *)
(***************************************************************************)
EXTENDS TaskDaemon, HttpFetch, TLAPS

\* What is true of the one daemon that may be starting: it knows the pid of
\* the daemon in service until it finds that there is none.
StarterInv ==
    /\ \A p, q \in Pid : IsStarting(p) /\ IsStarting(q) => p = q
    /\ \A p, q \in Pid : phase[p] = "check" /\ InService(q) => seen[p] = q

IInv == TypeOK /\ ServiceOwnsPidfile /\ StarterInv

\* Whoever starts has met each daemon in service, and what was read from the
\* file is still there unless a daemon that was met has removed it.
StaleInv ==
    /\ \A p, q \in Pid : phase[p] \in {"read", "check"} /\ InService(q) => met[p]
    /\ \A p \in Pid : phase[p] \in {"check", "remove"} => seen[p] = pidfile \/ met[p]

-----------------------------------------------------------------------------
(* Type correctness needs no assumption beyond those on the constants. *)

LEMMA NextPhaseType ==
    ASSUME NEW now PROVE NextPhase(now) \in Sequential \cup {"concurrent"}
BY DEF NextPhase, FirstTask, AfterSync, AfterMeta, AfterLdap, Sequential

LEMMA TypeStep == TypeOK /\ [Next]_vars => TypeOK'
<1> SUFFICES ASSUME TypeOK, [Next]_vars PROVE TypeOK'
  OBVIOUS
<1> USE DEF TypeOK
<1>1. CASE UNCHANGED vars
  BY <1>1 DEF vars
<1>2. CASE Next
  <2> PICK p \in Pid :
         \/ Launch(p) \/ Step(p)
         \/ \E t \in Concurrent : FinishConcurrent(p, t)
         \/ TaskFatal(p) \/ Terminate(p) \/ Crash(p) \/ OtherProgram(p)
    BY <1>2 DEF Next
  <2>1. CASE Launch(p)
    BY <2>1 DEF Launch, Goto, Starting
  <2>2. CASE ReadPidfile(p)
    <3>1. phase' \in [Pid -> {"off", "other"} \cup Starting \cup Awaiting]
      BY <2>2 DEF ReadPidfile, Goto, Starting
    <3>2. phase'[p] = "check" => seen'[p] \in Pid
      BY <2>2, DaemonAssumption DEF ReadPidfile, Goto
    <3> QED BY <2>2, <3>1, <3>2 DEF ReadPidfile, Goto
  <2>3. CASE CheckRunning(p)
    BY <2>3 DEF CheckRunning, Goto, Starting
  <2>4. CASE RemoveStale(p)
    BY <2>4 DEF RemoveStale, Goto, Starting
  <2>5. CASE OpenPidfile(p)
    BY <2>5 DEF OpenPidfile, Goto, Starting
  <2>6. CASE WritePid(p)
    BY <2>6 DEF WritePid, Goto, Awaiting
  <2>7. CASE Advance(p)
    BY <2>7, NextPhaseType DEF Advance, Goto, Awaiting, Sequential
  <2>8. CASE Gathered(p)
    BY <2>8 DEF Gathered, Goto, Awaiting
  <2>9. CASE \E t \in Concurrent : FinishConcurrent(p, t)
    BY <2>9 DEF FinishConcurrent
  <2>10. CASE TaskFatal(p) \/ Terminate(p) \/ Crash(p)
    BY <2>10 DEF TaskFatal, Terminate, Crash, Exit, Goto
  <2>11. CASE OtherProgram(p)
    BY <2>11 DEF OtherProgram, Goto
  <2> QED BY <2>1, <2>2, <2>3, <2>4, <2>5, <2>6, <2>7, <2>8, <2>9, <2>10,
             <2>11 DEF Step
<1> QED BY <1>1, <1>2

\* Every step leaves the variables in their types; in particular the pid that
\* CheckRunning passes to os.kill is one (TaskDaemon!TypeOK, 121-134).
THEOREM TypeCorrect == Spec => []TypeOK
<1>1. Init => TypeOK
  BY DEF Init, TypeOK
<1> QED BY <1>1, TypeStep, PTL DEF Spec

-----------------------------------------------------------------------------
(* Two daemons are never in service. *)

LEMMA ExclusiveStep ==
    ASSUME OneStarter, IInv, TypeOK', [Next]_vars
    PROVE  ServiceOwnsPidfile' /\ StarterInv'
<1> USE DaemonAssumption
<1> USE DEF IInv, TypeOK, ServiceOwnsPidfile, StarterInv, IsStarting, InService,
            Goto, Starting, Awaiting, Sequential
<1>1. CASE UNCHANGED vars
  BY <1>1 DEF vars
<1>2. CASE Next
  <2> PICK p \in Pid :
         \/ Launch(p) \/ Step(p)
         \/ \E t \in Concurrent : FinishConcurrent(p, t)
         \/ TaskFatal(p) \/ Terminate(p) \/ Crash(p) \/ OtherProgram(p)
    BY <1>2 DEF Next
  <2>1. CASE Launch(p)
    BY <2>1 DEF Launch
  <2>2. CASE ReadPidfile(p)
    BY <2>2 DEF ReadPidfile
  <2>3. CASE CheckRunning(p)
    BY <2>3 DEF CheckRunning, Alive
  <2>4. CASE RemoveStale(p)
    BY <2>4 DEF RemoveStale
  <2>5. CASE OpenPidfile(p)
    BY <2>5 DEF OpenPidfile
  <2>6. CASE WritePid(p)
    BY <2>6 DEF WritePid
  <2>7. CASE Advance(p)
    BY <2>7, NextPhaseType DEF Advance
  <2>8. CASE Gathered(p)
    BY <2>8 DEF Gathered
  <2>9. CASE \E t \in Concurrent : FinishConcurrent(p, t)
    BY <2>9 DEF FinishConcurrent
  <2>10. CASE TaskFatal(p) \/ Crash(p)
    BY <2>10 DEF TaskFatal, Crash, Exit
  <2>11. CASE Terminate(p)
    BY <2>11 DEF Terminate, Exit
  <2>12. CASE OtherProgram(p)
    BY <2>12 DEF OtherProgram
  <2> QED BY <2>1, <2>2, <2>3, <2>4, <2>5, <2>6, <2>7, <2>8, <2>9, <2>10,
             <2>11, <2>12 DEF Step
<1> QED BY <1>1, <1>2

\* When starts do not overlap, the daemon in service is the one the pidfile
\* names, through kills, torn files and reused pids (ah-taskd 121-134).
THEOREM PidfileNamesService == OneStarter => (Spec => []ServiceOwnsPidfile)
<1> SUFFICES ASSUME OneStarter PROVE Spec => []ServiceOwnsPidfile
  OBVIOUS
<1>1. Init => IInv
  BY DaemonAssumption DEF Init, IInv, TypeOK, ServiceOwnsPidfile, StarterInv,
     IsStarting, InService, Starting, Awaiting, Sequential
<1>2. IInv /\ [Next]_vars => IInv'
  BY ExclusiveStep, TypeStep DEF IInv
<1>3. IInv => ServiceOwnsPidfile
  BY DEF IInv
<1> QED BY <1>1, <1>2, <1>3, PTL DEF Spec

\* Then at most one daemon is in service, for it is the one in the file.
THEOREM AtMostOneDaemon == OneStarter => (Spec => []OneDaemon)
<1>1. ServiceOwnsPidfile => OneDaemon
  BY DEF ServiceOwnsPidfile, OneDaemon
<1> QED BY <1>1, PidfileNamesService, PTL

-----------------------------------------------------------------------------
(* A start is only refused for a reason. *)

LEMMA StaleStep ==
    ASSUME OneStarter, IInv, StaleInv, IInv', [Next]_vars
    PROVE  StaleInv'
<1> USE DaemonAssumption
<1> USE DEF IInv, StaleInv, TypeOK, ServiceOwnsPidfile, StarterInv, IsStarting,
            InService, Goto, Starting, Awaiting, Sequential
<1>1. CASE UNCHANGED vars
  BY <1>1 DEF vars
<1>2. CASE Next
  <2> PICK p \in Pid :
         \/ Launch(p) \/ Step(p)
         \/ \E t \in Concurrent : FinishConcurrent(p, t)
         \/ TaskFatal(p) \/ Terminate(p) \/ Crash(p) \/ OtherProgram(p)
    BY <1>2 DEF Next
  <2>1. CASE Launch(p)
    BY <2>1 DEF Launch
  <2>2. CASE ReadPidfile(p)
    BY <2>2 DEF ReadPidfile
  <2>3. CASE CheckRunning(p)
    BY <2>3 DEF CheckRunning, Alive
  <2>4. CASE RemoveStale(p)
    BY <2>4 DEF RemoveStale
  <2>5. CASE OpenPidfile(p)
    BY <2>5 DEF OpenPidfile
  <2>6. CASE WritePid(p)
    BY <2>6 DEF WritePid
  <2>7. CASE Advance(p)
    BY <2>7, NextPhaseType DEF Advance
  <2>8. CASE Gathered(p)
    BY <2>8 DEF Gathered
  <2>9. CASE \E t \in Concurrent : FinishConcurrent(p, t)
    BY <2>9 DEF FinishConcurrent
  <2>10. CASE TaskFatal(p) \/ Crash(p)
    BY <2>10 DEF TaskFatal, Crash, Exit
  <2>11. CASE Terminate(p)
    BY <2>11 DEF Terminate, Exit
  <2>12. CASE OtherProgram(p)
    BY <2>12 DEF OtherProgram
  <2> QED BY <2>1, <2>2, <2>3, <2>4, <2>5, <2>6, <2>7, <2>8, <2>9, <2>10,
             <2>11, <2>12 DEF Step
<1> QED BY <1>1, <1>2

LEMMA RefusalStep ==
    ASSUME OneStarter, IInv, StaleInv, NEW p \in Pid,
           ReadPidfile(p) \/ CheckRunning(p) \/ RemoveStale(p),
           phase'[p] = "off"
    PROVE  met[p] \/ Misled(p)
<1> USE DaemonAssumption
<1> USE DEF IInv, StaleInv, TypeOK, Goto, Misled
<1>1. CASE ReadPidfile(p)
  BY <1>1 DEF ReadPidfile, StarterInv, IsStarting, Starting
<1>2. CASE CheckRunning(p)
  <2>1. Alive(seen[p]) /\ seen[p] \in Pid
    BY <1>2 DEF CheckRunning
  <2>2. CASE InService(seen[p])
    BY <1>2, <2>1, <2>2 DEF CheckRunning
  <2>3. CASE IsStarting(seen[p])
    BY <1>2, <2>1, <2>3 DEF CheckRunning, StarterInv, IsStarting, Starting
  <2>4. CASE phase[seen[p]] = "other"
    BY <1>2, <2>1, <2>4 DEF CheckRunning
  <2> QED BY <2>1, <2>2, <2>3, <2>4 DEF Alive, InService, IsStarting
<1>3. CASE RemoveStale(p)
  BY <1>3 DEF RemoveStale
<1> QED BY <1>1, <1>2, <1>3

\* When starts do not overlap, a start is refused only if a daemon was in service
\* when it began, or the file is torn, or its pid was given out again: the file
\* of a killed daemon alone never keeps the service down (ah-taskd 121-134).
THEOREM StaleFileIsHarmless == OneStarter => (Spec => NoSpuriousRefusal)
<1> SUFFICES ASSUME OneStarter PROVE Spec => NoSpuriousRefusal
  OBVIOUS
<1> DEFINE Refusal(p) ==
      (ReadPidfile(p) \/ CheckRunning(p) \/ RemoveStale(p)) /\ phase'[p] = "off"
<1>1. Init => IInv /\ StaleInv
  BY DaemonAssumption DEF Init, IInv, StaleInv, TypeOK, ServiceOwnsPidfile,
     StarterInv, IsStarting, InService, Starting, Awaiting, Sequential
<1>2. IInv /\ StaleInv /\ [Next]_vars => IInv' /\ StaleInv'
  BY ExclusiveStep, TypeStep, StaleStep DEF IInv
<1>3. IInv /\ StaleInv => [\A p \in Pid : Refusal(p) => met[p] \/ Misled(p)]_vars
  BY RefusalStep
<1> QED BY <1>1, <1>2, <1>3, PTL DEF Spec, NoSpuriousRefusal

-----------------------------------------------------------------------------
(* The two GETs of fetch_data on one session. *)

\* A request that is open is a try the limit allows, and has no answer yet.
OpenInv == \A g \in Get : asking[g] => try[g] <= NTry /\ answer[g] = "none"

\* The session is closed by fetch_data alone, which comes to its result when
\* every answer is there; no answer is taken back, so the result stays theirs.
ResultInv ==
    /\ result # "none" => \A g \in Get : answer[g] # "none"
    /\ DataMeansBothLists
ClosedInv == closed => result # "none"

\* Data is only what came as a list from every request.
LEMMA DataVerdict ==
    ASSUME NEW answers, Verdict(answers) = "data" PROVE answers \subseteq {"list"}
BY DEF Verdict

LEMMA VerdictType ==
    ASSUME NEW answers PROVE Verdict(answers) \in {"data", "SyncHttpError", "exit"}
BY DEF Verdict

LEMMA FetchStepKinds ==
    ASSUME [FetchNext]_fetchVars
    PROVE  \/ UNCHANGED fetchVars
           \/ FetchData
           \/ \E g \in Get : Ask(g)
           \/ \E g \in Get : Answered(g)
           \/ \E g \in Get : TryAgain(g)
           \/ \E g \in Get : Exhausted(g)
BY DEF FetchNext, FetchStep

LEMMA OpenStep ==
    ASSUME FetchTypeOK, OpenInv, [FetchNext]_fetchVars
    PROVE  FetchTypeOK' /\ OpenInv'
<1> USE FetchAssumption DEF FetchTypeOK, OpenInv
<1>1. CASE UNCHANGED fetchVars
  BY <1>1 DEF fetchVars
<1>2. CASE FetchData
  BY <1>2, VerdictType DEF FetchData, Result
<1>3. ASSUME NEW g \in Get, Ask(g) PROVE FetchTypeOK' /\ OpenInv'
  BY <1>3 DEF Ask
<1>4. ASSUME NEW g \in Get, Answered(g) PROVE FetchTypeOK' /\ OpenInv'
  BY <1>4 DEF Answered, CloseUnlessHandled, Final
<1>5. ASSUME NEW g \in Get, TryAgain(g) PROVE FetchTypeOK' /\ OpenInv'
  BY <1>5 DEF TryAgain
<1>6. ASSUME NEW g \in Get, Exhausted(g) PROVE FetchTypeOK' /\ OpenInv'
  BY <1>6 DEF Exhausted, CloseUnlessHandled
<1> QED BY FetchStepKinds, <1>1, <1>2, <1>3, <1>4, <1>5, <1>6

LEMMA ResultStep ==
    ASSUME FetchTypeOK, OpenInv, ResultInv, [FetchNext]_fetchVars
    PROVE  ResultInv'
<1> USE DEF FetchTypeOK, OpenInv, ResultInv, DataMeansBothLists
<1>1. CASE UNCHANGED fetchVars
  BY <1>1 DEF fetchVars
<1>2. CASE FetchData
  <2>1. result' = "data" => {answer[g] : g \in Get} \subseteq {"list"}
    BY <1>2, DataVerdict DEF FetchData, Result
  <2> QED BY <1>2, <2>1 DEF FetchData
<1>3. ASSUME NEW g \in Get, Ask(g) \/ Exhausted(g) PROVE ResultInv'
  BY <1>3 DEF Ask, Exhausted
<1>4. ASSUME NEW g \in Get, Answered(g) PROVE ResultInv'
  BY <1>4 DEF Answered, Final
<1>5. ASSUME NEW g \in Get, TryAgain(g) PROVE ResultInv'
  BY <1>5 DEF TryAgain
<1> QED BY FetchStepKinds, <1>1, <1>2, <1>3, <1>4, <1>5

LEMMA ClosedStep ==
    ASSUME HandleSessionClose, FetchTypeOK, ClosedInv, [FetchNext]_fetchVars
    PROVE  ClosedInv'
<1> USE DEF ClosedInv
<1>1. CASE UNCHANGED fetchVars
  BY <1>1 DEF fetchVars
<1>2. CASE FetchData
  BY <1>2, VerdictType DEF FetchData, Result
<1>3. ASSUME NEW g \in Get, Ask(g) \/ TryAgain(g) PROVE ClosedInv'
  BY <1>3 DEF Ask, TryAgain
<1>4. ASSUME NEW g \in Get, Answered(g) \/ Exhausted(g) PROVE ClosedInv'
  BY <1>4 DEF Answered, Exhausted, CloseUnlessHandled
<1> QED BY FetchStepKinds, <1>1, <1>2, <1>3, <1>4

LEMMA FetchInitial ==
    ASSUME FetchInit PROVE FetchTypeOK /\ OpenInv /\ ResultInv /\ ClosedInv
<1>1. FetchTypeOK
  <2>1. 1 \in 1..NTry + 1
    BY FetchAssumption
  <2> QED BY <2>1 DEF FetchInit, FetchTypeOK
<1>2. OpenInv /\ ResultInv /\ ClosedInv
  BY DEF FetchInit, OpenInv, ResultInv, ClosedInv, DataMeansBothLists
<1> QED BY <1>1, <1>2

\* The variables keep their types, and no request is sent once its
\* connection.retry tries are used up (httpconn 64-110).
THEOREM FetchTypeCorrect == FetchSpec => [](FetchTypeOK /\ OpenInv)
BY FetchInitial, OpenStep, PTL DEF FetchSpec

\* Whatever the server answers, in whatever order and after however many tries,
\* fetch_data passes on data only when every list has arrived (apisync 384-399).
THEOREM DataOfEveryList == FetchSpec => []DataMeansBothLists
<1>1. ResultInv => DataMeansBothLists
  BY DEF ResultInv
<1> QED BY <1>1, FetchInitial, OpenStep, ResultStep, PTL DEF FetchSpec

\* A GET that ends early leaves the session to the others, because the caller
\* closes it (handle_session_close, httpconn 116-118, apisync 360-381).
THEOREM SessionKeptOpen == HandleSessionClose => (FetchSpec => []SessionOpenWhileAsking)
<1> SUFFICES ASSUME HandleSessionClose PROVE FetchSpec => []SessionOpenWhileAsking
  OBVIOUS
<1>1. ResultInv /\ ClosedInv => SessionOpenWhileAsking
  BY DEF ResultInv, ClosedInv, SessionOpenWhileAsking
<1> QED BY <1>1, FetchInitial, OpenStep, ResultStep, ClosedStep, PTL DEF FetchSpec
=============================================================================
