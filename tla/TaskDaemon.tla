----------------------------- MODULE TaskDaemon -----------------------------
(***************************************************************************)
(* ah-taskd: the pidfile that keeps a second daemon away, and the cycle of *)
(* tasks.  The first tasks run one after the other, the last ones          *)
(* concurrently; then the daemon sleeps.  A process is its PID.            *)
(***************************************************************************)
EXTENDS Integers, FiniteSets

CONSTANTS Pid,
          CallList,   \* the tasks of the configuration
          NoPid,      \* no pidfile: _read_pidfile answers 0
          Torn,       \* a pidfile that is created but not written yet
          OneStarter, \* TRUE: a daemon is only started when none is starting
          Faults      \* "crash": a kill; "torn": also between open and write;
                      \* "reuse": a dead daemon's PID is given out again

Sequential == {"apisync", "usermetadata", "ldapupdate"}
Concurrent == {"fairshare", "createdirectories", "emailsend"}

ASSUME DaemonAssumption ==
    /\ NoPid \notin Pid /\ Torn \notin Pid /\ NoPid # Torn
    /\ CallList \subseteq Sequential \cup Concurrent
    /\ OneStarter \in BOOLEAN
    /\ Faults \subseteq {"crash", "torn", "reuse"}

VARIABLES pidfile,  \* what the file holds
          phase,    \* where each process is; "other" is an unrelated program
          seen,     \* the pid a starting daemon has read
          running,  \* the concurrent tasks that are not done yet
          met       \* observer: a daemon was in service when this one started

vars == <<pidfile, phase, seen, running, met>>

Starting == {"read", "check", "remove", "open", "write"}
\* The phases with an await, where a signal is delivered.
Awaiting == {"delay", "sleep", "concurrent"} \cup Sequential

TypeOK ==
    /\ pidfile \in Pid \cup {NoPid, Torn}
    /\ phase \in [Pid -> {"off", "other"} \cup Starting \cup Awaiting]
    /\ seen \in [Pid -> Pid \cup {NoPid, Torn}]
    /\ \A p \in Pid : phase[p] \in {"check", "remove"} => seen[p] \in Pid
    /\ running \in [Pid -> SUBSET Concurrent]
    /\ met \in [Pid -> BOOLEAN]

Init ==
    /\ pidfile = NoPid
    /\ phase = [p \in Pid |-> "off"]
    /\ seen = [p \in Pid |-> NoPid]
    /\ running = [p \in Pid |-> {}]
    /\ met = [p \in Pid |-> FALSE]

Alive(p) == phase[p] # "off"
IsStarting(p) == phase[p] \in Starting
InService(p) == phase[p] \in Awaiting

Goto(p, next) == phase' = [phase EXCEPT ![p] = next]
Exit(p) == Goto(p, "off") /\ running' = [running EXCEPT ![p] = {}]

-----------------------------------------------------------------------------
\* The start.  There is no await in it, so no signal handler runs.
Launch(p) ==
    /\ phase[p] = "off"
    /\ OneStarter => \A q \in Pid : ~IsStarting(q)
    /\ "reuse" \in Faults \/ pidfile # p
    /\ Goto(p, "read")
    /\ met' = [met EXCEPT ![p] = \E q \in Pid : InService(q)]
    /\ UNCHANGED <<pidfile, seen, running>>

\* Mutants: the file's presence alone is taken for a running daemon; a missing
\* file is not told from one with a pid.
ReadPidfileRefuses(p) ==
    /\ phase[p] = "read"
    /\ seen' = [seen EXCEPT ![p] = pidfile]
    /\ Goto(p, IF pidfile = NoPid THEN "open" ELSE "off")
    /\ UNCHANGED <<pidfile, running, met>>

ReadPidfileAny(p) ==
    /\ phase[p] = "read"
    /\ seen' = [seen EXCEPT ![p] = pidfile]
    /\ Goto(p, IF pidfile = Torn THEN "off" ELSE "check")
    /\ UNCHANGED <<pidfile, running, met>>

\* int("") of a file that is created but not written is a ValueError, which
\* _read_pidfile does not catch.
ReadPidfile(p) ==
    /\ phase[p] = "read"
    /\ seen' = [seen EXCEPT ![p] = pidfile]
    /\ Goto(p, CASE pidfile = Torn -> "off"
                 [] pidfile = NoPid -> "open"
                 [] OTHER -> "check")
    /\ UNCHANGED <<pidfile, running, met>>

\* Mutant: the test is inverted.
CheckRunningInverted(p) ==
    /\ phase[p] = "check"
    /\ Goto(p, IF Alive(seen[p]) THEN "remove" ELSE "off")
    /\ UNCHANGED <<pidfile, seen, running, met>>

\* os.kill(pid, 0) finds whatever process has the pid, the caller included.
CheckRunning(p) ==
    /\ phase[p] = "check"
    /\ Goto(p, IF Alive(seen[p]) THEN "off" ELSE "remove")
    /\ UNCHANGED <<pidfile, seen, running, met>>

RemoveStale(p) ==
    /\ phase[p] = "remove"
    /\ Goto(p, IF pidfile = NoPid THEN "off" ELSE "open")
    /\ pidfile' = NoPid
    /\ UNCHANGED <<seen, running, met>>

\* open(..., 'w') truncates; an OSError ends the daemon (AhTaskError).
OpenPidfile(p) ==
    /\ phase[p] = "open"
    /\ \/ pidfile' = Torn /\ Goto(p, "write")
       \/ Goto(p, "off") /\ UNCHANGED pidfile
    /\ UNCHANGED <<seen, running, met>>

WritePid(p) ==
    /\ phase[p] = "write"
    /\ pidfile' = p
    /\ Goto(p, "delay")
    /\ UNCHANGED <<seen, running, met>>

-----------------------------------------------------------------------------
\* The task that follows, the ones missing from call_list being passed over.
AfterLdap == "concurrent"
AfterMeta == IF "ldapupdate" \in CallList THEN "ldapupdate" ELSE AfterLdap
\* Mutant: usermetadata is an alternative to apisync.
AfterSyncSkips == IF "apisync" \in CallList THEN AfterMeta ELSE "usermetadata"
AfterSync == IF "usermetadata" \in CallList THEN "usermetadata" ELSE AfterMeta
FirstTask == IF "apisync" \in CallList THEN "apisync" ELSE AfterSync

NextPhase(now) == CASE now = "apisync" -> AfterSync
                    [] now = "usermetadata" -> AfterMeta
                    [] now = "ldapupdate" -> AfterLdap
                    [] OTHER -> FirstTask

\* asyncio.create_task of every concurrent task once the others are done.
Advance(p) ==
    /\ phase[p] \in Sequential \cup {"delay", "sleep"}
    /\ Goto(p, NextPhase(phase[p]))
    /\ running' = [running EXCEPT ![p] = IF NextPhase(phase[p]) = "concurrent"
                                         THEN Concurrent \cap CallList ELSE {}]
    /\ UNCHANGED <<pidfile, seen, met>>

\* A concurrent task returns or raises: gather collects the exception, and
\* nothing but an AhTaskError (no concurrent task has one) is raised again.
FinishConcurrent(p, t) ==
    /\ phase[p] = "concurrent" /\ t \in running[p]
    /\ running' = [running EXCEPT ![p] = @ \ {t}]
    /\ UNCHANGED <<pidfile, phase, seen, met>>

Gathered(p) ==
    /\ phase[p] = "concurrent" /\ running[p] = {}
    /\ Goto(p, "sleep")
    /\ UNCHANGED <<pidfile, seen, running, met>>

\* An exception of a sequential task, an AhTaskError of ldapupdate or the
\* SystemExit of a concurrent one: the daemon ends and the pidfile stays.
TaskFatal(p) ==
    /\ phase[p] \in Sequential \cup {"concurrent"}
    /\ phase[p] = "concurrent" => running[p] # {}
    /\ Exit(p)
    /\ UNCHANGED <<pidfile, seen, met>>

\* Mutant: a task swallows the CancelledError and the daemon goes on.
TerminateSwallowed(p) ==
    /\ InService(p)
    /\ Goto(p, "sleep")
    /\ running' = [running EXCEPT ![p] = {}]
    /\ pidfile' = NoPid
    /\ UNCHANGED <<seen, met>>

\* SIGTERM or SIGINT: every task is cancelled and the pidfile removed.
Terminate(p) ==
    /\ InService(p)
    /\ Exit(p)
    /\ pidfile' = NoPid
    /\ UNCHANGED <<seen, met>>

\* SIGKILL or a power failure.
Crash(p) ==
    /\ "crash" \in Faults
    /\ IsStarting(p) \/ InService(p)
    /\ phase[p] = "write" => "torn" \in Faults
    /\ Exit(p)
    /\ UNCHANGED <<pidfile, seen, met>>

\* An unrelated program gets a free pid, and gives it back.
OtherProgram(p) ==
    /\ \/ phase[p] = "off" /\ ("reuse" \in Faults \/ pidfile # p) /\ Goto(p, "other")
       \/ phase[p] = "other" /\ Goto(p, "off")
    /\ UNCHANGED <<pidfile, seen, running, met>>

-----------------------------------------------------------------------------
Step(p) ==
    \/ ReadPidfile(p) \/ CheckRunning(p) \/ RemoveStale(p) \/ OpenPidfile(p)
    \/ WritePid(p) \/ Advance(p) \/ Gathered(p)

Next ==
    \E p \in Pid :
        \/ Launch(p) \/ Step(p)
        \/ \E t \in Concurrent : FinishConcurrent(p, t)
        \/ TaskFatal(p) \/ Terminate(p) \/ Crash(p) \/ OtherProgram(p)

\* A living daemon's event loop runs, and every task but one ends: HTTP and SMTP
\* have timeouts, a wait for SQLite's lock has, and the rest is local.  An LDAP
\* server may hold ldapupdate for ever: connect has timeout=None (605) and none
\* of the operations has a timeout.
Fairness ==
    \A p \in Pid :
        /\ WF_vars(phase[p] # "ldapupdate" /\ Step(p))
        /\ \A t \in Concurrent : WF_vars(FinishConcurrent(p, t))

Spec == Init /\ [][Next]_vars /\ Fairness

-----------------------------------------------------------------------------
\* At most one daemon is in service: two would interleave their cycles on one
\* cache and one directory.  The pidfile (121-134) ensures it when starts do
\* not overlap, through crashes that leave a stale file behind.
OneDaemon ==
    \A p, q \in Pid : InService(p) /\ InService(q) => p = q

\* The daemon in service is the one the pidfile names; a start that is past its
\* test works on a file no daemon in service relies on.
ServiceOwnsPidfile ==
    /\ \A p \in Pid : InService(p) => pidfile = p
    /\ \A p, q \in Pid : phase[p] \in {"remove", "open", "write"} => ~InService(q)

\* A start is refused for a reason: a daemon was in service when it began, or
\* the file was torn by a kill amid its writing, or its pid is alive again, as
\* another program or as the starting daemon itself.  The file of a killed
\* daemon alone never keeps the service down (121-134).
Misled(p) == \/ pidfile \in {Torn, p}
             \/ \E q \in Pid : pidfile = q /\ phase[q] = "other"
NoSpuriousRefusal ==
    [][\A p \in Pid :
          (ReadPidfile(p) \/ CheckRunning(p) \/ RemoveStale(p)) /\ phase'[p] = "off"
              => met[p] \/ Misled(p)]_vars

\* A daemon that stays in service runs every task of call_list again and again
\* (145-221), whatever the others of the cycle do, unless an LDAP server that
\* does not answer holds it in ldapupdate for ever (171).  It hangs nowhere else.
TasksRecur ==
    \A p \in Pid : <>[]InService(p) =>
        \/ <>[](phase[p] = "ldapupdate")
        \/ /\ \A t \in Sequential \cap CallList : []<>(phase[p] = t)
           /\ \A t \in Concurrent \cap CallList : []<>(t \in running[p])
=============================================================================
