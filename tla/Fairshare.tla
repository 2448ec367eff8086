------------------------------ MODULE Fairshare ------------------------------
(***************************************************************************)
(* The fairshare task: projects the cache knows and the resource_group     *)
(* file of PBS lacks are appended to the file, PBS is told by SIGHUP to    *)
(* read it again, and the cache flags are committed.  The administrator    *)
(* provides the file, possibly empty; only this task writes it.            *)
(***************************************************************************)
EXTENDS Integers, FiniteSets, SequencesExt

CONSTANTS Project,
          Root,    \* the line "hpc" every project hangs below
          Faults   \* "crash": a kill; "stop": a signal cancels the task

FairshareAssumption ==
    /\ IsFiniteSet(Project) /\ Root \notin Project
    /\ Faults \subseteq {"crash", "stop"}

VARIABLES project,  \* the projects of the cache, committed by apisync
          flagged,  \* those with is_pbsfairshare_added, committed
          file,     \* the lines of resource_group: a name and its share number
          loaded,   \* the names PBS has read
          buffer,   \* lines written to the open file but not flushed
          session,  \* the projects this run has selected
          marked,   \* those the run has flagged in its session
          pc,
          untold    \* observer: flagged by a run that was stopped before its SIGHUP,
                    \* and no SIGHUP since

vars == <<project, flagged, file, loaded, buffer, session, marked, pc, untold>>

Line == (Project \cup {Root}) \X Nat
NameOf(line) == line[1]
Names(lines) == {NameOf(lines[i]) : i \in DOMAIN lines}

TypeOK ==
    /\ project \subseteq Project /\ flagged \subseteq Project
    /\ file \in Seq(Line) /\ buffer \in Seq(Line)
    /\ loaded \subseteq Project \cup {Root}
    /\ session \subseteq Project /\ marked \subseteq Project
    /\ untold \subseteq Project
    /\ pc \in {"idle", "opened", "selected", "written", "closed", "commit"}

Init ==
    /\ project = {} /\ flagged = {}
    /\ file \in {<< >>, << <<Root, 1>> >>} /\ loaded = Names(file)
    /\ buffer = << >>
    /\ session = {} /\ marked = {}
    /\ pc = "idle" /\ untold = {}

-----------------------------------------------------------------------------
\* apisync commits projects before the concurrent tasks start.
NewProject ==
    /\ pc = "idle"
    /\ \E p \in Project \ project : project' = project \cup {p}
    /\ UNCHANGED <<flagged, file, loaded, buffer, session, marked, pc, untold>>

OpenFile ==
    /\ pc = "idle"
    /\ pc' = "opened"
    /\ UNCHANGED <<project, flagged, file, loaded, buffer, session, marked, untold>>

\* Mutant: the flags are set before the lines are written.
SelectProjectsMarked ==
    /\ pc = "opened"
    /\ session' = project
    /\ marked' = project
    /\ pc' = "selected"
    /\ UNCHANGED <<project, flagged, file, loaded, buffer, untold>>

SelectProjects ==
    /\ pc = "opened"
    /\ session' = project
    /\ marked' = flagged
    /\ pc' = "selected"
    /\ UNCHANGED <<project, flagged, file, loaded, buffer, untold>>

\* update_file numbers from nlines + 1, and from 2 behind a new root line.
Numbered(names, first) == [i \in DOMAIN names |-> <<names[i], first + i - 1>>]

NewLines(names, nlines) ==
    IF nlines = 0 THEN << <<Root, 1>> >> \o Numbered(names, 2)
    ELSE Numbered(names, nlines + 1)

\* Mutant: the flags are believed, not the file.
MissingUnflagged == session \ marked

\* Mutant: an empty file is passed over.
MissingIfAny == IF file = << >> THEN {} ELSE session \ Names(file)

Missing == session \ Names(file)

\* The new identifiers form a set: they are written in any order.
WriteLines ==
    /\ pc = "selected" /\ Missing # {}
    /\ \E names \in SetToSeqs(Missing) : buffer' = NewLines(names, Len(file))
    /\ marked' = session
    /\ pc' = "written"
    /\ UNCHANGED <<project, flagged, file, loaded, session, untold>>

\* Mutant: PBS is signalled before the file is closed.
CloseFileSignalled ==
    /\ pc = "written"
    /\ loaded' = Names(file)
    /\ file' = file \o buffer
    /\ buffer' = << >>
    /\ pc' = "commit"
    /\ UNCHANGED <<project, flagged, session, marked, untold>>

CloseFile ==
    /\ pc = "written"
    /\ file' = file \o buffer
    /\ buffer' = << >>
    /\ pc' = "closed"
    /\ UNCHANGED <<project, flagged, loaded, session, marked, untold>>

Unchanged ==
    /\ pc = "selected" /\ Missing = {}
    /\ pc' = "commit"
    /\ UNCHANGED <<project, flagged, file, loaded, buffer, session, marked, untold>>

SendSighup ==
    /\ pc = "closed"
    /\ loaded' = Names(file)
    /\ untold' = {}
    /\ pc' = "commit"
    /\ UNCHANGED <<project, flagged, file, buffer, session, marked>>

EndRun == pc' = "idle" /\ buffer' = << >> /\ session' = {} /\ marked' = {}

Commit ==
    /\ pc = "commit"
    /\ flagged' = marked
    /\ EndRun
    /\ UNCHANGED <<project, file, loaded, untold>>

\* The signal arrives at an await, of the SELECT, the read, the write or the
\* close, and a thread does what it has begun: the lines get to the file.  The
\* finally clause commits what is flagged by then, and PBS is not told.
Cancel ==
    /\ "stop" \in Faults /\ pc \in {"opened", "selected", "written"}
    /\ \/ file' = file \o buffer
       \/ /\ pc = "selected" /\ Missing # {}
          /\ \E names \in SetToSeqs(Missing) : file' = file \o NewLines(names, Len(file))
    /\ flagged' = IF pc = "opened" THEN flagged ELSE marked
    /\ untold' = IF pc = "written" THEN untold \cup (marked \ flagged) ELSE untold
    /\ EndRun
    /\ UNCHANGED <<project, loaded>>

\* The process ends amid the run: of the written lines the first few may have
\* reached the file.
Abandon ==
    /\ pc # "idle"
    /\ \E n \in 0..Len(buffer) : file' = file \o SubSeq(buffer, 1, n)
    /\ EndRun
    /\ UNCHANGED <<project, flagged, loaded, untold>>

Crash == "crash" \in Faults /\ Abandon

Run == OpenFile \/ SelectProjects \/ WriteLines \/ Unchanged \/ CloseFile
          \/ SendSighup \/ Commit
Next == NewProject \/ Run \/ Cancel \/ Crash
Spec == Init /\ [][Next]_vars

-----------------------------------------------------------------------------
\* The file stays one PBS can use, through crashes amid the write: the root
\* line first, no name twice, and share numbers that are unique because each is
\* the number of its line (update_file 27-37 derives them from the line count).
FileWellFormed ==
    /\ \A i \in DOMAIN file : file[i][2] = i
    /\ \A i, j \in DOMAIN file : NameOf(file[i]) = NameOf(file[j]) => i = j
    /\ file # << >> => NameOf(file[1]) = Root

\* A project the cache flags as added is in the file, although the flag and
\* the file are written by different steps (91-95, 108-111).
FlagMeansListed == flagged \subseteq Names(file)

\* A project the cache flags as added is one PBS knows, although the flags are
\* set before the close and the signal (91-102), unless a SIGTERM during the
\* close ended the run: its finally clause commits the flags (108-110) and the
\* SIGHUP is left to the next run with a line to add.  A kill, a lock that does
\* not come and a SystemExit leave no such project.
FlagMeansLoaded == flagged \subseteq loaded \cup untold
=============================================================================
