--------------------------- MODULE ConcurrentTasks ---------------------------
(***************************************************************************)
(* The last three tasks of a cycle, fairshare, createdirectories and       *)
(* emailsend, run concurrently on one SQLite file, each with a session of  *)
(* its own that lives as long as the daemon.  SQLite has one writer: a     *)
(* session that flushes a change holds the write lock until it commits,    *)
(* and one that waits too long for it fails.                               *)
(***************************************************************************)
EXTENDS Integers, Sequences, FiniteSets

CONSTANTS Project, Root,                                    \* Fairshare
          User, DirProject, UserDirs, GroupDirs, Nobody, NoUid, \* Directories
          Mail, RoundOf, LastRound,                         \* MailTask
          NoTask,  \* nobody writes
          Faults   \* those of the three modules, "slow": a session waits more
                   \* than five seconds for the lock, "nofile": PBS's file is
                   \* missing, "notemplate": a mail's template is

VARIABLES phase,   \* the daemon: in the sequential tasks and the sleep, in
                   \* asyncio.gather, stopping after a signal, or down
          todo,    \* the tasks of this gather that have not started
          holder,  \* the session that has the write lock
          broken,  \* the sessions that need a rollback nobody gives them
          project, fsFlagged, file, loaded, buffer, fsSession, fsMarked, fsPc, untold,
          member, uids, dirFlagged, dirMarked, dir, owner, to, at, completed,
          left, dirPc,
          asked, told, unsure, mailMarked, round, waiting, mailPc

F == INSTANCE Fairshare WITH flagged <- fsFlagged, session <- fsSession,
        marked <- fsMarked, pc <- fsPc, Faults <- Faults \cap {"crash", "stop"}
D == INSTANCE Directories WITH Project <- DirProject, flagged <- dirFlagged,
        marked <- dirMarked, pc <- dirPc,
        Faults <- Faults \cap {"mkdir", "chmod", "chown", "crash", "stop"}
M == INSTANCE MailTask WITH marked <- mailMarked, pc <- mailPc

Task == {"fairshare", "createdirectories", "emailsend"}

ASSUME ConcurrentAssumption ==
    /\ F!FairshareAssumption /\ D!DirectoriesAssumption /\ M!MailAssumption
    /\ DirProject \subseteq Project /\ NoTask \notin Task
    /\ Faults \subseteq {"crash", "stop", "mkdir", "chmod", "chown", "refused", "lost",
                       "raise", "slow", "nofile", "notemplate"}

gvars == <<phase, todo, holder, broken>>
fvars == <<project, fsFlagged, file, loaded, buffer, fsSession, fsMarked, fsPc, untold>>
dvars == <<member, uids, dirFlagged, dirMarked, dir, owner, to, at, completed,
           left, dirPc>>
mvars == <<asked, told, unsure, mailMarked, round, waiting, mailPc>>
vars == <<gvars, fvars, dvars, mvars>>

\* The session has changes its task has not committed.
Dirty(t) ==
    CASE t = "fairshare" -> fsPc \notin {"idle", "opened"} /\ fsMarked # fsFlagged
      [] t = "createdirectories" -> dirPc # "idle" /\ dirMarked # dirFlagged
      [] OTHER -> mailMarked # {}
Idle(t) == CASE t = "fairshare" -> fsPc = "idle"
             [] t = "createdirectories" -> dirPc = "idle"
             [] OTHER -> mailPc = "idle"

TypeOK ==
    /\ F!TypeOK /\ D!TypeOK /\ M!TypeOK
    /\ phase \in {"sequential", "gather", "stopping", "down"}
    /\ todo \subseteq Task /\ broken \subseteq Task
    /\ holder \in Task \cup {NoTask}

Init ==
    /\ F!Init /\ D!Init /\ M!Init
    /\ phase = "sequential" /\ todo = {} /\ holder = NoTask /\ broken = {}

-----------------------------------------------------------------------------
\* The sequential tasks and the sleep: apisync, usermetadata and ldapupdate
\* commit new projects, relations, uids and mail flags.
NewProject == phase = "sequential" /\ F!NewProject
              /\ UNCHANGED <<gvars, dvars, mvars>>
NewMembers == phase = "sequential" /\ (D!Members \/ D!Uids)
              /\ UNCHANGED <<gvars, fvars, mvars>>
NewMail == phase = "sequential" /\ M!Ask
           /\ UNCHANGED <<gvars, fvars, dvars>>

\* The first SELECT on a session that needs a rollback raises, and so does the
\* commit of the finally clause: the task ends at once, and gather with
\* return_exceptions passes over it.
BeginGather ==
    /\ phase = "sequential"
    /\ phase' = "gather" /\ todo' = Task \ broken
    /\ UNCHANGED <<holder, broken, fvars, dvars, mvars>>

Start(t) == phase = "gather" /\ t \in todo /\ todo' = todo \ {t}

MayWrite(t) == holder \in {NoTask, t}

\* A flush, before a SELECT or a lazy load: the lock is kept.
Flushed(t) ==
    /\ Dirty(t) => MayWrite(t)
    /\ holder' = IF Dirty(t) THEN t ELSE holder

\* Mutant: the commit leaves the transaction open.
CommittedKept(t) ==
    /\ Dirty(t) => MayWrite(t)
    /\ UNCHANGED holder

Committed(t) ==
    /\ Dirty(t) => MayWrite(t)
    /\ holder' = IF holder = t THEN NoTask ELSE holder

-----------------------------------------------------------------------------
\* fairshare's session has nothing to flush before its commit.
FairshareStart == Start("fairshare") /\ F!OpenFile /\ UNCHANGED <<phase, holder, broken>>
FairshareWork ==
    /\ F!SelectProjects \/ F!WriteLines \/ F!Unchanged \/ F!CloseFile \/ F!SendSighup
    /\ UNCHANGED gvars
FairshareCommit == F!Commit /\ Committed("fairshare") /\ UNCHANGED <<phase, todo, broken>>
FairshareStep ==
    /\ FairshareStart \/ FairshareWork \/ FairshareCommit
    /\ UNCHANGED <<dvars, mvars>>

\* createdirectories flushes a user's flag in a SELECT that follows at once, and
\* a project's in the lazy load of the next one's users.
DirectoriesStart ==
    Start("createdirectories") /\ D!StartRun /\ UNCHANGED <<phase, holder, broken>>
DirectoriesWork ==
    /\ D!Mkdir \/ D!Chmod \/ D!Chown \/ (D!NoUser /\ D!ChownError)
    /\ UNCHANGED gvars
DirectoriesFault ==
    /\ D!MkdirError \/ D!ChmodError \/ D!ChownError
    /\ UNCHANGED <<gvars, fvars, mvars>>
DirectoriesFlush ==
    /\ dirPc = "next" /\ (dirMarked \ dirFlagged) \cap User # {}
    /\ holder = NoTask /\ holder' = "createdirectories"
    /\ UNCHANGED <<phase, todo, broken, dvars>>
DirectoriesNext ==
    D!NextOwner /\ Flushed("createdirectories") /\ UNCHANGED <<phase, todo, broken>>
DirectoriesCommit ==
    D!Commit /\ Committed("createdirectories") /\ UNCHANGED <<phase, todo, broken>>
DirectoriesStep ==
    /\ \/ DirectoriesStart \/ DirectoriesWork \/ DirectoriesFlush
       \/ DirectoriesNext \/ DirectoriesCommit
    /\ UNCHANGED <<fvars, mvars>>

\* emailsend flushes a round's flags in the SELECT of the next one.
MailStart == Start("emailsend") /\ M!StartRun /\ UNCHANGED <<phase, holder, broken>>
MailWork ==
    /\ M!Send \/ M!EndRound
    /\ UNCHANGED gvars
MailFault ==
    /\ M!Refuse \/ M!AnswerLost \/ M!Raise
    /\ UNCHANGED <<gvars, fvars, dvars>>
MailSelect == M!Select /\ Flushed("emailsend") /\ UNCHANGED <<phase, todo, broken>>
MailCommit == M!Commit /\ Committed("emailsend") /\ UNCHANGED <<phase, todo, broken>>
MailStep ==
    /\ MailStart \/ MailWork \/ MailSelect \/ MailCommit
    /\ UNCHANGED <<fvars, dvars>>

-----------------------------------------------------------------------------
\* "database is locked": the failed flush leaves the session in need of a
\* rollback, the commit in the finally clause raises and close() is not reached.
Locked(t) == "slow" \in Faults /\ Dirty(t) /\ ~MayWrite(t)
Break(t) == broken' = broken \cup {t} /\ UNCHANGED <<phase, todo, holder>>

FairshareLocked ==
    /\ fsPc = "commit" \/ phase = "stopping"
    /\ Locked("fairshare")
    /\ F!Abandon /\ Break("fairshare")
    /\ UNCHANGED <<dvars, mvars>>
DirectoriesLocked ==
    /\ dirPc \in {"next", "commit"} \/ phase = "stopping"
    /\ Locked("createdirectories")
    /\ D!Abandon /\ Break("createdirectories")
    /\ UNCHANGED <<fvars, mvars>>
MailLocked ==
    /\ mailPc \in {"select", "commit"} \/ phase = "stopping"
    /\ Locked("emailsend")
    /\ M!Abandon /\ Break("emailsend")
    /\ UNCHANGED <<fvars, dvars>>

\* gather returns when all have ended.
Gathered ==
    /\ phase \in {"gather", "stopping"}
    /\ todo = {} /\ \A t \in Task : Idle(t)
    /\ phase' = IF phase = "gather" THEN "sequential" ELSE "down"
    /\ UNCHANGED <<todo, holder, broken, fvars, dvars, mvars>>

-----------------------------------------------------------------------------
\* SIGTERM: a task that has not started never does, the others are cancelled at
\* their next await and commit in their finally clauses.
Stop ==
    /\ "stop" \in Faults /\ phase = "gather"
    /\ phase' = "stopping" /\ todo' = {}
    /\ UNCHANGED <<holder, broken, fvars, dvars, mvars>>

FairshareCancel ==
    /\ phase = "stopping"
    /\ F!Cancel /\ Committed("fairshare")
    /\ UNCHANGED <<phase, todo, broken, dvars, mvars>>
DirectoriesCancel ==
    /\ phase = "stopping"
    /\ D!Cancel /\ Committed("createdirectories")
    /\ UNCHANGED <<phase, todo, broken, fvars, mvars>>
MailCancel ==
    /\ phase = "stopping"
    /\ M!Cancel /\ Committed("emailsend")
    /\ UNCHANGED <<phase, todo, broken, fvars, dvars>>

\* The process ends: no session commits, the lock goes with its connection.
AllAbandon ==
    /\ IF fsPc = "idle" THEN UNCHANGED fvars ELSE F!Abandon
    /\ IF dirPc = "idle" THEN UNCHANGED dvars ELSE D!Abandon
    /\ IF mailPc = "idle" THEN UNCHANGED mvars ELSE M!Abandon
    /\ phase' = "down" /\ todo' = {} /\ holder' = NoTask
    /\ UNCHANGED broken

Kill == "crash" \in Faults /\ phase \in {"gather", "stopping"} /\ AllAbandon

\* SystemExit in any task leaves the event loop at once, the others amid their
\* runs.
NoFairshareFile ==
    "nofile" \in Faults /\ phase = "gather" /\ "fairshare" \in todo /\ AllAbandon
NoTemplate ==
    "notemplate" \in Faults /\ mailPc = "send" /\ waiting # {} /\ AllAbandon

\* A new process has new sessions.
Restart ==
    /\ phase = "down"
    /\ phase' = "sequential" /\ broken' = {}
    /\ UNCHANGED <<todo, holder, fvars, dvars, mvars>>

-----------------------------------------------------------------------------
Step == FairshareStep \/ DirectoriesStep \/ MailStep
Fine == NewProject \/ NewMembers \/ NewMail \/ BeginGather \/ Step \/ Gathered
Next == Fine \/ DirectoriesFault \/ MailFault
           \/ FairshareLocked \/ DirectoriesLocked \/ MailLocked
           \/ Stop \/ FairshareCancel \/ DirectoriesCancel \/ MailCancel
           \/ Kill \/ NoFairshareFile \/ NoTemplate \/ Restart

\* The event loop runs each task on, and each of its calls ends: files, SQLite
\* with its five seconds, SMTP with its timeout.  Whether the daemon comes to
\* the next gather is another matter, as the LDAP calls before it have no
\* timeout, and nobody is bound to restart it.
Fairness ==
    /\ WF_vars(FairshareStep \/ FairshareCancel)
    /\ WF_vars(DirectoriesStep \/ DirectoriesCancel)
    /\ WF_vars(MailStep \/ MailCancel)
    /\ WF_vars(Gathered)

Spec == Init /\ [][Next]_vars /\ Fairness

-----------------------------------------------------------------------------
\* What fairshare promises alone it keeps when its commit has to wait for the
\* write lock, fails for it, or another task's SystemExit ends the process: the
\* file stays one PBS can use, and a flag means a line (27-37, 91-111) that PBS
\* has read, or will with the next SIGHUP after a SIGTERM amid the close.
FileWellFormed == F!FileWellFormed
FlagMeansListed == F!FlagMeansListed
FlagMeansLoaded == F!FlagMeansLoaded

\* No mail is lost and none is repeated, except where a fault, the lock among
\* them, kept emailsend from recording what it sent (264-320).
MailRecorded == M!MailRecorded

\* The three never wait for each other for ever: whoever holds the write lock
\* comes to its commit without another lock, so gather returns (200-204), or
\* the daemon ends.
GatherEnds == phase = "gather" ~> phase # "gather"

\* Once the faults stop, in a daemon that stays up with working sessions and
\* comes to its concurrent tasks again and again, every project gets its line,
\* every user a directory and every mail goes out, whatever the interrupted and
\* failed runs before have left.
WorkDone ==
    /\ <>[][Fine]_vars
    /\ <>[](phase \in {"sequential", "gather"} /\ broken = {})
    /\ []<>(phase = "gather")
    =>
    /\ \A p \in Project : (p \in project) ~> (p \in F!Names(file))
    /\ \A u \in User : <>(u \in dirFlagged)
    /\ \A m \in Mail : []<>(m \notin asked)
=============================================================================
