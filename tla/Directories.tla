----------------------------- MODULE Directories -----------------------------
(***************************************************************************)
(* The createdirectories task: for every user, then for every project,     *)
(* whose flag is not set, make the directory below each configured path    *)
(* and hand it over.  The flags are committed once, at the end of the run, *)
(* and the file system forgets nothing.                                    *)
(***************************************************************************)
EXTENDS Integers, Sequences, FiniteSets

CONSTANTS User, Project,
          UserDirs,   \* usersetup.userdirs_in, in order
          GroupDirs,  \* usersetup.groupdirs_in, in order
          Nobody,     \* no directory is being made
          NoUid,      \* ldap_uid = 0: what is chowned to it stays root's
          Faults      \* "mkdir", "chmod", "chown": the call may fail;
                      \* "crash": a kill; "stop": a signal cancels the task

Owner == User \cup Project
SetOf(s) == {s[i] : i \in DOMAIN s}

DirectoriesAssumption ==
    /\ IsFiniteSet(User) /\ IsFiniteSet(Project)
    /\ User \cap Project = {} /\ Nobody \notin Owner /\ NoUid \notin User
    /\ UserDirs \in Seq(STRING) \ {<< >>} /\ GroupDirs \in Seq(STRING) \ {<< >>}
    /\ Faults \subseteq {"mkdir", "chmod", "chown", "crash", "stop"}

ASSUME DirectoriesConstants == DirectoriesAssumption

\* All owners are in the cache from the start: rows are independent, and one
\* that apisync adds later meets the same steps in a later run.
VARIABLES member,    \* the users of each project, committed by ldapupdate
          uids,      \* the users whose ldap_uid usermetadata has set
          flagged,   \* the owners with is_dir_created, committed
          marked,    \* those flagged in the run's session
          dir,       \* what stands below each path
          owner,     \* whose directories are being made
          to,        \* the uid they are given to: the user's, or the first of
                     \* the project's users
          at,        \* the path that is next, an index
          completed, \* the paths that were done for this owner
          left,      \* the owners still to come in this run
          pc

vars == <<member, uids, flagged, marked, dir, owner, to, at, completed, left, pc>>

Paths(o) == IF o \in User THEN UserDirs ELSE GroupDirs
Path == SetOf(UserDirs) \cup SetOf(GroupDirs)
Uid == User \cup {NoUid}
UidOf(u) == IF u \in uids THEN u ELSE NoUid

TypeOK ==
    /\ member \in [Project -> SUBSET User] /\ uids \subseteq User
    /\ flagged \subseteq Owner /\ marked \subseteq Owner
    /\ dir \in [Owner \X Path -> {"none", "made", "setgid"} \cup Uid]
    /\ owner \in Owner \cup {Nobody} /\ to \in Uid \cup {Nobody}
    /\ owner # Nobody => at \in 1..Len(Paths(owner)) + 1 /\ completed \in 0..at - 1
    /\ left \subseteq Owner
    /\ pc \in {"idle", "next", "mkdir", "chmod", "chown", "commit"}

Init ==
    /\ member = [p \in Project |-> {}] /\ uids = {}
    /\ flagged = {} /\ marked = {}
    /\ dir = [x \in Owner \X Path |-> "none"]
    /\ owner = Nobody /\ to = Nobody /\ at = 1 /\ completed = 0 /\ left = {}
    /\ pc = "idle"

Here == <<owner, Paths(owner)[at]>>

-----------------------------------------------------------------------------
\* ldapupdate commits another relation between two runs ...
Members ==
    /\ pc = "idle"
    /\ \E p \in Project : \E us \in SUBSET User : member' = [member EXCEPT ![p] = us]
    /\ UNCHANGED <<uids, flagged, marked, dir, owner, to, at, completed, left, pc>>

\* ... and usermetadata the uid of a user that has become active.
Uids ==
    /\ pc = "idle"
    /\ \E u \in User \ uids : uids' = uids \cup {u}
    /\ UNCHANGED <<member, flagged, marked, dir, owner, to, at, completed, left, pc>>

StartRun ==
    /\ pc = "idle"
    /\ marked' = flagged
    /\ left' = Owner \ flagged
    /\ pc' = "next"
    /\ UNCHANGED <<member, uids, flagged, dir, owner, to, at, completed>>

\* A user's own uid; for a project that of userown_aw[0], one of its users.
OwnersUid(o) ==
    IF o \in User THEN {UidOf(o)}
    ELSE IF member[o] = {} THEN {Nobody} ELSE {UidOf(u) : u \in member[o]}

\* Mutant: the count goes on from the owner before.
NextOwnerKept ==
    /\ pc = "next" /\ left # {}
    /\ owner' \in IF left \cap User # {} THEN left \cap User ELSE left
    /\ left' = left \ {owner'}
    /\ to' \in OwnersUid(owner')
    /\ at' = 1
    /\ pc' = "mkdir"
    /\ UNCHANGED <<member, uids, flagged, marked, dir, completed>>

\* Users first, then projects.
NextOwner ==
    /\ pc = "next" /\ left # {}
    /\ owner' \in IF left \cap User # {} THEN left \cap User ELSE left
    /\ left' = left \ {owner'}
    /\ to' \in OwnersUid(owner')
    /\ at' = 1 /\ completed' = 0
    /\ pc' = "mkdir"
    /\ UNCHANGED <<member, uids, flagged, marked, dir>>

\* After a path: the next one, or the flag when every path was completed.
MoveOn(count) ==
    IF at < Len(Paths(owner))
    THEN /\ at' = at + 1 /\ completed' = count /\ pc' = "mkdir"
         /\ UNCHANGED <<owner, to, marked>>
    ELSE /\ marked' = IF count = Len(Paths(owner)) THEN marked \cup {owner}
                                                  ELSE marked
         /\ owner' = Nobody /\ to' = Nobody /\ completed' = count /\ pc' = "next"
         /\ UNCHANGED at

\* Mutant: a directory that is there already is an error, too.
MkdirExistsFails ==
    /\ pc = "mkdir"
    /\ IF dir[Here] = "none"
       THEN /\ dir' = [dir EXCEPT ![Here] = "made"]
            /\ pc' = IF owner \in User THEN "chown" ELSE "chmod"
            /\ UNCHANGED <<owner, to>>
       ELSE pc' = "next" /\ owner' = Nobody /\ to' = Nobody /\ UNCHANGED dir
    /\ UNCHANGED <<member, uids, flagged, marked, at, completed, left>>

\* Mutant: a directory that is there already counts as done.
MkdirExistsCounted ==
    /\ pc = "mkdir"
    /\ IF dir[Here] = "none"
       THEN /\ dir' = [dir EXCEPT ![Here] = "made"]
            /\ pc' = IF owner \in User THEN "chown" ELSE "chmod"
            /\ UNCHANGED <<owner, to, at, completed, marked>>
       ELSE MoveOn(completed + 1) /\ UNCHANGED dir
    /\ UNCHANGED <<member, uids, flagged, left>>

\* mkdir of a directory that is there already is no error.
Mkdir ==
    /\ pc = "mkdir"
    /\ dir' = [dir EXCEPT ![Here] = IF @ = "none" THEN "made" ELSE @]
    /\ pc' = IF owner \in User THEN "chown" ELSE "chmod"
    /\ UNCHANGED <<member, uids, flagged, marked, owner, to, at, completed, left>>

\* Any other error breaks the loop over the paths; the count stays short.
MkdirError ==
    /\ pc = "mkdir" /\ "mkdir" \in Faults
    /\ dir[Here] = "none"
    /\ pc' = "next" /\ owner' = Nobody /\ to' = Nobody
    /\ UNCHANGED <<member, uids, flagged, marked, dir, at, completed, left>>

Chmod ==
    /\ pc = "chmod"
    /\ dir' = [dir EXCEPT ![Here] = IF @ = "made" THEN "setgid" ELSE @]
    /\ pc' = "chown"
    /\ UNCHANGED <<member, uids, flagged, marked, owner, to, at, completed, left>>

\* Only the outermost handler catches a PermissionError of os.chmod: the rest
\* of the run is given up.
ChmodError ==
    /\ pc = "chmod" /\ "chmod" \in Faults
    /\ pc' = "commit"
    /\ owner' = Nobody /\ to' = Nobody /\ left' = {}
    /\ UNCHANGED <<member, uids, flagged, marked, dir, at, completed>>

\* userown_aw[0] of a project without users is an IndexError.
NoUser == pc = "chown" /\ to = Nobody

\* Mutant: a failed chown is counted as well.
ChownErrorCounted ==
    /\ pc = "chown"
    /\ "chown" \in Faults \/ NoUser
    /\ MoveOn(completed + 1)
    /\ UNCHANGED <<member, uids, flagged, dir, left>>

\* chown fails, or the project has no user to give the directory to.
ChownError ==
    /\ pc = "chown"
    /\ "chown" \in Faults \/ NoUser
    /\ MoveOn(completed)
    /\ UNCHANGED <<member, uids, flagged, dir, left>>

Chown ==
    /\ pc = "chown" /\ to # Nobody
    /\ dir' = [dir EXCEPT ![Here] = to]
    /\ MoveOn(completed + 1)
    /\ UNCHANGED <<member, uids, flagged, left>>

-----------------------------------------------------------------------------
EndRun == /\ pc' = "idle" /\ owner' = Nobody /\ to' = Nobody
          /\ at' = 1 /\ completed' = 0 /\ left' = {} /\ marked' = {}

\* The finally clause.
Commit ==
    /\ pc = "commit" \/ (pc = "next" /\ left = {})
    /\ flagged' = marked
    /\ EndRun
    /\ UNCHANGED <<member, uids, dir>>

\* The signal arrives at an await, and the finally clause commits.
Cancel ==
    /\ "stop" \in Faults /\ pc \in {"mkdir", "chmod", "chown"}
    /\ flagged' = marked
    /\ EndRun
    /\ UNCHANGED <<member, uids, dir>>

\* The process ends amid the run: nothing is committed.
Abandon == pc # "idle" /\ EndRun /\ UNCHANGED <<member, uids, flagged, dir>>
Crash == "crash" \in Faults /\ Abandon

Run == StartRun \/ NextOwner \/ Mkdir \/ Chmod \/ Chown \/ Commit
          \/ (NoUser /\ ChownError)
Next == Members \/ Uids \/ Run \/ MkdirError \/ ChmodError \/ ChownError
           \/ Cancel \/ Crash
Spec == Init /\ [][Next]_vars /\ WF_vars(Run)

-----------------------------------------------------------------------------
\* A set flag is final: nothing looks at the directories of that owner again.
\* So it may only be committed when all of them belong to one uid, a user's
\* to that user (or to root, when usermetadata had none for the user yet):
\* whichever calls failed in this run or an earlier one, and whoever was the
\* project's first user then (39-62, 82-113).
FlagMeansOwned ==
    \A o \in flagged : \E who \in Uid :
        /\ o \in User => who \in {o, NoUid}
        /\ \A d \in SetOf(Paths(o)) : dir[<<o, d>>] = who

\* A directory that an earlier, failed run left half made is completed once the
\* calls succeed, and a project gets its directories once it keeps a user.
DirectoriesAppear ==
    <>[][Members \/ Uids \/ Run]_vars =>
        /\ \A u \in User : <>(u \in flagged)
        /\ \A p \in Project : <>[](member[p] # {}) => <>(p \in flagged)
=============================================================================
