----------------------------- MODULE OrgAccount -----------------------------
(***************************************************************************)
(* ldap.mode "project_organisation": every project has its own subtree,    *)
(* with an entry for each of its users and a group, and the cache keeps    *)
(* its flags per project.  One user is modelled: the tasks handle users    *)
(* one after another, and no row or entry of one is read for another.      *)
(* This module has the state and the apisync task; OrgLdapUpdate and       *)
(* OrgEmailSend have the other tasks and OrgPipeline composes them.  UIDs  *)
(* and GIDs are left to FlatPipeline.                                      *)
(***************************************************************************)
EXTENDS ProjectLists

CONSTANTS Project, Key,
          ApiChoices,  \* what the API may answer for the user
          NoProject,   \* no project is being processed
          Faults       \* which failures may happen

FaultKind == {"http", "reject", "lost", "smtp", "stop", "crash"}
ApiRecord == [projects : Seq(Project), keys : SUBSET Key, status : BOOLEAN]
Fault(kind) == kind \in Faults

ASSUME OrgAssumption ==
    /\ IsFiniteSet(Project) /\ IsFiniteSet(Key) /\ NoProject \notin Project
    /\ Faults \subseteq FaultKind
    /\ ApiChoices \subseteq ApiRecord
    /\ \A r \in ApiChoices : Distinct(r.projects)

VARIABLES api,     \* what the signup API would answer now
          fetched, \* what the running apisync was answered
          db,      \* the committed row
          sess,    \* the row as the running task's session sees it
          tree,    \* the entries of each project's subtree made so far
          entry,   \* the user's entry in it
          group,   \* the projects whose group has the user as memberUid
          opened,  \* users_project_opened of the running emailsend
          pc,
          cur,     \* the project in work
          todo,    \* the projects that still wait in this stage, in order
          guarded, \* an LDAPError is caught (651), and identifier is passed
          quiet    \* undisturbed full cycles (observer), -1: a disturbed one

vars == <<api, fetched, db, sess, tree, entry, group, opened, pc, cur, todo,
          guarded, quiet>>

-----------------------------------------------------------------------------
\* A JSON column that maps projects to booleans: FALSE is "due", TRUE "done".
Flags == [Project -> {"absent", "due", "done"}]
NoFlags == [p \in Project |-> "absent"]
Due(flags) == {p \in Project : flags[p] = "due"}
Held(flags) == {p \in Project : flags[p] # "absent"}
Put(flags, ps, value) == [p \in Project |-> IF p \in ps THEN value ELSE flags[p]]

KeyNotice == {"ADD", "DEL"} \X Key
Row == [known : BOOLEAN, is_active : BOOLEAN, is_deactivated : BOOLEAN,
        is_opened : BOOLEAN, projects_api : Seq(Project),
        project : SUBSET Project, sshkeys_api : SUBSET Key,
        sshkey : SUBSET Key, mail_name_sshkey : SUBSET KeyNotice,
        is_activated_project : Flags, is_deactivated_project : Flags,
        mail_project_is_activated : Flags, mail_project_is_deactivated : Flags,
        mail_project_is_opensend : Flags, mail_project_is_sshkeyadded : Flags,
        mail_project_is_sshkeyremoved : Flags]

BlankRow == [known |-> FALSE, is_active |-> FALSE, is_deactivated |-> FALSE,
             is_opened |-> FALSE, projects_api |-> << >>,
             project |-> {}, sshkeys_api |-> {},
             sshkey |-> {}, mail_name_sshkey |-> {},
             is_activated_project |-> NoFlags, is_deactivated_project |-> NoFlags,
             mail_project_is_activated |-> NoFlags,
             mail_project_is_deactivated |-> NoFlags,
             mail_project_is_opensend |-> NoFlags,
             mail_project_is_sshkeyadded |-> NoFlags,
             mail_project_is_sshkeyremoved |-> NoFlags]

\* o=PROJECT-p, ou=People, ou=Group
WholeTree == 3
PeopleTree == 2
Entry == [exists : BOOLEAN, shell : {"bash", "nologin"}, keys : SUBSET Key]
NoEntry == [exists |-> FALSE, shell |-> "bash", keys |-> {}]
NothingFetched == [projects |-> << >>, keys |-> {}, status |-> FALSE]

Commit(row) == db' = row /\ sess' = row

QuietMax == 2
Disturbed == quiet' = -1
EndCycleQuiet == quiet' = IF quiet < QuietMax THEN quiet + 1 ELSE quiet

LdapPc == {"project", "grow", "entry", "sync", "keys", "deactivate", "activate",
           "inactive", "groups", "commit"}
MailPc == {"mailactivate", "maildeactivate", "mailaccount", "mailkey", "mailcommit"}

TypeOK ==
    /\ api \in ApiChoices /\ fetched \in ApiRecord
    /\ db \in Row /\ sess \in Row
    /\ tree \in [Project -> 0..WholeTree]
    /\ entry \in [Project -> Entry]
    /\ group \subseteq Project /\ opened \subseteq Project
    /\ pc \in {"sleep", "fetch", "sync api", "down"} \cup LdapPc \cup MailPc
    /\ cur \in Project \cup {NoProject}
    /\ todo \in Seq(Project)
    /\ guarded \in BOOLEAN
    /\ quiet \in -1..QuietMax

-----------------------------------------------------------------------------
\* apisync.  The two GETs of one cycle are one step here (FlatPipeline has
\* both), and so is everything up to the commit.
FetchData ==
    /\ pc = "fetch"
    /\ fetched' = api
    /\ pc' = "sync api"
    /\ UNCHANGED <<api, db, sess, tree, entry, group, opened, cur, todo, guarded, quiet>>

FetchError ==
    /\ pc = "fetch" /\ Fault("http")
    /\ todo' = db.projects_api
    /\ pc' = "project"
    /\ Disturbed
    /\ UNCHANGED <<api, fetched, db, sess, tree, entry, group, opened, cur, guarded>>

Listed == fetched.projects # << >> /\ fetched.keys # {}
ApiKeys == IF Listed THEN fetched.keys ELSE {}

CheckUsersInactive(row) ==
    IF row.known /\ row.is_active /\ ~row.is_deactivated /\ fetched.projects = << >>
    THEN [row EXCEPT !.projects_api = << >>, !.is_active = FALSE]
    ELSE row

\* The flags of the projects the API lists: those that are new are due, and a
\* project that was left asks for its activation.
NewFlags(row, ps) ==
    LET fresh(flags) == Put(flags, ps \ Held(flags), "due")
        back == (ps \cap Held(row.is_deactivated_project))
                    \ Held(row.is_activated_project)
    IN  [row EXCEPT !.mail_project_is_opensend = fresh(@),
                    !.mail_project_is_sshkeyadded = fresh(@),
                    !.mail_project_is_sshkeyremoved = fresh(@),
                    !.is_activated_project = Put(@, back, "due")]

\* Once a project was both deactivated and activated its flags start afresh.
OverAndDone(row, ps) ==
    {p \in ps : row.is_activated_project[p] = "done"
                /\ row.is_deactivated_project[p] = "done"}
\* Mutant: the mail flags are forgotten.
ResetFlagsKept(row, ps) ==
    LET over == OverAndDone(row, ps)
    IN  [row EXCEPT !.is_activated_project = Put(@, over, "absent"),
                    !.mail_project_is_activated = Put(@, over, "absent"),
                    !.mail_project_is_deactivated = Put(@, over, "absent")]
ResetFlags(row, ps) ==
    LET over == OverAndDone(row, ps)
    IN  [row EXCEPT !.is_activated_project = Put(@, over, "absent"),
                    !.is_deactivated_project = Put(@, over, "absent"),
                    !.mail_project_is_activated = Put(@, over, "absent"),
                    !.mail_project_is_deactivated = Put(@, over, "absent")]

UsersProjectsAdd(row) ==
    LET ps == SetOf(fetched.projects)
    IN  IF Listed
        THEN [ResetFlags(NewFlags(row, ps), ps)
                EXCEPT !.known = TRUE, !.is_active = fetched.status,
                       !.projects_api = AppendMissing(@, fetched.projects)]
        ELSE row

\* The projects that were left lose their mail flags and ask for deactivation.
\* Mutant: one that was deactivated before is not asked for again.
UsersProjectsDelOnce(row) ==
    LET gone == SetOf(row.projects_api) \ SetOf(fetched.projects)
    IN  IF Listed /\ Len(row.projects_api) > Len(fetched.projects)
        THEN [row EXCEPT !.projects_api = fetched.projects,
                         !.mail_project_is_opensend = Put(@, gone, "absent"),
                         !.mail_project_is_sshkeyadded = Put(@, gone, "absent"),
                         !.mail_project_is_sshkeyremoved = Put(@, gone, "absent"),
                         !.is_deactivated_project = Put(@, gone \ Held(@), "due")]
        ELSE row
UsersProjectsDel(row) ==
    LET gone == SetOf(row.projects_api) \ SetOf(fetched.projects)
    IN  IF Listed /\ Len(row.projects_api) > Len(fetched.projects)
        THEN [row EXCEPT !.projects_api = fetched.projects,
                         !.mail_project_is_opensend = Put(@, gone, "absent"),
                         !.mail_project_is_sshkeyadded = Put(@, gone, "absent"),
                         !.mail_project_is_sshkeyremoved = Put(@, gone, "absent"),
                         !.is_deactivated_project = Put(@, gone, "due")]
        ELSE row

SshkeysAdd(row) == [row EXCEPT !.sshkeys_api = @ \cup ApiKeys]
SshkeysDel(row) ==
    IF row.known /\ Cardinality(row.sshkey) > Cardinality(ApiKeys)
    THEN [row EXCEPT !.sshkeys_api = ApiKeys]
    ELSE row

SyncedRow == SshkeysDel(SshkeysAdd(UsersProjectsDel(UsersProjectsAdd(
                 CheckUsersInactive(sess)))))

SyncCache ==
    /\ pc = "sync api"
    /\ Commit(SyncedRow)
    /\ todo' = SyncedRow.projects_api
    /\ fetched' = NothingFetched
    /\ pc' = "project"
    /\ UNCHANGED <<api, tree, entry, group, opened, cur, guarded, quiet>>
=============================================================================
