----------------------------- MODULE OrgPipeline -----------------------------
(***************************************************************************)
(* The cycle of ah-taskd over apisync, ldapupdate and emailsend with       *)
(* ldap.mode "project_organisation", for one user on several projects.     *)
(***************************************************************************)
EXTENDS OrgLdapUpdate, OrgEmailSend

Init ==
    /\ api \in ApiChoices
    /\ fetched = NothingFetched
    /\ db = BlankRow /\ sess = db
    /\ tree = [p \in Project |-> 0]
    /\ entry = [p \in Project |-> NoEntry]
    /\ group = {} /\ opened = {} /\ todo = << >>
    /\ cur = NoProject /\ guarded = TRUE
    /\ pc = "sleep"
    /\ quiet = 0

\* The signup API changes at any time; what it answers is only read in "fetch".
ApiChange ==
    /\ pc \in {"sleep", "fetch"}
    /\ api' \in ApiChoices \ {api}
    /\ quiet' = IF pc = "sleep" THEN 0 ELSE -1
    /\ UNCHANGED <<fetched, db, sess, tree, entry, group, opened, pc, cur, todo,
                   guarded>>

StartCycle ==
    /\ pc = "sleep"
    /\ pc' = "fetch"
    /\ UNCHANGED <<api, fetched, db, sess, tree, entry, group, opened, cur, todo,
                   guarded, quiet>>

\* SIGTERM or SIGINT: emailsend commits in its finally clause, apisync and
\* ldapupdate lose what they did to the cache.
CancelMails ==
    /\ pc \in MailPc /\ Fault("stop")
    /\ db' = sess /\ UNCHANGED sess
    /\ pc' = "down"
    /\ fetched' = NothingFetched
    /\ todo' = << >> /\ opened' = {} /\ cur' = NoProject /\ guarded' = TRUE
    /\ Disturbed
    /\ UNCHANGED <<api, tree, entry, group>>

Cancel ==
    /\ pc \notin MailPc \cup {"down"} /\ Fault("stop")
    /\ Abandon
    /\ UNCHANGED <<api, db, tree, entry, group>>

\* SIGKILL, a power failure, or an exception no handler catches.
Die ==
    /\ pc # "down" /\ Fault("crash")
    /\ Abandon
    /\ UNCHANGED <<api, db, tree, entry, group>>

Start ==
    /\ pc = "down"
    /\ pc' = "sleep"
    /\ quiet' = 0
    /\ UNCHANGED <<api, fetched, db, sess, tree, entry, group, opened, cur, todo,
                   guarded>>

DaemonStep == StartCycle \/ FetchData \/ SyncCache \/ LdapUpdate \/ EmailSend

Environment ==
    \/ ApiChange \/ FetchError \/ LdapUpdateFails
    \/ CancelMails \/ Cancel \/ Die \/ Start

Next == DaemonStep \/ Environment

Spec == Init /\ [][Next]_vars
-----------------------------------------------------------------------------
\* Properties, judged at "sleep" after n undisturbed cycles.
Settled(n) == pc = "sleep" /\ quiet >= n
ApiListed == api.projects # << >> /\ api.keys # {}

\* A project that a listed user has left keeps no login: users_projects_del
\* (apisync 166-177) asks for it and _user_active_deactive_project_org (235-246)
\* carries it out, however often the user left and came back.
LeaverLosesLogin ==
    Settled(2) /\ ApiListed =>
        \A p \in Project \ SetOf(api.projects) :
            entry[p].exists => entry[p].shell = "nologin"

\* Every project of a listed user has its subtree, the user's entry in it and
\* the user in its group, after one undisturbed cycle (ldapupdate 627-653).
EntriesFollowApi ==
    Settled(1) /\ ApiListed =>
        /\ \A p \in SetOf(api.projects) : tree[p] = WholeTree /\ entry[p].exists
        /\ group = SetOf(api.projects)

\* A committed deactivation that no activation followed is in force in LDAP: the
\* shell is changed before the flag (239-245) and both are committed together.
DeactivatedIsLocked ==
    \A p \in Project :
        db.is_deactivated_project[p] = "done" /\ db.is_activated_project[p] = "absent"
            => entry[p].shell = "nologin"

\* The flags that apisync deletes without looking (172-174, 245-248) are there:
\* a KeyError would end the daemon in every cycle to come.
DeletedFlagsExist ==
    /\ SetOf(sess.projects_api) \subseteq
           Held(sess.mail_project_is_opensend)
           \cap Held(sess.mail_project_is_sshkeyadded)
           \cap Held(sess.mail_project_is_sshkeyremoved)
    /\ OverAndDone(sess, Project) \subseteq
           Held(sess.mail_project_is_activated)
           \cap Held(sess.mail_project_is_deactivated)

\* ldap_user[0] (239, 249, 257) is never taken of an empty search: every project
\* whose shell is to be changed has the user's entry.  Without LDAP failures
\* and stops, an IndexError does not end the daemon.
ShellTargetsExist == \A p \in ShellTargets : entry[p].exists

\* No mail about an account of a project is owed once the cycles run
\* undisturbed.
AllNoticesSent ==
    Settled(2) =>
        Due(db.mail_project_is_opensend) \cup Due(db.mail_project_is_activated)
            \cup Due(db.mail_project_is_deactivated) = {}

\* The keys reach every project's entry.  A comment (ldapupdate 345-346) says that
\* the relation is updated only at the last project, "ensuring that SSH keys
\* will be propagated for all LDAP subtrees/projects".
KeysReachAllProjects ==
    Settled(2) /\ ApiListed =>
        \A p \in SetOf(api.projects) : entry[p].keys = api.keys

\* A user without projects has no login: check_users_inactive (352-354) reports
\* the users "without any registered project" and "Nullifying user.projects_api
\* and setting user.is_active=0,ldap_gid=0 for such".
GoneIsNullified ==
    Settled(2) /\ api.projects = << >> =>
        db.projects_api = << >> /\ ~db.is_active
=============================================================================
