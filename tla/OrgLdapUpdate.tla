---------------------------- MODULE OrgLdapUpdate ----------------------------
(***************************************************************************)
(* The ldapupdate task with ldap.mode "project_organisation".  For every   *)
(* project of the user, in order: the subtree, the entry, the relation,    *)
(* the keys.  Then, outside every handler, the shells; then the groups and *)
(* the only commit of the task.                                            *)
(***************************************************************************)
EXTENDS OrgAccount

\* The daemon ends: the session is lost, what LDAP was told stays.
Abandon ==
    /\ pc' = "down"
    /\ sess' = db
    /\ fetched' = NothingFetched
    /\ todo' = << >> /\ opened' = {} /\ cur' = NoProject /\ guarded' = TRUE
    /\ Disturbed

\* LDAP refuses a change of cur's entry to e, or applies it and the answer is
\* lost.
Refused(e) ==
    \/ Fault("reject") /\ entry' = entry
    \/ Fault("lost") /\ entry' \in {entry, [entry EXCEPT ![cur] = e]}

NextProject ==
    /\ pc' = "project"
    /\ cur' = NoProject /\ guarded' = TRUE

\* The handler at 651 passes to the next project; the AlreadyExists handler
\* (646-650) has none of its own.
LdapError(row, e) ==
    /\ Refused(e)
    /\ \/ guarded /\ sess' = row /\ NextProject /\ Disturbed
          /\ UNCHANGED <<fetched, todo, opened>>
       \/ ~guarded /\ Abandon
    /\ UNCHANGED <<api, db, tree, group>>

-----------------------------------------------------------------------------
StartProject ==
    /\ pc = "project" /\ todo # << >>
    /\ cur' = Head(todo) /\ todo' = Tail(todo)
    /\ pc' = IF tree[Head(todo)] = 0 THEN "grow" ELSE "entry"
    /\ UNCHANGED <<api, fetched, db, sess, tree, entry, group, opened, guarded, quiet>>

\* new_organisation_project: three adds, and no handler around them.
\* Mutant: one add too many.
NewOrganisationProjectMore ==
    /\ pc = "grow"
    /\ tree' = [tree EXCEPT ![cur] = @ + 1]
    /\ pc' = IF tree[cur] = WholeTree THEN "entry" ELSE "grow"
    /\ UNCHANGED <<api, fetched, db, sess, entry, group, opened, cur, todo,
                   guarded, quiet>>
NewOrganisationProject ==
    /\ pc = "grow"
    /\ tree' = [tree EXCEPT ![cur] = @ + 1]
    /\ pc' = IF tree[cur] + 1 = WholeTree THEN "entry" ELSE "grow"
    /\ UNCHANGED <<api, fetched, db, sess, entry, group, opened, cur, todo,
                   guarded, quiet>>

NewOrganisationProjectError ==
    /\ pc = "grow" /\ (Fault("reject") \/ Fault("lost"))
    /\ tree' \in {tree} \cup {t \in {[tree EXCEPT ![cur] = @ + 1]} : Fault("lost")}
    /\ Abandon
    /\ UNCHANGED <<api, db, entry, group>>

NewEntry == [exists |-> TRUE, shell |-> "bash", keys |-> sess.sshkey]

\* An entry is added unless it is there and the user was opened before; one
\* that is there already leads to the AlreadyExists handler.
\* Mutant: the entry is added for the first project only.
OpenUserOnce ==
    /\ pc = "entry"
    /\ entry[cur].exists \/ tree[cur] >= PeopleTree
    /\ entry' = IF entry[cur].exists \/ sess.is_opened THEN entry ELSE [entry EXCEPT ![cur] = NewEntry]
    /\ guarded' = (~entry[cur].exists \/ sess.is_opened)
    /\ pc' = "sync"
    /\ UNCHANGED <<api, fetched, db, sess, tree, group, opened, cur, todo, quiet>>
OpenUser ==
    /\ pc = "entry"
    /\ entry[cur].exists \/ tree[cur] >= PeopleTree
    /\ entry' = IF entry[cur].exists THEN entry ELSE [entry EXCEPT ![cur] = NewEntry]
    /\ guarded' = (~entry[cur].exists \/ sess.is_opened)
    /\ pc' = "sync"
    /\ UNCHANGED <<api, fetched, db, sess, tree, group, opened, cur, todo, quiet>>

\* The add fails: a subtree without ou=People has no place for it.
OpenUserError ==
    /\ pc = "entry"
    /\ ~entry[cur].exists \/ ~sess.is_opened
    /\ \/ ~entry[cur].exists /\ tree[cur] < PeopleTree /\ entry' = entry
       \/ Refused(IF entry[cur].exists THEN entry[cur] ELSE NewEntry)
    /\ NextProject /\ Disturbed
    /\ UNCHANGED <<api, fetched, db, sess, tree, group, opened, todo>>

\* user_sync_api_db: the relation is brought up to date for all projects.
\* Mutant: projects are only added.
SyncRelationGrows == [sess EXCEPT !.project = @ \cup SetOf(sess.projects_api)]
SyncRelation == [sess EXCEPT !.project = SetOf(sess.projects_api)]

SyncUser ==
    /\ pc = "sync"
    /\ sess' = SyncRelation
    /\ pc' = "keys"
    /\ UNCHANGED <<api, fetched, db, tree, entry, group, opened, cur, todo,
                   guarded, quiet>>

\* The write of the gid, when there is one, fails.
SyncUserError ==
    /\ pc = "sync"
    /\ LdapError(SyncRelation, entry[cur])

-----------------------------------------------------------------------------
KeysAdded == sess.sshkeys_api \ sess.sshkey
KeysRemoved == sess.sshkey \ sess.sshkeys_api
KeysDiffer == KeysAdded # {} \/ KeysRemoved # {}

\* Only the last project updates the relation; without an identifier, in the
\* AlreadyExists handler, none does.
RelationKeys == IF guarded /\ cur = Last(sess.projects_api) THEN sess.sshkeys_api
                                                            ELSE sess.sshkey
KeyRow ==
    LET again(flags) == Put(flags, Held(flags), "due") IN
    [sess EXCEPT !.sshkey = RelationKeys,
                 !.mail_name_sshkey = @ \cup ({"ADD"} \X KeysAdded)
                                        \cup ({"DEL"} \X KeysRemoved),
                 !.mail_project_is_sshkeyadded =
                     IF KeysAdded # {} THEN again(@) ELSE @,
                 !.mail_project_is_sshkeyremoved =
                     IF KeysRemoved # {} THEN again(@) ELSE @]

UpdateKeys ==
    /\ pc = "keys"
    /\ sess' = [KeyRow EXCEPT !.is_opened = TRUE]
    /\ entry' = IF KeysDiffer THEN [entry EXCEPT ![cur].keys = RelationKeys] ELSE entry
    /\ NextProject
    /\ UNCHANGED <<api, fetched, db, tree, group, opened, todo, quiet>>

UpdateKeysError ==
    /\ pc = "keys" /\ KeysDiffer
    /\ LdapError(KeyRow, [entry[cur] EXCEPT !.keys = RelationKeys])

-----------------------------------------------------------------------------
\* _user_active_deactive_project_org: three loops, one LDAP change a turn.
EndProjects ==
    /\ pc = "project" /\ todo = << >>
    /\ pc' = "deactivate"
    /\ UNCHANGED <<api, fetched, db, sess, tree, entry, group, opened, cur, todo,
                   guarded, quiet>>

\* ldap_user[0] of an empty search is an IndexError nothing catches.
SetShell(p, shell) == entry[p].exists /\ entry' = [entry EXCEPT ![p].shell = shell]

\* Mutant: the shell is left as it is.
DeactivateProjectKeepsShell(p) ==
    /\ pc = "deactivate" /\ p \in Due(sess.is_deactivated_project)
    /\ entry[p].exists
    /\ sess' = [sess EXCEPT !.is_deactivated_project[p] = "done",
                            !.mail_project_is_deactivated[p] = "due"]
    /\ UNCHANGED <<api, fetched, db, tree, entry, group, opened, pc, cur, todo,
                   guarded, quiet>>
DeactivateProject(p) ==
    /\ pc = "deactivate" /\ p \in Due(sess.is_deactivated_project)
    /\ SetShell(p, "nologin")
    /\ sess' = [sess EXCEPT !.is_deactivated_project[p] = "done",
                            !.mail_project_is_deactivated[p] = "due"]
    /\ UNCHANGED <<api, fetched, db, tree, group, opened, pc, cur, todo,
                   guarded, quiet>>

EndDeactivate ==
    /\ pc = "deactivate" /\ Due(sess.is_deactivated_project) = {}
    /\ pc' = "activate"
    /\ UNCHANGED <<api, fetched, db, sess, tree, entry, group, opened, cur, todo,
                   guarded, quiet>>

ActivateProject(p) ==
    /\ pc = "activate" /\ p \in Due(sess.is_activated_project)
    /\ SetShell(p, "bash")
    /\ sess' = [sess EXCEPT !.is_activated_project[p] = "done",
                            !.mail_project_is_activated[p] = "due",
                            !.is_deactivated = FALSE]
    /\ UNCHANGED <<api, fetched, db, tree, group, opened, pc, cur, todo,
                   guarded, quiet>>

EndActivate ==
    /\ pc = "activate" /\ Due(sess.is_activated_project) = {}
    /\ IF sess.known /\ ~sess.is_active /\ ~sess.is_deactivated
       THEN pc' = "inactive" /\ todo' \in {s \in [1..Cardinality(sess.project) -> sess.project] :
                                             SetOf(s) = sess.project}
       ELSE pc' = "groups" /\ UNCHANGED todo
    /\ UNCHANGED <<api, fetched, db, sess, tree, entry, group, opened, cur,
                   guarded, quiet>>

\* A user whose is_active was withdrawn: every project of the relation.
InactiveProject ==
    /\ pc = "inactive" /\ todo # << >>
    /\ SetShell(Head(todo), "nologin")
    /\ sess' = [sess EXCEPT !.is_deactivated_project[Head(todo)] = "done",
                            !.mail_project_is_deactivated[Head(todo)] = "due",
                            !.is_deactivated = TRUE]
    /\ todo' = Tail(todo)
    /\ UNCHANGED <<api, fetched, db, tree, group, opened, pc, cur, guarded, quiet>>

EndInactive ==
    /\ pc = "inactive" /\ todo = << >>
    /\ pc' = "groups"
    /\ UNCHANGED <<api, fetched, db, sess, tree, entry, group, opened, cur, todo,
                   guarded, quiet>>

\* The projects whose shell the current loop would set next.
ShellTargets ==
    CASE pc = "deactivate" -> Due(sess.is_deactivated_project)
      [] pc = "activate" -> Due(sess.is_activated_project)
      [] pc = "inactive" /\ todo # << >> -> {Head(todo)}
      [] OTHER -> {}

\* The search comes back empty, or the change fails: the daemon ends.
ShellError ==
    /\ \E p \in ShellTargets :
          \/ ~entry[p].exists /\ UNCHANGED entry
          \/ Fault("reject") /\ UNCHANGED entry
          \/ /\ Fault("lost") /\ entry[p].exists
             /\ \E shell \in {"bash", "nologin"} :
                   /\ shell = "bash" <=> pc = "activate"
                   /\ entry' \in {entry, [entry EXCEPT ![p].shell = shell]}
    /\ Abandon
    /\ UNCHANGED <<api, db, tree, group>>

-----------------------------------------------------------------------------
\* The groups of all projects; a failure is logged, one for want of a subtree
\* included.
UpdateGroups ==
    /\ pc = "groups"
    /\ \E failed \in SUBSET Project :
          /\ {p \in sess.project : tree[p] < WholeTree} \subseteq failed
          /\ Fault("reject") \/ Fault("lost") \/ \A p \in failed : tree[p] < WholeTree
          /\ group' = (group \cap failed) \cup (sess.project \ failed)
          /\ quiet' = IF \E p \in failed : (p \in group) # (p \in sess.project)
                      THEN -1 ELSE quiet
    /\ pc' = "commit"
    /\ UNCHANGED <<api, fetched, db, sess, tree, entry, opened, cur, todo, guarded>>

LdapCommit ==
    /\ pc = "commit"
    /\ Commit(sess)
    /\ pc' = "mailactivate"
    /\ UNCHANGED <<api, fetched, tree, entry, group, opened, cur, todo, guarded, quiet>>

LdapUpdate ==
    \/ StartProject \/ NewOrganisationProject \/ OpenUser \/ SyncUser \/ UpdateKeys
    \/ EndProjects \/ EndDeactivate \/ EndActivate \/ EndInactive \/ InactiveProject
    \/ \E p \in Project : DeactivateProject(p) \/ ActivateProject(p)
    \/ UpdateGroups \/ LdapCommit

LdapUpdateFails ==
    \/ NewOrganisationProjectError \/ OpenUserError \/ SyncUserError
    \/ UpdateKeysError \/ ShellError
=============================================================================
