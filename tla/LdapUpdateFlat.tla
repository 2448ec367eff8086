--------------------------- MODULE LdapUpdateFlat ---------------------------
(***************************************************************************)
(* The ldapupdate task with ldap.mode "flat".  Every user is processed in  *)
(* four stages, each with at most one change of the LDAP entry:            *)
(*   user -> sync (relation, gid) -> active (shell) -> keys -> next user   *)
(* then the project groups, then the only commit of the task.  The LDAP    *)
(* changes take effect at once, those of the rows at the commit.           *)
(***************************************************************************)
EXTENDS FlatAccounts

\* The daemon leaves: the session is lost, what LDAP was told stays.
Abandon ==
    /\ pc' = "down"
    /\ sess' = db
    /\ fetched' = NothingFetched
    /\ todo' = {} /\ opened' = {} /\ cur' = NoUser /\ guarded' = TRUE
    /\ Disturbed

NextUser ==
    /\ pc' = "user"
    /\ todo' = todo \ {cur}
    /\ cur' = NoUser /\ guarded' = TRUE

\* A change of cur's entry to e fails with an LDAPError, the session row being
\* left as r.  A refused change is not applied, one whose answer is lost may
\* be.  The guarded user is skipped, in the AlreadyExists handler (619-623)
\* nothing catches the error.
LdapError(r, e) ==
    /\ \/ Fault("reject") /\ ldap' = ldap
       \/ Fault("lost") /\ ldap' \in {ldap, [ldap EXCEPT ![cur] = e]}
    /\ \/ /\ guarded
          /\ sess' = [sess EXCEPT ![cur] = r]
          /\ NextUser /\ Disturbed
          /\ UNCHANGED <<fetched, opened>>
       \/ ~guarded /\ Abandon
    /\ UNCHANGED <<api, db, group, sent>>

\* The change succeeds (or none was needed) and the user moves on.
LdapDone(r, e, next) ==
    /\ ldap' = [ldap EXCEPT ![cur] = e]
    /\ sess' = [sess EXCEPT ![cur] = r]
    /\ pc' = next
    /\ UNCHANGED <<api, fetched, db, group, sent, opened, cur, todo, guarded,
                   quiet>>

-----------------------------------------------------------------------------
NewEntry(row) == [exists |-> TRUE, uid |-> row.ldap_uid, gid |-> row.ldap_gid,
                  shell |-> "bash", keys |-> row.sshkey]

\* new_user_ldap_add when the entry is missing or is_opened is not set; an
\* entry that is there already leads to the AlreadyExists handler.
OpenUser(u) ==
    /\ pc = "user" /\ u \in todo
    /\ cur' = u /\ pc' = "sync"
    /\ ldap' = IF ldap[u].exists THEN ldap
               ELSE [ldap EXCEPT ![u] = NewEntry(sess[u])]
    /\ guarded' = (~ldap[u].exists \/ sess[u].is_opened)
    /\ UNCHANGED <<api, fetched, db, sess, group, sent, opened, todo, quiet>>

\* Mutant: is_opened is set although the add failed.
OpenUserErrorOpened(u) ==
    /\ pc = "user" /\ u \in todo
    /\ ~ldap[u].exists \/ ~sess[u].is_opened
    /\ Fault("reject")
    /\ sess' = [sess EXCEPT ![u].is_opened = TRUE]
    /\ todo' = todo \ {u}
    /\ Disturbed
    /\ UNCHANGED <<api, fetched, db, ldap, group, sent, opened, pc, cur, guarded>>

\* The add fails with another LDAPError: the user is skipped.
OpenUserError(u) ==
    /\ pc = "user" /\ u \in todo
    /\ ~ldap[u].exists \/ ~sess[u].is_opened
    /\ \/ Fault("reject") /\ ldap' = ldap
       \/ /\ Fault("lost") /\ ~ldap[u].exists
          /\ ldap' \in {ldap, [ldap EXCEPT ![u] = NewEntry(sess[u])]}
    /\ todo' = todo \ {u}
    /\ Disturbed
    /\ UNCHANGED <<api, fetched, db, sess, group, sent, opened, pc, cur, guarded>>

-----------------------------------------------------------------------------
\* gid_last_not_workshop
GidLastNotWorkshop(s) ==
    LET others == {i \in DOMAIN s : s[i] \notin Workshop}
    IN  IF others = {} THEN NoGid
        ELSE s[CHOOSE i \in others : \A j \in others : j <= i]

\* user.project[-1] once the relation is brought up to date: a project just
\* appended, or else whichever the database returned last.
LastRelations(row) ==
    LET added == SetOf(row.projects_api) \ row.project
    IN  IF added # {} THEN added ELSE SetOf(row.projects_api)

\* find_target_gid, when last is user.project[-1]; without projects it is 0.
TargetGid(row, u, last) ==
    IF /\ last \in Workshop
       /\ Len(row.projects_api) > 1
       /\ u \notin Staff
       /\ ~(SetOf(row.projects_api) \subseteq Workshop)
    THEN GidLastNotWorkshop(row.projects_api)
    ELSE Last(row.projects_api)

TargetGids(row, u) ==
    IF row.projects_api = << >> THEN {NoGid}
    ELSE {TargetGid(row, u, last) : last \in LastRelations(row)}

\* Mutant: a user who comes back is not looked at.
ReactivatedNever(row, u, gid) == FALSE

\* The two clauses of update_default_gid.
GidDiffers(row, u, gid) == gid # row.ldap_gid /\ u \notin Staff
Reactivated(row, u, gid) == gid # NoGid /\ row.is_deactivated /\ u \notin Staff

\* Mutant: the relation only grows.
SyncRelationGrows(row) == [row EXCEPT !.project = @ \cup SetOf(row.projects_api)]

\* user_sync_api_db: the relation first, then the gid.
SyncRelation(row) == [row EXCEPT !.project = SetOf(row.projects_api)]

SyncUser ==
    /\ pc = "sync"
    /\ \E gid \in TargetGids(sess[cur], cur) :
         IF GidDiffers(sess[cur], cur, gid) \/ Reactivated(sess[cur], cur, gid)
         THEN LdapDone([SyncRelation(sess[cur]) EXCEPT !.ldap_gid = gid],
                       [ldap[cur] EXCEPT !.gid = gid], "active")
         ELSE LdapDone(SyncRelation(sess[cur]), ldap[cur], "active")

SyncUserError ==
    /\ pc = "sync"
    /\ \E gid \in TargetGids(sess[cur], cur) :
         /\ GidDiffers(sess[cur], cur, gid) \/ Reactivated(sess[cur], cur, gid)
         /\ LdapError(SyncRelation(sess[cur]), [ldap[cur] EXCEPT !.gid = gid])

\* Of a reactivated user both clauses may write, and only the second fail.
SyncUserSecondError ==
    /\ pc = "sync" /\ guarded
    /\ Fault("reject") \/ Fault("lost")
    /\ \E gid \in TargetGids(sess[cur], cur) :
         /\ GidDiffers(sess[cur], cur, gid) /\ Reactivated(sess[cur], cur, gid)
         /\ ldap' = [ldap EXCEPT ![cur].gid = gid]
         /\ sess' = [sess EXCEPT ![cur] = [SyncRelation(@) EXCEPT !.ldap_gid = gid]]
    /\ NextUser /\ Disturbed
    /\ UNCHANGED <<api, fetched, db, group, sent, opened>>

-----------------------------------------------------------------------------
\* _user_active_deactive_flat
Deactivates(row) == ~row.is_active /\ ~row.is_deactivated
Activates(row) == row.is_active /\ row.is_deactivated

ActiveRow(row) ==
    CASE Deactivates(row) -> [row EXCEPT !.is_deactivated = TRUE,
                                         !.mail_is_deactivated = TRUE]
      [] Activates(row) -> [row EXCEPT !.is_deactivated = FALSE,
                                       !.mail_is_activated = TRUE]
      [] OTHER -> row

ActiveEntry(row, entry) ==
    CASE Deactivates(row) -> [entry EXCEPT !.shell = "nologin"]
      [] Activates(row) -> [entry EXCEPT !.shell = "bash"]
      [] OTHER -> entry

UpdateActive ==
    /\ pc = "active"
    /\ LdapDone(ActiveRow(sess[cur]), ActiveEntry(sess[cur], ldap[cur]), "keys")

UpdateActiveError ==
    /\ pc = "active"
    /\ Deactivates(sess[cur]) \/ Activates(sess[cur])
    /\ LdapError(sess[cur], ActiveEntry(sess[cur], ldap[cur]))

-----------------------------------------------------------------------------
\* _user_key_update_flat: the relation and the notices change before LDAP does.
KeysAdded(row) == row.sshkeys_api \ row.sshkey
KeysRemoved(row) == row.sshkey \ row.sshkeys_api

\* Mutant: mail_is_sshkeyadded is not reset for a further key.
KeyRowNoReset(row) ==
    [row EXCEPT !.sshkey = row.sshkeys_api,
                !.mail_name_sshkey = @ \cup ({"ADD"} \X KeysAdded(row))
                                       \cup ({"DEL"} \X KeysRemoved(row)),
                !.mail_is_sshkeyremoved = @ /\ KeysRemoved(row) = {}]

KeyRow(row) ==
    [row EXCEPT !.sshkey = row.sshkeys_api,
                !.mail_name_sshkey = @ \cup ({"ADD"} \X KeysAdded(row))
                                       \cup ({"DEL"} \X KeysRemoved(row)),
                !.mail_is_sshkeyadded = @ /\ KeysAdded(row) = {},
                !.mail_is_sshkeyremoved = @ /\ KeysRemoved(row) = {}]

\* Mutant: a removal alone does not count.
KeysDifferAdded(row) == KeysAdded(row) # {}

KeysDiffer(row) == KeysAdded(row) # {} \/ KeysRemoved(row) # {}

UpdateKeys ==
    /\ pc = "keys"
    /\ sess' = [sess EXCEPT ![cur] = [KeyRow(@) EXCEPT !.is_opened = TRUE]]
    /\ ldap' = IF KeysDiffer(sess[cur])
               THEN [ldap EXCEPT ![cur].keys = sess[cur].sshkeys_api]
               ELSE ldap
    /\ NextUser
    /\ UNCHANGED <<api, fetched, db, group, sent, opened, quiet>>

UpdateKeysError ==
    /\ pc = "keys"
    /\ KeysDiffer(sess[cur])
    /\ LdapError(KeyRow(sess[cur]),
                 [ldap[cur] EXCEPT !.keys = sess[cur].sshkeys_api])

-----------------------------------------------------------------------------
Members(rows, p) == {u \in User : p \in rows[u].project}

\* group_ldap_update of every project; an LDAPError is logged and the group
\* keeps what it has.
UpdateGroups ==
    /\ pc = "user" /\ todo = {}
    /\ \E failed \in SUBSET {p \in Project : group[p] # Members(sess, p)} :
          /\ failed # {} => Fault("reject") \/ Fault("lost")
          /\ group' = [p \in Project |->
                         IF p \in failed THEN group[p] ELSE Members(sess, p)]
          /\ quiet' = IF failed = {} THEN quiet ELSE -1
    /\ pc' = "commit"
    /\ UNCHANGED <<api, fetched, db, sess, ldap, sent, opened, cur, todo, guarded>>

LdapCommit ==
    /\ pc = "commit"
    /\ Commit(sess)
    /\ pc' = "activate"
    /\ UNCHANGED <<api, fetched, ldap, group, opened, cur, todo, guarded, quiet>>

\* connect, search and the default groups are outside every handler: their
\* LDAPError ends the daemon.
LdapUnreachable ==
    /\ pc \in {"user", "commit"} /\ Fault("lost")
    /\ Abandon
    /\ UNCHANGED <<api, db, ldap, group, sent>>

LdapUpdate ==
    \/ \E u \in User : OpenUser(u)
    \/ SyncUser \/ UpdateActive \/ UpdateKeys \/ UpdateGroups \/ LdapCommit

LdapUpdateFails ==
    \/ \E u \in User : OpenUserError(u)
    \/ SyncUserError \/ SyncUserSecondError \/ UpdateActiveError
    \/ UpdateKeysError \/ LdapUnreachable
=============================================================================
