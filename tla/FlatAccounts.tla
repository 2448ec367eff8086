---------------------------- MODULE FlatAccounts ----------------------------
(***************************************************************************)
(* The state the accounts-hpc tasks share when ldap.mode is "flat": the    *)
(* HRZOO signup API they read, the SQLite cache (one row per user), the    *)
(* open session of the running task, the LDAP directory, and the mails     *)
(* that were handed to the SMTP server.  The tasks themselves are in       *)
(* ApiSync, UserMetadata, LdapUpdateFlat and EmailSendFlat, which extend   *)
(* this module; FlatPipeline composes them.                                *)
(*                                                                         *)
(* A user, a project and a key are atoms.  A project's gidNumber is        *)
(* prjid_api plus a fixed offset, so the project stands for its gid.       *)
(***************************************************************************)
EXTENDS ProjectLists

CONSTANTS User,        \* users of the signup API
          Project,     \* approved projects on an interesting resource
          Key,         \* public keys (fingerprint, name and text)
          Workshop,    \* the projects of type srce-workshop
          Staff,       \* the users with is_staff set
          ApiChoices,  \* what the API may answer for one user
          StaffGid,    \* the gid the usermap file gives to staff
          NoGid,       \* ldap_gid = 0
          NoKey,       \* the key part of a notice that is about no key
          NoUser,      \* no user is being processed
          Faults       \* which failures may happen

FaultKind == {"http", "reject", "lost", "smtp", "stop", "crash"}
ApiRecord == [projects : Seq(Project), keys : SUBSET Key, status : BOOLEAN]

ASSUME ConstantsAssumption ==
    /\ IsFiniteSet(User) /\ IsFiniteSet(Project) /\ IsFiniteSet(Key)
    /\ Workshop \subseteq Project
    /\ Staff \subseteq User
    /\ NoGid \notin Project /\ NoUser \notin User /\ NoKey \notin Key
    /\ Faults \subseteq FaultKind

\* The API lists a (user, project) association once; a user with no
\* interesting project is simply missing from the list.
ASSUME ApiAssumption ==
    /\ ApiChoices \subseteq ApiRecord
    /\ \A r \in ApiChoices : Distinct(r.projects)

VARIABLES api,      \* what the signup API would answer now, per user
          fetched,  \* the answers apisync holds: two GETs, not one snapshot
          db,       \* committed rows of the users table
          sess,     \* the rows as the running task's session sees them
          ldap,     \* the entries below ou=People
          group,    \* memberUid of each project's posixGroup
          sent,     \* notices the SMTP server accepted, not settled in db yet
          opened,   \* SendEmail.users_opened of the current run
          pc,       \* where the daemon is
          cur,      \* the user ldapupdate is processing
          todo,     \* the users ldapupdate still has to process
          guarded,  \* an LDAPError of this user is caught (ldapupdate 624)
          quiet     \* undisturbed full cycles so far (observer, see below)

vars == <<api, fetched, db, sess, ldap, group, sent, opened, pc, cur, todo,
          guarded, quiet>>

-----------------------------------------------------------------------------
Gid == Project \cup {NoGid, StaffGid}

KeyNotice == {"ADD", "DEL"} \X Key
Account == <<"account", NoKey>>
Activated == <<"activated", NoKey>>
Deactivated == <<"deactivated", NoKey>>
Notice == KeyNotice \cup {Account, Activated, Deactivated}

\* The columns of User the flat mode reads and writes.  ldap_uid only tells
\* "not 0", project and sshkey are the two relationships; their order is the
\* database's, so they are sets.
Row == [known : BOOLEAN, is_active : BOOLEAN, is_deactivated : BOOLEAN,
        is_opened : BOOLEAN, ldap_uid : BOOLEAN, ldap_gid : Gid,
        projects_api : Seq(Project), project : SUBSET Project,
        sshkeys_api : SUBSET Key, sshkey : SUBSET Key,
        mail_is_opensend : BOOLEAN, mail_is_activated : BOOLEAN,
        mail_is_deactivated : BOOLEAN, mail_is_sshkeyadded : BOOLEAN,
        mail_is_sshkeyremoved : BOOLEAN, mail_name_sshkey : SUBSET KeyNotice]

Entry == [exists : BOOLEAN, uid : BOOLEAN, gid : Gid,
          shell : {"bash", "nologin"}, keys : SUBSET Key]

\* A new row of users_projects_add (daemon: initset is False); with known
\* FALSE it is the row of a user the cache has never seen.
BlankRow == [known |-> FALSE, is_active |-> FALSE, is_deactivated |-> FALSE,
             is_opened |-> FALSE, ldap_uid |-> FALSE, ldap_gid |-> NoGid,
             projects_api |-> << >>, project |-> {},
             sshkeys_api |-> {}, sshkey |-> {},
             mail_is_opensend |-> FALSE, mail_is_activated |-> FALSE,
             mail_is_deactivated |-> FALSE, mail_is_sshkeyadded |-> FALSE,
             mail_is_sshkeyremoved |-> FALSE, mail_name_sshkey |-> {}]

NoEntry == [exists |-> FALSE, uid |-> FALSE, gid |-> NoGid,
            shell |-> "bash", keys |-> {}]

NothingFetched == [got |-> {}, sshkeys |-> [u \in User |-> {}],
                   userproject |-> [u \in User |->
                                      [projects |-> << >>, status |-> FALSE]]]

\* The mails a row still asks for.
Pending(row) ==
    row.mail_name_sshkey
      \cup {n \in {Account} : row.known /\ ~row.mail_is_opensend}
      \cup {n \in {Activated} : row.mail_is_activated}
      \cup {n \in {Deactivated} : row.mail_is_deactivated}

\* A commit of rows: a notice that becomes pending with it has not been
\* delivered yet, and one that is no longer pending needs no memory.
Commit(rows) ==
    /\ db' = rows
    /\ sess' = rows
    /\ sent' = [u \in User |-> sent[u] \cap Pending(rows[u]) \cap Pending(db[u])]

Fault(kind) == kind \in Faults

-----------------------------------------------------------------------------
\* quiet observes the run, nothing in the code reads it: -1 while the current
\* cycle has met a fault or an API change, otherwise the number (at most
\* QuietMax) of complete cycles since the last such disturbance.
QuietMax == 2
Disturbed == quiet' = -1
EndCycleQuiet == quiet' = IF quiet < QuietMax THEN quiet + 1 ELSE quiet

TaskPc == {"fetch", "usermetadata", "user", "sync", "active", "keys", "commit",
           "activate", "deactivate", "account", "mailkey", "mailcommit"}
LdapPc == {"user", "sync", "active", "keys", "commit"}
MailPc == {"activate", "deactivate", "account", "mailkey", "mailcommit"}

TypeOK ==
    /\ api \in [User -> ApiChoices]
    /\ fetched \in [got : SUBSET {"sshkeys", "userproject"},
                    sshkeys : [User -> SUBSET Key],
                    userproject : [User -> [projects : Seq(Project),
                                            status : BOOLEAN]]]
    /\ db \in [User -> Row] /\ sess \in [User -> Row]
    /\ ldap \in [User -> Entry]
    /\ group \in [Project -> SUBSET User]
    /\ sent \in [User -> SUBSET Notice]
    /\ opened \in SUBSET User
    /\ pc \in TaskPc \cup {"sleep", "down"}
    /\ cur \in User \cup {NoUser}
    /\ cur = NoUser <=> pc \notin {"sync", "active", "keys"}
    /\ todo \in SUBSET User
    /\ guarded \in BOOLEAN
    /\ quiet \in -1..QuietMax
=============================================================================
