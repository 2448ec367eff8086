--------------------------- MODULE ManagedPipeline ---------------------------
(***************************************************************************)
(* FlatPipeline beside an operator who runs ah-user-manage at any time.    *)
(* The tool and the running task each have a session of their own: a task  *)
(* works on the columns it has loaded and its commit writes those it has   *)
(* changed, over whatever the tool has committed in between.  The sshkeys  *)
(* table, which FlatAccounts abstracts to a relation, has its rows here.   *)
(***************************************************************************)
EXTENDS FlatPipeline, UserManage

CONSTANTS Commands,    \* the kinds of commands the operator uses
          MaxCommands  \* bound: commands of the operator

CommandKind == {"reset", "null", "delete", "forget", "key", "project",
                "deactivated", "flag", "name", "pubkey", "flush"}
ASSUME ManagedAssumption ==
    /\ Commands \subseteq CommandKind /\ MaxCommands \in Nat
    /\ Faults \subseteq {"http"}

VARIABLES cache,    \* the committed users table; db is what the task has loaded
          behind,   \* a command was committed after the task had loaded
          sshkeys,  \* how many rows of the sshkeys table have this fingerprint
                    \* and uid_api, with that user's user_id or with NULL ...
          keysess,  \* ... and how many in the task's session
          commands, \* commands so far
          declared, \* observer: users whose is_deactivated or whole row the
                    \* operator has overruled, or what a task noted of them
          meddled   \* observer: the operator has added rows of sshkeys or
                    \* deleted such, past the daemon

mvars == <<cache, behind, sshkeys, keysess, commands, declared, meddled>>
allvars == <<vars, mvars>>

KeyRows == [Key \X User \X BOOLEAN -> 0..1 + MaxCommands]

ManagedTypeOK ==
    /\ TypeOK
    /\ cache \in [User -> Row] /\ behind \in BOOLEAN
    /\ sshkeys \in KeyRows /\ keysess \in KeyRows
    /\ commands \in 0..MaxCommands
    /\ declared \subseteq User /\ meddled \in BOOLEAN
    \* The relation is a view of the table, except of a row that was deleted
    \* under a task: rows of keys it relates after that keep the lost id.
    /\ \A u \in User \ declared :
          cache[u].sshkey = {k \in Key : sshkeys[k, u, TRUE] > 0}

ManagedInit ==
    /\ Init
    /\ cache = db /\ behind = FALSE
    /\ sshkeys = [x \in Key \X User \X BOOLEAN |-> 0]
    /\ keysess = sshkeys
    /\ commands = 0 /\ declared = {} /\ meddled = FALSE

-----------------------------------------------------------------------------
\* What a commit leaves of a row that was loaded as base, is now mine in the
\* session and now in the table: the columns that were changed are written, of
\* a relation the pairs.
Relation == {"project", "sshkey"}
Column == DOMAIN BlankRow \ Relation

\* Mutant: the whole row is written.
MergedWhole(base, mine, now) == IF base.known /\ ~now.known THEN now ELSE mine

Merged(base, mine, now) ==
    IF base.known /\ ~now.known THEN now
    ELSE [c \in DOMAIN base |->
            IF c \in Relation THEN (now[c] \ (base[c] \ mine[c])) \cup (mine[c] \ base[c])
            ELSE IF mine[c] # base[c] THEN mine[c] ELSE now[c]]

\* An UPDATE of a row that the operator has deleted is a StaleDataError.
Stale(rows) ==
    \E u \in User : /\ db[u].known /\ ~cache[u].known
                    /\ \E c \in Column : rows[u][c] # db[u][c]

\* The daemon's steps as far as the table is concerned.  The tasks close their
\* sessions: the next task loads what is there.
Loaded == behind \/ db = cache
Follows ==
    /\ Loaded
    /\ ~Stale(db')
    /\ cache' = [u \in User |-> Merged(db[u], db'[u], cache[u])]
    /\ behind' = (/\ behind /\ pc # "usermetadata"
                  /\ pc' \notin {"usermetadata", "activate", "sleep", "down"})
    /\ UNCHANGED <<commands, declared, meddled>>

Load ==
    /\ ~Loaded
    /\ db' = cache /\ sess' = cache
    /\ todo' = IF pc = "user" THEN {u \in User : cache[u].known} ELSE todo
    /\ sent' = [u \in User |-> sent[u] \cap Pending(cache[u])]
    /\ UNCHANGED <<api, fetched, ldap, group, opened, pc, cur, guarded, quiet, mvars>>

Leaves == Abandon /\ UNCHANGED <<api, db, ldap, group, sent>>
          /\ Follows /\ keysess' = sshkeys /\ UNCHANGED sshkeys

StaleCommit ==
    /\ behind
    /\ \/ pc = "fetch" /\ fetched.got = {"sshkeys", "userproject"}
          /\ Stale([u \in User |-> SyncedRow(u)])
       \/ pc = "usermetadata"
          /\ \E rows \in [User -> UNION {MetadataRows(sess[u], u) : u \in User}] : Stale(rows)
       \/ pc = "commit" /\ Stale(sess)
    /\ Leaves

-----------------------------------------------------------------------------
\* The rows of the sshkeys table that have this fingerprint and uid_api.
RowsOf(keys, k, u) == keys[k, u, TRUE] + keys[k, u, FALSE]

\* Mutant: a row for every key of the answer.
SyncedKeysAnew ==
    [x \in DOMAIN sshkeys |->
        IF ~x[3] /\ x[1] \in ApiKeys(x[2]) THEN sshkeys[x] + 1 ELSE sshkeys[x]]

\* sshkeys_add: a key of the API has one row with the user's uid_api, a new one
\* when there is none.
SyncedKeys ==
    [x \in DOMAIN sshkeys |->
        IF ~x[3] /\ x[1] \in ApiKeys(x[2]) /\ RowsOf(sshkeys, x[1], x[2]) = 0
        THEN 1 ELSE sshkeys[x]]
KeyOnceInApi ==
    \A u \in User : \A k \in ApiKeys(u) : RowsOf(sshkeys, k, u) <= 1

\* _resolve_target_key, and the query of a removed key: the one row with this
\* uid_api.  Of several rows the first would ask for the one of nobody, but an
\* added key is not related yet: all of them are nobody's.
KeysFound ==
    \A k \in KeysAdded(sess[cur]) \cup KeysRemoved(sess[cur]) : RowsOf(keysess, k, cur) = 1

\* The rows change hands.
OwnedKeys ==
    LET added == KeysAdded(sess[cur])
    IN  [x \in DOMAIN keysess |->
           IF x[2] = cur /\ x[1] \in added \cup KeysRemoved(sess[cur])
           THEN (IF x[3] <=> x[1] \in added THEN 1 ELSE 0)
           ELSE keysess[x]]

\* NoResultFound, MultipleResultsFound or ValueError: nothing catches it.
KeyLookupFails ==
    /\ \/ pc = "keys" /\ ~KeysFound
       \/ pc = "fetch" /\ fetched.got = {"sshkeys", "userproject"} /\ ~KeyOnceInApi
    /\ Leaves

-----------------------------------------------------------------------------
\* The daemon.
ManagedSync ==
    /\ SyncCache /\ KeyOnceInApi /\ Follows
    /\ sshkeys' = SyncedKeys /\ keysess' = SyncedKeys
ManagedKeys ==
    /\ pc = "keys" /\ KeysFound
    /\ keysess' = OwnedKeys
    /\ UpdateKeys /\ Follows /\ UNCHANGED sshkeys
ManagedLdapCommit ==
    /\ LdapCommit /\ Follows
    /\ sshkeys' = keysess /\ UNCHANGED keysess

ManagedStep ==
    \/ /\ \/ StartCycle \/ FetchSshkeys \/ FetchUserproject \/ SetMetadata
          \/ (\E u \in User : OpenUser(u)) \/ SyncUser \/ UpdateActive \/ UpdateGroups
          \/ EmailSend
       /\ Follows /\ UNCHANGED <<sshkeys, keysess>>
    \/ ManagedSync \/ ManagedKeys \/ ManagedLdapCommit
    \/ Load

\* What fails here is the fetch; the daemon is started again.
ManagedFault ==
    /\ FetchError \/ Die \/ Start
    /\ Follows /\ UNCHANGED sshkeys /\ keysess' = sshkeys

\* The API changes beside all this.
ManagedApiChange == (\E u \in User : ApiChange(u)) /\ Loaded /\ UNCHANGED mvars

-----------------------------------------------------------------------------
\* A command is one transaction, refused with "database is locked" while the
\* task's session has changes.  Between two tasks, and up to the moment a task
\* has loaded, the task will see it; afterwards it sees the relations only,
\* which are loaded when they are needed.  emailsend looks anew in each round.
MayHaveLoaded == pc \in {"usermetadata"} \cup LdapPc
                 \/ (pc = "fetch" /\ fetched.got = {"sshkeys", "userproject"})
MayLoadYet == pc \notin LdapPc
              \/ (pc = "user" /\ ~behind /\ todo = {u \in User : db[u].known})

Related(rows) ==
    [u \in User |-> [rows[u] EXCEPT !.project = cache'[u].project,
                                    !.sshkey = cache'[u].sshkey]]

\* The command makes newKeys of the sshkeys table and newRow of u's row.
Command(u, newRow, newKeys) ==
    /\ commands < MaxCommands /\ commands' = commands + 1
    /\ Loaded /\ sess = db
    /\ cache' = [cache EXCEPT ![u] = newRow]
    /\ sshkeys' = newKeys /\ keysess' = newKeys
    /\ \/ /\ MayLoadYet /\ ~behind
          /\ behind' = FALSE /\ db' = cache'
          /\ todo' = IF pc = "user" THEN {w \in User : cache'[w].known} ELSE todo
          /\ sent' = [w \in User |-> sent[w] \cap Pending(cache'[w])]
       \/ /\ MayHaveLoaded
          /\ behind' = TRUE /\ db' = Related(db)
          /\ UNCHANGED <<todo, sent>>
    /\ sess' = db'
    /\ quiet' = IF pc \in {"sleep", "down"} THEN 0 ELSE -1
    /\ UNCHANGED <<api, fetched, ldap, group, opened, pc, cur, guarded>>

\* Commands that touch no key and no deactivation.
Plain(u, row) == /\ Command(u, row, sshkeys)
                 /\ UNCHANGED <<declared, meddled>>
\* Commands that overrule is_deactivated or the row.
Overrule(u, row) == /\ Command(u, row, sshkeys)
                    /\ declared' = declared \cup {u}
                    /\ UNCHANGED meddled

RunReset(u) == "reset" \in Commands /\ Overrule(u, ResetAllFlags(cache[u]))
RunNull(u) == "null" \in Commands /\ Overrule(u, NullAllFlags(cache[u]))
RunDelete(u) == "delete" \in Commands /\ Plain(u, DeleteUser(cache[u]))
RunForget(u) ==
    /\ "forget" \in Commands
    /\ Command(u, BlankRow, [x \in DOMAIN sshkeys |-> IF x[2] = u /\ x[3] THEN 0 ELSE sshkeys[x]])
    /\ declared' = declared \cup {u}
    /\ meddled' = (meddled \/ behind')
RunSetDeactivated(u) ==
    "deactivated" \in Commands
    /\ \E row \in SetDeactivated(cache[u]) : Overrule(u, row)
RunSetFlag(u) ==
    "flag" \in Commands /\ \E row \in SetFlag(cache[u]) : Plain(u, row)
RunNameKey(u) ==
    "name" \in Commands /\ \E row \in NameKey(cache[u]) : Plain(u, row)
RunProject(u) ==
    /\ "project" \in Commands
    /\ \E p \in Project, force \in BOOLEAN :
         Plain(u, DeleteProject(cache[u], p, force)) \/ Plain(u, AddProject(cache[u], p, force))
RunDeleteKey(u) ==
    /\ "key" \in Commands
    /\ \E k \in Key, force \in BOOLEAN :
         /\ MayDeleteKey(cache[u], k)
         /\ Command(u, DeleteKey(cache[u], k, force),
                    [x \in DOMAIN sshkeys |-> IF force /\ x = <<k, u, TRUE>> THEN 0
                                              ELSE sshkeys[x]])
         /\ meddled' = (meddled \/ force)
    /\ UNCHANGED declared
RunAddKey(u) ==
    /\ "pubkey" \in Commands
    /\ \E k \in Key, force \in BOOLEAN :
         LET new == <<k, u, force>>
         IN  /\ MayAddKey(cache[u], k)
             /\ Command(u, AddKey(cache[u], k, force), [sshkeys EXCEPT ![new] = @ + 1])
    /\ meddled' = TRUE /\ UNCHANGED declared
RunFlushKeys(u) ==
    /\ "flush" \in Commands
    /\ Command(u, cache[u], [x \in DOMAIN sshkeys |-> IF x[3] THEN sshkeys[x] ELSE 0])
    /\ meddled' = TRUE /\ UNCHANGED declared
\* A row deleted under a task is a StaleDataError at its commit: what the task
\* would have noted of the other users is lost as well.
RunFlushUsers(u) ==
    /\ "flush" \in Commands /\ Flushed(cache[u])
    /\ Command(u, BlankRow, sshkeys)
    /\ declared' = IF behind' THEN User ELSE declared \cup {u}
    /\ UNCHANGED meddled

Cached == {u \in User : cache[u].known}
ManagedNext ==
    \/ ManagedStep \/ ManagedFault \/ ManagedApiChange
    \/ StaleCommit \/ KeyLookupFails
    \/ \E u \in Cached : RunReset(u)
    \/ \E u \in Cached : RunNull(u)
    \/ \E u \in Cached : RunDelete(u)
    \/ \E u \in Cached : RunForget(u)
    \/ \E u \in Cached : RunSetDeactivated(u)
    \/ \E u \in Cached : RunSetFlag(u)
    \/ \E u \in Cached : RunNameKey(u)
    \/ \E u \in Cached : RunProject(u)
    \/ \E u \in Cached : RunDeleteKey(u)
    \/ \E u \in Cached : RunAddKey(u)
    \/ \E u \in Cached : RunFlushKeys(u)
    \/ \E u \in Cached : RunFlushUsers(u)

ManagedSpec == ManagedInit /\ [][ManagedNext]_allvars

-----------------------------------------------------------------------------
\* Two undisturbed cycles after the last command the login shell is what the API
\* asks for, whatever the operator has set, deleted or reset and however that
\* overlapped with a task (ldapupdate 218-233).  Not for a user whose
\* is_deactivated was overruled, which says whether the shell was changed, or
\* whose row was deleted, and not after a key lookup that failed.
ShellFollowsApiManaged ==
    Settled(2) /\ ~meddled => \A u \in User \ declared : ShellAgrees(u)

\* The same of the keys (ldapupdate 305-337).  Not after --force has changed a
\* relation of keys, which stands for what LDAP was told.
KeysFollowApiManaged ==
    Settled(2) /\ ~meddled => \A u \in User \ declared : KeysAgree(u)

\* The daemon asks the sshkeys table for one row of a key and gets one, whatever
\* the operator deletes without --force or resets: any other answer ends it, and
\* does so in every cycle to come (apisync 107-124, ldapupdate 270-325).  But
\* "update --pubkey" adds a row without looking at those of nobody, and --force
\* and --flush-keys delete rows that are yet to be related.
KeyLookupsSucceed == [][KeyLookupFails => meddled]_allvars

\* No commit of the daemon takes back that the account mail was sent, not even
\* one over a row that the operator has changed since the task loaded it: the
\* user would be sent it again (ah-user-manage 42-70, emailsend 89-97).
AccountMailedOnce ==
    [][commands' = commands => \A u \in User :
          cache[u].mail_is_opensend /\ cache'[u].known => cache'[u].mail_is_opensend]_allvars
=============================================================================
