---------------------------- MODULE ProjectGroups ----------------------------
(***************************************************************************)
(* Manual projects and the groups of the directory (ldap.mode "flat"):     *)
(* operators create, change and delete projects with ah-project-manage and *)
(* assign users to them with ah-user-manage; usermetadata gives gids;      *)
(* ldapupdate creates the default and resource groups, brings relations up *)
(* to date and writes the members of every group.  A tool runs beside the  *)
(* daemon, as one transaction of the cache.                                *)
(*                                                                         *)
(* gids are counted from gid_manual_offset.  A generated identifier ends   *)
(* in the number that is the gid: here it is that number, all projects     *)
(* being created in one month.                                             *)
(***************************************************************************)
EXTENDS Integers, Sequences, FiniteSets, Functions

CONSTANTS User,
          Slot,        \* rows the projects table has room for
          DefaultGroups, ResourceGroups, \* usersetup.default_groups, .resource_groups
          HpcUsers,    \* the default group of all users
          NewIdentifier, \* what an operator renames a project to
          GidOffset,   \* usersetup.gid_offset - gid_manual_offset
          MaxCommands, \* bound: commands of the operators
          Faults       \* "refuse": LDAP refuses a change; "crash": a kill

ASSUME ProjectGroupsAssumption ==
    /\ IsFiniteSet(User) /\ IsFiniteSet(Slot)
    /\ DefaultGroups \in Seq(Range(DefaultGroups))
    /\ ResourceGroups \in Seq(Range(ResourceGroups))
    /\ HpcUsers \in Range(DefaultGroups)
    /\ Range(DefaultGroups) \cap Range(ResourceGroups) = {}
    \* No project is called like a configured group.
    /\ (Range(DefaultGroups) \cup Range(ResourceGroups)) \cap (1..GidOffset \cup {NewIdentifier}) = {}
    /\ MaxCommands \in Nat /\ NewIdentifier \in Nat /\ GidOffset \in Nat
    /\ GidOffset > Len(DefaultGroups) + Len(ResourceGroups) + Cardinality(Slot)
    /\ Faults \subseteq {"refuse", "crash"}

VARIABLES rows,      \* the projects table: its rows by their slot
          known,     \* the users with a row
          papi,      \* projects_api of every user, identifiers
          rel,       \* users_projects: the slots each user is related to
          listed,    \* projects_api as ldapupdate has loaded it ...
          related,   \* ... and the relation in its session
          writes,    \* the session has changed the relation and holds the write lock
          gid,       \* gidNumber of the groups LDAP has
          memberUid,
          next,      \* where each creation of groups stands: index and numgroup
          skipped,   \* the users whose add to LDAP was refused in this run
          pc,
          commands,  \* commands so far
          renumbered, \* observer: a project was deleted, renamed or retyped, a
                     \* gid nullified, or the creation of groups interrupted
          orphaned,  \* observer: a project was renamed while a user listed it, or
                     \* deleted while one listed it and was not yet related
          quiet      \* observer: full cycles since the last command or fault

tables == <<rows, known, papi, rel>>
session == <<listed, related, writes, next, skipped>>
groups == <<gid, memberUid>>
observers == <<renumbered, orphaned>>
vars == <<tables, session, groups, pc, commands, observers, quiet>>

Kind == {"default", "resource"}
NamesOf(kind) == IF kind = "default" THEN DefaultGroups ELSE ResourceGroups
Number == 1..GidOffset
Identifier == Number \cup {NewIdentifier}
Row == [id : Identifier, gid : 0..GidOffset,
        type : {"manual", "api"}, resources : SUBSET Range(ResourceGroups)]

Cached == DOMAIN rows
WithId(id) == {s \in Cached : rows[s].id = id}
Resolves(id) == Cardinality(WithId(id)) = 1
IdsOf(slots) == {rows[s].id : s \in slots \cap Cached}

TypeOK ==
    /\ rows \in [Cached -> Row] /\ Cached \subseteq Slot /\ known \subseteq User
    /\ papi \in [User -> SUBSET Identifier] /\ listed \in [User -> SUBSET Identifier]
    /\ rel \in [User -> SUBSET Slot] /\ related \in [User -> SUBSET Slot]
    /\ \A u \in User \ known :
         papi[u] = {} /\ rel[u] = {} /\ (pc \in {"groups", "members", "commit"} => related[u] = {})
    /\ writes \in BOOLEAN
    /\ gid \in [DOMAIN gid -> Nat] /\ memberUid \in [DOMAIN gid -> SUBSET User]
    /\ \A k \in Kind : /\ next[k].at \in 1..Len(NamesOf(k)) + 1
                       /\ next[k].num \in 1..next[k].at
    /\ next \in [Kind -> [at : Nat, num : Nat]]
    /\ skipped \subseteq User
    /\ pc \in {"sleep", "metadata", "load", "create", "sync", "groups", "members",
               "commit", "down"}
    /\ commands \in 0..MaxCommands
    /\ renumbered \in BOOLEAN /\ orphaned \in BOOLEAN /\ quiet \in -1..1

Init ==
    /\ rows = << >> /\ known = {}
    /\ papi = [u \in User |-> {}] /\ rel = [u \in User |-> {}]
    /\ listed = papi /\ related = rel /\ writes = FALSE
    /\ gid = << >> /\ memberUid = << >>
    /\ next = [k \in Kind |-> [at |-> 1, num |-> 1]]
    /\ skipped = {} /\ pc = "sleep" /\ commands = 0
    /\ renumbered = FALSE /\ orphaned = FALSE /\ quiet = 0

-----------------------------------------------------------------------------
\* ah-project-manage and ah-user-manage.  A command is one transaction; while
\* ldapupdate holds the write lock it ends with "database is locked" instead.
Command ==
    /\ commands < MaxCommands /\ commands' = commands + 1
    /\ ~writes
    /\ quiet' = IF pc \in {"sleep", "down"} THEN 0 ELSE -1
    /\ UNCHANGED <<session, groups, pc>>

\* Mutant: the resource groups are not counted.
GenGidNoResource ==
    1 + Cardinality({s \in Cached : rows[s].type = "manual"}) + Len(DefaultGroups)

\* gen_gid, and the number of gen_id.
GenGid ==
    1 + Cardinality({s \in Cached : rows[s].type = "manual"})
      + Len(DefaultGroups) + Len(ResourceGroups)

\* project_add
CreateProject ==
    /\ Command
    /\ \E s \in Slot \ Cached, res \in SUBSET Range(ResourceGroups) :
         rows' = [x \in Cached \cup {s} |->
                    IF x = s THEN [id |-> GenGid, gid |-> GenGid,
                                   type |-> "manual", resources |-> res]
                    ELSE rows[x]]
    /\ UNCHANGED <<known, papi, rel, observers>>

\* project_update: one option at a time, a call with several being the same as
\* several calls.
ChangeProject(s, row) ==
    /\ Command /\ Resolves(rows[s].id)
    /\ rows' = [rows EXCEPT ![s] = row]
    /\ UNCHANGED <<known, papi, rel>>

Listing(s) == {u \in known : rows[s].id \in papi[u]}

UpdateResources(s) ==
    \E res \in SUBSET Range(ResourceGroups) :
        ChangeProject(s, [rows[s] EXCEPT !.resources = res]) /\ UNCHANGED observers
UpdateIdentifier(s) ==
    /\ ChangeProject(s, [rows[s] EXCEPT !.id = NewIdentifier])
    /\ renumbered' = TRUE
    /\ orphaned' = (orphaned \/ Listing(s) # {})
UpdateType(s) ==
    /\ ChangeProject(s, [rows[s] EXCEPT !.type = "api"])
    /\ renumbered' = TRUE /\ UNCHANGED orphaned
NullGid(s) ==
    /\ ChangeProject(s, [rows[s] EXCEPT !.gid = 0])
    /\ renumbered' = TRUE /\ UNCHANGED orphaned

\* projects_api.remove() of a related user who does not list the project is a
\* ValueError: the command ends without a commit.
Related(s) == {u \in known : s \in rel[u]}
MayDelete(s) ==
    Resolves(rows[s].id) /\ \A u \in Related(s) : rows[s].id \in papi[u]
Unlisted(s) ==
    [u \in User |-> IF u \in Related(s) THEN papi[u] \ {rows[s].id} ELSE papi[u]]

\* project_delete without --force: ldapupdate will end the relations.
DeleteProject(s) ==
    /\ Command /\ MayDelete(s)
    /\ papi' = Unlisted(s)
    /\ UNCHANGED <<rows, known, rel, observers>>

\* Mutant: --force leaves projects_api alone.
ForceDeleteProjectListed(s) ==
    /\ Command /\ MayDelete(s)
    /\ rel' = [u \in User |-> rel[u] \ {s}]
    /\ rows' = [x \in Cached \ {s} |-> rows[x]]
    /\ renumbered' = TRUE
    /\ orphaned' = (orphaned \/ ~(Listing(s) \subseteq Related(s)))
    /\ UNCHANGED <<known, papi>>

ForceDeleteProject(s) ==
    /\ Command /\ MayDelete(s)
    /\ papi' = Unlisted(s)
    /\ rel' = [u \in User |-> rel[u] \ {s}]
    /\ rows' = [x \in Cached \ {s} |-> rows[x]]
    /\ renumbered' = TRUE
    /\ orphaned' = (orphaned \/ ~(Listing(s) \subseteq Related(s)))
    /\ UNCHANGED known

\* user_project_add, user_update --project; with --force the relation, too.
\* Users come and go between two runs: a run has loaded the table's users.
AssignUser(u, s, force) ==
    /\ Command /\ Resolves(rows[s].id)
    /\ u \in known \/ pc \in {"sleep", "down"}
    /\ known' = known \cup {u}
    /\ papi' = [papi EXCEPT ![u] = @ \cup {rows[s].id}]
    /\ rel' = IF force THEN [rel EXCEPT ![u] = @ \cup {s}] ELSE rel
    /\ UNCHANGED <<rows, observers>>

\* user_delete --project
UnassignUser(u, s, force) ==
    /\ Command /\ Resolves(rows[s].id) /\ u \in known
    /\ papi' = [papi EXCEPT ![u] = @ \ {rows[s].id}]
    /\ rel' = IF force THEN [rel EXCEPT ![u] = @ \ {s}] ELSE rel
    /\ UNCHANGED <<rows, known, observers>>

\* Mutant: the relations outlive the user.
DeleteUserKeepsRelations(u) ==
    /\ Command /\ u \in known /\ pc \in {"sleep", "down"}
    /\ known' = known \ {u}
    /\ papi' = [papi EXCEPT ![u] = {}]
    /\ UNCHANGED <<rows, rel, observers>>

\* user_delete --force
DeleteUser(u) ==
    /\ Command /\ u \in known /\ pc \in {"sleep", "down"}
    /\ known' = known \ {u}
    /\ papi' = [papi EXCEPT ![u] = {}] /\ rel' = [rel EXCEPT ![u] = {}]
    /\ UNCHANGED <<rows, observers>>

Operator ==
    \/ CreateProject
    \/ \E s \in Cached : UpdateResources(s)
    \/ \E s \in Cached : UpdateIdentifier(s)
    \/ \E s \in Cached : UpdateType(s)
    \/ \E s \in Cached : NullGid(s)
    \/ \E s \in Cached : DeleteProject(s)
    \/ \E s \in Cached : ForceDeleteProject(s)
    \/ \E u \in User, s \in Cached, force \in BOOLEAN : AssignUser(u, s, force)
    \/ \E u \in User, s \in Cached, force \in BOOLEAN : UnassignUser(u, s, force)
    \/ \E u \in User : DeleteUser(u)

-----------------------------------------------------------------------------
\* The daemon leaves amid a run.
Present(kind) == {i \in DOMAIN NamesOf(kind) : NamesOf(kind)[i] \in DOMAIN gid}
Partial == \E k \in Kind : Present(k) \notin {{}, DOMAIN NamesOf(k)}
Leave ==
    /\ pc' = "down"
    /\ related' = rel /\ listed' = papi /\ writes' = FALSE /\ skipped' = {}
    /\ next' = [k \in Kind |-> [at |-> 1, num |-> 1]]
    /\ renumbered' = (renumbered \/ Partial)
    /\ quiet' = -1
    /\ UNCHANGED <<tables, commands, orphaned>>

StartCycle ==
    /\ pc = "sleep" /\ pc' = "metadata"
    /\ UNCHANGED <<tables, session, groups, commands, observers, quiet>>

\* usermetadata: a manual project has prjid_api 0.
SetGids ==
    /\ pc = "metadata" /\ pc' = "load"
    /\ rows' = [s \in Cached |-> IF rows[s].gid = 0 THEN [rows[s] EXCEPT !.gid = GidOffset]
                                 ELSE rows[s]]
    /\ UNCHANGED <<known, papi, rel, session, groups, commands, observers, quiet>>

\* ldapupdate loads the users; their relations are loaded when they are needed.
LoadUsers ==
    /\ pc = "load" /\ pc' = "create"
    /\ listed' = papi /\ related' = rel /\ writes' = FALSE /\ skipped' = {}
    /\ next' = [k \in Kind |-> [at |-> 1, num |-> 1]]
    /\ UNCHANGED <<tables, groups, commands, observers, quiet>>

\* Mutant: resource groups are numbered like default groups.
FirstNumberSame(kind) == 0

FirstNumber(kind) == IF kind = "default" THEN 0 ELSE Len(DefaultGroups)

\* create_default_groups and create_resource_groups run concurrently; numgroup
\* counts the groups this run has created.
CreateGroup(kind) ==
    LET here == next[kind]
        name == NamesOf(kind)[here.at]
    IN  /\ pc = "create" /\ here.at <= Len(NamesOf(kind))
        /\ IF name \in DOMAIN gid
           THEN /\ next' = [next EXCEPT ![kind].at = @ + 1]
                /\ UNCHANGED groups
           ELSE /\ gid' = [g \in DOMAIN gid \cup {name} |->
                             IF g = name THEN FirstNumber(kind) + here.num ELSE gid[g]]
                /\ memberUid' = [g \in DOMAIN gid \cup {name} |->
                                   IF g = name THEN {} ELSE memberUid[g]]
                /\ next' = [next EXCEPT ![kind] = [at |-> here.at + 1,
                                                   num |-> here.num + 1]]
        /\ UNCHANGED <<tables, listed, related, writes, skipped, pc, commands, observers, quiet>>

\* An add is refused: AhTaskError, once the other creation is through.
CreateRefused(kind) ==
    /\ pc = "create" /\ "refuse" \in Faults
    /\ next[kind].at <= Len(NamesOf(kind))
    /\ NamesOf(kind)[next[kind].at] \notin DOMAIN gid
    /\ \A k \in Kind \ {kind} : next[k].at > Len(NamesOf(k))
    /\ Leave
    /\ UNCHANGED groups

GroupsCreated ==
    /\ pc = "create" /\ \A k \in Kind : next[k].at > Len(NamesOf(k))
    /\ pc' = "sync"
    /\ UNCHANGED <<tables, session, groups, commands, observers, quiet>>

-----------------------------------------------------------------------------
\* user_sync_api_db: every identifier that is looked up must be one row's.  Of
\* those that need no change only the last of projects_api is (find_target_gid).
LookedUp(u) ==
    LET ids == IdsOf(rel[u])
    IN  (listed[u] \ ids) \cup (ids \ listed[u])
\* The users whose entry could not be added are passed over.
Skips == IF "refuse" \in Faults THEN SUBSET known ELSE {{}}

SyncRelations ==
    /\ pc = "sync"
    /\ \E skip \in Skips :
         /\ \A u \in known \ skip : \A id \in LookedUp(u) : Resolves(id)
         /\ skipped' = skip
         /\ related' = [u \in User |->
                          IF u \in known \ skip
                          THEN {s \in Cached : rows[s].id \in listed[u]} ELSE rel[u]]
         /\ writes' = (related' # rel)
         /\ quiet' = IF skip = {} THEN quiet ELSE -1
    /\ pc' = "groups"
    /\ UNCHANGED <<tables, listed, next, groups, commands, observers>>

\* NoResultFound or MultipleResultsFound: nothing catches it.
SyncUnresolved ==
    /\ pc = "sync"
    /\ \E u \in known : \E id \in LookedUp(u) \cup listed[u] : ~Resolves(id)
    /\ Leave
    /\ UNCHANGED groups

\* The project groups: an LDAPError is logged and the group left as it is.
MembersOf(s) == {u \in User : s \in related[u]}
UpdateGroups ==
    /\ pc = "groups"
    /\ \E chosen \in SUBSET Cached :
         /\ \A s, t \in chosen : rows[s].id = rows[t].id => s = t
         /\ "refuse" \notin Faults => IdsOf(chosen) = IdsOf(Cached)
         /\ LET names == DOMAIN gid \cup IdsOf(chosen)
                slot(g) == CHOOSE s \in chosen : rows[s].id = g
            IN  /\ gid' = [g \in names |-> IF g \in DOMAIN gid THEN gid[g]
                                           ELSE rows[slot(g)].gid]
                /\ memberUid' = [g \in names |-> IF g \in IdsOf(chosen)
                                                 THEN MembersOf(slot(g))
                                                 ELSE memberUid[g]]
         /\ quiet' = IF IdsOf(chosen) = IdsOf(Cached) THEN quiet ELSE -1
    /\ pc' = "members"
    /\ UNCHANGED <<tables, session, commands, observers>>

\* Mutant: the resources of any cached project count.
EntitledAny(g) == {u \in known : \E s \in Cached : g \in rows[s].resources}

Entitled(g) == {u \in known : \E s \in related[u] \cap Cached : g \in rows[s].resources}

\* update_default_groups of hpc-users and update_resource_groups, which writes
\* no empty list, for the groups among done.
NewMembers(done) ==
    [g \in DOMAIN gid |->
        CASE g = HpcUsers /\ g \in done -> known
          [] g \in done \cap Range(ResourceGroups) /\ Entitled(g) # {} -> Entitled(g)
          [] OTHER -> memberUid[g]]

UpdateMembers ==
    /\ pc = "members"
    /\ skipped = {} \/ ResourceGroups = << >>
    /\ memberUid' = NewMembers(DOMAIN gid)
    /\ pc' = "commit"
    /\ UNCHANGED <<tables, session, gid, commands, observers, quiet>>

\* One of the tasks raises: an LDAPError, or MissingGreenlet, because the
\* projects of a user who was passed over were never loaded.  Others may have
\* finished; nothing is committed and the daemon ends.
UpdateMembersRaises ==
    /\ pc = "members"
    /\ "refuse" \in Faults \/ (skipped # {} /\ ResourceGroups # << >>)
    /\ \E done \in SUBSET ({HpcUsers} \cup Range(ResourceGroups)) : memberUid' = NewMembers(done)
    /\ UNCHANGED gid
    /\ Leave

EndCycle == quiet' = IF quiet < 1 THEN quiet + 1 ELSE quiet

\* Only what the session has changed is written: where it has changed nothing, a
\* relation that a command forced meanwhile stays.
LdapCommit ==
    /\ pc = "commit" /\ pc' = "sleep"
    /\ rel' = IF writes THEN related ELSE rel
    /\ related' = rel' /\ listed' = papi /\ writes' = FALSE
    /\ skipped' = {} /\ next' = [k \in Kind |-> [at |-> 1, num |-> 1]]
    /\ EndCycle
    /\ UNCHANGED <<rows, known, papi, groups, commands, observers>>

Kill == "crash" \in Faults /\ pc # "down" /\ Leave /\ UNCHANGED groups
Start ==
    /\ pc = "down" /\ pc' = "sleep" /\ quiet' = 0
    /\ UNCHANGED <<tables, session, groups, commands, observers>>

-----------------------------------------------------------------------------
Daemon ==
    \/ StartCycle \/ SetGids \/ LoadUsers \/ GroupsCreated \/ SyncRelations
    \/ UpdateGroups \/ UpdateMembers \/ LdapCommit \/ Start
    \/ \E k \in Kind : CreateGroup(k)
DaemonFails ==
    \/ SyncUnresolved \/ UpdateMembersRaises \/ Kill
    \/ \E k \in Kind : CreateRefused(k)
Next == Operator \/ Daemon \/ DaemonFails
Spec == Init /\ [][Next]_vars

-----------------------------------------------------------------------------
\* No two groups of the directory have the same gidNumber, and no two cached
\* projects the same gid or identifier, however the commands and the creation
\* of the default and resource groups interleave: gen_gid and the two loops of
\* ldapupdate count separately.  A count is not a fresh number: it is one again
\* once a project was deleted, retyped or renamed, a gid nullified, or the
\* groups were created in two runs.
GidsDistinct ==
    ~renumbered =>
        /\ \A g, h \in DOMAIN gid : gid[g] = gid[h] => g = h
        /\ \A s, t \in Cached : rows[s].gid = rows[t].gid \/ rows[s].id = rows[t].id => s = t

\* Every identifier a user lists is a cached project's, whatever was created,
\* assigned and deleted: user_sync_api_db does not survive one that is not, in
\* this cycle or any later one.
ReferencesExist ==
    ~orphaned => \A u \in known : \A id \in papi[u] : WithId(id) # {}

\* A full cycle after the last command or fault the directory says what the
\* cache says: a project's group has the users who list it, hpc-users all users,
\* a resource group those whose projects have the resource, if any has.
MembersFollow ==
    pc = "sleep" /\ quiet = 1 =>
        /\ \A s \in Cached : Resolves(rows[s].id) =>
             rows[s].id \in DOMAIN gid /\ memberUid[rows[s].id] = Listing(s)
        /\ memberUid[HpcUsers] = known
        /\ \A g \in Range(ResourceGroups) :
             LET entitled == UNION {Listing(s) : s \in {t \in Cached : g \in rows[t].resources}}
             IN  entitled # {} => memberUid[g] = entitled
=============================================================================
