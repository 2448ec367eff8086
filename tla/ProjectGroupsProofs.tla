------------------------- MODULE ProjectGroupsProofs -------------------------
(***************************************************************************)
(* What holds of ProjectGroups for any users, projects, configured groups, *)
(* number of commands and faults.                                          *)
(***************************************************************************)
EXTENDS ProjectGroups, FiniteSetTheorems, TLAPS

GroupNames == Range(DefaultGroups) \cup Range(ResourceGroups)

\* The configured groups are sequences, and a kind is one of two.
LEMMA Names ==
    /\ Len(DefaultGroups) \in Nat /\ Len(ResourceGroups) \in Nat
    /\ \A k \in Kind : /\ Len(NamesOf(k)) \in Nat /\ FirstNumber(k) \in Nat
                       /\ DOMAIN NamesOf(k) = 1..Len(NamesOf(k))
                       /\ \A i \in 1..Len(NamesOf(k)) : NamesOf(k)[i] \in Range(NamesOf(k))
                       /\ Range(NamesOf(k)) \subseteq GroupNames
<1>1. /\ DefaultGroups \in Seq(Range(DefaultGroups))
      /\ ResourceGroups \in Seq(Range(ResourceGroups))
  BY ProjectGroupsAssumption
<1>2. /\ Len(DefaultGroups) \in Nat /\ DOMAIN DefaultGroups = 1..Len(DefaultGroups)
      /\ Len(ResourceGroups) \in Nat /\ DOMAIN ResourceGroups = 1..Len(ResourceGroups)
  BY <1>1
<1>3. /\ \A i \in DOMAIN DefaultGroups : DefaultGroups[i] \in Range(DefaultGroups)
      /\ \A i \in DOMAIN ResourceGroups : ResourceGroups[i] \in Range(ResourceGroups)
  BY DEF Range
<1>. QED  BY <1>2, <1>3 DEF Kind, NamesOf, FirstNumber, GroupNames

\* A project that is created gets a number within the range of the
\* configuration: there are at most as many manual projects as slots.
LEMMA GenGidInRange ==
    ASSUME TypeOK, NEW s \in Slot \ Cached
    PROVE  GenGid \in Number /\ GenGid \in 1..GidOffset
<1> DEFINE M == {x \in Cached : rows[x].type = "manual"}
<1>1. /\ IsFiniteSet(Slot \ {s})
      /\ Cardinality(Slot \ {s}) = Cardinality(Slot) - 1
      /\ Cardinality(Slot) \in Nat
  BY ProjectGroupsAssumption, FS_RemoveElement, FS_CardinalityType
<1>2. M \subseteq Slot \ {s}
  BY DEF TypeOK
<1>3. Cardinality(M) \in Nat /\ Cardinality(M) <= Cardinality(Slot) - 1
  BY <1>1, <1>2, FS_Subset, FS_CardinalityType
<1>. HIDE DEF M
<1>4. GenGid = 1 + Cardinality(M) + Len(DefaultGroups) + Len(ResourceGroups)
  BY DEF GenGid, M
<1>. QED  BY <1>3, <1>4, <1>1, Names, ProjectGroupsAssumption DEF Number

-----------------------------------------------------------------------------
LEMMA TypeInit == Init => TypeOK
<1>. SUFFICES ASSUME Init PROVE TypeOK
  OBVIOUS
<1>1. DOMAIN rows = {} /\ rows \in [{} -> Row] /\ DOMAIN gid = {} /\ gid \in [{} -> Nat]
      /\ DOMAIN memberUid = {} /\ memberUid \in [{} -> SUBSET User]
  BY DEF Init
<1>2. \A k \in Kind : next[k] = [at |-> 1, num |-> 1]
  BY DEF Init, Kind
<1>3. next \in [Kind -> [at : Nat, num : Nat]]
  BY DEF Init
<1>4. \A k \in Kind : next[k].at \in 1..Len(NamesOf(k)) + 1 /\ next[k].num \in 1..next[k].at
  BY <1>2, Names
<1>5. /\ Cached = {} /\ rows \in [Cached -> Row] /\ Cached \subseteq Slot /\ known \subseteq User
      /\ gid \in [DOMAIN gid -> Nat] /\ memberUid \in [DOMAIN gid -> SUBSET User]
  BY <1>1 DEF Cached, Init
<1>6. /\ papi = [u \in User |-> {}] /\ rel = [u \in User |-> {}]
      /\ listed = papi /\ related = rel /\ writes \in BOOLEAN
  BY DEF Init
<1>7. /\ papi \in [User -> SUBSET Identifier] /\ listed \in [User -> SUBSET Identifier]
      /\ rel \in [User -> SUBSET Slot] /\ related \in [User -> SUBSET Slot] /\ writes \in BOOLEAN
      /\ \A u \in User \ known : papi[u] = {} /\ rel[u] = {} /\ related[u] = {}
  BY <1>6
<1>8. /\ skipped = {} /\ pc = "sleep" /\ commands = 0
      /\ renumbered = FALSE /\ orphaned = FALSE /\ quiet = 0
  BY DEF Init
<1>9. commands \in 0..MaxCommands /\ quiet \in -1..1
  BY <1>8, ProjectGroupsAssumption
<1>10. /\ skipped \subseteq User
       /\ pc \in {"sleep", "metadata", "load", "create", "sync", "groups", "members",
                  "commit", "down"}
       /\ renumbered \in BOOLEAN /\ orphaned \in BOOLEAN
  BY <1>8
<1>. QED  BY <1>3, <1>4, <1>5, <1>7, <1>9, <1>10, Zenon DEF TypeOK

\* A project of the table with one column changed.
LEMMA RowChanged ==
    ASSUME NEW row \in Row
    PROVE  /\ \A v \in Identifier : [row EXCEPT !.id = v] \in Row
           /\ \A v \in 0..GidOffset : [row EXCEPT !.gid = v] \in Row
           /\ \A v \in {"manual", "api"} : [row EXCEPT !.type = v] \in Row
           /\ \A v \in SUBSET Range(ResourceGroups) : [row EXCEPT !.resources = v] \in Row
BY DEF Row

\* The commands of the operators.
LEMMA TypeOperator ==
    ASSUME TypeOK, Operator
    PROVE  TypeOK'
<1>. USE DEF TypeOK, Cached, Command, tables, session, groups, observers
<1>0. commands \in Nat /\ MaxCommands \in Nat
  BY ProjectGroupsAssumption
<1>1. ASSUME CreateProject PROVE TypeOK'
  <2>1. PICK s \in Slot \ Cached, res \in SUBSET Range(ResourceGroups) :
             rows' = [x \in Cached \cup {s} |->
                        IF x = s THEN [id |-> GenGid, gid |-> GenGid,
                                       type |-> "manual", resources |-> res]
                        ELSE rows[x]]
    BY <1>1 DEF CreateProject
  <2>2. GenGid \in Number /\ GenGid \in 1..GidOffset
    BY GenGidInRange
  <2>3. [id |-> GenGid, gid |-> GenGid, type |-> "manual", resources |-> res] \in Row
    BY <2>2, ProjectGroupsAssumption DEF Row, Identifier
  <2>4. rows' \in [Cached' -> Row] /\ Cached' \subseteq Slot
    BY <2>1, <2>3
  <2>. QED  BY <1>0, <1>1, <2>4 DEF CreateProject
<1>2. ASSUME NEW s \in Cached, NEW row \in Row, ChangeProject(s, row),
             renumbered' \in BOOLEAN, orphaned' \in BOOLEAN
      PROVE  TypeOK'
  BY <1>0, <1>2 DEF ChangeProject
<1>3. ASSUME NEW s \in Cached, UpdateResources(s) PROVE TypeOK'
  BY <1>2, <1>3, RowChanged DEF UpdateResources
<1>4. ASSUME NEW s \in Cached, UpdateIdentifier(s) PROVE TypeOK'
  BY <1>2, <1>4, RowChanged DEF UpdateIdentifier, Identifier
<1>5. ASSUME NEW s \in Cached, UpdateType(s) PROVE TypeOK'
  BY <1>2, <1>5, RowChanged DEF UpdateType
<1>6. ASSUME NEW s \in Cached, NullGid(s) PROVE TypeOK'
  <2>0. rows[s] \in Row /\ 0 \in 0..GidOffset
    BY ProjectGroupsAssumption
  <2>1. [rows[s] EXCEPT !.gid = 0] \in Row
    BY <2>0, RowChanged
  <2>. QED  BY <1>2, <1>6, <2>1 DEF NullGid
<1>7. ASSUME NEW s \in Cached PROVE Unlisted(s) \in [User -> SUBSET Identifier]
                                    /\ \A u \in User : Unlisted(s)[u] \subseteq papi[u]
  BY DEF Unlisted
<1>8. ASSUME NEW s \in Cached, DeleteProject(s) PROVE TypeOK'
  BY <1>0, <1>7, <1>8 DEF DeleteProject
<1>9. ASSUME NEW s \in Cached, ForceDeleteProject(s) PROVE TypeOK'
  BY <1>0, <1>7, <1>9 DEF ForceDeleteProject
<1>10. ASSUME NEW u \in User, NEW s \in Cached, NEW force \in BOOLEAN, AssignUser(u, s, force)
       PROVE  TypeOK'
  <2>1. rows[s].id \in Identifier
    BY DEF Row
  <2>. QED  BY <1>0, <1>10, <2>1 DEF AssignUser
<1>11. ASSUME NEW u \in User, NEW s \in Cached, NEW force \in BOOLEAN, UnassignUser(u, s, force)
       PROVE  TypeOK'
  BY <1>0, <1>11 DEF UnassignUser
<1>12. ASSUME NEW u \in User, DeleteUser(u) PROVE TypeOK'
  BY <1>0, <1>12 DEF DeleteUser
<1>. QED  BY <1>1, <1>3, <1>4, <1>5, <1>6, <1>8, <1>9, <1>10, <1>11, <1>12 DEF Operator

\* The resource groups and their members.
LEMMA NewMembersType ==
    ASSUME TypeOK, NEW done PROVE NewMembers(done) \in [DOMAIN gid -> SUBSET User]
BY DEF TypeOK, NewMembers, Entitled

LEMMA TypeLeave == TypeOK /\ Leave /\ gid' = gid /\ memberUid' \in [DOMAIN gid -> SUBSET User]
                     => TypeOK'
<1>. SUFFICES ASSUME TypeOK, Leave, gid' = gid, memberUid' \in [DOMAIN gid -> SUBSET User]
              PROVE  TypeOK'
  OBVIOUS
<1>1. /\ next' \in [Kind -> [at : Nat, num : Nat]]
      /\ \A k \in Kind : next'[k] = [at |-> 1, num |-> 1]
  BY DEF Leave
<1>2. renumbered' \in BOOLEAN
  BY DEF Leave, TypeOK, Partial
<1>3. \A u \in User \ known' : papi'[u] = {} /\ rel'[u] = {} /\ related'[u] = {}
  BY DEF Leave, TypeOK, tables
<1>4. \A k \in Kind : /\ next'[k].at \in 1..Len(NamesOf(k)) + 1
                     /\ next'[k].num \in 1..next'[k].at
  BY <1>1, Names
<1>5. /\ pc' \in {"sleep", "metadata", "load", "create", "sync", "groups", "members",
                  "commit", "down"}
      /\ skipped' \subseteq User /\ writes' \in BOOLEAN /\ quiet' \in -1..1
  <2>1. pc' = "down" /\ skipped' = {} /\ writes' = FALSE /\ quiet' = -1
    BY Zenon DEF Leave
  <2>2. quiet' \in -1..1
    BY <2>1
  <2>3. skipped' \subseteq User /\ writes' \in BOOLEAN
    BY <2>1
  <2>. QED  BY <2>1, <2>2, <2>3, Zenon
<1>6. /\ rows' \in [Cached' -> Row] /\ Cached' \subseteq Slot /\ known' \subseteq User
      /\ papi' \in [User -> SUBSET Identifier] /\ listed' \in [User -> SUBSET Identifier]
      /\ rel' \in [User -> SUBSET Slot] /\ related' \in [User -> SUBSET Slot]
  BY DEF Leave, TypeOK, tables, Cached
<1>7. commands' \in 0..MaxCommands /\ orphaned' \in BOOLEAN
  BY DEF Leave, TypeOK
<1>8. gid' \in [DOMAIN gid' -> Nat] /\ memberUid' \in [DOMAIN gid' -> SUBSET User]
  BY DEF TypeOK
<1>. QED  BY <1>1, <1>2, <1>3, <1>4, <1>5, <1>6, <1>7, <1>8, Zenon DEF TypeOK

\* The tasks of the daemon.
LEMMA TypeDaemon ==
    ASSUME TypeOK, Daemon
    PROVE  TypeOK'
<1>. USE DEF TypeOK, Cached, tables, session, groups, observers
<1>1. CASE StartCycle
  BY <1>1 DEF StartCycle
<1>2. CASE SetGids
  <2>1. \A s \in Cached : [rows[s] EXCEPT !.gid = GidOffset] \in Row
    <3>1. GidOffset \in 0..GidOffset
      BY ProjectGroupsAssumption
    <3>. QED  BY <3>1, RowChanged
  <2>2. rows' \in [Cached -> Row]
    BY <1>2, <2>1 DEF SetGids
  <2>. QED  BY <1>2, <2>2 DEF SetGids
<1>3. /\ [k \in Kind |-> [at |-> 1, num |-> 1]] \in [Kind -> [at : Nat, num : Nat]]
      /\ \A k \in Kind : 1 \in 1..Len(NamesOf(k)) + 1
  BY Names
<1>4. CASE LoadUsers
  <2>1. next' = [k \in Kind |-> [at |-> 1, num |-> 1]]
    BY <1>4 DEF LoadUsers
  <2>2. /\ next' \in [Kind -> [at : Nat, num : Nat]]
        /\ \A k \in Kind : /\ next'[k].at \in 1..Len(NamesOf(k)) + 1
                           /\ next'[k].num \in 1..next'[k].at
    BY <1>3, <2>1
  <2>. QED  BY <1>4, <2>2 DEF LoadUsers
<1>5. CASE GroupsCreated
  BY <1>5 DEF GroupsCreated
<1>6. CASE SyncRelations
  <2>1. PICK skip \in Skips :
           /\ skipped' = skip
           /\ related' = [u \in User |->
                            IF u \in known \ skip
                            THEN {s \in Cached : rows[s].id \in listed[u]} ELSE rel[u]]
           /\ quiet' = IF skip = {} THEN quiet ELSE -1
    BY <1>6 DEF SyncRelations
  <2>2. related' \in [User -> SUBSET Slot] /\ skipped' \subseteq User /\ quiet' \in -1..1
    BY <2>1 DEF Skips
  <2>. QED  BY <1>6, <2>2 DEF SyncRelations
<1>7. CASE UpdateGroups
  <2>1. PICK chosen \in SUBSET Cached :
           LET names == DOMAIN gid \cup IdsOf(chosen)
               slot(g) == CHOOSE s \in chosen : rows[s].id = g
           IN  /\ gid' = [g \in names |-> IF g \in DOMAIN gid THEN gid[g]
                                          ELSE rows[slot(g)].gid]
               /\ memberUid' = [g \in names |-> IF g \in IdsOf(chosen)
                                                THEN MembersOf(slot(g))
                                                ELSE memberUid[g]]
               /\ quiet' = IF IdsOf(chosen) = IdsOf(Cached) THEN quiet ELSE -1
    BY <1>7 DEF UpdateGroups
  <2>. DEFINE slot(g) == CHOOSE s \in chosen : rows[s].id = g
  <2>2. ASSUME NEW g \in IdsOf(chosen)
        PROVE  slot(g) \in Cached /\ rows[slot(g)].gid \in Nat
    BY ProjectGroupsAssumption DEF IdsOf, Row
  <2>3. \A g : MembersOf(slot(g)) \in SUBSET User
    BY DEF MembersOf
  <2>4. gid' \in [DOMAIN gid' -> Nat] /\ DOMAIN gid' = DOMAIN gid \cup IdsOf(chosen)
    BY <2>1, <2>2
  <2>5. memberUid' \in [DOMAIN gid' -> SUBSET User]
    <3>1. \A g \in DOMAIN gid' : memberUid'[g] \in SUBSET User
      BY <2>1, <2>3, <2>4
    <3>. QED  BY <2>1, <2>4, <3>1
  <2>6. quiet' \in -1..1
    BY <2>1
  <2>7. /\ pc = "groups" /\ pc' = "members"
        /\ UNCHANGED <<tables, session, commands, observers>>
    BY <1>7 DEF UpdateGroups
  <2>. QED  BY <2>4, <2>5, <2>6, <2>7
<1>8. CASE UpdateMembers
  BY <1>8, NewMembersType DEF UpdateMembers
<1>9. CASE LdapCommit
  <2>1. next' = [k \in Kind |-> [at |-> 1, num |-> 1]]
    BY <1>9 DEF LdapCommit
  <2>2. /\ next' \in [Kind -> [at : Nat, num : Nat]]
        /\ \A k \in Kind : /\ next'[k].at \in 1..Len(NamesOf(k)) + 1
                           /\ next'[k].num \in 1..next'[k].at
    BY <1>3, <2>1
  <2>3. rel' \in [User -> SUBSET Slot] /\ related' = rel' /\ quiet' \in -1..1
    BY <1>9 DEF LdapCommit, EndCycle
  <2>4. \A u \in User \ known : rel'[u] = {} /\ related'[u] = {}
    BY <1>9 DEF LdapCommit
  <2>. QED  BY <1>9, <2>2, <2>3, <2>4 DEF LdapCommit
<1>10. CASE Start
  BY <1>10 DEF Start
<1>11. ASSUME NEW k \in Kind, CreateGroup(k) PROVE TypeOK'
  <2>. DEFINE here == next[k]
              name == NamesOf(k)[here.at]
  <2>1. /\ pc = "create" /\ here.at \in 1..Len(NamesOf(k)) /\ here.num \in 1..here.at
        /\ here \in [at : Nat, num : Nat]
    BY <1>11, Names DEF CreateGroup
  <2>2. CASE name \in DOMAIN gid
    <3>1. next' = [next EXCEPT ![k].at = here.at + 1] /\ UNCHANGED <<gid, memberUid>>
      BY <1>11, <2>2 DEF CreateGroup
    <3>2. next' \in [Kind -> [at : Nat, num : Nat]]
      BY <2>1, <3>1
    <3>3. \A x \in Kind : /\ next'[x].at \in 1..Len(NamesOf(x)) + 1
                         /\ next'[x].num \in 1..next'[x].at
      BY <2>1, <3>1, Names
    <3>. QED  BY <1>11, <3>1, <3>2, <3>3 DEF CreateGroup
  <2>3. CASE name \notin DOMAIN gid
    <3>1. /\ gid' = [g \in DOMAIN gid \cup {name} |->
                        IF g = name THEN FirstNumber(k) + here.num ELSE gid[g]]
          /\ memberUid' = [g \in DOMAIN gid \cup {name} |->
                              IF g = name THEN {} ELSE memberUid[g]]
          /\ next' = [next EXCEPT ![k] = [at |-> here.at + 1, num |-> here.num + 1]]
      BY <1>11, <2>3 DEF CreateGroup
    <3>2. next' \in [Kind -> [at : Nat, num : Nat]]
      BY <2>1, <3>1
    <3>3. \A x \in Kind : /\ next'[x].at \in 1..Len(NamesOf(x)) + 1
                         /\ next'[x].num \in 1..next'[x].at
      BY <2>1, <3>1, Names
    <3>4. FirstNumber(k) + here.num \in Nat
      BY <2>1, Names
    <3>5. gid' \in [DOMAIN gid' -> Nat] /\ memberUid' \in [DOMAIN gid' -> SUBSET User]
      BY <3>1, <3>4
    <3>. QED  BY <1>11, <3>2, <3>3, <3>5 DEF CreateGroup
  <2>. QED  BY <2>2, <2>3
<1>. QED  BY <1>1, <1>2, <1>4, <1>5, <1>6, <1>7, <1>8, <1>9, <1>10, <1>11 DEF Daemon

LEMMA TypeFails ==
    ASSUME TypeOK, DaemonFails
    PROVE  TypeOK'
<1>1. CASE SyncUnresolved
  BY <1>1, TypeLeave DEF SyncUnresolved, groups, TypeOK
<1>2. CASE UpdateMembersRaises
  BY <1>2, TypeLeave, NewMembersType DEF UpdateMembersRaises
<1>3. CASE Kill
  BY <1>3, TypeLeave DEF Kill, groups, TypeOK
<1>4. ASSUME NEW k \in Kind, CreateRefused(k) PROVE TypeOK'
  BY <1>4, TypeLeave DEF CreateRefused, groups, TypeOK
<1>. QED  BY <1>1, <1>2, <1>3, <1>4 DEF DaemonFails

LEMMA TypeStep == TypeOK /\ [Next]_vars => TypeOK'
<1>1. ASSUME TypeOK, UNCHANGED vars PROVE TypeOK'
  BY <1>1 DEF TypeOK, vars, tables, session, groups, observers, Cached
<1>. QED  BY <1>1, TypeOperator, TypeDaemon, TypeFails DEF Next

\* Every row, group and relation is of its type, and a user without a row has
\* neither a project nor a relation, whatever the operators and the daemon do.
THEOREM TypeCorrect == Spec => []TypeOK
BY TypeInit, TypeStep, PTL DEF Spec

-----------------------------------------------------------------------------
\* ReferencesExist for every user, those without a row included: a user who is
\* deleted and assigned again starts without identifiers.
Referenced == ~orphaned => \A u \in User : papi[u] \subseteq IdsOf(Cached)

\* Listed or not, what happens to the row of a project is up to Listing.
LEMMA NotListed ==
    ASSUME TypeOK, NEW s \in Cached, Listing(s) = {}
    PROVE  \A u \in User : rows[s].id \notin papi[u]
BY DEF Listing, TypeOK

LEMMA ReferencesOperator ==
    ASSUME TypeOK, Referenced, Operator
    PROVE  Referenced'
<1>. USE DEF Referenced, IdsOf, Cached, observers
<1>1. CASE CreateProject
  BY <1>1 DEF CreateProject
<1>2. ASSUME NEW s \in Cached, NEW row, ChangeProject(s, row), row.id = rows[s].id,
             UNCHANGED orphaned
      PROVE  Referenced'
  <2>1. /\ papi' = papi /\ DOMAIN rows' = DOMAIN rows
        /\ \A x \in Cached : rows'[x].id = rows[x].id
    BY <1>2 DEF ChangeProject, TypeOK
  <2>. QED  BY <1>2, <2>1
<1>3. ASSUME NEW s \in Cached, UpdateResources(s) PROVE Referenced'
  <2>1. PICK res \in SUBSET Range(ResourceGroups) : ChangeProject(s, [rows[s] EXCEPT !.resources = res])
    BY <1>3 DEF UpdateResources
  <2>2. [rows[s] EXCEPT !.resources = res].id = rows[s].id
    BY DEF TypeOK, Row
  <2>. QED  BY <1>2, <1>3, <2>1, <2>2 DEF UpdateResources
<1>4. ASSUME NEW s \in Cached, UpdateType(s) PROVE Referenced'
  <2>1. [rows[s] EXCEPT !.type = "api"].id = rows[s].id
    BY DEF TypeOK, Row
  <2>. QED  BY <1>2, <1>4, <2>1 DEF UpdateType
<1>5. ASSUME NEW s \in Cached, NullGid(s) PROVE Referenced'
  <2>1. [rows[s] EXCEPT !.gid = 0].id = rows[s].id
    BY DEF TypeOK, Row
  <2>. QED  BY <1>2, <1>5, <2>1 DEF NullGid
<1>6. ASSUME NEW s \in Cached, UpdateIdentifier(s) PROVE Referenced'
  <2>1. SUFFICES ASSUME ~orphaned' PROVE \A u \in User : papi'[u] \subseteq IdsOf(Cached)'
    OBVIOUS
  <2>2. ~orphaned /\ \A u \in User : rows[s].id \notin papi[u]
    BY <1>6, <2>1, NotListed DEF UpdateIdentifier
  <2>3. /\ papi' = papi /\ DOMAIN rows' = DOMAIN rows
        /\ \A x \in Cached \ {s} : rows'[x].id = rows[x].id
    BY <1>6 DEF UpdateIdentifier, ChangeProject, TypeOK
  <2>. QED  BY <2>2, <2>3
<1>7. ASSUME NEW s \in Cached, DeleteProject(s) PROVE Referenced'
  BY <1>7 DEF DeleteProject, Unlisted
<1>8. ASSUME NEW s \in Cached, ForceDeleteProject(s) PROVE Referenced'
  <2>1. SUFFICES ASSUME ~orphaned', NEW u \in User PROVE papi'[u] \subseteq IdsOf(Cached)'
    OBVIOUS
  <2>2. ~orphaned /\ Listing(s) \subseteq Related(s) /\ papi' = Unlisted(s)
        /\ rows' = [x \in Cached \ {s} |-> rows[x]]
    BY <1>8, <2>1 DEF ForceDeleteProject
  <2>3. papi'[u] \subseteq papi[u] /\ rows[s].id \notin papi'[u]
    BY <2>2 DEF Unlisted, Listing, Related, TypeOK
  <2>. QED  BY <2>2, <2>3
<1>9. ASSUME NEW u \in User, NEW s \in Cached, NEW force \in BOOLEAN, AssignUser(u, s, force)
      PROVE  Referenced'
  BY <1>9 DEF AssignUser, TypeOK
<1>10. ASSUME NEW u \in User, NEW s \in Cached, NEW force \in BOOLEAN, UnassignUser(u, s, force)
       PROVE  Referenced'
  BY <1>10 DEF UnassignUser, TypeOK
<1>11. ASSUME NEW u \in User, DeleteUser(u) PROVE Referenced'
  BY <1>11 DEF DeleteUser, TypeOK
<1>. QED  BY <1>1, <1>3, <1>4, <1>5, <1>6, <1>7, <1>8, <1>9, <1>10, <1>11 DEF Operator

\* The daemon only changes gids in the table of projects.
LEMMA DaemonKeepsTables ==
    ASSUME TypeOK, Daemon \/ DaemonFails
    PROVE  /\ papi' = papi /\ known' = known /\ orphaned' = orphaned /\ DOMAIN rows' = DOMAIN rows
           /\ \A s \in Cached : rows'[s].id = rows[s].id /\ rows'[s].resources = rows[s].resources
<1>. USE DEF tables, session, groups, observers
<1>1. CASE SetGids
  BY <1>1 DEF SetGids, Cached, TypeOK, Row
<1>2. CASE ~SetGids
  <2>1. UNCHANGED <<rows, papi, known, orphaned>>
    BY <1>2 DEF Daemon, DaemonFails, Leave, StartCycle, LoadUsers, GroupsCreated, SyncRelations,
                UpdateGroups, UpdateMembers, LdapCommit, Start, CreateGroup, SyncUnresolved,
                UpdateMembersRaises, Kill, CreateRefused
  <2>. QED  BY <2>1
<1>. QED  BY <1>1, <1>2

\* Unless an operator renamed a project that was listed, or deleted one before
\* its users were related to it, every listed identifier is a cached project's.
THEOREM NoDanglingReference == Spec => []ReferencesExist
<1>1. Init => Referenced
  BY DEF Init, Referenced
<1>2. TypeOK /\ Referenced /\ [Next]_vars => Referenced'
  <2>. SUFFICES ASSUME TypeOK, Referenced, [Next]_vars PROVE Referenced'
    OBVIOUS
  <2>1. CASE Operator
    BY <2>1, ReferencesOperator
  <2>2. CASE Daemon \/ DaemonFails
    BY <2>2, DaemonKeepsTables DEF Referenced, IdsOf, Cached
  <2>3. CASE UNCHANGED vars
    BY <2>3 DEF vars, tables, observers, Referenced, IdsOf, Cached
  <2>. QED  BY <2>1, <2>2, <2>3 DEF Next
<1>3. TypeOK /\ Referenced => ReferencesExist
  BY DEF TypeOK, Referenced, ReferencesExist, IdsOf, WithId
<1>. QED  BY <1>1, <1>2, <1>3, TypeCorrect, PTL DEF Spec

-----------------------------------------------------------------------------
Complete(k) == Range(NamesOf(k)) \subseteq DOMAIN gid

\* How far the creation of the configured groups is: a group that was passed is
\* there, and after both loops all are.
Created ==
    /\ pc = "create" => \A k \in Kind : \A i \in 1..next[k].at - 1 : NamesOf(k)[i] \in DOMAIN gid
    /\ pc \in {"sync", "groups", "members", "commit"} => \A k \in Kind : Complete(k)

\* Groups are never taken away.
LEMMA GroupsStay ==
    ASSUME TypeOK, [Next]_vars
    PROVE  DOMAIN gid \subseteq DOMAIN gid'
<1>. USE DEF tables, session, groups, observers
<1>1. ASSUME NEW k \in Kind, CreateGroup(k) PROVE DOMAIN gid \subseteq DOMAIN gid'
  BY <1>1 DEF CreateGroup
<1>2. CASE UpdateGroups
  BY <1>2 DEF UpdateGroups
<1>3. CASE Operator
  <2>1. gid' = gid
    BY <1>3 DEF Operator, CreateProject, UpdateResources, UpdateIdentifier, UpdateType, NullGid,
                ChangeProject, DeleteProject, ForceDeleteProject, AssignUser, UnassignUser,
                DeleteUser, Command
  <2>. QED  BY <2>1
<1>4. CASE \/ StartCycle \/ SetGids \/ LoadUsers \/ GroupsCreated \/ SyncRelations
           \/ UpdateMembers \/ LdapCommit \/ Start
  BY <1>4 DEF StartCycle, SetGids, LoadUsers, GroupsCreated, SyncRelations, UpdateMembers,
              LdapCommit, Start
<1>5. CASE DaemonFails
  BY <1>5 DEF DaemonFails, SyncUnresolved, UpdateMembersRaises, Kill, CreateRefused
<1>6. CASE UNCHANGED vars
  BY <1>6 DEF vars
<1>. QED  BY <1>1, <1>2, <1>3, <1>4, <1>5, <1>6 DEF Next, Daemon

\* A command leaves the groups, the daemon's session and its place alone.
LEMMA CommandKeeps ==
    ASSUME Operator
    PROVE  /\ UNCHANGED <<listed, related, writes, next, skipped, gid, memberUid, pc>>
           /\ quiet' = IF pc \in {"sleep", "down"} THEN 0 ELSE -1
           /\ ~writes
BY DEF Operator, CreateProject, UpdateResources, UpdateIdentifier, UpdateType, NullGid,
       ChangeProject, DeleteProject, ForceDeleteProject, AssignUser, UnassignUser,
       DeleteUser, Command, session, groups

LEMMA AllPassed ==
    ASSUME TypeOK, NEW k \in Kind, next[k].at > Len(NamesOf(k)),
           \A i \in 1..next[k].at - 1 : NamesOf(k)[i] \in DOMAIN gid
    PROVE  Complete(k)
<1>1. next[k].at - 1 = Len(NamesOf(k))
  BY Names DEF TypeOK
<1>. QED  BY <1>1, Names DEF Complete, Range

LEMMA CreatedStep ==
    ASSUME TypeOK, Created, [Next]_vars
    PROVE  Created'
<1>. USE DEF Created, tables, session, groups, observers
<1>0. DOMAIN gid \subseteq DOMAIN gid'
  BY GroupsStay
<1>1. ASSUME pc' = pc, next' = next PROVE Created'
  BY <1>0, <1>1 DEF Complete
<1>2. ASSUME pc' \in {"sleep", "metadata", "load", "down"} PROVE Created'
  BY <1>2
<1>3. CASE Operator
  BY <1>1, <1>3, CommandKeeps
<1>4. CASE StartCycle \/ SetGids \/ LdapCommit \/ Start
  BY <1>2, <1>4 DEF StartCycle, SetGids, LdapCommit, Start
<1>5. CASE LoadUsers
  <2>1. pc' = "create" /\ \A k \in Kind : next'[k].at = 1
    BY <1>5 DEF LoadUsers
  <2>. QED  BY <2>1
<1>6. ASSUME NEW k \in Kind, CreateGroup(k) PROVE Created'
  <2>1. /\ pc = "create" /\ pc' = "create"
        /\ NamesOf(k)[next[k].at] \in DOMAIN gid'
        /\ next'[k].at = next[k].at + 1 /\ \A x \in Kind \ {k} : next'[x] = next[x]
        /\ next[k].at \in Nat
    BY <1>6 DEF CreateGroup, TypeOK
  <2>2. ASSUME NEW x \in Kind, NEW i \in 1..next'[x].at - 1 PROVE NamesOf(x)[i] \in DOMAIN gid'
    <3>1. CASE x = k /\ i = next[k].at
      BY <2>1, <3>1
    <3>2. CASE ~(x = k /\ i = next[k].at)
      <4>1. i \in 1..next[x].at - 1
        BY <2>1, <3>2
      <4>. QED  BY <1>0, <2>1, <4>1
    <3>. QED  BY <3>1, <3>2
  <2>. QED  BY <2>1, <2>2 DEF NamesOf
<1>7. CASE GroupsCreated
  <2>1. \A k \in Kind : Complete(k)
    BY <1>7, AllPassed DEF GroupsCreated
  <2>. QED  BY <1>0, <1>7, <2>1 DEF GroupsCreated, Complete
<1>8. CASE SyncRelations \/ UpdateGroups \/ UpdateMembers
  BY <1>0, <1>8 DEF SyncRelations, UpdateGroups, UpdateMembers, Complete
<1>9. CASE DaemonFails
  <2>1. pc' = "down"
    BY <1>9 DEF DaemonFails, SyncUnresolved, UpdateMembersRaises, Kill, CreateRefused, Leave
  <2>. QED  BY <1>2, <2>1
<1>10. CASE UNCHANGED vars
  BY <1>1, <1>10 DEF vars
<1>. QED  BY <1>3, <1>4, <1>5, <1>6, <1>7, <1>8, <1>9, <1>10 DEF Next, Daemon

LEMMA CreatedAlways == Spec => []Created
<1>1. Init => Created
  BY DEF Init, Created
<1>. QED  BY <1>1, CreatedStep, TypeCorrect, PTL DEF Spec

-----------------------------------------------------------------------------
\* The numbers: first those of the default groups, then those of the resource
\* groups, then those of the projects.
Base == Len(DefaultGroups) + Len(ResourceGroups)
Named(k) == DOMAIN gid \cap Range(NamesOf(k))

\* gen_gid counts the projects: every one is manual and has a number of its own.
ProjectsCounted ==
    \A s \in Cached :
        /\ rows[s].type = "manual" /\ rows[s].gid = rows[s].id
        /\ rows[s].id \in Base + 1..Base + Cardinality(Cached)
        /\ \A t \in Cached : rows[s].id = rows[t].id => s = t

\* The other groups are projects', numbered as they are.
ProjectGroupsCounted == \A g \in DOMAIN gid \ GroupNames : g \in IdsOf(Cached) /\ gid[g] = g

\* The groups of a kind have its numbers, each its own.
NamesCounted(k) ==
    \A g \in Named(k) :
        /\ gid[g] \in FirstNumber(k) + 1..FirstNumber(k) + Len(NamesOf(k))
        /\ \A h \in Named(k) : gid[g] = gid[h] => g = h

\* A loop that will still create a group has not used the number it is at.
Fresh(k) ==
    IF pc = "create"
    THEN Complete(k) \/ \A g \in Named(k) : gid[g] < FirstNumber(k) + next[k].num
    ELSE Complete(k) \/ Named(k) = {}

Counted ==
    ~renumbered => /\ ProjectsCounted /\ ProjectGroupsCounted
                   /\ \A k \in Kind : NamesCounted(k) /\ Fresh(k)

LEMMA KindsDiffer ==
    /\ \A k, l \in Kind : k # l => Range(NamesOf(k)) \cap Range(NamesOf(l)) = {}
    /\ GroupNames \cap Identifier = {}
    /\ GroupNames = UNION {Range(NamesOf(k)) : k \in Kind}
<1>1. GroupNames \cap Identifier = {}
  BY ProjectGroupsAssumption DEF GroupNames, Identifier, Number
<1>2. \A k, l \in Kind : k # l => Range(NamesOf(k)) \cap Range(NamesOf(l)) = {}
  BY ProjectGroupsAssumption DEF Kind, NamesOf
<1>3. GroupNames = UNION {Range(NamesOf(k)) : k \in Kind}
  BY DEF GroupNames, Kind, NamesOf
<1>. QED  BY <1>1, <1>2, <1>3

LEMMA CountedImplies == TypeOK /\ Counted => GidsDistinct
<1>. SUFFICES ASSUME TypeOK, Counted, ~renumbered PROVE GidsDistinct
  BY DEF GidsDistinct
<1>1. \A s, t \in Cached : rows[s].gid = rows[t].gid \/ rows[s].id = rows[t].id => s = t
  BY DEF Counted, ProjectsCounted
<1>2. ASSUME NEW k \in Kind, NEW g \in Named(k)
      PROVE  gid[g] \in Nat /\ gid[g] <= Base
             /\ (k = "default" <=> gid[g] <= Len(DefaultGroups))
  BY <1>2, Names DEF Counted, NamesCounted, FirstNumber, NamesOf, Kind, Base
<1>3. ASSUME NEW g \in DOMAIN gid \ GroupNames
      PROVE  gid[g] = g /\ gid[g] \in Nat /\ gid[g] > Base
  <2>1. PICK s \in Cached : g = rows[s].id
    BY DEF Counted, ProjectGroupsCounted, IdsOf
  <2>2. /\ rows[s].id \in Base + 1..Base + Cardinality(Cached)
        /\ Base \in Nat
    BY <2>1, Names DEF Counted, ProjectsCounted, Base
  <2>3. Cardinality(Cached) \in Nat
    BY ProjectGroupsAssumption, FS_Subset, FS_CardinalityType DEF TypeOK
  <2>. QED  BY <2>1, <2>2, <2>3 DEF Counted, ProjectGroupsCounted
<1>4. ASSUME NEW g \in DOMAIN gid, NEW h \in DOMAIN gid, gid[g] = gid[h] PROVE g = h
  <2>1. CASE g \in GroupNames /\ h \in GroupNames
    <3>1. PICK k \in Kind, l \in Kind : g \in Named(k) /\ h \in Named(l)
      BY <2>1, KindsDiffer DEF Named
    <3>2. k = l
      BY <1>2, <1>4, <3>1 DEF Kind
    <3>. QED  BY <1>4, <3>1, <3>2 DEF Counted, NamesCounted
  <2>2. CASE g \notin GroupNames /\ h \notin GroupNames
    BY <1>3, <1>4, <2>2
  <2>3. ASSUME NEW x \in DOMAIN gid \cap GroupNames, NEW y \in DOMAIN gid \ GroupNames
        PROVE  gid[x] # gid[y]
    <3>1. PICK k \in Kind : x \in Named(k)
      BY KindsDiffer DEF Named
    <3>2. Base \in Nat
      BY Names DEF Base
    <3>. QED  BY <1>2, <1>3, <3>1, <3>2
  <2>. QED  BY <1>4, <2>1, <2>2, <2>3
<1>. QED  BY <1>1, <1>4 DEF GidsDistinct

\* What is counted is in rows and in the groups with their creation.
LEMMA NamesKept ==
    ASSUME UNCHANGED <<gid, next, pc>>
    PROVE  \A k \in Kind : (NamesCounted(k) <=> NamesCounted(k)') /\ (Fresh(k) <=> Fresh(k)')
BY DEF NamesCounted, Fresh, Named, Complete, NamesOf, FirstNumber

LEMMA RowsKept ==
    ASSUME TypeOK, DOMAIN rows' = Cached,
           \A s \in Cached : /\ rows'[s].id = rows[s].id /\ rows'[s].gid = rows[s].gid
                            /\ rows'[s].type = rows[s].type
    PROVE  (ProjectsCounted => ProjectsCounted') /\ IdsOf(Cached)' = IdsOf(Cached)
BY DEF ProjectsCounted, IdsOf, Cached, Base

LEMMA CountedCreate ==
    ASSUME TypeOK, Counted, ~renumbered, CreateProject
    PROVE  ProjectsCounted' /\ IdsOf(Cached) \subseteq IdsOf(Cached)'
<1>1. PICK s \in Slot \ Cached, res \in SUBSET Range(ResourceGroups) :
           rows' = [x \in Cached \cup {s} |->
                      IF x = s THEN [id |-> GenGid, gid |-> GenGid,
                                     type |-> "manual", resources |-> res]
                      ELSE rows[x]]
  BY DEF CreateProject
<1>2. IsFiniteSet(Cached) /\ Cardinality(Cached) \in Nat
  BY ProjectGroupsAssumption, FS_Subset, FS_CardinalityType DEF TypeOK
<1>3. Cardinality(Cached \cup {s}) = Cardinality(Cached) + 1
  BY <1>1, <1>2, FS_AddElement
<1>. DEFINE manual == {x \in Cached : rows[x].type = "manual"}
<1>4. GenGid = 1 + Cardinality(manual) + Len(DefaultGroups) + Len(ResourceGroups)
  BY DEF GenGid
<1>5. GenGid = Base + Cardinality(Cached) + 1 /\ Base \in Nat
  <2>1. manual = Cached
    BY DEF Counted, ProjectsCounted
  <2>. HIDE DEF manual
  <2>. QED  BY <1>2, <1>4, <2>1, Names DEF Base
<1>. DEFINE ids(x) == Base + 1..Base + Cardinality(x)
<1>6. Cached' = Cached \cup {s}
  BY <1>1 DEF Cached
<1>7. ASSUME NEW x \in Cached'
      PROVE  /\ rows'[x].type = "manual" /\ rows'[x].gid = rows'[x].id
             /\ rows'[x].id \in ids(Cached)'
             /\ x # s => rows'[x].id = rows[x].id /\ x \in Cached /\ rows[x].id \in ids(Cached)
             /\ x = s => rows'[x].id = GenGid
  <2>1. CASE x = s
    BY <1>1, <1>2, <1>3, <1>5, <1>6, <2>1
  <2>2. CASE x # s
    <3>1. rows'[x] = rows[x] /\ x \in Cached
      BY <1>1, <1>6, <2>2
    <3>. QED  BY <1>2, <1>3, <1>5, <1>6, <2>2, <3>1 DEF Counted, ProjectsCounted
  <2>. QED  BY <2>1, <2>2
<1>8. GenGid \notin ids(Cached)
  BY <1>2, <1>5
<1>9. \A x, y \in Cached' : rows'[x].id = rows'[y].id => x = y
  BY <1>7, <1>8 DEF Counted, ProjectsCounted
<1>10. ProjectsCounted'
  BY <1>7, <1>9 DEF ProjectsCounted, Base
<1>11. IdsOf(Cached) \subseteq IdsOf(Cached)'
  BY <1>1 DEF IdsOf, Cached
<1>. QED  BY <1>10, <1>11

LEMMA CountedOperator ==
    ASSUME TypeOK, Counted, Operator
    PROVE  Counted'
<1>. SUFFICES ASSUME ~renumbered' PROVE Counted'
  BY DEF Counted
<1>. USE DEF observers
<1>1. UNCHANGED <<gid, next, pc>>
  BY CommandKeeps
<1>2. ASSUME ~renumbered, ProjectsCounted', IdsOf(Cached) \subseteq IdsOf(Cached)' PROVE Counted'
  <2>1. \A k \in Kind : NamesCounted(k)' /\ Fresh(k)'
    BY <1>1, <1>2, NamesKept DEF Counted
  <2>2. ProjectGroupsCounted'
    BY <1>1, <1>2 DEF Counted, ProjectGroupsCounted, GroupNames
  <2>. QED  BY <1>2, <2>1, <2>2 DEF Counted
<1>3. CASE CreateProject
  BY <1>2, <1>3, CountedCreate DEF CreateProject
<1>4. ASSUME NEW s \in Cached, UpdateResources(s) PROVE Counted'
  <2>1. ~renumbered
    BY <1>4 DEF UpdateResources
  <2>2. PICK res \in SUBSET Range(ResourceGroups) :
            rows' = [rows EXCEPT ![s] = [rows[s] EXCEPT !.resources = res]]
    BY <1>4 DEF UpdateResources, ChangeProject
  <2>3. /\ DOMAIN rows' = Cached
        /\ \A x \in Cached : /\ rows'[x].id = rows[x].id /\ rows'[x].gid = rows[x].gid
                            /\ rows'[x].type = rows[x].type
    BY <2>2 DEF TypeOK, Row, Cached
  <2>. QED  BY <1>2, <2>1, <2>3, RowsKept DEF Counted
<1>5. ASSUME rows' = rows, renumbered' = renumbered PROVE Counted'
  BY <1>2, <1>5, RowsKept DEF Counted, Cached
<1>6. CASE /\ ~CreateProject
           /\ ~\E s \in Cached : UpdateResources(s)
  BY <1>5, <1>6 DEF Operator, UpdateIdentifier, UpdateType, NullGid, DeleteProject,
                    ForceDeleteProject, AssignUser, UnassignUser, DeleteUser
<1>. QED  BY <1>3, <1>4, <1>6

LEMMA NamesCountedGroup ==
    ASSUME TypeOK, NEW kind \in Kind, CreateGroup(kind),
           \A k \in Kind : NamesCounted(k) /\ Fresh(k)
    PROVE  /\ \A k \in Kind : NamesCounted(k)' /\ Fresh(k)'
           /\ DOMAIN gid' \ GroupNames = DOMAIN gid \ GroupNames
           /\ \A g \in DOMAIN gid : gid'[g] = gid[g]
<1>. DEFINE name == NamesOf(kind)[next[kind].at]
            num == next[kind].num
<1>1. /\ pc = "create" /\ pc' = "create"
      /\ next[kind].at \in 1..Len(NamesOf(kind)) /\ num \in 1..next[kind].at
      /\ num \in Nat /\ next[kind] \in [at : Nat, num : Nat]
      /\ name \in Range(NamesOf(kind)) /\ name \in GroupNames
      /\ FirstNumber(kind) \in Nat
  BY Names DEF CreateGroup, TypeOK
<1>2. CASE name \in DOMAIN gid
  <2>0. next \in [Kind -> [at : Nat, num : Nat]]
    BY DEF TypeOK
  <2>1. gid' = gid /\ next' = [next EXCEPT ![kind].at = @ + 1]
    BY <1>2 DEF CreateGroup, groups
  <2>2. \A k \in Kind : next'[k].num = next[k].num
    BY <2>0, <2>1
  <2>. QED  BY <1>1, <2>1, <2>2 DEF NamesCounted, Fresh, Named, Complete, NamesOf, FirstNumber
<1>3. CASE name \notin DOMAIN gid
  <2>1. /\ gid' = [g \in DOMAIN gid \cup {name} |->
                     IF g = name THEN FirstNumber(kind) + num ELSE gid[g]]
        /\ next'[kind].num = num + 1
        /\ \A k \in Kind \ {kind} : next'[k] = next[k]
    BY <1>1, <1>3 DEF CreateGroup, TypeOK
  <2>2. ASSUME NEW k \in Kind \ {kind} PROVE NamesCounted(k)' /\ Fresh(k)'
    <3>1. name \notin Range(NamesOf(k))
      BY <1>1, KindsDiffer
    <3>2. /\ Named(k)' = Named(k) /\ \A g \in Named(k) : gid'[g] = gid[g]
          /\ Complete(k) => Complete(k)'
      BY <2>1, <3>1 DEF Named, Complete, NamesOf
    <3>3. NamesCounted(k)'
      BY <3>2 DEF NamesCounted, FirstNumber, NamesOf
    <3>4. Fresh(k)'
      BY <1>1, <2>1, <3>2 DEF Fresh, FirstNumber
    <3>. QED  BY <3>3, <3>4
  <2>3. \A g \in Named(kind) : gid[g] < FirstNumber(kind) + num /\ gid[g] \in Nat
    BY <1>1, <1>3 DEF Fresh, Complete, Named, TypeOK
  <2>4. Named(kind)' = Named(kind) \cup {name}
    BY <1>1, <2>1 DEF Named, NamesOf
  <2>5. ASSUME NEW g \in Named(kind)'
        PROVE  /\ gid'[g] \in FirstNumber(kind) + 1..FirstNumber(kind) + Len(NamesOf(kind))
               /\ gid'[g] < FirstNumber(kind) + (num + 1)
               /\ \A h \in Named(kind)' : gid'[g] = gid'[h] => g = h
    <3>1. CASE g = name
      BY <1>1, <2>1, <2>3, <2>4, <3>1, Names DEF Named
    <3>2. CASE g # name
      <4>1. g \in Named(kind) /\ gid'[g] = gid[g]
        BY <2>1, <2>4, <3>2 DEF Named
      <4>2. gid'[name] = FirstNumber(kind) + num
        BY <2>1
      <4>3. \A h \in Named(kind) : gid'[h] = gid[h]
        BY <1>3, <2>1 DEF Named
      <4>4. \A h \in Named(kind)' : gid'[g] = gid'[h] => g = h
        BY <2>3, <2>4, <4>1, <4>2, <4>3 DEF NamesCounted
      <4>5. gid'[g] \in FirstNumber(kind) + 1..FirstNumber(kind) + Len(NamesOf(kind))
        BY <4>1 DEF NamesCounted
      <4>6. gid'[g] < FirstNumber(kind) + (num + 1)
        BY <1>1, <2>3, <4>1
      <4>. QED  BY <4>4, <4>5, <4>6
    <3>. QED  BY <3>1, <3>2
  <2>6. NamesCounted(kind)' /\ Fresh(kind)'
    BY <1>1, <2>1, <2>5 DEF NamesCounted, Fresh, FirstNumber, NamesOf
  <2>. QED  BY <1>1, <1>3, <2>1, <2>2, <2>6
<1>. QED  BY <1>2, <1>3

\* No creation is amid its names unless the daemon leaves it so.
LEMMA NotPartial ==
    ASSUME ~Partial, NEW k \in Kind
    PROVE  Complete(k) \/ Named(k) = {}
<1>1. Present(k) = {} \/ Present(k) = DOMAIN NamesOf(k)
  BY DEF Partial
<1>. QED  BY <1>1 DEF Present, Complete, Named, Range

LEMMA CountedDaemon ==
    ASSUME TypeOK, Created, Counted, Daemon
    PROVE  Counted'
<1>. USE DEF tables, session, groups, observers
<1>1. renumbered' = renumbered
  BY DEF Daemon, StartCycle, SetGids, LoadUsers, GroupsCreated, SyncRelations, UpdateGroups,
         UpdateMembers, LdapCommit, Start, CreateGroup
<1>. SUFFICES ASSUME ~renumbered PROVE Counted'
  BY <1>1 DEF Counted
<1>2. /\ DOMAIN rows' = Cached
      /\ \A s \in Cached : /\ rows'[s].id = rows[s].id /\ rows'[s].gid = rows[s].gid
                          /\ rows'[s].type = rows[s].type
  <2>1. CASE SetGids
    <3>1. \A s \in Cached : rows[s].gid # 0
      <4>1. Base \in Nat /\ Cardinality(Cached) \in Nat
        BY Names, ProjectGroupsAssumption, FS_Subset, FS_CardinalityType DEF Base, TypeOK
      <4>. QED  BY <4>1 DEF Counted, ProjectsCounted
    <3>. QED  BY <2>1, <3>1 DEF SetGids, Cached
  <2>2. CASE ~SetGids
    <3>1. rows' = rows
      BY <2>2 DEF Daemon, StartCycle, LoadUsers, GroupsCreated, SyncRelations, UpdateGroups,
                  UpdateMembers, LdapCommit, Start, CreateGroup
    <3>. QED  BY <3>1 DEF Cached
  <2>. QED  BY <2>1, <2>2
<1>3. ProjectsCounted' /\ IdsOf(Cached)' = IdsOf(Cached)
  BY <1>2, RowsKept DEF Counted
<1>4. ASSUME gid' = gid, \A k \in Kind : Fresh(k)' PROVE Counted'
  <2>1. \A k \in Kind : NamesCounted(k)'
    BY <1>4 DEF Counted, NamesCounted, Named, FirstNumber, NamesOf
  <2>2. ProjectGroupsCounted'
    BY <1>3, <1>4 DEF Counted, ProjectGroupsCounted, GroupNames
  <2>. QED  BY <1>3, <1>4, <2>1, <2>2 DEF Counted
<1>5. CASE StartCycle \/ SetGids \/ SyncRelations \/ UpdateMembers \/ LdapCommit \/ Start
  <2>1. gid' = gid /\ pc # "create" /\ pc' # "create"
    BY <1>5 DEF StartCycle, SetGids, SyncRelations, UpdateMembers, LdapCommit, Start
  <2>2. \A k \in Kind : Fresh(k)'
    BY <2>1 DEF Counted, Fresh, Complete, Named, NamesOf
  <2>. QED  BY <1>4, <2>1, <2>2
<1>6. CASE LoadUsers
  <2>1. gid' = gid /\ pc = "load" /\ pc' = "create"
    BY <1>6 DEF LoadUsers
  <2>2. \A k \in Kind : Fresh(k)'
    BY <2>1 DEF Counted, Fresh, Complete, Named, NamesOf
  <2>. QED  BY <1>4, <2>1, <2>2
<1>7. CASE GroupsCreated
  <2>1. gid' = gid /\ pc' = "sync" /\ \A k \in Kind : Complete(k)
    BY <1>7, AllPassed DEF GroupsCreated, Created
  <2>2. \A k \in Kind : Fresh(k)'
    BY <2>1 DEF Fresh, Complete, Named, NamesOf
  <2>. QED  BY <1>4, <2>1, <2>2
<1>8. CASE UpdateGroups
  <2>1. PICK chosen \in SUBSET Cached :
           gid' = [g \in DOMAIN gid \cup IdsOf(chosen) |->
                     IF g \in DOMAIN gid THEN gid[g]
                     ELSE rows[CHOOSE s \in chosen : rows[s].id = g].gid]
    BY <1>8 DEF UpdateGroups
  <2>2. pc = "groups" /\ pc' = "members" /\ \A k \in Kind : Complete(k)
    BY <1>8 DEF UpdateGroups, Created
  <2>3. \A g \in IdsOf(chosen) : /\ g \in IdsOf(Cached)
                                /\ rows[CHOOSE s \in chosen : rows[s].id = g].gid = g
    BY DEF IdsOf, Counted, ProjectsCounted
  <2>4. ASSUME NEW k \in Kind PROVE NamesCounted(k)' /\ Fresh(k)'
    <3>1. Named(k)' = Named(k) /\ \A g \in Named(k) : gid'[g] = gid[g]
      BY <2>1, <2>2 DEF Named, Complete, NamesOf
    <3>2. Fresh(k)'
      BY <2>1, <2>2 DEF Fresh, Complete, NamesOf
    <3>3. NamesCounted(k)'
      BY <3>1 DEF Counted, NamesCounted, FirstNumber, NamesOf
    <3>. QED  BY <3>2, <3>3
  <2>5. ProjectGroupsCounted'
    BY <1>3, <2>1, <2>3 DEF Counted, ProjectGroupsCounted, GroupNames
  <2>. QED  BY <1>3, <2>4, <2>5 DEF Counted
<1>9. ASSUME NEW kind \in Kind, CreateGroup(kind) PROVE Counted'
  <2>1. /\ \A k \in Kind : NamesCounted(k)' /\ Fresh(k)'
        /\ DOMAIN gid' \ GroupNames = DOMAIN gid \ GroupNames
        /\ \A g \in DOMAIN gid : gid'[g] = gid[g]
    BY <1>9, NamesCountedGroup DEF Counted
  <2>2. ProjectGroupsCounted'
    BY <1>3, <2>1 DEF Counted, ProjectGroupsCounted, GroupNames
  <2>. QED  BY <1>3, <2>1, <2>2 DEF Counted
<1>. QED  BY <1>5, <1>6, <1>7, <1>8, <1>9 DEF Daemon

LEMMA CountedFails ==
    ASSUME TypeOK, Counted, DaemonFails
    PROVE  Counted'
<1>1. Leave /\ gid' = gid
  BY DEF DaemonFails, SyncUnresolved, UpdateMembersRaises, Kill, CreateRefused, groups
<1>. SUFFICES ASSUME ~renumbered' PROVE Counted'
  BY DEF Counted
<1>2. ~renumbered /\ ~Partial /\ rows' = rows /\ pc' = "down"
  BY <1>1 DEF Leave, tables
<1>3. ProjectsCounted' /\ IdsOf(Cached)' = IdsOf(Cached)
  BY <1>2, RowsKept DEF Counted, Cached
<1>4. \A k \in Kind : Fresh(k)'
  BY <1>1, <1>2, NotPartial DEF Fresh, Complete, Named, NamesOf
<1>5. \A k \in Kind : NamesCounted(k)'
  BY <1>1, <1>2 DEF Counted, NamesCounted, Named, FirstNumber, NamesOf
<1>6. ProjectGroupsCounted'
  BY <1>1, <1>2, <1>3 DEF Counted, ProjectGroupsCounted, GroupNames
<1>. QED  BY <1>3, <1>4, <1>5, <1>6 DEF Counted

\* As long as no project was deleted, renamed or retyped, no gid nullified and
\* no creation of groups interrupted, no two groups and no two projects share a
\* number, in whichever order operators and daemon create them.
THEOREM NumbersDistinct == Spec => []GidsDistinct
<1>1. Init => Counted
  BY DEF Init, Counted, ProjectsCounted, ProjectGroupsCounted, NamesCounted, Fresh, Named, Cached,
         GroupNames
<1>2. TypeOK /\ Created /\ Counted /\ [Next]_vars => Counted'
  <2>. SUFFICES ASSUME TypeOK, Created, Counted, [Next]_vars PROVE Counted'
    OBVIOUS
  <2>1. CASE UNCHANGED vars
    <3>1. UNCHANGED <<rows, gid, next, pc, renumbered>>
      BY <2>1 DEF vars, tables, session, groups, observers
    <3>2. (ProjectsCounted => ProjectsCounted') /\ IdsOf(Cached)' = IdsOf(Cached)
      BY <3>1, RowsKept DEF Cached
    <3>3. ProjectGroupsCounted => ProjectGroupsCounted'
      BY <3>1, <3>2 DEF ProjectGroupsCounted, GroupNames
    <3>. QED  BY <3>1, <3>2, <3>3, NamesKept DEF Counted
  <2>. QED  BY <2>1, CountedOperator, CountedDaemon, CountedFails DEF Next
<1>. QED  BY <1>1, <1>2, CountedImplies, CreatedAlways, TypeCorrect, PTL DEF Spec

-----------------------------------------------------------------------------
RelationsRight == \A u \in User : related[u] = {s \in Cached : rows[s].id \in papi[u]}
GroupsRight ==
    \A s \in Cached : Resolves(rows[s].id) =>
        rows[s].id \in DOMAIN gid /\ memberUid[rows[s].id] = Listing(s)
ConfiguredRight ==
    /\ memberUid[HpcUsers] = known
    /\ \A g \in Range(ResourceGroups) :
         LET entitled == UNION {Listing(s) : s \in {t \in Cached : g \in rows[t].resources}}
         IN  entitled # {} => memberUid[g] = entitled

\* What a cycle that nothing disturbs has established at each of its steps.
Following ==
    quiet >= 0 =>
        /\ pc \in {"create", "sync"} => listed = papi
        /\ pc \in {"groups", "members", "commit"} => RelationsRight
        /\ pc \in {"members", "commit"} => GroupsRight
        /\ pc = "commit" \/ (pc = "sleep" /\ quiet = 1) => GroupsRight /\ ConfiguredRight

LEMMA FollowGroups ==
    ASSUME TypeOK, Created, Following, UpdateGroups, quiet' >= 0
    PROVE  RelationsRight' /\ GroupsRight'
<1>1. PICK chosen \in SUBSET Cached :
         LET names == DOMAIN gid \cup IdsOf(chosen)
             slot(g) == CHOOSE s \in chosen : rows[s].id = g
         IN  /\ gid' = [g \in names |-> IF g \in DOMAIN gid THEN gid[g]
                                        ELSE rows[slot(g)].gid]
             /\ memberUid' = [g \in names |-> IF g \in IdsOf(chosen)
                                              THEN MembersOf(slot(g))
                                              ELSE memberUid[g]]
             /\ quiet' = IF IdsOf(chosen) = IdsOf(Cached) THEN quiet ELSE -1
  BY DEF UpdateGroups
<1>. DEFINE slot(g) == CHOOSE s \in chosen : rows[s].id = g
<1>2. IdsOf(chosen) = IdsOf(Cached) /\ quiet >= 0 /\ pc = "groups"
  BY <1>1 DEF UpdateGroups
<1>3. UNCHANGED <<rows, known, papi, related>>
  BY DEF UpdateGroups, tables, session
<1>4. RelationsRight
  BY <1>2 DEF Following
<1>5. RelationsRight'
  BY <1>3, <1>4 DEF RelationsRight, Cached
<1>6. ASSUME NEW s \in Cached, Resolves(rows[s].id)
      PROVE  rows[s].id \in DOMAIN gid' /\ memberUid'[rows[s].id] = Listing(s)
  <2>1. rows[s].id \in IdsOf(chosen)
    BY <1>2 DEF IdsOf
  <2>2. slot(rows[s].id) \in chosen /\ rows[slot(rows[s].id)].id = rows[s].id
    BY <2>1 DEF IdsOf
  <2>3. PICK x : WithId(rows[s].id) = {x}
    <3>1. IsFiniteSet(WithId(rows[s].id))
      BY ProjectGroupsAssumption, FS_Subset DEF WithId, TypeOK
    <3>. QED  BY <1>6, <3>1, FS_Singleton DEF Resolves
  <2>4. slot(rows[s].id) = s
    BY <2>2, <2>3 DEF WithId
  <2>5. MembersOf(s) = Listing(s)
    BY <1>4 DEF MembersOf, Listing, RelationsRight, TypeOK
  <2>. QED  BY <1>1, <2>1, <2>4, <2>5
<1>7. \A s \in Cached : /\ Resolves(rows[s].id)' = Resolves(rows[s].id)
                       /\ Listing(s)' = Listing(s)
  BY <1>3 DEF Resolves, WithId, Listing, Cached
<1>8. GroupsRight'
  BY <1>3, <1>6, <1>7 DEF GroupsRight, Cached
<1>. QED  BY <1>5, <1>8

LEMMA FollowMembers ==
    ASSUME TypeOK, Created, Following, UpdateMembers, quiet >= 0
    PROVE  GroupsRight' /\ ConfiguredRight'
<1>1. /\ RelationsRight /\ GroupsRight /\ GroupNames \subseteq DOMAIN gid
      /\ pc = "members"
  BY KindsDiffer DEF UpdateMembers, Following, Created, Complete
<1>2. /\ UNCHANGED <<rows, known, papi, related, gid>>
      /\ memberUid' = NewMembers(DOMAIN gid)
  BY DEF UpdateMembers, tables, session
<1>3. /\ HpcUsers \in GroupNames /\ HpcUsers \notin Range(ResourceGroups)
      /\ Range(ResourceGroups) \subseteq GroupNames
  BY ProjectGroupsAssumption DEF GroupNames
<1>4. ASSUME NEW s \in Cached, Resolves(rows[s].id)
      PROVE  rows[s].id \in DOMAIN gid' /\ memberUid'[rows[s].id] = Listing(s)
  <2>1. rows[s].id \in DOMAIN gid /\ memberUid[rows[s].id] = Listing(s)
    BY <1>1, <1>4 DEF GroupsRight
  <2>2. rows[s].id \notin GroupNames
    BY KindsDiffer DEF TypeOK, Row
  <2>. QED  BY <1>2, <1>3, <2>1, <2>2 DEF NewMembers
<1>5. memberUid'[HpcUsers] = known
  BY <1>1, <1>2, <1>3 DEF NewMembers
<1>6. ASSUME NEW g \in Range(ResourceGroups), Entitled(g) # {}
      PROVE  memberUid'[g] = Entitled(g)
  BY <1>1, <1>2, <1>3, <1>6 DEF NewMembers
<1>7. ASSUME NEW g PROVE Entitled(g) = UNION {Listing(s) : s \in {t \in Cached : g \in rows[t].resources}}
  <2>1. \A u \in known : related[u] \cap Cached = {s \in Cached : rows[s].id \in papi[u]}
    <3>1. known \subseteq User
      BY DEF TypeOK
    <3>. QED  BY <1>1, <3>1 DEF RelationsRight
  <2>. QED  BY <2>1 DEF Entitled, Listing
<1>8. GroupsRight'
  <2>1. \A s \in Cached : Resolves(rows[s].id)' = Resolves(rows[s].id) /\ Listing(s)' = Listing(s)
    BY <1>2 DEF Resolves, WithId, Listing, Cached
  <2>. QED  BY <1>2, <1>4, <2>1 DEF GroupsRight, Cached
<1>9. ConfiguredRight'
  <2>1. \A g \in Range(ResourceGroups) :
           LET entitled == UNION {Listing(s) : s \in {t \in Cached : g \in rows[t].resources}}
           IN  entitled # {} => memberUid'[g] = entitled
    BY <1>6, <1>7
  <2>. QED  BY <1>2, <1>5, <2>1 DEF ConfiguredRight, Listing, Cached
<1>. QED  BY <1>8, <1>9

LEMMA FollowStep ==
    ASSUME TypeOK, Created, Following, [Next]_vars
    PROVE  Following'
<1>. USE DEF tables, session, groups, observers
<1>. SUFFICES ASSUME quiet' >= 0 PROVE Following'
  BY DEF Following
<1>1. CASE Operator
  <2>1. pc \in {"sleep", "down"} /\ pc' = pc /\ quiet' = 0
    BY <1>1, CommandKeeps
  <2>. QED  BY <2>1 DEF Following
<1>2. CASE StartCycle \/ SetGids \/ LoadUsers \/ GroupsCreated
  BY <1>2 DEF StartCycle, SetGids, LoadUsers, GroupsCreated, Following
<1>3. ASSUME NEW k \in Kind, CreateGroup(k) PROVE Following'
  BY <1>3 DEF CreateGroup, Following
<1>4. CASE SyncRelations
  <2>1. PICK skip \in Skips :
           /\ related' = [u \in User |->
                            IF u \in known \ skip
                            THEN {s \in Cached : rows[s].id \in listed[u]} ELSE rel[u]]
           /\ quiet' = IF skip = {} THEN quiet ELSE -1
    BY <1>4 DEF SyncRelations
  <2>2. skip = {} /\ quiet >= 0
    BY <2>1
  <2>3. pc = "sync" /\ pc' = "groups" /\ listed = papi /\ UNCHANGED <<rows, papi>>
    BY <1>4, <2>2 DEF SyncRelations, Following
  <2>4. RelationsRight'
    BY <2>1, <2>2, <2>3 DEF RelationsRight, Cached, TypeOK
  <2>. QED  BY <2>3, <2>4 DEF Following
<1>5. CASE UpdateGroups
  <2>1. pc' = "members"
    BY <1>5 DEF UpdateGroups
  <2>. QED  BY <1>5, <2>1, FollowGroups DEF Following
<1>6. CASE UpdateMembers
  <2>1. /\ quiet >= 0 /\ pc = "members" /\ pc' = "commit"
        /\ UNCHANGED <<rows, papi, related>>
    BY <1>6 DEF UpdateMembers
  <2>2. RelationsRight'
    BY <2>1 DEF Following, RelationsRight, Cached
  <2>. QED  BY <1>6, <2>1, <2>2, FollowMembers DEF Following
<1>7. CASE LdapCommit
  <2>1. /\ pc = "commit" /\ pc' = "sleep" /\ UNCHANGED <<rows, known, papi, gid, memberUid>>
        /\ quiet' = IF quiet < 1 THEN quiet + 1 ELSE quiet
    BY <1>7 DEF LdapCommit, EndCycle
  <2>2. ASSUME quiet' = 1 PROVE quiet >= 0
    BY <2>1, <2>2 DEF TypeOK
  <2>3. ASSUME quiet' = 1 PROVE GroupsRight /\ ConfiguredRight
    BY <2>1, <2>2, <2>3 DEF Following
  <2>4. GroupsRight /\ ConfiguredRight => GroupsRight' /\ ConfiguredRight'
    BY <2>1 DEF GroupsRight, ConfiguredRight, Resolves, WithId, Listing, Cached
  <2>. QED  BY <2>1, <2>3, <2>4 DEF Following
<1>8. CASE Start
  BY <1>8 DEF Start, Following
<1>9. CASE DaemonFails
  BY <1>9 DEF DaemonFails, SyncUnresolved, UpdateMembersRaises, Kill, CreateRefused, Leave
<1>10. CASE UNCHANGED vars
  <2>1. UNCHANGED <<rows, known, papi, related, listed, gid, memberUid, pc, quiet>>
    BY <1>10 DEF vars
  <2>2. /\ RelationsRight <=> RelationsRight'
        /\ GroupsRight <=> GroupsRight'
        /\ ConfiguredRight <=> ConfiguredRight'
    BY <2>1 DEF RelationsRight, GroupsRight, ConfiguredRight, Resolves, WithId, Listing, Cached
  <2>. QED  BY <2>1, <2>2 DEF Following
<1>. QED  BY <1>1, <1>2, <1>3, <1>4, <1>5, <1>6, <1>7, <1>8, <1>9, <1>10 DEF Next, Daemon

\* One cycle that nothing disturbs brings the groups of the directory to what
\* the cache says, from any state the commands and faults before it left.
THEOREM GroupsFollowCache == Spec => []MembersFollow
<1>1. Init => Following
  BY DEF Init, Following
<1>2. Following => MembersFollow
  BY DEF Following, MembersFollow, GroupsRight, ConfiguredRight
<1>. QED  BY <1>1, <1>2, FollowStep, CreatedAlways, TypeCorrect, PTL DEF Spec
==============================================================================
