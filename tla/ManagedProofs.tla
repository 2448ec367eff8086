---------------------------- MODULE ManagedProofs ----------------------------
(***************************************************************************)
(* Proofs about ManagedPipeline, for any users, keys, projects, answers of *)
(* the API and commands.  A step is one of the daemon, whose session is    *)
(* merged into the table, one that reloads the session, or a command.  For *)
(* the first the lemmas of FlatProofs about one row hold; of a command all *)
(* that matters is in Effect.                                              *)
(***************************************************************************)
EXTENDS ManagedPipeline, FlatProofs

KeyCounts(n) == [Key \X User \X BOOLEAN -> 0..1 + n]
View(keys, u) == {k \in Key : keys[<<k, u, TRUE>>] > 0}

TableOK ==
    /\ cache \in [User -> Row] /\ behind \in BOOLEAN
    /\ commands \in 0..MaxCommands
    /\ sshkeys \in KeyCounts(commands) /\ keysess \in KeyCounts(commands)
    /\ declared \subseteq User /\ meddled \in BOOLEAN

-----------------------------------------------------------------------------
(* What the commands make of a row. *)

LEMMA WithoutList ==
    ASSUME NEW Item, NEW s \in Seq(Item), NEW p
    PROVE  /\ Without(s, p) \in Seq(Item)
           /\ Distinct(s) => Distinct(Without(s, p))
<1> DEFINE first == CHOOSE i \in DOMAIN s : s[i] = p /\ \A j \in 1..i - 1 : s[j] # p
           w == [i \in 1..Len(s) - 1 |-> IF i < first THEN s[i] ELSE s[i + 1]]
<1>1. Len(s) \in Nat /\ DOMAIN s = 1..Len(s)
  BY LenProperties
<1>2. CASE p \notin SetOf(s)
  BY <1>2 DEF Without
<1>3. CASE p \in SetOf(s)
  <2>1. Without(s, p) = w
    BY <1>3 DEF Without
  <2>2. Len(s) - 1 \in Nat
    BY <1>1, <1>3 DEF SetOf
  <2> HIDE DEF first
  <2>3. \A i \in 1..Len(s) - 1 : w[i] = s[i] \/ w[i] = s[i + 1]
    BY <1>1
  <2>4. \A i \in 1..Len(s) - 1 : i \in 1..Len(s) /\ i + 1 \in 1..Len(s)
    BY <1>1
  <2>5. w \in [1..Len(s) - 1 -> Item]
    <3>1. \A i \in 1..Len(s) - 1 : s[i] \in Item /\ s[i + 1] \in Item
      BY <2>4, ElementOfSeq
    <3> QED BY <3>1
  <2>6. w \in Seq(Item) /\ Len(w) = Len(s) - 1
    <3> HIDE DEF w
    <3> QED BY <2>2, <2>5
  <2>7. ASSUME Distinct(s) PROVE Distinct(w)
    <3> SUFFICES ASSUME NEW i \in 1..Len(s) - 1, NEW j \in 1..Len(s) - 1, w[i] = w[j]
                 PROVE  i = j
      BY <2>6 DEF Distinct
    <3>1. \A m, n \in 1..Len(s) : s[m] = s[n] => m = n
      BY <2>7 DEF Distinct
    <3>2. first \in Int => i = j
      <4> DEFINE at(m) == IF m < first THEN m ELSE m + 1
      <4>1. at(i) \in 1..Len(s) /\ at(j) \in 1..Len(s)
        BY <2>4
      <4>2. s[at(i)] = s[at(j)]
        OBVIOUS
      <4>3. at(i) = at(j)
        BY <3>1, <4>1, <4>2
      <4> QED BY <1>1, <4>3
    <3>3. first \in DOMAIN s
      <4>1. PICK i0 \in 1..Len(s) : s[i0] = p
        BY <1>1, <1>3 DEF SetOf
      <4>2. i0 \in {m \in 1..Len(s) : s[m] = p}
        BY <4>1
      <4>3. \A m, n \in 1..Len(s) : s[m] = p /\ s[n] = p => m = n
        BY <3>1
      <4>4. \A j0 \in 1..i0 - 1 : s[j0] # p
        BY <1>1, <4>1, <4>3
      <4> QED BY <1>1, <4>1, <4>4 DEF first
    <3> QED BY <1>1, <3>2, <3>3
  <2> QED BY <2>1, <2>6, <2>7
<1> QED BY <1>2, <1>3

\* Two projects stay two: what update --project appends was not listed.
LEMMA AppendDistinct ==
    ASSUME NEW Item, NEW s \in Seq(Item), NEW p \in Item, p \notin SetOf(s), Distinct(s)
    PROVE  Distinct(Append(s, p))
<1>1. /\ Len(s) \in Nat /\ DOMAIN s = 1..Len(s)
      /\ Len(Append(s, p)) = Len(s) + 1
      /\ Append(s, p)[Len(s) + 1] = p
      /\ \A i \in 1..Len(s) : Append(s, p)[i] = s[i]
  BY LenProperties, AppendProperties
<1>2. \A i \in 1..Len(s) : s[i] # p
  BY <1>1 DEF SetOf
<1>3. \A i, j \in 1..Len(s) : s[i] = s[j] => i = j
  BY DEF Distinct
<1>4. \A i \in 1..Len(s) + 1 : i \in 1..Len(s) \/ i = Len(s) + 1
  BY <1>1
<1> QED BY <1>1, <1>2, <1>3, <1>4 DEF Distinct

\* Nothing that says what LDAP was told is lost, and no key is added.
PlainRow(r, s) ==
    /\ s \in Row /\ s.known
    /\ s.sshkey = r.sshkey /\ s.sshkeys_api \subseteq r.sshkeys_api
    /\ Distinct(r.projects_api) => Distinct(s.projects_api)
    /\ s.is_opened = r.is_opened

LEMMA OverruledRow ==
    ASSUME NEW r \in Row, r.known,
           NEW s \in {ResetAllFlags(r), NullAllFlags(r)} \cup SetDeactivated(r)
    PROVE  PlainRow(r, s)
<1>1. CASE s \in {ResetAllFlags(r), NullAllFlags(r)}
  <2>1. CASE s = ResetAllFlags(r)
    BY <2>1 DEF ResetAllFlags, PlainRow, Row
  <2>2. CASE s = NullAllFlags(r)
    BY <2>2 DEF NullAllFlags, PlainRow, Row
  <2> QED BY <1>1, <2>1, <2>2
<1>2. CASE s \in SetDeactivated(r)
  BY <1>2 DEF SetDeactivated, PlainRow, Row
<1> QED BY <1>1, <1>2

LEMMA FlaggedRow ==
    ASSUME NEW r \in Row, r.known, NEW s \in {DeleteUser(r)} \cup SetFlag(r) \cup NameKey(r)
    PROVE  PlainRow(r, s) /\ s.is_deactivated = r.is_deactivated
<1>1. CASE s = DeleteUser(r)
  <2>1. << >> \in Seq(Project) /\ Distinct(<< >>)
    BY EmptySeq DEF Distinct
  <2> QED BY <1>1, <2>1 DEF DeleteUser, PlainRow, Row
<1>2. CASE s \in SetFlag(r)
  <2>1. \/ \E b \in BOOLEAN : s \in {[r EXCEPT !.is_active = b],
               [r EXCEPT !.mail_is_opensend = b], [r EXCEPT !.mail_is_activated = b],
               [r EXCEPT !.mail_is_deactivated = b],
               [r EXCEPT !.mail_is_sshkeyadded = b,
                         !.mail_name_sshkey = IF b THEN {} ELSE @]}
        \/ s \in {[r EXCEPT !.ldap_gid = NoGid], [r EXCEPT !.ldap_uid = FALSE]}
    BY <1>2 DEF SetFlag
  <2> QED BY <2>1 DEF PlainRow, Row, Gid
<1>3. CASE s \in NameKey(r)
  BY <1>3 DEF NameKey, PlainRow, Row
<1> QED BY <1>1, <1>2, <1>3

LEMMA ProjectRow ==
    ASSUME NEW r \in Row, r.known, NEW p \in Project, NEW force \in BOOLEAN,
           NEW s \in {DeleteProject(r, p, force), AddProject(r, p, force)}
    PROVE  PlainRow(r, s) /\ s.is_deactivated = r.is_deactivated
<1> DEFINE list == r.projects_api
<1>1. list \in Seq(Project) /\ r.project \in SUBSET Project
  BY DEF Row
<1>2. CASE s = DeleteProject(r, p, force)
  <2> DEFINE less == Without(list, p)
  <2>1. less \in Seq(Project) /\ (Distinct(list) => Distinct(less))
    BY <1>1, WithoutList
  <2>2. s = [r EXCEPT !.projects_api = less,
                      !.project = IF force THEN @ \ {p} ELSE @]
    BY <1>2 DEF DeleteProject
  <2> HIDE DEF less
  <2> QED BY <2>1, <2>2 DEF PlainRow, Row
<1>3. CASE s = AddProject(r, p, force)
  <2> DEFINE more == IF p \in SetOf(list) THEN list ELSE Append(list, p)
  <2>1. more \in Seq(Project) /\ (Distinct(list) => Distinct(more))
    BY <1>1, AppendDistinct, AppendProperties
  <2>2. s = [r EXCEPT !.projects_api = more,
                      !.project = IF force THEN @ \cup {p} ELSE @]
    BY <1>3 DEF AddProject
  <2> HIDE DEF more
  <2> QED BY <2>1, <2>2 DEF PlainRow, Row
<1> QED BY <1>2, <1>3

LEMMA OfferedRow ==
    ASSUME NEW r \in Row, r.known, NEW k \in Key, NEW force \in BOOLEAN,
           NEW s \in {DeleteKey(r, k, force), AddKey(r, k, force)}
    PROVE  /\ s \in Row /\ s.known /\ s.is_deactivated = r.is_deactivated
           /\ s.projects_api = r.projects_api /\ s.is_opened = r.is_opened
<1>1. CASE s = DeleteKey(r, k, force)
  BY <1>1 DEF DeleteKey, Row
<1>2. CASE s = AddKey(r, k, force)
  BY <1>2 DEF AddKey, Row
<1> QED BY <1>1, <1>2

-----------------------------------------------------------------------------
(* The effect of a command.                                                *)

Effect(u, row, keys) ==
    /\ row \in Row /\ keys \in KeyCounts(commands + 1)
    /\ TidyRow(cache[u]) => TidyRow(row)
    /\ row.is_opened => cache[u].is_opened
    /\ declared \subseteq declared' /\ declared' \subseteq User
    /\ meddled' \in BOOLEAN /\ (meddled => meddled')
    /\ ~row.known /\ behind' => declared' = User \/ meddled'
    \* The keys of the others stay, and u's are what the relation says.
    /\ \A w \in User \ {u}, k \in Key :
            keys[<<k, w, TRUE>>] = sshkeys[<<k, w, TRUE>>]
    /\ u \notin declared' =>
           /\ row.known /\ row.is_deactivated = cache[u].is_deactivated
           /\ cache[u].sshkey = View(sshkeys, u) => row.sshkey = View(keys, u)
    \* Short of meddling, a key loses its row only with the user's row.
    /\ ~meddled' =>
           /\ row.sshkey \subseteq cache[u].sshkey
           /\ row.sshkeys_api \subseteq cache[u].sshkeys_api
           /\ u \notin declared' => row.sshkey = cache[u].sshkey
           /\ \A k \in Key, w \in User :
                \/ RowsOf(keys, k, w) = RowsOf(sshkeys, k, w)
                \/ /\ w = u /\ row = BlankRow /\ ~behind'
                   /\ RowsOf(keys, k, w) <= RowsOf(sshkeys, k, w)

LEMMA BlankRowTidy == BlankRow \in Row /\ TidyRow(BlankRow)
<1>1. << >> \in Seq(Project) /\ Distinct(<< >>)
  BY EmptySeq DEF Distinct
<1> QED BY <1>1 DEF BlankRow, Row, Gid, TidyRow, Blank

LEMMA CountsGrow ==
    ASSUME TableOK
    PROVE  /\ sshkeys \in KeyCounts(commands + 1)
           /\ \A keys \in [Key \X User \X BOOLEAN -> 0..2 + commands] :
                 keys \in KeyCounts(commands + 1)
<1>1. commands \in Nat /\ sshkeys \in [Key \X User \X BOOLEAN -> 0..1 + commands]
  BY ManagedAssumption DEF TableOK, KeyCounts
<1>2. 0..1 + commands \subseteq 0..2 + commands /\ 2 + commands = 1 + (commands + 1)
  BY <1>1
<1>3. sshkeys \in [Key \X User \X BOOLEAN -> 0..2 + commands]
  BY <1>1, <1>2
<1> QED BY <1>2, <1>3 DEF KeyCounts

LEMMA CountTypes ==
    ASSUME NEW n \in Nat, NEW keys \in KeyCounts(n), NEW k \in Key, NEW u \in User
    PROVE  /\ keys[<<k, u, TRUE>>] \in 0..1 + n /\ keys[<<k, u, FALSE>>] \in 0..1 + n
           /\ keys[<<k, u, TRUE>>] \in Nat /\ keys[<<k, u, FALSE>>] \in Nat
           /\ RowsOf(keys, k, u) = keys[<<k, u, TRUE>>] + keys[<<k, u, FALSE>>]
           /\ RowsOf(keys, k, u) \in Nat
<1>1. \A b \in BOOLEAN : <<k, u, b>> \in Key \X User \X BOOLEAN
  OBVIOUS
<1>2. keys[<<k, u, TRUE>>] \in 0..1 + n /\ keys[<<k, u, FALSE>>] \in 0..1 + n
  BY <1>1 DEF KeyCounts
<1>3. RowsOf(keys, k, u) = keys[<<k, u, TRUE>>] + keys[<<k, u, FALSE>>]
  BY Zenon DEF RowsOf
<1>4. \A i \in 0..1 + n : i \in Nat
  OBVIOUS
<1>5. \A i, j \in Nat : i + j \in Nat
  OBVIOUS
<1> QED BY <1>2, <1>3, <1>4, <1>5

LEMMA PlainEffect ==
    ASSUME TypeOK, TableOK, NEW u \in Cached, NEW s, PlainRow(cache[u], s),
           \/ declared' = declared /\ s.is_deactivated = cache[u].is_deactivated
           \/ declared' = declared \cup {u},
           UNCHANGED meddled
    PROVE  Effect(u, s, sshkeys)
<1>1. u \in User /\ declared' \subseteq User /\ meddled' = meddled /\ meddled \in BOOLEAN
  BY DEF Cached, TableOK
<1>2. sshkeys \in KeyCounts(commands + 1)
  BY CountsGrow
<1> QED BY <1>1, <1>2 DEF PlainRow, TidyRow, Effect

LEMMA ForgetEffect ==
    ASSUME TypeOK, TableOK, NEW u \in Cached, RunForget(u)
    PROVE  \E row, keys : Command(u, row, keys) /\ Effect(u, row, keys)
<1> DEFINE keys == [x \in DOMAIN sshkeys |-> IF x[2] = u /\ x[3] THEN 0 ELSE sshkeys[x]]
<1>1. /\ Command(u, BlankRow, keys)
      /\ declared' = declared \cup {u} /\ meddled' = (meddled \/ behind')
  BY DEF RunForget
<1>2. u \in User /\ commands \in Nat /\ declared \subseteq User /\ meddled \in BOOLEAN
  BY ManagedAssumption DEF Cached, TableOK
<1>3. sshkeys \in [Key \X User \X BOOLEAN -> 0..1 + commands]
  BY DEF TableOK, KeyCounts
<1>4. behind' \in BOOLEAN
  BY <1>1 DEF Command
<1>5. /\ keys \in [Key \X User \X BOOLEAN -> 0..2 + commands]
      /\ \A k \in Key, w \in User, b \in BOOLEAN :
            keys[<<k, w, b>>] = IF w = u /\ b THEN 0 ELSE sshkeys[<<k, w, b>>]
  <2>1. \A x \in Key \X User \X BOOLEAN : sshkeys[x] \in 0..2 + commands /\ 0 \in 0..2 + commands
    BY <1>2, <1>3
  <2>2. DOMAIN sshkeys = Key \X User \X BOOLEAN
    BY <1>3
  <2>3. keys = [x \in Key \X User \X BOOLEAN |-> IF x[2] = u /\ x[3] THEN 0 ELSE sshkeys[x]]
    BY <2>2
  <2>4. \A k \in Key, w \in User, b \in BOOLEAN :
           <<k, w, b>> \in Key \X User \X BOOLEAN /\ <<k, w, b>>[2] = w /\ <<k, w, b>>[3] = b
    OBVIOUS
  <2> HIDE DEF keys
  <2>5. keys \in [Key \X User \X BOOLEAN -> 0..2 + commands]
    BY <2>1, <2>3
  <2>6. \A k \in Key, w \in User, b \in BOOLEAN :
            keys[<<k, w, b>>] = IF <<k, w, b>>[2] = u /\ <<k, w, b>>[3] THEN 0 ELSE sshkeys[<<k, w, b>>]
    BY <2>3, <2>4
  <2> QED BY <2>4, <2>5, <2>6
<1> HIDE DEF keys
<1>6. keys \in KeyCounts(commands + 1) /\ sshkeys \in KeyCounts(commands + 1)
  BY <1>5, CountsGrow
<1>7. \A k \in Key, w \in User :
         \/ RowsOf(keys, k, w) = RowsOf(sshkeys, k, w)
         \/ w = u /\ RowsOf(keys, k, w) <= RowsOf(sshkeys, k, w)
  <2> SUFFICES ASSUME NEW k \in Key, NEW w \in User
               PROVE  \/ RowsOf(keys, k, w) = RowsOf(sshkeys, k, w)
                      \/ w = u /\ RowsOf(keys, k, w) <= RowsOf(sshkeys, k, w)
    OBVIOUS
  <2>1. commands + 1 \in Nat
    BY <1>2
  <2>2. RowsOf(keys, k, w) = keys[<<k, w, TRUE>>] + keys[<<k, w, FALSE>>]
    BY <1>6, <2>1, CountTypes
  <2>3. /\ RowsOf(sshkeys, k, w) = sshkeys[<<k, w, TRUE>>] + sshkeys[<<k, w, FALSE>>]
        /\ sshkeys[<<k, w, TRUE>>] \in Nat /\ sshkeys[<<k, w, FALSE>>] \in Nat
    BY <1>6, <2>1, CountTypes
  <2>4. /\ keys[<<k, w, TRUE>>] = IF w = u THEN 0 ELSE sshkeys[<<k, w, TRUE>>]
        /\ keys[<<k, w, FALSE>>] = sshkeys[<<k, w, FALSE>>]
    BY <1>5
  <2> QED BY <2>2, <2>3, <2>4
<1>8. Effect(u, BlankRow, keys)
  <2>1. keys \in KeyCounts(commands + 1)
    BY <1>6
  <2>2. ~BlankRow.known /\ BlankRow.sshkey = {} /\ BlankRow.sshkeys_api = {}
    BY DEF BlankRow
  <2>3. ~BlankRow.is_opened
    BY DEF BlankRow
  <2> QED BY <1>1, <1>2, <1>4, <1>5, <1>7, <2>1, <2>2, <2>3, BlankRowTidy DEF Effect
<1> QED BY <1>1, <1>8

LEMMA FlushUsersEffect ==
    ASSUME TypeOK, TableOK, NEW u \in Cached, RunFlushUsers(u)
    PROVE  Command(u, BlankRow, sshkeys) /\ Effect(u, BlankRow, sshkeys)
<1>1. /\ Command(u, BlankRow, sshkeys)
      /\ declared' = (IF behind' THEN User ELSE declared \cup {u})
      /\ meddled' = meddled
  BY DEF RunFlushUsers
<1>2. u \in User /\ declared \subseteq User /\ meddled \in BOOLEAN
  BY DEF Cached, TableOK
<1>3. /\ ~BlankRow.known /\ BlankRow.sshkey = {} /\ BlankRow.sshkeys_api = {}
      /\ ~BlankRow.is_opened
  BY DEF BlankRow
<1>4. sshkeys \in KeyCounts(commands + 1)
  BY CountsGrow
<1> QED BY <1>1, <1>2, <1>3, <1>4, BlankRowTidy DEF Effect

LEMMA DeleteKeyEffect ==
    ASSUME TypeOK, TableOK, NEW u \in Cached, RunDeleteKey(u)
    PROVE  \E row, keys : Command(u, row, keys) /\ Effect(u, row, keys)
<1>1. PICK k \in Key, force \in BOOLEAN :
         /\ MayDeleteKey(cache[u], k)
         /\ Command(u, DeleteKey(cache[u], k, force),
                    [x \in DOMAIN sshkeys |-> IF force /\ x = <<k, u, TRUE>> THEN 0
                                              ELSE sshkeys[x]])
         /\ meddled' = (meddled \/ force)
  BY DEF RunDeleteKey
<1> DEFINE keys == [x \in DOMAIN sshkeys |-> IF force /\ x = <<k, u, TRUE>> THEN 0
                                             ELSE sshkeys[x]]
           r == cache[u]
           s == DeleteKey(r, k, force)
<1>2. u \in User /\ commands \in Nat /\ declared' = declared /\ declared \subseteq User
      /\ meddled \in BOOLEAN /\ r \in Row /\ r.known
  BY ManagedAssumption DEF Cached, TableOK, RunDeleteKey
<1>3. sshkeys \in [Key \X User \X BOOLEAN -> 0..1 + commands]
  BY DEF TableOK, KeyCounts
<1>4. /\ keys \in [Key \X User \X BOOLEAN -> 0..2 + commands]
      /\ \A x \in Key \X User \X BOOLEAN :
            keys[x] = IF force /\ x = <<k, u, TRUE>> THEN 0 ELSE sshkeys[x]
      /\ ~force => keys = sshkeys
  <2>1. \A x \in Key \X User \X BOOLEAN : sshkeys[x] \in 0..2 + commands /\ 0 \in 0..2 + commands
    BY <1>2, <1>3
  <2>2. DOMAIN sshkeys = Key \X User \X BOOLEAN
    BY <1>3
  <2> QED BY <1>3, <2>1, <2>2
<1> HIDE DEF keys
<1>5. /\ s \in Row /\ s.known /\ s.is_deactivated = r.is_deactivated
      /\ s.projects_api = r.projects_api /\ s.is_opened = r.is_opened
  BY <1>2, OfferedRow
<1>6. /\ s.sshkey = IF force THEN r.sshkey \ {k} ELSE r.sshkey
      /\ s.sshkeys_api = r.sshkeys_api \ {k}
  BY <1>2 DEF DeleteKey, Row
<1> HIDE DEF s
<1>7. r.sshkey = View(sshkeys, u) => s.sshkey = View(keys, u)
  <2> SUFFICES ASSUME r.sshkey = View(sshkeys, u) PROVE s.sshkey = View(keys, u)
    OBVIOUS
  <2>1. CASE ~force
    BY <1>4, <1>6, <2>1
  <2>2. CASE force
    <3>1. \A l \in Key : /\ <<l, u, TRUE>> \in Key \X User \X BOOLEAN
                         /\ <<l, u, TRUE>> = <<k, u, TRUE>> <=> l = k
      BY <1>2
    <3>2. \A l \in Key : keys[<<l, u, TRUE>>] = IF l = k THEN 0 ELSE sshkeys[<<l, u, TRUE>>]
      BY <1>4, <2>2, <3>1
    <3>3. View(keys, u) = View(sshkeys, u) \ {k}
      <4>1. ~(0 > 0)
        OBVIOUS
      <4> QED BY <3>2, <4>1, Zenon DEF View
    <3> QED BY <1>6, <2>2, <3>3
  <2> QED BY <2>1, <2>2
<1>8. \A w \in User \ {u}, l \in Key : keys[<<l, w, TRUE>>] = sshkeys[<<l, w, TRUE>>]
  <2>1. \A w \in User \ {u}, l \in Key : /\ <<l, w, TRUE>> \in Key \X User \X BOOLEAN
                                         /\ <<l, w, TRUE>> # <<k, u, TRUE>>
    OBVIOUS
  <2> QED BY <1>4, <2>1
<1>9. keys \in KeyCounts(commands + 1)
  BY <1>4, CountsGrow
<1>10. meddled' \in BOOLEAN /\ (meddled => meddled')
       /\ (~meddled' => ~force /\ keys = sshkeys)
  BY <1>1, <1>2, <1>4
<1>11. Effect(u, s, keys)
  BY <1>2, <1>5, <1>6, <1>7, <1>8, <1>9, <1>10 DEF Effect, TidyRow
<1>12. Command(u, s, keys)
  BY <1>1 DEF s, keys
<1> QED BY <1>11, <1>12

LEMMA AddKeyEffect ==
    ASSUME TypeOK, TableOK, NEW u \in Cached, RunAddKey(u)
    PROVE  \E row, keys : Command(u, row, keys) /\ Effect(u, row, keys)
<1>1. PICK k \in Key, force \in BOOLEAN :
         /\ MayAddKey(cache[u], k)
         /\ Command(u, AddKey(cache[u], k, force),
                    [sshkeys EXCEPT ![<<k, u, force>>] = @ + 1])
  BY DEF RunAddKey
<1> DEFINE keys == [sshkeys EXCEPT ![<<k, u, force>>] = @ + 1]
           r == cache[u]
           s == AddKey(r, k, force)
<1>2. u \in User /\ commands \in Nat /\ declared' = declared /\ declared \subseteq User
      /\ meddled' = TRUE /\ r \in Row /\ r.known
  BY ManagedAssumption DEF Cached, TableOK, RunAddKey
<1>3. sshkeys \in [Key \X User \X BOOLEAN -> 0..1 + commands]
  BY DEF TableOK, KeyCounts
<1>4. /\ keys \in [Key \X User \X BOOLEAN -> 0..2 + commands]
      /\ \A x \in Key \X User \X BOOLEAN :
            keys[x] = IF x = <<k, u, force>> THEN sshkeys[x] + 1 ELSE sshkeys[x]
  <2>1. \A x \in Key \X User \X BOOLEAN :
           sshkeys[x] \in 0..2 + commands /\ sshkeys[x] + 1 \in 0..2 + commands
    BY <1>2, <1>3
  <2>2. <<k, u, force>> \in Key \X User \X BOOLEAN
    BY <1>2
  <2>3. keys = [x \in Key \X User \X BOOLEAN |->
                  IF x = <<k, u, force>> THEN sshkeys[x] + 1 ELSE sshkeys[x]]
    BY <1>3
  <2> HIDE DEF keys
  <2> QED BY <2>1, <2>2, <2>3
<1> HIDE DEF keys
<1>5. /\ s \in Row /\ s.known /\ s.is_deactivated = r.is_deactivated
      /\ s.projects_api = r.projects_api /\ s.is_opened = r.is_opened
  BY <1>2, OfferedRow
<1>6. s.sshkey = IF force THEN r.sshkey \cup {k} ELSE r.sshkey
  BY <1>2 DEF AddKey, Row
<1> HIDE DEF s
<1>7. r.sshkey = View(sshkeys, u) => s.sshkey = View(keys, u)
  <2> SUFFICES ASSUME r.sshkey = View(sshkeys, u) PROVE s.sshkey = View(keys, u)
    OBVIOUS
  <2>1. \A l \in Key : /\ <<l, u, TRUE>> \in Key \X User \X BOOLEAN
                       /\ <<l, u, TRUE>> = <<k, u, force>> <=> l = k /\ force
    BY <1>2
  <2>2. \A l \in Key : keys[<<l, u, TRUE>>] =
                          IF l = k /\ force THEN sshkeys[<<l, u, TRUE>>] + 1
                                            ELSE sshkeys[<<l, u, TRUE>>]
    BY <1>4, <2>1
  <2>3. sshkeys[<<k, u, TRUE>>] + 1 > 0
    <3>1. sshkeys[<<k, u, TRUE>>] \in Nat
      BY <1>2, CountTypes DEF TableOK
    <3> QED BY <3>1
  <2>4. View(keys, u) = IF force THEN View(sshkeys, u) \cup {k} ELSE View(sshkeys, u)
    BY <2>2, <2>3 DEF View
  <2> QED BY <1>6, <2>4
<1>8. \A w \in User \ {u}, l \in Key : keys[<<l, w, TRUE>>] = sshkeys[<<l, w, TRUE>>]
  <2>1. \A w \in User \ {u}, l \in Key : /\ <<l, w, TRUE>> \in Key \X User \X BOOLEAN
                                         /\ <<l, w, TRUE>> # <<k, u, force>>
    OBVIOUS
  <2> QED BY <1>4, <2>1
<1>9. keys \in KeyCounts(commands + 1)
  BY <1>4, CountsGrow
<1>10. Effect(u, s, keys)
  BY <1>2, <1>5, <1>6, <1>7, <1>8, <1>9 DEF Effect, TidyRow
<1>11. Command(u, s, keys)
  BY <1>1 DEF s, keys
<1> QED BY <1>10, <1>11

LEMMA FlushKeysEffect ==
    ASSUME TypeOK, TableOK, NEW u \in Cached, RunFlushKeys(u)
    PROVE  \E row, keys : Command(u, row, keys) /\ Effect(u, row, keys)
<1> DEFINE keys == [x \in DOMAIN sshkeys |-> IF x[3] THEN sshkeys[x] ELSE 0]
<1>1. Command(u, cache[u], keys) /\ meddled' = TRUE /\ declared' = declared
  BY DEF RunFlushKeys
<1>2. u \in User /\ commands \in Nat /\ declared \subseteq User
      /\ cache[u] \in Row /\ cache[u].known
  BY ManagedAssumption DEF Cached, TableOK
<1>3. sshkeys \in [Key \X User \X BOOLEAN -> 0..1 + commands]
  BY DEF TableOK, KeyCounts
<1>4. /\ keys \in [Key \X User \X BOOLEAN -> 0..2 + commands]
      /\ \A k \in Key, w \in User : keys[<<k, w, TRUE>>] = sshkeys[<<k, w, TRUE>>]
  <2>1. \A x \in Key \X User \X BOOLEAN : sshkeys[x] \in 0..2 + commands /\ 0 \in 0..2 + commands
    BY <1>2, <1>3
  <2>2. DOMAIN sshkeys = Key \X User \X BOOLEAN
    BY <1>3
  <2>3. keys = [x \in Key \X User \X BOOLEAN |-> IF x[3] THEN sshkeys[x] ELSE 0]
    BY <2>2
  <2>4. \A k \in Key, w \in User :
           <<k, w, TRUE>> \in Key \X User \X BOOLEAN /\ <<k, w, TRUE>>[3] = TRUE
    OBVIOUS
  <2> HIDE DEF keys
  <2> QED BY <2>1, <2>3, <2>4
<1> HIDE DEF keys
<1>5. keys \in KeyCounts(commands + 1)
  BY <1>4, CountsGrow
<1>6. View(keys, u) = View(sshkeys, u)
  BY <1>2, <1>4 DEF View
<1>7. Effect(u, cache[u], keys)
  BY <1>1, <1>2, <1>4, <1>5, <1>6 DEF Effect
<1> QED BY <1>1, <1>7

\* The commands, of one user.
RunCommand(u) ==
    \/ RunReset(u) \/ RunNull(u) \/ RunDelete(u) \/ RunForget(u)
    \/ RunSetDeactivated(u) \/ RunSetFlag(u) \/ RunNameKey(u) \/ RunProject(u)
    \/ RunDeleteKey(u) \/ RunAddKey(u) \/ RunFlushKeys(u) \/ RunFlushUsers(u)

LEMMA CommandEffect ==
    ASSUME TypeOK, TableOK, NEW u \in Cached, RunCommand(u)
    PROVE  \E row, keys : Command(u, row, keys) /\ Effect(u, row, keys)
<1> DEFINE r == cache[u]
<1>1. r \in Row /\ r.known
  BY DEF Cached, TableOK
<1>2. CASE RunReset(u) \/ RunNull(u) \/ RunSetDeactivated(u)
  <2>1. PICK s \in {ResetAllFlags(r), NullAllFlags(r)} \cup SetDeactivated(r) :
           Overrule(u, s)
    BY <1>2 DEF RunReset, RunNull, RunSetDeactivated
  <2>2. PlainRow(r, s)
    BY <1>1, OverruledRow
  <2>3. Effect(u, s, sshkeys)
    BY <2>1, <2>2, PlainEffect DEF Overrule
  <2> QED BY <2>1, <2>3 DEF Overrule
<1>3. CASE RunDelete(u) \/ RunSetFlag(u) \/ RunNameKey(u) \/ RunProject(u)
  <2>1. PICK s : /\ Plain(u, s)
                 /\ PlainRow(r, s) /\ s.is_deactivated = r.is_deactivated
    <3>1. CASE RunDelete(u) \/ RunSetFlag(u) \/ RunNameKey(u)
      BY <1>1, <3>1, FlaggedRow DEF RunDelete, RunSetFlag, RunNameKey
    <3>2. CASE RunProject(u)
      BY <1>1, <3>2, ProjectRow DEF RunProject
    <3> QED BY <1>3, <3>1, <3>2
  <2>2. Effect(u, s, sshkeys)
    BY <2>1, PlainEffect DEF Plain
  <2> QED BY <2>1, <2>2 DEF Plain
<1> QED BY <1>2, <1>3, ForgetEffect, FlushUsersEffect, DeleteKeyEffect, AddKeyEffect,
           FlushKeysEffect DEF RunCommand

-----------------------------------------------------------------------------
(* What a commit leaves of a row, column by column.                        *)

LEMMA MergedColumns ==
    ASSUME NEW base \in Row, NEW mine, NEW now, ~(base.known /\ ~now.known)
    PROVE  /\ Merged(base, mine, now) = [c \in DOMAIN BlankRow |-> Merged(base, mine, now)[c]]
           /\ \A c \in DOMAIN BlankRow \ Relation : Merged(base, mine, now)[c] =
                IF mine[c] # base[c] THEN mine[c] ELSE now[c]
           /\ \A c \in Relation : Merged(base, mine, now)[c] =
                (now[c] \ (base[c] \ mine[c])) \cup (mine[c] \ base[c])
<1> DEFINE m == Merged(base, mine, now)
<1>1. DOMAIN base = DOMAIN BlankRow
  BY DEF Row, BlankRow
<1>2. m = [c \in DOMAIN BlankRow |->
            IF c \in Relation THEN (now[c] \ (base[c] \ mine[c])) \cup (mine[c] \ base[c])
            ELSE IF mine[c] # base[c] THEN mine[c] ELSE now[c]]
  BY <1>1 DEF Merged
<1>3. Relation \subseteq DOMAIN BlankRow
  BY DEF Relation, BlankRow
<1> HIDE DEF m
<1>4. \A c \in DOMAIN BlankRow : m[c] =
            IF c \in Relation THEN (now[c] \ (base[c] \ mine[c])) \cup (mine[c] \ base[c])
            ELSE IF mine[c] # base[c] THEN mine[c] ELSE now[c]
  BY <1>2
<1>5. m = [c \in DOMAIN BlankRow |-> m[c]]
  BY <1>2
<1>6. \A c \in DOMAIN BlankRow \ Relation : m[c] = IF mine[c] # base[c] THEN mine[c] ELSE now[c]
  BY <1>4
<1>7. \A c \in Relation : m[c] = (now[c] \ (base[c] \ mine[c])) \cup (mine[c] \ base[c])
  BY <1>3, <1>4
<1> QED BY <1>5, <1>6, <1>7 DEF m

LEMMA MergedType ==
    ASSUME NEW base \in Row, NEW mine \in Row, NEW now \in Row
    PROVE  Merged(base, mine, now) \in Row
<1> DEFINE m == Merged(base, mine, now)
<1>1. CASE base.known /\ ~now.known
  BY <1>1 DEF Merged
<1>2. CASE ~(base.known /\ ~now.known)
  <2> HIDE DEF m
  <2>1. /\ m = [c \in DOMAIN BlankRow |-> m[c]]
        /\ \A c \in DOMAIN BlankRow \ Relation :
              m[c] = IF mine[c] # base[c] THEN mine[c] ELSE now[c]
        /\ \A c \in Relation :
              m[c] = (now[c] \ (base[c] \ mine[c])) \cup (mine[c] \ base[c])
    BY <1>2, MergedColumns DEF m
  <2>2. m = [c \in DOMAIN BlankRow |-> m[c]]
    BY <2>1
  <2>3. \A c \in DOMAIN BlankRow \ Relation : m[c] = mine[c] \/ m[c] = now[c]
    BY <2>1
  <2>4. \A c \in Relation :
           m[c] = (now[c] \ (base[c] \ mine[c])) \cup (mine[c] \ base[c])
    BY <2>1
  <2>5. m = [known |-> m.known, is_active |-> m.is_active,
             is_deactivated |-> m.is_deactivated, is_opened |-> m.is_opened,
             ldap_uid |-> m.ldap_uid, ldap_gid |-> m.ldap_gid,
             projects_api |-> m.projects_api, project |-> m.project,
             sshkeys_api |-> m.sshkeys_api, sshkey |-> m.sshkey,
             mail_is_opensend |-> m.mail_is_opensend,
             mail_is_activated |-> m.mail_is_activated,
             mail_is_deactivated |-> m.mail_is_deactivated,
             mail_is_sshkeyadded |-> m.mail_is_sshkeyadded,
             mail_is_sshkeyremoved |-> m.mail_is_sshkeyremoved,
             mail_name_sshkey |-> m.mail_name_sshkey]
    BY <2>2 DEF BlankRow
  <2>6. /\ m.known \in BOOLEAN /\ m.is_active \in BOOLEAN /\ m.is_deactivated \in BOOLEAN
        /\ m.is_opened \in BOOLEAN /\ m.ldap_uid \in BOOLEAN /\ m.ldap_gid \in Gid
        /\ m.projects_api \in Seq(Project) /\ m.sshkeys_api \in SUBSET Key
        /\ m.mail_is_opensend \in BOOLEAN /\ m.mail_is_activated \in BOOLEAN
        /\ m.mail_is_deactivated \in BOOLEAN /\ m.mail_is_sshkeyadded \in BOOLEAN
        /\ m.mail_is_sshkeyremoved \in BOOLEAN
        /\ m.mail_name_sshkey \in SUBSET KeyNotice
    BY <2>3 DEF Relation, BlankRow, Row
  <2>7. m.project \in SUBSET Project /\ m.sshkey \in SUBSET Key
    BY <2>4 DEF Relation, Row
  <2>8. m \in Row
    BY <2>5, <2>6, <2>7 DEF Row
  <2> QED BY <2>8 DEF m
<1> QED BY <1>1, <1>2

\* Nothing is written over when the task has what is in the table.
LEMMA MergedFresh ==
    ASSUME NEW base \in Row, NEW mine \in Row PROVE Merged(base, mine, base) = mine
<1> DEFINE m == Merged(base, mine, base)
<1>1. /\ m = [c \in DOMAIN BlankRow |-> m[c]]
      /\ \A c \in DOMAIN BlankRow \ Relation :
            m[c] = IF mine[c] # base[c] THEN mine[c] ELSE base[c]
      /\ \A c \in Relation :
            m[c] = (base[c] \ (base[c] \ mine[c])) \cup (mine[c] \ base[c])
  BY MergedColumns
<1> HIDE DEF m
<1>2. \A c \in DOMAIN BlankRow : m[c] = mine[c]
  <2>1. \A c \in DOMAIN BlankRow \ Relation : m[c] = mine[c]
    BY <1>1
  <2>2. \A c \in Relation : m[c] = mine[c]
    BY <1>1
  <2> QED BY <2>1, <2>2
<1>3. mine = [c \in DOMAIN BlankRow |-> mine[c]]
  BY DEF Row, BlankRow
<1> QED BY <1>1, <1>2, <1>3 DEF m

Merges(base, mine, now, m) ==
    IF base.known /\ ~now.known THEN m = now
    ELSE /\ m.known = IF mine.known # base.known THEN mine.known ELSE now.known
         /\ m.is_active = IF mine.is_active # base.is_active
                          THEN mine.is_active ELSE now.is_active
         /\ m.is_deactivated = IF mine.is_deactivated # base.is_deactivated
                               THEN mine.is_deactivated ELSE now.is_deactivated
         /\ m.projects_api = IF mine.projects_api # base.projects_api
                             THEN mine.projects_api ELSE now.projects_api
         /\ m.sshkeys_api = IF mine.sshkeys_api # base.sshkeys_api
                            THEN mine.sshkeys_api ELSE now.sshkeys_api
         /\ m.is_opened = IF mine.is_opened # base.is_opened
                          THEN mine.is_opened ELSE now.is_opened
         /\ m.mail_is_opensend = IF mine.mail_is_opensend # base.mail_is_opensend
                                 THEN mine.mail_is_opensend ELSE now.mail_is_opensend
         /\ m.mail_name_sshkey = IF mine.mail_name_sshkey # base.mail_name_sshkey
                                 THEN mine.mail_name_sshkey ELSE now.mail_name_sshkey
         /\ m.project = (now.project \ (base.project \ mine.project))
                          \cup (mine.project \ base.project)
         /\ m.sshkey = (now.sshkey \ (base.sshkey \ mine.sshkey))
                         \cup (mine.sshkey \ base.sshkey)

LEMMA MergedFields ==
    ASSUME NEW base \in Row, NEW mine, NEW now
    PROVE  Merges(base, mine, now, Merged(base, mine, now))
<1> DEFINE m == Merged(base, mine, now)
<1>1. CASE base.known /\ ~now.known
  BY <1>1 DEF Merged, Merges
<1>2. CASE ~(base.known /\ ~now.known)
  <2>1. /\ \A c \in DOMAIN BlankRow \ Relation :
              m[c] = IF mine[c] # base[c] THEN mine[c] ELSE now[c]
        /\ \A c \in Relation :
              m[c] = (now[c] \ (base[c] \ mine[c])) \cup (mine[c] \ base[c])
    BY <1>2, MergedColumns
  <2> HIDE DEF m
  <2>2. Merges(base, mine, now, m)
    BY <1>2, <2>1 DEF BlankRow, Relation, Merges
  <2> QED BY <2>2 DEF m
<1> QED BY <1>1, <1>2

LEMMA MergedTidy ==
    ASSUME NEW base \in Row, NEW mine \in Row, NEW now \in Row,
           TidyRow(base), TidyRow(mine), TidyRow(now), base.known => mine.known
    PROVE  TidyRow(Merged(base, mine, now))
<1> DEFINE m == Merged(base, mine, now)
<1>1. Merges(base, mine, now, m)
  BY MergedFields
<1> HIDE DEF m
<1>2. CASE base.known /\ ~now.known
  BY <1>1, <1>2 DEF Merges, m
<1>3. CASE ~(base.known /\ ~now.known)
  <2>1. Distinct(m.projects_api)
    BY <1>1, <1>3 DEF Merges, TidyRow
  <2>2. ASSUME ~m.known PROVE Blank(m)
    <3>1. ~base.known /\ ~mine.known /\ ~now.known
      BY <1>1, <1>3, <2>2 DEF Merges, Row
    <3>2. Blank(base) /\ Blank(mine) /\ Blank(now)
      BY <3>1 DEF TidyRow
    <3> QED BY <1>1, <1>3, <3>2 DEF Merges, Blank, Row
  <2>3. TidyRow(m)
    BY <2>1, <2>2 DEF TidyRow
  <2> QED BY <2>3 DEF m
<1> QED BY <1>2, <1>3

-----------------------------------------------------------------------------
(* What the daemon makes of the sshkeys table.                             *)

LEMMA SyncedKeysRows ==
    ASSUME TypeOK, TableOK
    PROVE  /\ SyncedKeys \in KeyCounts(commands)
           /\ \A k \in Key, u \in User :
                 /\ SyncedKeys[<<k, u, TRUE>>] = sshkeys[<<k, u, TRUE>>]
                 /\ SyncedKeys[<<k, u, FALSE>>] =
                       IF k \in ApiKeys(u) /\ RowsOf(sshkeys, k, u) = 0
                       THEN 1 ELSE sshkeys[<<k, u, FALSE>>]
<1> DEFINE keys == SyncedKeys
<1>1. /\ commands \in Nat /\ sshkeys \in [Key \X User \X BOOLEAN -> 0..1 + commands]
      /\ DOMAIN sshkeys = Key \X User \X BOOLEAN
  BY ManagedAssumption DEF TableOK, KeyCounts
<1>2. keys = [x \in Key \X User \X BOOLEAN |->
                IF ~x[3] /\ x[1] \in ApiKeys(x[2]) /\ RowsOf(sshkeys, x[1], x[2]) = 0
                THEN 1 ELSE sshkeys[x]]
  BY <1>1 DEF SyncedKeys
<1>3. \A x \in Key \X User \X BOOLEAN : sshkeys[x] \in 0..1 + commands /\ 1 \in 0..1 + commands
  BY <1>1
<1>4. \A k \in Key, u \in User, b \in BOOLEAN :
         /\ <<k, u, b>> \in Key \X User \X BOOLEAN
         /\ <<k, u, b>>[1] = k /\ <<k, u, b>>[2] = u /\ <<k, u, b>>[3] = b
  OBVIOUS
<1> HIDE DEF keys
<1>5. keys \in [Key \X User \X BOOLEAN -> 0..1 + commands]
  BY <1>2, <1>3
<1>6. \A k \in Key, u \in User, b \in BOOLEAN : keys[<<k, u, b>>] =
         IF ~b /\ k \in ApiKeys(u) /\ RowsOf(sshkeys, k, u) = 0 THEN 1 ELSE sshkeys[<<k, u, b>>]
  BY <1>2, <1>4
<1> QED BY <1>5, <1>6 DEF keys, KeyCounts

LEMMA OwnedKeysRows ==
    ASSUME TypeOK, TableOK, cur \in User
    PROVE  LET added == KeysAdded(sess[cur])
               removed == KeysRemoved(sess[cur])
           IN  /\ OwnedKeys \in KeyCounts(commands)
               /\ \A k \in Key, u \in User :
                     IF u = cur /\ k \in added \cup removed
                     THEN /\ OwnedKeys[<<k, u, TRUE>>] = IF k \in added THEN 1 ELSE 0
                          /\ OwnedKeys[<<k, u, FALSE>>] = IF k \in added THEN 0 ELSE 1
                     ELSE /\ OwnedKeys[<<k, u, TRUE>>] = keysess[<<k, u, TRUE>>]
                          /\ OwnedKeys[<<k, u, FALSE>>] = keysess[<<k, u, FALSE>>]
<1> DEFINE keys == OwnedKeys
           added == KeysAdded(sess[cur])
           removed == KeysRemoved(sess[cur])
<1>1. /\ commands \in Nat /\ keysess \in [Key \X User \X BOOLEAN -> 0..1 + commands]
      /\ DOMAIN keysess = Key \X User \X BOOLEAN
  BY ManagedAssumption DEF TableOK, KeyCounts
<1>2. keys = [x \in Key \X User \X BOOLEAN |->
                IF x[2] = cur /\ x[1] \in added \cup removed
                THEN (IF x[3] <=> x[1] \in added THEN 1 ELSE 0)
                ELSE keysess[x]]
  BY <1>1 DEF OwnedKeys
<1>3. \A x \in Key \X User \X BOOLEAN :
         keysess[x] \in 0..1 + commands /\ 1 \in 0..1 + commands /\ 0 \in 0..1 + commands
  BY <1>1
<1>4. \A k \in Key, u \in User, b \in BOOLEAN :
         /\ <<k, u, b>> \in Key \X User \X BOOLEAN
         /\ <<k, u, b>>[1] = k /\ <<k, u, b>>[2] = u /\ <<k, u, b>>[3] = b
  OBVIOUS
<1> HIDE DEF keys, added, removed
<1>5. keys \in [Key \X User \X BOOLEAN -> 0..1 + commands]
  BY <1>2, <1>3
<1>6. \A k \in Key, u \in User, b \in BOOLEAN : keys[<<k, u, b>>] =
         IF u = cur /\ k \in added \cup removed
         THEN (IF b <=> k \in added THEN 1 ELSE 0)
         ELSE keysess[<<k, u, b>>]
  BY <1>2, <1>4
<1>7. \A k \in Key, u \in User :
         IF u = cur /\ k \in added \cup removed
         THEN /\ keys[<<k, u, TRUE>>] = IF k \in added THEN 1 ELSE 0
              /\ keys[<<k, u, FALSE>>] = IF k \in added THEN 0 ELSE 1
         ELSE /\ keys[<<k, u, TRUE>>] = keysess[<<k, u, TRUE>>]
              /\ keys[<<k, u, FALSE>>] = keysess[<<k, u, FALSE>>]
  BY <1>6
<1> QED BY <1>5, <1>7 DEF keys, added, removed, KeyCounts

-----------------------------------------------------------------------------
(* Types.                                                                  *)

\* The daemon's steps, by what they do to the sshkeys table.
TaskStep ==
    /\ \/ StartCycle \/ FetchSshkeys \/ FetchUserproject \/ SetMetadata
       \/ (\E u \in User : OpenUser(u)) \/ SyncUser \/ UpdateActive \/ UpdateGroups
       \/ EmailSend
    /\ Follows /\ UNCHANGED <<sshkeys, keysess>>

LEMMA FollowingSteps ==
    ASSUME TaskStep \/ ManagedSync \/ ManagedKeys \/ ManagedLdapCommit \/ ManagedFault
    PROVE  Next /\ Follows
BY DEF TaskStep, ManagedSync, ManagedKeys, ManagedLdapCommit, ManagedFault, Next,
   DaemonStep, Environment, LdapUpdate

LEMMA StepKinds ==
    ASSUME [ManagedNext]_allvars
    PROVE  \/ UNCHANGED allvars
           \/ TaskStep \/ ManagedSync \/ ManagedKeys \/ ManagedLdapCommit
           \/ Load \/ ManagedFault \/ ManagedApiChange
           \/ Leaves /\ (StaleCommit \/ KeyLookupFails)
           \/ \E u \in Cached : RunCommand(u)
BY DEF ManagedNext, ManagedStep, TaskStep, StaleCommit, KeyLookupFails, RunCommand

LEMMA FollowsTypes ==
    ASSUME TypeOK, TypeOK', TableOK, Follows,
           sshkeys' \in KeyCounts(commands), keysess' \in KeyCounts(commands)
    PROVE  TableOK'
<1>1. UNCHANGED <<commands, declared, meddled>> /\ behind' \in BOOLEAN
      /\ cache' = [u \in User |-> Merged(db[u], db'[u], cache[u])]
  BY DEF Follows
<1>2. \A u \in User : Merged(db[u], db'[u], cache[u]) \in Row
  BY MergedType DEF TypeOK, TableOK
<1> QED BY <1>1, <1>2 DEF TableOK

LEMMA CommandTypes ==
    ASSUME TypeOK, TableOK, NEW u \in Cached, NEW row, NEW keys,
           Command(u, row, keys), Effect(u, row, keys)
    PROVE  TypeOK' /\ TableOK'
<1>1. commands \in Nat /\ commands' = commands + 1 /\ commands' \in 0..MaxCommands
  BY ManagedAssumption DEF Command, TableOK
<1>2. cache' \in [User -> Row]
  BY DEF Command, Effect, TableOK, Cached
<1>3. TableOK'
  <2>1. sshkeys' = keys /\ keysess' = keys /\ behind' \in BOOLEAN
    BY DEF Command
  <2>2. keys \in KeyCounts(commands')
    BY <1>1 DEF Effect
  <2> QED BY <1>1, <1>2, <2>1, <2>2 DEF Effect, TableOK
<1>4. db' \in [User -> Row]
  <2>1. Related(db) \in [User -> Row]
    <3>1. \A u0 \in User : cache'[u0].project \in SUBSET Project /\ cache'[u0].sshkey \in SUBSET Key
      BY <1>2 DEF Row
    <3>2. \A r \in Row : \A p \in SUBSET Project, k \in SUBSET Key :
             [r EXCEPT !.project = p, !.sshkey = k] \in Row
      BY DEF Row
    <3>3. \A u0 \in User : db[u0] \in Row
      BY DEF TypeOK
    <3> QED BY <3>1, <3>2, <3>3 DEF Related
  <2> QED BY <1>2, <2>1 DEF Command
<1>5. /\ todo' \in SUBSET User /\ sent' \in [User -> SUBSET Notice]
      /\ sess' = db' /\ quiet' \in -1..QuietMax
  BY DEF Command, TypeOK, QuietMax
<1>6. UNCHANGED <<api, fetched, ldap, group, opened, pc, cur, guarded>>
  BY DEF Command
<1>7. TypeOK'
  BY <1>4, <1>5, <1>6 DEF TypeOK
<1> QED BY <1>3, <1>7

LEMMA ManagedTypes ==
    ASSUME TypeOK, TableOK, [ManagedNext]_allvars PROVE TypeOK' /\ TableOK'
<1>1. CASE UNCHANGED allvars
  BY <1>1 DEF allvars, vars, mvars, TypeOK, TableOK
<1>2. CASE TaskStep \/ ManagedSync \/ ManagedKeys \/ ManagedLdapCommit \/ ManagedFault
  <2>1. TypeOK' /\ Follows
    BY <1>2, FollowingSteps, TypeStep
  <2>2. CASE TaskStep \/ ManagedLdapCommit \/ ManagedFault
    BY <2>1, <2>2, FollowsTypes DEF TaskStep, ManagedLdapCommit, ManagedFault, TableOK
  <2>3. CASE ManagedSync
    BY <2>1, <2>3, SyncedKeysRows, FollowsTypes DEF ManagedSync
  <2>4. CASE ManagedKeys
    <3>1. cur \in User
      BY <2>4, CurrentTypes DEF ManagedKeys
    <3>2. OwnedKeys \in KeyCounts(commands)
      BY <3>1, OwnedKeysRows
    <3> QED BY <2>1, <2>4, <3>2, FollowsTypes DEF ManagedKeys, TableOK
  <2> QED BY <1>2, <2>2, <2>3, <2>4
<1>3. CASE Load
  <2>1. /\ db' = cache /\ sess' = cache
        /\ todo' \in SUBSET User /\ sent' \in [User -> SUBSET Notice]
    BY <1>3 DEF Load, TypeOK
  <2>2. UNCHANGED <<api, fetched, ldap, group, opened, pc, cur, guarded, quiet>>
        /\ UNCHANGED mvars
    BY <1>3 DEF Load
  <2> QED BY <2>1, <2>2 DEF TypeOK, TableOK, mvars
<1>4. CASE ManagedApiChange
  <2>1. TypeOK' /\ UNCHANGED mvars
    BY <1>4, TypeStep DEF ManagedApiChange, Next, Environment
  <2> QED BY <2>1 DEF TableOK, mvars
<1>5. CASE Leaves
  <2>1. TypeOK' /\ Follows
    BY <1>5, AbandonTypes DEF Leaves, TypeOK
  <2> QED BY <1>5, <2>1, FollowsTypes DEF Leaves, TableOK
<1>6. CASE \E u \in Cached : RunCommand(u)
  BY <1>6, CommandEffect, CommandTypes
<1> QED BY <1>1, <1>2, <1>3, <1>4, <1>5, <1>6, StepKinds

\* Neither the daemon nor the operator stores anything but rows: what the merge
\* of two sessions makes of a row is one, and no command gives a key more rows
\* than there are commands to add them.
LEMMA TableTypes == ManagedSpec => [](TypeOK /\ TableOK)
<1>1. ManagedInit => TypeOK /\ TableOK
  <2> SUFFICES ASSUME ManagedInit PROVE TypeOK /\ TableOK
    OBVIOUS
  <2>1. TypeOK
    BY InitTypes DEF ManagedInit
  <2>2. MaxCommands \in Nat
    BY ManagedAssumption
  <2>3. sshkeys \in KeyCounts(0)
    BY DEF ManagedInit, KeyCounts
  <2>4. db \in [User -> Row]
    BY <2>1 DEF TypeOK
  <2>5. /\ cache = db /\ behind = FALSE /\ keysess = sshkeys
        /\ commands = 0 /\ declared = {} /\ meddled = FALSE
    BY DEF ManagedInit
  <2>6. sshkeys \in KeyCounts(commands) /\ commands \in 0..MaxCommands
    BY <2>2, <2>3, <2>5
  <2> QED BY <2>1, <2>4, <2>5, <2>6 DEF TableOK
<1>2. TypeOK /\ TableOK /\ [ManagedNext]_allvars => TypeOK' /\ TableOK'
  BY ManagedTypes
<1> QED BY <1>1, <1>2, PTL DEF ManagedSpec

-----------------------------------------------------------------------------
(* What no step takes from a row.                                          *)

Keeps(r, s) ==
    /\ r.known => s.known
    /\ r.mail_is_opensend => s.mail_is_opensend

LEMMA RowChangeKeeps ==
    ASSUME TypeOK, NEW u \in User, NEW s, RowChange(u, sess[u], s)
    PROVE  Keeps(sess[u], s)
<1> DEFINE r == sess[u]
<1>1. r \in Row
  BY DEF TypeOK
<1>2. CASE s = SyncedRow(u)
  BY <1>2, SyncedRowMail DEF SameMail, Keeps
<1>3. CASE s \in MetadataRows(r, u)
  BY <1>1, <1>3, MetadataRowsMail DEF SameMail, Keeps
<1>4. CASE \/ s = SyncRelation(r)
           \/ \E gid \in Gid : s = [SyncRelation(r) EXCEPT !.ldap_gid = gid]
  BY <1>1, <1>4, SyncRelationMail DEF SameMail, Keeps
<1>5. CASE s = ActiveRow(r)
  BY <1>1, <1>5, ActiveRowKeeps DEF Keeps
<1>6. CASE s = KeyRow(r) \/ s = [KeyRow(r) EXCEPT !.is_opened = TRUE]
  BY <1>1, <1>6 DEF KeyRow, Row, Keeps
<1>7. CASE s \in {AfterActivate(r), AfterDeactivate(r), AfterAccount(r),
                  AfterKeyOpened(r)}
  BY <1>1, <1>7 DEF AfterActivate, AfterDeactivate, AfterAccount, AfterKeyOpened,
     Row, Keeps
<1>8. CASE \E failed \in SUBSET KeyNotice : s = AfterKeyMails(r, failed)
  BY <1>1, <1>8 DEF AfterKeyMails, Row, Keeps
<1>9. CASE s = r
  BY <1>9 DEF Keeps
<1> QED BY <1>2, <1>3, <1>4, <1>5, <1>6, <1>7, <1>8, <1>9 DEF RowChange

MailInv == \A u \in User : db[u].mail_is_opensend => sess[u].mail_is_opensend

\* What a task's step keeps, as long as the session has what the row had.
LEMMA KeptRows ==
    ASSUME TypeOK, [Next]_vars, \A u \in User : Keeps(db[u], sess[u])
    PROVE  \A u \in User : /\ Keeps(db[u], sess'[u])
                           /\ Keeps(db[u], db'[u]) /\ Keeps(db'[u], sess'[u])
<1>1. \A u \in User : Keeps(db[u], sess'[u])
  BY RowChanges, RowChangeKeeps DEF RowsChange, Keeps
<1> QED BY <1>1, RowChanges DEF RowsChange, Keeps

-----------------------------------------------------------------------------
(* Where a task's session stands to the table.                             *)

LoadInv ==
    /\ behind => pc \in {"fetch", "usermetadata"} \cup LdapPc /\ quiet = -1
    /\ ~Loaded => pc \in {"usermetadata", "user", "activate", "down"}
                  /\ sess = db /\ keysess = sshkeys /\ quiet = -1
    /\ pc \notin LdapPc => keysess = sshkeys

LEMMA NoFault ==
    /\ ~Fault("reject") /\ ~Fault("lost") /\ ~Fault("smtp")
    /\ ~Fault("stop") /\ ~Fault("crash")
    /\ Calm
BY ManagedAssumption DEF Fault, Calm

LEMMA BehindStage ==
    ASSUME TypeOK, StageInv, pc \in {"fetch", "usermetadata"} \cup LdapPc, quiet = -1,
           TaskStep \/ ManagedSync \/ ManagedKeys \/ ManagedLdapCommit \/ ManagedFault
    PROVE  /\ quiet' = -1
           /\ pc' \in {"fetch", "usermetadata", "down", "activate"} \cup LdapPc
           /\ pc = "usermetadata" => pc' = "user" /\ sess' = db'
           /\ pc' \in {"usermetadata", "down", "activate"} => sess' = db'
           /\ pc' \notin LdapPc => sess' = db'
<1> USE DEF LdapPc
<1>1. CASE StartCycle \/ EmailSend \/ Start
  BY <1>1 DEF StartCycle, Start, EmailSend, EmailActivate, EmailDeactivate,
     EmailAccount, Round, EmailKey, MailCommit
<1>2. CASE FetchSshkeys \/ FetchUserproject \/ FetchError
  BY <1>2 DEF FetchSshkeys, FetchUserproject, FetchError, Disturbed, StageInv,
     WorkPc, MailPc
<1>3. CASE SetMetadata \/ SyncCache \/ LdapCommit
  BY <1>3 DEF SetMetadata, SyncCache, LdapCommit, Commit
<1>4. ASSUME NEW u \in User, OpenUser(u) PROVE pc = "user" /\ pc' = "sync" /\ quiet' = -1
  BY <1>4 DEF OpenUser
<1>5. CASE SyncUser \/ UpdateActive \/ UpdateKeys \/ UpdateGroups
  BY <1>5 DEF SyncUser, UpdateActive, UpdateKeys, UpdateGroups, LdapDone, NextUser
<1>6. CASE Die
  <2>1. pc = "fetch" /\ pc' = "down" /\ sess' = db' /\ quiet' = -1
    BY <1>6, NoFault DEF Die, Abandon, Disturbed
  <2> QED BY <2>1
<1> QED BY <1>1, <1>2, <1>3, <1>4, <1>5, <1>6
       DEF TaskStep, ManagedSync, ManagedKeys, ManagedLdapCommit, ManagedFault

\* Where the task has what is in the table, so it has after its commit.
LEMMA FollowsFresh ==
    ASSUME TypeOK, TypeOK', TableOK, Follows, ~behind
    PROVE  db = cache /\ cache' = db' /\ behind' = FALSE
<1>1. db = cache /\ cache' = [u \in User |-> Merged(db[u], db'[u], cache[u])]
      /\ behind' = FALSE
  BY DEF Follows, Loaded
<1>2. \A u \in User : Merged(db[u], db'[u], cache[u]) = db'[u]
  BY <1>1, MergedFresh DEF TypeOK
<1>3. cache' = [u \in User |-> db'[u]]
  BY <1>1, <1>2
<1>4. db' = [u \in User |-> db'[u]]
  BY DEF TypeOK
<1> QED BY <1>1, <1>3, <1>4

\* What the task holds of the sshkeys table goes back to what is there unless
\* ldapupdate is at work.
LEMMA LoadFollows ==
    ASSUME TypeOK, TypeOK', TableOK, StageInv, StageInv', LoadInv,
           TaskStep \/ ManagedSync \/ ManagedKeys \/ ManagedLdapCommit \/ ManagedFault
    PROVE  LoadInv'
<1>1. Follows
  BY FollowingSteps
<1>2. pc' \notin LdapPc => keysess' = sshkeys'
  <2>1. CASE ManagedSync \/ ManagedLdapCommit \/ ManagedFault
    <3>1. keysess' = sshkeys'
      BY <2>1 DEF ManagedSync, ManagedLdapCommit, ManagedFault
    <3> QED BY <3>1
  <2>2. CASE ManagedKeys
    BY <2>2 DEF ManagedKeys, UpdateKeys, NextUser, LdapPc
  <2>3. CASE TaskStep
    <3>1. pc \in LdapPc => pc' \in LdapPc
      BY <2>3 DEF TaskStep, StartCycle, FetchSshkeys, FetchUserproject, SetMetadata,
         OpenUser, SyncUser, UpdateActive, LdapDone, UpdateGroups, EmailSend,
         EmailActivate, EmailDeactivate, EmailAccount, Round, EmailKey, MailCommit, LdapPc
    <3> QED BY <2>3, <3>1 DEF TaskStep, LoadInv
  <2> QED BY <2>1, <2>2, <2>3
<1>3. CASE ~behind
  <2>1. db' = cache' /\ behind' = FALSE
    BY <1>1, <1>3, FollowsFresh
  <2> QED BY <1>2, <2>1 DEF LoadInv, Loaded
<1>4. CASE behind
  <2>1. pc \in {"fetch", "usermetadata"} \cup LdapPc /\ quiet = -1
    BY <1>4 DEF LoadInv
  <2>2. /\ quiet' = -1
        /\ pc' \in {"fetch", "usermetadata", "down", "activate"} \cup LdapPc
        /\ pc = "usermetadata" => pc' = "user" /\ sess' = db'
        /\ pc' \in {"usermetadata", "down", "activate"} => sess' = db'
    BY <2>1, BehindStage
  <2>3. behind' = (/\ behind /\ pc # "usermetadata"
                   /\ pc' \notin {"usermetadata", "activate", "sleep", "down"})
    BY <1>1 DEF Follows
  <2>4. pc = "usermetadata" => keysess' = sshkeys'
    <3>1. pc = "usermetadata" => TaskStep
      BY NoFault DEF ManagedSync, SyncCache, ManagedKeys, ManagedLdapCommit, LdapCommit,
         ManagedFault, FetchError, Die, Start
    <3> QED BY <3>1 DEF TaskStep, LoadInv, LdapPc
  <2>5. behind' => pc' \in {"fetch", "usermetadata"} \cup LdapPc
    BY <2>2, <2>3
  <2>6. ~behind' => /\ pc' \in {"usermetadata", "user", "activate", "down"}
                    /\ sess' = db' /\ keysess' = sshkeys'
    BY <1>2, <1>4, <2>2, <2>3, <2>4 DEF LdapPc
  <2> QED BY <1>2, <2>2, <2>5, <2>6 DEF LoadInv, Loaded
<1> QED BY <1>3, <1>4

LEMMA LoadStep ==
    ASSUME TypeOK, TypeOK', TableOK, StageInv, StageInv', LoadInv, [ManagedNext]_allvars
    PROVE  LoadInv'
<1>1. CASE UNCHANGED allvars
  BY <1>1 DEF allvars, vars, mvars, LoadInv, Loaded
<1>2. CASE TaskStep \/ ManagedSync \/ ManagedKeys \/ ManagedLdapCommit \/ ManagedFault
  BY <1>2, LoadFollows
<1>3. CASE Load
  <2>1. db' = cache' /\ UNCHANGED <<pc, quiet, behind, sshkeys, keysess>> /\ ~behind
    BY <1>3 DEF Load, Loaded, mvars
  <2> QED BY <2>1 DEF LoadInv, Loaded
<1>4. CASE ManagedApiChange
  <2>1. /\ Loaded /\ UNCHANGED <<behind, sshkeys, keysess, cache, db, pc>>
        /\ pc \in {"sleep", "fetch"} /\ (pc = "fetch" => quiet' = -1)
    BY <1>4 DEF ManagedApiChange, ApiChange, mvars
  <2> QED BY <2>1 DEF LoadInv, Loaded, LdapPc
<1>5. CASE Leaves
  <2>1. /\ pc' = "down" /\ sess' = db' /\ quiet' = -1 /\ keysess' = sshkeys'
        /\ behind' = FALSE
    BY <1>5 DEF Leaves, Abandon, Disturbed, Follows
  <2> QED BY <2>1 DEF LoadInv
<1>6. ASSUME NEW u \in Cached, NEW row, NEW keys, Command(u, row, keys) PROVE LoadInv'
  <2>1. /\ keysess' = sshkeys' /\ pc' = pc
        /\ quiet' = IF pc \in {"sleep", "down"} THEN 0 ELSE -1
        /\ \/ behind' = FALSE /\ db' = cache'
           \/ behind' = TRUE /\ MayHaveLoaded
    BY <1>6 DEF Command
  <2> QED BY <2>1 DEF LoadInv, Loaded, MayHaveLoaded, LdapPc
<1> QED BY <1>1, <1>2, <1>3, <1>4, <1>5, <1>6, StepKinds, CommandEffect

-----------------------------------------------------------------------------
(* Who is known, to whom.  A row may be deleted under a task.              *)

KnownInv ==
    /\ \A u \in User : cache[u].known => db[u].known
    /\ \A u \in User : db[u].known <=> sess[u].known
    /\ pc \in LdapPc => \A u \in todo : sess[u].known
    /\ (\E u \in User : db[u].known /\ ~cache[u].known) => declared = User \/ meddled

LEMMA LeavesFetch ==
    ASSUME TypeOK, Next, pc = "fetch" PROVE pc' \in {"fetch", "usermetadata", "down"}
<1>1. ~SetMetadata /\ ~LdapUpdate /\ ~EmailSend /\ ~Start /\ ~StartCycle
  BY DEF SetMetadata, LdapUpdate, OpenUser, SyncUser, UpdateActive, UpdateKeys,
     UpdateGroups, LdapCommit, EmailSend, EmailActivate, EmailDeactivate,
     EmailAccount, Round, EmailKey, MailCommit, Start, StartCycle
<1>2. ~LdapUpdateFails
  BY DEF LdapUpdateFails, OpenUserError, SyncUserError, SyncUserSecondError,
     UpdateActiveError, UpdateKeysError, LdapUnreachable
<1>3. CASE SyncCache \/ FetchError \/ Cancel \/ Die \/ FetchSshkeys \/ FetchUserproject
  BY <1>3 DEF SyncCache, FetchError, Cancel, Die, Abandon, FetchSshkeys, FetchUserproject
<1>4. ASSUME NEW u \in User, ApiChange(u) PROVE pc' = "fetch"
  BY <1>4 DEF ApiChange
<1> QED BY <1>1, <1>2, <1>3, <1>4 DEF Next, DaemonStep, Environment

\* Users are only taken off the list of ldapupdate.
LEMMA TodoShrinks ==
    ASSUME TypeOK, Calm, Next, pc' \in LdapPc, ~SetMetadata
    PROVE  pc \in LdapPc /\ todo' \subseteq todo
<1> USE DEF LdapPc
<1>1. CASE StartCycle \/ FetchSshkeys \/ FetchUserproject \/ SyncCache
           \/ Start \/ FetchError \/ EmailSend
  BY <1>1 DEF StartCycle, FetchSshkeys, FetchUserproject, SyncCache, Start, FetchError,
     EmailSend, EmailActivate, EmailDeactivate, EmailAccount, Round, EmailKey, MailCommit
<1>2. ASSUME NEW u \in User, ApiChange(u) \/ OpenUser(u)
      PROVE  pc \in LdapPc /\ todo' \subseteq todo
  BY <1>2 DEF ApiChange, OpenUser
<1>3. CASE SyncUser \/ UpdateActive \/ UpdateKeys \/ UpdateGroups \/ LdapCommit
  BY <1>3 DEF SyncUser, UpdateActive, UpdateKeys, UpdateGroups, LdapCommit, LdapDone,
     NextUser
<1>4. ~Die
  BY DEF Die, Abandon
<1>5. CASE UNCHANGED vars
  BY <1>5 DEF vars
<1> QED BY <1>1, <1>2, <1>3, <1>4, <1>5, CalmStep DEF DaemonStep, LdapUpdate

LEMMA KnownFollows ==
    ASSUME TypeOK, TypeOK', TableOK, StageInv, StageInv', MailInv, KnownInv, Next, Follows
    PROVE  KnownInv'
<1>1. \A u \in User : Keeps(db[u], sess[u])
  BY DEF KnownInv, MailInv, Keeps
<1>2. \A u \in User : /\ db[u].known => db'[u].known
                      /\ db'[u].known => sess'[u].known
  BY <1>1, KeptRows DEF Keeps
<1>3. \A u \in User : Merges(db[u], db'[u], cache[u], cache'[u])
  BY MergedFields DEF Follows, TypeOK
<1>4. \A u \in User : db[u].known \in BOOLEAN /\ db'[u].known \in BOOLEAN
                      /\ sess[u].known \in BOOLEAN /\ sess'[u].known \in BOOLEAN
                      /\ cache[u].known \in BOOLEAN
  BY DEF TypeOK, TableOK, Row
<1>5. \A u \in User : cache'[u].known => db'[u].known
  BY <1>2, <1>3, <1>4 DEF Merges, KnownInv
<1>6. \A u \in User : db'[u].known <=> sess'[u].known
  <2>1. CASE pc = "fetch"
    <3>1. sess' = db'
      BY <2>1, LeavesFetch DEF StageInv, WorkPc, LdapPc, MailPc
    <3> QED BY <3>1
  <2>2. CASE pc # "fetch"
    <3>1. CASE sess' = db'
      BY <3>1
    <3>2. CASE sess' # db'
      <4>1. db' = db /\ \A u \in User : RowChange(u, sess[u], sess'[u])
        BY <3>2, RowChanges DEF RowsChange
      <4>2. \A u \in User : sess'[u].known = sess[u].known
        BY <2>2, <4>1, RowChangeSync DEF TypeOK, SameSync
      <4> QED BY <4>1, <4>2 DEF KnownInv
    <3> QED BY <3>1, <3>2
  <2> QED BY <2>1, <2>2
<1>7. ASSUME pc' \in LdapPc PROVE \A u \in todo' : sess'[u].known
  <2>1. CASE SetMetadata
    BY <2>1 DEF SetMetadata, Commit
  <2>2. CASE ~SetMetadata
    <3>1. pc \in LdapPc /\ todo' \subseteq todo
      BY <1>7, <2>2, TodoShrinks, NoFault
    <3>2. \A u \in User : sess[u].known => sess'[u].known
      BY <1>2, <1>6 DEF KnownInv
    <3> QED BY <3>1, <3>2 DEF KnownInv, TypeOK
  <2> QED BY <2>1, <2>2
<1>8. ASSUME NEW u \in User, db'[u].known, ~cache'[u].known PROVE declared' = User \/ meddled'
  <2>1. db[u].known /\ ~cache[u].known
    BY <1>3, <1>4, <1>8 DEF Merges
  <2> QED BY <2>1 DEF KnownInv, Follows
<1> QED BY <1>5, <1>6, <1>7, <1>8 DEF KnownInv

\* A row whose relations only were loaded anew.
LEMMA RelatedRow ==
    ASSUME TypeOK, NEW w \in User, db' = Related(db)
    PROVE  /\ db'[w].project = cache'[w].project /\ db'[w].sshkey = cache'[w].sshkey
           /\ db'[w].is_deactivated = db[w].is_deactivated
           /\ db'[w].mail_is_opensend = db[w].mail_is_opensend
           /\ db'[w].is_opened = db[w].is_opened
           /\ db'[w].mail_name_sshkey = db[w].mail_name_sshkey
           /\ SameSync(db[w], db'[w])
<1> DEFINE r == db[w]
           s == [r EXCEPT !.project = cache'[w].project, !.sshkey = cache'[w].sshkey]
<1>1. r \in Row
  BY DEF TypeOK
<1>2. db'[w] = s
  BY DEF Related
<1> HIDE DEF r
<1>3. /\ s.project = cache'[w].project /\ s.sshkey = cache'[w].sshkey
      /\ s.is_deactivated = r.is_deactivated /\ s.mail_is_opensend = r.mail_is_opensend
      /\ s.is_opened = r.is_opened
      /\ s.mail_name_sshkey = r.mail_name_sshkey /\ SameSync(r, s)
  BY <1>1 DEF Row, SameSync
<1> HIDE DEF s
<1> QED BY <1>2, <1>3 DEF r

LEMMA KnownCommand ==
    ASSUME TypeOK, TableOK, KnownInv, NEW u \in Cached, NEW row, NEW keys,
           Command(u, row, keys), Effect(u, row, keys)
    PROVE  KnownInv'
<1>1. /\ sess = db /\ sess' = db' /\ pc' = pc
      /\ \A w \in User : cache'[w] = IF w = u THEN row ELSE cache[w]
  BY DEF Command, TableOK
<1>2. u \in User /\ cache[u].known /\ db[u].known
  BY DEF Cached, KnownInv
<1>3. CASE /\ behind' = FALSE /\ db' = cache'
           /\ todo' = IF pc = "user" THEN {w \in User : cache'[w].known} ELSE todo
           /\ MayLoadYet /\ ~behind
  <2>1. pc \in LdapPc => pc = "user"
    BY <1>3 DEF MayLoadYet
  <2> QED BY <1>1, <1>3, <2>1 DEF KnownInv
<1>4. CASE behind' = TRUE /\ db' = Related(db) /\ UNCHANGED todo
  <2>1. \A w \in User : db'[w].known = db[w].known
    BY <1>4, RelatedRow DEF SameSync
  <2>2. \A w \in User : cache'[w].known => db'[w].known
    BY <1>1, <1>2, <2>1 DEF KnownInv
  <2>3. ASSUME NEW w \in User, db'[w].known, ~cache'[w].known
        PROVE  declared' = User \/ meddled'
    <3>1. CASE w = u
      BY <1>1, <1>4, <2>3, <3>1 DEF Effect
    <3>2. CASE w # u
      <4>1. declared = User \/ meddled
        BY <1>1, <2>1, <2>3, <3>2 DEF KnownInv
      <4> QED BY <4>1 DEF Effect
    <3> QED BY <3>1, <3>2
  <2>4. pc' \in LdapPc => \A w \in todo' : sess'[w].known
    BY <1>1, <1>4, <2>1 DEF KnownInv, TypeOK
  <2> QED BY <1>1, <2>2, <2>3, <2>4 DEF KnownInv
<1> QED BY <1>3, <1>4 DEF Command

LEMMA KnownStep ==
    ASSUME TypeOK, TypeOK', TableOK, StageInv, StageInv', LoadInv, MailInv, KnownInv,
           [ManagedNext]_allvars
    PROVE  KnownInv'
<1>1. CASE UNCHANGED allvars
  BY <1>1 DEF allvars, vars, mvars, KnownInv
<1>2. CASE TaskStep \/ ManagedSync \/ ManagedKeys \/ ManagedLdapCommit \/ ManagedFault
  BY <1>2, FollowingSteps, KnownFollows
<1>3. CASE Load
  <2>1. /\ db' = cache /\ sess' = cache /\ pc' = pc /\ UNCHANGED mvars
        /\ todo' = IF pc = "user" THEN {u \in User : cache[u].known} ELSE todo
        /\ ~Loaded
    BY <1>3 DEF Load
  <2>2. pc \in LdapPc => pc = "user"
    BY <2>1 DEF LoadInv, LdapPc
  <2> QED BY <2>1, <2>2 DEF KnownInv, mvars
<1>4. CASE ManagedApiChange
  BY <1>4 DEF ManagedApiChange, ApiChange, mvars, KnownInv, LdapPc
<1>5. CASE Leaves
  <2>1. db' = db /\ sess' = db /\ pc' = "down" /\ UNCHANGED <<declared, meddled>>
    BY <1>5 DEF Leaves, Abandon, Follows
  <2>2. \A u \in User : Merges(db[u], db'[u], cache[u], cache'[u])
    BY <1>5, MergedFields DEF Leaves, Follows, TypeOK
  <2>3. \A u \in User : cache'[u].known = cache[u].known
    BY <2>1, <2>2 DEF Merges
  <2> QED BY <2>1, <2>3 DEF KnownInv, LdapPc
<1> QED BY <1>1, <1>2, <1>3, <1>4, <1>5, StepKinds, CommandEffect, KnownCommand

-----------------------------------------------------------------------------
(* The invariants of the daemon's cycle, which the operator leaves alone:  *)
(* after a command no cycle counts that has begun.                         *)

\* The session is loaded, and the cycles are counted anew.
Restarted ==
    /\ sess' = db'
    /\ quiet' = -1 \/ (quiet' = 0 /\ pc' \in {"sleep", "down"})

LEMMA Restarts ==
    ASSUME TypeOK, TableOK, LoadInv,
           Load \/ Leaves \/ (\E u \in Cached : \E row, keys : Command(u, row, keys))
    PROVE  Restarted
<1>1. CASE Load
  BY <1>1 DEF Load, LoadInv, Restarted
<1>2. CASE Leaves
  BY <1>2 DEF Leaves, Abandon, Disturbed, Restarted
<1>3. ASSUME NEW u \in Cached, NEW row, NEW keys, Command(u, row, keys) PROVE Restarted
  BY <1>3 DEF Command, Restarted
<1> QED BY <1>1, <1>2, <1>3

LEMMA RestartedCycle ==
    ASSUME Restarted PROVE FetchedInv' /\ WorkInv' /\ SyncInv' /\ MailInv'
<1>1. \A u \in User : \A stages : ~Passed(u, stages)'
  BY DEF Restarted, Passed, LatePc, MailPc, LdapPc
<1>2. ~(Rounds' >= 1) /\ ~(Rounds' >= 2)
  BY DEF Restarted, Rounds
<1>3. FetchedInv' /\ MailInv'
  BY DEF Restarted, FetchedInv, MailInv
<1>4. WorkInv'
  BY <1>1 DEF WorkInv
<1>5. SyncInv'
  BY <1>2 DEF SyncInv
<1> QED BY <1>3, <1>4, <1>5

LEMMA StageManaged ==
    ASSUME TypeOK, TableOK, StageInv, LoadInv, [ManagedNext]_allvars PROVE StageInv'
<1>1. CASE \/ TaskStep \/ ManagedSync \/ ManagedKeys \/ ManagedLdapCommit
           \/ ManagedFault \/ ManagedApiChange \/ UNCHANGED allvars
  <2>1. [Next]_vars
    BY <1>1, FollowingSteps DEF ManagedApiChange, Next, Environment, allvars
  <2> QED BY <2>1, StageStep
<1>2. CASE Load
  BY <1>2 DEF Load, StageInv, LatePc, MailPc
<1>3. CASE Leaves
  BY <1>3 DEF Leaves, Abandon, StageInv, WorkPc, LatePc, MailPc, LdapPc
<1>4. ASSUME NEW u \in Cached, NEW row, NEW keys, Command(u, row, keys) PROVE StageInv'
  <2>1. /\ sess' = db' /\ pc' = pc /\ cur' = cur /\ (pc # "user" => todo' = todo)
    BY <1>4 DEF Command
  <2> QED BY <2>1 DEF StageInv, LatePc, MailPc
<1> QED BY <1>1, <1>2, <1>3, <1>4, StepKinds, CommandEffect

TidyTable == \A u \in User : TidyRow(cache[u])

LEMMA TidyFollows ==
    ASSUME TypeOK, TypeOK', TableOK, TidyInv, TidyTable, TidyInv', Follows,
           \A u \in User : db[u].known => db'[u].known
    PROVE  TidyTable'
<1>1. cache' = [u \in User |-> Merged(db[u], db'[u], cache[u])]
  BY DEF Follows
<1> SUFFICES ASSUME NEW u \in User PROVE TidyRow(Merged(db[u], db'[u], cache[u]))
  BY <1>1 DEF TidyTable, TidyRow, Blank
<1>2. TidyRow(db[u]) /\ TidyRow(db'[u]) /\ TidyRow(cache[u])
  BY DEF TidyInv, TidyTable, TidyRow, Blank
<1>3. db[u] \in Row /\ db'[u] \in Row /\ cache[u] \in Row
  BY DEF TypeOK, TableOK
<1> QED BY <1>2, <1>3, MergedTidy

LEMMA TidyManaged ==
    ASSUME TypeOK, TypeOK', TableOK, LoadInv, MailInv, KnownInv, KnownInv', TidyInv,
           TidyTable, [ManagedNext]_allvars
    PROVE  TidyInv' /\ TidyTable'
<1>1. CASE TaskStep \/ ManagedSync \/ ManagedKeys \/ ManagedLdapCommit \/ ManagedFault
  <2>1. Next /\ Follows
    BY <1>1, FollowingSteps
  <2>2. \A u \in User : db[u].known => db'[u].known
    BY <2>1, KeptRows DEF KnownInv, MailInv, Keeps
  <2> QED BY <2>1, <2>2, TidyStep, TidyFollows
<1>2. CASE ManagedApiChange \/ UNCHANGED allvars
  <2>1. [Next]_vars /\ UNCHANGED cache
    BY <1>2 DEF ManagedApiChange, Next, Environment, mvars, allvars
  <2> QED BY <2>1, TidyStep DEF TidyTable
<1>3. CASE Load
  BY <1>3 DEF Load, mvars, TidyInv, TidyTable
<1>4. CASE Leaves
  <2>1. Follows /\ db' = db /\ sess' = db /\ fetched' = NothingFetched
    BY <1>4 DEF Leaves, Abandon
  <2>2. Distinct(<< >>)
    BY EmptySeq DEF Distinct
  <2>3. TidyInv'
    BY <2>1, <2>2 DEF TidyInv, NothingFetched
  <2> QED BY <2>1, <2>3, TidyFollows
<1>5. ASSUME NEW u \in Cached, NEW row, NEW keys, Command(u, row, keys),
             Effect(u, row, keys)
      PROVE  TidyInv' /\ TidyTable'
  <2>1. /\ sess' = db' /\ fetched' = fetched
        /\ db' = cache' \/ db' = Related(db)
    BY <1>5 DEF Command
  <2>2. \A w \in User : TidyRow(cache'[w])
    <3>1. \A w \in User : cache'[w] = IF w = u THEN row ELSE cache[w]
      BY <1>5 DEF Command, TableOK
    <3>2. TidyRow(row)
      BY <1>5 DEF Effect, TidyTable, Cached
    <3> QED BY <3>1, <3>2 DEF TidyTable
  <2>3. ASSUME db' = Related(db), NEW w \in User PROVE TidyRow(db'[w])
    <3>1. /\ db'[w].project = cache'[w].project /\ db'[w].sshkey = cache'[w].sshkey
          /\ db'[w].mail_name_sshkey = db[w].mail_name_sshkey
          /\ SameSync(db[w], db'[w])
      BY <2>3, RelatedRow
    <3>2. ~db'[w].known => ~cache'[w].known /\ ~db[w].known
      BY <3>1 DEF KnownInv, SameSync
    <3>3. TidyRow(db[w]) /\ TidyRow(cache'[w])
      BY <2>2 DEF TidyInv
    <3> QED BY <3>1, <3>2, <3>3 DEF TidyRow, Blank, SameSync
  <2>4. \A w \in User : TidyRow(db'[w])
    BY <2>1, <2>2, <2>3
  <2>5. TidyInv'
    BY <2>1, <2>4 DEF TidyInv, TidyRow, Blank
  <2>6. TidyTable'
    BY <2>2 DEF TidyTable, TidyRow, Blank
  <2> QED BY <2>5, <2>6
<1> QED BY <1>1, <1>2, <1>3, <1>4, <1>5, StepKinds, CommandEffect

CycleInv ==
    /\ StageInv /\ NothingGot /\ FetchedInv /\ WorkInv /\ SyncInv
    /\ TidyInv /\ TidyTable
    /\ LoadInv /\ KnownInv /\ MailInv

LEMMA CycleStep ==
    ASSUME TypeOK, TypeOK', TableOK, CycleInv, [ManagedNext]_allvars
    PROVE  CycleInv'
<1>1. StageInv'
  BY StageManaged DEF CycleInv
<1>2. LoadInv' /\ KnownInv'
  BY <1>1, LoadStep, KnownStep DEF CycleInv
<1>3. TidyInv' /\ TidyTable'
  BY <1>2, TidyManaged DEF CycleInv
<1>4. NothingGot' /\ FetchedInv' /\ WorkInv' /\ SyncInv' /\ MailInv'
  <2>1. CASE \/ TaskStep \/ ManagedSync \/ ManagedKeys \/ ManagedLdapCommit
             \/ ManagedFault \/ ManagedApiChange \/ UNCHANGED allvars
    <3>1. [Next]_vars
      BY <2>1, FollowingSteps DEF ManagedApiChange, Next, Environment, allvars
    <3>2. MailInv'
      BY <3>1, KeptRows DEF CycleInv, KnownInv, MailInv, Keeps
    <3> QED BY <1>3, <3>1, <3>2, FetchedStep, WorkStep, SyncStep DEF CycleInv
  <2>2. CASE Load
    <3>1. NothingGot'
      BY <2>2 DEF Load, CycleInv, NothingGot
    <3> QED BY <2>2, <3>1, Restarts, RestartedCycle DEF CycleInv
  <2>3. CASE Leaves
    <3>1. NothingGot'
      BY <2>3 DEF Leaves, Abandon, NothingFetched, NothingGot
    <3> QED BY <2>3, <3>1, Restarts, RestartedCycle DEF CycleInv
  <2>4. ASSUME NEW u \in Cached, NEW row, NEW keys, Command(u, row, keys)
        PROVE  NothingGot' /\ FetchedInv' /\ WorkInv' /\ SyncInv' /\ MailInv'
    <3>1. NothingGot'
      BY <2>4 DEF Command, CycleInv, NothingGot
    <3> QED BY <2>4, <3>1, Restarts, RestartedCycle DEF CycleInv
  <2> QED BY <2>1, <2>2, <2>3, <2>4, StepKinds, CommandEffect
<1> QED BY <1>1, <1>2, <1>3, <1>4 DEF CycleInv

LEMMA CycleAlways == ManagedSpec => [](TypeOK /\ TableOK /\ CycleInv)
<1>1. ManagedInit => CycleInv
  <2> SUFFICES ASSUME ManagedInit PROVE CycleInv
    OBVIOUS
  <2>1. Init /\ cache = db /\ behind = FALSE /\ keysess = sshkeys
    BY DEF ManagedInit
  <2>2. StageInv /\ NothingGot /\ FetchedInv /\ WorkInv /\ SyncInv
    BY <2>1 DEF Init, StageInv, LatePc, MailPc, LdapPc, NothingGot, NothingFetched,
       FetchedInv, WorkInv, Passed, SyncInv, Rounds
  <2>3. TidyInv /\ TidyTable
    <3>1. Distinct(<< >>)
      BY EmptySeq DEF Distinct
    <3> QED BY <2>1, <3>1, BlankRowTidy DEF Init, TidyInv, TidyTable, NothingFetched
  <2>4. LoadInv /\ KnownInv /\ MailInv
    BY <2>1 DEF Init, LoadInv, Loaded, KnownInv, LdapPc, MailInv
  <2> QED BY <2>2, <2>3, <2>4 DEF CycleInv
<1>2. TypeOK /\ TypeOK' /\ TableOK /\ CycleInv /\ [ManagedNext]_allvars => CycleInv'
  BY CycleStep
<1> QED BY <1>1, <1>2, TableTypes, PTL DEF ManagedSpec

-----------------------------------------------------------------------------
(* What the tasks make of the columns that say what LDAP was told.         *)

Told(r, s) == s.sshkey = r.sshkey /\ s.is_deactivated = r.is_deactivated

\* apisync may learn a key, it never forgets what LDAP was told.
LEMMA SyncedRowKept ==
    ASSUME TypeOK, NEW u \in User
    PROVE  /\ Told(sess[u], SyncedRow(u))
           /\ SyncedRow(u).sshkeys_api \subseteq sess[u].sshkeys_api \cup ApiKeys(u)
<1> DEFINE r == sess[u]
           r1 == CheckUsersInactive(r, u)
           r2 == UsersProjectsAdd(r1, u)
           r3 == UsersProjectsDel(r2, u)
           r4 == SshkeysAdd(r3, u)
           Kept(x, y) == Told(x, y) /\ y.sshkeys_api \subseteq x.sshkeys_api \cup ApiKeys(u)
<1>1. r \in Row
  BY DEF TypeOK
<1>2. r1 \in Row /\ Kept(r, r1)
  BY <1>1, CheckUsersInactiveType DEF CheckUsersInactive, Told, Row
<1> HIDE DEF r1
<1>3. r2 \in Row /\ Kept(r1, r2)
  BY <1>2, UsersProjectsAddType DEF UsersProjectsAdd, Told, Row
<1> HIDE DEF r2
<1>4. r3 \in Row /\ Kept(r2, r3)
  BY <1>3, UsersProjectsDelType DEF UsersProjectsDel, Told, Row
<1> HIDE DEF r3
<1>5. r4 \in Row /\ Kept(r3, r4)
  BY <1>4, SshkeysType DEF SshkeysAdd, Told, Row
<1> HIDE DEF r4
<1>6. Kept(r4, SshkeysDel(r4, u))
  BY <1>5 DEF SshkeysDel, Told, Row
<1>7. SyncedRow(u) = SshkeysDel(r4, u)
  BY DEF SyncedRow, r1, r2, r3, r4
<1> QED BY <1>2, <1>3, <1>4, <1>5, <1>6, <1>7 DEF Told

LEMMA MetadataRowsTold ==
    ASSUME NEW r \in Row, NEW u, NEW s \in MetadataRows(r, u)
    PROVE  Told(r, s) /\ SameSync(r, s)
<1>1. s = r \/ \E gid : s = [r EXCEPT !.ldap_uid = TRUE, !.ldap_gid = gid]
  BY DEF MetadataRows
<1> QED BY <1>1 DEF Told, SameSync, Row

\* Of the tasks only ldapupdate's two stages change those columns, each of the
\* current user.
LEMMA TaskTold ==
    ASSUME TypeOK, StageInv, TaskStep
    PROVE  /\ \A u \in User : SameSync(sess[u], sess'[u])
           /\ \A u \in User : sess'[u].sshkey = sess[u].sshkey
           /\ UpdateActive \/ \A u \in User : Told(sess[u], sess'[u])
           /\ pc \in LdapPc => db' = db /\ pc' \in LdapPc
           /\ db' = db \/ db' = sess'
<1>1. \A u \in User : sess[u] \in Row
  BY DEF TypeOK
<1>2. CASE UNCHANGED <<db, sess>> /\ (pc \in LdapPc => pc' \in LdapPc)
  BY <1>2 DEF Told, SameSync
<1>3. CASE SetMetadata
  <2>1. \A u \in User : sess'[u] \in MetadataRows(sess[u], u)
    BY <1>3 DEF SetMetadata, Commit
  <2>2. \A u \in User : Told(sess[u], sess'[u]) /\ SameSync(sess[u], sess'[u])
    BY <1>1, <2>1, MetadataRowsTold
  <2> QED BY <1>3, <2>2 DEF SetMetadata, Commit, Told, LdapPc
<1>4. CASE SyncUser
  <2>1. cur \in User
    BY <1>4, CurrentTypes DEF SyncUser
  <2>2. PICK s : /\ \/ s = SyncRelation(sess[cur])
                    \/ \E gid : s = [SyncRelation(sess[cur]) EXCEPT !.ldap_gid = gid]
                 /\ sess' = [sess EXCEPT ![cur] = s]
    BY <1>4 DEF SyncUser, LdapDone
  <2>3. Told(sess[cur], s) /\ SameSync(sess[cur], s)
    BY <1>1, <2>1, <2>2 DEF SyncRelation, Row, Told, SameSync
  <2>4. \A u \in User : sess'[u] = IF u = cur THEN s ELSE sess[u]
    BY <2>2 DEF TypeOK
  <2>5. \A u \in User : Told(sess[u], sess'[u]) /\ SameSync(sess[u], sess'[u])
    BY <2>3, <2>4 DEF Told, SameSync
  <2>6. pc' \in LdapPc /\ db' = db
    BY <1>4 DEF SyncUser, LdapDone, LdapPc
  <2> QED BY <2>5, <2>6 DEF Told
<1>5. CASE UpdateActive
  <2>1. cur \in User
    BY <1>5, CurrentTypes DEF UpdateActive
  <2>2. \A r \in Row : SameSync(r, ActiveRow(r)) /\ ActiveRow(r).sshkey = r.sshkey
    BY DEF ActiveRow, Row, SameSync
  <2>3. \A u \in User : sess'[u] = IF u = cur THEN ActiveRow(sess[u]) ELSE sess[u]
    BY <1>5 DEF UpdateActive, LdapDone, TypeOK
  <2>4. \A u \in User : SameSync(sess[u], sess'[u]) /\ sess'[u].sshkey = sess[u].sshkey
    BY <1>1, <2>2, <2>3 DEF SameSync
  <2>5. pc' \in LdapPc /\ db' = db
    BY <1>5 DEF UpdateActive, LdapDone, LdapPc
  <2> QED BY <1>5, <2>4, <2>5
<1>6. CASE EmailSend
  <2>1. \A u \in User : SameWork(sess[u], sess'[u])
    BY <1>6, EmailWork
  <2>2. pc \notin LdapPc
    BY <1>6 DEF EmailSend, EmailActivate, EmailDeactivate, EmailAccount, Round,
       EmailKey, MailCommit, LdapPc
  <2>3. db' = db \/ db' = sess'
    BY <1>6 DEF EmailSend, EmailActivate, EmailDeactivate, EmailAccount, Round,
       EmailKey, MailCommit, Commit
  <2> QED BY <2>1, <2>2, <2>3 DEF SameWork, Told
<1>7. ASSUME \/ StartCycle \/ FetchSshkeys \/ FetchUserproject \/ UpdateGroups
             \/ \E u \in User : OpenUser(u)
      PROVE  UNCHANGED <<db, sess>> /\ (pc \in LdapPc => pc' \in LdapPc)
  BY <1>7 DEF StartCycle, FetchSshkeys, FetchUserproject, UpdateGroups, OpenUser, LdapPc
<1> QED BY <1>2, <1>3, <1>4, <1>5, <1>6, <1>7 DEF TaskStep

LEMMA KeysTold ==
    ASSUME TypeOK, UpdateKeys
    PROVE  /\ cur \in User /\ pc = "keys" /\ pc' = "user" /\ db' = db
           /\ sess'[cur].sshkey = sess[cur].sshkeys_api
           /\ sess'[cur].is_deactivated = sess[cur].is_deactivated
           /\ SameSync(sess[cur], sess'[cur])
           /\ \A u \in User \ {cur} : sess'[u] = sess[u]
<1>1. cur \in User /\ sess[cur] \in Row
  BY CurrentTypes DEF UpdateKeys
<1> DEFINE s == [KeyRow(sess[cur]) EXCEPT !.is_opened = TRUE]
<1>2. \A u \in User : sess'[u] = IF u = cur THEN s ELSE sess[u]
  BY DEF UpdateKeys, TypeOK
<1>3. /\ s.sshkey = sess[cur].sshkeys_api
      /\ s.is_deactivated = sess[cur].is_deactivated /\ SameSync(sess[cur], s)
  BY <1>1 DEF KeyRow, Row, SameSync
<1> HIDE DEF s
<1> QED BY <1>1, <1>2, <1>3 DEF UpdateKeys, NextUser, SameSync

\* A fault of the fetch and a task that ends lose nothing that was not
\* committed, for nothing was.
LEMMA FaultTold ==
    ASSUME TypeOK, StageInv, ManagedFault
    PROVE  sess' = db /\ db' = db /\ sess' = sess /\ pc' \notin LdapPc /\ UNCHANGED ldap
<1>1. CASE FetchError
  BY <1>1 DEF FetchError, StageInv, WorkPc, LdapPc, MailPc
<1>2. CASE Die
  <2>1. pc = "fetch" /\ pc' = "down" /\ sess' = db /\ UNCHANGED <<db, ldap>>
    BY <1>2, NoFault DEF Die, Abandon
  <2> QED BY <2>1 DEF StageInv, WorkPc, LdapPc, MailPc
<1>3. CASE Start
  BY <1>3 DEF Start, StageInv, WorkPc, LdapPc, MailPc
<1> QED BY <1>1, <1>2, <1>3 DEF ManagedFault

-----------------------------------------------------------------------------
(* The relation of keys is a view of the sshkeys table, and the rows a     *)
(* task has loaded differ from the table in nothing that matters, but for  *)
(* the users the operator has overruled.                                   *)

SameView(u) ==
    /\ db[u].sshkey = cache[u].sshkey /\ db[u].known = cache[u].known
    /\ db[u].is_deactivated = cache[u].is_deactivated

ViewInv == \A u \in User \ declared :
    /\ SameView(u)
    /\ cache[u].sshkey = View(sshkeys, u) /\ sess[u].sshkey = View(keysess, u)
    /\ pc \notin LdapPc => sess[u].sshkey = db[u].sshkey

\* A task's commit of such a row leaves it as the task has it.
LEMMA ViewMerged ==
    ASSUME TypeOK, TypeOK', TableOK, Follows, NEW u \in User, SameView(u)
    PROVE  SameView(u)'
<1>1. Merges(db[u], db'[u], cache[u], cache'[u])
  BY MergedFields DEF Follows, TypeOK
<1>2. ~(db[u].known /\ ~cache[u].known)
  BY DEF SameView
<1> QED BY <1>1, <1>2 DEF Merges, SameView

LEMMA ViewFollows ==
    ASSUME TypeOK, TypeOK', TableOK, TableOK', StageInv, LoadInv, ViewInv,
           TaskStep \/ ManagedSync \/ ManagedKeys \/ ManagedLdapCommit \/ ManagedFault
    PROVE  ViewInv'
<1>1. Follows /\ declared' = declared
  BY FollowingSteps DEF Follows
<1> SUFFICES ASSUME NEW u \in User \ declared
             PROVE  /\ SameView(u)'
                    /\ cache'[u].sshkey = View(sshkeys', u)
                    /\ sess'[u].sshkey = View(keysess', u)
                    /\ pc' \notin LdapPc => sess'[u].sshkey = db'[u].sshkey
  BY <1>1 DEF ViewInv, SameView
<1>2. SameView(u)'
  BY <1>1, ViewMerged DEF ViewInv
<1>3. /\ cache[u].sshkey = View(sshkeys, u) /\ sess[u].sshkey = View(keysess, u)
      /\ db[u].sshkey = cache[u].sshkey
      /\ pc \notin LdapPc => sess[u].sshkey = db[u].sshkey
  BY DEF ViewInv, SameView
<1>4. db'[u].sshkey = cache'[u].sshkey
  BY <1>2 DEF SameView
<1>5. CASE TaskStep
  <2>1. sess'[u].sshkey = sess[u].sshkey
    BY <1>5, TaskTold
  <2>2. db'[u].sshkey = db[u].sshkey
    BY <1>3, <1>5, <2>1, TaskTold
  <2>3. pc' \notin LdapPc => pc \notin LdapPc
    BY <1>5, TaskTold
  <2> QED BY <1>2, <1>3, <1>4, <1>5, <2>1, <2>2, <2>3 DEF TaskStep
<1>6. CASE ManagedSync
  <2>1. /\ pc = "fetch" /\ pc' = "usermetadata" /\ db' = sess'
        /\ sess'[u] = SyncedRow(u) /\ sshkeys' = SyncedKeys /\ keysess' = SyncedKeys
    BY <1>6 DEF ManagedSync, SyncCache, Commit
  <2>2. sess'[u].sshkey = sess[u].sshkey
    BY <2>1, SyncedRowKept DEF Told
  <2>3. View(SyncedKeys, u) = View(sshkeys, u)
    BY SyncedKeysRows DEF View
  <2>4. sess[u].sshkey = db[u].sshkey
    BY <1>3, <2>1 DEF LdapPc
  <2> QED BY <1>2, <1>3, <1>4, <2>1, <2>2, <2>3, <2>4
<1>7. CASE ManagedKeys
  <2>1. UpdateKeys /\ sshkeys' = sshkeys /\ keysess' = OwnedKeys
    BY <1>7 DEF ManagedKeys
  <2>2. /\ cur \in User /\ pc' \in LdapPc /\ db' = db
        /\ sess'[cur].sshkey = sess[cur].sshkeys_api
        /\ u # cur => sess'[u] = sess[u]
    BY <2>1, KeysTold DEF LdapPc
  <2>3. \A k \in Key : OwnedKeys[<<k, u, TRUE>>] =
            IF u = cur /\ k \in KeysAdded(sess[cur]) \cup KeysRemoved(sess[cur])
            THEN IF k \in KeysAdded(sess[cur]) THEN 1 ELSE 0
            ELSE keysess[<<k, u, TRUE>>]
    BY <2>2, OwnedKeysRows
  <2>4. CASE u # cur
    <3>1. View(OwnedKeys, u) = View(keysess, u)
      BY <2>3, <2>4 DEF View
    <3> QED BY <1>2, <1>3, <1>4, <2>1, <2>2, <2>4, <3>1
  <2>5. CASE u = cur
    <3>1. /\ \A k \in KeysAdded(sess[u]) : OwnedKeys[<<k, u, TRUE>>] > 0
          /\ \A k \in KeysRemoved(sess[u]) : ~(OwnedKeys[<<k, u, TRUE>>] > 0)
          /\ \A k \in Key \ (KeysAdded(sess[u]) \cup KeysRemoved(sess[u])) :
                OwnedKeys[<<k, u, TRUE>>] = keysess[<<k, u, TRUE>>]
      <4>1. sess[u] \in Row
        BY DEF TypeOK
      <4>2. KeysAdded(sess[u]) \subseteq Key /\ KeysRemoved(sess[u]) \subseteq Key
            /\ KeysAdded(sess[u]) \cap KeysRemoved(sess[u]) = {}
        BY <4>1 DEF KeysAdded, KeysRemoved, Row
      <4>3. 1 > 0 /\ ~(0 > 0)
        OBVIOUS
      <4>4. \A k \in KeysAdded(sess[u]) : OwnedKeys[<<k, u, TRUE>>] = 1
        BY <2>3, <2>5, <4>2
      <4>5. \A k \in KeysRemoved(sess[u]) : OwnedKeys[<<k, u, TRUE>>] = 0
        BY <2>3, <2>5, <4>2
      <4> QED BY <2>3, <2>5, <4>3, <4>4, <4>5
    <3>2. View(OwnedKeys, u) =
             (View(keysess, u) \ KeysRemoved(sess[u])) \cup KeysAdded(sess[u])
      <4>1. KeysAdded(sess[u]) \cap KeysRemoved(sess[u]) = {}
        BY DEF KeysAdded, KeysRemoved
      <4>2. KeysAdded(sess[u]) \subseteq Key
        BY DEF KeysAdded, TypeOK, Row
      <4> QED BY <3>1, <4>1, <4>2 DEF View
    <3>3. View(OwnedKeys, u) = sess[u].sshkeys_api
      BY <1>3, <3>2 DEF KeysAdded, KeysRemoved
    <3> QED BY <1>2, <1>3, <1>4, <2>1, <2>2, <2>5, <3>3
  <2> QED BY <2>4, <2>5
<1>8. CASE ManagedLdapCommit
  <2>1. sess' = sess /\ db' = sess' /\ sshkeys' = keysess /\ keysess' = keysess
    BY <1>8 DEF ManagedLdapCommit, LdapCommit, Commit
  <2> QED BY <1>2, <1>3, <1>4, <2>1
<1>9. CASE ManagedFault
  <2>1. sess' = db /\ db' = db /\ sshkeys' = sshkeys /\ keysess' = sshkeys
    BY <1>9, FaultTold DEF ManagedFault
  <2> QED BY <1>2, <1>3, <1>4, <2>1
<1> QED BY <1>5, <1>6, <1>7, <1>8, <1>9

LEMMA ViewCommand ==
    ASSUME TypeOK, TableOK, KnownInv, ViewInv, NEW u \in Cached, NEW row, NEW keys,
           Command(u, row, keys), Effect(u, row, keys)
    PROVE  /\ ViewInv'
           /\ \A w \in User \ declared' : /\ cache'[w].known = cache[w].known
                                          /\ cache'[w].is_deactivated = cache[w].is_deactivated
<1>1. /\ sess = db /\ sess' = db' /\ sshkeys' = keys /\ keysess' = keys
      /\ db' = cache' \/ db' = Related(db)
      /\ \A w \in User : cache'[w] = IF w = u THEN row ELSE cache[w]
  BY DEF Command, TableOK
<1>2. u \in User /\ cache[u].known
  BY DEF Cached
<1> SUFFICES ASSUME NEW w \in User \ declared'
             PROVE  /\ SameView(w)' /\ cache'[w].sshkey = View(sshkeys', w)
                    /\ sess'[w].sshkey = db'[w].sshkey
                    /\ sess'[w].sshkey = View(keysess', w)
                    /\ cache'[w].known = cache[w].known
                    /\ cache'[w].is_deactivated = cache[w].is_deactivated
  BY <1>1 DEF ViewInv, SameView
<1>3. w \in User \ declared
  BY DEF Effect
<1>4. SameView(w) /\ cache[w].sshkey = View(sshkeys, w)
  BY <1>3 DEF ViewInv
<1>5. /\ cache'[w].known <=> cache[w].known
      /\ cache'[w].is_deactivated = cache[w].is_deactivated
      /\ cache'[w].sshkey = View(keys, w)
  <2>1. CASE w = u
    <3>1. row.known /\ row.is_deactivated = cache[u].is_deactivated
          /\ row.sshkey = View(keys, u)
      BY <1>4, <2>1 DEF Effect
    <3> QED BY <1>1, <1>2, <2>1, <3>1
  <2>2. CASE w # u
    <3>1. \A k \in Key : keys[<<k, w, TRUE>>] = sshkeys[<<k, w, TRUE>>]
      BY <2>2 DEF Effect
    <3>2. View(keys, w) = View(sshkeys, w)
      BY <3>1 DEF View
    <3> QED BY <1>1, <1>4, <2>2, <3>2
  <2> QED BY <2>1, <2>2
<1>6. cache'[w].known = cache[w].known
  BY <1>5, CommandTypes DEF TableOK, Row
<1>7. SameView(w)'
  <2>1. CASE db' = cache'
    BY <2>1 DEF SameView
  <2>2. CASE db' = Related(db)
    <3>1. /\ db'[w].sshkey = cache'[w].sshkey
          /\ db'[w].is_deactivated = db[w].is_deactivated /\ SameSync(db[w], db'[w])
      BY <2>2, RelatedRow
    <3> QED BY <1>4, <1>5, <1>6, <3>1 DEF SameView, SameSync
  <2> QED BY <1>1, <2>1, <2>2
<1>8. db'[w].sshkey = cache'[w].sshkey
  BY <1>7 DEF SameView
<1> QED BY <1>1, <1>5, <1>6, <1>7, <1>8

LEMMA ViewStep ==
    ASSUME TypeOK, TypeOK', TableOK, TableOK', CycleInv, ViewInv, [ManagedNext]_allvars
    PROVE  ViewInv'
<1> USE DEF CycleInv
<1>1. CASE UNCHANGED allvars
  BY <1>1 DEF allvars, vars, mvars, ViewInv, SameView
<1>2. CASE TaskStep \/ ManagedSync \/ ManagedKeys \/ ManagedLdapCommit \/ ManagedFault
  BY <1>2, ViewFollows
<1>3. CASE Load
  <2>1. /\ db' = cache /\ sess' = cache /\ pc' = pc /\ keysess = sshkeys
        /\ UNCHANGED <<cache, sshkeys, keysess, declared>>
    BY <1>3 DEF Load, LoadInv, mvars
  <2> QED BY <2>1 DEF ViewInv, SameView
<1>4. CASE ManagedApiChange
  <2>1. UNCHANGED <<db, sess, cache, sshkeys, keysess, declared, pc>>
    BY <1>4 DEF ManagedApiChange, ApiChange, mvars
  <2> QED BY <2>1 DEF ViewInv, SameView
<1>5. CASE Leaves
  <2>1. /\ Follows /\ db' = db /\ sess' = db /\ keysess' = sshkeys /\ sshkeys' = sshkeys
        /\ declared' = declared
    BY <1>5 DEF Leaves, Abandon, Follows
  <2>2. \A u \in User \ declared : SameView(u)'
    BY <2>1, ViewMerged DEF ViewInv
  <2>3. \A u \in User \ declared : cache'[u].sshkey = cache[u].sshkey
    BY <2>1, <2>2 DEF ViewInv, SameView
  <2> QED BY <2>1, <2>2, <2>3 DEF ViewInv, SameView
<1> QED BY <1>1, <1>2, <1>3, <1>4, <1>5, StepKinds, CommandEffect, ViewCommand

LEMMA ViewAlways == ManagedSpec => []ViewInv
<1>1. ManagedInit => ViewInv
  <2> SUFFICES ASSUME ManagedInit, NEW u \in User
               PROVE  /\ SameView(u) /\ cache[u].sshkey = View(sshkeys, u)
                      /\ sess[u].sshkey = View(keysess, u) /\ sess[u].sshkey = db[u].sshkey
    BY DEF ViewInv
  <2>1. /\ db[u] = BlankRow /\ sess = db /\ cache = db /\ keysess = sshkeys
        /\ sshkeys = [x \in Key \X User \X BOOLEAN |-> 0]
    BY DEF ManagedInit, Init
  <2>2. \A k \in Key : ~(sshkeys[<<k, u, TRUE>>] > 0)
    <3>1. \A k \in Key : <<k, u, TRUE>> \in Key \X User \X BOOLEAN
      OBVIOUS
    <3>2. \A k \in Key : sshkeys[<<k, u, TRUE>>] = 0
      BY <2>1, <3>1
    <3>3. ~(0 > 0)
      OBVIOUS
    <3> QED BY <3>2, <3>3
  <2>3. View(sshkeys, u) = {}
    BY <2>2 DEF View
  <2>4. BlankRow.sshkey = {}
    BY DEF BlankRow
  <2> QED BY <2>1, <2>3, <2>4 DEF SameView
<1>2. TypeOK /\ TypeOK' /\ TableOK /\ TableOK' /\ CycleInv /\ ViewInv /\ [ManagedNext]_allvars
        => ViewInv'
  BY ViewStep
<1> QED BY <1>1, <1>2, CycleAlways, PTL DEF ManagedSpec

\* Whatever the operator and the tasks write over each other, the cache holds
\* rows of the table's columns; and the relation of a user's keys, which
\* ldapupdate compares with the API's list (ldapupdate 305-337), is what the
\* sshkeys table says, unless the operator has overruled the user's row.
THEOREM ManagedTypeCorrect == ManagedSpec => []ManagedTypeOK
<1>1. TypeOK /\ TableOK /\ ViewInv => ManagedTypeOK
  <2> SUFFICES ASSUME TypeOK, TableOK, ViewInv PROVE ManagedTypeOK
    OBVIOUS
  <2>1. commands \in Nat /\ commands <= MaxCommands /\ MaxCommands \in Nat
    BY ManagedAssumption DEF TableOK
  <2>2. 0..1 + commands \subseteq 0..1 + MaxCommands
    BY <2>1
  <2>3. sshkeys \in KeyRows /\ keysess \in KeyRows
    BY <2>2 DEF TableOK, KeyCounts, KeyRows
  <2>4. \A u \in User \ declared : cache[u].sshkey = {k \in Key : sshkeys[k, u, TRUE] > 0}
    BY Zenon DEF ViewInv, View
  <2> QED BY <2>3, <2>4 DEF TableOK, ManagedTypeOK
<1> QED BY <1>1, CycleAlways, ViewAlways, PTL

-----------------------------------------------------------------------------
(* AccountMailedOnce *)

\* A commit of the daemon writes the flags it has changed and no others
\* (emailsend 89-97): none takes back that the account mail was sent, not over
\* a row that the operator has changed since it was loaded either.
THEOREM AccountsMailedOnce == ManagedSpec => AccountMailedOnce
<1>1. TypeOK /\ TypeOK' /\ TableOK /\ CycleInv /\ [ManagedNext]_allvars =>
        (commands' = commands => \A u \in User :
           cache[u].mail_is_opensend /\ cache'[u].known => cache'[u].mail_is_opensend)
  <2> SUFFICES ASSUME TypeOK, TypeOK', TableOK, CycleInv, [ManagedNext]_allvars,
                      commands' = commands, NEW u \in User, cache[u].mail_is_opensend
               PROVE  cache'[u].mail_is_opensend
    OBVIOUS
  <2>1. ASSUME Follows, Keeps(db[u], db'[u]) PROVE cache'[u].mail_is_opensend
    <3>1. Merges(db[u], db'[u], cache[u], cache'[u])
      BY <2>1, MergedFields DEF Follows, TypeOK
    <3>2. db[u].mail_is_opensend \in BOOLEAN /\ db'[u].mail_is_opensend \in BOOLEAN
      BY DEF TypeOK, Row
    <3> QED BY <2>1, <3>1, <3>2 DEF Merges, Keeps
  <2>2. CASE TaskStep \/ ManagedSync \/ ManagedKeys \/ ManagedLdapCommit \/ ManagedFault
    <3>1. Keeps(db[u], db'[u])
      BY <2>2, FollowingSteps, KeptRows DEF CycleInv, KnownInv, MailInv, Keeps
    <3> QED BY <2>1, <2>2, <3>1, FollowingSteps
  <2>3. CASE Leaves
    BY <2>1, <2>3 DEF Leaves, Keeps
  <2>4. CASE Load \/ ManagedApiChange \/ UNCHANGED allvars
    BY <2>4 DEF Load, ManagedApiChange, mvars, allvars
  <2>5. ASSUME NEW w \in Cached, NEW row, NEW keys, Command(w, row, keys) PROVE FALSE
    BY <2>5, ManagedAssumption DEF Command, TableOK
  <2> QED BY <2>2, <2>3, <2>4, <2>5, StepKinds, CommandEffect
<1> QED BY <1>1, CycleAlways, PTL DEF ManagedSpec, AccountMailedOnce

-----------------------------------------------------------------------------
(* KeyLookupsSucceed: a key that any row mentions has one row of sshkeys,  *)
(* and no key has two, as long as the operator has not meddled with them.  *)

Mentioned(r) == r.sshkeys_api \cup r.sshkey

KeysInv == ~meddled => \A u \in User, k \in Key :
    /\ RowsOf(sshkeys, k, u) = RowsOf(keysess, k, u)
    /\ RowsOf(sshkeys, k, u) <= 1
    /\ k \in Mentioned(cache[u]) \cup Mentioned(db[u]) \cup Mentioned(sess[u])
          => RowsOf(sshkeys, k, u) = 1

\* A merge mentions no key that neither side does.
LEMMA MergeMentions ==
    ASSUME TypeOK, TypeOK', TableOK, Follows, NEW u \in User
    PROVE  Mentioned(cache'[u]) \subseteq Mentioned(cache[u]) \cup Mentioned(db'[u])
<1>1. Merges(db[u], db'[u], cache[u], cache'[u])
  BY MergedFields DEF Follows, TypeOK
<1> QED BY <1>1 DEF Merges, Mentioned

LEMMA KeysKept ==
    ASSUME TypeOK, TypeOK', TableOK, Follows, KeysInv, ~meddled,
           \A u \in User, k \in Key :
               /\ RowsOf(sshkeys', k, u) = RowsOf(sshkeys, k, u)
               /\ RowsOf(keysess', k, u) = RowsOf(sshkeys, k, u),
           db' = db \/ db' = sess',
           \A u \in User : Mentioned(sess'[u]) \subseteq Mentioned(sess[u]) \cup Mentioned(db[u])
    PROVE  KeysInv'
<1>1. ASSUME NEW u \in User
      PROVE  Mentioned(cache'[u]) \cup Mentioned(db'[u]) \cup Mentioned(sess'[u])
                \subseteq Mentioned(cache[u]) \cup Mentioned(db[u]) \cup Mentioned(sess[u])
  BY MergeMentions
<1> HIDE DEF Mentioned
<1>2. ASSUME NEW u \in User, NEW k \in Key
      PROVE  /\ RowsOf(sshkeys', k, u) = RowsOf(keysess', k, u)
             /\ RowsOf(sshkeys', k, u) <= 1
             /\ k \in Mentioned(cache'[u]) \cup Mentioned(db'[u]) \cup Mentioned(sess'[u])
                  => RowsOf(sshkeys', k, u) = 1
  <2>1. k \in Mentioned(cache'[u]) \cup Mentioned(db'[u]) \cup Mentioned(sess'[u])
           => k \in Mentioned(cache[u]) \cup Mentioned(db[u]) \cup Mentioned(sess[u])
    BY <1>1
  <2> QED BY <2>1 DEF KeysInv
<1> QED BY <1>2 DEF KeysInv, RowsOf, Mentioned

LEMMA SyncKeys ==
    ASSUME TypeOK, TypeOK', TableOK, TableOK', KeysInv, ~meddled, ManagedSync
    PROVE  KeysInv'
<1>1. /\ Follows /\ KeyOnceInApi /\ sshkeys' = SyncedKeys /\ keysess' = SyncedKeys
      /\ db' = sess' /\ \A u \in User : sess'[u] = SyncedRow(u)
  BY DEF ManagedSync, SyncCache, Commit
<1>2. ASSUME NEW u \in User
      PROVE  Mentioned(cache'[u]) \cup Mentioned(db'[u]) \cup Mentioned(sess'[u])
                \subseteq Mentioned(cache[u]) \cup Mentioned(sess[u]) \cup ApiKeys(u)
  <2>1. Mentioned(SyncedRow(u)) \subseteq Mentioned(sess[u]) \cup ApiKeys(u)
    BY SyncedRowKept DEF Told, Mentioned
  <2> QED BY <1>1, <2>1, MergeMentions
<1>3. ASSUME NEW u \in User, NEW k \in Key
      PROVE  /\ RowsOf(SyncedKeys, k, u) <= 1
             /\ k \in Mentioned(cache'[u]) \cup Mentioned(db'[u]) \cup Mentioned(sess'[u])
                  => RowsOf(SyncedKeys, k, u) = 1
  <2>1. commands \in Nat
    BY ManagedAssumption DEF TableOK
  <2>2. /\ RowsOf(sshkeys, k, u) = sshkeys[<<k, u, TRUE>>] + sshkeys[<<k, u, FALSE>>]
        /\ sshkeys[<<k, u, TRUE>>] \in Nat /\ sshkeys[<<k, u, FALSE>>] \in Nat
    BY <2>1, CountTypes DEF TableOK
  <2>3. RowsOf(SyncedKeys, k, u) = SyncedKeys[<<k, u, TRUE>>] + SyncedKeys[<<k, u, FALSE>>]
    BY <2>1, SyncedKeysRows, CountTypes
  <2>4. /\ SyncedKeys[<<k, u, TRUE>>] = sshkeys[<<k, u, TRUE>>]
        /\ SyncedKeys[<<k, u, FALSE>>] =
              IF k \in ApiKeys(u) /\ RowsOf(sshkeys, k, u) = 0
              THEN 1 ELSE sshkeys[<<k, u, FALSE>>]
    BY SyncedKeysRows
  <2>5. RowsOf(SyncedKeys, k, u) = IF k \in ApiKeys(u) /\ RowsOf(sshkeys, k, u) = 0
                                   THEN 1 ELSE RowsOf(sshkeys, k, u)
    <3> DEFINE a == sshkeys[<<k, u, TRUE>>]
               b == sshkeys[<<k, u, FALSE>>]
               n == RowsOf(sshkeys, k, u)
    <3> HIDE DEF a, b, n
    <3>1. n = a + b /\ a \in Nat /\ b \in Nat
      BY <2>2 DEF a, b, n
    <3>2. RowsOf(SyncedKeys, k, u) = a + IF k \in ApiKeys(u) /\ n = 0 THEN 1 ELSE b
      BY <2>3, <2>4 DEF a, b, n
    <3>3. RowsOf(SyncedKeys, k, u) = IF k \in ApiKeys(u) /\ n = 0 THEN 1 ELSE n
      BY <3>1, <3>2
    <3> QED BY <3>3 DEF n
  <2>6. RowsOf(sshkeys, k, u) <= 1 /\ RowsOf(sshkeys, k, u) \in Nat
    BY <2>2 DEF KeysInv
  <2>7. k \in Mentioned(cache[u]) \cup Mentioned(sess[u]) => RowsOf(sshkeys, k, u) = 1
    BY DEF KeysInv
  <2>8. \/ ~(k \in Mentioned(cache'[u]) \cup Mentioned(db'[u]) \cup Mentioned(sess'[u]))
        \/ k \in Mentioned(cache[u]) \cup Mentioned(sess[u]) \/ k \in ApiKeys(u)
    BY <1>2
  <2> HIDE DEF Mentioned, RowsOf
  <2> DEFINE n == RowsOf(sshkeys, k, u)
             m == RowsOf(SyncedKeys, k, u)
  <2> HIDE DEF n, m
  <2>9. m = (IF k \in ApiKeys(u) /\ n = 0 THEN 1 ELSE n) /\ n <= 1 /\ n \in Nat
    BY <2>5, <2>6 DEF n, m
  <2>10. m <= 1 /\ (k \in ApiKeys(u) => m = 1) /\ (n = 1 => m = 1)
    BY <2>9
  <2> QED BY <2>7, <2>8, <2>10 DEF n, m
<1> QED BY <1>1, <1>3 DEF KeysInv, RowsOf, Mentioned

LEMMA KeysFollows ==
    ASSUME TypeOK, TypeOK', TableOK, TableOK', StageInv, KeysInv, ~meddled,
           TaskStep \/ ManagedKeys \/ ManagedLdapCommit \/ ManagedFault
    PROVE  KeysInv'
<1>1. Follows
  BY FollowingSteps
<1>2. \A u \in User, k \in Key : RowsOf(sshkeys, k, u) = RowsOf(keysess, k, u)
  BY DEF KeysInv
<1>3. CASE TaskStep
  <2>1. \A u \in User : Mentioned(sess'[u]) = Mentioned(sess[u])
    BY <1>3, TaskTold DEF SameSync, Mentioned
  <2> QED BY <1>1, <1>2, <1>3, <2>1, TaskTold, KeysKept DEF TaskStep
<1>4. CASE ManagedKeys
  <2>1. UpdateKeys /\ KeysFound /\ sshkeys' = sshkeys /\ keysess' = OwnedKeys
    BY <1>4 DEF ManagedKeys
  <2>2. \A u \in User : Mentioned(sess'[u]) \subseteq Mentioned(sess[u])
    <3>1. Mentioned(sess'[cur]) \subseteq Mentioned(sess[cur])
      BY <2>1, KeysTold DEF SameSync, Mentioned
    <3>2. \A u \in User \ {cur} : sess'[u] = sess[u]
      BY <2>1, KeysTold
    <3> QED BY <3>1, <3>2
  <2>3. ASSUME NEW u \in User, NEW k \in Key
        PROVE  RowsOf(OwnedKeys, k, u) = RowsOf(keysess, k, u)
    <3>1. cur \in User /\ commands \in Nat
      BY <2>1, KeysTold, ManagedAssumption DEF TableOK
    <3>2. OwnedKeys \in KeyCounts(commands)
      BY <3>1, OwnedKeysRows
    <3>3. /\ RowsOf(OwnedKeys, k, u) = OwnedKeys[<<k, u, TRUE>>] + OwnedKeys[<<k, u, FALSE>>]
          /\ RowsOf(keysess, k, u) = keysess[<<k, u, TRUE>>] + keysess[<<k, u, FALSE>>]
      BY <3>1, <3>2, CountTypes DEF TableOK
    <3>4. CASE u = cur /\ k \in KeysAdded(sess[cur]) \cup KeysRemoved(sess[cur])
      <4>1. RowsOf(keysess, k, u) = 1
        BY <2>1, <3>4 DEF KeysFound
      <4>2. /\ OwnedKeys[<<k, u, TRUE>>] = (IF k \in KeysAdded(sess[cur]) THEN 1 ELSE 0)
            /\ OwnedKeys[<<k, u, FALSE>>] = (IF k \in KeysAdded(sess[cur]) THEN 0 ELSE 1)
        BY <3>1, <3>4, OwnedKeysRows
      <4> QED BY <3>3, <4>1, <4>2
    <3>5. CASE ~(u = cur /\ k \in KeysAdded(sess[cur]) \cup KeysRemoved(sess[cur]))
      <4>1. /\ OwnedKeys[<<k, u, TRUE>>] = keysess[<<k, u, TRUE>>]
            /\ OwnedKeys[<<k, u, FALSE>>] = keysess[<<k, u, FALSE>>]
        BY <3>1, <3>5, OwnedKeysRows
      <4> QED BY <3>3, <4>1
    <3> QED BY <3>4, <3>5
  <2>4. db' = db
    BY <2>1, KeysTold
  <2> QED BY <1>1, <1>2, <2>1, <2>2, <2>3, <2>4, KeysKept
<1>5. CASE ManagedLdapCommit
  <2>1. sess' = sess /\ db' = sess' /\ sshkeys' = keysess /\ keysess' = keysess
    BY <1>5 DEF ManagedLdapCommit, LdapCommit, Commit
  <2> QED BY <1>1, <1>2, <2>1, KeysKept
<1>6. CASE ManagedFault
  <2>1. sess' = db /\ db' = db /\ sshkeys' = sshkeys /\ keysess' = sshkeys
    BY <1>6, FaultTold DEF ManagedFault
  <2> QED BY <1>1, <2>1, KeysKept
<1> QED BY <1>3, <1>4, <1>5, <1>6

LEMMA KeysCommand ==
    ASSUME TypeOK, TableOK, KeysInv, ~meddled', NEW u \in Cached, NEW row, NEW keys,
           Command(u, row, keys), Effect(u, row, keys)
    PROVE  KeysInv'
<1>1. /\ sess = db /\ sess' = db' /\ sshkeys' = keys /\ keysess' = keys
      /\ \/ behind' = FALSE /\ db' = cache'
         \/ behind' = TRUE /\ db' = Related(db)
      /\ \A w \in User : cache'[w] = IF w = u THEN row ELSE cache[w]
  BY DEF Command, TableOK
<1>2. ~meddled
  BY DEF Effect
<1>3. \A w \in User : Mentioned(cache'[w]) \subseteq Mentioned(cache[w])
  BY <1>1 DEF Effect, Mentioned
<1>4. \A w \in User : Mentioned(db'[w]) \subseteq Mentioned(cache'[w]) \cup Mentioned(db[w])
  <2>1. CASE db' = cache'
    BY <2>1
  <2>2. CASE db' = Related(db)
    BY <2>2, RelatedRow DEF SameSync, Mentioned
  <2> QED BY <1>1, <2>1, <2>2
<1>5. ASSUME NEW w \in User, NEW k \in Key
      PROVE  /\ RowsOf(keys, k, w) <= 1
             /\ k \in Mentioned(cache'[w]) \cup Mentioned(db'[w]) \cup Mentioned(sess'[w])
                  => RowsOf(keys, k, w) = 1
  <2>1. RowsOf(sshkeys, k, w) <= 1
        /\ (k \in Mentioned(cache[w]) \cup Mentioned(db[w]) => RowsOf(sshkeys, k, w) = 1)
    BY <1>2 DEF KeysInv
  <2>2. CASE RowsOf(keys, k, w) = RowsOf(sshkeys, k, w)
    <3>1. k \in Mentioned(cache'[w]) \cup Mentioned(db'[w]) \cup Mentioned(sess'[w])
             => k \in Mentioned(cache[w]) \cup Mentioned(db[w])
      BY <1>1, <1>3, <1>4
    <3> QED BY <2>1, <2>2, <3>1
  <2>3. CASE /\ w = u /\ row = BlankRow /\ ~behind'
             /\ RowsOf(keys, k, w) <= RowsOf(sshkeys, k, w)
    <3>1. Mentioned(BlankRow) = {}
      BY DEF Mentioned, BlankRow
    <3>2. cache'[w] = BlankRow /\ db'[w] = BlankRow /\ sess'[w] = BlankRow
      BY <1>1, <2>3
    <3>3. RowsOf(keys, k, w) \in Nat /\ RowsOf(sshkeys, k, w) \in Nat
      <4>1. commands \in Nat /\ commands + 1 \in Nat
        BY ManagedAssumption DEF TableOK
      <4>2. keys \in KeyCounts(commands + 1) /\ sshkeys \in KeyCounts(commands)
        BY DEF Effect, TableOK
      <4> QED BY <4>1, <4>2, CountTypes
    <3>4. RowsOf(keys, k, w) <= 1
      BY <2>1, <2>3, <3>3
    <3> QED BY <3>1, <3>2, <3>4
  <2> QED BY <2>2, <2>3 DEF Effect
<1> QED BY <1>1, <1>5 DEF KeysInv, RowsOf, Mentioned

LEMMA KeysStep ==
    ASSUME TypeOK, TypeOK', TableOK, TableOK', CycleInv, KeysInv, [ManagedNext]_allvars
    PROVE  KeysInv'
<1> USE DEF CycleInv
<1> SUFFICES ASSUME ~meddled' PROVE KeysInv'
  BY DEF KeysInv
<1>1. CASE UNCHANGED allvars
  BY <1>1 DEF allvars, vars, mvars, KeysInv, RowsOf, Mentioned
<1>2. CASE TaskStep \/ ManagedSync \/ ManagedKeys \/ ManagedLdapCommit \/ ManagedFault
  <2>1. ~meddled
    BY <1>2, FollowingSteps DEF Follows
  <2> QED BY <1>2, <2>1, KeysFollows, SyncKeys
<1>3. CASE Load
  <2>1. /\ db' = cache /\ sess' = cache /\ UNCHANGED <<cache, sshkeys, keysess, meddled>>
    BY <1>3 DEF Load, mvars
  <2> QED BY <2>1 DEF KeysInv, RowsOf, Mentioned
<1>4. CASE ManagedApiChange
  <2>1. UNCHANGED <<db, sess, cache, sshkeys, keysess, meddled>>
    BY <1>4 DEF ManagedApiChange, ApiChange, mvars
  <2> QED BY <2>1 DEF KeysInv, RowsOf, Mentioned
<1>5. CASE Leaves
  <2>1. /\ Follows /\ db' = db /\ sess' = db /\ keysess' = sshkeys /\ sshkeys' = sshkeys
        /\ ~meddled
    BY <1>5 DEF Leaves, Abandon, Follows
  <2> QED BY <2>1, KeysKept
<1> QED BY <1>1, <1>2, <1>3, <1>4, <1>5, StepKinds, CommandEffect, KeysCommand

LEMMA KeysAlways == ManagedSpec => []KeysInv
<1>1. ManagedInit => KeysInv
  <2> SUFFICES ASSUME ManagedInit, NEW u \in User, NEW k \in Key
               PROVE  /\ RowsOf(sshkeys, k, u) = RowsOf(keysess, k, u)
                      /\ RowsOf(sshkeys, k, u) <= 1
                      /\ k \notin Mentioned(cache[u]) \cup Mentioned(db[u]) \cup Mentioned(sess[u])
    BY DEF KeysInv
  <2>1. /\ db[u] = BlankRow /\ sess = db /\ cache = db /\ keysess = sshkeys
        /\ sshkeys = [x \in Key \X User \X BOOLEAN |-> 0]
    BY DEF ManagedInit, Init
  <2>2. sshkeys \in KeyCounts(0)
    BY <2>1 DEF KeyCounts
  <2>3. RowsOf(sshkeys, k, u) = sshkeys[<<k, u, TRUE>>] + sshkeys[<<k, u, FALSE>>]
    BY <2>2, CountTypes
  <2>4. sshkeys[<<k, u, TRUE>>] = 0 /\ sshkeys[<<k, u, FALSE>>] = 0
    <3>1. \A b \in BOOLEAN : <<k, u, b>> \in Key \X User \X BOOLEAN
      OBVIOUS
    <3> QED BY <2>1, <3>1
  <2>5. RowsOf(sshkeys, k, u) <= 1
    BY <2>3, <2>4
  <2>6. Mentioned(BlankRow) = {}
    BY DEF Mentioned, BlankRow
  <2> QED BY <2>1, <2>5, <2>6
<1>2. TypeOK /\ TypeOK' /\ TableOK /\ TableOK' /\ CycleInv /\ KeysInv /\ [ManagedNext]_allvars
        => KeysInv'
  BY KeysStep
<1> QED BY <1>1, <1>2, CycleAlways, PTL DEF ManagedSpec

\* While no lookup can fail: the key is mentioned, so it has its row.
LEMMA LookupsFound ==
    ASSUME TypeOK, KeysInv, ~meddled PROVE ~KeyLookupFails
<1>1. ASSUME pc = "keys" PROVE KeysFound
  <2>1. cur \in User
    BY <1>1, CurrentTypes
  <2>2. KeysAdded(sess[cur]) \cup KeysRemoved(sess[cur]) \subseteq Mentioned(sess[cur])
    BY DEF KeysAdded, KeysRemoved, Mentioned
  <2>3. Mentioned(sess[cur]) \subseteq Key
    BY <2>1 DEF Mentioned, TypeOK, Row
  <2>4. \A k \in Mentioned(sess[cur]) : RowsOf(keysess, k, cur) = 1
    BY <2>1, <2>3 DEF KeysInv
  <2> QED BY <2>2, <2>4 DEF KeysFound
<1>2. KeyOnceInApi
  <2>1. \A u \in User : ApiKeys(u) \subseteq Key
    BY ApiKeysType
  <2> QED BY <2>1 DEF KeysInv, KeyOnceInApi
<1> QED BY <1>1, <1>2 DEF KeyLookupFails

\* The daemon finds the one row of a key that it asks the sshkeys table for,
\* and so is not ended by its own lookups (apisync 107-124, ldapupdate 270-325),
\* whatever it and the operator do to the users, in any order, as long as the
\* operator neither adds rows of keys nor deletes such that are unrelated.
THEOREM KeyLookupsFound == ManagedSpec => KeyLookupsSucceed
<1>1. TypeOK /\ KeysInv /\ [ManagedNext]_allvars => (KeyLookupFails => meddled)
  BY LookupsFound
<1> QED BY <1>1, CycleAlways, KeysAlways, PTL DEF ManagedSpec, KeyLookupsSucceed

-----------------------------------------------------------------------------
(* The cache remembers what LDAP was told, and a user whom ldapupdate is   *)
(* through with has an entry and a mark that goes with the status.         *)

Remembered(u) ==
    IF ldap[u].exists
    THEN /\ sess[u].known /\ ldap[u].keys = sess[u].sshkey
         /\ ldap[u].shell = (IF sess[u].is_deactivated THEN "nologin" ELSE "bash")
    ELSE ~sess[u].is_deactivated

MemInv == ~meddled => \A u \in User \ declared : Remembered(u)

DoneInv == \A u \in User :
    /\ Passed(u, {"sync", "active", "keys"}) /\ sess[u].known => ldap[u].exists
    /\ Passed(u, {"keys"}) => Marked(sess[u])

LEMMA EntriesManaged ==
    ASSUME TypeOK, TableOK, CurrentHasEntry, [ManagedNext]_allvars
    PROVE  EntriesStay /\ CurrentHasEntry'
<1>1. CASE \/ TaskStep \/ ManagedSync \/ ManagedKeys \/ ManagedLdapCommit
           \/ ManagedFault \/ ManagedApiChange \/ UNCHANGED allvars
  <2>1. [Next]_vars
    BY <1>1, FollowingSteps DEF ManagedApiChange, Next, Environment, allvars
  <2> QED BY <2>1, EntryStep DEF EntriesStay, CurrentHasEntry
<1>2. CASE UNCHANGED <<ldap, pc, cur>>
  BY <1>2 DEF EntriesStay, CurrentHasEntry
<1>3. CASE Leaves
  BY <1>3 DEF Leaves, Abandon, EntriesStay, CurrentHasEntry
<1>4. Load \/ (\E u \in Cached : \E row, keys : Command(u, row, keys))
         => UNCHANGED <<ldap, pc, cur>>
  BY DEF Load, Command
<1> QED BY <1>1, <1>2, <1>3, <1>4, StepKinds, CommandEffect

LEMMA RememberedKept ==
    ASSUME NEW u \in User, Remembered(u), Told(sess[u], sess'[u]),
           sess[u].known => sess'[u].known,
           ldap'[u].exists = ldap[u].exists, ldap'[u].keys = ldap[u].keys,
           ldap'[u].shell = ldap[u].shell
    PROVE  Remembered(u)'
BY DEF Remembered, Told

LEMMA RememberedTask ==
    ASSUME TypeOK, StageInv, KnownInv, CurrentHasEntry, TaskStep,
           NEW u \in User, Remembered(u)
    PROVE  Remembered(u)'
<1>1. SameSync(sess[u], sess'[u]) /\ (UpdateActive \/ Told(sess[u], sess'[u]))
  BY TaskTold
<1>2. sess[u] \in Row /\ ldap[u] \in Entry
  BY DEF TypeOK
<1>3. ASSUME NEW w \in User, OpenUser(w) PROVE Remembered(u)'
  <2>1. /\ sess' = sess /\ sess[w].known
        /\ ldap' = IF ldap[w].exists THEN ldap ELSE [ldap EXCEPT ![w] = NewEntry(sess[w])]
    BY <1>3 DEF OpenUser, KnownInv, LdapPc
  <2>2. CASE ldap'[u] = ldap[u]
    BY <2>1, <2>2 DEF Remembered
  <2>3. CASE u = w /\ ~ldap[u].exists /\ ldap'[u] = NewEntry(sess[u])
    <3>1. /\ ldap'[u].exists /\ ldap'[u].keys = sess[u].sshkey /\ ldap'[u].shell = "bash"
      BY <2>3 DEF NewEntry
    <3> QED BY <2>1, <2>3, <3>1 DEF Remembered
  <2>4. ldap'[u] = ldap[u] \/ (u = w /\ ~ldap[u].exists /\ ldap'[u] = NewEntry(sess[u]))
    BY <2>1 DEF TypeOK
  <2> QED BY <2>2, <2>3, <2>4
<1>4. CASE SyncUser
  <2>1. Told(sess[u], sess'[u])
    BY <1>1, <1>4 DEF SyncUser, UpdateActive
  <2>2. \/ ldap'[u] = ldap[u]
        \/ \E gid : ldap'[u] = [ldap[u] EXCEPT !.gid = gid]
    <3>1. PICK e : /\ ldap' = [ldap EXCEPT ![cur] = e]
                   /\ e = ldap[cur] \/ \E gid : e = [ldap[cur] EXCEPT !.gid = gid]
      BY <1>4 DEF SyncUser, LdapDone
    <3>2. ldap'[u] = IF u = cur THEN e ELSE ldap[u]
      BY <3>1 DEF TypeOK
    <3> QED BY <3>1, <3>2
  <2>3. /\ ldap'[u].exists = ldap[u].exists /\ ldap'[u].keys = ldap[u].keys
        /\ ldap'[u].shell = ldap[u].shell
    BY <1>2, <2>2 DEF Entry
  <2> QED BY <1>1, <2>1, <2>3, RememberedKept DEF SameSync
<1>5. CASE UpdateActive
  <2> DEFINE r == sess[u]
             e == ldap[u]
  <2>1. /\ u = cur => sess'[u] = ActiveRow(r) /\ ldap'[u] = ActiveEntry(r, e)
        /\ u # cur => sess'[u] = r /\ ldap'[u] = e
    BY <1>5 DEF UpdateActive, LdapDone, TypeOK
  <2>2. CASE u # cur
    BY <2>1, <2>2 DEF Remembered
  <2>3. CASE u = cur
    <3>1. e.exists /\ r.known /\ e.keys = r.sshkey
          /\ e.shell = (IF r.is_deactivated THEN "nologin" ELSE "bash")
      BY <1>5, <2>3 DEF UpdateActive, CurrentHasEntry, Remembered
    <3> DEFINE s == ActiveRow(r)
               f == ActiveEntry(r, e)
    <3>2. /\ s.known /\ s.sshkey = r.sshkey /\ f.exists /\ f.keys = e.keys
          /\ f.shell = (IF s.is_deactivated THEN "nologin" ELSE "bash")
      <4> HIDE DEF r, e
      <4>1. r \in Row /\ e \in Entry
        BY <1>2 DEF r, e
      <4>2. CASE Deactivates(r)
        BY <3>1, <4>1, <4>2 DEF ActiveRow, ActiveEntry, Row, Entry
      <4>3. CASE ~Deactivates(r) /\ Activates(r)
        BY <3>1, <4>1, <4>3 DEF ActiveRow, ActiveEntry, Row, Entry
      <4>4. CASE ~Deactivates(r) /\ ~Activates(r)
        BY <3>1, <4>1, <4>4 DEF ActiveRow, ActiveEntry, Row, Entry
      <4> QED BY <4>2, <4>3, <4>4
    <3> HIDE DEF s, f
    <3>3. sess'[u] = s /\ ldap'[u] = f
      BY <2>1, <2>3 DEF s, f
    <3> QED BY <3>1, <3>2, <3>3 DEF Remembered
  <2> QED BY <2>2, <2>3
<1>6. CASE UNCHANGED ldap /\ ~UpdateActive
  BY <1>1, <1>6, RememberedKept DEF SameSync
<1>7. ASSUME StartCycle \/ FetchSshkeys \/ FetchUserproject \/ SetMetadata \/ UpdateGroups
      PROVE  UNCHANGED ldap /\ ~UpdateActive
  BY <1>7 DEF StartCycle, FetchSshkeys, FetchUserproject, SetMetadata, UpdateGroups,
     UpdateActive
<1>8. ASSUME EmailSend PROVE UNCHANGED ldap /\ ~UpdateActive
  BY <1>8 DEF EmailSend, EmailActivate, EmailDeactivate, EmailAccount, Round, EmailKey,
     MailCommit, UpdateActive
<1> QED BY <1>3, <1>4, <1>5, <1>6, <1>7, <1>8 DEF TaskStep

LEMMA RememberedKeys ==
    ASSUME TypeOK, CurrentHasEntry, UpdateKeys, NEW u \in User, Remembered(u)
    PROVE  Remembered(u)'
<1>1. /\ cur \in User /\ pc = "keys"
      /\ sess'[cur].sshkey = sess[cur].sshkeys_api
      /\ sess'[cur].is_deactivated = sess[cur].is_deactivated
      /\ sess'[cur].known = sess[cur].known
      /\ \A w \in User \ {cur} : sess'[w] = sess[w]
  BY KeysTold DEF SameSync
<1>2. ldap[cur].exists /\ ldap[cur] \in Entry
  BY <1>1 DEF CurrentHasEntry, TypeOK
<1>3. ldap' = IF KeysDiffer(sess[cur])
              THEN [ldap EXCEPT ![cur].keys = sess[cur].sshkeys_api] ELSE ldap
  BY DEF UpdateKeys
<1>4. CASE u # cur
  <2>1. ldap'[u] = ldap[u]
    BY <1>3, <1>4 DEF TypeOK
  <2> QED BY <1>1, <1>4, <2>1 DEF Remembered
<1>5. CASE u = cur
  <2>1. Remembered(cur)
    BY <1>5
  <2>2. ldap'[cur].exists /\ ldap'[cur].shell = ldap[cur].shell
    BY <1>1, <1>2, <1>3 DEF TypeOK, Entry
  <2>3. ldap'[cur].keys = sess[cur].sshkeys_api
    <3>1. CASE KeysDiffer(sess[cur])
      BY <1>1, <1>2, <1>3, <3>1 DEF TypeOK, Entry
    <3>2. CASE ~KeysDiffer(sess[cur])
      <4>1. sess[cur].sshkeys_api = sess[cur].sshkey
        BY <3>2 DEF KeysDiffer, KeysAdded, KeysRemoved
      <4> QED BY <1>2, <1>3, <2>1, <3>2, <4>1 DEF Remembered
    <3> QED BY <3>1, <3>2
  <2> QED BY <1>1, <1>2, <1>5, <2>1, <2>2, <2>3 DEF Remembered
<1> QED BY <1>4, <1>5

\* A task whose commit finds a row deleted has lost what it noted.
LEMMA StaleOverruled ==
    ASSUME KnownInv, StaleCommit PROVE declared = User \/ meddled
BY DEF StaleCommit, Stale, KnownInv

LEMMA RememberedStep ==
    ASSUME TypeOK, TypeOK', TableOK, TableOK', CycleInv, CurrentHasEntry, ViewInv, KeysInv,
           MemInv, [ManagedNext]_allvars
    PROVE  MemInv'
<1> USE DEF CycleInv
<1> SUFFICES ASSUME ~meddled', NEW u \in User \ declared' PROVE Remembered(u)'
  BY DEF MemInv, Remembered
<1>1. CASE UNCHANGED allvars
  BY <1>1 DEF allvars, vars, mvars, MemInv, Remembered
<1>2. CASE TaskStep \/ ManagedSync \/ ManagedKeys \/ ManagedLdapCommit \/ ManagedFault
  <2>1. Remembered(u)
    BY <1>2, FollowingSteps DEF Follows, MemInv
  <2>2. CASE TaskStep
    BY <2>1, <2>2, RememberedTask
  <2>3. CASE ManagedKeys
    BY <2>1, <2>3, RememberedKeys DEF ManagedKeys
  <2>4. CASE ManagedSync
    <3>1. sess'[u] = SyncedRow(u) /\ UNCHANGED ldap
      BY <2>4 DEF ManagedSync, SyncCache, Commit
    <3>2. Told(sess[u], sess'[u]) /\ (sess[u].known => sess'[u].known)
      BY <3>1, SyncedRowKept, SyncedRowMail DEF SameMail
    <3> QED BY <2>1, <3>1, <3>2, RememberedKept
  <2>5. CASE ManagedLdapCommit
    BY <2>1, <2>5 DEF ManagedLdapCommit, LdapCommit, Commit, Remembered
  <2>6. CASE ManagedFault
    BY <2>1, <2>6, FaultTold DEF Remembered
  <2> QED BY <1>2, <2>2, <2>3, <2>4, <2>5, <2>6
<1>3. CASE Load
  <2>1. /\ UNCHANGED <<ldap, declared, meddled>> /\ sess' = cache /\ sess = db
    BY <1>3 DEF Load, LoadInv, mvars
  <2>2. SameView(u) /\ Remembered(u)
    BY <2>1 DEF ViewInv, MemInv
  <2> QED BY <2>1, <2>2 DEF SameView, Remembered
<1>4. CASE ManagedApiChange
  <2>1. UNCHANGED <<ldap, sess, declared, meddled>>
    BY <1>4 DEF ManagedApiChange, ApiChange, mvars
  <2> QED BY <2>1 DEF MemInv, Remembered
<1>5. ~(Leaves /\ (StaleCommit \/ KeyLookupFails))
  <2>1. Leaves => UNCHANGED <<declared, meddled>>
    BY DEF Leaves, Follows
  <2> QED BY <2>1, StaleOverruled, LookupsFound
<1>6. ASSUME NEW w \in Cached, NEW row, NEW keys, Command(w, row, keys), Effect(w, row, keys)
      PROVE  Remembered(u)'
  <2>1. /\ sess = db /\ sess' = db' /\ ldap' = ldap
        /\ \A v \in User : cache'[v] = IF v = w THEN row ELSE cache[v]
    BY <1>6 DEF Command, TableOK
  <2>2. u \in User \ declared /\ ~meddled
    BY <1>6 DEF Effect
  <2>3. SameView(u) /\ Remembered(u)
    BY <2>2 DEF ViewInv, MemInv
  <2>4. /\ SameView(u)' /\ cache'[u].known = cache[u].known
        /\ cache'[u].is_deactivated = cache[u].is_deactivated
    BY <1>6, ViewCommand DEF ViewInv
  <2>5. cache'[u].sshkey = cache[u].sshkey
    BY <1>6, <2>1 DEF Effect
  <2> QED BY <2>1, <2>3, <2>4, <2>5 DEF SameView, Remembered
<1> QED BY <1>1, <1>2, <1>3, <1>4, <1>5, <1>6, StepKinds, CommandEffect

-----------------------------------------------------------------------------
LEMMA NothingPassed ==
    ASSUME \/ quiet' = -1 \/ pc' = "usermetadata"
           \/ quiet' = 0 /\ pc' \in {"sleep", "down"}
    PROVE  DoneInv'
<1>1. \A u \in User : \A stages : ~Passed(u, stages)'
  BY DEF Passed, LatePc, MailPc, LdapPc
<1> QED BY <1>1 DEF DoneInv

LEMMA DoneKept ==
    ASSUME DoneInv, EntriesStay,
           NEW u \in User, SameSync(sess[u], sess'[u]), Told(sess[u], sess'[u]),
           \A stages : Passed(u, stages)' => Passed(u, stages)
    PROVE  /\ Passed(u, {"sync", "active", "keys"})' /\ sess'[u].known => ldap'[u].exists
           /\ Passed(u, {"keys"})' => Marked(sess'[u])
BY DEF DoneInv, EntriesStay, SameSync, Told, Marked

\* The stages of ldapupdate.
LEMMA DoneStage ==
    ASSUME TypeOK, StageInv, EntriesStay, CurrentHasEntry, DoneInv,
           TaskStep \/ ManagedKeys,
           (\E u \in User : OpenUser(u)) \/ SyncUser \/ UpdateActive \/ UpdateKeys
    PROVE  DoneInv'
<1>1. ASSUME NEW w \in User, OpenUser(w) PROVE DoneInv'
  <2>1. /\ pc = "user" /\ pc' = "sync" /\ cur' = w
        /\ UNCHANGED <<sess, todo, quiet>>
    BY <1>1 DEF OpenUser
  <2>2. ldap'[w].exists
    BY <2>1 DEF EntriesStay
  <2>3. \A u \in User : /\ Passed(u, {"keys"})' => Passed(u, {"keys"})
                        /\ Passed(u, {"sync", "active", "keys"})'
                               => u = w \/ Passed(u, {"sync", "active", "keys"})
    BY <2>1 DEF Passed, LatePc, MailPc, LdapPc
  <2> QED BY <2>1, <2>2, <2>3 DEF DoneInv, EntriesStay, Marked
<1>2. CASE SyncUser
  <2>1. /\ pc = "sync" /\ pc' = "active" /\ UNCHANGED <<todo, cur, quiet>>
    BY <1>2 DEF SyncUser, LdapDone
  <2>2. TaskStep
    BY <2>1 DEF ManagedKeys
  <2>3. \A u \in User : SameSync(sess[u], sess'[u]) /\ Told(sess[u], sess'[u])
    BY <2>1, <2>2, TaskTold DEF UpdateActive
  <2>4. \A u \in User : /\ Passed(u, {"keys"})' => Passed(u, {"keys"})
                        /\ Passed(u, {"sync", "active", "keys"})'
                               => Passed(u, {"sync", "active", "keys"})
    BY <2>1 DEF Passed, LatePc, MailPc, LdapPc
  <2> QED BY <2>3, <2>4 DEF DoneInv, EntriesStay, SameSync, Told, Marked
<1>3. CASE UpdateActive
  <2>1. /\ pc = "active" /\ pc' = "keys" /\ UNCHANGED <<todo, cur, quiet>>
    BY <1>3 DEF UpdateActive, LdapDone
  <2>2. TaskStep
    BY <2>1 DEF ManagedKeys
  <2>3. \A u \in User : SameSync(sess[u], sess'[u])
    BY <2>2, TaskTold
  <2>4. \A u \in User : sess'[u] = IF u = cur THEN ActiveRow(sess[u]) ELSE sess[u]
    BY <1>3 DEF UpdateActive, LdapDone, TypeOK
  <2>5. \A r \in Row : Marked(ActiveRow(r))
    BY DEF ActiveRow, Deactivates, Activates, Row, Marked
  <2>6. \A u \in User : u = cur => Marked(sess'[u])
    BY <2>4, <2>5 DEF TypeOK
  <2>7. \A u \in User : /\ Passed(u, {"keys"})' => u = cur \/ Passed(u, {"keys"})
                        /\ Passed(u, {"sync", "active", "keys"})'
                               => Passed(u, {"sync", "active", "keys"})
    BY <2>1 DEF Passed, LatePc, MailPc, LdapPc
  <2>8. ASSUME NEW u \in User, Passed(u, {"keys"})' PROVE Marked(sess'[u])
    BY <2>4, <2>6, <2>7, <2>8 DEF DoneInv
  <2>9. ASSUME NEW u \in User, Passed(u, {"sync", "active", "keys"})', sess'[u].known
        PROVE  ldap'[u].exists
    BY <2>3, <2>7, <2>9 DEF DoneInv, EntriesStay, SameSync
  <2> QED BY <2>8, <2>9 DEF DoneInv, Marked
<1>4. CASE UpdateKeys
  <2>1. /\ pc = "keys" /\ pc' = "user" /\ todo' = todo \ {cur} /\ UNCHANGED quiet
        /\ cur' = NoUser
    BY <1>4 DEF UpdateKeys, NextUser
  <2>2. \A u \in User : SameSync(sess[u], sess'[u])
                        /\ sess'[u].is_deactivated = sess[u].is_deactivated
    BY <1>4, KeysTold DEF SameSync
  <2>3. \A u \in User : /\ Passed(u, {"keys"})' => Passed(u, {"keys"})
                        /\ Passed(u, {"sync", "active", "keys"})'
                               => Passed(u, {"sync", "active", "keys"})
    BY <2>1 DEF Passed, LatePc, MailPc, LdapPc
  <2> QED BY <2>2, <2>3 DEF DoneInv, EntriesStay, SameSync, Marked
<1> QED BY <1>1, <1>2, <1>3, <1>4

LEMMA DoneStep ==
    ASSUME TypeOK, TypeOK', TableOK, TableOK', CycleInv, CycleInv', CurrentHasEntry, DoneInv,
           [ManagedNext]_allvars
    PROVE  DoneInv'
<1>1. EntriesStay
  BY EntriesManaged
<1>2. CASE Load \/ Leaves \/ \E u \in Cached : RunCommand(u)
  <2>1. Load \/ Leaves \/ (\E u \in Cached : \E row, keys : Command(u, row, keys))
    BY <1>2, CommandEffect
  <2>2. Restarted
    BY <2>1, Restarts DEF CycleInv
  <2> QED BY <2>2, NothingPassed DEF Restarted
<1>3. CASE ManagedApiChange
  BY <1>3, NothingPassed DEF ManagedApiChange, ApiChange
<1>4. CASE ManagedSync
  BY <1>4, NothingPassed DEF ManagedSync, SyncCache
<1>5. CASE ManagedFault
  BY <1>5, NothingPassed DEF ManagedFault, FetchError, Die, Abandon, Start, Disturbed
<1>6. CASE ManagedLdapCommit
  BY <1>1, <1>6 DEF ManagedLdapCommit, LdapCommit, Commit, EntriesStay, DoneInv, Passed,
     LatePc, MailPc, LdapPc
<1>7. CASE ManagedKeys
  BY <1>1, <1>7, DoneStage DEF ManagedKeys, CycleInv
<1>8. CASE TaskStep
  <2>1. CASE (\E u \in User : OpenUser(u)) \/ SyncUser \/ UpdateActive
    BY <1>1, <1>8, <2>1, DoneStage DEF CycleInv
  <2>2. CASE StartCycle \/ FetchSshkeys \/ FetchUserproject
    BY <2>2 DEF StartCycle, FetchSshkeys, FetchUserproject, DoneInv, Passed, LatePc,
       MailPc, LdapPc
  <2>3. CASE SetMetadata
    <3>1. pc' = "user" /\ todo' = {u \in User : sess'[u].known}
      BY <2>3 DEF SetMetadata, Commit
    <3>2. \A u \in User : \A stages : "user" \notin stages /\ Passed(u, stages)'
                                         => ~sess'[u].known
      BY <3>1 DEF Passed, LatePc, MailPc, LdapPc
    <3>3. \A u \in User : /\ Passed(u, {"keys"})' => ~sess'[u].known
                          /\ Passed(u, {"sync", "active", "keys"})' => ~sess'[u].known
      BY <3>2
    <3> QED BY <3>3 DEF DoneInv, Marked
  <2>4. ASSUME quiet' >= 0, UpdateGroups \/ EmailSend PROVE DoneInv'
    <3>1. ~UpdateActive
      BY <2>4 DEF UpdateActive, UpdateGroups, EmailSend, EmailActivate, EmailDeactivate,
         EmailAccount, Round, EmailKey, MailCommit
    <3>2. \A u \in User : SameSync(sess[u], sess'[u]) /\ Told(sess[u], sess'[u])
      BY <1>8, <3>1, TaskTold DEF CycleInv
    <3>3. \A u \in User : \A stages : Passed(u, stages)' => Passed(u, stages)
      <4>1. CASE UpdateGroups
        <5>1. quiet' = quiet /\ pc = "user" /\ pc' = "commit" /\ todo = {}
          BY <2>4, <4>1 DEF UpdateGroups
        <5> QED BY <5>1 DEF Passed, LatePc, MailPc, LdapPc
      <4>2. CASE EmailActivate \/ EmailDeactivate \/ EmailAccount \/ EmailKey
        <5>1. quiet' = quiet
          BY <2>4, <4>2, MailsUndisturbed
        <5>2. pc \in MailPc /\ pc' \in MailPc
          BY <4>2 DEF EmailActivate, EmailDeactivate, EmailAccount, Round, EmailKey, MailPc
        <5> QED BY <5>1, <5>2 DEF Passed, LatePc, MailPc, LdapPc
      <4>3. CASE MailCommit
        BY <4>3 DEF MailCommit, EndCycleQuiet, QuietMax, TypeOK, Passed, LatePc,
           MailPc, LdapPc
      <4> QED BY <2>4, <4>1, <4>2, <4>3 DEF EmailSend
    <3> QED BY <1>1, <3>2, <3>3 DEF DoneInv, EntriesStay, SameSync, Told, Marked
  <2>5. ASSUME ~(quiet' >= 0) PROVE DoneInv'
    <3>1. quiet' = -1
      BY <2>5 DEF TypeOK, QuietMax
    <3> QED BY <3>1, NothingPassed
  <2> QED BY <1>8, <2>1, <2>2, <2>3, <2>4, <2>5 DEF TaskStep
<1>9. CASE UNCHANGED allvars
  BY <1>9 DEF allvars, vars, DoneInv, Passed, Marked
<1> QED BY <1>2, <1>3, <1>4, <1>5, <1>6, <1>7, <1>8, <1>9, StepKinds

EndInv == CurrentHasEntry /\ MemInv /\ DoneInv

LEMMA EndAlways == ManagedSpec => []EndInv
<1>1. ManagedInit => EndInv
  <2>1. ManagedInit => CurrentHasEntry
    BY DEF ManagedInit, Init, CurrentHasEntry
  <2>2. ManagedInit => MemInv
    BY DEF ManagedInit, Init, MemInv, Remembered, NoEntry, BlankRow
  <2>3. ManagedInit => DoneInv
    BY DEF ManagedInit, Init, DoneInv, Passed, LatePc, MailPc, LdapPc
  <2> QED BY <2>1, <2>2, <2>3 DEF EndInv
<1>2. /\ TypeOK /\ TypeOK' /\ TableOK /\ TableOK' /\ CycleInv /\ CycleInv'
      /\ ViewInv /\ KeysInv /\ EndInv /\ [ManagedNext]_allvars
      => EndInv'
  BY EntriesManaged, RememberedStep, DoneStep DEF EndInv
<1> QED BY <1>1, <1>2, CycleAlways, ViewAlways, KeysAlways, PTL DEF ManagedSpec

\* What holds of a user at the end of a second undisturbed cycle.
LEMMA AtRest ==
    ASSUME TypeOK, CycleInv, EndInv, Settled(2), ~meddled, NEW u \in User \ declared
    PROVE  /\ Synced(u) /\ SyncedAgain(u) /\ Keyed(sess[u]) /\ Marked(sess[u])
           /\ Remembered(u) /\ (sess[u].known => ldap[u].exists)
<1>1. pc = "sleep" /\ quiet >= 2 /\ quiet >= 1 /\ quiet \in Int
  BY DEF Settled, TypeOK, QuietMax
<1>2. Rounds = quiet /\ Rounds >= 1
  BY <1>1 DEF Rounds
<1>3. Synced(u) /\ SyncedAgain(u)
  BY <1>1, <1>2 DEF CycleInv, SyncInv
<1>4. \A stages : Passed(u, stages)
  BY <1>1 DEF Passed
<1>5. Keyed(sess[u])
  BY <1>4 DEF CycleInv, WorkInv
<1>6. Marked(sess[u]) /\ (sess[u].known => ldap[u].exists)
  BY <1>4 DEF EndInv, DoneInv
<1>7. Remembered(u)
  BY DEF EndInv, MemInv
<1> QED BY <1>3, <1>5, <1>6, <1>7

\* Two undisturbed cycles after the operator's last command the login shell of
\* every user is what the API asks for (ldapupdate 218-233), whatever was set,
\* deleted or reset, and whichever task's commit came before or after it; but
\* not of a user whose is_deactivated or row was overruled, which is what
\* ldapupdate remembers the shell by.
THEOREM ShellsFollowManaged == ManagedSpec => []ShellFollowsApiManaged
<1>1. TypeOK /\ CycleInv /\ EndInv => ShellFollowsApiManaged
  <2> SUFFICES ASSUME TypeOK, CycleInv, EndInv, Settled(2), ~meddled,
                      NEW u \in User \ declared
               PROVE  ShellAgrees(u)
    BY DEF ShellFollowsApiManaged
  <2>1. /\ Synced(u) /\ SyncedAgain(u) /\ Marked(sess[u])
        /\ Remembered(u) /\ (sess[u].known => ldap[u].exists)
    BY AtRest
  <2>2. sess[u].is_active \in BOOLEAN /\ sess[u].is_deactivated \in BOOLEAN
    BY DEF TypeOK, Row
  <2>3. ASSUME ApiListed(u)
        PROVE  ldap[u].shell = IF api[u].status THEN "bash" ELSE "nologin"
    BY <2>1, <2>2, <2>3 DEF Synced, Marked, Remembered
  <2>4. ASSUME ApiGone(u), ldap[u].exists PROVE ldap[u].shell = "nologin"
    BY <2>1, <2>2, <2>4 DEF SyncedAgain, Marked, Remembered
  <2> QED BY <2>3, <2>4 DEF ShellAgrees
<1> QED BY <1>1, CycleAlways, EndAlways, PTL

\* The same of the keys: those of the entry are the API's, and a listed user
\* has an entry (ldapupdate 305-337).
THEOREM EntryKeysFollowManaged == ManagedSpec => []KeysFollowApiManaged
<1>1. TypeOK /\ CycleInv /\ EndInv => KeysFollowApiManaged
  <2> SUFFICES ASSUME TypeOK, CycleInv, EndInv, Settled(2), ~meddled,
                      NEW u \in User \ declared
               PROVE  KeysAgree(u)
    BY DEF KeysFollowApiManaged
  <2>1. /\ Synced(u) /\ SyncedAgain(u) /\ Keyed(sess[u])
        /\ Remembered(u) /\ (sess[u].known => ldap[u].exists)
    BY AtRest
  <2>2. ASSUME ApiListed(u) PROVE ldap[u].exists
    BY <2>1, <2>2 DEF Synced
  <2>3. ASSUME ldap[u].exists PROVE ldap[u].keys = Wanted(u)
    BY <2>1, <2>3 DEF SyncedAgain, Keyed, Remembered
  <2> QED BY <2>2, <2>3 DEF KeysAgree, Wanted
<1> QED BY <1>1, CycleAlways, EndAlways, PTL

-----------------------------------------------------------------------------
(* What the flat pipeline promises of the cache and of the groups holds    *)
(* beside an operator as well: a command only starts the count anew.       *)

LEMMA RestSettled ==
    ASSUME TypeOK, CycleInv, NEW n \in {1, 2}, Settled(n)
    PROVE  /\ pc = "sleep" /\ quiet >= n /\ quiet >= 1 /\ Rounds = quiet
           /\ sess = db /\ cache = db /\ ~behind
<1>1. pc = "sleep" /\ quiet >= n /\ quiet \in Int
  BY DEF Settled, TypeOK, QuietMax
<1>2. sess = db /\ Rounds = quiet
  BY <1>1, AtSleep DEF CycleInv
<1>3. ~behind /\ Loaded
  BY <1>1 DEF CycleInv, LoadInv, LdapPc
<1> QED BY <1>1, <1>2, <1>3 DEF Loaded

LEMMA GroupManaged ==
    ASSUME TypeOK, TableOK, CycleInv, GroupInv, [ManagedNext]_allvars PROVE GroupInv'
<1>1. CASE \/ TaskStep \/ ManagedSync \/ ManagedKeys \/ ManagedLdapCommit
           \/ ManagedFault \/ ManagedApiChange \/ UNCHANGED allvars
  <2>1. [Next]_vars
    BY <1>1, FollowingSteps DEF ManagedApiChange, Next, Environment, allvars
  <2> QED BY <2>1, GroupStep DEF CycleInv
<1>2. CASE Load \/ Leaves \/ (\E u \in Cached : \E row, keys : Command(u, row, keys))
  <2>1. Restarted
    BY <1>2, Restarts DEF CycleInv
  <2> QED BY <2>1 DEF Restarted, GroupInv, LatePc, MailPc
<1> QED BY <1>1, <1>2, StepKinds, CommandEffect

\* One undisturbed cycle after the operator's last command the members of every
\* project's group are those the cache lists for it, whatever was added to a
\* user's projects or taken from them, with --force or without, and whichever
\* task that met (ldapupdate 186-216 and 411-431, ah-user-manage 192-209 and
\* 291-311).
THEOREM GroupsFollowManaged == ManagedSpec => []GroupsFollowCache
<1>1. ManagedInit => GroupInv
  BY DEF ManagedInit, Init, GroupInv, LatePc, MailPc
<1>2. TypeOK /\ TableOK /\ CycleInv /\ GroupInv /\ [ManagedNext]_allvars => GroupInv'
  BY GroupManaged
<1>3. TypeOK /\ CycleInv /\ GroupInv => GroupsFollowCache
  <2> SUFFICES ASSUME TypeOK, CycleInv, GroupInv, Settled(1)
               PROVE  \A p \in Project :
                 group[p] = {u \in User : p \in SetOf(db[u].projects_api)}
    BY DEF GroupsFollowCache
  <2>1. pc = "sleep" /\ quiet >= 1 /\ sess = db
    BY RestSettled
  <2>2. \A u \in User : db[u].project = SetOf(db[u].projects_api)
    BY <2>1 DEF CycleInv, WorkInv, Passed, Relates
  <2> QED BY <2>1, <2>2 DEF GroupInv, Members
<1> QED BY <1>1, <1>2, <1>3, CycleAlways, PTL DEF ManagedSpec

\* The users table says what the API says, an undisturbed cycle after the last
\* command (two for who is gone), and it is the table itself that does: what a
\* task had loaded is not behind it any more (apisync 133-358).
TableFollows == Settled(1) => cache = db
THEOREM CacheFollowsManaged == ManagedSpec => [](CacheFollowsApi /\ TableFollows)
<1>1. TypeOK /\ CycleInv => CacheFollowsApi
  <2> SUFFICES ASSUME TypeOK, CycleInv, NEW u \in User
               PROVE  /\ Settled(1) => Synced(u) /\ sess = db
                      /\ Settled(2) => SyncedAgain(u) /\ sess = db
    BY DEF CacheFollowsApi, Synced, SyncedAgain
  <2>1. ASSUME Settled(1) PROVE Synced(u) /\ sess = db
    BY <2>1, RestSettled DEF CycleInv, SyncInv
  <2>2. ASSUME Settled(2) PROVE SyncedAgain(u) /\ sess = db
    BY <2>2, RestSettled DEF CycleInv, SyncInv
  <2> QED BY <2>1, <2>2
<1>2. TypeOK /\ CycleInv => TableFollows
  BY RestSettled DEF TableFollows
<1> QED BY <1>1, <1>2, CycleAlways, PTL

\* And so do its keys, in the JSON column and in the relation, the second
\* undisturbed cycle after the last command (apisync 60-131, ldapupdate 305-337).
THEOREM CacheKeysFollowManaged == ManagedSpec => []CacheKeysFollowApi
<1>1. TypeOK /\ CycleInv => CacheKeysFollowApi
  <2> SUFFICES ASSUME TypeOK, CycleInv, Settled(2), NEW u \in User, db[u].known
               PROVE  db[u].sshkeys_api = Wanted(u) /\ db[u].sshkey = db[u].sshkeys_api
    BY DEF CacheKeysFollowApi, Wanted
  <2>1. pc = "sleep" /\ quiet >= 2 /\ quiet >= 1 /\ sess = db /\ Rounds = quiet
    BY RestSettled
  <2>2. SyncedAgain(u)
    BY <2>1 DEF CycleInv, SyncInv
  <2>3. Keyed(sess[u])
    BY <2>1 DEF CycleInv, WorkInv, Passed
  <2> QED BY <2>1, <2>2, <2>3 DEF SyncedAgain, Keyed
<1> QED BY <1>1, CycleAlways, PTL

-----------------------------------------------------------------------------
(* Who counts as opened, to the table as to a task. *)

OpenedTable == \A u \in User : cache[u].is_opened => ldap[u].exists

LEMMA OpenedManaged ==
    ASSUME TypeOK, TypeOK', TableOK, OpenedInv, OpenedTable, [ManagedNext]_allvars
    PROVE  OpenedInv' /\ OpenedTable'
<1>1. EntriesStay /\ CurrentHasEntry'
  BY EntriesManaged DEF OpenedInv
<1>2. CASE TaskStep \/ ManagedSync \/ ManagedKeys \/ ManagedLdapCommit \/ ManagedFault
  <2>1. Next /\ Follows
    BY <1>2, FollowingSteps
  <2>2. RowsChange
    BY <2>1, RowChanges
  <2>3. \A u \in User : sess'[u].is_opened => ldap[u].exists
    BY <2>2, OpenedRowChange DEF RowsChange, OpenedInv, OpenedHasEntry
  <2>4. \A u \in User : db'[u].is_opened => ldap[u].exists
    BY <2>2, <2>3 DEF RowsChange, OpenedInv, OpenedHasEntry
  <2>5. \A u \in User : Merges(db[u], db'[u], cache[u], cache'[u])
    BY <2>1, MergedFields DEF Follows, TypeOK
  <2>6. \A u \in User : cache'[u].is_opened => db'[u].is_opened \/ cache[u].is_opened
    BY <2>5 DEF Merges
  <2> QED BY <1>1, <2>3, <2>4, <2>6
         DEF EntriesStay, OpenedInv, OpenedHasEntry, OpenedTable
<1>3. CASE ManagedApiChange \/ UNCHANGED allvars
  <2>1. UNCHANGED <<db, sess, cache>>
    BY <1>3 DEF ManagedApiChange, ApiChange, mvars, allvars, vars
  <2> QED BY <1>1, <2>1 DEF EntriesStay, OpenedInv, OpenedHasEntry, OpenedTable
<1>4. CASE Load
  <2>1. db' = cache /\ sess' = cache /\ cache' = cache
    BY <1>4 DEF Load, mvars
  <2> QED BY <1>1, <2>1 DEF EntriesStay, OpenedInv, OpenedHasEntry, OpenedTable
<1>5. CASE Leaves
  <2>1. db' = db /\ sess' = db /\ Follows
    BY <1>5 DEF Leaves, Abandon
  <2>2. \A u \in User : Merges(db[u], db'[u], cache[u], cache'[u])
    BY <2>1, MergedFields DEF Follows, TypeOK
  <2>3. \A u \in User : cache'[u].is_opened => cache[u].is_opened
    BY <2>1, <2>2 DEF Merges
  <2> QED BY <1>1, <2>1, <2>3 DEF EntriesStay, OpenedInv, OpenedHasEntry, OpenedTable
<1>6. ASSUME NEW u \in Cached, NEW row, NEW keys, Command(u, row, keys),
             Effect(u, row, keys)
      PROVE  OpenedInv' /\ OpenedTable'
  <2>1. \A w \in User : cache'[w].is_opened => ldap[w].exists
    <3>1. \A w \in User : cache'[w] = IF w = u THEN row ELSE cache[w]
      BY <1>6 DEF Command, TableOK
    <3> QED BY <1>6, <3>1 DEF Effect, OpenedTable
  <2>2. \A w \in User : db'[w].is_opened => ldap[w].exists
    <3>1. CASE db' = cache'
      BY <2>1, <3>1
    <3>2. CASE db' = Related(db)
      BY <3>2, RelatedRow DEF OpenedInv, OpenedHasEntry
    <3> QED BY <1>6, <3>1, <3>2 DEF Command
  <2>3. sess' = db'
    BY <1>6 DEF Command
  <2> QED BY <1>1, <2>1, <2>2, <2>3 DEF EntriesStay, OpenedInv, OpenedHasEntry, OpenedTable
<1> QED BY <1>2, <1>3, <1>4, <1>5, <1>6, StepKinds, CommandEffect

\* Whatever the operator sets or deletes, and however a task's commit is merged
\* over it, a row that counts as opened has an LDAP entry: in what a task has
\* loaded and in the table (ldapupdate 608, ah-user-manage 211-221 and 279-341).
THEOREM OpenedHasEntryManaged == ManagedSpec => [](OpenedHasEntry /\ OpenedTable)
<1>1. ManagedInit => OpenedInv /\ OpenedTable
  BY DEF ManagedInit, Init, OpenedInv, CurrentHasEntry, OpenedHasEntry, OpenedTable, BlankRow
<1>2. TypeOK /\ TypeOK' /\ TableOK /\ OpenedInv /\ OpenedTable /\ [ManagedNext]_allvars
        => OpenedInv' /\ OpenedTable'
  BY OpenedManaged
<1>3. OpenedInv => OpenedHasEntry
  BY DEF OpenedInv
<1> QED BY <1>1, <1>2, <1>3, TableTypes, PTL DEF ManagedSpec
=============================================================================
