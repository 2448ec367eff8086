------------------------------ MODULE FlatProofs ------------------------------
(***************************************************************************)
(* Proofs about FlatPipeline, for any users, projects, keys, answers of    *)
(* the API and faults, in four parts.                                      *)
(*   1. TypeOK.  The operators on one row come first, each with the lemma  *)
(*      that its result is a row.                                          *)
(*   2. OpenedHasEntry and NoStrandedKeyNotice.  Both are about rows, and  *)
(*      a row only ever changes by one of the operators of the tasks: that *)
(*      is RowChanges, and the properties follow from what each operator   *)
(*      does to one row.                                                   *)
(*   3. FlatPipeline implements Notices: the notices the committed rows    *)
(*      ask for are the pending ones.  A commit by apisync, usermetadata   *)
(*      or ldapupdate only ever raises notices; the rounds of emailsend    *)
(*      deliver them; what the commit of emailsend forgets has been        *)
(*      delivered or is covered by a mail about the account.               *)
(*   4. What an undisturbed cycle achieves: the cache agrees with the API, *)
(*      relations and groups with the cache, and nobody is owed a mail.    *)
(*      The cycle is followed stage by stage; each stage's fact is an      *)
(*      invariant, conditional on the cycle being undisturbed.  Last, the  *)
(*      gid of an entry when LDAP answers.                                 *)
(***************************************************************************)
EXTENDS FlatPipeline, ProjectListsProofs, SequenceTheorems

-----------------------------------------------------------------------------
(* apisync *)

LEMMA CheckUsersInactiveType ==
    ASSUME NEW row \in Row, NEW u PROVE CheckUsersInactive(row, u) \in Row
<1>1. << >> \in Seq(Project) /\ NoGid \in Gid
  BY DEF Gid
<1> QED BY <1>1 DEF CheckUsersInactive, Row

LEMMA UsersProjectsAddType ==
    ASSUME TypeOK, NEW row \in Row, NEW u \in User
    PROVE  UsersProjectsAdd(row, u) \in Row
<1> DEFINE up == fetched.userproject[u]
           ps == AppendMissing(row.projects_api, up.projects)
<1>1. ps \in Seq(Project) /\ up.status \in BOOLEAN
  BY AppendMissingList DEF TypeOK, Row
<1> HIDE DEF ps
<1>2. UsersProjectsAdd(row, u) =
        IF u \in Listed THEN [row EXCEPT !.known = TRUE, !.is_active = up.status,
                                         !.projects_api = ps]
                        ELSE row
  BY DEF UsersProjectsAdd, ps
<1> QED BY <1>1, <1>2 DEF Row

LEMMA UsersProjectsDelType ==
    ASSUME TypeOK, NEW row \in Row, NEW u \in User
    PROVE  UsersProjectsDel(row, u) \in Row
BY DEF UsersProjectsDel, Row, TypeOK

LEMMA ApiKeysType ==
    ASSUME TypeOK, NEW u \in User PROVE ApiKeys(u) \in SUBSET Key
BY DEF ApiKeys, TypeOK

LEMMA SshkeysType ==
    ASSUME TypeOK, NEW row \in Row, NEW u \in User
    PROVE  SshkeysAdd(row, u) \in Row /\ SshkeysDel(row, u) \in Row
BY ApiKeysType DEF SshkeysAdd, SshkeysDel, Row

LEMMA SyncedRowType ==
    ASSUME TypeOK, NEW u \in User PROVE SyncedRow(u) \in Row
<1>1. sess[u] \in Row
  BY DEF TypeOK
<1> QED BY <1>1, CheckUsersInactiveType, UsersProjectsAddType,
           UsersProjectsDelType, SshkeysType DEF SyncedRow

-----------------------------------------------------------------------------
(* ldapupdate *)

LEMMA SyncRelationType ==
    ASSUME NEW row \in Row PROVE SyncRelation(row) \in Row
BY DEF SyncRelation, Row, SetOf

LEMMA ActiveRowType ==
    ASSUME NEW row \in Row PROVE ActiveRow(row) \in Row
<1>1. CASE Deactivates(row)
  BY <1>1 DEF ActiveRow, Row
<1>2. CASE ~Deactivates(row) /\ Activates(row)
  BY <1>2 DEF ActiveRow, Row
<1>3. CASE ~Deactivates(row) /\ ~Activates(row)
  BY <1>3 DEF ActiveRow, Row
<1> QED BY <1>1, <1>2, <1>3

LEMMA KeyRowType ==
    ASSUME NEW row \in Row PROVE KeyRow(row) \in Row
<1> DEFINE names == row.mail_name_sshkey \cup ({"ADD"} \X KeysAdded(row))
                                         \cup ({"DEL"} \X KeysRemoved(row))
           added == row.mail_is_sshkeyadded /\ KeysAdded(row) = {}
           removed == row.mail_is_sshkeyremoved /\ KeysRemoved(row) = {}
<1>1. names \in SUBSET KeyNotice
  BY DEF Row, KeysAdded, KeysRemoved, KeyNotice
<1>2. added \in BOOLEAN /\ removed \in BOOLEAN
  OBVIOUS
<1>3. KeyRow(row) = [row EXCEPT !.sshkey = row.sshkeys_api,
                                !.mail_name_sshkey = names,
                                !.mail_is_sshkeyadded = added,
                                !.mail_is_sshkeyremoved = removed]
  BY DEF KeyRow
<1> HIDE DEF names, added, removed
<1> QED BY <1>1, <1>2, <1>3 DEF Row

LEMMA LastType ==
    ASSUME NEW s \in Seq(Project), s # << >> PROVE Last(s) \in Project
<1>1. Len(s) \in Nat \ {0}
  BY EmptySeq
<1> QED BY <1>1, ElementOfSeq DEF Last

LEMMA GidLastNotWorkshopType ==
    ASSUME NEW s \in Seq(Project) PROVE GidLastNotWorkshop(s) \in Gid
<1> DEFINE others == {i \in DOMAIN s : s[i] \notin Workshop}
<1>1. Len(s) \in Nat /\ others \in SUBSET (1..Len(s))
  BY LenProperties
<1>2. CASE others = {}
  BY <1>2 DEF GidLastNotWorkshop, Gid
<1>3. CASE others # {}
  <2>1. \E i \in others : \A j \in others : j <= i
    BY <1>1, <1>3, LargestExists
  <2>2. (CHOOSE i \in others : \A j \in others : j <= i) \in 1..Len(s)
    BY <1>1, <2>1
  <2>3. s[CHOOSE i \in others : \A j \in others : j <= i] \in Project
    BY <2>2, ElementOfSeq
  <2> QED BY <1>3, <2>3 DEF GidLastNotWorkshop, Gid
<1> QED BY <1>2, <1>3

LEMMA TargetGidsType ==
    ASSUME NEW row \in Row, NEW u, NEW gid \in TargetGids(row, u)
    PROVE  gid \in Gid
<1>1. row.projects_api \in Seq(Project)
  BY DEF Row
<1>2. CASE row.projects_api = << >>
  BY <1>2 DEF TargetGids, Gid
<1>3. CASE row.projects_api # << >>
  <2>1. PICK last : gid = TargetGid(row, u, last)
    BY <1>3 DEF TargetGids
  <2>2. Last(row.projects_api) \in Gid
    BY <1>1, <1>3, LastType DEF Gid
  <2> QED BY <1>1, <2>1, <2>2, GidLastNotWorkshopType DEF TargetGid
<1> QED BY <1>2, <1>3

LEMMA NewEntryType ==
    ASSUME NEW row \in Row PROVE NewEntry(row) \in Entry
BY DEF NewEntry, Row, Entry

LEMMA ActiveEntryType ==
    ASSUME NEW row \in Row, NEW e \in Entry
    PROVE  /\ ActiveEntry(row, e) \in Entry
           /\ ActiveEntry(row, e).exists = e.exists
<1>1. CASE Deactivates(row)
  BY <1>1 DEF ActiveEntry, Entry
<1>2. CASE ~Deactivates(row) /\ Activates(row)
  BY <1>2 DEF ActiveEntry, Entry
<1>3. CASE ~Deactivates(row) /\ ~Activates(row)
  BY <1>3 DEF ActiveEntry, Entry
<1> QED BY <1>1, <1>2, <1>3

-----------------------------------------------------------------------------
(* usermetadata *)

LEMMA FirstGidsType ==
    ASSUME NEW row \in Row, NEW u, NEW gid \in FirstGids(row, u)
    PROVE  gid \in Gid
<1>1. row.projects_api \in Seq(Project) /\ row.project \in SUBSET Project
  BY DEF Row
<1>2. row.projects_api # << >> => Last(row.projects_api) \in Project
  BY <1>1, LastType
<1> QED BY <1>1, <1>2 DEF FirstGids, Gid

LEMMA MetadataRowsType ==
    ASSUME NEW row \in Row, NEW u, NEW r \in MetadataRows(row, u)
    PROVE  r \in Row
<1>1. CASE ~row.known \/ ~row.is_active
  BY <1>1 DEF MetadataRows
<1>2. CASE ~(~row.known \/ ~row.is_active)
  <2>1. PICK gid \in IF row.ldap_gid # NoGid THEN {row.ldap_gid}
                                           ELSE FirstGids(row, u) :
           r = [row EXCEPT !.ldap_uid = TRUE, !.ldap_gid = gid]
    BY <1>2 DEF MetadataRows
  <2>2. gid \in Gid
    BY FirstGidsType DEF Row
  <2> QED BY <2>1, <2>2 DEF Row
<1> QED BY <1>1, <1>2

-----------------------------------------------------------------------------
(* emailsend *)

LEMMA MailRowsType ==
    ASSUME NEW row \in Row, NEW failed
    PROVE  /\ AfterActivate(row) \in Row
           /\ AfterDeactivate(row) \in Row
           /\ AfterAccount(row) \in Row
           /\ AfterKeyOpened(row) \in Row
           /\ AfterKeyMails(row, failed) \in Row
<1>1. AfterActivate(row) \in Row
  BY DEF AfterActivate, Row
<1>2. AfterDeactivate(row) \in Row
  BY DEF AfterDeactivate, Row
<1>3. AfterAccount(row) \in Row
  BY DEF AfterAccount, Row
<1>4. AfterKeyOpened(row) \in Row
  BY DEF AfterKeyOpened, Row
<1>5. AfterKeyMails(row, failed) \in Row
  <2> DEFINE added == Named(row, "ADD") \cap failed = {}
             removed == Named(row, "DEL") \cap failed = {}
             names == {n \in row.mail_name_sshkey :
                         IF n[1] = "ADD" THEN ~added ELSE ~removed}
             isAdded == row.mail_is_sshkeyadded \/ added
             isRemoved == row.mail_is_sshkeyremoved \/ removed
  <2>1. /\ names \in SUBSET KeyNotice
        /\ isAdded \in BOOLEAN /\ isRemoved \in BOOLEAN
    BY DEF Row
  <2>2. AfterKeyMails(row, failed) =
          [row EXCEPT !.mail_is_sshkeyadded = isAdded,
                      !.mail_is_sshkeyremoved = isRemoved,
                      !.mail_name_sshkey = names]
    BY DEF AfterKeyMails
  <2> HIDE DEF names, isAdded, isRemoved
  <2> QED BY <2>1, <2>2 DEF Row
<1> QED BY <1>1, <1>2, <1>3, <1>4, <1>5

-----------------------------------------------------------------------------
(* The steps, task by task. *)

LEMMA CommitType ==
    ASSUME TypeOK, NEW rows \in [User -> Row], Commit(rows)
    PROVE  /\ db' \in [User -> Row] /\ sess' \in [User -> Row]
           /\ sent' \in [User -> SUBSET Notice]
BY DEF Commit, TypeOK

LEMMA NothingFetchedType ==
    NothingFetched \in [got : SUBSET {"sshkeys", "userproject"},
                        sshkeys : [User -> SUBSET Key],
                        userproject : [User -> [projects : Seq(Project),
                                                status : BOOLEAN]]]
<1>1. << >> \in Seq(Project)
  OBVIOUS
<1> QED BY <1>1 DEF NothingFetched

LEMMA ApiSyncTypes ==
    ASSUME TypeOK,
           FetchSshkeys \/ FetchUserproject \/ FetchError \/ SyncCache
    PROVE  TypeOK'
<1>1. \A u \in User : api[u] \in ApiRecord
  BY ApiAssumption DEF TypeOK
<1>2. CASE FetchSshkeys
  <2>1. [u \in User |-> api[u].keys] \in [User -> SUBSET Key]
    BY <1>1 DEF ApiRecord
  <2> QED BY <1>2, <2>1 DEF FetchSshkeys, TypeOK
<1>3. CASE FetchUserproject
  <2>1. [u \in User |-> [projects |-> api[u].projects, status |-> api[u].status]]
          \in [User -> [projects : Seq(Project), status : BOOLEAN]]
    BY <1>1 DEF ApiRecord
  <2> QED BY <1>3, <2>1 DEF FetchUserproject, TypeOK
<1>4. CASE FetchError
  BY <1>4, NothingFetchedType DEF FetchError, Disturbed, TypeOK, TaskPc, QuietMax
<1>5. CASE SyncCache
  <2>1. [u \in User |-> SyncedRow(u)] \in [User -> Row]
    BY SyncedRowType
  <2>2. /\ db' \in [User -> Row] /\ sess' \in [User -> Row]
        /\ sent' \in [User -> SUBSET Notice]
    BY <1>5, <2>1, CommitType DEF SyncCache
  <2> QED BY <1>5, <2>2, NothingFetchedType DEF SyncCache, TypeOK, TaskPc
<1> QED BY <1>2, <1>3, <1>4, <1>5

LEMMA SetMetadataTypes ==
    ASSUME TypeOK, SetMetadata PROVE TypeOK'
<1>1. PICK rows \in [User -> UNION {MetadataRows(sess[u], u) : u \in User}] :
         /\ \A u \in User : rows[u] \in MetadataRows(sess[u], u)
         /\ Commit(rows)
         /\ todo' = {u \in User : rows[u].known}
  BY DEF SetMetadata
<1>2. \A u \in User : rows[u] \in Row
  BY <1>1, MetadataRowsType DEF TypeOK
<1>3. rows \in [User -> Row]
  BY <1>2
<1>4. /\ db' \in [User -> Row] /\ sess' \in [User -> Row]
      /\ sent' \in [User -> SUBSET Notice]
  BY <1>1, <1>3, CommitType
<1> QED BY <1>1, <1>4 DEF SetMetadata, TypeOK, TaskPc

LEMMA AbandonTypes ==
    ASSUME TypeOK, Abandon, ldap' \in [User -> Entry],
           UNCHANGED <<api, db, group, sent>>
    PROVE  TypeOK'
BY NothingFetchedType DEF Abandon, Disturbed, TypeOK, QuietMax

LEMMA LdapErrorTypes ==
    ASSUME TypeOK, cur \in User, NEW r \in Row, NEW e \in Entry, LdapError(r, e)
    PROVE  TypeOK'
<1>1. ldap' \in [User -> Entry]
  BY DEF LdapError, TypeOK
<1>2. CASE /\ sess' = [sess EXCEPT ![cur] = r]
           /\ NextUser /\ Disturbed
           /\ UNCHANGED <<fetched, opened>>
  BY <1>1, <1>2 DEF LdapError, NextUser, Disturbed, TypeOK, TaskPc, QuietMax
<1>3. CASE Abandon
  BY <1>1, <1>3, AbandonTypes DEF LdapError
<1> QED BY <1>2, <1>3 DEF LdapError

LEMMA LdapDoneTypes ==
    ASSUME TypeOK, cur \in User, NEW r \in Row, NEW e \in Entry,
           NEW next \in {"active", "keys"}, LdapDone(r, e, next)
    PROVE  TypeOK'
<1>1. cur # NoUser
  BY ConstantsAssumption
<1> QED BY <1>1 DEF LdapDone, TypeOK, TaskPc

\* Where ldapupdate is at work on a user, that user's row and entry are typed.
LEMMA CurrentTypes ==
    ASSUME TypeOK, pc \in {"sync", "active", "keys"}
    PROVE  cur \in User /\ sess[cur] \in Row /\ ldap[cur] \in Entry
BY DEF TypeOK

LEMMA SyncUserTypes ==
    ASSUME TypeOK, SyncUser \/ SyncUserError \/ SyncUserSecondError
    PROVE  TypeOK'
<1>1. cur \in User /\ sess[cur] \in Row /\ ldap[cur] \in Entry
  BY CurrentTypes DEF SyncUser, SyncUserError, SyncUserSecondError
<1>2. SyncRelation(sess[cur]) \in Row
  BY <1>1, SyncRelationType
<1>3. \A gid \in TargetGids(sess[cur], cur) :
         /\ [SyncRelation(sess[cur]) EXCEPT !.ldap_gid = gid] \in Row
         /\ [ldap[cur] EXCEPT !.gid = gid] \in Entry
  <2> TAKE gid \in TargetGids(sess[cur], cur)
  <2>1. gid \in Gid
    BY <1>1, TargetGidsType
  <2> QED BY <1>1, <1>2, <2>1 DEF Row, Entry
<1>4. CASE SyncUser
  BY <1>1, <1>2, <1>3, <1>4, LdapDoneTypes DEF SyncUser
<1>5. CASE SyncUserError
  BY <1>1, <1>2, <1>3, <1>5, LdapErrorTypes DEF SyncUserError
<1>6. CASE SyncUserSecondError
  <2>1. PICK gid \in TargetGids(sess[cur], cur) :
           /\ ldap' = [ldap EXCEPT ![cur].gid = gid]
           /\ sess' = [sess EXCEPT ![cur] = [SyncRelation(@) EXCEPT !.ldap_gid = gid]]
    BY <1>6 DEF SyncUserSecondError
  <2>2. ldap' \in [User -> Entry]
    BY <1>1, <1>3, <2>1 DEF TypeOK
  <2>3. sess' \in [User -> Row]
    BY <1>1, <1>3, <2>1 DEF TypeOK
  <2> QED BY <1>6, <2>2, <2>3
         DEF SyncUserSecondError, NextUser, Disturbed, TypeOK, TaskPc, QuietMax
<1> QED BY <1>4, <1>5, <1>6

LEMMA LdapUpdateTypes ==
    ASSUME TypeOK, LdapUpdate \/ LdapUpdateFails PROVE TypeOK'
<1>1. ASSUME NEW u \in User, OpenUser(u) PROVE TypeOK'
  <2>1. u # NoUser /\ NewEntry(sess[u]) \in Entry
    BY ConstantsAssumption, NewEntryType DEF TypeOK
  <2> QED BY <1>1, <2>1 DEF OpenUser, TypeOK, TaskPc
<1>2. ASSUME NEW u \in User, OpenUserError(u) PROVE TypeOK'
  <2>1. NewEntry(sess[u]) \in Entry
    BY NewEntryType DEF TypeOK
  <2>2. ldap' \in [User -> Entry]
    BY <1>2, <2>1 DEF OpenUserError, TypeOK
  <2> QED BY <1>2, <2>2 DEF OpenUserError, Disturbed, TypeOK, QuietMax
<1>3. CASE SyncUser \/ SyncUserError \/ SyncUserSecondError
  BY <1>3, SyncUserTypes
<1>4. CASE UpdateActive \/ UpdateActiveError
  <2>1. cur \in User /\ sess[cur] \in Row /\ ldap[cur] \in Entry
    BY <1>4, CurrentTypes DEF UpdateActive, UpdateActiveError
  <2>2. ActiveRow(sess[cur]) \in Row /\ ActiveEntry(sess[cur], ldap[cur]) \in Entry
    BY <2>1, ActiveRowType, ActiveEntryType
  <2> QED BY <1>4, <2>1, <2>2, LdapDoneTypes, LdapErrorTypes
         DEF UpdateActive, UpdateActiveError
<1>5. CASE UpdateKeys \/ UpdateKeysError
  <2>1. cur \in User /\ sess[cur] \in Row /\ ldap[cur] \in Entry
    BY <1>5, CurrentTypes DEF UpdateKeys, UpdateKeysError
  <2>2. /\ KeyRow(sess[cur]) \in Row
        /\ [KeyRow(sess[cur]) EXCEPT !.is_opened = TRUE] \in Row
        /\ [ldap[cur] EXCEPT !.keys = sess[cur].sshkeys_api] \in Entry
    BY <2>1, KeyRowType DEF Row, Entry
  <2>3. CASE UpdateKeys
    <3>1. ldap' \in [User -> Entry]
      BY <2>1, <2>2, <2>3 DEF UpdateKeys, TypeOK
    <3>2. sess' \in [User -> Row]
      BY <2>1, <2>2, <2>3 DEF UpdateKeys, TypeOK
    <3> QED BY <2>3, <3>1, <3>2 DEF UpdateKeys, NextUser, TypeOK, TaskPc
  <2>4. CASE UpdateKeysError
    BY <2>1, <2>2, <2>4, LdapErrorTypes DEF UpdateKeysError
  <2> QED BY <1>5, <2>3, <2>4
<1>6. CASE UpdateGroups
  <2>1. group' \in [Project -> SUBSET User]
    BY <1>6 DEF UpdateGroups, Members, TypeOK
  <2>2. quiet' \in -1..QuietMax
    BY <1>6 DEF UpdateGroups, TypeOK, QuietMax
  <2> QED BY <1>6, <2>1, <2>2 DEF UpdateGroups, TypeOK, TaskPc
<1>7. CASE LdapCommit
  <2>1. /\ db' \in [User -> Row] /\ sess' \in [User -> Row]
        /\ sent' \in [User -> SUBSET Notice]
    BY <1>7, CommitType DEF LdapCommit, TypeOK
  <2> QED BY <1>7, <2>1 DEF LdapCommit, TypeOK, TaskPc
<1>8. CASE LdapUnreachable
  <2>1. ldap' \in [User -> Entry]
    BY <1>8 DEF LdapUnreachable, TypeOK
  <2> QED BY <1>8, <2>1, AbandonTypes DEF LdapUnreachable
<1> QED BY <1>1, <1>2, <1>3, <1>4, <1>5, <1>6, <1>7, <1>8
       DEF LdapUpdate, LdapUpdateFails

\* One round of mails.
LEMMA RoundTypes ==
    ASSUME TypeOK, NEW users \in SUBSET User, NEW notice \in Notice,
           NEW ok \in Accepted(users),
           pc \in MailPc, pc' \in MailPc,
           sess' \in [User -> Row],
           sent' = [u \in User |-> IF u \in ok THEN sent[u] \cup {notice}
                                               ELSE sent[u]],
           opened' = IF notice = Account THEN ok ELSE opened,
           quiet' = IF ok = users THEN quiet ELSE -1,
           UNCHANGED <<api, fetched, db, ldap, group, cur, todo, guarded>>
    PROVE  TypeOK'
<1>1. ok \in SUBSET User
  BY DEF Accepted
<1>2. sent' \in [User -> SUBSET Notice]
  BY DEF TypeOK
<1>3. quiet' \in -1..QuietMax
  BY DEF TypeOK, QuietMax
<1> QED BY <1>1, <1>2, <1>3 DEF TypeOK, MailPc, TaskPc

LEMMA EmailSendTypes ==
    ASSUME TypeOK, EmailSend PROVE TypeOK'
<1>1. Activated \in Notice /\ Deactivated \in Notice /\ Account \in Notice
  BY DEF Notice
<1>2. CASE EmailActivate
  <2> DEFINE users == {u \in User : sess[u].mail_is_activated}
  <2>1. PICK ok \in Accepted(users) :
           /\ sess' = [u \in User |-> IF u \in ok THEN AfterActivate(sess[u]) ELSE sess[u]]
           /\ sent' = [u \in User |-> IF u \in ok THEN sent[u] \cup {Activated}
                                                  ELSE sent[u]]
           /\ opened' = IF Activated = Account THEN ok ELSE opened
           /\ quiet' = IF ok = users THEN quiet ELSE -1
    BY <1>2 DEF EmailActivate, Round
  <2>2. /\ pc = "activate" /\ pc' = "deactivate"
        /\ UNCHANGED <<api, fetched, db, ldap, group, cur, todo, guarded>>
    BY <1>2 DEF EmailActivate, Round
  <2>3. sess' \in [User -> Row]
    BY <2>1, MailRowsType DEF TypeOK
  <2> HIDE DEF users
  <2>4. users \in SUBSET User
    BY DEF users
  <2> QED BY <1>1, <2>1, <2>2, <2>3, <2>4, RoundTypes DEF MailPc
<1>3. CASE EmailDeactivate
  <2> DEFINE users == {u \in User : sess[u].mail_is_deactivated}
  <2>1. PICK ok \in Accepted(users) :
           /\ sess' = [u \in User |-> IF u \in ok THEN AfterDeactivate(sess[u]) ELSE sess[u]]
           /\ sent' = [u \in User |-> IF u \in ok THEN sent[u] \cup {Deactivated}
                                                  ELSE sent[u]]
           /\ opened' = IF Deactivated = Account THEN ok ELSE opened
           /\ quiet' = IF ok = users THEN quiet ELSE -1
    BY <1>3 DEF EmailDeactivate, Round
  <2>2. /\ pc = "deactivate" /\ pc' = "account"
        /\ UNCHANGED <<api, fetched, db, ldap, group, cur, todo, guarded>>
    BY <1>3 DEF EmailDeactivate, Round
  <2>3. sess' \in [User -> Row]
    BY <2>1, MailRowsType DEF TypeOK
  <2> HIDE DEF users
  <2>4. users \in SUBSET User
    BY DEF users
  <2> QED BY <1>1, <2>1, <2>2, <2>3, <2>4, RoundTypes DEF MailPc
<1>4. CASE EmailAccount
  <2> DEFINE users == {u \in User : sess[u].known /\ ~sess[u].mail_is_opensend}
  <2>1. PICK ok \in Accepted(users) :
           /\ sess' = [u \in User |-> IF u \in ok THEN AfterAccount(sess[u]) ELSE sess[u]]
           /\ sent' = [u \in User |-> IF u \in ok THEN sent[u] \cup {Account}
                                                  ELSE sent[u]]
           /\ opened' = IF Account = Account THEN ok ELSE opened
           /\ quiet' = IF ok = users THEN quiet ELSE -1
    BY <1>4 DEF EmailAccount, Round
  <2>2. /\ pc = "account" /\ pc' = "mailkey"
        /\ UNCHANGED <<api, fetched, db, ldap, group, cur, todo, guarded>>
    BY <1>4 DEF EmailAccount, Round
  <2>3. sess' \in [User -> Row]
    BY <2>1, MailRowsType DEF TypeOK
  <2> HIDE DEF users
  <2>4. users \in SUBSET User
    BY DEF users
  <2> QED BY <1>1, <2>1, <2>2, <2>3, <2>4, RoundTypes DEF MailPc
<1>5. CASE EmailKey
  <2>1. PICK delivered \in Accepted(KeyMails) :
           /\ sess' = [u \in User |->
                 IF u \notin KeyMailUsers THEN sess[u]
                 ELSE IF u \in opened THEN AfterKeyOpened(sess[u])
                 ELSE AfterKeyMails(sess[u],
                        {n \in KeyNotice : <<u, n>> \in KeyMails \ delivered})]
           /\ sent' = [u \in User |->
                 sent[u] \cup {n \in KeyNotice : <<u, n>> \in delivered}]
           /\ quiet' = IF delivered = KeyMails THEN quiet ELSE -1
    BY <1>5 DEF EmailKey
  <2>2. sess' \in [User -> Row]
    BY <2>1, MailRowsType DEF TypeOK
  <2>3. sent' \in [User -> SUBSET Notice]
    BY <2>1 DEF TypeOK, Notice
  <2>4. quiet' \in -1..QuietMax
    BY <2>1 DEF TypeOK, QuietMax
  <2> QED BY <1>5, <2>2, <2>3, <2>4 DEF EmailKey, TypeOK, TaskPc
<1>6. CASE MailCommit
  <2>1. /\ db' \in [User -> Row] /\ sess' \in [User -> Row]
        /\ sent' \in [User -> SUBSET Notice]
    BY <1>6, CommitType DEF MailCommit, TypeOK
  <2>2. quiet' \in -1..QuietMax
    BY <1>6 DEF MailCommit, EndCycleQuiet, TypeOK, QuietMax
  <2> QED BY <1>6, <2>1, <2>2 DEF MailCommit, TypeOK, TaskPc
<1> QED BY <1>2, <1>3, <1>4, <1>5, <1>6 DEF EmailSend

LEMMA CycleTypes ==
    ASSUME TypeOK, \/ StartCycle \/ Cancel \/ Die \/ Start
                   \/ \E u \in User : ApiChange(u)
    PROVE  TypeOK'
<1>1. ASSUME NEW u \in User, ApiChange(u) PROVE TypeOK'
  BY <1>1 DEF ApiChange, TypeOK, QuietMax
<1>2. CASE StartCycle
  BY <1>2 DEF StartCycle, TypeOK, TaskPc
<1>3. CASE Cancel
  <2>1. /\ db' \in [User -> Row] /\ sess' \in [User -> Row]
        /\ sent' \in [User -> SUBSET Notice]
    BY <1>3, CommitType DEF Cancel, TypeOK
  <2> QED BY <1>3, <2>1, NothingFetchedType
         DEF Cancel, Disturbed, TypeOK, QuietMax
<1>4. CASE Die
  <2>1. ldap' \in [User -> Entry]
    BY <1>4 DEF Die, TypeOK
  <2> QED BY <1>4, <2>1, AbandonTypes DEF Die
<1>5. CASE Start
  BY <1>5 DEF Start, TypeOK, QuietMax
<1> QED BY <1>1, <1>2, <1>3, <1>4, <1>5

LEMMA TypeStep == TypeOK /\ [Next]_vars => TypeOK'
<1> SUFFICES ASSUME TypeOK, [Next]_vars PROVE TypeOK'
  OBVIOUS
<1>1. CASE UNCHANGED vars
  BY <1>1 DEF vars, TypeOK
<1>2. CASE DaemonStep
  BY <1>2, ApiSyncTypes, SetMetadataTypes, LdapUpdateTypes, EmailSendTypes,
     CycleTypes DEF DaemonStep
<1>3. CASE Environment
  BY <1>3, ApiSyncTypes, LdapUpdateTypes, CycleTypes DEF Environment
<1> QED BY <1>1, <1>2, <1>3 DEF Next

LEMMA InitTypes == Init => TypeOK
<1> SUFFICES ASSUME Init PROVE TypeOK
  OBVIOUS
<1>1. << >> \in Seq(Project)
  OBVIOUS
<1>2. BlankRow \in Row /\ NoEntry \in Entry
  BY <1>1 DEF BlankRow, NoEntry, Row, Entry, Gid
<1> QED BY <1>2, NothingFetchedType DEF Init, TypeOK, TaskPc, QuietMax

\* Every step of the pipeline, faults and restarts included, keeps the cache,
\* the session, the directory and the daemon's own state in their types: no
\* gid but 0, the staff's or a project's is ever stored (FlatAccounts!TypeOK).
THEOREM TypeCorrect == Spec => []TypeOK
BY InitTypes, TypeStep, PTL DEF Spec

-----------------------------------------------------------------------------
(* Rows only change by the operators of the tasks. *)

\* s is what a task makes of u's row r.
RowChange(u, r, s) ==
    \/ s = r
    \/ pc = "fetch" /\ s = SyncedRow(u)
    \/ s \in MetadataRows(r, u)
    \/ \E gid \in Gid : s = [SyncRelation(r) EXCEPT !.ldap_gid = gid]
    \/ s = SyncRelation(r)
    \/ s = ActiveRow(r)
    \/ s = KeyRow(r)
    \/ pc = "keys" /\ u = cur /\ s = [KeyRow(r) EXCEPT !.is_opened = TRUE]
    \/ /\ pc \in MailPc
       /\ s \in {AfterActivate(r), AfterDeactivate(r), AfterAccount(r),
                 AfterKeyOpened(r)}
    \/ /\ pc \in MailPc
       /\ \E failed \in SUBSET KeyNotice : s = AfterKeyMails(r, failed)

\* Only a fault drops what the session holds.
RowsChange ==
    /\ \/ Disturbed /\ sess' = db /\ db' = db
       \/ \A u \in User : RowChange(u, sess[u], sess'[u])
    /\ db' = db \/ db' = sess'

-----------------------------------------------------------------------------
(* Every step changes the rows by these operators. *)

LEMMA RowsKept ==
    ASSUME TypeOK, UNCHANGED <<db, sess>> PROVE RowsChange
BY DEF RowsChange, RowChange

LEMMA SessionDropped ==
    ASSUME TypeOK, sess' = db, db' = db, Disturbed PROVE RowsChange
BY DEF RowsChange

\* A step that replaces the session row of the current user.
LEMMA CurrentRowChanges ==
    ASSUME TypeOK, cur \in User, NEW r, RowChange(cur, sess[cur], r),
           sess' = [sess EXCEPT ![cur] = r], db' = db
    PROVE  RowsChange
<1>1. \A u \in User : sess'[u] = IF u = cur THEN r ELSE sess[u]
  BY DEF TypeOK
<1>2. \A u \in User : RowChange(u, sess[u], sess[u])
  BY DEF RowChange
<1> QED BY <1>1, <1>2 DEF RowsChange

LEMMA LdapErrorRows ==
    ASSUME TypeOK, cur \in User, NEW r, NEW e, RowChange(cur, sess[cur], r),
           LdapError(r, e)
    PROVE  RowsChange
<1>1. db' = db /\ (sess' = [sess EXCEPT ![cur] = r] \/ (sess' = db /\ Disturbed))
  BY DEF LdapError, Abandon
<1> QED BY <1>1, CurrentRowChanges, SessionDropped

LEMMA SyncUserRows ==
    ASSUME TypeOK, SyncUser \/ SyncUserError \/ SyncUserSecondError
    PROVE  RowsChange
<1>1. cur \in User /\ sess[cur] \in Row
  BY CurrentTypes DEF SyncUser, SyncUserError, SyncUserSecondError
<1>2. RowChange(cur, sess[cur], SyncRelation(sess[cur]))
  BY DEF RowChange
<1>3. \A gid \in TargetGids(sess[cur], cur) :
         RowChange(cur, sess[cur], [SyncRelation(sess[cur]) EXCEPT !.ldap_gid = gid])
  BY <1>1, TargetGidsType DEF RowChange
<1>4. CASE SyncUser
  BY <1>1, <1>2, <1>3, <1>4, CurrentRowChanges DEF SyncUser, LdapDone
<1>5. CASE SyncUserError
  BY <1>1, <1>2, <1>5, LdapErrorRows DEF SyncUserError
<1>6. CASE SyncUserSecondError
  <2>1. PICK gid \in TargetGids(sess[cur], cur) :
           sess' = [sess EXCEPT ![cur] = [SyncRelation(@) EXCEPT !.ldap_gid = gid]]
    BY <1>6 DEF SyncUserSecondError
  <2>2. sess' = [sess EXCEPT ![cur] =
                   [SyncRelation(sess[cur]) EXCEPT !.ldap_gid = gid]]
    BY <2>1
  <2> QED BY <1>1, <1>3, <1>6, <2>2, CurrentRowChanges DEF SyncUserSecondError
<1> QED BY <1>4, <1>5, <1>6

LEMMA StageRows ==
    ASSUME TypeOK,
           UpdateActive \/ UpdateActiveError \/ UpdateKeys \/ UpdateKeysError
    PROVE  RowsChange
<1>1. cur \in User /\ sess[cur] \in Row
  BY CurrentTypes DEF UpdateActive, UpdateActiveError, UpdateKeys, UpdateKeysError
<1>2. /\ RowChange(cur, sess[cur], sess[cur])
      /\ RowChange(cur, sess[cur], ActiveRow(sess[cur]))
      /\ RowChange(cur, sess[cur], KeyRow(sess[cur]))
  BY DEF RowChange
<1>3. CASE UpdateActive
  BY <1>1, <1>2, <1>3, CurrentRowChanges DEF UpdateActive, LdapDone
<1>4. CASE UpdateActiveError
  BY <1>1, <1>2, <1>4, LdapErrorRows DEF UpdateActiveError
<1>5. CASE UpdateKeys
  <2>1. sess' = [sess EXCEPT ![cur] = [KeyRow(sess[cur]) EXCEPT !.is_opened = TRUE]]
    BY <1>5 DEF UpdateKeys
  <2>2. RowChange(cur, sess[cur], [KeyRow(sess[cur]) EXCEPT !.is_opened = TRUE])
    BY <1>5 DEF UpdateKeys, RowChange
  <2> QED BY <1>1, <1>5, <2>1, <2>2, CurrentRowChanges DEF UpdateKeys
<1>6. CASE UpdateKeysError
  BY <1>1, <1>2, <1>6, LdapErrorRows DEF UpdateKeysError
<1> QED BY <1>3, <1>4, <1>5, <1>6

LEMMA EmailRows ==
    ASSUME TypeOK, EmailSend PROVE RowsChange
<1>1. CASE EmailActivate \/ EmailDeactivate \/ EmailAccount
  BY <1>1 DEF EmailActivate, EmailDeactivate, EmailAccount, Round, RowsChange,
     RowChange, MailPc
<1>2. CASE EmailKey
  <2>1. PICK delivered \in Accepted(KeyMails) :
           sess' = [u \in User |->
                 IF u \notin KeyMailUsers THEN sess[u]
                 ELSE IF u \in opened THEN AfterKeyOpened(sess[u])
                 ELSE AfterKeyMails(sess[u],
                        {n \in KeyNotice : <<u, n>> \in KeyMails \ delivered})]
    BY <1>2 DEF EmailKey
  <2>2. \A u \in User :
           {n \in KeyNotice : <<u, n>> \in KeyMails \ delivered} \in SUBSET KeyNotice
    OBVIOUS
  <2> QED BY <1>2, <2>1, <2>2 DEF EmailKey, RowsChange, RowChange, MailPc
<1>3. CASE MailCommit
  BY <1>3 DEF MailCommit, Commit, RowsChange, RowChange
<1> QED BY <1>1, <1>2, <1>3 DEF EmailSend

LEMMA RowChanges ==
    ASSUME TypeOK, [Next]_vars PROVE RowsChange
<1>1. CASE SyncCache
  BY <1>1 DEF SyncCache, Commit, RowsChange, RowChange
<1>2. CASE SetMetadata
  BY <1>2 DEF SetMetadata, Commit, RowsChange, RowChange
<1>3. CASE LdapUpdate \/ LdapUpdateFails
  <2>1. ASSUME NEW u \in User, OpenUser(u) \/ OpenUserError(u) PROVE RowsChange
    BY <2>1, RowsKept DEF OpenUser, OpenUserError
  <2>2. CASE UpdateGroups
    BY <2>2, RowsKept DEF UpdateGroups
  <2>3. CASE LdapCommit
    BY <2>3 DEF LdapCommit, Commit, RowsChange, RowChange
  <2>4. CASE LdapUnreachable
    BY <2>4, SessionDropped DEF LdapUnreachable, Abandon
  <2> QED BY <1>3, <2>1, <2>2, <2>3, <2>4, SyncUserRows, StageRows
         DEF LdapUpdate, LdapUpdateFails
<1>4. CASE EmailSend
  BY <1>4, EmailRows
<1>5. CASE Cancel
  BY <1>5 DEF Cancel, Commit, RowsChange, RowChange
<1>6. CASE Die
  BY <1>6, SessionDropped DEF Die, Abandon
<1>7. CASE \/ FetchSshkeys \/ FetchUserproject \/ FetchError \/ StartCycle \/ Start
           \/ \E u \in User : ApiChange(u)
  BY <1>7, RowsKept DEF FetchSshkeys, FetchUserproject, FetchError, StartCycle,
     Start, ApiChange
<1>8. CASE UNCHANGED vars
  BY <1>8, RowsKept DEF vars
<1> QED BY <1>1, <1>2, <1>3, <1>4, <1>5, <1>6, <1>7, <1>8
       DEF Next, DaemonStep, Environment

-----------------------------------------------------------------------------
(* What the operators leave alone.  apisync and usermetadata touch neither *)
(* is_opened nor the mail flags.                                           *)

SameMail(r, s) ==
    /\ s.is_opened = r.is_opened
    /\ s.mail_is_opensend = r.mail_is_opensend
    /\ s.mail_is_activated = r.mail_is_activated
    /\ s.mail_is_deactivated = r.mail_is_deactivated
    /\ s.mail_is_sshkeyadded = r.mail_is_sshkeyadded
    /\ s.mail_is_sshkeyremoved = r.mail_is_sshkeyremoved
    /\ s.mail_name_sshkey = r.mail_name_sshkey
    /\ r.known => s.known

LEMMA SyncedRowMail ==
    ASSUME TypeOK, NEW u \in User PROVE SameMail(sess[u], SyncedRow(u))
<1> DEFINE r1 == CheckUsersInactive(sess[u], u)
           r2 == UsersProjectsAdd(r1, u)
           r3 == UsersProjectsDel(r2, u)
           r4 == SshkeysAdd(r3, u)
<1>1. sess[u] \in Row
  BY DEF TypeOK
<1>2. r1 \in Row /\ SameMail(sess[u], r1)
  BY <1>1, CheckUsersInactiveType DEF CheckUsersInactive, SameMail, Row
<1> HIDE DEF r1
<1>3. r2 \in Row /\ SameMail(r1, r2)
  BY <1>2, UsersProjectsAddType DEF UsersProjectsAdd, SameMail, Row
<1> HIDE DEF r2
<1>4. r3 \in Row /\ SameMail(r2, r3)
  BY <1>3, UsersProjectsDelType DEF UsersProjectsDel, SameMail, Row
<1> HIDE DEF r3
<1>5. r4 \in Row /\ SameMail(r3, r4)
  BY <1>4, SshkeysType DEF SshkeysAdd, SameMail, Row
<1> HIDE DEF r4
<1>6. SameMail(r4, SshkeysDel(r4, u))
  BY <1>5 DEF SshkeysDel, SameMail, Row
<1>7. SyncedRow(u) = SshkeysDel(r4, u)
  BY DEF SyncedRow, r1, r2, r3, r4
<1> QED BY <1>2, <1>3, <1>4, <1>5, <1>6, <1>7 DEF SameMail

LEMMA MetadataRowsMail ==
    ASSUME NEW r \in Row, NEW u, NEW s \in MetadataRows(r, u)
    PROVE  SameMail(r, s)
<1>1. s = r \/ \E gid : s = [r EXCEPT !.ldap_uid = TRUE, !.ldap_gid = gid]
  BY DEF MetadataRows
<1> QED BY <1>1 DEF SameMail, Row

LEMMA SyncRelationMail ==
    ASSUME NEW r \in Row,
           NEW s, \/ s = SyncRelation(r)
                  \/ \E gid \in Gid : s = [SyncRelation(r) EXCEPT !.ldap_gid = gid]
    PROVE  SameMail(r, s)
<1>1. CASE s = SyncRelation(r)
  BY <1>1 DEF SyncRelation, SameMail, Row
<1>2. ASSUME NEW gid \in Gid, s = [SyncRelation(r) EXCEPT !.ldap_gid = gid]
      PROVE  SameMail(r, s)
  BY <1>2 DEF SyncRelation, SameMail, Row
<1> QED BY <1>1, <1>2

\* What ldapupdate makes of a row leaves is_opened alone, but for its last stage.
LEMMA ActiveRowKeeps ==
    ASSUME NEW r \in Row
    PROVE  /\ ActiveRow(r).is_opened = r.is_opened
           /\ ActiveRow(r).mail_name_sshkey = r.mail_name_sshkey
           /\ ActiveRow(r).mail_is_sshkeyadded = r.mail_is_sshkeyadded
           /\ ActiveRow(r).mail_is_sshkeyremoved = r.mail_is_sshkeyremoved
           /\ ActiveRow(r).mail_is_opensend = r.mail_is_opensend
           /\ r.mail_is_activated => ActiveRow(r).mail_is_activated
           /\ r.mail_is_deactivated => ActiveRow(r).mail_is_deactivated
           /\ ActiveRow(r).known = r.known
<1>1. CASE Deactivates(r)
  BY <1>1 DEF ActiveRow, Row
<1>2. CASE ~Deactivates(r) /\ Activates(r)
  BY <1>2 DEF ActiveRow, Row
<1>3. CASE ~Deactivates(r) /\ ~Activates(r)
  BY <1>3 DEF ActiveRow, Row
<1> QED BY <1>1, <1>2, <1>3

\* What a delivered mail makes of a row.
LEMMA MailRowsKeep ==
    ASSUME NEW r \in Row,
           NEW s \in {AfterActivate(r), AfterDeactivate(r), AfterAccount(r),
                      AfterKeyOpened(r)}
    PROVE  /\ s.is_opened = r.is_opened
           /\ \/ s.mail_name_sshkey = {}
              \/ /\ s.mail_name_sshkey = r.mail_name_sshkey
                 /\ s.mail_is_sshkeyadded = r.mail_is_sshkeyadded
                 /\ s.mail_is_sshkeyremoved = r.mail_is_sshkeyremoved
<1>1. CASE s = AfterActivate(r)
  BY <1>1 DEF AfterActivate, Row
<1>2. CASE s = AfterDeactivate(r)
  BY <1>2 DEF AfterDeactivate, Row
<1>3. CASE s = AfterAccount(r)
  BY <1>3 DEF AfterAccount, Row
<1>4. CASE s = AfterKeyOpened(r)
  BY <1>4 DEF AfterKeyOpened, Row
<1> QED BY <1>1, <1>2, <1>3, <1>4

-----------------------------------------------------------------------------
(* OpenedHasEntry: an entry is never removed, and the stage that sets      *)
(* is_opened is one where the current user has an entry.                   *)

CurrentHasEntry == pc \in {"sync", "active", "keys"} => ldap[cur].exists

OpenedInv ==
    /\ OpenedHasEntry
    /\ \A u \in User : sess[u].is_opened => ldap[u].exists
    /\ CurrentHasEntry

LEMMA OpenedRowChange ==
    ASSUME TypeOK, OpenedInv, NEW u \in User, NEW s,
           RowChange(u, sess[u], s), s.is_opened
    PROVE  ldap[u].exists
<1> DEFINE r == sess[u]
<1>1. r \in Row /\ (r.is_opened => ldap[u].exists)
  BY DEF TypeOK, OpenedInv
<1>2. CASE s = SyncedRow(u)
  BY <1>1, <1>2, SyncedRowMail DEF SameMail
<1>3. CASE s \in MetadataRows(r, u)
  BY <1>1, <1>3, MetadataRowsMail DEF SameMail
<1>4. CASE \/ s = SyncRelation(r)
           \/ \E gid \in Gid : s = [SyncRelation(r) EXCEPT !.ldap_gid = gid]
  BY <1>1, <1>4, SyncRelationMail DEF SameMail
<1>5. CASE s = ActiveRow(r)
  BY <1>1, <1>5, ActiveRowKeeps
<1>6. CASE s = KeyRow(r)
  BY <1>1, <1>6 DEF KeyRow, Row
<1>7. CASE pc = "keys" /\ u = cur
  BY <1>7 DEF OpenedInv, CurrentHasEntry
<1>8. CASE s \in {AfterActivate(r), AfterDeactivate(r), AfterAccount(r),
                  AfterKeyOpened(r)}
  BY <1>1, <1>8, MailRowsKeep
<1>9. CASE \E failed \in SUBSET KeyNotice : s = AfterKeyMails(r, failed)
  BY <1>1, <1>9 DEF AfterKeyMails, Row
<1> QED BY <1>1, <1>2, <1>3, <1>4, <1>5, <1>6, <1>7, <1>8, <1>9 DEF RowChange

\* What a step does to the directory: entries stay, and the user whose stages
\* begin has one.
EntriesStay ==
    /\ \A u \in User : ldap[u].exists => ldap'[u].exists
    /\ pc' \in {"sync", "active", "keys"} => ldap'[cur'].exists

LEMMA LdapErrorEntries ==
    ASSUME TypeOK, cur \in User, NEW r, NEW e \in Entry, e.exists,
           LdapError(r, e)
    PROVE  EntriesStay
<1>1. \A u \in User : ldap[u].exists => ldap'[u].exists
  BY DEF LdapError, TypeOK
<1>2. pc' \notin {"sync", "active", "keys"}
  BY DEF LdapError, NextUser, Abandon
<1> QED BY <1>1, <1>2 DEF EntriesStay

LEMMA LdapDoneEntries ==
    ASSUME TypeOK, cur \in User, NEW r, NEW e \in Entry, e.exists, NEW next,
           LdapDone(r, e, next)
    PROVE  EntriesStay
BY DEF LdapDone, EntriesStay, TypeOK

LEMMA EntriesKept ==
    ASSUME TypeOK, UNCHANGED ldap,
           pc' \in {"sync", "active", "keys"} => pc' = pc /\ cur' = cur,
           CurrentHasEntry
    PROVE  EntriesStay
BY DEF EntriesStay, CurrentHasEntry

LEMMA EntryStep ==
    ASSUME TypeOK, CurrentHasEntry, [Next]_vars PROVE EntriesStay
<1>1. ASSUME NEW u \in User, OpenUser(u) PROVE EntriesStay
  BY <1>1 DEF OpenUser, EntriesStay, NewEntry, TypeOK
<1>2. ASSUME NEW u \in User, OpenUserError(u) PROVE EntriesStay
  <2>1. \A v \in User : ldap[v].exists => ldap'[v].exists
    BY <1>2 DEF OpenUserError, NewEntry, TypeOK
  <2> QED BY <1>2, <2>1 DEF OpenUserError, EntriesStay
<1>3. CASE \/ SyncUser \/ SyncUserError \/ SyncUserSecondError \/ UpdateActive
           \/ UpdateActiveError \/ UpdateKeys \/ UpdateKeysError
  <2>1. /\ cur \in User /\ sess[cur] \in Row /\ ldap[cur] \in Entry
        /\ ldap[cur].exists
    BY <1>3, CurrentTypes DEF SyncUser, SyncUserError, SyncUserSecondError,
       UpdateActive, UpdateActiveError, UpdateKeys, UpdateKeysError, CurrentHasEntry
  <2>2. \A gid \in TargetGids(sess[cur], cur) :
           /\ [ldap[cur] EXCEPT !.gid = gid] \in Entry
           /\ [ldap[cur] EXCEPT !.gid = gid].exists
    BY <2>1, TargetGidsType DEF Entry
  <2>3. /\ [ldap[cur] EXCEPT !.keys = sess[cur].sshkeys_api] \in Entry
        /\ [ldap[cur] EXCEPT !.keys = sess[cur].sshkeys_api].exists
    BY <2>1 DEF Entry, Row
  <2>4. CASE SyncUser
    BY <2>1, <2>2, <2>4, LdapDoneEntries DEF SyncUser
  <2>5. CASE SyncUserError
    BY <2>1, <2>2, <2>5, LdapErrorEntries DEF SyncUserError
  <2>6. CASE SyncUserSecondError
    BY <2>1, <2>6 DEF SyncUserSecondError, NextUser, EntriesStay, TypeOK
  <2>7. CASE UpdateActive
    BY <2>1, <2>7, ActiveEntryType, LdapDoneEntries DEF UpdateActive
  <2>8. CASE UpdateActiveError
    BY <2>1, <2>8, ActiveEntryType, LdapErrorEntries DEF UpdateActiveError
  <2>9. CASE UpdateKeys
    BY <2>1, <2>9 DEF UpdateKeys, NextUser, EntriesStay, TypeOK
  <2>10. CASE UpdateKeysError
    BY <2>1, <2>3, <2>10, LdapErrorEntries DEF UpdateKeysError
  <2> QED BY <1>3, <2>4, <2>5, <2>6, <2>7, <2>8, <2>9, <2>10
<1>4. CASE UpdateGroups \/ LdapCommit \/ LdapUnreachable
  BY <1>4, EntriesKept DEF UpdateGroups, LdapCommit, LdapUnreachable, Abandon
<1>5. CASE FetchSshkeys \/ FetchUserproject \/ FetchError \/ SyncCache \/ SetMetadata
  BY <1>5, EntriesKept DEF FetchSshkeys, FetchUserproject, FetchError, SyncCache,
     SetMetadata
<1>6. CASE EmailSend
  BY <1>6, EntriesKept DEF EmailSend, EmailActivate, EmailDeactivate, EmailAccount,
     Round, EmailKey, MailCommit
<1>7. CASE StartCycle \/ Cancel \/ Die \/ Start \/ \E u \in User : ApiChange(u)
  BY <1>7, EntriesKept DEF StartCycle, Cancel, Die, Abandon, Start, ApiChange
<1>8. CASE UNCHANGED vars
  BY <1>8, EntriesKept DEF vars
<1> QED BY <1>1, <1>2, <1>3, <1>4, <1>5, <1>6, <1>7, <1>8
       DEF Next, DaemonStep, Environment, LdapUpdate, LdapUpdateFails

LEMMA OpenedAlways == Spec => []OpenedInv
<1>1. Init => OpenedInv
  BY DEF Init, OpenedInv, CurrentHasEntry, OpenedHasEntry, BlankRow
<1>2. TypeOK /\ OpenedInv /\ [Next]_vars => OpenedInv'
  <2> SUFFICES ASSUME TypeOK, OpenedInv, [Next]_vars PROVE OpenedInv'
    OBVIOUS
  <2>1. RowsChange /\ EntriesStay
    BY RowChanges, EntryStep DEF OpenedInv
  <2>2. \A u \in User : sess'[u].is_opened => ldap[u].exists
    BY <2>1, OpenedRowChange DEF RowsChange, OpenedInv, OpenedHasEntry
  <2>3. \A u \in User : db'[u].is_opened => ldap[u].exists
    BY <2>1, <2>2 DEF RowsChange, OpenedInv, OpenedHasEntry
  <2> QED BY <2>1, <2>2, <2>3 DEF EntriesStay, OpenedInv, CurrentHasEntry, OpenedHasEntry
<1> QED BY <1>1, <1>2, TypeCorrect, PTL DEF Spec

\* Whatever fails between an add and its commit, a row that counts as opened
\* has an LDAP entry (ldapupdate 608, 624).
THEOREM OpenedAlwaysHasEntry == Spec => []OpenedHasEntry
<1>1. OpenedInv => OpenedHasEntry
  BY DEF OpenedInv
<1> QED BY <1>1, OpenedAlways, PTL

-----------------------------------------------------------------------------
(* NoStrandedKeyNotice, row by row. *)

NamesFlagged(r) ==
    \A n \in r.mail_name_sshkey :
        \/ n[1] = "ADD" /\ ~r.mail_is_sshkeyadded
        \/ n[1] = "DEL" /\ ~r.mail_is_sshkeyremoved

LEMMA KeyRowFlagged ==
    ASSUME NEW r \in Row, NamesFlagged(r) PROVE NamesFlagged(KeyRow(r))
<1> DEFINE s == KeyRow(r)
<1>1. /\ s.mail_name_sshkey = r.mail_name_sshkey
             \cup ({"ADD"} \X KeysAdded(r)) \cup ({"DEL"} \X KeysRemoved(r))
      /\ s.mail_is_sshkeyadded <=> r.mail_is_sshkeyadded /\ KeysAdded(r) = {}
      /\ s.mail_is_sshkeyremoved <=> r.mail_is_sshkeyremoved /\ KeysRemoved(r) = {}
  BY DEF KeyRow, Row
<1> HIDE DEF s
<1>2. \A n \in r.mail_name_sshkey :
         \/ n[1] = "ADD" /\ ~s.mail_is_sshkeyadded
         \/ n[1] = "DEL" /\ ~s.mail_is_sshkeyremoved
  BY <1>1 DEF NamesFlagged
<1>3. \A n \in {"ADD"} \X KeysAdded(r) : n[1] = "ADD" /\ ~s.mail_is_sshkeyadded
  BY <1>1
<1>4. \A n \in {"DEL"} \X KeysRemoved(r) : n[1] = "DEL" /\ ~s.mail_is_sshkeyremoved
  BY <1>1
<1>5. NamesFlagged(s)
  BY <1>1, <1>2, <1>3, <1>4 DEF NamesFlagged
<1> QED BY <1>5 DEF s

LEMMA AfterKeyMailsFlagged ==
    ASSUME NEW r \in Row, NEW failed, NamesFlagged(r)
    PROVE  NamesFlagged(AfterKeyMails(r, failed))
<1> DEFINE added == Named(r, "ADD") \cap failed = {}
           removed == Named(r, "DEL") \cap failed = {}
           s == AfterKeyMails(r, failed)
<1>1. /\ s.mail_name_sshkey = {n \in r.mail_name_sshkey :
                                 IF n[1] = "ADD" THEN ~added ELSE ~removed}
      /\ s.mail_is_sshkeyadded <=> r.mail_is_sshkeyadded \/ added
      /\ s.mail_is_sshkeyremoved <=> r.mail_is_sshkeyremoved \/ removed
  BY DEF AfterKeyMails, Row
<1> HIDE DEF s, added, removed
<1>2. NamesFlagged(s)
  BY <1>1 DEF NamesFlagged
<1> QED BY <1>2 DEF s

LEMMA RowChangeFlagged ==
    ASSUME TypeOK, NEW u \in User, NEW s, RowChange(u, sess[u], s),
           NamesFlagged(sess[u])
    PROVE  NamesFlagged(s)
<1> DEFINE r == sess[u]
<1>1. r \in Row
  BY DEF TypeOK
<1>2. CASE s = SyncedRow(u)
  BY <1>2, SyncedRowMail DEF SameMail, NamesFlagged
<1>3. CASE s \in MetadataRows(r, u)
  BY <1>1, <1>3, MetadataRowsMail DEF SameMail, NamesFlagged
<1>4. CASE \/ s = SyncRelation(r)
           \/ \E gid \in Gid : s = [SyncRelation(r) EXCEPT !.ldap_gid = gid]
  BY <1>1, <1>4, SyncRelationMail DEF SameMail, NamesFlagged
<1>5. CASE s = ActiveRow(r)
  BY <1>1, <1>5, ActiveRowKeeps DEF NamesFlagged
<1>6. CASE s = KeyRow(r) \/ s = [KeyRow(r) EXCEPT !.is_opened = TRUE]
  <2>1. KeyRow(r) \in Row /\ NamesFlagged(KeyRow(r))
    BY <1>1, KeyRowType, KeyRowFlagged
  <2> QED BY <1>6, <2>1 DEF NamesFlagged, Row
<1>7. CASE s \in {AfterActivate(r), AfterDeactivate(r), AfterAccount(r),
                  AfterKeyOpened(r)}
  BY <1>1, <1>7, MailRowsKeep DEF NamesFlagged
<1>8. CASE \E failed \in SUBSET KeyNotice : s = AfterKeyMails(r, failed)
  BY <1>1, <1>8, AfterKeyMailsFlagged
<1> QED BY <1>2, <1>3, <1>4, <1>5, <1>6, <1>7, <1>8 DEF RowChange

\* The session may hold what is not committed yet: both are needed.
FlaggedInv == \A u \in User : NamesFlagged(db[u]) /\ NamesFlagged(sess[u])

LEMMA FlaggedAlways == Spec => []FlaggedInv
<1>1. Init => FlaggedInv
  BY DEF Init, FlaggedInv, NamesFlagged, BlankRow
<1>2. TypeOK /\ FlaggedInv /\ [Next]_vars => FlaggedInv'
  <2> SUFFICES ASSUME TypeOK, FlaggedInv, [Next]_vars PROVE FlaggedInv'
    OBVIOUS
  <2>1. RowsChange
    BY RowChanges
  <2>2. \A u \in User : NamesFlagged(sess'[u])
    BY <2>1, RowChangeFlagged DEF RowsChange, FlaggedInv
  <2> QED BY <2>1, <2>2 DEF RowsChange, FlaggedInv
<1> QED BY <1>1, <1>2, TypeCorrect, PTL DEF Spec

\* A name in mail_name_sshkey always has its flag reset, so that emailsend finds
\* the user (ldapupdate 302-335, emailsend 150-187, 292-295).
THEOREM KeyNoticesNeverStranded == Spec => []NoStrandedKeyNotice
<1>1. FlaggedInv => NoStrandedKeyNotice
  BY DEF FlaggedInv, NamesFlagged, NoStrandedKeyNotice
<1> QED BY <1>1, FlaggedAlways, PTL

-----------------------------------------------------------------------------
(* The refinement of Notices. *)

Whole == {Account, Activated, Deactivated}

\* What need not be told to u any more, as in Notices.
Covered(u) == IF sent[u] \cap Whole # {} THEN KeyNotice \cup sent[u] ELSE sent[u]

NoticeInv ==
    /\ \A u \in User : sent[u] \subseteq Pending(db[u])
    /\ pc \notin MailPc => \A u \in User : Pending(db[u]) \subseteq Pending(sess[u])
    /\ pc \in MailPc => \A u \in User :
           /\ Pending(sess[u]) \subseteq Pending(db[u])
           /\ Pending(db[u]) \ Pending(sess[u]) \subseteq Covered(u)
    /\ pc = "mailkey" => \A u \in opened : Account \in sent[u]

-----------------------------------------------------------------------------
(* Notices. *)

LEMMA NoticesApart ==
    /\ \A n \in KeyNotice : n \notin Whole
    /\ Notice = KeyNotice \cup Whole
    /\ Account # Activated /\ Account # Deactivated /\ Activated # Deactivated
BY DEF KeyNotice, Whole, Account, Activated, Deactivated, Notice

LEMMA PendingType ==
    ASSUME NEW r \in Row PROVE Pending(r) \in SUBSET Notice
BY DEF Pending, Row, Notice

\* A row that asks for at least what another asks for.
LEMMA PendingGrows ==
    ASSUME NEW r, NEW s,
           r.mail_name_sshkey \subseteq s.mail_name_sshkey,
           s.mail_is_opensend = r.mail_is_opensend,
           r.mail_is_activated => s.mail_is_activated,
           r.mail_is_deactivated => s.mail_is_deactivated,
           r.known => s.known
    PROVE  Pending(r) \subseteq Pending(s)
BY DEF Pending

\* Outside emailsend a row never asks for less.
LEMMA RowChangeRaises ==
    ASSUME TypeOK, pc \notin MailPc, NEW u \in User, NEW s,
           RowChange(u, sess[u], s)
    PROVE  Pending(sess[u]) \subseteq Pending(s)
<1> DEFINE r == sess[u]
<1>1. r \in Row
  BY DEF TypeOK
<1>2. ASSUME SameMail(r, s) PROVE Pending(r) \subseteq Pending(s)
  BY <1>2, PendingGrows DEF SameMail
<1>3. CASE s = SyncedRow(u)
  BY <1>2, <1>3, SyncedRowMail
<1>4. CASE s \in MetadataRows(r, u)
  BY <1>1, <1>2, <1>4, MetadataRowsMail
<1>5. CASE \/ s = SyncRelation(r)
           \/ \E gid \in Gid : s = [SyncRelation(r) EXCEPT !.ldap_gid = gid]
  BY <1>1, <1>2, <1>5, SyncRelationMail
<1>6. CASE s = ActiveRow(r)
  <2>1. /\ s.mail_name_sshkey = r.mail_name_sshkey
        /\ s.mail_is_opensend = r.mail_is_opensend
        /\ r.mail_is_activated => s.mail_is_activated
        /\ r.mail_is_deactivated => s.mail_is_deactivated
        /\ s.known = r.known
    BY <1>1, <1>6, ActiveRowKeeps
  <2> QED BY <2>1, PendingGrows
<1>7. CASE s = KeyRow(r) \/ s = [KeyRow(r) EXCEPT !.is_opened = TRUE]
  <2>1. /\ r.mail_name_sshkey \subseteq s.mail_name_sshkey
        /\ s.mail_is_opensend = r.mail_is_opensend
        /\ s.mail_is_activated = r.mail_is_activated
        /\ s.mail_is_deactivated = r.mail_is_deactivated
        /\ s.known = r.known
    <3> DEFINE k == KeyRow(r)
    <3>1. /\ k \in Row
          /\ r.mail_name_sshkey \subseteq k.mail_name_sshkey
          /\ k.mail_is_opensend = r.mail_is_opensend
          /\ k.mail_is_activated = r.mail_is_activated
          /\ k.mail_is_deactivated = r.mail_is_deactivated
          /\ k.known = r.known
      BY <1>1, KeyRowType DEF KeyRow, Row
    <3>2. s = k \/ s = [k EXCEPT !.is_opened = TRUE]
      BY <1>7
    <3> HIDE DEF k
    <3> QED BY <3>1, <3>2 DEF Row
  <2> QED BY <2>1, PendingGrows
<1>8. CASE s = r
  BY <1>8
<1> QED BY <1>3, <1>4, <1>5, <1>6, <1>7, <1>8 DEF RowChange

-----------------------------------------------------------------------------
(* The steps outside emailsend. *)

LEMMA CommitOrKeep ==
    ASSUME TypeOK, pc \notin MailPc, [Next]_vars
    PROVE  UNCHANGED <<db, sent>> \/ Commit(sess')
<1>1. CASE SyncCache \/ SetMetadata \/ LdapCommit
  BY <1>1 DEF SyncCache, SetMetadata, LdapCommit, Commit
<1>2. CASE LdapUpdateFails
  BY <1>2 DEF LdapUpdateFails, OpenUserError, SyncUserError, SyncUserSecondError,
     UpdateActiveError, UpdateKeysError, LdapError, LdapUnreachable
<1>3. CASE (\E u \in User : OpenUser(u)) \/ SyncUser \/ UpdateActive
           \/ UpdateKeys \/ UpdateGroups
  BY <1>3 DEF OpenUser, SyncUser, UpdateActive, LdapDone, UpdateKeys, UpdateGroups
<1>4. CASE \/ FetchSshkeys \/ FetchUserproject \/ FetchError \/ StartCycle
           \/ Cancel \/ Die \/ Start \/ (\E u \in User : ApiChange(u))
           \/ UNCHANGED vars
  BY <1>4 DEF FetchSshkeys, FetchUserproject, FetchError, StartCycle, Cancel, Die,
     Start, ApiChange, vars
<1>5. ~EmailSend
  BY DEF EmailSend, EmailActivate, EmailDeactivate, EmailAccount, Round, EmailKey,
     MailCommit, MailPc
<1> QED BY <1>1, <1>2, <1>3, <1>4, <1>5 DEF Next, DaemonStep, Environment, LdapUpdate

\* emailsend begins where ldapupdate has committed.
LEMMA MailBegins ==
    ASSUME TypeOK, pc \notin MailPc, pc' \in MailPc, [Next]_vars
    PROVE  sess' = db' /\ pc' = "activate"
<1>1. CASE LdapCommit
  BY <1>1 DEF LdapCommit, Commit
<1>2. CASE UNCHANGED vars
  BY <1>2 DEF vars
<1>3. CASE LdapUpdateFails
  BY <1>3 DEF LdapUpdateFails, OpenUserError, SyncUserError, SyncUserSecondError,
     UpdateActiveError, UpdateKeysError, LdapError, LdapUnreachable, NextUser,
     Abandon, MailPc
<1>4. CASE (\E u \in User : OpenUser(u)) \/ SyncUser \/ UpdateActive
           \/ UpdateKeys \/ UpdateGroups
  BY <1>4 DEF OpenUser, SyncUser, UpdateActive, LdapDone, UpdateKeys, NextUser,
     UpdateGroups, MailPc
<1>5. CASE \/ FetchSshkeys \/ FetchUserproject \/ FetchError \/ SyncCache
           \/ SetMetadata \/ StartCycle \/ Cancel \/ Die \/ Start
           \/ (\E u \in User : ApiChange(u))
  BY <1>5 DEF FetchSshkeys, FetchUserproject, FetchError, SyncCache, SetMetadata,
     StartCycle, Cancel, Die, Abandon, Start, ApiChange, MailPc
<1>6. ~EmailSend
  BY DEF EmailSend, EmailActivate, EmailDeactivate, EmailAccount, Round, EmailKey,
     MailCommit, MailPc
<1> QED BY <1>1, <1>2, <1>3, <1>4, <1>5, <1>6
       DEF Next, DaemonStep, Environment, LdapUpdate

LEMMA RaiseStep ==
    ASSUME TypeOK, TypeOK', NoticeInv, pc \notin MailPc, [Next]_vars
    PROVE  NoticeInv' /\ [N!Next]_(N!noticeVars)
<1>1. \A u \in User : sess'[u] = db[u] \/ Pending(sess[u]) \subseteq Pending(sess'[u])
  BY RowChanges, RowChangeRaises DEF RowsChange
<1>2. \A u \in User : Pending(db[u]) \subseteq Pending(sess'[u])
  BY <1>1 DEF NoticeInv
<1> USE DEF NoticeInv
<1>3. (pc' \in MailPc => sess' = db') /\ pc' # "mailkey"
  BY MailBegins DEF MailPc
<1>4. CASE UNCHANGED <<db, sent>>
  <2>1. UNCHANGED N!noticeVars
    BY <1>4 DEF N!noticeVars
  <2>2. \A u \in User : sent'[u] \subseteq Pending(db'[u])
    BY <1>4
  <2>3. \A u \in User : Pending(db'[u]) \subseteq Pending(sess'[u])
    BY <1>2, <1>4
  <2>4. NoticeInv'
    BY <1>3, <2>2, <2>3
  <2> QED BY <2>1, <2>4
<1>5. CASE Commit(sess')
  <2>1. db' = sess'
    BY <1>5 DEF Commit
  <2>2. \A u \in User : sent'[u] = sent[u] \cap Pending(db[u])
    BY <1>2, <1>5 DEF Commit
  <2>3. \A u \in User : Pending(db'[u]) \in SUBSET Notice
    BY PendingType DEF TypeOK
  <2>4. N!Raise
    <3>1. sent' = [u \in User |-> sent[u] \cap Pending(db[u])]
      BY <2>2 DEF TypeOK
    <3> QED BY <1>2, <2>1, <2>3, <3>1 DEF N!Raise
  <2>5. \A u \in User : sent'[u] \subseteq Pending(db'[u])
    BY <1>2, <2>1, <2>2
  <2>6. NoticeInv'
    BY <1>3, <2>1, <2>5
  <2> QED BY <2>4, <2>6 DEF N!Next
<1> QED BY <1>4, <1>5, CommitOrKeep

-----------------------------------------------------------------------------
(* The rounds of emailsend. *)

\* s asks for no more than r, and only for what is in gone no longer.
Drops(r, s, gone) ==
    Pending(s) \subseteq Pending(r) /\ Pending(r) \ Pending(s) \subseteq gone

LEMMA MailRowsDrop ==
    ASSUME NEW r \in Row
    PROVE  /\ Drops(r, AfterActivate(r), KeyNotice \cup {Activated})
           /\ Drops(r, AfterDeactivate(r), KeyNotice \cup {Deactivated})
           /\ Drops(r, AfterAccount(r), KeyNotice \cup {Account})
           /\ Drops(r, AfterKeyOpened(r), KeyNotice)
<1> USE DEF Drops, Pending
<1>1. Drops(r, AfterActivate(r), KeyNotice \cup {Activated})
  BY DEF AfterActivate, Row
<1>2. Drops(r, AfterDeactivate(r), KeyNotice \cup {Deactivated})
  BY DEF AfterDeactivate, Row
<1>3. Drops(r, AfterAccount(r), KeyNotice \cup {Account})
  BY DEF AfterAccount, Row
<1>4. Drops(r, AfterKeyOpened(r), KeyNotice)
  BY DEF AfterKeyOpened, Row
<1> HIDE DEF Drops, Pending
<1> QED BY <1>1, <1>2, <1>3, <1>4

LEMMA AfterKeyMailsDrops ==
    ASSUME NEW r \in Row, NEW failed
    PROVE  Drops(r, AfterKeyMails(r, failed), r.mail_name_sshkey \ failed)
<1> DEFINE added == Named(r, "ADD") \cap failed = {}
           removed == Named(r, "DEL") \cap failed = {}
           s == AfterKeyMails(r, failed)
<1>1. /\ s.mail_name_sshkey = {n \in r.mail_name_sshkey :
                                 IF n[1] = "ADD" THEN ~added ELSE ~removed}
      /\ s.mail_is_opensend = r.mail_is_opensend
      /\ s.mail_is_activated = r.mail_is_activated
      /\ s.mail_is_deactivated = r.mail_is_deactivated
      /\ s.known = r.known
  BY DEF AfterKeyMails, Row
<1>2. \A n \in r.mail_name_sshkey : n[1] \in {"ADD", "DEL"}
  BY DEF Row, KeyNotice
<1>3. \A n \in r.mail_name_sshkey \ s.mail_name_sshkey : n \notin failed
  BY <1>1, <1>2 DEF Named
<1> HIDE DEF s
<1>4. Drops(r, s, r.mail_name_sshkey \ failed)
  BY <1>1, <1>3 DEF Drops, Pending
<1> QED BY <1>4 DEF s

\* A step that delivers: more is sent, all of it pending, and whatever a row no
\* longer asks for is covered by what was sent.
LEMMA DeliverStep ==
    ASSUME TypeOK, TypeOK', NoticeInv, pc \in MailPc, pc' \in MailPc,
           UNCHANGED db,
           \A u \in User : /\ sent[u] \subseteq sent'[u]
                           /\ sent'[u] \subseteq sent[u] \cup Pending(sess[u]),
           \A u \in User : Drops(sess[u], sess'[u], Covered(u)'),
           pc' = "mailkey" => \A u \in opened' : Account \in sent'[u]
    PROVE  NoticeInv' /\ [N!Next]_(N!noticeVars)
<1> USE DEF NoticeInv
<1>1. \A u \in User : Covered(u) \subseteq Covered(u)'
  BY DEF Covered
<1>2. \A u \in User : sent'[u] \subseteq Pending(db'[u])
  OBVIOUS
<1>3. \A u \in User : /\ Pending(sess'[u]) \subseteq Pending(db'[u])
                      /\ Pending(db'[u]) \ Pending(sess'[u]) \subseteq Covered(u)'
  BY <1>1 DEF Drops
<1>4. NoticeInv'
  BY <1>2, <1>3
<1>5. N!Deliver
  <2>1. \A u \in User : sent'[u] \subseteq sent[u] \cup Pending(db[u])
    OBVIOUS
  <2>2. sent' \in [User -> SUBSET Notice]
    BY DEF TypeOK
  <2> QED BY <2>1, <2>2 DEF N!Deliver
<1> QED BY <1>4, <1>5 DEF N!Next

\* A round that sends notice to the users in ok.
LEMMA RoundDelivers ==
    ASSUME TypeOK, TypeOK', NoticeInv, pc \in MailPc, pc' \in MailPc,
           UNCHANGED db,
           NEW notice \in Whole, NEW ok \in SUBSET User,
           \A u \in ok : notice \in Pending(sess[u]),
           \A u \in User : IF u \in ok
               THEN Drops(sess[u], sess'[u], KeyNotice \cup {notice})
               ELSE sess'[u] = sess[u],
           sent' = [u \in User |-> IF u \in ok THEN sent[u] \cup {notice}
                                               ELSE sent[u]],
           pc' = "mailkey" => notice = Account /\ opened' = ok
    PROVE  NoticeInv' /\ [N!Next]_(N!noticeVars)
<1>1. \A u \in User : /\ sent[u] \subseteq sent'[u]
                      /\ sent'[u] \subseteq sent[u] \cup Pending(sess[u])
  OBVIOUS
<1>2. \A u \in User : Drops(sess[u], sess'[u], Covered(u)')
  <2> TAKE u \in User
  <2>1. CASE u \in ok
    <3>1. notice \in sent'[u] \cap Whole
      BY <2>1
    <3>2. Covered(u)' = KeyNotice \cup sent'[u]
      BY <3>1 DEF Covered
    <3> QED BY <2>1, <3>1, <3>2 DEF Drops
  <2>2. CASE u \notin ok
    BY <2>2 DEF Drops
  <2> QED BY <2>1, <2>2
<1>3. pc' = "mailkey" => \A u \in opened' : Account \in sent'[u]
  OBVIOUS
<1> QED BY <1>1, <1>2, <1>3, DeliverStep

LEMMA RoundStep ==
    ASSUME TypeOK, TypeOK', NoticeInv,
           EmailActivate \/ EmailDeactivate \/ EmailAccount
    PROVE  NoticeInv' /\ [N!Next]_(N!noticeVars)
<1>1. CASE EmailActivate
  <2>1. PICK ok \in Accepted({u \in User : sess[u].mail_is_activated}) :
           /\ sess' = [u \in User |-> IF u \in ok THEN AfterActivate(sess[u]) ELSE sess[u]]
           /\ sent' = [u \in User |-> IF u \in ok THEN sent[u] \cup {Activated}
                                                  ELSE sent[u]]
           /\ pc' # "mailkey"
    BY <1>1 DEF EmailActivate, Round
  <2>2. ok \in SUBSET User /\ \A u \in ok : Activated \in Pending(sess[u])
    BY DEF Accepted, Pending
  <2>3. \A u \in User : IF u \in ok
           THEN Drops(sess[u], sess'[u], KeyNotice \cup {Activated})
           ELSE sess'[u] = sess[u]
    BY <2>1, MailRowsDrop DEF TypeOK
  <2>4. Activated \in Whole /\ pc \in MailPc /\ pc' \in MailPc /\ UNCHANGED db
    BY <1>1 DEF EmailActivate, Round, MailPc, Whole
  <2> QED BY <2>1, <2>2, <2>3, <2>4, RoundDelivers
<1>2. CASE EmailDeactivate
  <2>1. PICK ok \in Accepted({u \in User : sess[u].mail_is_deactivated}) :
           /\ sess' = [u \in User |-> IF u \in ok THEN AfterDeactivate(sess[u]) ELSE sess[u]]
           /\ sent' = [u \in User |-> IF u \in ok THEN sent[u] \cup {Deactivated}
                                                  ELSE sent[u]]
           /\ pc' # "mailkey"
    BY <1>2 DEF EmailDeactivate, Round
  <2>2. ok \in SUBSET User /\ \A u \in ok : Deactivated \in Pending(sess[u])
    BY DEF Accepted, Pending
  <2>3. \A u \in User : IF u \in ok
           THEN Drops(sess[u], sess'[u], KeyNotice \cup {Deactivated})
           ELSE sess'[u] = sess[u]
    BY <2>1, MailRowsDrop DEF TypeOK
  <2>4. Deactivated \in Whole /\ pc \in MailPc /\ pc' \in MailPc /\ UNCHANGED db
    BY <1>2 DEF EmailDeactivate, Round, MailPc, Whole
  <2> QED BY <2>1, <2>2, <2>3, <2>4, RoundDelivers
<1>3. CASE EmailAccount
  <2>1. PICK ok \in Accepted({u \in User : sess[u].known /\ ~sess[u].mail_is_opensend}) :
           /\ sess' = [u \in User |-> IF u \in ok THEN AfterAccount(sess[u]) ELSE sess[u]]
           /\ sent' = [u \in User |-> IF u \in ok THEN sent[u] \cup {Account}
                                                  ELSE sent[u]]
           /\ opened' = ok
    BY <1>3 DEF EmailAccount, Round
  <2>2. ok \in SUBSET User /\ \A u \in ok : Account \in Pending(sess[u])
    BY DEF Accepted, Pending
  <2>3. \A u \in User : IF u \in ok
           THEN Drops(sess[u], sess'[u], KeyNotice \cup {Account})
           ELSE sess'[u] = sess[u]
    BY <2>1, MailRowsDrop DEF TypeOK
  <2>4. Account \in Whole /\ pc \in MailPc /\ pc' \in MailPc /\ UNCHANGED db
    BY <1>3 DEF EmailAccount, Round, MailPc, Whole
  <2> QED BY <2>1, <2>2, <2>3, <2>4, RoundDelivers
<1> QED BY <1>1, <1>2, <1>3

LEMMA EmailKeyStep ==
    ASSUME TypeOK, TypeOK', NoticeInv, EmailKey
    PROVE  NoticeInv' /\ [N!Next]_(N!noticeVars)
<1> DEFINE failed(u, delivered) ==
             {n \in KeyNotice : <<u, n>> \in KeyMails \ delivered}
<1>1. PICK delivered \in Accepted(KeyMails) :
         /\ sess' = [u \in User |->
               IF u \notin KeyMailUsers THEN sess[u]
               ELSE IF u \in opened THEN AfterKeyOpened(sess[u])
               ELSE AfterKeyMails(sess[u], failed(u, delivered))]
         /\ sent' = [u \in User |->
               sent[u] \cup {n \in KeyNotice : <<u, n>> \in delivered}]
  BY DEF EmailKey
<1>2. /\ pc = "mailkey" /\ pc' = "mailcommit" /\ UNCHANGED db
      /\ pc \in MailPc /\ pc' \in MailPc
  BY DEF EmailKey, MailPc
<1>3. delivered \subseteq KeyMails
  BY DEF Accepted
<1>4. \A u \in User, n \in KeyNotice :
         <<u, n>> \in KeyMails <=> /\ u \in KeyMailUsers \ opened
                                   /\ n \in sess[u].mail_name_sshkey
  BY DEF KeyMails, KeyMailUsers
<1>5. \A u \in User : /\ sent[u] \subseteq sent'[u]
                      /\ sent'[u] \subseteq sent[u] \cup Pending(sess[u])
  BY <1>1, <1>3, <1>4 DEF Pending
<1>6. \A u \in User : Drops(sess[u], sess'[u], Covered(u)')
  <2> TAKE u \in User
  <2>1. sess[u] \in Row /\ sess[u].mail_name_sshkey \subseteq KeyNotice
    BY DEF TypeOK, Row
  <2>2. sent[u] \subseteq sent'[u] /\ sent'[u] \subseteq Covered(u)'
    BY <1>5 DEF Covered
  <2>3. CASE u \notin KeyMailUsers
    BY <1>1, <2>3 DEF Drops
  <2>4. CASE u \in KeyMailUsers /\ u \in opened
    <3>1. Account \in sent'[u] \cap Whole
      BY <1>2, <2>2, <2>4 DEF NoticeInv, Whole
    <3>2. KeyNotice \subseteq Covered(u)'
      BY <3>1 DEF Covered
    <3>3. Drops(sess[u], sess'[u], KeyNotice)
      BY <1>1, <2>1, <2>4, MailRowsDrop
    <3> QED BY <3>2, <3>3 DEF Drops
  <2>5. CASE u \in KeyMailUsers /\ u \notin opened
    <3>1. Drops(sess[u], sess'[u],
                sess[u].mail_name_sshkey \ failed(u, delivered))
      BY <1>1, <2>1, <2>5, AfterKeyMailsDrops
    <3>2. sess[u].mail_name_sshkey \ failed(u, delivered) \subseteq sent'[u]
      BY <1>1, <1>4, <2>1, <2>5
    <3> QED BY <2>2, <3>1, <3>2 DEF Drops
  <2> QED BY <2>3, <2>4, <2>5
<1> QED BY <1>2, <1>5, <1>6, DeliverStep

-----------------------------------------------------------------------------
(* The end of emailsend: its commit, or the one of a cancelled run. *)

LEMMA SettleStep ==
    ASSUME TypeOK, TypeOK', NoticeInv, pc \in MailPc, pc' \notin MailPc,
           Commit(sess)
    PROVE  NoticeInv' /\ [N!Next]_(N!noticeVars)
<1> USE DEF NoticeInv
<1>1. db' = sess /\ sess' = sess
  BY DEF Commit
<1>2. \A u \in User : sent'[u] = sent[u] \cap Pending(db'[u])
  BY DEF Commit
<1>3. NoticeInv'
  <2>1. pc' # "mailkey"
    BY DEF MailPc
  <2> QED BY <1>1, <1>2, <2>1
<1>4. N!Settle
  <2>1. \A u \in User : Pending(db'[u]) \in SUBSET Notice
    BY PendingType DEF TypeOK
  <2>2. sent' = [u \in User |-> sent[u] \cap Pending(db'[u])]
    BY <1>2 DEF TypeOK
  <2>3. \A u \in User : Covered(u) = N!Settled(u)
    BY NoticesApart DEF Covered, N!Settled, Whole
  <2>4. \A u \in User : /\ Pending(db'[u]) \subseteq Pending(db[u])
                        /\ Pending(db[u]) \ Pending(db'[u]) \subseteq N!Settled(u)
    BY <1>1, <2>3
  <2> QED BY <2>1, <2>2, <2>4 DEF N!Settle
<1> QED BY <1>3, <1>4 DEF N!Next

LEMMA MailSteps ==
    ASSUME TypeOK, TypeOK', NoticeInv, pc \in MailPc, [Next]_vars
    PROVE  NoticeInv' /\ [N!Next]_(N!noticeVars)
<1>1. CASE EmailActivate \/ EmailDeactivate \/ EmailAccount
  BY <1>1, RoundStep
<1>2. CASE EmailKey
  BY <1>2, EmailKeyStep
<1>3. CASE MailCommit \/ Cancel
  BY <1>3, SettleStep DEF MailCommit, Cancel, MailPc
<1>4. CASE Die
  <2>1. sess' = db' /\ pc' = "down" /\ UNCHANGED <<db, sent>>
    BY <1>4 DEF Die, Abandon
  <2>2. NoticeInv'
    BY <2>1 DEF NoticeInv, MailPc
  <2>3. UNCHANGED N!noticeVars
    BY <2>1 DEF N!noticeVars
  <2> QED BY <2>2, <2>3
<1>5. CASE UNCHANGED vars
  <2>1. NoticeInv'
    BY <1>5 DEF NoticeInv, Covered, vars
  <2>2. UNCHANGED N!noticeVars
    BY <1>5 DEF N!noticeVars, vars
  <2> QED BY <2>1, <2>2
<1>6. ~LdapUpdate /\ ~LdapUpdateFails
  BY DEF LdapUpdate, LdapUpdateFails, OpenUser, OpenUserError, SyncUser,
     SyncUserError, SyncUserSecondError, UpdateActive, UpdateActiveError,
     UpdateKeys, UpdateKeysError, UpdateGroups, LdapCommit, LdapUnreachable, MailPc
<1>7. /\ ~FetchSshkeys /\ ~FetchUserproject /\ ~FetchError /\ ~SyncCache
      /\ ~SetMetadata /\ ~StartCycle /\ ~Start
      /\ \A u \in User : ~ApiChange(u)
  BY DEF FetchSshkeys, FetchUserproject, FetchError, SyncCache, SetMetadata,
     StartCycle, Start, ApiChange, MailPc
<1> QED BY <1>1, <1>2, <1>3, <1>4, <1>5, <1>6, <1>7
       DEF Next, DaemonStep, Environment, EmailSend

\* Through refused mails, cancellations and crashes, every notice a committed
\* row asks for is delivered before it is forgotten, or covered by a mail about
\* the whole account (emailsend 125-187, 264-320).
THEOREM PipelineImplementsNotices == Spec => NoticesDelivered
<1>1. Init => NoticeInv /\ N!Init
  BY DEF Init, NoticeInv, N!Init, Pending, BlankRow, MailPc
<1>2. TypeOK /\ TypeOK' /\ NoticeInv /\ [Next]_vars
        => NoticeInv' /\ [N!Next]_(N!noticeVars)
  BY RaiseStep, MailSteps
<1> QED BY <1>1, <1>2, TypeCorrect, PTL DEF Spec, NoticesDelivered, N!Spec

-----------------------------------------------------------------------------
\* A step of an undisturbed cycle is one of the daemon, or one that begins anew.
LEMMA UndisturbedStep ==
    ASSUME TypeOK, [Next]_vars, quiet' >= 0
    PROVE  \/ DaemonStep \/ UNCHANGED vars \/ Start
           \/ \E u \in User : ApiChange(u) /\ pc = "sleep"
<1>1. ~FetchError /\ ~Cancel /\ ~Die
  BY DEF FetchError, Cancel, Die, Abandon, Disturbed
<1>2. \A r, e : ~LdapError(r, e)
  BY DEF LdapError, Abandon, Disturbed
<1>3. ~LdapUpdateFails
  <2>1. ~SyncUserError /\ ~UpdateActiveError /\ ~UpdateKeysError
    BY <1>2 DEF SyncUserError, UpdateActiveError, UpdateKeysError
  <2>2. ~SyncUserSecondError /\ ~LdapUnreachable
    BY DEF SyncUserSecondError, LdapUnreachable, Abandon, Disturbed
  <2>3. \A u \in User : ~OpenUserError(u)
    BY DEF OpenUserError, Disturbed
  <2> QED BY <2>1, <2>2, <2>3 DEF LdapUpdateFails
<1>4. \A u \in User : ApiChange(u) => pc = "sleep"
  BY DEF ApiChange
<1> QED BY <1>1, <1>3, <1>4 DEF Next, Environment

\* The stages in which the session may hold what is not committed, and those
\* that come when every user has been processed.
WorkPc == LdapPc \cup MailPc
LatePc == {"commit"} \cup MailPc

StageInv ==
    /\ pc \notin WorkPc => sess = db
    /\ pc \in LatePc => todo = {}
    /\ pc \in {"sync", "active", "keys"} => cur \in todo

LEMMA StageStep ==
    ASSUME TypeOK, StageInv, [Next]_vars PROVE StageInv'
<1> USE DEF StageInv, WorkPc, LatePc, LdapPc, MailPc
<1>1. CASE SyncCache \/ SetMetadata
  BY <1>1 DEF SyncCache, SetMetadata, Commit
<1>2. ASSUME NEW u \in User, OpenUser(u) \/ OpenUserError(u) PROVE StageInv'
  BY <1>2 DEF OpenUser, OpenUserError
<1>3. ASSUME pc \in LdapPc, NEW r, NEW e, LdapError(r, e) PROVE StageInv'
  BY <1>3 DEF LdapError, NextUser, Abandon
<1>4. CASE SyncUserError \/ SyncUserSecondError \/ UpdateActiveError
           \/ UpdateKeysError \/ LdapUnreachable
  BY <1>3, <1>4 DEF SyncUserError, SyncUserSecondError, UpdateActiveError,
     UpdateKeysError, LdapUnreachable, NextUser, Abandon
<1>5. CASE SyncUser \/ UpdateActive \/ UpdateKeys \/ UpdateGroups \/ LdapCommit
  BY <1>5 DEF SyncUser, UpdateActive, UpdateKeys, UpdateGroups, LdapCommit,
     LdapDone, NextUser, Commit
<1>6. CASE EmailSend
  BY <1>6 DEF EmailSend, EmailActivate, EmailDeactivate, EmailAccount, Round,
     EmailKey, MailCommit, Commit
<1>7. CASE Cancel \/ Die \/ Start \/ StartCycle
  BY <1>7 DEF Cancel, Die, Abandon, Start, StartCycle, Commit
<1>8. CASE \/ FetchSshkeys \/ FetchUserproject \/ FetchError
           \/ \E u \in User : ApiChange(u)
  BY <1>8 DEF FetchSshkeys, FetchUserproject, FetchError, ApiChange
<1>9. CASE UNCHANGED vars
  BY <1>9 DEF vars
<1> QED BY <1>1, <1>2, <1>4, <1>5, <1>6, <1>7, <1>8, <1>9
       DEF Next, DaemonStep, Environment, LdapUpdate, LdapUpdateFails

-----------------------------------------------------------------------------
(* A row keeps, after apisync, what apisync has written. *)

SameSync(r, s) ==
    /\ s.known = r.known
    /\ s.is_active = r.is_active
    /\ s.projects_api = r.projects_api
    /\ s.sshkeys_api = r.sshkeys_api

LEMMA RowChangeSync ==
    ASSUME NEW u, NEW r \in Row, NEW s, RowChange(u, r, s), pc # "fetch"
    PROVE  SameSync(r, s)
<1> USE DEF SameSync
<1>1. CASE s \in MetadataRows(r, u)
  <2>1. s = r \/ \E gid : s = [r EXCEPT !.ldap_uid = TRUE, !.ldap_gid = gid]
    BY <1>1 DEF MetadataRows
  <2> QED BY <2>1 DEF Row
<1>2. CASE \/ s = SyncRelation(r)
           \/ \E gid \in Gid : s = [SyncRelation(r) EXCEPT !.ldap_gid = gid]
  BY <1>2 DEF SyncRelation, Row
<1>3. CASE s = ActiveRow(r)
  BY <1>3 DEF ActiveRow, Row
<1>4. CASE s = KeyRow(r) \/ s = [KeyRow(r) EXCEPT !.is_opened = TRUE]
  BY <1>4 DEF KeyRow, Row
<1>5. CASE s \in {AfterActivate(r), AfterDeactivate(r), AfterAccount(r),
                  AfterKeyOpened(r)}
  BY <1>5 DEF AfterActivate, AfterDeactivate, AfterAccount, AfterKeyOpened, Row
<1>6. CASE \E failed \in SUBSET KeyNotice : s = AfterKeyMails(r, failed)
  BY <1>6 DEF AfterKeyMails, Row
<1>7. CASE s = r
  BY <1>7
<1> QED BY <1>1, <1>2, <1>3, <1>4, <1>5, <1>6, <1>7 DEF RowChange

\* An undisturbed step other than the commit of apisync.
LEMMA UndisturbedSync ==
    ASSUME TypeOK, StageInv, [Next]_vars, quiet' >= 0, ~SyncCache
    PROVE  \A u \in User : SameSync(sess[u], sess'[u])
<1>1. CASE pc # "fetch"
  <2>1. \A u \in User : RowChange(u, sess[u], sess'[u])
    BY RowChanges DEF RowsChange, Disturbed
  <2> QED BY <1>1, <2>1, RowChangeSync DEF TypeOK
<1>2. CASE pc = "fetch"
  <2>1. ~SetMetadata /\ ~LdapUpdate /\ ~EmailSend /\ ~Start /\ ~StartCycle
    BY <1>2 DEF SetMetadata, LdapUpdate, OpenUser, SyncUser, UpdateActive,
       UpdateKeys, UpdateGroups, LdapCommit, EmailSend, EmailActivate,
       EmailDeactivate, EmailAccount, Round, EmailKey, MailCommit, Start, StartCycle
  <2>2. UNCHANGED sess
    BY <1>2, <2>1, UndisturbedStep
       DEF DaemonStep, FetchSshkeys, FetchUserproject, vars
  <2> QED BY <2>2 DEF SameSync
<1> QED BY <1>1, <1>2

-----------------------------------------------------------------------------
(* Rows are tidy: a project is listed once, and there is nothing to a row  *)
(* the cache has never seen.                                               *)

Blank(r) ==
    /\ r.projects_api = << >> /\ r.project = {}
    /\ r.sshkeys_api = {} /\ r.sshkey = {}
    /\ ~r.is_active /\ r.mail_name_sshkey = {}
TidyRow(r) == Distinct(r.projects_api) /\ (~r.known => Blank(r))

TidyInv ==
    /\ \A u \in User : TidyRow(db[u]) /\ TidyRow(sess[u])
    /\ \A u \in User : Distinct(fetched.userproject[u].projects)

\* Field by field.
LEMMA SyncedRowTidy ==
    ASSUME TypeOK, TidyInv, NEW u \in User PROVE TidyRow(SyncedRow(u))
<1> DEFINE r == sess[u]
           r1 == CheckUsersInactive(r, u)
           r2 == UsersProjectsAdd(r1, u)
           r3 == UsersProjectsDel(r2, u)
           r4 == SshkeysAdd(r3, u)
<1>1. r \in Row /\ TidyRow(r)
  BY DEF TypeOK, TidyInv
<1>2. r1 \in Row /\ TidyRow(r1)
  <2>1. Distinct(<< >>)
    BY EmptySeq DEF Distinct
  <2> QED BY <1>1, <2>1, CheckUsersInactiveType
         DEF CheckUsersInactive, TidyRow, Blank, Row
<1> HIDE DEF r1
<1>3. r2 \in Row /\ TidyRow(r2) /\ (u \in Listed => r2.known)
  <2> DEFINE up == fetched.userproject[u]
             ps == AppendMissing(r1.projects_api, up.projects)
  <2>1. Distinct(ps)
    <3>1. r1.projects_api \in Seq(Project) /\ up.projects \in Seq(Project)
      BY <1>2 DEF Row, TypeOK
    <3> QED BY <1>2, <3>1, AppendMissingList DEF TidyInv, TidyRow
  <2> HIDE DEF ps
  <2>2. r2 = IF u \in Listed THEN [r1 EXCEPT !.known = TRUE, !.is_active = up.status,
                                             !.projects_api = ps]
                             ELSE r1
    BY DEF UsersProjectsAdd, ps
  <2> QED BY <1>2, <2>1, <2>2, UsersProjectsAddType DEF TidyRow, Row
<1> HIDE DEF r2
<1>4. r3 \in Row /\ TidyRow(r3) /\ (u \in Listed => r3.known)
  BY <1>3, UsersProjectsDelType DEF UsersProjectsDel, TidyRow, TidyInv, Row
<1> HIDE DEF r3
<1>5. r4 \in Row /\ TidyRow(r4)
  BY <1>4, SshkeysType DEF SshkeysAdd, ApiKeys, TidyRow, Blank, Row
<1> HIDE DEF r4
<1>6. TidyRow(SshkeysDel(r4, u))
  BY <1>5 DEF SshkeysDel, TidyRow, Row
<1>7. SyncedRow(u) = SshkeysDel(r4, u)
  BY DEF SyncedRow, r1, r2, r3, r4
<1> QED BY <1>6, <1>7

LEMMA RowChangeTidy ==
    ASSUME TypeOK, TidyInv, NEW u \in User, NEW s, RowChange(u, sess[u], s)
    PROVE  TidyRow(s)
<1> DEFINE r == sess[u]
<1>1. r \in Row /\ TidyRow(r)
  BY DEF TypeOK, TidyInv
<1>2. CASE s = SyncedRow(u)
  BY <1>2, SyncedRowTidy
<1>3. CASE s \in MetadataRows(r, u)
  <2>1. s = r \/ \E gid : s = [r EXCEPT !.ldap_uid = TRUE, !.ldap_gid = gid]
    BY <1>3 DEF MetadataRows
  <2> QED BY <1>1, <2>1 DEF Row, TidyRow, Blank
<1>4. CASE \/ s = SyncRelation(r)
           \/ \E gid \in Gid : s = [SyncRelation(r) EXCEPT !.ldap_gid = gid]
  <2>1. SetOf(<< >>) = {}
    BY EmptySeq DEF SetOf
  <2> QED BY <1>1, <1>4, <2>1 DEF SyncRelation, Row, TidyRow, Blank
<1>5. CASE s = ActiveRow(r)
  BY <1>1, <1>5 DEF ActiveRow, Row, TidyRow, Blank
<1>6. CASE s = KeyRow(r) \/ s = [KeyRow(r) EXCEPT !.is_opened = TRUE]
  <2>1. /\ s.projects_api = r.projects_api /\ s.known = r.known
        /\ s.project = r.project /\ s.sshkeys_api = r.sshkeys_api
        /\ s.sshkey = r.sshkeys_api /\ s.is_active = r.is_active
    BY <1>1, <1>6 DEF KeyRow, Row
  <2>2. s.mail_name_sshkey = r.mail_name_sshkey
             \cup ({"ADD"} \X KeysAdded(r)) \cup ({"DEL"} \X KeysRemoved(r))
    BY <1>1, <1>6 DEF KeyRow, Row
  <2>3. Blank(r) => s.mail_name_sshkey = {}
    BY <2>2 DEF Blank, KeysAdded, KeysRemoved
  <2> QED BY <1>1, <2>1, <2>3 DEF TidyRow, Blank
<1>7. CASE s \in {AfterActivate(r), AfterDeactivate(r), AfterAccount(r),
                  AfterKeyOpened(r)}
  BY <1>1, <1>7 DEF AfterActivate, AfterDeactivate, AfterAccount, AfterKeyOpened,
     Row, TidyRow, Blank
<1>8. CASE \E failed \in SUBSET KeyNotice : s = AfterKeyMails(r, failed)
  <2>1. PICK failed \in SUBSET KeyNotice : s = AfterKeyMails(r, failed)
    BY <1>8
  <2>2. /\ s.projects_api = r.projects_api /\ s.known = r.known
        /\ s.project = r.project /\ s.sshkeys_api = r.sshkeys_api
        /\ s.sshkey = r.sshkey /\ s.is_active = r.is_active
        /\ s.mail_name_sshkey \subseteq r.mail_name_sshkey
    BY <1>1, <2>1 DEF AfterKeyMails, Row
  <2> QED BY <1>1, <2>2 DEF TidyRow, Blank
<1>9. CASE s = r
  BY <1>1, <1>9
<1> QED BY <1>2, <1>3, <1>4, <1>5, <1>6, <1>7, <1>8, <1>9 DEF RowChange

LEMMA FetchedStays ==
    ASSUME TypeOK, [Next]_vars
    PROVE  \/ UNCHANGED fetched \/ fetched' = NothingFetched
           \/ FetchSshkeys \/ FetchUserproject
<1>1. ASSUME NEW r, NEW e, LdapError(r, e)
      PROVE  UNCHANGED fetched \/ fetched' = NothingFetched
  BY <1>1 DEF LdapError, Abandon
<1>2. CASE LdapUpdateFails
  BY <1>1, <1>2 DEF LdapUpdateFails, OpenUserError, SyncUserError,
     SyncUserSecondError, UpdateActiveError, UpdateKeysError, LdapUnreachable, Abandon
<1>3. CASE LdapUpdate
  BY <1>3 DEF LdapUpdate, OpenUser, SyncUser, UpdateActive, UpdateKeys,
     UpdateGroups, LdapCommit, LdapDone
<1>4. CASE EmailSend
  BY <1>4 DEF EmailSend, EmailActivate, EmailDeactivate, EmailAccount, Round,
     EmailKey, MailCommit
<1>5. CASE \/ StartCycle \/ SyncCache \/ SetMetadata \/ Cancel \/ Die \/ Start
           \/ FetchError \/ (\E u \in User : ApiChange(u)) \/ UNCHANGED vars
  BY <1>5 DEF StartCycle, SyncCache, SetMetadata, Cancel, Die, Abandon, Start,
     FetchError, ApiChange, vars
<1> QED BY <1>2, <1>3, <1>4, <1>5 DEF Next, DaemonStep, Environment

LEMMA TidyStep ==
    ASSUME TypeOK, TidyInv, [Next]_vars PROVE TidyInv'
<1>1. \A u \in User : TidyRow(sess'[u])
  BY RowChanges, RowChangeTidy DEF RowsChange, TidyInv
<1>2. \A u \in User : TidyRow(db'[u])
  BY <1>1, RowChanges DEF RowsChange, TidyInv
<1>3. \A u \in User : Distinct(fetched'.userproject[u].projects)
  <2>1. Distinct(<< >>) /\ \A u \in User : Distinct(api[u].projects)
    BY ApiAssumption, EmptySeq DEF Distinct, TypeOK
  <2>2. CASE FetchUserproject
    BY <2>1, <2>2 DEF FetchUserproject, TypeOK
  <2>3. CASE FetchSshkeys
    BY <2>3 DEF FetchSshkeys, TypeOK, TidyInv
  <2>4. CASE UNCHANGED fetched \/ fetched' = NothingFetched
    BY <2>1, <2>4 DEF NothingFetched, TidyInv
  <2> QED BY <2>2, <2>3, <2>4, FetchedStays
<1> QED BY <1>1, <1>2, <1>3 DEF TidyInv, TidyRow, Blank

LEMMA Foundations == Spec => [](TypeOK /\ StageInv /\ TidyInv)
<1>1. Init => StageInv /\ TidyInv
  <2>1. Distinct(<< >>)
    BY EmptySeq DEF Distinct
  <2> QED BY <2>1 DEF Init, StageInv, LatePc, MailPc, TidyInv, TidyRow, Blank,
         BlankRow, NothingFetched
<1>2. TypeOK /\ StageInv /\ [Next]_vars => StageInv'
  BY StageStep
<1>3. TypeOK /\ TidyInv /\ [Next]_vars => TidyInv'
  BY TidyStep
<1> QED BY <1>1, <1>2, <1>3, TypeCorrect, PTL DEF Spec

-----------------------------------------------------------------------------
(* The stages of ldapupdate, for one user after the other.  Passed says    *)
(* that u has been through the stages before those given, in this cycle    *)
(* or in the one that ended last.                                          *)

Passed(u, stages) ==
    \/ quiet >= 1 /\ pc \in {"sleep", "fetch"}
    \/ quiet >= 0 /\ pc \in LatePc
    \/ quiet >= 0 /\ pc \in LdapPc /\ (u \notin todo \/ (u = cur /\ pc \in stages))

Relates(r) == r.project = SetOf(r.projects_api)
Placed(r) == r.is_active => ~r.is_deactivated
Keyed(r) == r.sshkey = r.sshkeys_api

WorkInv == \A u \in User :
    /\ Passed(u, {"active", "keys"}) => Relates(sess[u])
    /\ Passed(u, {"keys"}) => Placed(sess[u])
    /\ Passed(u, {}) => Keyed(sess[u])

\* What emailsend leaves alone.
SameWork(r, s) ==
    /\ SameSync(r, s)
    /\ s.project = r.project /\ s.sshkey = r.sshkey
    /\ s.is_deactivated = r.is_deactivated /\ s.ldap_gid = r.ldap_gid

LEMMA EmailWork ==
    ASSUME TypeOK, EmailSend
    PROVE  \A u \in User : SameWork(sess[u], sess'[u])
<1>1. \A r \in Row : /\ SameWork(r, r)
                     /\ SameWork(r, AfterActivate(r))
                     /\ SameWork(r, AfterDeactivate(r))
                     /\ SameWork(r, AfterAccount(r))
                     /\ SameWork(r, AfterKeyOpened(r))
  BY DEF SameWork, SameSync, AfterActivate, AfterDeactivate, AfterAccount,
     AfterKeyOpened, Row
<1>2. \A r \in Row : \A failed : SameWork(r, AfterKeyMails(r, failed))
  BY DEF SameWork, SameSync, AfterKeyMails, Row
<1>3. \A u \in User : sess[u] \in Row
  BY DEF TypeOK
<1>4. CASE EmailActivate \/ EmailDeactivate \/ EmailAccount
  BY <1>1, <1>3, <1>4 DEF EmailActivate, EmailDeactivate, EmailAccount, Round
<1>5. CASE EmailKey
  BY <1>1, <1>2, <1>3, <1>5 DEF EmailKey
<1>6. CASE MailCommit
  BY <1>1, <1>3, <1>6 DEF MailCommit, Commit
<1> QED BY <1>4, <1>5, <1>6 DEF EmailSend

\* In an undisturbed cycle every mail of a round is accepted.
LEMMA MailsUndisturbed ==
    ASSUME TypeOK, quiet' >= 0,
           EmailActivate \/ EmailDeactivate \/ EmailAccount \/ EmailKey
    PROVE  quiet' = quiet
<1>1. CASE EmailActivate
  BY <1>1 DEF EmailActivate, Round
<1>2. CASE EmailDeactivate
  BY <1>2 DEF EmailDeactivate, Round
<1>3. CASE EmailAccount
  BY <1>3 DEF EmailAccount, Round
<1>4. CASE EmailKey
  BY <1>4 DEF EmailKey
<1> QED BY <1>1, <1>2, <1>3, <1>4

LEMMA WorkStage ==
    ASSUME TypeOK, WorkInv, quiet' >= 0, SyncUser \/ UpdateActive \/ UpdateKeys
    PROVE  WorkInv'
<1> DEFINE r == sess[cur]
<1>1. cur \in User /\ r \in Row
  BY CurrentTypes DEF SyncUser, UpdateActive, UpdateKeys
<1>2. CASE SyncUser
  <2>1. PICK s : /\ \/ s = SyncRelation(r)
                    \/ \E gid : s = [SyncRelation(r) EXCEPT !.ldap_gid = gid]
                 /\ sess' = [sess EXCEPT ![cur] = s]
    BY <1>2 DEF SyncUser, LdapDone
  <2>2. Relates(s) /\ (Placed(r) => Placed(s)) /\ (Keyed(r) => Keyed(s))
    BY <1>1, <2>1 DEF SyncRelation, Row, Relates, Placed, Keyed
  <2>3. \A u \in User : sess'[u] = IF u = cur THEN s ELSE sess[u]
    BY <1>1, <2>1 DEF TypeOK
  <2>4. /\ pc = "sync" /\ pc' = "active" /\ UNCHANGED <<todo, cur, quiet>>
    BY <1>2 DEF SyncUser, LdapDone
  <2> HIDE DEF r
  <2>5. \A u \in User : u # cur \/ u \notin todo =>
           \A stages : (stages = {} \/ stages = {"keys"} \/ stages = {"active", "keys"})
              /\ Passed(u, stages)' => Passed(u, stages)
    BY <2>4 DEF Passed, LatePc, MailPc, LdapPc
  <2>6. \A u \in User : u = cur /\ u \in todo =>
           ~Passed(u, {})' /\ ~Passed(u, {"keys"})'
    BY <2>4 DEF Passed, LatePc, MailPc, LdapPc
  <2> QED BY <2>2, <2>3, <2>5, <2>6 DEF WorkInv, r
<1>3. CASE UpdateActive
  <2> DEFINE s == ActiveRow(r)
  <2>1. Placed(s) /\ (Relates(r) => Relates(s)) /\ (Keyed(r) => Keyed(s))
    BY <1>1 DEF ActiveRow, Deactivates, Activates, Row, Relates, Placed, Keyed
  <2>2. \A u \in User : sess'[u] = IF u = cur THEN s ELSE sess[u]
    BY <1>1, <1>3 DEF UpdateActive, LdapDone, TypeOK
  <2>3. /\ pc = "active" /\ pc' = "keys" /\ UNCHANGED <<todo, cur, quiet>>
    BY <1>3 DEF UpdateActive, LdapDone
  <2> HIDE DEF s, r
  <2>4. \A u \in User : u # cur \/ u \notin todo =>
           \A stages : (stages = {} \/ stages = {"keys"} \/ stages = {"active", "keys"})
              /\ Passed(u, stages)' => Passed(u, stages)
    BY <2>3 DEF Passed, LatePc, MailPc, LdapPc
  <2>5. \A u \in User : u = cur /\ u \in todo => ~Passed(u, {})'
    BY <2>3 DEF Passed, LatePc, MailPc, LdapPc
  <2>6. \A u \in User : u = cur /\ Passed(u, {"active", "keys"})'
           => Passed(u, {"active", "keys"})
    BY <2>3 DEF Passed, LatePc, MailPc, LdapPc
  <2> QED BY <1>1, <2>1, <2>2, <2>4, <2>5, <2>6 DEF WorkInv, r
<1>4. CASE UpdateKeys
  <2> DEFINE s == [KeyRow(r) EXCEPT !.is_opened = TRUE]
  <2>1. Keyed(s) /\ (Relates(r) => Relates(s)) /\ (Placed(r) => Placed(s))
    BY <1>1 DEF KeyRow, Row, Relates, Placed, Keyed
  <2>2. sess' = [sess EXCEPT ![cur] = s]
    BY <1>4 DEF UpdateKeys
  <2>3. \A u \in User : sess'[u] = IF u = cur THEN s ELSE sess[u]
    BY <1>1, <2>2 DEF TypeOK
  <2>4. /\ pc = "keys" /\ pc' = "user" /\ todo' = todo \ {cur} /\ UNCHANGED quiet
    BY <1>4 DEF UpdateKeys, NextUser
  <2> HIDE DEF s, r
  <2>5. \A u \in User : u # cur =>
           \A stages : (stages = {} \/ stages = {"keys"} \/ stages = {"active", "keys"})
              /\ Passed(u, stages)' => Passed(u, stages)
    BY <2>4 DEF Passed, LatePc, MailPc, LdapPc
  <2>6. \A u \in User : u = cur =>
           Passed(u, {"active", "keys"}) /\ Passed(u, {"keys"})
    BY <2>4 DEF Passed, LdapPc
  <2> QED BY <1>1, <2>1, <2>3, <2>5, <2>6 DEF WorkInv, r
<1> QED BY <1>2, <1>3, <1>4

LEMMA WorkStep ==
    ASSUME TypeOK, TypeOK', TidyInv', WorkInv, [Next]_vars
    PROVE  WorkInv'
<1> SUFFICES ASSUME quiet' >= 0 PROVE WorkInv'
  BY DEF WorkInv, Passed, TypeOK, QuietMax
<1>1. ASSUME NEW u \in User, ApiChange(u), pc = "sleep" PROVE WorkInv'
  BY <1>1 DEF ApiChange, WorkInv, Passed, LatePc, MailPc, LdapPc
<1>2. CASE Start \/ SyncCache
  BY <1>2 DEF Start, SyncCache, WorkInv, Passed, LatePc, MailPc, LdapPc
<1>3. CASE StartCycle \/ FetchSshkeys \/ FetchUserproject \/ UNCHANGED vars
  BY <1>3 DEF StartCycle, FetchSshkeys, FetchUserproject, vars, WorkInv, Passed,
     LatePc, MailPc, LdapPc
<1>4. CASE SetMetadata
  <2>1. /\ pc' = "user" /\ todo' = {u \in User : sess'[u].known}
    BY <1>4 DEF SetMetadata, Commit
  <2>2. SetOf(<< >>) = {}
    BY EmptySeq DEF SetOf
  <2>3. \A u \in User : u \notin todo' =>
           Relates(sess'[u]) /\ Placed(sess'[u]) /\ Keyed(sess'[u])
    BY <2>1, <2>2 DEF TidyInv, TidyRow, Blank, Relates, Placed, Keyed
  <2>4. \A u \in User : \A stages : 
           (stages = {} \/ stages = {"keys"} \/ stages = {"active", "keys"})
              /\ Passed(u, stages)' => u \notin todo'
    BY <2>1 DEF Passed, LatePc, MailPc, LdapPc
  <2> QED BY <2>3, <2>4 DEF WorkInv
<1>5. ASSUME NEW u \in User, OpenUser(u) PROVE WorkInv'
  BY <1>5 DEF OpenUser, WorkInv, Passed, LatePc, MailPc, LdapPc
<1>6. CASE UpdateGroups
  <2>1. quiet' = quiet
    BY <1>6 DEF UpdateGroups
  <2> QED BY <1>6, <2>1 DEF UpdateGroups, WorkInv, Passed, LatePc, MailPc, LdapPc
<1>7. CASE LdapCommit
  BY <1>7 DEF LdapCommit, Commit, WorkInv, Passed, LatePc, MailPc, LdapPc
<1>8. CASE EmailSend
  <2>1. \A u \in User : /\ Relates(sess[u]) => Relates(sess'[u])
                        /\ Placed(sess[u]) => Placed(sess'[u])
                        /\ Keyed(sess[u]) => Keyed(sess'[u])
    BY <1>8, EmailWork DEF SameWork, SameSync, Relates, Placed, Keyed
  <2>2. \A u \in User : \A stages : Passed(u, stages)' => Passed(u, stages)
    <3>1. CASE EmailActivate \/ EmailDeactivate \/ EmailAccount \/ EmailKey
      <4>1. quiet' = quiet
        BY <3>1, MailsUndisturbed
      <4>2. pc \in MailPc /\ pc' \in MailPc
        BY <3>1 DEF EmailActivate, EmailDeactivate, EmailAccount, Round, EmailKey, MailPc
      <4> QED BY <4>1, <4>2 DEF Passed, LatePc, MailPc, LdapPc
    <3>2. CASE MailCommit
      BY <3>2 DEF MailCommit, EndCycleQuiet, QuietMax, TypeOK, Passed, LatePc,
         MailPc, LdapPc
    <3> QED BY <1>8, <3>1, <3>2 DEF EmailSend
  <2> QED BY <2>1, <2>2 DEF WorkInv
<1> QED BY <1>1, <1>2, <1>3, <1>4, <1>5, <1>6, <1>7, <1>8, UndisturbedStep, WorkStage
       DEF DaemonStep, LdapUpdate

LEMMA WorkAlways == Spec => []WorkInv
<1>1. Init => WorkInv
  BY DEF Init, WorkInv, Passed, LatePc, MailPc, LdapPc
<1>2. TypeOK /\ TypeOK' /\ TidyInv' /\ WorkInv /\ [Next]_vars => WorkInv'
  BY WorkStep
<1> QED BY <1>1, <1>2, Foundations, PTL DEF Spec

-----------------------------------------------------------------------------
(* Groups. *)

GroupInv ==
    (quiet >= 0 /\ pc \in LatePc) \/ (quiet >= 1 /\ pc = "sleep")
        => \A p \in Project : group[p] = Members(sess, p)

LEMMA GroupStep ==
    ASSUME TypeOK, StageInv, GroupInv, [Next]_vars PROVE GroupInv'
<1> SUFFICES ASSUME quiet' >= 0 PROVE GroupInv'
  BY TypeStep DEF GroupInv, TypeOK, QuietMax
<1>1. CASE UpdateGroups
  <2>1. /\ \A p \in Project : group'[p] = Members(sess, p)
        /\ sess' = sess
    BY <1>1 DEF UpdateGroups
  <2> QED BY <2>1 DEF GroupInv, Members
<1>2. CASE LdapCommit
  BY <1>2 DEF LdapCommit, Commit, GroupInv, LatePc, Members
<1>3. CASE EmailSend
  <2>1. \A p \in Project : Members(sess', p) = Members(sess, p)
    BY <1>3, EmailWork DEF SameWork, Members
  <2>2. UNCHANGED group
    BY <1>3 DEF EmailSend, EmailActivate, EmailDeactivate, EmailAccount, Round,
       EmailKey, MailCommit
  <2>3. (quiet' >= 0 /\ pc' \in LatePc) \/ (quiet' >= 1 /\ pc' = "sleep")
           => quiet >= 0 /\ pc \in LatePc
    <3>1. CASE MailCommit
      BY <3>1 DEF MailCommit, EndCycleQuiet, TypeOK, QuietMax, LatePc, MailPc
    <3>2. CASE ~MailCommit
      <4>1. pc \in MailPc
        BY <1>3, <3>2 DEF EmailSend, EmailActivate, EmailDeactivate, EmailAccount,
           Round, EmailKey, MailPc
      <4> QED BY <1>3, <3>2, <4>1, MailsUndisturbed DEF EmailSend, LatePc
    <3> QED BY <3>1, <3>2
  <2>4. \A p \in Project : Members(sess, p)' = Members(sess', p)
    BY DEF Members
  <2> QED BY <2>1, <2>2, <2>3, <2>4 DEF GroupInv
<1>4. CASE UNCHANGED vars
  BY <1>4 DEF vars, GroupInv, Members
<1>5. ASSUME NEW u \in User, ApiChange(u) \/ OpenUser(u) PROVE GroupInv'
  BY <1>5 DEF ApiChange, OpenUser, GroupInv, LatePc, MailPc
<1>6. CASE StartCycle \/ FetchSshkeys \/ FetchUserproject \/ SyncCache \/ Start
           \/ SetMetadata
  BY <1>6 DEF StartCycle, FetchSshkeys, FetchUserproject, SyncCache, Start,
     SetMetadata, GroupInv, LatePc, MailPc
<1>7. CASE SyncUser \/ UpdateActive \/ UpdateKeys
  BY <1>7 DEF SyncUser, UpdateActive, UpdateKeys, LdapDone, NextUser, GroupInv,
     LatePc, MailPc
<1> QED BY <1>1, <1>2, <1>3, <1>4, <1>5, <1>6, <1>7, UndisturbedStep
       DEF DaemonStep, LdapUpdate

\* One undisturbed cycle brings the members of every project's group to what
\* the cache says, whatever failed before (ldapupdate 186-216 and 411-431).
THEOREM GroupsFollow == Spec => []GroupsFollowCache
<1>1. Init => GroupInv
  BY DEF Init, GroupInv, LatePc, MailPc
<1>2. TypeOK /\ StageInv /\ GroupInv /\ [Next]_vars => GroupInv'
  BY GroupStep
<1>3. TypeOK /\ StageInv /\ WorkInv /\ GroupInv => GroupsFollowCache
  <2> SUFFICES ASSUME TypeOK, StageInv, WorkInv, GroupInv, Settled(1)
               PROVE  \A p \in Project :
                 group[p] = {u \in User : p \in SetOf(db[u].projects_api)}
    BY DEF GroupsFollowCache
  <2>1. pc = "sleep" /\ quiet >= 1 /\ sess = db
    BY DEF Settled, StageInv, WorkPc, LdapPc, MailPc
  <2>2. \A u \in User : db[u].project = SetOf(db[u].projects_api)
    BY <2>1 DEF WorkInv, Passed, Relates
  <2> QED BY <2>1, <2>2 DEF GroupInv, Members
<1> QED BY <1>1, <1>2, <1>3, Foundations, WorkAlways, PTL DEF Spec

-----------------------------------------------------------------------------
(* What apisync makes of a row, when both answers are the API's of now. *)

FetchedInv ==
    quiet >= 0 /\ pc = "fetch" => \A u \in User :
        /\ "sshkeys" \in fetched.got => fetched.sshkeys[u] = api[u].keys
        /\ "userproject" \in fetched.got =>
               /\ fetched.userproject[u].projects = api[u].projects
               /\ fetched.userproject[u].status = api[u].status

NothingGot == pc # "fetch" => fetched.got = {}

LEMMA FromFetch ==
    ASSUME TypeOK, [Next]_vars, pc = "fetch"
    PROVE  \/ FetchSshkeys \/ FetchUserproject \/ UNCHANGED vars
           \/ fetched' = NothingFetched
           \/ Disturbed /\ pc' = "fetch"
<1>1. ~SetMetadata /\ ~LdapUpdate /\ ~EmailSend /\ ~Start /\ ~StartCycle
  BY DEF SetMetadata, LdapUpdate, OpenUser, SyncUser, UpdateActive, UpdateKeys,
     UpdateGroups, LdapCommit, EmailSend, EmailActivate, EmailDeactivate,
     EmailAccount, Round, EmailKey, MailCommit, Start, StartCycle
<1>2. ~LdapUpdateFails
  BY DEF LdapUpdateFails, OpenUserError, SyncUserError, SyncUserSecondError,
     UpdateActiveError, UpdateKeysError, LdapUnreachable
<1>3. CASE SyncCache \/ FetchError \/ Cancel \/ Die
  BY <1>3 DEF SyncCache, FetchError, Cancel, Die, Abandon
<1>4. ASSUME NEW u \in User, ApiChange(u) PROVE Disturbed /\ pc' = "fetch"
  BY <1>4 DEF ApiChange, Disturbed
<1> QED BY <1>1, <1>2, <1>3, <1>4 DEF Next, DaemonStep, Environment

LEMMA FetchedStep ==
    ASSUME TypeOK, NothingGot, FetchedInv, [Next]_vars
    PROVE  FetchedInv' /\ NothingGot'
<1>1. CASE FetchSshkeys
  BY <1>1 DEF FetchSshkeys, TypeOK, FetchedInv, NothingGot
<1>2. CASE FetchUserproject
  BY <1>2 DEF FetchUserproject, TypeOK, FetchedInv, NothingGot
<1>3. CASE fetched' = NothingFetched
  BY <1>3 DEF NothingFetched, FetchedInv, NothingGot
<1>4. CASE UNCHANGED fetched
  <2>1. NothingGot'
    <3>1. pc = "fetch" => pc' = "fetch" \/ fetched' = NothingFetched
      BY FromFetch DEF FetchSshkeys, FetchUserproject, vars
    <3> QED BY <1>4, <3>1 DEF NothingGot, NothingFetched
  <2>2. FetchedInv'
    <3> SUFFICES ASSUME quiet' >= 0, pc' = "fetch" PROVE FetchedInv'
      BY DEF FetchedInv
    <3>1. CASE pc = "fetch"
      <4>1. fetched' = NothingFetched \/ UNCHANGED <<api, quiet>>
        BY <3>1, FromFetch DEF FetchSshkeys, FetchUserproject, vars, Disturbed
      <4> QED BY <1>4, <3>1, <4>1 DEF FetchedInv, NothingFetched
    <3>2. CASE pc # "fetch"
      BY <1>4, <3>2 DEF NothingGot, FetchedInv
    <3> QED BY <3>1, <3>2
  <2> QED BY <2>1, <2>2
<1> QED BY <1>1, <1>2, <1>3, <1>4, FetchedStays

LEMMA SyncedRowFields ==
    ASSUME TypeOK, TidyInv, NEW u \in User
    PROVE  /\ u \in Listed =>
                /\ SyncedRow(u).known
                /\ SetOf(SyncedRow(u).projects_api) =
                       SetOf(fetched.userproject[u].projects)
                /\ SyncedRow(u).is_active = fetched.userproject[u].status
           /\ u \notin Interested /\ Placed(sess[u]) => ~SyncedRow(u).is_active
           /\ ApiKeys(u) \subseteq SyncedRow(u).sshkeys_api
           /\ /\ ApiKeys(u) \subseteq sess[u].sshkeys_api /\ Keyed(sess[u])
              /\ SyncedRow(u).known
              => SyncedRow(u).sshkeys_api = ApiKeys(u)
<1> DEFINE r == sess[u]
           up == fetched.userproject[u]
           r1 == CheckUsersInactive(r, u)
           r2 == UsersProjectsAdd(r1, u)
           r3 == UsersProjectsDel(r2, u)
           r4 == SshkeysAdd(r3, u)
           r5 == SshkeysDel(r4, u)
           ps == AppendMissing(r1.projects_api, up.projects)
           SameKeys(x, y) == y.sshkeys_api = x.sshkeys_api /\ y.sshkey = x.sshkey
<1>1. /\ r \in Row /\ TidyRow(r) /\ up.projects \in Seq(Project)
      /\ Distinct(up.projects) /\ up.status \in BOOLEAN /\ ApiKeys(u) \in SUBSET Key
      /\ Listed \subseteq Interested
  BY ApiKeysType DEF TypeOK, TidyInv, Listed
<1>2. /\ r1 \in Row /\ SameKeys(r, r1) /\ Distinct(r1.projects_api)
      /\ u \notin Interested /\ Placed(r) => ~r1.is_active
  <2>1. Distinct(<< >>)
    BY EmptySeq DEF Distinct
  <2> QED BY <1>1, <2>1, CheckUsersInactiveType
         DEF CheckUsersInactive, Row, TidyRow, Blank, Placed
<1> HIDE DEF r1
<1>3. /\ ps \in Seq(Project) /\ SetOf(up.projects) \subseteq SetOf(ps) /\ Distinct(ps)
  <2>1. r1.projects_api \in Seq(Project)
    BY <1>2 DEF Row
  <2> QED BY <1>1, <1>2, <2>1, AppendMissingList
<1> HIDE DEF ps
<1>4. r2 = IF u \in Listed THEN [r1 EXCEPT !.known = TRUE, !.is_active = up.status,
                                           !.projects_api = ps]
                           ELSE r1
  BY DEF UsersProjectsAdd, ps
<1>5. /\ r2 \in Row /\ SameKeys(r1, r2)
      /\ u \in Listed => /\ r2.known /\ r2.is_active = up.status
                         /\ r2.projects_api = ps
      /\ u \notin Listed => r2 = r1
  BY <1>2, <1>4, UsersProjectsAddType DEF Row
<1> HIDE DEF r2
<1>6. /\ r3 \in Row /\ SameKeys(r2, r3)
      /\ r3.known = r2.known /\ r3.is_active = r2.is_active
      /\ u \in Listed => r3.projects_api =
            IF Len(r2.projects_api) > Len(up.projects) THEN up.projects
                                                       ELSE r2.projects_api
  BY <1>1, <1>5, UsersProjectsDelType DEF UsersProjectsDel, Row
<1>7. u \in Listed => SetOf(r3.projects_api) = SetOf(up.projects)
  <2> SUFFICES ASSUME u \in Listed, ~(Len(ps) > Len(up.projects))
               PROVE  SetOf(ps) = SetOf(up.projects)
    BY <1>5, <1>6
  <2>1. Len(ps) <= Len(up.projects)
    BY <1>1, <1>3, LenProperties
  <2> QED BY <1>1, <1>3, <2>1, NotLonger
<1> HIDE DEF r3
<1>8. /\ r4 \in Row /\ r4.sshkeys_api = r3.sshkeys_api \cup ApiKeys(u)
      /\ r4.sshkey = r3.sshkey
      /\ r4.known = r3.known /\ r4.is_active = r3.is_active
      /\ r4.projects_api = r3.projects_api
  BY <1>1, <1>6, SshkeysType DEF SshkeysAdd, Row
<1> HIDE DEF r4
<1>9. /\ r5.known = r4.known /\ r5.is_active = r4.is_active
      /\ r5.projects_api = r4.projects_api
      /\ r5.sshkeys_api = IF r4.known /\ Cardinality(r4.sshkey) > Cardinality(ApiKeys(u))
                          THEN ApiKeys(u) ELSE r4.sshkeys_api
  BY <1>8 DEF SshkeysDel, Row
<1> HIDE DEF r5
<1>10. /\ ApiKeys(u) \subseteq r.sshkeys_api /\ Keyed(r) /\ r5.known
       => r5.sshkeys_api = ApiKeys(u)
  <2> SUFFICES ASSUME ApiKeys(u) \subseteq r.sshkeys_api, Keyed(r), r5.known,
                      ~(Cardinality(r4.sshkey) > Cardinality(ApiKeys(u)))
               PROVE  r4.sshkeys_api = ApiKeys(u)
    BY <1>9
  <2>1. r4.sshkey = r.sshkeys_api /\ r4.sshkeys_api = r.sshkeys_api
    BY <1>2, <1>5, <1>6, <1>8 DEF Keyed
  <2>2. IsFiniteSet(r.sshkeys_api) /\ IsFiniteSet(ApiKeys(u))
    BY <1>1, ConstantsAssumption, FS_Subset DEF Row
  <2>3. /\ Cardinality(r.sshkeys_api) \in Nat /\ Cardinality(ApiKeys(u)) \in Nat
        /\ Cardinality(ApiKeys(u)) <= Cardinality(r.sshkeys_api)
        /\ Cardinality(ApiKeys(u)) = Cardinality(r.sshkeys_api)
              => ApiKeys(u) = r.sshkeys_api
    BY <2>2, FS_CardinalityType, FS_Subset
  <2> QED BY <2>1, <2>3
<1>11. SyncedRow(u) = r5
  BY DEF SyncedRow, r1, r2, r3, r4, r5
<1>12. u \in Listed => /\ r5.known /\ r5.is_active = up.status
                       /\ SetOf(r5.projects_api) = SetOf(up.projects)
  BY <1>5, <1>6, <1>7, <1>8, <1>9
<1>13. u \notin Interested /\ Placed(r) => ~r5.is_active
  BY <1>1, <1>2, <1>5, <1>6, <1>8, <1>9
<1>14. ApiKeys(u) \subseteq r5.sshkeys_api
  BY <1>8, <1>9
<1> QED BY <1>10, <1>11, <1>12, <1>13, <1>14

-----------------------------------------------------------------------------
(* The commits of apisync since the last disturbance, and what they leave. *)

Rounds == IF pc \in {"sleep", "fetch", "down"} THEN quiet ELSE quiet + 1

Wanted(u) == IF ApiListed(u) THEN api[u].keys ELSE {}

Synced(u) ==
    /\ ApiListed(u) =>
           /\ sess[u].known
           /\ SetOf(sess[u].projects_api) = SetOf(api[u].projects)
           /\ sess[u].is_active = api[u].status
    /\ Wanted(u) \subseteq sess[u].sshkeys_api

SyncedAgain(u) ==
    /\ ApiGone(u) => ~sess[u].is_active
    /\ sess[u].known => sess[u].sshkeys_api = Wanted(u)

SyncInv == \A u \in User :
    /\ Rounds >= 1 => Synced(u)
    /\ Rounds >= 2 => SyncedAgain(u)

\* No step but the commit of apisync adds to Rounds.
LEMMA RoundsKept ==
    ASSUME TypeOK, [Next]_vars, quiet' >= 0, ~SyncCache, Rounds' >= 1
    PROVE  Rounds' <= Rounds /\ UNCHANGED api
<1> USE DEF Rounds, TypeOK, QuietMax
<1>1. ~Start /\ \A u \in User : ~ApiChange(u)
  BY DEF Start, ApiChange
<1>2. CASE StartCycle \/ FetchSshkeys \/ FetchUserproject \/ SetMetadata
           \/ UNCHANGED vars
  BY <1>2 DEF StartCycle, FetchSshkeys, FetchUserproject, SetMetadata, vars
<1>3. CASE LdapUpdate
  BY <1>3 DEF LdapUpdate, OpenUser, SyncUser, UpdateActive, LdapDone, UpdateKeys,
     NextUser, UpdateGroups, LdapCommit
<1>4. CASE EmailActivate \/ EmailDeactivate \/ EmailAccount \/ EmailKey
  <2>1. quiet' = quiet
    BY <1>4, MailsUndisturbed
  <2> QED BY <1>4, <2>1 DEF EmailActivate, EmailDeactivate, EmailAccount, Round,
         EmailKey
<1>5. CASE MailCommit
  BY <1>5 DEF MailCommit, EndCycleQuiet
<1> QED BY <1>1, <1>2, <1>3, <1>4, <1>5, UndisturbedStep DEF DaemonStep, EmailSend

LEMMA SyncCacheStep ==
    ASSUME TypeOK, TidyInv, FetchedInv, WorkInv, SyncInv, SyncCache, quiet' >= 0
    PROVE  SyncInv'
<1>1. /\ pc = "fetch" /\ pc' = "usermetadata" /\ quiet >= 0
      /\ UNCHANGED <<api, quiet>> /\ quiet \in Int
      /\ \A u \in User : sess'[u] = SyncedRow(u)
  BY DEF SyncCache, Commit, TypeOK
<1>2. \A u \in User : /\ ApiListed(u) <=> u \in Listed
                      /\ ApiGone(u) <=> u \notin Interested
                      /\ Wanted(u) = ApiKeys(u)
                      /\ fetched.userproject[u].projects = api[u].projects
                      /\ fetched.userproject[u].status = api[u].status
  BY <1>1 DEF SyncCache, FetchedInv, ApiListed, ApiGone, Wanted, Listed, Interested,
     ApiKeys
<1>3. \A u \in User : /\ ApiListed(u)' <=> ApiListed(u)
                      /\ ApiGone(u)' <=> ApiGone(u)
                      /\ Wanted(u)' = Wanted(u)
  BY <1>1 DEF ApiListed, ApiGone, Wanted
<1>4. \A u \in User : Synced(u)'
  BY <1>1, <1>2, <1>3, SyncedRowFields DEF Synced
<1>5. ASSUME Rounds' >= 2, NEW u \in User PROVE SyncedAgain(u)'
  <2>1. quiet >= 1 /\ Rounds >= 1
    BY <1>1, <1>5 DEF Rounds
  <2>2. Keyed(sess[u]) /\ Placed(sess[u])
    BY <1>1, <2>1 DEF WorkInv, Passed
  <2>3. Wanted(u) \subseteq sess[u].sshkeys_api
    BY <2>1 DEF SyncInv, Synced
  <2> QED BY <1>1, <1>2, <1>3, <2>2, <2>3, SyncedRowFields DEF SyncedAgain
<1> QED BY <1>4, <1>5 DEF SyncInv

LEMMA SyncStep ==
    ASSUME TypeOK, StageInv, TidyInv, FetchedInv, WorkInv, SyncInv, [Next]_vars
    PROVE  SyncInv'
<1>1. CASE SyncCache /\ quiet' >= 0
  BY <1>1, SyncCacheStep
<1>2. CASE Rounds' >= 1 /\ quiet' >= 0 /\ ~SyncCache
  <2>1. Rounds' <= Rounds /\ UNCHANGED api /\ Rounds \in Int /\ Rounds' \in Int
    BY <1>2, RoundsKept, TypeStep DEF Rounds, TypeOK, QuietMax
  <2>2. \A u \in User : SameSync(sess[u], sess'[u])
    BY <1>2, UndisturbedSync
  <2>3. \A u \in User : Synced(u) => Synced(u)'
    BY <2>1, <2>2 DEF SameSync, Synced, ApiListed, Wanted
  <2>4. \A u \in User : SyncedAgain(u) => SyncedAgain(u)'
    BY <2>1, <2>2 DEF SameSync, SyncedAgain, ApiGone, Wanted, ApiListed
  <2> QED BY <2>1, <2>3, <2>4 DEF SyncInv
<1>3. CASE ~(Rounds' >= 1) \/ ~(quiet' >= 0)
  <2>1. ~(Rounds' >= 1) /\ ~(Rounds' >= 2)
    BY <1>3, TypeStep DEF Rounds, TypeOK, QuietMax
  <2> QED BY <2>1 DEF SyncInv
<1> QED BY <1>1, <1>2, <1>3

LEMMA SyncAlways == Spec => []SyncInv
<1>1. Init => NothingGot /\ FetchedInv /\ SyncInv
  BY DEF Init, NothingGot, NothingFetched, FetchedInv, SyncInv, Rounds
<1>2. TypeOK /\ NothingGot /\ FetchedInv /\ [Next]_vars => FetchedInv' /\ NothingGot'
  BY FetchedStep
<1>3. TypeOK /\ StageInv /\ TidyInv /\ FetchedInv /\ WorkInv /\ SyncInv /\ [Next]_vars
        => SyncInv'
  BY SyncStep
<1> QED BY <1>1, <1>2, <1>3, Foundations, WorkAlways, PTL DEF Spec

\* At the end of a cycle nothing is uncommitted, and Rounds counts the cycle.
LEMMA AtSleep ==
    ASSUME StageInv, pc = "sleep" PROVE sess = db /\ Rounds = quiet
BY DEF StageInv, WorkPc, LdapPc, MailPc, Rounds

\* One undisturbed cycle makes the cache agree with the API about the projects
\* and the status of every listed user; a user who is gone has stopped being
\* active after two, for the first may have to take back a deactivation that
\* was not followed up (apisync 342, ldapupdate 218-233).
THEOREM CacheFollows == Spec => []CacheFollowsApi
<1>1. TypeOK /\ StageInv /\ SyncInv => CacheFollowsApi
  <2> SUFFICES ASSUME TypeOK, StageInv, SyncInv, NEW u \in User, pc = "sleep"
               PROVE  /\ quiet >= 1 => Synced(u)
                      /\ quiet >= 2 => SyncedAgain(u)
                      /\ sess = db
    BY DEF CacheFollowsApi, Settled, Synced, SyncedAgain
  <2> QED BY AtSleep DEF SyncInv
<1> QED BY <1>1, Foundations, SyncAlways, PTL

\* After two undisturbed cycles the keys of every cached user are the API's, in
\* the JSON column and in the relation: the second cycle finds a relation that
\* is larger than the API's list wherever a key was replaced (apisync 60).
THEOREM CacheKeysFollow == Spec => []CacheKeysFollowApi
<1>1. TypeOK /\ StageInv /\ WorkInv /\ SyncInv => CacheKeysFollowApi
  <2> SUFFICES ASSUME TypeOK, StageInv, WorkInv, SyncInv, Settled(2),
                      NEW u \in User, db[u].known
               PROVE  db[u].sshkeys_api = Wanted(u) /\ db[u].sshkey = db[u].sshkeys_api
    BY DEF CacheKeysFollowApi, Wanted
  <2>1. pc = "sleep" /\ quiet >= 2 /\ quiet >= 1 /\ sess = db /\ Rounds = quiet
    BY AtSleep DEF Settled, TypeOK, QuietMax
  <2>2. SyncedAgain(u)
    BY <2>1 DEF SyncInv
  <2>3. Keyed(sess[u])
    BY <2>1 DEF WorkInv, Passed
  <2> QED BY <2>1, <2>2, <2>3 DEF SyncedAgain, Keyed
<1> QED BY <1>1, Foundations, WorkAlways, SyncAlways, PTL

-----------------------------------------------------------------------------
(* Mails, round by round. *)

MailedInv ==
    /\ quiet >= 0 /\ pc \in MailPc \ {"activate"} =>
           \A u \in User : ~sess[u].mail_is_activated
    /\ quiet >= 0 /\ pc \in MailPc \ {"activate", "deactivate"} =>
           \A u \in User : ~sess[u].mail_is_deactivated
    /\ quiet >= 0 /\ pc \in {"mailkey", "mailcommit"} =>
           \A u \in User : sess[u].known => sess[u].mail_is_opensend
    /\ quiet >= 0 /\ pc = "mailcommit" =>
           \A u \in User : sess[u].mail_name_sshkey = {}
    /\ quiet >= 1 /\ pc = "sleep" => \A u \in User : Pending(db[u]) = {}

LEMMA MailedRound ==
    ASSUME TypeOK, TidyInv, FlaggedInv, MailedInv, quiet' >= 0,
           EmailActivate \/ EmailDeactivate \/ EmailAccount \/ EmailKey
    PROVE  MailedInv'
<1>1. quiet >= 0
  BY MailsUndisturbed
<1>2. \A u \in User : sess[u] \in Row
  BY DEF TypeOK
<1>3. CASE EmailActivate
  <2>1. /\ pc = "activate" /\ pc' = "deactivate"
        /\ sess' = [u \in User |-> IF sess[u].mail_is_activated
                                   THEN AfterActivate(sess[u]) ELSE sess[u]]
    BY <1>3 DEF EmailActivate, Round
  <2>2. \A u \in User : ~sess'[u].mail_is_activated
    BY <1>2, <2>1 DEF AfterActivate, Row
  <2> QED BY <2>1, <2>2 DEF MailedInv
<1>4. CASE EmailDeactivate
  <2>1. /\ pc = "deactivate" /\ pc' = "account"
        /\ sess' = [u \in User |-> IF sess[u].mail_is_deactivated
                                   THEN AfterDeactivate(sess[u]) ELSE sess[u]]
    BY <1>4 DEF EmailDeactivate, Round
  <2>2. \A u \in User : ~sess'[u].mail_is_activated /\ ~sess'[u].mail_is_deactivated
    BY <1>1, <1>2, <2>1 DEF AfterDeactivate, Row, MailedInv, MailPc
  <2> QED BY <2>1, <2>2 DEF MailedInv
<1>5. CASE EmailAccount
  <2>1. /\ pc = "account" /\ pc' = "mailkey"
        /\ sess' = [u \in User |-> IF sess[u].known /\ ~sess[u].mail_is_opensend
                                   THEN AfterAccount(sess[u]) ELSE sess[u]]
    BY <1>5 DEF EmailAccount, Round
  <2>2. \A u \in User : /\ ~sess'[u].mail_is_activated
                        /\ ~sess'[u].mail_is_deactivated
                        /\ sess'[u].known => sess'[u].mail_is_opensend
    BY <1>1, <1>2, <2>1 DEF AfterAccount, Row, MailedInv, MailPc
  <2> QED BY <2>1, <2>2 DEF MailedInv
<1>6. CASE EmailKey
  <2>1. /\ pc = "mailkey" /\ pc' = "mailcommit"
        /\ sess' = [u \in User |-> IF u \notin KeyMailUsers THEN sess[u]
                                   ELSE IF u \in opened THEN AfterKeyOpened(sess[u])
                                   ELSE AfterKeyMails(sess[u], {})]
    BY <1>6 DEF EmailKey
  <2>2. \A u \in User : u \in KeyMailUsers =>
           /\ AfterKeyOpened(sess[u]).mail_name_sshkey = {}
           /\ AfterKeyMails(sess[u], {}).mail_name_sshkey = {}
    BY <1>2 DEF AfterKeyOpened, AfterKeyMails, Row
  <2>3. \A u \in User : u \notin KeyMailUsers => sess[u].mail_name_sshkey = {}
    BY DEF KeyMailUsers, FlaggedInv, NamesFlagged, TidyInv, TidyRow, Blank
  <2>4. \A u \in User : sess'[u].mail_name_sshkey = {}
    BY <2>1, <2>2, <2>3
  <2>5. \A r \in Row : \A s \in {r, AfterKeyOpened(r), AfterKeyMails(r, {})} :
           /\ s.mail_is_activated = r.mail_is_activated
           /\ s.mail_is_deactivated = r.mail_is_deactivated
           /\ s.mail_is_opensend = r.mail_is_opensend
           /\ s.known = r.known
    BY DEF AfterKeyOpened, AfterKeyMails, Row
  <2>6. \A u \in User : sess'[u] \in {sess[u], AfterKeyOpened(sess[u]),
                                      AfterKeyMails(sess[u], {})}
    BY <2>1
  <2>7. \A u \in User : /\ ~sess'[u].mail_is_activated
                        /\ ~sess'[u].mail_is_deactivated
                        /\ sess'[u].known => sess'[u].mail_is_opensend
    BY <1>1, <1>2, <2>1, <2>5, <2>6 DEF MailedInv, MailPc
  <2> QED BY <2>1, <2>4, <2>7 DEF MailedInv
<1> QED BY <1>3, <1>4, <1>5, <1>6

LEMMA MailedStep ==
    ASSUME TypeOK, StageInv, TidyInv, FlaggedInv, MailedInv, [Next]_vars
    PROVE  MailedInv'
<1>0. ~(quiet' >= 0) => ~(quiet' >= 1)
  BY TypeStep DEF TypeOK, QuietMax
<1> SUFFICES ASSUME quiet' >= 0 PROVE MailedInv'
  BY <1>0 DEF MailedInv
<1>1. CASE EmailActivate \/ EmailDeactivate \/ EmailAccount \/ EmailKey
  BY <1>1, MailedRound
<1>2. CASE MailCommit
  <2>1. /\ pc = "mailcommit" /\ pc' = "sleep" /\ db' = sess
        /\ quiet' >= 1 => quiet >= 0
    BY <1>2 DEF MailCommit, Commit, EndCycleQuiet, TypeOK, QuietMax
  <2>2. quiet >= 0 => \A u \in User : Pending(sess[u]) = {}
    BY <2>1 DEF MailedInv, MailPc, Pending
  <2> QED BY <2>1, <2>2 DEF MailedInv, MailPc
<1>3. CASE LdapCommit
  BY <1>3 DEF LdapCommit, MailedInv, MailPc
<1>4. CASE UNCHANGED vars
  BY <1>4 DEF vars, MailedInv
<1>5. ASSUME NEW u \in User, ApiChange(u) \/ OpenUser(u) PROVE MailedInv'
  BY <1>5 DEF ApiChange, OpenUser, MailedInv, MailPc
<1>6. CASE StartCycle \/ FetchSshkeys \/ FetchUserproject \/ SyncCache \/ Start
           \/ SetMetadata
  BY <1>6 DEF StartCycle, FetchSshkeys, FetchUserproject, SyncCache, Start,
     SetMetadata, MailedInv, MailPc
<1>7. CASE SyncUser \/ UpdateActive \/ UpdateKeys \/ UpdateGroups
  BY <1>7 DEF SyncUser, UpdateActive, UpdateKeys, UpdateGroups, LdapDone, NextUser,
     MailedInv, MailPc
<1> QED BY <1>1, <1>2, <1>3, <1>4, <1>5, <1>6, <1>7, UndisturbedStep
       DEF DaemonStep, LdapUpdate, EmailSend

\* At the end of an undisturbed cycle no notice is owed to anybody: each round
\* settles what it was asked for, and a name of a key is found by the last one
\* because its flag is reset (emailsend 264-320, KeyNoticesNeverStranded).
THEOREM NoticesAllSent == Spec => []AllNoticesSent
<1>1. Init => MailedInv
  BY DEF Init, MailedInv, MailPc
<1>2. TypeOK /\ StageInv /\ TidyInv /\ FlaggedInv /\ MailedInv /\ [Next]_vars => MailedInv'
  BY MailedStep
<1>3. MailedInv => AllNoticesSent
  BY DEF MailedInv, AllNoticesSent, Settled
<1> QED BY <1>1, <1>2, <1>3, Foundations, FlaggedAlways, PTL DEF Spec

-----------------------------------------------------------------------------
(* The gid, when LDAP answers and nobody stops the daemon.  A departure    *)
(* takes the gid from the row, and it is is_deactivated that makes the     *)
(* return write it to the entry again: the two go together only as long    *)
(* as ldapupdate works through every user that apisync has marked.         *)

Calm == Faults \subseteq {"http", "smtp"}

\* The stages that lead through one user after the other.
LoopPc == {"user", "sync", "active", "keys"}

InProject(r) == r.is_active => r.projects_api # << >>
Marked(r) == r.known => (r.is_active <=> ~r.is_deactivated)

\* An active user's entry is there and has the row's gid.
GidHeld(u) ==
    sess[u].is_active => /\ ldap[u].exists /\ sess[u].ldap_gid # NoGid
                         /\ ldap[u].gid = sess[u].ldap_gid

\* So it has while a change of the status may be due, unless the user comes back.
GidKept(u) ==
    sess[u].is_active /\ ~sess[u].is_deactivated /\ ldap[u].exists
        => ldap[u].gid = sess[u].ldap_gid
GidComing(u) ==
    sess[u].is_active /\ ~sess[u].is_deactivated /\ ldap[u].exists
        => ldap[u].gid = sess[u].ldap_gid /\ sess[u].ldap_gid # NoGid

Resting(u) == Marked(sess[u]) /\ (u \notin Staff => GidHeld(u))

Waiting(u) ==
    /\ sess[u].known
    /\ u \notin Staff => IF u = cur /\ pc \in {"active", "keys"}
                         THEN GidHeld(u) ELSE GidKept(u)
    /\ u = cur /\ pc = "keys" => Marked(sess[u])

GidInv ==
    /\ \A u \in User : InProject(sess[u]) /\ (~sess[u].known => ~ldap[u].exists)
    /\ pc \notin {"usermetadata"} \cup LoopPc => \A u \in User : Resting(u)
    /\ pc = "usermetadata" => \A u \in User \ Staff : GidComing(u)
    /\ pc \in LoopPc => \A u \in User :
           IF u \in todo THEN Waiting(u) ELSE Resting(u)

LEMMA CalmStep ==
    ASSUME Calm, TypeOK, [Next]_vars
    PROVE  \/ DaemonStep \/ UNCHANGED vars \/ Start \/ FetchError
           \/ (Die /\ pc = "fetch") \/ \E u \in User : ApiChange(u)
<1>1. ~Fault("reject") /\ ~Fault("lost") /\ ~Fault("stop") /\ ~Fault("crash")
  BY DEF Calm, Fault
<1>2. \A r, e : ~LdapError(r, e)
  BY <1>1 DEF LdapError
<1>3. ~SyncUserError /\ ~UpdateActiveError /\ ~UpdateKeysError
  BY <1>2 DEF SyncUserError, UpdateActiveError, UpdateKeysError
<1>4. ~SyncUserSecondError /\ ~LdapUnreachable /\ \A u \in User : ~OpenUserError(u)
  BY <1>1 DEF SyncUserSecondError, LdapUnreachable, OpenUserError
<1>5. ~Cancel /\ (Die => pc = "fetch")
  BY <1>1 DEF Cancel, Die
<1> QED BY <1>3, <1>4, <1>5 DEF Next, Environment, LdapUpdateFails

LEMMA TargetGidsProject ==
    ASSUME NEW row \in Row, NEW u, row.projects_api # << >>,
           NEW gid \in TargetGids(row, u)
    PROVE  gid \in Project
<1> DEFINE s == row.projects_api
           others == {i \in DOMAIN s : s[i] \notin Workshop}
<1>1. s \in Seq(Project) /\ Len(s) \in Nat /\ DOMAIN s = 1..Len(s)
  BY LenProperties DEF Row
<1>2. PICK last : gid = TargetGid(row, u, last)
  BY DEF TargetGids
<1>3. Last(s) \in Project
  BY <1>1, LastType
<1>4. CASE SetOf(s) \subseteq Workshop
  BY <1>2, <1>3, <1>4 DEF TargetGid
<1>5. CASE ~(SetOf(s) \subseteq Workshop)
  <2>1. others # {} /\ others \in SUBSET (1..Len(s))
    BY <1>1, <1>5 DEF SetOf
  <2>2. \E i \in others : \A j \in others : j <= i
    BY <1>1, <2>1, LargestExists
  <2>3. (CHOOSE i \in others : \A j \in others : j <= i) \in 1..Len(s)
    BY <2>1, <2>2
  <2>4. s[CHOOSE i \in others : \A j \in others : j <= i] \in Project
    BY <1>1, <2>3, ElementOfSeq
  <2>5. GidLastNotWorkshop(s) \in Project
    BY <2>1, <2>4 DEF GidLastNotWorkshop
  <2> QED BY <1>2, <1>3, <2>5 DEF TargetGid
<1> QED BY <1>4, <1>5

\* apisync leaves an active user's gid alone, and nobody is active without a
\* project.
LEMMA SyncedRowGid ==
    ASSUME TypeOK, TidyInv, NEW u \in User, InProject(sess[u])
    PROVE  /\ SyncedRow(u).is_deactivated = sess[u].is_deactivated
           /\ SyncedRow(u).is_active => SyncedRow(u).ldap_gid = sess[u].ldap_gid
           /\ InProject(SyncedRow(u))
           /\ sess[u].known => SyncedRow(u).known
<1> DEFINE r == sess[u]
           up == fetched.userproject[u]
           r1 == CheckUsersInactive(r, u)
           r2 == UsersProjectsAdd(r1, u)
           r3 == UsersProjectsDel(r2, u)
           r4 == SshkeysAdd(r3, u)
           r5 == SshkeysDel(r4, u)
           Same(x, y) == /\ y.is_deactivated = x.is_deactivated
                         /\ y.ldap_gid = x.ldap_gid
                         /\ y.is_active = x.is_active
                         /\ x.known => y.known
<1>1. r \in Row /\ up.projects \in Seq(Project) /\ up.status \in BOOLEAN
  BY DEF TypeOK
<1>2. /\ r1 \in Row /\ r1.is_deactivated = r.is_deactivated
      /\ r1.known = r.known
      /\ r1.ldap_gid = r.ldap_gid \/ (~r1.is_active /\ u \notin Interested)
      /\ InProject(r1)
  BY <1>1, CheckUsersInactiveType DEF CheckUsersInactive, InProject, Row
<1> HIDE DEF r1
<1>3. /\ r2 \in Row /\ r2.is_deactivated = r1.is_deactivated
      /\ r2.ldap_gid = r1.ldap_gid
      /\ r1.known => r2.known
      /\ u \notin Listed => r2 = r1
  BY <1>2, UsersProjectsAddType DEF UsersProjectsAdd, Row
<1> HIDE DEF r2
<1>4. /\ r3 \in Row /\ Same(r2, r3) /\ (u \notin Listed => r3 = r2)
  BY <1>1, <1>3, UsersProjectsDelType DEF UsersProjectsDel, Row
<1> HIDE DEF r3
<1>5. r4 \in Row /\ Same(r3, r4) /\ r4.projects_api = r3.projects_api
  BY <1>4, SshkeysType DEF SshkeysAdd, Row
<1> HIDE DEF r4
<1>6. Same(r4, r5) /\ r5.projects_api = r4.projects_api
  BY <1>5 DEF SshkeysDel, Row
<1> HIDE DEF r5
<1>7. SyncedRow(u) = r5
  BY DEF SyncedRow, r1, r2, r3, r4, r5
<1>8. Listed \subseteq Interested
  BY DEF Listed
<1>9. r5.is_active => r5.ldap_gid = r.ldap_gid
  BY <1>2, <1>3, <1>4, <1>5, <1>6, <1>8
<1>10. InProject(r5)
  <2>1. CASE u \in Listed
    <3>1. up.projects # << >> /\ SetOf(r5.projects_api) = SetOf(up.projects)
      BY <1>7, <2>1, SyncedRowFields DEF Listed, Interested
    <3>2. Len(up.projects) \in Nat \ {0} /\ DOMAIN up.projects = 1..Len(up.projects)
      BY <1>1, <3>1, LenProperties, EmptySeq
    <3>3. up.projects[1] \in SetOf(up.projects)
      BY <3>2 DEF SetOf
    <3>4. SetOf(<< >>) = {}
      BY EmptySeq DEF SetOf
    <3> QED BY <3>1, <3>3, <3>4 DEF InProject
  <2>2. CASE u \notin Listed
    BY <1>2, <1>3, <1>4, <1>5, <1>6, <2>2 DEF InProject
  <2> QED BY <2>1, <2>2
<1> QED BY <1>2, <1>3, <1>4, <1>5, <1>6, <1>7, <1>9, <1>10

LEMMA GidSync ==
    ASSUME TypeOK, TidyInv, GidInv, SyncCache PROVE GidInv'
<1>1. /\ pc = "fetch" /\ pc' = "usermetadata" /\ UNCHANGED ldap
      /\ \A u \in User : sess'[u] = SyncedRow(u)
  BY DEF SyncCache, Commit
<1>2. \A u \in User : Resting(u) /\ InProject(sess[u]) /\ (~sess[u].known => ~ldap[u].exists)
  BY <1>1 DEF GidInv, LoopPc
<1>3. \A u \in User : InProject(sess'[u]) /\ (~sess'[u].known => ~ldap'[u].exists)
  BY <1>1, <1>2, SyncedRowGid
<1>4. ASSUME NEW u \in User \ Staff PROVE GidComing(u)'
  <2>1. SUFFICES ASSUME SyncedRow(u).is_active, ~sess[u].is_deactivated, ldap[u].exists
                 PROVE  ldap[u].gid = sess[u].ldap_gid /\ sess[u].ldap_gid # NoGid
    BY <1>1, <1>2, SyncedRowGid DEF GidComing
  <2>2. sess[u].is_active
    BY <1>2, <2>1 DEF Resting, Marked
  <2> QED BY <1>2, <2>2 DEF Resting, GidHeld
<1> QED BY <1>1, <1>3, <1>4 DEF GidInv, LoopPc, Marked, InProject

LEMMA GidMetadata ==
    ASSUME TypeOK, TidyInv', GidInv, SetMetadata PROVE GidInv'
<1>1. /\ pc = "usermetadata" /\ pc' = "user" /\ UNCHANGED <<ldap, cur>>
      /\ todo' = {u \in User : sess'[u].known}
      /\ \A u \in User : sess'[u] \in MetadataRows(sess[u], u)
  BY DEF SetMetadata, Commit
<1>2. \A u \in User : LET r == sess[u] s == sess'[u] IN
         /\ s.known = r.known /\ s.is_active = r.is_active
         /\ s.is_deactivated = r.is_deactivated /\ s.projects_api = r.projects_api
         /\ r.ldap_gid # NoGid => s.ldap_gid = r.ldap_gid
  <2> TAKE u \in User
  <2>1. sess[u] \in Row /\ sess'[u] \in MetadataRows(sess[u], u)
    BY <1>1 DEF TypeOK
  <2> QED BY <2>1 DEF MetadataRows, Row
<1>3. \A u \in User : InProject(sess'[u]) /\ (~sess'[u].known => ~ldap'[u].exists)
  BY <1>1, <1>2 DEF GidInv, InProject
<1>4. \A u \in User : u \notin todo' => Resting(u)'
  BY <1>1 DEF TidyInv, TidyRow, Blank, Resting, Marked, GidHeld
<1>5. \A u \in User : u \in todo' => Waiting(u)'
  <2>1. \A u \in User \ Staff : GidComing(u)
    BY <1>1 DEF GidInv
  <2>2. \A u \in User \ Staff : GidKept(u)'
    BY <1>1, <1>2, <2>1 DEF GidComing, GidKept
  <2> QED BY <1>1, <2>2 DEF Waiting
<1>6. pc' \in LoopPc
  BY <1>1 DEF LoopPc
<1> QED BY <1>1, <1>3, <1>4, <1>5, <1>6 DEF GidInv

\* A stage of cur: what it does to the row and the entry.
LEMMA GidOther ==
    ASSUME TypeOK, GidInv, pc \in LoopPc, pc' \in LoopPc,
           NEW who \in User, who \in todo,
           \A u \in User : u # who => sess'[u] = sess[u] /\ ldap'[u] = ldap[u],
           cur' # who => todo' = todo \ {who},
           cur' = who => todo' = todo,
           cur # NoUser => cur = who,
           cur' \in {who, NoUser},
           InProject(sess'[who]), sess'[who].known,
           IF who \in todo' THEN Waiting(who)' ELSE Resting(who)'
    PROVE  GidInv'
<1>1. \A u \in User : u # who => (u \in todo' <=> u \in todo) /\ u # cur /\ u # cur'
  BY ConstantsAssumption
<1>2. \A u \in User : u # who /\ u \in todo => Waiting(u)'
  BY <1>1 DEF GidInv, Waiting, GidKept
<1>3. \A u \in User : u # who /\ u \notin todo => Resting(u)'
  BY <1>1 DEF GidInv, Resting, GidHeld
<1>4. \A u \in User : IF u \in todo' THEN Waiting(u)' ELSE Resting(u)'
  BY <1>1, <1>2, <1>3
<1>5. \A u \in User : InProject(sess'[u]) /\ (~sess'[u].known => ~ldap'[u].exists)
  BY DEF GidInv
<1>6. pc' # "usermetadata"
  BY DEF LoopPc
<1> QED BY <1>4, <1>5, <1>6 DEF GidInv

LEMMA GidOpen ==
    ASSUME TypeOK, GidInv, NEW u \in User, OpenUser(u) PROVE GidInv'
<1>1. /\ pc = "user" /\ pc' = "sync" /\ u \in todo /\ cur' = u
      /\ UNCHANGED <<sess, todo>> /\ cur = NoUser /\ u # NoUser
      /\ ldap' = IF ldap[u].exists THEN ldap
                 ELSE [ldap EXCEPT ![u] = NewEntry(sess[u])]
  BY ConstantsAssumption DEF OpenUser, TypeOK
<1>2. pc \in LoopPc /\ pc' \in LoopPc
  BY <1>1 DEF LoopPc
<1>3. Waiting(u) /\ InProject(sess[u])
  BY <1>1, <1>2 DEF GidInv
<1>4. \A v \in User : v # u => ldap'[v] = ldap[v]
  BY <1>1 DEF TypeOK
<1>5. ldap'[u] = IF ldap[u].exists THEN ldap[u] ELSE NewEntry(sess[u])
  BY <1>1 DEF TypeOK
<1>6. Waiting(u)'
  <2>1. u \notin Staff => GidKept(u)'
    BY <1>1, <1>3, <1>5 DEF Waiting, GidKept, NewEntry
  <2> QED BY <1>1, <1>3, <2>1 DEF Waiting
<1>7. sess'[u].known /\ InProject(sess'[u])
  BY <1>1, <1>3 DEF Waiting
<1>8. \A v \in User : v # u => sess'[v] = sess[v] /\ ldap'[v] = ldap[v]
  BY <1>1, <1>4
<1>9. IF u \in todo' THEN Waiting(u)' ELSE Resting(u)'
  BY <1>1, <1>6
<1>10. /\ cur' # u => todo' = todo \ {u}
       /\ cur' = u => todo' = todo
       /\ cur # NoUser => cur = u
       /\ cur' \in {u, NoUser} /\ u \in todo
  BY <1>1
<1> QED BY <1>2, <1>7, <1>8, <1>9, <1>10, GidOther

LEMMA GidStage ==
    ASSUME TypeOK, StageInv, GidInv, OpenedInv, SyncUser \/ UpdateActive \/ UpdateKeys
    PROVE  GidInv'
<1> DEFINE r == sess[cur]
           e == ldap[cur]
<1>1. /\ cur \in User /\ r \in Row /\ e \in Entry /\ cur # NoUser /\ cur \in todo
      /\ e.exists
  BY CurrentTypes, ConstantsAssumption
     DEF SyncUser, UpdateActive, UpdateKeys, StageInv, OpenedInv, CurrentHasEntry
<1>2. pc \in LoopPc /\ pc' \in LoopPc
  BY DEF SyncUser, UpdateActive, UpdateKeys, LdapDone, NextUser, LoopPc
<1>3. Waiting(cur) /\ InProject(r)
  BY <1>1, <1>2 DEF GidInv
<1>4. PICK who \in User : who = cur
  BY <1>1
<1>5. CASE SyncUser
  <2>1. PICK gid \in TargetGids(r, cur) :
           IF GidDiffers(r, cur, gid) \/ Reactivated(r, cur, gid)
           THEN LdapDone([SyncRelation(r) EXCEPT !.ldap_gid = gid],
                         [e EXCEPT !.gid = gid], "active")
           ELSE LdapDone(SyncRelation(r), e, "active")
    BY <1>5 DEF SyncUser
  <2> DEFINE writes == GidDiffers(r, cur, gid) \/ Reactivated(r, cur, gid)
             s == IF writes THEN [SyncRelation(r) EXCEPT !.ldap_gid = gid]
                            ELSE SyncRelation(r)
             f == IF writes THEN [e EXCEPT !.gid = gid] ELSE e
  <2>2. LdapDone(s, f, "active")
    BY <2>1
  <2>3. /\ s.known = r.known /\ s.is_active = r.is_active
        /\ s.is_deactivated = r.is_deactivated /\ s.projects_api = r.projects_api
        /\ f.exists
        /\ IF writes THEN s.ldap_gid = gid /\ f.gid = gid
                     ELSE s.ldap_gid = r.ldap_gid /\ f.gid = e.gid
    BY <1>1 DEF SyncRelation, Row, Entry
  <2> HIDE DEF s, f, writes
  <2>4. /\ \A u \in User : sess'[u] = IF u = cur THEN s ELSE sess[u]
        /\ \A u \in User : ldap'[u] = IF u = cur THEN f ELSE ldap[u]
        /\ pc = "sync" /\ pc' = "active" /\ UNCHANGED <<cur, todo>>
    BY <1>1, <1>5, <2>2 DEF LdapDone, TypeOK, SyncUser
  <2>5. ASSUME cur \notin Staff, s.is_active
        PROVE  s.ldap_gid # NoGid /\ f.gid = s.ldap_gid
    <3>1. r.is_active /\ r.projects_api # << >>
      BY <1>3, <2>3, <2>5 DEF InProject
    <3>2. gid # NoGid
      BY <1>1, <3>1, TargetGidsProject, ConstantsAssumption
    <3>3. CASE writes
      BY <2>3, <3>2, <3>3
    <3>4. CASE ~writes
      <4>1. gid = r.ldap_gid /\ ~r.is_deactivated
        BY <2>5, <3>2, <3>4 DEF writes, GidDiffers, Reactivated
      <4>2. GidKept(cur)
        BY <1>3, <2>4, <2>5 DEF Waiting
      <4> QED BY <1>1, <2>3, <3>1, <3>2, <3>4, <4>1, <4>2 DEF GidKept
    <3> QED BY <3>3, <3>4
  <2>6. who \notin Staff => GidHeld(who)'
    BY <1>4, <2>3, <2>4, <2>5 DEF GidHeld
  <2>7. Waiting(who)' /\ InProject(sess'[who]) /\ sess'[who].known
    BY <1>3, <1>4, <2>3, <2>4, <2>6 DEF Waiting, InProject
  <2> QED BY <1>1, <1>2, <1>4, <2>4, <2>7, GidOther
<1>6. CASE UpdateActive
  <2> DEFINE s == ActiveRow(r)
             f == ActiveEntry(r, e)
  <2>1. /\ s.known = r.known /\ s.is_active = r.is_active
        /\ s.projects_api = r.projects_api /\ s.ldap_gid = r.ldap_gid
        /\ f.exists /\ f.gid = e.gid
        /\ Marked(s)
    BY <1>1 DEF ActiveRow, ActiveEntry, Deactivates, Activates, Row, Entry, Marked
  <2> HIDE DEF s, f
  <2>2. /\ \A u \in User : sess'[u] = IF u = cur THEN s ELSE sess[u]
        /\ \A u \in User : ldap'[u] = IF u = cur THEN f ELSE ldap[u]
        /\ pc = "active" /\ pc' = "keys" /\ UNCHANGED <<cur, todo>>
    BY <1>1, <1>6 DEF UpdateActive, LdapDone, TypeOK, s, f
  <2>3. who \notin Staff => GidHeld(who)'
    BY <1>3, <1>4, <2>1, <2>2 DEF Waiting, GidHeld
  <2>4. Waiting(who)' /\ InProject(sess'[who]) /\ sess'[who].known
    BY <1>3, <1>4, <2>1, <2>2, <2>3 DEF Waiting, InProject
  <2> QED BY <1>1, <1>2, <1>4, <2>2, <2>4, GidOther
<1>7. CASE UpdateKeys
  <2> DEFINE s == [KeyRow(r) EXCEPT !.is_opened = TRUE]
             f == IF KeysDiffer(r) THEN [e EXCEPT !.keys = r.sshkeys_api] ELSE e
  <2>1. /\ s.known = r.known /\ s.is_active = r.is_active
        /\ s.is_deactivated = r.is_deactivated
        /\ s.projects_api = r.projects_api /\ s.ldap_gid = r.ldap_gid
        /\ f.exists = e.exists /\ f.gid = e.gid
    BY <1>1 DEF KeyRow, Row, Entry
  <2>2. sess' = [sess EXCEPT ![cur] = s]
    BY <1>7 DEF UpdateKeys
  <2>3. \A u \in User : ldap'[u] = IF u = cur THEN f ELSE ldap[u]
    BY <1>1, <1>7 DEF UpdateKeys, TypeOK
  <2> HIDE DEF s, f
  <2>4. /\ \A u \in User : sess'[u] = IF u = cur THEN s ELSE sess[u]
        /\ pc = "keys" /\ pc' = "user" /\ cur' = NoUser /\ todo' = todo \ {cur}
    BY <1>1, <1>7, <2>2 DEF UpdateKeys, NextUser, TypeOK
  <2>5. Marked(r) /\ (cur \notin Staff => GidHeld(cur))
    BY <1>3, <2>4 DEF Waiting
  <2>6. Resting(who)' /\ InProject(sess'[who]) /\ sess'[who].known
    BY <1>3, <1>4, <2>1, <2>3, <2>4, <2>5
       DEF Waiting, Resting, Marked, GidHeld, InProject
  <2> QED BY <1>1, <1>2, <1>4, <2>3, <2>4, <2>6, GidOther
<1> QED BY <1>5, <1>6, <1>7

LEMMA GidStep ==
    ASSUME Calm, TypeOK, StageInv, TidyInv, TidyInv', OpenedInv, GidInv, [Next]_vars
    PROVE  GidInv'
<1> DEFINE Outside == pc \notin {"usermetadata"} \cup LoopPc
<1>1. ASSUME UNCHANGED <<sess, ldap>>, Outside, Outside' PROVE GidInv'
  BY <1>1 DEF GidInv, Resting, GidHeld, LoopPc
<1>2. CASE \/ StartCycle \/ FetchSshkeys \/ FetchUserproject \/ Start \/ LdapCommit
           \/ \E u \in User : ApiChange(u)
  BY <1>1, <1>2 DEF StartCycle, FetchSshkeys, FetchUserproject, Start, LdapCommit,
     Commit, ApiChange, LoopPc
<1>3. CASE Die /\ pc = "fetch"
  BY <1>1, <1>3 DEF Die, Abandon, StageInv, WorkPc, LdapPc, MailPc, LoopPc
<1>4. CASE FetchError
  <2>1. /\ pc = "fetch" /\ pc' = "usermetadata" /\ UNCHANGED <<sess, ldap>>
    BY <1>4 DEF FetchError
  <2>2. \A u \in User \ Staff : GidComing(u)'
    BY <2>1 DEF GidInv, LoopPc, Resting, GidHeld, GidComing
  <2> QED BY <2>1, <2>2 DEF GidInv, LoopPc
<1>5. CASE UpdateGroups
  <2>1. /\ pc = "user" /\ pc' = "commit" /\ todo = {} /\ UNCHANGED <<sess, ldap>>
    BY <1>5 DEF UpdateGroups
  <2> QED BY <2>1 DEF GidInv, LoopPc, Resting, GidHeld
<1>6. CASE EmailSend
  <2>1. Outside /\ Outside'
    BY <1>6 DEF EmailSend, EmailActivate, EmailDeactivate, EmailAccount, Round,
       EmailKey, MailCommit, LoopPc
  <2>2. UNCHANGED ldap
    BY <1>6 DEF EmailSend, EmailActivate, EmailDeactivate, EmailAccount, Round,
       EmailKey, MailCommit
  <2>3. \A u \in User : /\ Marked(sess'[u]) <=> Marked(sess[u])
                        /\ InProject(sess'[u]) <=> InProject(sess[u])
                        /\ GidHeld(u)' <=> GidHeld(u)
                        /\ sess'[u].known = sess[u].known
    BY <1>6, <2>2, EmailWork DEF SameWork, SameSync, Marked, InProject, GidHeld
  <2> QED BY <2>1, <2>2, <2>3 DEF GidInv, LoopPc, Resting
<1>7. CASE UNCHANGED vars
  BY <1>7 DEF vars, GidInv, Resting, Waiting, GidHeld, GidKept, GidComing
<1> QED BY <1>2, <1>3, <1>4, <1>5, <1>6, <1>7, CalmStep, GidSync, GidMetadata, GidOpen,
           GidStage DEF DaemonStep, LdapUpdate

\* When LDAP answers and nobody stops the daemon, a cycle ends with the gid of
\* an active user's entry being the row's, although usermetadata may have set
\* the row's before update_default_gid compares (usermetadata 60-72, ldapupdate
\* 171-184).
THEOREM GidFollows == ASSUME Calm PROVE Spec => []GidFollowsCache
<1>1. Init => GidInv
  BY DEF Init, GidInv, BlankRow, NoEntry, LoopPc, Resting, Marked, GidHeld, InProject
<1>2. TypeOK /\ StageInv /\ TidyInv /\ TidyInv' /\ OpenedInv /\ GidInv /\ [Next]_vars
      => GidInv'
  <2> SUFFICES ASSUME TypeOK, StageInv, TidyInv, TidyInv', OpenedInv, GidInv,
                      [Next]_vars
               PROVE  GidInv'
    OBVIOUS
  <2> QED BY GidStep
<1>3. StageInv /\ GidInv => GidFollowsCache
  BY AtSleep DEF GidInv, LoopPc, Resting, GidHeld, GidFollowsCache, Settled
<1> QED BY <1>1, <1>2, <1>3, Foundations, OpenedAlways, PTL DEF Spec
=============================================================================
