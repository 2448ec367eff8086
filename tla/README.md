# A verification project for hrzoo-hpc-users-back (accounts-hpc)

`accounts-hpc` carries the users, projects and SSH keys of the Croatian national
HPC resource from the HRZOO signup API into an LDAP directory, the file systems,
the PBS scheduler and the users' mailboxes. A daemon, `ah-taskd`, runs a fixed
list of tasks again and again; each task compares the cache (an SQLite database)
with one of its neighbours and changes whatever differs. No task is ever told
*what* happened: a departure, a new key or a refused mail is only visible as a
difference between two pieces of state that a later run may or may not see. That
is what this project models, checks and proves: that the differences are seen,
through every order of API changes, failures, signals and kills, and beside an
operator who changes the same cache with two command-line tools.

- [Inventory](#inventory)
- [Modules](#modules)
- [Runs](#runs)
- [Proofs](#proofs)
- [Where code and documents disagree](#where-code-and-documents-disagree)
- [Not modelled](#not-modelled)
- [Plan](#plan)

Paths below are relative to `src/accounts-hpc/`; `ldapupdate.py` and the other
tasks are in `modules/tasks/`.

## Inventory

| Component | State it keeps | Operations |
|---|---|---|
| Signup API (external) | memberships, keys and statuses of the users | two GETs, `sshkeys` and `userproject` |
| Cache (`modules/db.py`) | tables `users`, `projects`, `sshkeys` and their relations | read and written by every task in a session of its own |
| `apisync.py` | none of its own | fetch, `check_users_inactive`, `users_projects_add`/`_del`, `sshkeys_add`/`_del`, one commit |
| `usermetadata.py` | none | first UID and GID of an active user, one commit |
| `ldapupdate.py`, flat | LDAP: `ou=People`, `ou=Group` | per user: add the entry, relations, gid, shell, keys; then the groups; one commit |
| `ldapupdate.py`, project_organisation | LDAP: a subtree `o=PROJECT-…` per project | the same per project, with flags per project |
| `emailsend.py` | `users_opened` of a run | four (flat) or three (per project) rounds and the mails about keys; commit in a `finally` |
| `fairshare.py` | PBS's `resource_group` file | append missing projects, SIGHUP, flag them |
| `createdirectories.py` | home, scratch and project directories | mkdir, chmod, chown, flag when all are done |
| HTTP client (`modules/httpconn.py`) | one session shared by two GETs | tries, answers, retries, closing |
| `bin/ah-taskd.py` | the pidfile, the asyncio tasks | start, cycle, gather, SIGTERM/SIGINT |
| `bin/ah-user-manage.py` | none; it writes the cache from another process | create, update, delete, flag resets, flush |
| `bin/ah-project-manage.py` | none, likewise | create with a counted gid and identifier, update, delete |
| `modules/shared.py`, `config.py`, `log.py` | one database session per task and daemon; the configuration | created once in a process |
| `bin/ah-db-tool.py`, `alembic/` | the schema | migrations |
| `bin/ah-api-sync.py` and the other single-task commands | none | wrappers that fail before they change anything |
| helpers, cron, `acl-galaxy`, docker, init | none | repair scripts, deployment |

**How they interact.** The only shared state is the cache. The daemon runs
apisync → usermetadata → ldapupdate in sequence, then fairshare,
createdirectories and emailsend concurrently, then sleeps. Each task holds the
rows in a session: what it changes is visible to the others after its commit and
lost when it is cancelled or killed before — while LDAP, the file system, PBS and
the mail server have already been told. A flag in the cache is therefore a
statement about the outside world, and the two can be separated at any `await`.
The tools open the same file from another process: a command is one transaction,
committed between any two steps of a task. SQLite has one writer, which holds its
lock from the first flush to the commit.

**What is hard.**

1. *External effect first, commit last.* LDAP is changed along the way and the
   cache once at the end: a crash, a signal or a lost answer between the two.
2. *Differences as the only memory.* A change of the API that is undone, or a
   relation that is updated before LDAP is, removes the difference a retry needs.
3. *Flags in pairs.* `is_active`/`is_deactivated`, `mail_name_sshkey` with
   `mail_is_sshkeyadded` and `mail_is_sshkeyremoved`, and six JSON dictionaries
   per project that are kept in step by hand.
4. *Two GETs, not a snapshot.* The API may change between them.
5. *Size comparisons.* A list shrinks only when it is longer than the API's.
6. *Start and stop of the daemon* by a pidfile that survives kills.
7. *Retries* of HTTP requests that share a session, of directories half made, of
   lines half written.
8. *One file, several sessions.* A task's commit writes the columns it has changed
   over whatever a tool has committed since the task loaded the row; a session
   that waited too long for the write lock is unusable until the daemon restarts.
9. *Counts as numbers.* gids and identifiers of manual projects are counts of
   rows, those of the default and resource groups counts of what a run creates.
10. *Names as references.* `projects_api` names projects by identifiers that the
    tools may delete or rename; the daemon does not survive one that is gone.

**What makes each component correct.**

| Component | Properties |
|---|---|
| apisync, usermetadata | the cache follows the API (`CacheFollowsApi`, `CacheKeysFollowApi`) |
| ldapupdate, flat | entries, groups, gids, shells, keys follow the cache and the API (`OpenedHasEntry`, `GroupsFollowCache`, `GidFollowsCache`, `Converges`); so do the default, resource and project groups (`MembersFollow`) |
| ldapupdate, per project | who leaves loses the login, subtrees are whole, no empty search (`LeaverLosesLogin`, `EntriesFollowApi`, `ShellTargetsExist`, `DeactivatedIsLocked`), no missing dictionary key (`DeletedFlagsExist`) |
| emailsend | at-least-once notices (`NoticesDelivered`, refinement), none stranded or owed (`NoStrandedKeyNotice`, `AllNoticesSent`), none lost or repeated through locks and SystemExits (`MailRecorded`) |
| ah-taskd | one daemon, whose pid the file holds; no needless refusal; tasks recur (`OneDaemon`, `ServiceOwnsPidfile`, `NoSpuriousRefusal`, `TasksRecur`) |
| fairshare | a usable file, flags that tell the truth (`FileWellFormed`, `FlagMeansListed`, `FlagMeansLoaded`) |
| createdirectories | a flag means that all directories belong to one uid, a user's to that user; they appear (`FlagMeansOwned`, `DirectoriesAppear`) |
| the concurrent tasks | nobody waits for ever, the work is done at last (`GatherEnds`, `WorkDone`) |
| ah-user-manage beside the daemon | shell and keys still follow the API, keys are found, the account mail is not repeated (`ShellFollowsApiManaged`, `KeysFollowApiManaged`, `KeyLookupsSucceed`, `AccountMailedOnce`) |
| ah-project-manage beside the daemon | numbers are distinct, references resolve (`GidsDistinct`, `ReferencesExist`) |
| HTTP client | no session closed under a request, no half answer, an end (`SessionOpenWhileAsking`, `DataMeansBothLists`, `FetchEnds`) |

## Modules

### The flat pipeline

`FlatAccounts` declares the state the tasks share. A `Row` is one row of `users`
with the columns this mode uses; `db` holds the committed rows, `sess` the rows as
the running task's session sees them; `ldap`, `group` are the directory; `sent` is
what the SMTP server has accepted for flags that are not committed yet. Users,
projects and keys are atoms; a project stands for its gid (`prjid_api` plus an
offset), `ldap_uid` only tells 0 from not 0. Relations of the ORM have no order
the code determines, so they are sets.

| Module | Code | Actions and operators |
|---|---|---|
| `ApiSync` | `apisync.py` | `FetchSshkeys`, `FetchUserproject`, `FetchError`; `SyncCache` applies the five handlers (`CheckUsersInactive` … `SshkeysDel`) in the order of `run` and commits |
| `UserMetadata` | `usermetadata.py` | `SetMetadata`: `MetadataRows` for every user, one commit |
| `LdapUpdateFlat` | `ldapupdate.py` 130-337, 398-431, 593-705 | one user at a time through `user`, `sync`, `active`, `keys`, one action per LDAP operation; each operation may succeed, be refused (`reject`) or be carried out with its answer lost (`lost`); then groups and commit |
| `EmailSendFlat` | `emailsend.py` | the rounds `EmailActivate`, `EmailDeactivate`, `EmailAccount`, `EmailKey` and the commit |
| `FlatPipeline` | the cycle of `ah-taskd.py` | composes them; `ApiChange`, `Cancel`, `Die`, `Start`; the properties |
| `Notices` | – | the abstract specification of notifications |
| `ProjectLists` | `apisync.py`, the lists of projects | `AppendMissing`, `Distinct`, shared by both pipelines |

Order of the users in `ldapupdate` is free (`todo` is a set): the code iterates
over a query without ORDER BY. `guarded` tells whether an LDAPError is inside
the handler that logs it (624) or inside the `AlreadyExists` branch, where it
ends the daemon. `quiet` is an observer: the number of complete cycles since the
last failure or API change, at most `QuietMax` = 2. Properties of the form
`Settled(n) => …` read "n undisturbed cycles later"; a cycle that met a failure
does not count.

`MCFlat` gives the API's possible answers: `ApiStatus` (on a project, gone, or with
the status withdrawn) and `ApiEverything` (also k1, k2, no key; a project, a
workshop, both in each order).

### The pipeline of projects and organisations

`OrgAccount` (state and apisync), `OrgLdapUpdate`, `OrgEmailSend` and
`OrgPipeline` model `ldap.mode: project_organisation`, the mode of the shipped
configuration, for one user on several projects. One user is enough because no
row, subtree flag or entry of one user is read for another; what users share in
this mode (the posixGroup) is compared in full every cycle, as in the flat one.
Six JSON columns map projects to booleans; a `Flags` value adds "absent" because
a missing key is a `KeyError`. `tree[p]` counts the entries of the subtree made so
far (`o=`, `ou=People`, `ou=Group`), which the code adds one by one. UIDs and
GIDs are left to the flat pipeline. The two GETs are one step here.

### The other components

- `TaskDaemon` (`bin/ah-taskd.py`): a process is its PID; the start is five steps
  (read, test, remove, open, write), for the operating system may schedule or kill
  between any two. `Torn` is a file that is created and not yet written. In
  service a daemon walks `CallList`; the concurrent tasks are the set `running`.
  `met` observes whether a daemon was in service when a start began. `OneStarter`
  says whether starts are serialised by whoever starts the daemon.
- `Fairshare` (`fairshare.py`): lines with their share numbers, an unflushed
  buffer, the session's selection and flags. A kill amid the write leaves a
  prefix of the new lines; a SIGTERM at an `await` leaves the lines whole, for the
  thread of aiofiles finishes, and the `finally` clause commits what is flagged by
  then. `untold` observes the projects flagged that way before PBS was told.
- `Directories` (`createdirectories.py`): owners one after another, for each
  directory mkdir, chmod, chown, each of which may fail; the count that decides
  about the flag. `dir` is the uid a directory belongs to; between two runs users
  get their uid and another user may become a project's first.
- `MailTask` (`emailsend.py`, `modules/emailsend.py`): emailsend as the concurrent
  tasks see it. A mail is a name with a round; what is due and why is
  `EmailSendFlat`'s. `told` observes what the server accepted, `unsure` what was
  accepted without a record because a fault intervened.
- `HttpFetch` (`httpconn.py` as `apisync.fetch_data` uses it): two coroutines on
  one session, `NTry` tries each.

`MCDaemon`, `MCDirectories` and `MCOrg` instantiate them; `HttpFetch` needs no MC
module.

### The proofs

| Module | About | Builds on |
|---|---|---|
| `ServiceProofs` | `TaskDaemon` and `HttpFetch`, the service around the tasks | – |
| `ProjectListsProofs` | `ProjectLists`: positions in a sequence, the `k`-th missing project, lists without repetitions | – |
| `FlatProofs` | `FlatPipeline`: types, safety, refinement, what an undisturbed cycle achieves | `ProjectListsProofs` |
| `ManagedProofs` | `ManagedPipeline` | `FlatProofs`: its lemmas on rows and stages hold of the daemon's steps beside the operator too |
| `OrgProofs` | `OrgPipeline` | `ProjectListsProofs` |
| `DirectoriesProofs` | `Directories` | – |
| `ConcurrentProofs` | `ConcurrentTasks` | `DirectoriesProofs`, by INSTANCE |
| `ProjectGroupsProofs` | `ProjectGroups` | – |

### The concurrent tasks

`ConcurrentTasks` composes `Fairshare`, `Directories` and `MailTask` (INSTANCE with
their variables renamed) in the `asyncio.gather` of `ah-taskd.py` 174-221. Each has
the session `modules/shared.py` creates once per process. `holder` is the session
with SQLite's write lock: taken by a flush — createdirectories flushes in its next
SELECT or lazy load, emailsend in the SELECT of the next round, fairshare in its
commit only — and kept until the commit. A session that waits more than five
seconds raises in its own `finally` clause, before `close()`: it is `broken` and
its task ends at its first SELECT in every later cycle until the restart. `gather`
with `return_exceptions` passes over an exception; a SystemExit (no fairshare file,
no mail template) leaves the event loop at once, with the others amid their runs.
SIGTERM cancels what runs at its next `await` and keeps what has not started from
starting; the `finally` clauses commit.

### The tools beside the daemon

`ManagedPipeline` extends the flat pipeline by an operator who runs `ah-user-manage`
at any time. `UserManage` has a command as an operator on the user's row.

- `cache` is the committed table, `db` what the running task has loaded. A task
  closes its session, so the next one loads afresh; `behind` says that a command
  was committed after the load. The commit then writes the columns the task has
  changed, of a relation the pairs (`Merged`), and an UPDATE of a deleted row is a
  StaleDataError that nothing catches (`StaleCommit`). Relations are loaded when
  they are needed, so a task sees them as they are. While the task's session has
  flushed changes, a command ends with "database is locked" and changes nothing.
- `sshkeys` counts the rows of that table by fingerprint, `uid_api` and whether
  `user_id` is set; `keysess` is the task's view. apisync adds a row when it finds
  none, ldapupdate asks for exactly one; any other number is an exception that
  ends the daemon (`KeyLookupFails`).
- `declared` and `meddled` observe which commands overrule the memory of the
  daemon: `is_deactivated` says whether LDAP was told, a relation of keys what it
  was told, and rows of `sshkeys` what can be found. The properties are about users
  whose memory was left alone; what happens to the others is described below.

`ProjectGroups` models manual projects and the groups of the directory: all
commands of `ah-project-manage`, the commands of `ah-user-manage` that create users
and assign them, and the parts of usermetadata and ldapupdate that number, create
and fill groups (`create_default_groups` and `create_resource_groups`, which run
concurrently, `user_sync_api_db`, `group_ldap_update`, `update_default_groups`,
`update_resource_groups`). A project is a row in a `Slot`, with the number of its
identifier; `Resolves` says that a query by identifier finds one row. `renumbered`
observes what makes counts repeat (a deleted, renamed or retyped project, a
nullified gid, groups created in two runs), `orphaned` what leaves identifiers
without a row. `writes` says whether the session of ldapupdate has changed a relation:
its commit writes those changes and leaves alone what a command has committed
meanwhile, and until then a command meets a locked database. `MCManaged` and `MCProjectGroups` instantiate the two.

### What the abstraction leaves out

Names and addresses of users, templates and wording of mails, certificates and
connection parameters, DNs, logging. SQLAlchemy is a session row and a committed
row. A resource has no limit: LDAP never runs out of space. Where an operation
may fail, any subset of failures that the cfg's `Faults` name may happen any
number of times: none of the passing runs bounds their count.

## Runs

Ten runs pass, two show a disagreement between code and document (below). All are
exhaustive over the instance given; `flat_faults` is restricted to an API that
changes while the daemon sleeps or is down.

| Run | Instance | Shows |
|---|---|---|
| `flat_faults` | 1 user, 1 project, 1 key; leaving, returning, status withdrawn; refused LDAP operations and mails, lost answers, stops, kills | the notices, entries and flags, recovery of cache and groups; 6.3 M states |
| `flat_sync` | 1 user, a project and a workshop, 2 keys, 9 answers; failing fetches | shell, keys, gid follow the API; `Converges`; 62 k states |
| `daemon` | 3 PIDs; kills, torn files, reused PIDs | the pidfile protocol and the cycle; 145 k states |
| `concurrent` | 1 project, 1 user, 1 mail and 2 rounds; slow locks, failing chown, refused mails, exceptions, SystemExits, stops, kills | the three tasks keep their promises together, end, and catch up; 181 k states |
| `directories` | 2 users, 1 project, 1 path for users and 2 for projects; every call fails, stops, kills | flags, uids, retries; 186 k states |
| `http_fetch` | 2 GETs, 3 tries | session, result, end; a few hundred states |
| `org_projects` | 2 projects, joined and left in every order; failing fetches | login, no empty search; 181 k states |
| `org_faults` | 2 projects, one left and rejoined; refusals, stops, kills, refused mails | flags, locks, notices, subtrees and entries; 7 M states |
| `groups` | 2 users, 2 projects, 2 default groups, 1 resource group, 4 commands; refused LDAP changes, kills | numbers, references, members; 1.1 M states |
| `manage` | 1 user, 1 project, 1 key, leaving, returning, status withdrawn; every command, two of them; failing fetches | shell, keys and the account mail beside the operator; 1.2 M states |
| `org_keys` | 2 projects, 2 keys | violation of `KeysReachAllProjects` |
| `org_gone` | 2 projects | violation of `GoneIsNullified` |

**Why the bounds are enough.** In both pipelines a row is only read and written
for its own user (`RowChange` of `FlatProofs` states this as a formula that
is proved); users meet in the groups and in the session that one failure rolls
back, which takes two. Two keys make a replacement, the only change of keys that
keeps the number and so fools a comparison of sizes. A project and a workshop in
each order are all that `update_default_gid` distinguishes. Two projects are what
the loops of `ldapupdate.py` 235-263 can confuse, and "the last project" of 345 is
then different from the first. Three PIDs are the daemon in service, the one
named by a stale file, and the one that starts. In `concurrent` one project, one
user and one mail of the first of two rounds let each of the three sessions meet a
lock that another holds; a fairshare file that may be empty at first makes the root
line and an append behind it. Several projects, an
append behind an append and lines that an earlier run left, are covered by the
theorems about `FileWellFormed`, `FlagMeansListed` and `FlagMeansLoaded`, which hold
for any number. `MaxCommands` = 2 in `manage` allows a command and its
correction, or two commands that overlap with the same task; every command is there,
so every pair is. `MaxCommands` = 4 in `groups` is a project, a second one, a user
assigned to it, and the command that disturbs them. `QuietMax` = 2 because two cycles are the most
any of the properties waits for; the counter stays there. Nothing else is bounded.

**One restriction.** `ApiChangesInSleep` (`MCFlat`, an ACTION_CONSTRAINT of
`flat_faults`) leaves out changes of the API amid a cycle. apisync sees the API only
while it fetches; a change between the two GETs is in `flat_sync`, which has no such
restriction.

**Why faults differ between runs.** With a refused LDAP operation shells and keys
need not follow the API (see below), so `flat_sync` has failing fetches only, and
`flat_faults` checks what is meant to hold through everything else. `manage` has
failing fetches for the same reason: what goes wrong there is the operator's doing.
`org_projects` is likewise without LDAP failures and stops: a project whose
activation and deactivation are both due after missed cycles breaks
`LeaverLosesLogin`, and an entry that was never added `ShellTargetsExist`. In
`org_faults` a lost LDAP answer is left out for its size;
`flat_faults` has it. `concurrent` leaves failing mkdir and chmod to `directories`,
and a lost answer of the mail server, which acts like a refusal after acceptance.

**Deadlock** is checked everywhere but in `http_fetch`, which ends when the fetch
does.

**Fairness.** The daemon is one asyncio program whose event loop runs while it lives.
HTTP and SMTP connections have timeouts, so has a wait for the write lock, and the
rest is local or a sleep: such an await ends. An LDAP server need not answer.
`ldapupdate.py` 605 connects with `timeout=None`, the other connections with the
library's default, and no operation has a timeout of its own. Therefore

- `FlatPipeline` assumes weak fairness of `DaemonStep` outside the stages that wait
  for LDAP (`LdapWaits`). `Converges` has "failures and changes stop at last, and the
  daemon is again and again neither down nor waiting for LDAP" as a premise.
- `TaskDaemon` assumes weak fairness of each daemon's steps outside `ldapupdate`,
  and of each concurrent task's end. `TasksRecur` says of a daemon that stays in
  service that every task recurs *or* it stands in ldapupdate for ever.
- `ConcurrentTasks`, where no LDAP call is made, assumes weak fairness of each task and
  of the gather's end. When the next gather begins is left open, for an ldapupdate lies
  between: `WorkDone` has "gathers begin again and again, no failures any more, the
  daemon stays up and no session is broken" as a premise.
- `Directories` assumes that a run goes on and starts again; that calls succeed at
  last is in its premise. `HttpFetch` assumes that a try ends, by its timeout if
  nothing else.
- `Fairshare`, `OrgPipeline`, `ManagedPipeline` and `ProjectGroups` state no liveness and
  assume no fairness: their properties say what holds in every state, or "undisturbed
  cycles later".

Nothing is assumed of the API, of failures, of signals or of the operator.

Each property of a passing run has a mutant in `PROJECT.json`: a plausible bug of
the code, written next to the definition it changes and marked `Mutant:`, under
which TLC finds the property violated.

## Proofs

All are checked by TLAPS for every value of the constants that the `ASSUME`s
allow (finite sets, an API that lists an association once, atoms that differ,
configured groups that are not named like a project), and for every set of faults
the module knows, with two exceptions. `ManagedPipeline` has failing fetches only, by
its own `ASSUME`: what goes wrong there is to be the operator's doing. The theorems
marked *calm* have `Calm` as a hypothesis, `Faults \subseteq {"http", "smtp"}`:
fetches and mails fail at any time, LDAP answers and nobody stops the daemon. They
are false without it: TLC finds a violation of each of the three with each of
`reject`, `lost`, `stop` and `crash` alone.

| Theorem | States |
|---|---|
| `ServiceProofs!TypeCorrect` | `Spec => []TypeOK` |
| `ServiceProofs!PidfileNamesService` | `OneStarter => (Spec => []ServiceOwnsPidfile)` |
| `ServiceProofs!AtMostOneDaemon` | `OneStarter => (Spec => []OneDaemon)` |
| `ServiceProofs!StaleFileIsHarmless` | `OneStarter => (Spec => NoSpuriousRefusal)` |
| `ServiceProofs!FetchTypeCorrect` | `FetchSpec => [](FetchTypeOK /\ OpenInv)` |
| `ServiceProofs!DataOfEveryList` | `FetchSpec => []DataMeansBothLists` |
| `ServiceProofs!SessionKeptOpen` | `HandleSessionClose => (FetchSpec => []SessionOpenWhileAsking)` |
| `FlatProofs!TypeCorrect` | `Spec => []TypeOK` of the flat pipeline |
| `FlatProofs!OpenedAlwaysHasEntry` | `Spec => []OpenedHasEntry` |
| `FlatProofs!KeyNoticesNeverStranded` | `Spec => []NoStrandedKeyNotice` |
| `FlatProofs!PipelineImplementsNotices` | `Spec => NoticesDelivered`, the refinement |
| `FlatProofs!CacheFollows` | `Spec => []CacheFollowsApi` |
| `FlatProofs!CacheKeysFollow` | `Spec => []CacheKeysFollowApi` |
| `FlatProofs!GroupsFollow` | `Spec => []GroupsFollowCache` |
| `FlatProofs!NoticesAllSent` | `Spec => []AllNoticesSent` |
| `FlatProofs!GidFollows` | *calm*: `Spec => []GidFollowsCache` |
| `OrgProofs!TypeCorrect` | `Spec => []Typed`, `TypeOK` with what the row and the stage say of each other |
| `OrgProofs!FlagsAreThere` | `Spec => []DeletedFlagsExist` |
| `OrgProofs!DeactivationInForce` | `Spec => []DeactivatedIsLocked` |
| `OrgProofs!NoticesAllSent` | `Spec => []AllNoticesSent` |
| `OrgProofs!TargetsExist` | *calm*: `Spec => []ShellTargetsExist` |
| `OrgProofs!EntriesFollow` | `Spec => []EntriesFollowApi` |
| `OrgProofs!LeaversLocked` | *calm*: `Spec => []LeaverLosesLogin` |
| `ManagedProofs!ManagedTypeCorrect` | `ManagedSpec => []ManagedTypeOK` |
| `ManagedProofs!AccountsMailedOnce` | `ManagedSpec => AccountMailedOnce` |
| `ManagedProofs!KeyLookupsFound` | `ManagedSpec => KeyLookupsSucceed` |
| `ManagedProofs!ShellsFollowManaged` | `ManagedSpec => []ShellFollowsApiManaged` |
| `ManagedProofs!EntryKeysFollowManaged` | `ManagedSpec => []KeysFollowApiManaged` |
| `ManagedProofs!GroupsFollowManaged` | `ManagedSpec => []GroupsFollowCache` |
| `ManagedProofs!CacheFollowsManaged` | `ManagedSpec => [](CacheFollowsApi /\ TableFollows)` |
| `ManagedProofs!CacheKeysFollowManaged` | `ManagedSpec => []CacheKeysFollowApi` |
| `ManagedProofs!OpenedHasEntryManaged` | `ManagedSpec => [](OpenedHasEntry /\ OpenedTable)` |
| `DirectoriesProofs!FlaggedIsOwned` | `Spec => []FlagMeansOwned` |
| `ProjectGroupsProofs!TypeCorrect` | `Spec => []TypeOK` of projects and groups |
| `ProjectGroupsProofs!NoDanglingReference` | `Spec => []ReferencesExist` |
| `ProjectGroupsProofs!NumbersDistinct` | `Spec => []GidsDistinct` |
| `ProjectGroupsProofs!GroupsFollowCache` | `Spec => []MembersFollow` |
| `ConcurrentProofs!MailsRecorded` | `Spec => []MailRecorded` |
| `ConcurrentProofs!FileStaysWellFormed` | `Spec => []FileWellFormed` |
| `ConcurrentProofs!FlaggedIsListed` | `Spec => []FlagMeansListed` |
| `ConcurrentProofs!FlaggedIsLoaded` | `Spec => []FlagMeansLoaded` |
| `ConcurrentProofs!FlagStillMeansOwned` | `Spec => []D!FlagMeansOwned`, beside the other tasks |
| `ConcurrentProofs!FairshareImplemented` | `Spec => FAlone!Spec`, a refinement |
| `ConcurrentProofs!DirectoriesImplemented` | `Spec => DAlone!Init /\ [][DAlone!Next]_(DAlone!vars)`, a refinement |
| `ConcurrentProofs!TypeCorrect` | `Spec => []TypeOK` of the composition |

**The daemon.** "The pidfile names the daemon in service" is not inductive: a
start that is past its test is about to overwrite the file. `IInv` adds
`StarterInv` (at most one process starts, and what it has read is the pid of the
daemon in service, if there is one) and the second half of
`ServiceOwnsPidfile` (a start past its test meets no daemon in service); a start
passes the test only if the pid in the file is dead, and by the invariant no
other can be in service. Everything rests on `OneStarter`: two starts whose steps
interleave both pass, and nothing in `ah-taskd.py` excludes that; the systemd unit
(`init/hrzoo-accounts-taskd.service`) does, as long as nobody starts the daemon by
hand next to it. Kills, torn
files and reused PIDs are covered for any number of processes. `StaleInv` relates
what a starting daemon has read to what it will be refused for.

**The fetch.** `FetchTypeOK` is not inductive: a request whose tries are used up must
not be asking any more, which `OpenInv` says (`asking[g]` implies a try that is left
and no answer yet). `ResultInv` says that `fetch_data` has a result only when every GET has its answer,
`ClosedInv` that the session is closed only then. Only the
caller's `handle_session_close` keeps a GET that gives up from closing the session
under the other; `SessionKeptOpen` has it as hypothesis, and the mutant of the run is
a client that closes all the same. Sets of requests and limits of tries are arbitrary.

**The flat pipeline.** Type correctness carries the facts the code relies on
silently (a user in work in exactly the stages that have one, sequences of
projects, the `k`-th missing project of `AppendMissing`, which needs a counting
argument on finite sets). The two safety proofs share one lemma, `RowChanges`:
every step changes a row by one of the operators of the tasks, or rolls it back,
or commits it. What a property needs is then shown operator by operator.

- `OpenedInv`: committed and session rows that are opened have an entry, and so
  has the user in work from `sync` to `keys`, where `is_opened` is set. No LDAP
  operation of the code removes an entry, so neither a crash nor a lost answer
  can break it.
- `FlaggedInv`: committed and session rows both have their key notices under a
  flag that will be looked at. The interesting operators are `KeyRow`, which
  resets the flag with every name, and `AfterKeyMails`, which sets the flag and
  must take the names with it.

**An undisturbed cycle of the flat pipeline.** Properties of the form `Settled(n)`
speak of the end of a cycle that met no failure; what went wrong before it is
arbitrary. Their invariants say, for each stage, what is right already *if* nothing
has disturbed the cycle so far (`quiet >= 0`), so that a failure makes them vacuous
and the next cycle starts from nothing.

- `StageInv` (where the session is the cache, whom ldapupdate has still to do) and
  `TidyInv` (lists without repetitions; a row that is not there yet is blank) hold
  always. The second is what lets `users_projects_del` compare lengths of lists.
- `WorkInv`: a user whom ldapupdate has passed, stage by stage (`Passed`), has the
  relation that the list asks for, an active user is not marked deactivated, and the
  relation of keys is the list of keys. With the groups compared in full this is
  `GroupsFollowCache`.
- `SyncInv` counts the commits of apisync since the last disturbance (`Rounds`).
  After one, projects, status and at least the API's keys are there; after two the
  keys are exactly the API's. One is not enough: `sshkeys_del` runs only while the
  list is longer than the API's, and the user whom the API dropped loses the status
  in the second cycle only.
- `MailedInv`: a round of emailsend that lost no mail leaves none of its kind due and
  makes none of another kind due.
- `GidInv`, calm: usermetadata may set `ldap_gid` first and so hide from
  `update_default_gid` that the entry lacks it. What saves the entry is
  `is_deactivated`, set when the user left. The invariant says that whoever lost the
  gid is marked, or ldapupdate is about to come to the user.

**Projects and organisations.** As in the flat pipeline a row changes by few
operators (`RowChange`), and `Typed` adds to `TypeOK` what row and stage say of each
other.

- `FlagsInv`: where a shell was changed, or is about to be, the flag of the mail is
  there, so that the assignment that follows finds its key.
- `LockInv`: a project marked deactivated, with no activation recorded, has a
  nologin entry, in the session and in the cache, whatever was killed in between:
  the shell is written before the flag, and only an activation undoes it.
- `MailedInv`, `FollowInv`: an undisturbed cycle, as above.
- `WayInv`: as long as nothing disturbed the cycle, a project of the list has the
  user's entry or is still to come in the loop (`Waiting`), and the relation is the
  list once one project went through its stages. `WholeInv` always: who is in a group
  has a whole subtree there, for a failed `update_project_groups` is logged and leaves
  the group as it was, and a subtree grows only while it is not whole. With
  `FollowInv` this is `EntriesFollowApi` under every fault. A subtree that a failure
  left half made is never completed; it makes each later cycle a disturbed one, for
  the entry or the group of its project fails again, and the theorem then says
  nothing.
- `TreeInv`, calm: every subtree is whole or the one in work, and an entry's is
  whole. `ReachInv`, calm: every project of the list or the relation has an entry or
  is waiting for one, so the loops over the shells search for nothing that is not
  there. A stop between apisync and ldapupdate, or a refused add, breaks both.
- `LeaverInv`, calm: for an entry whose project left the list, something still asks
  for nologin until it is written: a flag, the relation or the stage. No
  activation is due for a project that is not in the list, hence the two loops
  cannot meet on one project. After missed cycles they do.

**Beside the operator.** A step of `ManagedPipeline` is one of the daemon, whose
session is then merged into the table; one that loads the session afresh; or a
command. For the first the lemmas of `FlatProofs` hold unchanged, for their
hypotheses are about the session alone.

- `Effect` is all the proofs know of the eleven commands: what they may do to the
  user's row, to the counts of sshkeys rows and to the observers. Each command has
  its lemma that it has this effect.
- `MergedFields` says of a commit over a changed table, column by column, that it
  writes what the task changed and leaves what it did not.
- `LoadInv`: unless a command was committed since the load, table and session are
  one; and while one was, the cycle counts as disturbed and has not come to emailsend.
  This is what makes a stale merge harmless in the end.
- `MailInv`: a task never lowers `mail_is_opensend` below what it has loaded.
- `KeysInv` (unless `meddled`): no key of a user has two sshkeys rows, and every key
  that a user's row mentions has one, in the table and in the task's view of it.
  `ViewInv`: a relation is the view of the table.
- `MemInv` (unless `meddled`, for users who are not `declared`): the relation of keys
  is what the entry has and `is_deactivated` whether its shell is nologin. `DoneInv`:
  whoever ldapupdate has passed has an entry and a mark that goes with the status.
  With `SyncInv` shell and keys follow.
- `GroupInv` needs neither: what the groups are compared with is loaded in the same
  task. `TableFollows` adds to `CacheFollowsApi` that at the end of an undisturbed
  cycle the table is what the task had loaded, hence no stale session is behind it.
  `OpenedTable` says of the table what `OpenedHasEntry` says of the rows a task has
  loaded; a merge takes `is_opened` from one of the two, and no command sets it.

Not every promise of the flat pipeline survives the operator; TLC finds each of these
violated by `ManagedSpec`. `AllNoticesSent` and `NoStrandedKeyNotice` fail by
`--mailname-sshkey-add`, which adds a name under a flag that is set.
`NoStrandedKeyNotice` fails without it too, by an interleaving: `reset-all-flags`
(`ah-user-manage.py` 74-76) commits amid ldapupdate, which had loaded
`mail_is_sshkeyadded` as false; setting it false once more is no change, so the task's
commit writes the name of the key and not the flag, which stays true, and the name
waits for the next key of that user. `GidFollowsCache` fails by `delete --project`
(below).

The whole was checked by TLC as an invariant before it was proved, with every
command for one user and with fewer for two keys. It
showed two things about the model that one user cannot: a row deleted amid a task
ends that task in a StaleDataError, which rolls back what the task had noted of *all*
users while LDAP keeps it, so `declared` then takes in everybody; and rows of keys
that a task relates to a deleted user keep the lost id, so `ManagedTypeOK` says
nothing of the view of users who are `declared`.

**Notices.** The abstract state is, per user, which notices the committed flags
ask for and which of them have been delivered since. `NoticeInv` says that outside
emailsend the session never asks for less than the cache (a commit then only
raises), and inside it that what the session no longer asks for has been delivered
or is covered by a mail about the account (the commit then only settles what was
delivered). Rounds map to `Deliver`, commits to `Raise` or `Settle`, a cancelled
emailsend to `Settle`, a kill and everything else to a stutter.

**Projects and groups.** For any users, slots, configured groups, commands,
refusals and kills. `TypeCorrect` includes what the other proofs need silently: a
user without a row has neither a project nor a relation, so a user who is deleted
and assigned again starts with nothing.

- `Referenced` is `ReferencesExist` for every user; a command that breaks it is one
  the observer `orphaned` records, and the daemon changes no identifier.
- `Counted` says why three counts never meet: the gids of projects lie above `Base`
  and are as many as the projects (`ProjectsCounted`), the groups of projects carry
  them (`ProjectGroupsCounted`), those of each configured kind lie in an interval of
  their own (`NamesCounted`), and a loop that will still create a group has not used
  the number it is at (`Fresh`). The last is what an interrupted creation destroys,
  therefore `renumbered`. The loops of the two kinds interleave freely.
- `Following` describes an undisturbed cycle step by step: what it has loaded is the
  cache's, then the relations are right, then the groups of projects, then the
  configured ones. `Created` supplies that after both loops every configured group
  exists, without which the update would raise.

The assumption that `GidOffset` exceeds all counts together is the configuration's:
beyond it a manual gid would meet those of the API.

**The concurrent tasks.** `StepsOfTasks`: a step of the composition is, for fairshare
and for emailsend, a step of the module of that task or a stutter; the write lock,
a broken session, SIGTERM and SystemExit only decide which. What a task promises
alone is therefore kept beside the others. `FairshareImplemented` and
`DirectoriesImplemented` say it as refinements: the state is mapped to the task's own
variables, a failed wait for the lock and another task's SystemExit to a kill, a step
of anybody else to a stutter. Every safety property of the two specifications alone,
stated in this project or not, so holds of them in the daemon.

- `MailInv`: within a run, what is marked was accepted by the server, and what was
  accepted and is still asked for is marked or in `unsure`.
- `FairshareInv`: the file is well formed *together with the buffer*. The lemma
  `Flushing` says that every prefix of such a whole is well formed and loses no
  line, so neither a kill nor a flush at any point can break it; `Writing` that the
  numbered lines of the missing projects, in any order, continue the file. Flags
  are covered by file and buffer, committed flags by the file alone. What is flagged
  in a session that is about to commit PBS has read, and committed flags too, but for
  `untold`: the commit after a SIGTERM amid the close is the one that comes before the
  signal.
- Directories: `DirectoriesProofs!OwnedInv` follows one owner through mkdir, chmod
  and chown. The directories before the one in work belong to the uid unless a call
  failed, the count of completed ones decides about the mark, and a marked owner
  is left alone by later runs, even when another user becomes the project's first.
  A step of createdirectories in the composition is one of that module
  (`SameSteps`), so the proof is used as it stands.

**Only model-checked.** Liveness (`Converges`, `TasksRecur`, `DirectoriesAppear`,
`FetchEnds`, `GatherEnds`, `WorkDone`): the prover has neither ENABLED nor fairness.
Every other property of a passing run is stated by a theorem.
No module about which something is proved declares a RECURSIVE operator.

## Where code and documents disagree

Two are kept as runs that TLC must find violated, with the quoted sentence in
`PROJECT.json`:

- `org_keys` — with several projects a changed key reaches the entry of the last
  one only, against the comment at `ldapupdate.py` 345-346: the others write the
  keys of the relation before the last has updated it.
- `org_gone` — a user who was gone, returns on another project and goes again is
  not noticed by `check_users_inactive` (`apisync.py` 342), which passes over rows
  marked deactivated; the log message (352-354) promises otherwise.

Others were met while modelling, most of them as counterexamples of TLC to a
property stated too strongly, and are described instead of run:

- *The gid of a workshop*: `find_target_gid` decides by `user.project[-1]`, the
  last of an unordered relation (`ldapupdate.py` 142), although the docstring
  (160-168) says that only `projects_api` is relied upon; a user on a project and
  a workshop may end up with the workshop's gid.
- *A refused key modification is never retried* (`ldapupdate.py` 302-335): the
  relation is changed before `modify()` and committed even when LDAP refuses, so
  no later cycle sees a difference; the docstring (391) says "Check if sshkeys are added or removed and sync to
  LDAP."
- *An entry keeps uidNumber 0* (`usermetadata.py` 46): a user first seen with a
  withdrawn status is skipped there but added to LDAP, and nothing writes the uid
  later.
- *The mail about a key before the mail about the account* (`emailsend.py`
  150-187): when the account mail is refused, the key mail of the same run goes
  out, against the comment at 152-153.
- *A deactivation mail after the account was activated again* (`emailsend.py`
  138): a refused mail waits for its turn without another look at the account.
- *Activation and deactivation of a project both due* after missed cycles: the
  loops at `ldapupdate.py` 236 and 247 run in this order, so the activation wins
  although the user has left.
- *A user who leaves again right after a return* (`apisync.py` 235-248): flags of
  both directions are set and the next return resets them; the shell stays
  nologin.
- *A refused mail about a project that is dropped* (`apisync.py` 245-248): a project
  that was left and rejoined has both directions done, and its activation mail is due
  at the end of that cycle. When the mail server refuses it, the next cycle's apisync
  resets the four flags before emailsend comes to try again. A mail of the
  deactivation that was refused earlier goes the same way.
- *A subtree half made* after a failure amid its three adds is found by the next
  search and never completed. Its project fails again in every later cycle, which so
  counts as disturbed: `EntriesFollowApi` is vacuous from there on.
- *A daemon held by LDAP* (`ldapupdate.py` 605): `timeout=None`, and no operation has a
  timeout. A server that accepts the connection and does not answer stops the whole
  cycle, mails and directories included, until somebody sends SIGTERM.
- *Flags without a SIGHUP* (`fairshare.py` 91-110): SIGTERM amid the close ends the run
  after `update_cacheflag`, and its `finally` clause commits the flags. PBS reads the
  lines when another project is appended, however long that takes. Lines that a kill
  or an earlier SIGTERM left unflagged wait in the same way.
- *An IndexError that repeats*: a SIGTERM between apisync and ldapupdate followed
  by a departure leaves a deactivation due for a project without an entry;
  `ldap_user[0]` (239) of the empty search ends the daemon in each later cycle.
- *A shell that stays wrong* after a crash between LDAP and the commit when the
  API meanwhile returns to what the cache holds.

- *A gid that is never written* (`usermetadata.py` 60-72, `ldapupdate.py` 171-180):
  when the cycle of a departure is cut short — a refused or lost LDAP change, SIGTERM,
  a kill — the row has lost its gid and `is_deactivated` is not set. The user
  returns, usermetadata sets the row's gid, and `update_default_gid` sees no
  difference. TLC finds this with each of the four faults alone; it is why
  `GidFollows` is proved of the calm pipeline.

The tools add these; no document of the repository says what should happen, so they
are recorded here and in the observers of the modules:

- *gidNumber 0 for ever*: `delete --project` of a user's only project between two
  tasks, or any loss and return of all projects without a deactivation in between.
  The entry was given gid 0; usermetadata (60-72) sets `ldap_gid` first, so
  `update_default_gid` (`ldapupdate.py` 171) sees no difference and its second clause
  (180) asks for `is_deactivated`.
- *A key without a row*: `delete --pubkey --force` while apisync holds the user
  leaves the fingerprint in `sshkeys_api` and no row in `sshkeys`; NoResultFound then
  ends the daemon in every cycle. `--flush-keys` does the same to a key that waits
  to be related. `update --pubkey` looks for rows of the user only and adds a second
  row beside one of nobody: MultipleResultsFound, likewise in every cycle. So do
  two manually created users, whose `uid_api` is 0, with the same key.
- *What --force deletes stays in LDAP*: the relation is what the daemon compares.
  A key deleted with `--force` stays in the entry of a user whom the API no longer
  lists, one added with `--force` never gets there, a user deleted with `--force`
  keeps entry, shell and keys; when the API lists that user again, an entry that was
  nologin stays so. The group of a project deleted with `--force` keeps its members.
- *Flags that are memory, too*: `reset-all-flags` and `--flag-deactivated` set
  `is_deactivated`, which says whether the shell was changed; a deactivation that is
  due is then forgotten, or a login is not given back. `--mailname-sshkey-add`
  without the flag that goes with it leaves a name nobody looks for.
- *A row deleted amid a task* (`delete --force`, `--flush-users`): StaleDataError ends
  the daemon after its changes of LDAP. What it had noted of other users is rolled
  back with it: a shell that was changed and whose `is_deactivated` was not committed
  stays wrong if the API meanwhile returns to what the cache holds.
- *Numbers that repeat*: after `delete --force` of a project the next `create` counts
  one less and may repeat gid and identifier of a project that is still there;
  `create_default_groups` starts at 1 again when a run created only some of the
  groups (`ldapupdate.py` 435-446). Two projects with one identifier end the daemon
  in `user_sync_api_db` as soon as somebody joins, two with one gid end every run of
  createdirectories that completes such a user's home (65-67).
- *Identifiers without a project*: `update --new-identifier` changes the row and not
  `projects_api`; the daemon ends with NoResultFound in every cycle until the users
  are reassigned. `delete --force` leaves the same for users who are assigned and
  not related yet.
- *A refused add ends the daemon later*: `update_resource_groups` (`ldapupdate.py`
  114) reads `user.project` of every user, which was never loaded for one whose add
  was refused; the lazy load raises MissingGreenlet.
- *A resource group keeps its last member* (`ldapupdate.py` 122).
- *A dead task*: after "database is locked" a session needs a rollback that nobody
  issues; the task fails silently in every cycle until the daemon is restarted.
- *A home of root*: createdirectories chowns to `ldap_uid` 0 when usermetadata had no
  uid yet, and the flag is final.

## Not modelled

- Of the tools: listings, names and addresses, prjid_api, UIDs, `is_staff`,
  `--type-create` (which would turn a user of the API into a manual one and back), the
  flags per project of the other mode, `just-username`; of `ah-user-manage` several options in
  one call, which act like several calls. Keys of manually created users, whose
  `uid_api` is 0 for all.
- `ah-api-sync.py`, `ah-ldap-update.py`, `ah-email-send.py`,
  `ah-fairshare-update.py`, `ah-directories-create.py` and
  `ah-user-metadata-setup.py` construct the task classes without their `caller`
  argument: a TypeError before anything happens. What only they would reach
  (`--init-set` of apisync, `--new` of fairshare) is left out of the tasks too.
- The users of the usermap file with `skip_defgid` beyond the set `Staff`,
  `replacestring_map`, `update_default_groups` with `onlyops`, which nothing calls.
- `_initial_delay` and `_next_delay` of `ah-taskd.py` (arithmetic on dates), dry
  runs, the modules for configuration and logging (read once; constants here).
- SMTP, LDAP and HTTP themselves: a call is accepted, refused, or its answer lost.
- Migrations, packaging, docker, `acl-galaxy`, helper scripts: outside the cycle.

## Plan

Done, in this order: the flat pipeline (state, apisync, usermetadata, ldapupdate,
emailsend, composition), its abstract specification, the daemon, fairshare,
directories, HTTP, the project-organisation pipeline; the proofs of the daemon, of
types and safety of the flat pipeline, and of the refinement; the concurrent tasks
with their sessions and the write lock; the tools beside the daemon; manual projects
with the default and resource groups; the proofs about the concurrent tasks and the
groups, about directories, the project-organisation pipeline, the undisturbed cycles
of the flat one, and the pipeline beside the operator; the fetch, the refinement of
fairshare and createdirectories by the concurrent tasks, and the entries of the
project-organisation mode under every fault.

To be modelled next, as far as it is worth a run:

1. `Staff` users and `skip_defgid` in a run of their own.
2. Several users in a group of the project-organisation mode, and the per-project
   flags that `ah-user-manage` resets there.

To be proved next:

3. The calm theorems with weaker hypotheses: `GidFollows`, `LeaversLocked` and
   `TargetsExist` for users whose departure was not cut short, with observers that
   say so.
4. `ManagedPipeline` with refused LDAP changes and stops, for what then still holds.
