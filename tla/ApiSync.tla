------------------------------- MODULE ApiSync -------------------------------
(***************************************************************************)
(* The apisync task of the daemon: fetch the SSH keys and the              *)
(* (user, project) associations from the signup API and bring the users    *)
(* table up to date.  Rows of different users never mix, so every handler  *)
(* is an operator on one row.                                              *)
(***************************************************************************)
EXTENDS FlatAccounts

\* The two GETs run concurrently and the API may change between them.
FetchSshkeys ==
    /\ pc = "fetch" /\ "sshkeys" \notin fetched.got
    /\ fetched' = [fetched EXCEPT !.got = @ \cup {"sshkeys"},
                                  !.sshkeys = [u \in User |-> api[u].keys]]
    /\ UNCHANGED <<api, db, sess, ldap, group, sent, opened, pc, cur, todo,
                   guarded, quiet>>

FetchUserproject ==
    /\ pc = "fetch" /\ "userproject" \notin fetched.got
    /\ fetched' = [fetched EXCEPT !.got = @ \cup {"userproject"},
                                  !.userproject =
                                      [u \in User |-> [projects |-> api[u].projects,
                                                       status |-> api[u].status]]]
    /\ UNCHANGED <<api, db, sess, ldap, group, sent, opened, pc, cur, todo,
                   guarded, quiet>>

\* SyncHttpError: the daemon logs it and goes on with the other tasks.
FetchError ==
    /\ pc = "fetch" /\ Fault("http")
    /\ pc' = "usermetadata"
    /\ fetched' = NothingFetched
    /\ Disturbed
    /\ UNCHANGED <<api, db, sess, ldap, group, sent, opened, cur, todo, guarded>>

-----------------------------------------------------------------------------
\* interested_users_api: the users with an interesting project.
Interested == {u \in User : fetched.userproject[u].projects # << >>}

\* The users of projects_users: a key is needed as well.
Listed == {u \in Interested : fetched.sshkeys[u] # {}}

ApiKeys(u) == IF u \in Listed THEN fetched.sshkeys[u] ELSE {}

\* Mutant: is_active is left alone.
CheckUsersInactiveKept(row, u) ==
    IF /\ row.known /\ row.is_active /\ ~row.is_deactivated
       /\ u \notin Interested
    THEN [row EXCEPT !.projects_api = << >>, !.ldap_gid = NoGid]
    ELSE row

CheckUsersInactive(row, u) ==
    IF /\ row.known /\ row.is_active /\ ~row.is_deactivated
       /\ u \notin Interested
    THEN [row EXCEPT !.projects_api = << >>, !.ldap_gid = NoGid,
                     !.is_active = FALSE]
    ELSE row

\* Mutant: the status of a user already known is not refreshed.
UsersProjectsAddStale(row, u) ==
    LET up == fetched.userproject[u] IN
    IF u \in Listed
    THEN [row EXCEPT !.known = TRUE,
                     !.is_active = IF row.known THEN @ ELSE up.status,
                     !.projects_api = AppendMissing(@, up.projects)]
    ELSE row

UsersProjectsAdd(row, u) ==
    LET up == fetched.userproject[u] IN
    IF u \in Listed
    THEN [row EXCEPT !.known = TRUE, !.is_active = up.status,
                     !.projects_api = AppendMissing(@, up.projects)]
    ELSE row

UsersProjectsDel(row, u) ==
    LET projects == fetched.userproject[u].projects IN
    IF u \in Listed /\ Len(row.projects_api) > Len(projects)
    THEN [row EXCEPT !.projects_api = projects]
    ELSE row

SshkeysAdd(row, u) == [row EXCEPT !.sshkeys_api = @ \cup ApiKeys(u)]

\* Mutant: off by one.
SshkeysDelOffByOne(row, u) ==
    IF row.known /\ Cardinality(row.sshkey) > Cardinality(ApiKeys(u)) + 1
    THEN [row EXCEPT !.sshkeys_api = ApiKeys(u)]
    ELSE row

\* Only a relation that is larger than the API's list shrinks the cache.
SshkeysDel(row, u) ==
    IF row.known /\ Cardinality(row.sshkey) > Cardinality(ApiKeys(u))
    THEN [row EXCEPT !.sshkeys_api = ApiKeys(u)]
    ELSE row

SyncedRow(u) ==
    LET r1 == CheckUsersInactive(sess[u], u)
        r2 == UsersProjectsAdd(r1, u)
        r3 == UsersProjectsDel(r2, u)
        r4 == SshkeysAdd(r3, u)
    IN  SshkeysDel(r4, u)

\* Everything happens in one session with one commit at its end.
SyncCache ==
    /\ pc = "fetch" /\ fetched.got = {"sshkeys", "userproject"}
    /\ Commit([u \in User |-> SyncedRow(u)])
    /\ fetched' = NothingFetched
    /\ pc' = "usermetadata"
    /\ UNCHANGED <<api, ldap, group, opened, cur, todo, guarded, quiet>>
=============================================================================
