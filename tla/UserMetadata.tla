----------------------------- MODULE UserMetadata -----------------------------
(***************************************************************************)
(* The usermetadata task: the first UID and GID of every active user.      *)
(***************************************************************************)
EXTENDS FlatAccounts

\* The GID of a user who has none.  With relations, it is that of the last
\* one the database returns, which may be any of them.
FirstGids(row, u) ==
    IF u \in Staff THEN {StaffGid}
    ELSE IF row.project # {} THEN row.project
    ELSE IF row.projects_api # << >> THEN {Last(row.projects_api)}
    ELSE {NoGid}

\* Mutant: the UID's number is taken for the GID's.
MetadataRowsOwnGroup(row, u) ==
    IF ~row.known \/ ~row.is_active THEN {row}
    ELSE {[row EXCEPT !.ldap_uid = TRUE, !.ldap_gid = u]}

MetadataRows(row, u) ==
    IF ~row.known \/ ~row.is_active THEN {row}
    ELSE {[row EXCEPT !.ldap_uid = TRUE, !.ldap_gid = gid] :
            gid \in IF row.ldap_gid # NoGid THEN {row.ldap_gid}
                                            ELSE FirstGids(row, u)}

SetMetadata ==
    /\ pc = "usermetadata"
    /\ \E rows \in [User -> UNION {MetadataRows(sess[u], u) : u \in User}] :
          /\ \A u \in User : rows[u] \in MetadataRows(sess[u], u)
          /\ Commit(rows)
          /\ todo' = {u \in User : rows[u].known}
    /\ pc' = "user"
    /\ UNCHANGED <<api, fetched, ldap, group, opened, cur, guarded, quiet>>
===============================================================================
