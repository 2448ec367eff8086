------------------------------ MODULE UserManage ------------------------------
(***************************************************************************)
(* ah-user-manage, as far as it changes a user of the API that is cached   *)
(* already (ldap.mode "flat").  Every command is an operator from the      *)
(* user's row to the row, or the rows, it may leave behind; ManagedPipeline*)
(* commits them.  "create" and "update --project" are in ProjectGroups.    *)
(***************************************************************************)
EXTENDS FlatAccounts

\* reset_all_flags
ResetAllFlags(row) ==
    [row EXCEPT !.mail_is_opensend = TRUE,
                !.mail_is_sshkeyadded = TRUE, !.mail_is_sshkeyremoved = TRUE,
                !.mail_is_activated = FALSE, !.mail_is_deactivated = FALSE,
                !.mail_name_sshkey = {}, !.is_deactivated = FALSE]

\* reset_all_flags with --null
NullAllFlags(row) ==
    [row EXCEPT !.mail_is_opensend = FALSE,
                !.mail_is_sshkeyadded = FALSE, !.mail_is_sshkeyremoved = FALSE,
                !.mail_is_activated = FALSE, !.mail_is_deactivated = FALSE,
                !.mail_name_sshkey = {}, !.is_deactivated = FALSE]

\* user_delete without an option; with --force the row is deleted: BlankRow.
DeleteUser(row) ==
    [row EXCEPT !.projects_api = << >>, !.sshkeys_api = {}, !.is_active = FALSE]

\* user_delete --pubkey: a key that is related, but not listed, is a ValueError.
MayDeleteKey(row, k) == k \in row.sshkey \cap row.sshkeys_api

\* Mutant: --force leaves the relation.
DeleteKeyRelated(row, k, force) == [row EXCEPT !.sshkeys_api = @ \ {k}]

DeleteKey(row, k, force) ==
    [row EXCEPT !.sshkeys_api = @ \ {k},
                !.sshkey = IF force THEN @ \ {k} ELSE @]

\* user_delete --project: the identifier goes where it occurs first.
Without(s, p) ==
    LET first == CHOOSE i \in DOMAIN s : s[i] = p /\ \A j \in 1..i - 1 : s[j] # p
    IN  IF p \in SetOf(s)
        THEN [i \in 1..Len(s) - 1 |-> IF i < first THEN s[i] ELSE s[i + 1]]
        ELSE s
DeleteProject(row, p, force) ==
    [row EXCEPT !.projects_api = Without(@, p),
                !.project = IF force THEN @ \ {p} ELSE @]

\* user_update --project
AddProject(row, p, force) ==
    [row EXCEPT !.projects_api = IF p \in SetOf(@) THEN @ ELSE Append(@, p),
                !.project = IF force THEN @ \cup {p} ELSE @]

\* user_update --pubkey: a key that is related already is refused.
MayAddKey(row, k) == k \notin row.sshkey
AddKey(row, k, force) ==
    [row EXCEPT !.sshkeys_api = @ \cup {k},
                !.sshkey = IF force THEN @ \cup {k} ELSE @]

\* user_update: the options that set one flag or number, one option at a time.
SetDeactivated(row) == {[row EXCEPT !.is_deactivated = b] : b \in BOOLEAN}
SetFlag(row) ==
    {[row EXCEPT !.ldap_gid = NoGid], [row EXCEPT !.ldap_uid = FALSE]}
    \cup UNION {{[row EXCEPT !.is_active = b], [row EXCEPT !.mail_is_opensend = b],
                 [row EXCEPT !.mail_is_activated = b],
                 [row EXCEPT !.mail_is_deactivated = b],
                 [row EXCEPT !.mail_is_sshkeyadded = b,
                             !.mail_name_sshkey = IF b THEN {} ELSE @]} : b \in BOOLEAN}

\* user_update --mailname-sshkey-add, --mailname-sshkey-remove
NameKey(row) == {[row EXCEPT !.mail_name_sshkey = @ \cup {n}] : n \in KeyNotice}

\* flush_users
Flushed(row) == row.known /\ row.sshkey = {} /\ row.project = {}
===============================================================================
