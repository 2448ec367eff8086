---------------------------- MODULE EmailSendFlat ----------------------------
(***************************************************************************)
(* The emailsend task with ldap.mode "flat": four rounds of mails, each    *)
(* over the users its SELECT finds, and one commit in the finally clause.  *)
(* The mails of a round go out concurrently and independently, so a round  *)
(* is one step that some of its mails survive.                             *)
(***************************************************************************)
EXTENDS FlatAccounts

\* The users of a round whose mail is accepted.
Accepted(users) == IF Fault("smtp") THEN SUBSET users ELSE {users}

\* One round: the users the SELECT finds, the notice they get and the row a
\* delivered mail leaves behind.
Round(here, next, users, notice, After(_)) ==
    /\ pc = here
    /\ \E ok \in Accepted(users) :
         /\ sess' = [u \in User |-> IF u \in ok THEN After(sess[u]) ELSE sess[u]]
         /\ sent' = [u \in User |-> IF u \in ok THEN sent[u] \cup {notice}
                                                ELSE sent[u]]
         /\ opened' = IF notice = Account THEN ok ELSE opened
         /\ quiet' = IF ok = users THEN quiet ELSE -1
    /\ pc' = next
    /\ UNCHANGED <<api, fetched, db, ldap, group, cur, todo, guarded>>

\* _email_activate
AfterActivate(row) == [row EXCEPT !.mail_is_activated = FALSE,
                                  !.mail_is_sshkeyadded = TRUE,
                                  !.mail_name_sshkey = {}]
EmailActivate ==
    Round("activate", "deactivate", {u \in User : sess[u].mail_is_activated},
          Activated, AfterActivate)

\* _email_deactivate
AfterDeactivate(row) == [row EXCEPT !.mail_is_deactivated = FALSE,
                                    !.mail_is_sshkeyadded = TRUE,
                                    !.mail_is_sshkeyremoved = TRUE,
                                    !.mail_name_sshkey = {}]
EmailDeactivate ==
    Round("deactivate", "account", {u \in User : sess[u].mail_is_deactivated},
          Deactivated, AfterDeactivate)

\* _email_account
AfterAccount(row) == [row EXCEPT !.mail_is_opensend = TRUE]
EmailAccount ==
    Round("account", "mailkey",
          {u \in User : sess[u].known /\ ~sess[u].mail_is_opensend},
          Account, AfterAccount)

-----------------------------------------------------------------------------
\* _email_key
Named(row, op) == {n \in row.mail_name_sshkey : n[1] = op}

\* A user whose account mail went out in this run gets no mail about keys.
AfterKeyOpened(row) == [row EXCEPT !.mail_is_sshkeyadded = TRUE,
                                   !.mail_is_sshkeyremoved = TRUE,
                                   !.mail_name_sshkey = {}]

\* Mutant: the lists are settled whatever was accepted.
AfterKeyMailsAnyway(row, failed) == AfterKeyOpened(row)

\* Each of the two lists is settled only when all its mails were accepted.
AfterKeyMails(row, failed) ==
    LET added == Named(row, "ADD") \cap failed = {}
        removed == Named(row, "DEL") \cap failed = {}
    IN  [row EXCEPT !.mail_is_sshkeyadded = @ \/ added,
                    !.mail_is_sshkeyremoved = @ \/ removed,
                    !.mail_name_sshkey = {n \in @ : IF n[1] = "ADD" THEN ~added
                                                                    ELSE ~removed}]

\* Mutant: only the first flag is looked at.
KeyMailUsersAdded == {u \in User : sess[u].known /\ ~sess[u].mail_is_sshkeyadded}

KeyMailUsers == {u \in User : /\ sess[u].known
                              /\ \/ ~sess[u].mail_is_sshkeyadded
                                 \/ ~sess[u].mail_is_sshkeyremoved}

KeyMails == UNION {{u} \X sess[u].mail_name_sshkey : u \in KeyMailUsers \ opened}

EmailKey ==
    /\ pc = "mailkey"
    /\ \E delivered \in Accepted(KeyMails) :
         LET failed(u) == {n \in KeyNotice : <<u, n>> \in KeyMails \ delivered}
         IN  /\ sess' = [u \in User |->
                           IF u \notin KeyMailUsers THEN sess[u]
                           ELSE IF u \in opened THEN AfterKeyOpened(sess[u])
                           ELSE AfterKeyMails(sess[u], failed(u))]
             /\ sent' = [u \in User |->
                           sent[u] \cup {n \in KeyNotice : <<u, n>> \in delivered}]
             /\ quiet' = IF delivered = KeyMails THEN quiet ELSE -1
    /\ pc' = "mailcommit"
    /\ UNCHANGED <<api, fetched, db, ldap, group, opened, cur, todo, guarded>>

MailCommit ==
    /\ pc = "mailcommit"
    /\ Commit(sess)
    /\ pc' = "sleep"
    /\ opened' = {}
    /\ EndCycleQuiet
    /\ UNCHANGED <<api, fetched, ldap, group, cur, todo, guarded>>

EmailSend == EmailActivate \/ EmailDeactivate \/ EmailAccount \/ EmailKey \/ MailCommit
===============================================================================
