---------------------------- MODULE OrgEmailSend ----------------------------
(***************************************************************************)
(* The emailsend task with ldap.mode "project_organisation": rounds of     *)
(* mails per project, then the mails about keys, and one commit.           *)
(***************************************************************************)
EXTENDS OrgAccount

\* The projects of a round whose mail is accepted.
Accepted(ps) == IF Fault("smtp") THEN SUBSET ps ELSE {ps}

\* One round: the flags that are due, and what an accepted mail settles.
Round(here, next, due, After(_)) ==
    /\ pc = here
    /\ \E ok \in Accepted(due) :
         /\ sess' = After(ok)
         /\ opened' = IF here = "mailaccount" THEN ok ELSE opened
         /\ quiet' = IF ok = due THEN quiet ELSE -1
    /\ pc' = next
    /\ UNCHANGED <<api, fetched, db, tree, entry, group, cur, todo, guarded>>

\* _email_project_activate
\* Mutant: its own flag is forgotten.
AfterActivateOthers(ok) ==
    [sess EXCEPT !.mail_project_is_opensend = Put(@, ok, "done"),
                 !.mail_project_is_sshkeyadded = Put(@, ok, "done")]
AfterActivate(ok) ==
    [sess EXCEPT !.mail_project_is_activated = Put(@, ok, "done"),
                 !.mail_project_is_opensend = Put(@, ok, "done"),
                 !.mail_project_is_sshkeyadded = Put(@, ok, "done")]
EmailActivate == Round("mailactivate", "maildeactivate",
                       Due(sess.mail_project_is_activated), AfterActivate)

\* _email_project_deactivate
AfterDeactivate(ok) == [sess EXCEPT !.mail_project_is_deactivated = Put(@, ok, "done")]
EmailDeactivate == Round("maildeactivate", "mailaccount",
                         Due(sess.mail_project_is_deactivated), AfterDeactivate)

\* _email_project_account
AfterAccount(ok) == [sess EXCEPT !.mail_project_is_opensend = Put(@, ok, "done")]
EmailAccount == Round("mailaccount", "mailkey",
                      Due(sess.mail_project_is_opensend), AfterAccount)

-----------------------------------------------------------------------------
Named(names, op) == {n \in names : n[1] = op}

\* A project whose account mail went out in this run needs no mail about keys,
\* and if that holds for all of them the names are forgotten.
AfterOpened ==
    LET now == opened \cap Held(sess.mail_project_is_sshkeyadded) IN
    [sess EXCEPT !.mail_project_is_sshkeyadded = Put(@, now, "done"),
                 !.mail_project_is_sshkeyremoved = Put(@, now, "done"),
                 !.mail_name_sshkey = IF Cardinality(now) = Cardinality(sess.project)
                                      THEN {} ELSE @]

\* The names of one list are dropped when the count of accepted mails, which is
\* not reset between the lists, equals names times projects.
DropNames(names, op, count, flags) ==
    LET listed == Named(names, op)
    IN  IF listed # {} /\ count = Cardinality(listed) * Cardinality(Held(flags))
        THEN names \ listed ELSE names

\* The first mail that is accepted for a project settles its flag, so at most
\* one of the names is mailed to it.
AfterKeyMails(row, added, removed) ==
    LET names1 == DropNames(row.mail_name_sshkey, "ADD", Cardinality(added),
                            row.mail_project_is_sshkeyadded)
        names2 == DropNames(names1, "DEL", Cardinality(added) + Cardinality(removed),
                            row.mail_project_is_sshkeyremoved)
    IN  [row EXCEPT !.mail_project_is_sshkeyadded = Put(@, added, "done"),
                    !.mail_project_is_sshkeyremoved = Put(@, removed, "done"),
                    !.mail_name_sshkey = names2]

\* The projects that are due a mail of a list with a name in it.
KeyMails(row, op, flags) ==
    IF Named(row.mail_name_sshkey, op) = {} THEN {} ELSE Due(flags)

EmailKey ==
    /\ pc = "mailkey"
    /\ LET row == AfterOpened
           dueAdded == KeyMails(row, "ADD", row.mail_project_is_sshkeyadded)
           dueRemoved == KeyMails(row, "DEL", row.mail_project_is_sshkeyremoved)
       IN  \E added \in Accepted(dueAdded), removed \in Accepted(dueRemoved) :
             /\ sess' = AfterKeyMails(row, added, removed)
             /\ quiet' = IF added = dueAdded /\ removed = dueRemoved THEN quiet ELSE -1
    /\ pc' = "mailcommit"
    /\ UNCHANGED <<api, fetched, db, tree, entry, group, opened, cur, todo, guarded>>

MailCommit ==
    /\ pc = "mailcommit"
    /\ Commit(sess)
    /\ pc' = "sleep"
    /\ opened' = {}
    /\ EndCycleQuiet
    /\ UNCHANGED <<api, fetched, tree, entry, group, cur, todo, guarded>>

EmailSend == EmailActivate \/ EmailDeactivate \/ EmailAccount \/ EmailKey \/ MailCommit
=============================================================================
