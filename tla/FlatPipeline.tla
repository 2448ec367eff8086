---------------------------- MODULE FlatPipeline ----------------------------
(***************************************************************************)
(* The cycle of ah-taskd over the flat tasks: apisync, usermetadata,       *)
(* ldapupdate, emailsend, sleep.  The API changes at any moment, and the   *)
(* daemon may be stopped by a signal, die, and be started again.           *)
(***************************************************************************)
EXTENDS ApiSync, UserMetadata, LdapUpdateFlat, EmailSendFlat

Init ==
    /\ api \in [User -> ApiChoices]
    /\ fetched = NothingFetched
    /\ db = [u \in User |-> BlankRow] /\ sess = db
    /\ ldap = [u \in User |-> NoEntry]
    /\ group = [p \in Project |-> {}]
    /\ sent = [u \in User |-> {}]
    /\ opened = {} /\ todo = {} /\ cur = NoUser /\ guarded = TRUE
    /\ pc = "sleep"
    /\ quiet = 0

\* The signup API: memberships, keys and statuses change at any time.  The
\* daemon reads them in "fetch" only, and a change in a later stage cannot be
\* told from one in the sleep that follows, so those stages are left out.
ApiChange(u) ==
    /\ pc \in {"sleep", "fetch"}
    /\ \E r \in ApiChoices \ {api[u]} : api' = [api EXCEPT ![u] = r]
    /\ quiet' = IF pc = "sleep" THEN 0 ELSE -1
    /\ UNCHANGED <<fetched, db, sess, ldap, group, sent, opened, pc, cur, todo,
                   guarded>>

StartCycle ==
    /\ pc = "sleep"
    /\ pc' = "fetch"
    /\ UNCHANGED <<api, fetched, db, sess, ldap, group, sent, opened, cur, todo,
                   guarded, quiet>>

\* SIGTERM or SIGINT cancels every task: emailsend commits in its finally
\* clause, the others roll back.
Cancel ==
    /\ pc # "down" /\ Fault("stop")
    /\ IF pc \in MailPc THEN Commit(sess)
       ELSE sess' = db /\ UNCHANGED <<db, sent>>
    /\ pc' = "down"
    /\ fetched' = NothingFetched
    /\ todo' = {} /\ opened' = {} /\ cur' = NoUser /\ guarded' = TRUE
    /\ Disturbed
    /\ UNCHANGED <<api, ldap, group>>

\* SIGKILL, a power failure, or an exception no handler catches.
Die ==
    /\ pc # "down"
    /\ Fault("crash") \/ (pc = "fetch" /\ Fault("http"))
    /\ Abandon
    /\ UNCHANGED <<api, db, ldap, group, sent>>

\* The operator starts the daemon again.
Start ==
    /\ pc = "down"
    /\ pc' = "sleep"
    /\ quiet' = 0
    /\ UNCHANGED <<api, fetched, db, sess, ldap, group, sent, opened, cur, todo,
                   guarded>>

DaemonStep ==
    \/ StartCycle \/ FetchSshkeys \/ FetchUserproject \/ SyncCache
    \/ SetMetadata \/ LdapUpdate \/ EmailSend

Environment ==
    \/ \E u \in User : ApiChange(u)
    \/ FetchError \/ LdapUpdateFails \/ Cancel \/ Die \/ Start

Next == DaemonStep \/ Environment

\* Where the next step waits for the answer of an LDAP server, with no timeout.
LdapWaits == LdapPc \ {"commit"}

\* The daemon is one asyncio program: while it lives, its next step comes, as
\* HTTP and SMTP have timeouts, but for those of ldapupdate (605).
Spec == Init /\ [][Next]_vars /\ WF_vars(pc \notin LdapWaits /\ DaemonStep)
-----------------------------------------------------------------------------
\* Properties.  A cycle is judged where it ends, at "sleep", n undisturbed
\* cycles after the last fault or API change.
Settled(n) == pc = "sleep" /\ quiet >= n
ApiListed(u) == api[u].projects # << >> /\ api[u].keys # {}
ApiGone(u) == api[u].projects = << >>

\* An account that the cache counts as opened has an LDAP entry, whatever
\* failed between the add and the commit: is_opened is what makes ldapupdate
\* (608) stop adding the entry and start modifying it.
OpenedHasEntry == \A u \in User : db[u].is_opened => ldap[u].exists

\* No notice about a key is stranded: emailsend selects users by the two mail
\* flags (292-295), so a name left in mail_name_sshkey under flags that are
\* both set would never be mailed.
NoStrandedKeyNotice ==
    \A u \in User : \A n \in db[u].mail_name_sshkey :
        \/ n[1] = "ADD" /\ ~db[u].mail_is_sshkeyadded
        \/ n[1] = "DEL" /\ ~db[u].mail_is_sshkeyremoved

\* Whatever failed before, one undisturbed cycle makes the cache agree with the
\* API about the projects and the status of every listed user.  A user without
\* projects may need two to stop being active: check_users_inactive (apisync
\* 342) passes over a row that is still marked deactivated.
CacheFollowsApi ==
    \A u \in User :
        /\ Settled(1) /\ ApiListed(u) =>
               /\ db[u].known
               /\ SetOf(db[u].projects_api) = SetOf(api[u].projects)
               /\ db[u].is_active = api[u].status
        /\ Settled(2) /\ ApiGone(u) => ~db[u].is_active

\* A replaced key needs two cycles, because sshkeys_del (apisync 60) only acts
\* on a relation larger than the API's list; then the keys of the cache are the
\* API's and those ldapupdate has worked through are the same.
CacheKeysFollowApi ==
    Settled(2) => \A u \in User :
        db[u].known =>
            /\ db[u].sshkeys_api = (IF ApiListed(u) THEN api[u].keys ELSE {})
            /\ db[u].sshkey = db[u].sshkeys_api

\* Relations and groups are compared with the cache in every cycle, so one
\* undisturbed cycle repairs them after any failure (ldapupdate 186-216 and
\* 411-431).
GroupsFollowCache ==
    Settled(1) => \A p \in Project :
        group[p] = {u \in User : p \in SetOf(db[u].projects_api)}

\* The login shell and the keys of an entry are what the API asks for
\* (ldapupdate 220-233 and 302-337).
ShellAgrees(u) ==
    /\ ApiListed(u) => ldap[u].shell = (IF api[u].status THEN "bash" ELSE "nologin")
    /\ ApiGone(u) /\ ldap[u].exists => ldap[u].shell = "nologin"
KeysAgree(u) ==
    /\ ApiListed(u) => ldap[u].exists
    /\ ldap[u].exists => ldap[u].keys = (IF ApiListed(u) THEN api[u].keys ELSE {})

\* The gid of an active user's entry is the one the cache holds: usermetadata
\* may set ldap_gid before update_default_gid compares it (ldapupdate 177-184).
GidFollowsCache ==
    Settled(1) => \A u \in User \ Staff :
        db[u].is_active => ldap[u].gid = db[u].ldap_gid

\* Nobody is owed a mail at the end of an undisturbed cycle.
AllNoticesSent == Settled(1) => \A u \in User : Pending(db[u]) = {}

\* Every notice that was asked for is delivered at least once before the flags
\* that ask for it are committed away, through partly accepted rounds,
\* cancellations and crashes.
N == INSTANCE Notices WITH Whole <- {Account, Activated, Deactivated},
                           pending <- [u \in User |-> Pending(db[u])]
NoticesDelivered == N!Spec

\* If at last nothing fails and the API stops changing while the daemon runs, and
\* the LDAP server never holds ldapupdate for ever, the directory reaches the
\* API's state and stays there, within cycles too.
Converges ==
    <>[][quiet' >= quiet]_vars /\ []<>(pc \notin LdapWaits \cup {"down"})
        => <>[](\A u \in User : ShellAgrees(u) /\ KeysAgree(u))
=============================================================================
