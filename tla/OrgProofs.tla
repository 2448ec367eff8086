----------------------------- MODULE OrgProofs -----------------------------
(***************************************************************************)
(* The safety properties of OrgPipeline, for any projects, keys, answers   *)
(* of the API and, where a theorem does not say otherwise, any faults.     *)
(* A row changes only by the operators of the tasks (RowChange), so what   *)
(* is about rows follows from what each operator does to one row; what     *)
(* relates the row, LDAP and the stage of the cycle has one step per       *)
(* action.                                                                 *)
(***************************************************************************)
EXTENDS OrgPipeline, ProjectListsProofs

Flag == {"absent", "due", "done"}

LEMMA PutFlags ==
    ASSUME NEW flags \in Flags, NEW ps, NEW v \in Flag
    PROVE  /\ Put(flags, ps, v) \in Flags
           /\ \A p \in Project :
                 Put(flags, ps, v)[p] = IF p \in ps THEN v ELSE flags[p]
BY DEF Put, Flags, Flag

-----------------------------------------------------------------------------
(* What the tasks make of the session's row. *)

Deactivated(p) == [sess EXCEPT !.is_deactivated_project[p] = "done",
                               !.mail_project_is_deactivated[p] = "due"]
Activated(p) == [sess EXCEPT !.is_activated_project[p] = "done",
                             !.mail_project_is_activated[p] = "due",
                             !.is_deactivated = FALSE]
Inactivated(p) == [sess EXCEPT !.is_deactivated_project[p] = "done",
                               !.mail_project_is_deactivated[p] = "due",
                               !.is_deactivated = TRUE]

RowChange(s) ==
    \/ s = sess
    \/ s = SyncRelation
    \/ s = KeyRow
    \/ s = [KeyRow EXCEPT !.is_opened = TRUE]
    \/ \E p \in Project : /\ s \in {Deactivated(p), Inactivated(p)}
                         /\ entry'[p].shell = "nologin"
    \/ \E p \in Due(sess.is_activated_project) : s = Activated(p)
    \/ \E ok \in SUBSET Project :
          s \in {AfterActivate(ok), AfterDeactivate(ok), AfterAccount(ok)}
    \/ \E added, removed \in SUBSET Project :
          s = AfterKeyMails(AfterOpened, added, removed)

RowsChange ==
    \/ pc = "sync api" /\ Commit(SyncedRow)
    \/ /\ Abandon \/ RowChange(sess')
       /\ db' = db \/ db' = sess \/ db' = sess'

\* What a row is known to be, beyond TypeOK, and where cur is set.
Typed ==
    /\ TypeOK
    /\ cur \in Project <=> pc \in {"grow", "entry", "sync", "keys"}
    /\ pc = "grow" => tree[cur] < WholeTree
    /\ sess.projects_api = db.projects_api
    /\ Distinct(sess.projects_api) /\ Distinct(fetched.projects)

-----------------------------------------------------------------------------
(* apisync, in the order of its calls. *)

LEMMA CheckedRow ==
    ASSUME NEW r \in Row, Distinct(r.projects_api), NEW s, s = CheckUsersInactive(r)
    PROVE  /\ s \in Row /\ Distinct(s.projects_api)
           /\ Listed => s = r
           /\ ~Listed => \/ s = r
                         \/ /\ r.known /\ r.is_active /\ ~r.is_deactivated
                            /\ s = [r EXCEPT !.projects_api = << >>, !.is_active = FALSE]
<1>1. << >> \in Seq(Project) /\ Distinct(<< >>)
  BY DEF Distinct
<1> QED BY <1>1 DEF CheckUsersInactive, Row, Listed

LEMMA NewFlagsRow ==
    ASSUME NEW r \in Row, NEW ps \in SUBSET Project, NEW s, s = NewFlags(r, ps)
    PROVE  /\ s \in Row
           /\ s.known = r.known /\ s.is_active = r.is_active
           /\ s.is_deactivated = r.is_deactivated
           /\ s.projects_api = r.projects_api
           /\ s.project = r.project /\ s.sshkey = r.sshkey
           /\ s.is_deactivated_project = r.is_deactivated_project
           /\ s.mail_project_is_activated = r.mail_project_is_activated
           /\ s.mail_project_is_deactivated = r.mail_project_is_deactivated
           /\ \A p \in Project :
                 /\ p \in ps => /\ s.mail_project_is_opensend[p] # "absent"
                                /\ s.mail_project_is_sshkeyadded[p] # "absent"
                                /\ s.mail_project_is_sshkeyremoved[p] # "absent"
                 /\ r.mail_project_is_opensend[p] # "absent" =>
                        s.mail_project_is_opensend[p] # "absent"
                 /\ r.mail_project_is_sshkeyadded[p] # "absent" =>
                        s.mail_project_is_sshkeyadded[p] # "absent"
                 /\ r.mail_project_is_sshkeyremoved[p] # "absent" =>
                        s.mail_project_is_sshkeyremoved[p] # "absent"
                 /\ s.is_activated_project[p] =
                        IF /\ p \in ps /\ r.is_deactivated_project[p] # "absent"
                           /\ r.is_activated_project[p] = "absent"
                        THEN "due" ELSE r.is_activated_project[p]
<1> DEFINE fresh(flags) == Put(flags, ps \ Held(flags), "due")
           back == (ps \cap Held(r.is_deactivated_project))
                       \ Held(r.is_activated_project)
<1>1. s = [r EXCEPT
             !.mail_project_is_opensend = fresh(r.mail_project_is_opensend),
             !.mail_project_is_sshkeyadded = fresh(r.mail_project_is_sshkeyadded),
             !.mail_project_is_sshkeyremoved = fresh(r.mail_project_is_sshkeyremoved),
             !.is_activated_project = Put(r.is_activated_project, back, "due")]
  BY DEF NewFlags, Row
<1>2. \A flags \in Flags :
         /\ fresh(flags) \in Flags
         /\ \A p \in Project : /\ p \in ps => fresh(flags)[p] # "absent"
                               /\ flags[p] # "absent" => fresh(flags)[p] # "absent"
  <2>1. TAKE flags \in Flags
  <2>2. "due" \in Flag
    BY DEF Flag
  <2>3. /\ fresh(flags) \in Flags
        /\ \A p \in Project : fresh(flags)[p] =
               IF p \in ps \ Held(flags) THEN "due" ELSE flags[p]
    BY <2>2, PutFlags
  <2> QED BY <2>3 DEF Held
<1>3. /\ Put(r.is_activated_project, back, "due") \in Flags
      /\ \A p \in Project : Put(r.is_activated_project, back, "due")[p] =
             IF p \in back THEN "due" ELSE r.is_activated_project[p]
  <2>1. r.is_activated_project \in Flags /\ "due" \in Flag
    BY DEF Row, Flag
  <2> QED BY <2>1, PutFlags
<1>4. \A p \in Project : p \in back <=>
          /\ p \in ps /\ r.is_deactivated_project[p] # "absent"
          /\ r.is_activated_project[p] = "absent"
  BY DEF Held
<1> DEFINE opensend == fresh(r.mail_project_is_opensend)
           added == fresh(r.mail_project_is_sshkeyadded)
           removed == fresh(r.mail_project_is_sshkeyremoved)
           activated == Put(r.is_activated_project, back, "due")
<1>5. opensend \in Flags /\ added \in Flags /\ removed \in Flags /\ activated \in Flags
  BY <1>2, <1>3 DEF Row
<1>6. \A p \in Project :
         /\ p \in ps => opensend[p] # "absent" /\ added[p] # "absent" /\ removed[p] # "absent"
         /\ r.mail_project_is_opensend[p] # "absent" => opensend[p] # "absent"
         /\ r.mail_project_is_sshkeyadded[p] # "absent" => added[p] # "absent"
         /\ r.mail_project_is_sshkeyremoved[p] # "absent" => removed[p] # "absent"
  BY <1>2 DEF Row
<1> HIDE DEF opensend, added, removed, activated
<1>7. s = [r EXCEPT !.mail_project_is_opensend = opensend,
                    !.mail_project_is_sshkeyadded = added,
                    !.mail_project_is_sshkeyremoved = removed,
                    !.is_activated_project = activated]
  BY <1>1 DEF opensend, added, removed, activated
<1>8. s \in Row
  BY <1>5, <1>7 DEF Row
<1>9. /\ s.known = r.known /\ s.is_active = r.is_active
      /\ s.is_deactivated = r.is_deactivated
      /\ s.projects_api = r.projects_api
      /\ s.project = r.project /\ s.sshkey = r.sshkey
      /\ s.is_deactivated_project = r.is_deactivated_project
      /\ s.mail_project_is_activated = r.mail_project_is_activated
      /\ s.mail_project_is_deactivated = r.mail_project_is_deactivated
      /\ s.mail_project_is_opensend = opensend
      /\ s.mail_project_is_sshkeyadded = added
      /\ s.mail_project_is_sshkeyremoved = removed
      /\ s.is_activated_project = activated
  BY <1>7 DEF Row
<1>10. \A p \in Project : activated[p] =
           IF /\ p \in ps /\ r.is_deactivated_project[p] # "absent"
              /\ r.is_activated_project[p] = "absent"
           THEN "due" ELSE r.is_activated_project[p]
  BY <1>3, <1>4 DEF activated
<1> QED BY <1>6, <1>8, <1>9, <1>10

LEMMA ResetRow ==
    ASSUME NEW r \in Row, NEW ps \in SUBSET Project, NEW s, s = ResetFlags(r, ps)
    PROVE  /\ s \in Row
           /\ s.known = r.known /\ s.is_active = r.is_active
           /\ s.is_deactivated = r.is_deactivated
           /\ s.projects_api = r.projects_api
           /\ s.project = r.project /\ s.sshkey = r.sshkey
           /\ s.mail_project_is_opensend = r.mail_project_is_opensend
           /\ s.mail_project_is_sshkeyadded = r.mail_project_is_sshkeyadded
           /\ s.mail_project_is_sshkeyremoved = r.mail_project_is_sshkeyremoved
           /\ \A p \in OverAndDone(r, ps) :
                 /\ s.is_activated_project[p] = "absent"
                 /\ s.is_deactivated_project[p] = "absent"
           /\ \A p \in Project \ OverAndDone(r, ps) :
                 /\ s.is_activated_project[p] = r.is_activated_project[p]
                 /\ s.is_deactivated_project[p] = r.is_deactivated_project[p]
                 /\ s.mail_project_is_activated[p] = r.mail_project_is_activated[p]
                 /\ s.mail_project_is_deactivated[p] = r.mail_project_is_deactivated[p]
<1> DEFINE over == OverAndDone(r, ps)
           reset(flags) == Put(flags, over, "absent")
<1>1. s = [r EXCEPT
             !.is_activated_project = reset(r.is_activated_project),
             !.is_deactivated_project = reset(r.is_deactivated_project),
             !.mail_project_is_activated = reset(r.mail_project_is_activated),
             !.mail_project_is_deactivated = reset(r.mail_project_is_deactivated)]
  BY DEF ResetFlags, Row
<1>2. \A flags \in Flags :
         /\ reset(flags) \in Flags
         /\ \A p \in Project : reset(flags)[p] = IF p \in over THEN "absent" ELSE flags[p]
  <2>1. "absent" \in Flag
    BY DEF Flag
  <2> QED BY <2>1, PutFlags
<1>3. over \subseteq Project
  BY DEF OverAndDone
<1> DEFINE act == reset(r.is_activated_project)
           deact == reset(r.is_deactivated_project)
           mailAct == reset(r.mail_project_is_activated)
           mailDeact == reset(r.mail_project_is_deactivated)
<1>4. act \in Flags /\ deact \in Flags /\ mailAct \in Flags /\ mailDeact \in Flags
  BY <1>2 DEF Row
<1>5. /\ \A p \in over : act[p] = "absent" /\ deact[p] = "absent"
      /\ \A p \in Project \ over :
            /\ act[p] = r.is_activated_project[p]
            /\ deact[p] = r.is_deactivated_project[p]
            /\ mailAct[p] = r.mail_project_is_activated[p]
            /\ mailDeact[p] = r.mail_project_is_deactivated[p]
  BY <1>2, <1>3 DEF Row
<1> HIDE DEF act, deact, mailAct, mailDeact
<1>6. s = [r EXCEPT !.is_activated_project = act, !.is_deactivated_project = deact,
                    !.mail_project_is_activated = mailAct,
                    !.mail_project_is_deactivated = mailDeact]
  BY <1>1 DEF act, deact, mailAct, mailDeact
<1>7. s \in Row
  BY <1>4, <1>6 DEF Row
<1>8. /\ s.known = r.known /\ s.is_active = r.is_active
      /\ s.is_deactivated = r.is_deactivated
      /\ s.projects_api = r.projects_api
      /\ s.project = r.project /\ s.sshkey = r.sshkey
      /\ s.mail_project_is_opensend = r.mail_project_is_opensend
      /\ s.mail_project_is_sshkeyadded = r.mail_project_is_sshkeyadded
      /\ s.mail_project_is_sshkeyremoved = r.mail_project_is_sshkeyremoved
      /\ s.is_activated_project = act /\ s.is_deactivated_project = deact
      /\ s.mail_project_is_activated = mailAct
      /\ s.mail_project_is_deactivated = mailDeact
  BY <1>6 DEF Row
<1> QED BY <1>5, <1>7, <1>8

\* A listed user, before anything is taken away.
LEMMA AddedRow ==
    ASSUME NEW r \in Row, Distinct(r.projects_api),
           fetched \in ApiRecord, Distinct(fetched.projects), Listed,
           NEW s, s = UsersProjectsAdd(r), NEW ps, ps = SetOf(fetched.projects)
    PROVE  /\ s \in Row /\ Distinct(s.projects_api) /\ ps \subseteq Project
           /\ SetOf(s.projects_api) = SetOf(r.projects_api) \cup ps
           /\ s.known /\ s.is_active = fetched.status
           /\ s.is_deactivated = r.is_deactivated
           /\ s.project = r.project
           /\ \A p \in Project :
                 /\ p \in ps => /\ s.mail_project_is_opensend[p] # "absent"
                                /\ s.mail_project_is_sshkeyadded[p] # "absent"
                                /\ s.mail_project_is_sshkeyremoved[p] # "absent"
           /\ \A p \in OverAndDone(r, ps) :
                 /\ s.is_activated_project[p] = "absent"
                 /\ s.is_deactivated_project[p] = "absent"
           /\ \A p \in Project \ OverAndDone(r, ps) :
                 /\ s.is_activated_project[p] =
                        IF /\ p \in ps /\ r.is_deactivated_project[p] # "absent"
                           /\ r.is_activated_project[p] = "absent"
                        THEN "due" ELSE r.is_activated_project[p]
                 /\ s.is_deactivated_project[p] = r.is_deactivated_project[p]
                 /\ s.mail_project_is_activated[p] = r.mail_project_is_activated[p]
                 /\ s.mail_project_is_deactivated[p] = r.mail_project_is_deactivated[p]
<1> DEFINE n == NewFlags(r, ps)
           m == ResetFlags(n, ps)
           listed == AppendMissing(r.projects_api, fetched.projects)
<1>1. fetched.projects \in Seq(Project) /\ fetched.status \in BOOLEAN
  BY DEF ApiRecord
<1>2. ps \in SUBSET Project
  BY <1>1 DEF SetOf
<1>3. /\ listed \in Seq(Project) /\ Distinct(listed)
      /\ SetOf(listed) = SetOf(r.projects_api) \cup ps
  <2>1. r.projects_api \in Seq(Project)
    BY DEF Row
  <2> QED BY <1>1, <2>1, AppendMissingList
<1>4. /\ n \in Row
      /\ n.is_deactivated = r.is_deactivated
      /\ n.projects_api = r.projects_api /\ n.project = r.project
      /\ n.is_deactivated_project = r.is_deactivated_project
      /\ n.mail_project_is_activated = r.mail_project_is_activated
      /\ n.mail_project_is_deactivated = r.mail_project_is_deactivated
      /\ \A p \in Project :
            /\ p \in ps => /\ n.mail_project_is_opensend[p] # "absent"
                           /\ n.mail_project_is_sshkeyadded[p] # "absent"
                           /\ n.mail_project_is_sshkeyremoved[p] # "absent"
            /\ n.is_activated_project[p] =
                   IF /\ p \in ps /\ r.is_deactivated_project[p] # "absent"
                      /\ r.is_activated_project[p] = "absent"
                   THEN "due" ELSE r.is_activated_project[p]
  BY <1>2, NewFlagsRow
<1>5. OverAndDone(n, ps) = OverAndDone(r, ps)
  BY <1>2, <1>4 DEF OverAndDone
<1> HIDE DEF n, listed
<1>6. /\ m \in Row
      /\ m.is_deactivated = n.is_deactivated
      /\ m.projects_api = n.projects_api /\ m.project = n.project
      /\ m.mail_project_is_opensend = n.mail_project_is_opensend
      /\ m.mail_project_is_sshkeyadded = n.mail_project_is_sshkeyadded
      /\ m.mail_project_is_sshkeyremoved = n.mail_project_is_sshkeyremoved
      /\ \A p \in OverAndDone(n, ps) :
            /\ m.is_activated_project[p] = "absent"
            /\ m.is_deactivated_project[p] = "absent"
      /\ \A p \in Project \ OverAndDone(n, ps) :
            /\ m.is_activated_project[p] = n.is_activated_project[p]
            /\ m.is_deactivated_project[p] = n.is_deactivated_project[p]
            /\ m.mail_project_is_activated[p] = n.mail_project_is_activated[p]
            /\ m.mail_project_is_deactivated[p] = n.mail_project_is_deactivated[p]
  BY <1>2, <1>4, ResetRow
<1>7. s = [m EXCEPT !.known = TRUE, !.is_active = fetched.status,
                    !.projects_api = listed]
  <2>1. s = [m EXCEPT !.known = TRUE, !.is_active = fetched.status,
                      !.projects_api = AppendMissing(m.projects_api, fetched.projects)]
    BY <1>6 DEF UsersProjectsAdd, n, Row
  <2> QED BY <1>4, <1>6, <2>1 DEF listed
<1> HIDE DEF m
<1>8. /\ s \in Row /\ s.known /\ s.is_active = fetched.status
      /\ s.projects_api = listed
      /\ s.is_deactivated = m.is_deactivated /\ s.project = m.project
      /\ s.mail_project_is_opensend = m.mail_project_is_opensend
      /\ s.mail_project_is_sshkeyadded = m.mail_project_is_sshkeyadded
      /\ s.mail_project_is_sshkeyremoved = m.mail_project_is_sshkeyremoved
      /\ s.is_activated_project = m.is_activated_project
      /\ s.is_deactivated_project = m.is_deactivated_project
      /\ s.mail_project_is_activated = m.mail_project_is_activated
      /\ s.mail_project_is_deactivated = m.mail_project_is_deactivated
  BY <1>1, <1>3, <1>6, <1>7 DEF Row
<1> QED BY <1>2, <1>3, <1>4, <1>5, <1>6, <1>8

\* What users_projects_add and users_projects_del make of a listed user's row.
ListedChange(r, s) ==
    LET ps == SetOf(fetched.projects)
        gone == SetOf(r.projects_api) \ ps
    IN  /\ ps \subseteq Project /\ SetOf(s.projects_api) = ps
        /\ s.known /\ s.is_active = fetched.status
        /\ s.is_deactivated = r.is_deactivated /\ s.project = r.project
        /\ \A p \in ps : /\ s.mail_project_is_opensend[p] # "absent"
                          /\ s.mail_project_is_sshkeyadded[p] # "absent"
                          /\ s.mail_project_is_sshkeyremoved[p] # "absent"
        /\ \A p \in OverAndDone(r, ps) :
              /\ s.is_activated_project[p] = "absent"
              /\ s.is_deactivated_project[p] = "absent"
        /\ \A p \in Project \ OverAndDone(r, ps) :
              /\ s.is_activated_project[p] =
                     IF /\ p \in ps /\ r.is_deactivated_project[p] # "absent"
                        /\ r.is_activated_project[p] = "absent"
                     THEN "due" ELSE r.is_activated_project[p]
              /\ s.is_deactivated_project[p] =
                     IF p \in gone THEN "due" ELSE r.is_deactivated_project[p]
              /\ s.mail_project_is_activated[p] = r.mail_project_is_activated[p]
              /\ s.mail_project_is_deactivated[p] = r.mail_project_is_deactivated[p]

\* A listed user's row after both: the list is the API's, whether or not
\* something had to be taken away.
LEMMA ListedRow ==
    ASSUME NEW r \in Row, Distinct(r.projects_api),
           fetched \in ApiRecord, Distinct(fetched.projects), Listed,
           NEW s, s = UsersProjectsDel(UsersProjectsAdd(r))
    PROVE  s \in Row /\ Distinct(s.projects_api) /\ ListedChange(r, s)
<1> DEFINE a == UsersProjectsAdd(r)
           ps == SetOf(fetched.projects)
           gone == SetOf(a.projects_api) \ ps
<1>1. /\ a \in Row /\ Distinct(a.projects_api) /\ ps \subseteq Project
      /\ SetOf(a.projects_api) = SetOf(r.projects_api) \cup ps
      /\ a.known /\ a.is_active = fetched.status
      /\ a.is_deactivated = r.is_deactivated
      /\ a.project = r.project
      /\ \A p \in Project :
            /\ p \in ps => /\ a.mail_project_is_opensend[p] # "absent"
                           /\ a.mail_project_is_sshkeyadded[p] # "absent"
                           /\ a.mail_project_is_sshkeyremoved[p] # "absent"
      /\ \A p \in OverAndDone(r, ps) :
            /\ a.is_activated_project[p] = "absent"
            /\ a.is_deactivated_project[p] = "absent"
      /\ \A p \in Project \ OverAndDone(r, ps) :
            /\ a.is_activated_project[p] =
                   IF /\ p \in ps /\ r.is_deactivated_project[p] # "absent"
                      /\ r.is_activated_project[p] = "absent"
                   THEN "due" ELSE r.is_activated_project[p]
            /\ a.is_deactivated_project[p] = r.is_deactivated_project[p]
            /\ a.mail_project_is_activated[p] = r.mail_project_is_activated[p]
            /\ a.mail_project_is_deactivated[p] = r.mail_project_is_deactivated[p]
  BY AddedRow
<1>2. OverAndDone(r, ps) \subseteq ps
  BY DEF OverAndDone
<1>3. fetched.projects \in Seq(Project) /\ a.projects_api \in Seq(Project)
  BY <1>1 DEF ApiRecord, Row
<1> HIDE DEF a
<1>4. CASE Len(a.projects_api) > Len(fetched.projects)
  <2> DEFINE drop(flags) == Put(flags, gone, "absent")
             ask == Put(a.is_deactivated_project, gone, "due")
  <2>1. s = [a EXCEPT
               !.projects_api = fetched.projects,
               !.mail_project_is_opensend = drop(a.mail_project_is_opensend),
               !.mail_project_is_sshkeyadded = drop(a.mail_project_is_sshkeyadded),
               !.mail_project_is_sshkeyremoved = drop(a.mail_project_is_sshkeyremoved),
               !.is_deactivated_project = ask]
    BY <1>1, <1>4 DEF UsersProjectsDel, a, Row
  <2>2. /\ \A flags \in Flags :
              /\ drop(flags) \in Flags
              /\ \A p \in Project : drop(flags)[p] =
                     IF p \in gone THEN "absent" ELSE flags[p]
        /\ ask \in Flags
        /\ \A p \in Project : ask[p] =
               IF p \in gone THEN "due" ELSE a.is_deactivated_project[p]
    <3>1. "absent" \in Flag /\ "due" \in Flag /\ a.is_deactivated_project \in Flags
      BY <1>1 DEF Flag, Row
    <3> QED BY <3>1, PutFlags
  <2>3. gone \cap ps = {} /\ gone = SetOf(r.projects_api) \ ps
    BY <1>1
  <2> DEFINE opensend == drop(a.mail_project_is_opensend)
             added == drop(a.mail_project_is_sshkeyadded)
             removed == drop(a.mail_project_is_sshkeyremoved)
  <2> HIDE DEF drop, ask, gone
  <2>4. opensend \in Flags /\ added \in Flags /\ removed \in Flags /\ ask \in Flags
    <3>1. a \in Row
      BY <1>1
    <3> QED BY <2>2, <3>1 DEF Row
  <2>5. \A p \in ps : opensend[p] # "absent" /\ added[p] # "absent" /\ removed[p] # "absent"
    <3>1. /\ a.mail_project_is_opensend \in Flags
          /\ a.mail_project_is_sshkeyadded \in Flags
          /\ a.mail_project_is_sshkeyremoved \in Flags
      BY <1>1 DEF Row
    <3>2. \A p \in ps : p \in Project /\ p \notin gone
      BY <1>1, <2>3
    <3> QED BY <1>1, <2>2, <3>1, <3>2
  <2> HIDE DEF opensend, added, removed
  <2>6. s = [a EXCEPT !.projects_api = fetched.projects,
                      !.mail_project_is_opensend = opensend,
                      !.mail_project_is_sshkeyadded = added,
                      !.mail_project_is_sshkeyremoved = removed,
                      !.is_deactivated_project = ask]
    BY <2>1 DEF opensend, added, removed
  <2>7. s \in Row
    <3>1. a \in Row /\ fetched.projects \in Seq(Project)
      BY <1>1, <1>3
    <3> QED BY <2>4, <2>6, <3>1 DEF Row
  <2>8. /\ s.projects_api = fetched.projects
        /\ s.known = a.known /\ s.is_active = a.is_active
        /\ s.is_deactivated = a.is_deactivated /\ s.project = a.project
        /\ s.is_activated_project = a.is_activated_project
        /\ s.mail_project_is_activated = a.mail_project_is_activated
        /\ s.mail_project_is_deactivated = a.mail_project_is_deactivated
        /\ s.is_deactivated_project = ask
        /\ s.mail_project_is_opensend = opensend
        /\ s.mail_project_is_sshkeyadded = added
        /\ s.mail_project_is_sshkeyremoved = removed
    BY <1>1, <2>6 DEF Row
  <2> QED BY <1>1, <1>2, <2>2, <2>3, <2>5, <2>7, <2>8 DEF gone, ListedChange
<1>5. CASE ~(Len(a.projects_api) > Len(fetched.projects))
  <2>1. s = a
    BY <1>5 DEF UsersProjectsDel, a
  <2>2. SetOf(a.projects_api) = ps
    <3>1. Len(a.projects_api) <= Len(fetched.projects)
      BY <1>3, <1>5, LenProperties
    <3>2. SetOf(fetched.projects) \subseteq SetOf(a.projects_api)
      BY <1>1
    <3> QED BY <1>1, <1>3, <3>1, <3>2, NotLonger
  <2> QED BY <1>1, <2>1, <2>2 DEF ListedChange
<1> QED BY <1>4, <1>5

LEMMA SessionRow ==
    ASSUME Typed
    PROVE  /\ sess \in Row /\ SetOf(sess.projects_api) \subseteq Project
           /\ sess.project \subseteq Project
<1>1. sess \in Row
  BY DEF Typed, TypeOK
<1> QED BY <1>1 DEF Row, SetOf

LEMMA SyncedFields ==
    ASSUME Typed, NEW s, s = SyncedRow
    PROVE  /\ s \in Row /\ Distinct(s.projects_api) /\ s.project = sess.project
           /\ s.is_deactivated = sess.is_deactivated
           /\ Listed => ListedChange(sess, s)
           /\ ~Listed =>
                 /\ s.known = sess.known
                 /\ \/ /\ s.projects_api = sess.projects_api
                       /\ s.is_active = sess.is_active
                    \/ /\ s.projects_api = << >> /\ ~s.is_active
                       /\ s.known /\ ~s.is_deactivated
                 /\ s.is_activated_project = sess.is_activated_project
                 /\ s.is_deactivated_project = sess.is_deactivated_project
                 /\ s.mail_project_is_activated = sess.mail_project_is_activated
                 /\ s.mail_project_is_deactivated = sess.mail_project_is_deactivated
                 /\ s.mail_project_is_opensend = sess.mail_project_is_opensend
                 /\ s.mail_project_is_sshkeyadded = sess.mail_project_is_sshkeyadded
                 /\ s.mail_project_is_sshkeyremoved = sess.mail_project_is_sshkeyremoved
<1> DEFINE c == CheckUsersInactive(sess)
           d == UsersProjectsDel(UsersProjectsAdd(c))
<1>1. /\ sess \in Row /\ Distinct(sess.projects_api)
      /\ fetched \in ApiRecord /\ Distinct(fetched.projects)
  BY DEF Typed, TypeOK
<1>2. /\ c \in Row /\ Distinct(c.projects_api)
      /\ Listed => c = sess
      /\ ~Listed => \/ c = sess
                    \/ /\ sess.known /\ sess.is_active /\ ~sess.is_deactivated
                       /\ c = [sess EXCEPT !.projects_api = << >>, !.is_active = FALSE]
  BY <1>1, CheckedRow
<1>3. ~Listed => d = c
  BY DEF UsersProjectsDel, UsersProjectsAdd
<1> HIDE DEF c
<1>4. d \in Row /\ Distinct(d.projects_api)
  BY <1>1, <1>2, <1>3, ListedRow
<1>5. \E keys \in SUBSET Key : s = [d EXCEPT !.sshkeys_api = keys]
  <2>1. ApiKeys \in SUBSET Key
    BY <1>1 DEF ApiKeys, ApiRecord
  <2> DEFINE more == SshkeysAdd(d)
  <2>2. more = [d EXCEPT !.sshkeys_api = d.sshkeys_api \cup ApiKeys]
    BY DEF SshkeysAdd
  <2>3. d.sshkeys_api \cup ApiKeys \in SUBSET Key
    BY <1>4, <2>1 DEF Row
  <2>4. s = SshkeysDel(more)
    BY DEF SyncedRow, c
  <2>5. s = more \/ s = [more EXCEPT !.sshkeys_api = ApiKeys]
    BY <2>4 DEF SshkeysDel
  <2> HIDE DEF more, d
  <2>6. CASE s = more
    BY <2>2, <2>3, <2>6
  <2>7. CASE s = [more EXCEPT !.sshkeys_api = ApiKeys]
    <3>1. s = [d EXCEPT !.sshkeys_api = ApiKeys]
      BY <1>4, <2>2, <2>7 DEF Row
    <3> QED BY <2>1, <3>1
  <2> QED BY <2>5, <2>6, <2>7
<1> HIDE DEF d
<1>6. /\ s \in Row /\ s.known = d.known /\ s.is_active = d.is_active
      /\ s.is_deactivated = d.is_deactivated
      /\ s.projects_api = d.projects_api /\ s.project = d.project
      /\ s.is_activated_project = d.is_activated_project
      /\ s.is_deactivated_project = d.is_deactivated_project
      /\ s.mail_project_is_activated = d.mail_project_is_activated
      /\ s.mail_project_is_deactivated = d.mail_project_is_deactivated
      /\ s.mail_project_is_opensend = d.mail_project_is_opensend
      /\ s.mail_project_is_sshkeyadded = d.mail_project_is_sshkeyadded
      /\ s.mail_project_is_sshkeyremoved = d.mail_project_is_sshkeyremoved
  <2>1. PICK keys \in SUBSET Key : s = [d EXCEPT !.sshkeys_api = keys]
    BY <1>5
  <2> QED BY <1>4, <2>1 DEF Row
<1>7. CASE Listed
  <2>1. d = UsersProjectsDel(UsersProjectsAdd(sess))
    BY <1>2, <1>7 DEF d
  <2> QED BY <1>1, <1>4, <1>6, <1>7, <2>1, ListedRow DEF ListedChange
<1>8. CASE ~Listed
  <2>1. d = c
    BY <1>3, <1>8
  <2>2. CASE c = sess
    BY <1>4, <1>6, <1>8, <2>1, <2>2
  <2>3. CASE /\ sess.known /\ sess.is_active /\ ~sess.is_deactivated
             /\ c = [sess EXCEPT !.projects_api = << >>, !.is_active = FALSE]
    <3>1. /\ c.known = sess.known /\ ~c.is_active
          /\ c.is_deactivated = sess.is_deactivated
          /\ c.projects_api = << >> /\ c.project = sess.project
          /\ c.is_activated_project = sess.is_activated_project
          /\ c.is_deactivated_project = sess.is_deactivated_project
          /\ c.mail_project_is_activated = sess.mail_project_is_activated
          /\ c.mail_project_is_deactivated = sess.mail_project_is_deactivated
          /\ c.mail_project_is_opensend = sess.mail_project_is_opensend
          /\ c.mail_project_is_sshkeyadded = sess.mail_project_is_sshkeyadded
          /\ c.mail_project_is_sshkeyremoved = sess.mail_project_is_sshkeyremoved
      BY <1>1, <2>3 DEF Row
    <3> QED BY <1>4, <1>6, <1>8, <2>1, <2>3, <3>1
  <2> QED BY <1>2, <1>8, <2>2, <2>3
<1> QED BY <1>7, <1>8

-----------------------------------------------------------------------------
(* ldapupdate and emailsend: no flag is dropped, and one that becomes "done" *)
(* for a project asks for the mail that goes with it.                        *)

FlagsKept(s) ==
    /\ s.projects_api = sess.projects_api
    /\ s.known = sess.known /\ s.is_active = sess.is_active
    /\ \A p \in Project :
          /\ sess.mail_project_is_opensend[p] # "absent" =>
                 s.mail_project_is_opensend[p] # "absent"
          /\ sess.mail_project_is_sshkeyadded[p] # "absent" =>
                 s.mail_project_is_sshkeyadded[p] # "absent"
          /\ sess.mail_project_is_sshkeyremoved[p] # "absent" =>
                 s.mail_project_is_sshkeyremoved[p] # "absent"
          /\ sess.mail_project_is_activated[p] # "absent" =>
                 s.mail_project_is_activated[p] # "absent"
          /\ sess.mail_project_is_deactivated[p] # "absent" =>
                 s.mail_project_is_deactivated[p] # "absent"
          /\ \/ s.is_activated_project[p] = sess.is_activated_project[p]
             \/ /\ sess.is_activated_project[p] = "due"
                /\ s.is_activated_project[p] = "done"
                /\ s.mail_project_is_activated[p] = "due"
          /\ \/ s.is_deactivated_project[p] = sess.is_deactivated_project[p]
             \/ /\ s.is_deactivated_project[p] = "done"
                /\ s.mail_project_is_deactivated[p] = "due"
                /\ entry'[p].shell = "nologin"

LEMMA LdapRows ==
    ASSUME sess \in Row, NEW s,
           \/ s = sess
           \/ s = SyncRelation
           \/ \E p \in Project : /\ s \in {Deactivated(p), Inactivated(p)}
                                /\ entry'[p].shell = "nologin"
           \/ \E p \in Due(sess.is_activated_project) : s = Activated(p)
    PROVE  s \in Row /\ FlagsKept(s)
<1>1. CASE s = sess
  BY <1>1 DEF FlagsKept
<1>2. CASE s = SyncRelation
  <2>1. SetOf(sess.projects_api) \in SUBSET Project
    BY DEF SetOf, Row
  <2> QED BY <1>2, <2>1 DEF SyncRelation, FlagsKept, Row
<1>3. CASE \E p \in Project : /\ s \in {Deactivated(p), Inactivated(p)}
                             /\ entry'[p].shell = "nologin"
  <2>1. PICK p \in Project : /\ s = Deactivated(p) \/ s = Inactivated(p)
                            /\ entry'[p].shell = "nologin"
    BY <1>3
  <2> DEFINE deact == [sess.is_deactivated_project EXCEPT ![p] = "done"]
             mail == [sess.mail_project_is_deactivated EXCEPT ![p] = "due"]
  <2>2. /\ deact \in Flags /\ mail \in Flags /\ deact[p] = "done" /\ mail[p] = "due"
        /\ \A q \in Project \ {p} : /\ deact[q] = sess.is_deactivated_project[q]
                                    /\ mail[q] = sess.mail_project_is_deactivated[q]
    BY DEF Flags, Row
  <2>3. /\ Deactivated(p) = [sess EXCEPT !.is_deactivated_project = deact,
                                         !.mail_project_is_deactivated = mail]
        /\ Inactivated(p) = [sess EXCEPT !.is_deactivated_project = deact,
                                         !.mail_project_is_deactivated = mail,
                                         !.is_deactivated = TRUE]
    BY DEF Deactivated, Inactivated
  <2> HIDE DEF deact, mail
  <2>4. s \in Row
    <3>1. CASE s = Deactivated(p)
      BY <2>2, <2>3, <3>1 DEF Row
    <3>2. CASE s = Inactivated(p)
      BY <2>2, <2>3, <3>2 DEF Row
    <3> QED BY <2>1, <3>1, <3>2
  <2>5. /\ s.is_deactivated_project = deact /\ s.mail_project_is_deactivated = mail
        /\ s.projects_api = sess.projects_api
        /\ s.known = sess.known /\ s.is_active = sess.is_active
        /\ s.is_activated_project = sess.is_activated_project
        /\ s.mail_project_is_activated = sess.mail_project_is_activated
        /\ s.mail_project_is_opensend = sess.mail_project_is_opensend
        /\ s.mail_project_is_sshkeyadded = sess.mail_project_is_sshkeyadded
        /\ s.mail_project_is_sshkeyremoved = sess.mail_project_is_sshkeyremoved
    <3>1. CASE s = Deactivated(p)
      BY <2>3, <3>1 DEF Row
    <3>2. CASE s = Inactivated(p)
      BY <2>3, <3>2 DEF Row
    <3> QED BY <2>1, <3>1, <3>2
  <2> QED BY <2>1, <2>2, <2>4, <2>5 DEF FlagsKept
<1>4. CASE \E p \in Due(sess.is_activated_project) : s = Activated(p)
  <2>1. PICK p \in Due(sess.is_activated_project) : s = Activated(p)
    BY <1>4
  <2> DEFINE act == [sess.is_activated_project EXCEPT ![p] = "done"]
             mail == [sess.mail_project_is_activated EXCEPT ![p] = "due"]
  <2>2. p \in Project /\ sess.is_activated_project[p] = "due"
    BY DEF Due
  <2>3. /\ act \in Flags /\ mail \in Flags /\ act[p] = "done" /\ mail[p] = "due"
        /\ \A q \in Project \ {p} : /\ act[q] = sess.is_activated_project[q]
                                    /\ mail[q] = sess.mail_project_is_activated[q]
    BY <2>2 DEF Flags, Row
  <2> HIDE DEF act, mail
  <2>4. s = [sess EXCEPT !.is_activated_project = act,
                         !.mail_project_is_activated = mail, !.is_deactivated = FALSE]
    BY <2>1 DEF act, mail, Activated
  <2>5. s \in Row
    BY <2>3, <2>4 DEF Row
  <2> QED BY <2>2, <2>3, <2>4, <2>5 DEF FlagsKept, Row
<1> QED BY <1>1, <1>2, <1>3, <1>4

LEMMA KeyRows ==
    ASSUME sess \in Row, NEW s, s = KeyRow \/ s = [KeyRow EXCEPT !.is_opened = TRUE]
    PROVE  s \in Row /\ FlagsKept(s)
<1> DEFINE again(flags) == Put(flags, Held(flags), "due")
<1>1. \A flags \in Flags :
         /\ again(flags) \in Flags
         /\ \A p \in Project : flags[p] # "absent" => again(flags)[p] # "absent"
  <2>1. "due" \in Flag
    BY DEF Flag
  <2> QED BY <2>1, PutFlags
<1> HIDE DEF again
<1>2. PICK keys \in SUBSET Key, names \in SUBSET KeyNotice,
           added \in {sess.mail_project_is_sshkeyadded,
                      again(sess.mail_project_is_sshkeyadded)},
           removed \in {sess.mail_project_is_sshkeyremoved,
                        again(sess.mail_project_is_sshkeyremoved)} :
         KeyRow = [sess EXCEPT !.sshkey = keys, !.mail_name_sshkey = names,
                               !.mail_project_is_sshkeyadded = added,
                               !.mail_project_is_sshkeyremoved = removed]
  <2> DEFINE names == sess.mail_name_sshkey \cup ({"ADD"} \X KeysAdded)
                        \cup ({"DEL"} \X KeysRemoved)
             added == IF KeysAdded # {} THEN again(sess.mail_project_is_sshkeyadded)
                      ELSE sess.mail_project_is_sshkeyadded
             removed == IF KeysRemoved # {} THEN again(sess.mail_project_is_sshkeyremoved)
                        ELSE sess.mail_project_is_sshkeyremoved
  <2>1. names \in SUBSET KeyNotice /\ RelationKeys \in SUBSET Key
    BY DEF KeysAdded, KeysRemoved, RelationKeys, KeyNotice, Row
  <2>2. KeyRow = [sess EXCEPT !.sshkey = RelationKeys, !.mail_name_sshkey = names,
                              !.mail_project_is_sshkeyadded = added,
                              !.mail_project_is_sshkeyremoved = removed]
    BY DEF KeyRow, again
  <2> HIDE DEF names
  <2> QED BY <2>1, <2>2
<1>3. /\ added \in Flags /\ removed \in Flags
      /\ \A p \in Project :
            /\ sess.mail_project_is_sshkeyadded[p] # "absent" => added[p] # "absent"
            /\ sess.mail_project_is_sshkeyremoved[p] # "absent" => removed[p] # "absent"
  BY <1>1 DEF Row
<1>4. KeyRow \in Row /\ FlagsKept(KeyRow)
  <2>1. KeyRow \in Row
    BY <1>2, <1>3 DEF Row
  <2> QED BY <1>2, <1>3, <2>1 DEF FlagsKept, Row
<1>5. CASE s = [KeyRow EXCEPT !.is_opened = TRUE]
  <2>1. s \in Row
    BY <1>4, <1>5 DEF Row
  <2>2. /\ s.projects_api = KeyRow.projects_api
        /\ s.known = KeyRow.known /\ s.is_active = KeyRow.is_active
        /\ s.is_activated_project = KeyRow.is_activated_project
        /\ s.is_deactivated_project = KeyRow.is_deactivated_project
        /\ s.mail_project_is_activated = KeyRow.mail_project_is_activated
        /\ s.mail_project_is_deactivated = KeyRow.mail_project_is_deactivated
        /\ s.mail_project_is_opensend = KeyRow.mail_project_is_opensend
        /\ s.mail_project_is_sshkeyadded = KeyRow.mail_project_is_sshkeyadded
        /\ s.mail_project_is_sshkeyremoved = KeyRow.mail_project_is_sshkeyremoved
    BY <1>4, <1>5 DEF Row
  <2> QED BY <1>4, <2>1, <2>2 DEF FlagsKept
<1> QED BY <1>4, <1>5

\* A round of mails, and the mails about keys.
LEMMA RoundRows ==
    ASSUME sess \in Row, NEW ok \in SUBSET Project, NEW s,
           s \in {AfterActivate(ok), AfterDeactivate(ok), AfterAccount(ok)}
    PROVE  s \in Row /\ FlagsKept(s)
<1> DEFINE settled(flags) == Put(flags, ok, "done")
<1>1. \A flags \in Flags :
         /\ settled(flags) \in Flags
         /\ \A p \in Project : flags[p] # "absent" => settled(flags)[p] # "absent"
  <2>1. "done" \in Flag
    BY DEF Flag
  <2> QED BY <2>1, PutFlags
<1> DEFINE activated == settled(sess.mail_project_is_activated)
           deactivated == settled(sess.mail_project_is_deactivated)
           opensend == settled(sess.mail_project_is_opensend)
           added == settled(sess.mail_project_is_sshkeyadded)
<1>2. /\ AfterActivate(ok) = [sess EXCEPT !.mail_project_is_activated = activated,
                                          !.mail_project_is_opensend = opensend,
                                          !.mail_project_is_sshkeyadded = added]
      /\ AfterDeactivate(ok) = [sess EXCEPT !.mail_project_is_deactivated = deactivated]
      /\ AfterAccount(ok) = [sess EXCEPT !.mail_project_is_opensend = opensend]
  BY DEF AfterActivate, AfterDeactivate, AfterAccount
<1> HIDE DEF settled
<1>3. /\ activated \in Flags /\ deactivated \in Flags /\ opensend \in Flags /\ added \in Flags
      /\ \A p \in Project :
            /\ sess.mail_project_is_opensend[p] # "absent" => opensend[p] # "absent"
            /\ sess.mail_project_is_sshkeyadded[p] # "absent" => added[p] # "absent"
            /\ sess.mail_project_is_activated[p] # "absent" => activated[p] # "absent"
            /\ sess.mail_project_is_deactivated[p] # "absent" => deactivated[p] # "absent"
  BY <1>1 DEF Row
<1> HIDE DEF activated, deactivated, opensend, added
<1>4. CASE s = AfterActivate(ok)
  <2>1. s \in Row
    BY <1>2, <1>3, <1>4 DEF Row
  <2> QED BY <1>2, <1>3, <1>4, <2>1 DEF FlagsKept, Row
<1>5. CASE s = AfterDeactivate(ok)
  <2>1. s \in Row
    BY <1>2, <1>3, <1>5 DEF Row
  <2> QED BY <1>2, <1>3, <1>5, <2>1 DEF FlagsKept, Row
<1>6. CASE s = AfterAccount(ok)
  <2>1. s \in Row
    BY <1>2, <1>3, <1>6 DEF Row
  <2> QED BY <1>2, <1>3, <1>6, <2>1 DEF FlagsKept, Row
<1> QED BY <1>4, <1>5, <1>6

\* The mails about keys leave the rest of the row alone.
KeysMailed(s) ==
    /\ s.project = sess.project /\ s.is_deactivated = sess.is_deactivated
    /\ s.is_activated_project = sess.is_activated_project
    /\ s.is_deactivated_project = sess.is_deactivated_project
    /\ s.mail_project_is_activated = sess.mail_project_is_activated
    /\ s.mail_project_is_deactivated = sess.mail_project_is_deactivated
    /\ s.mail_project_is_opensend = sess.mail_project_is_opensend

LEMMA KeyMailRows ==
    ASSUME sess \in Row, NEW added \in SUBSET Project, NEW removed \in SUBSET Project,
           NEW s, s = AfterKeyMails(AfterOpened, added, removed)
    PROVE  s \in Row /\ FlagsKept(s) /\ KeysMailed(s)
<1> DEFINE now == opened \cap Held(sess.mail_project_is_sshkeyadded)
           o == AfterOpened
           a0 == sess.mail_project_is_sshkeyadded
           r0 == sess.mail_project_is_sshkeyremoved
           a1 == Put(a0, now, "done")
           r1 == Put(r0, now, "done")
           a2 == Put(a1, added, "done")
           r2 == Put(r1, removed, "done")
<1>1. "done" \in Flag /\ a0 \in Flags /\ r0 \in Flags
  BY DEF Flag, Row
<1>2. /\ a1 \in Flags /\ r1 \in Flags
      /\ \A p \in Project : /\ a0[p] # "absent" => a1[p] # "absent"
                            /\ r0[p] # "absent" => r1[p] # "absent"
  <2> HIDE DEF now, a0, r0
  <2> QED BY <1>1, PutFlags
<1>3. /\ a2 \in Flags /\ r2 \in Flags
      /\ \A p \in Project : /\ a1[p] # "absent" => a2[p] # "absent"
                            /\ r1[p] # "absent" => r2[p] # "absent"
  <2> HIDE DEF a1, r1
  <2> QED BY <1>1, <1>2, PutFlags
<1>4. PICK kept \in SUBSET KeyNotice :
         o = [sess EXCEPT !.mail_project_is_sshkeyadded = a1,
                          !.mail_project_is_sshkeyremoved = r1,
                          !.mail_name_sshkey = kept]
  <2> DEFINE kept == IF Cardinality(now) = Cardinality(sess.project) THEN {}
                     ELSE sess.mail_name_sshkey
  <2>1. kept \in SUBSET KeyNotice
    BY DEF Row
  <2>2. o = [sess EXCEPT !.mail_project_is_sshkeyadded = a1,
                         !.mail_project_is_sshkeyremoved = r1,
                         !.mail_name_sshkey = kept]
    BY DEF AfterOpened
  <2> HIDE DEF kept, o, a1, r1
  <2> QED BY <2>1, <2>2
<1> HIDE DEF o, a1, r1, a0, r0, now
<1>5. /\ o.mail_project_is_sshkeyadded = a1 /\ o.mail_project_is_sshkeyremoved = r1
      /\ o.mail_name_sshkey = kept
  BY <1>4 DEF Row
<1>6. PICK names \in SUBSET KeyNotice :
         s = [o EXCEPT !.mail_project_is_sshkeyadded = a2,
                       !.mail_project_is_sshkeyremoved = r2,
                       !.mail_name_sshkey = names]
  <2> DEFINE names1 == DropNames(o.mail_name_sshkey, "ADD", Cardinality(added),
                                 o.mail_project_is_sshkeyadded)
             names2 == DropNames(names1, "DEL", Cardinality(added) + Cardinality(removed),
                                 o.mail_project_is_sshkeyremoved)
  <2>1. names1 \in SUBSET KeyNotice
    BY <1>5 DEF DropNames
  <2>2. names2 \in SUBSET KeyNotice
    <3> HIDE DEF names1
    <3> QED BY <2>1 DEF DropNames
  <2>3. s = [o EXCEPT !.mail_project_is_sshkeyadded = a2,
                      !.mail_project_is_sshkeyremoved = r2,
                      !.mail_name_sshkey = names2]
    BY <1>5 DEF AfterKeyMails, o
  <2> HIDE DEF names2, a2, r2
  <2> QED BY <2>2, <2>3
<1> HIDE DEF a2, r2
<1>7. s = [sess EXCEPT !.mail_project_is_sshkeyadded = a2,
                       !.mail_project_is_sshkeyremoved = r2,
                       !.mail_name_sshkey = names]
  BY <1>4, <1>6 DEF Row
<1>8. \A p \in Project : /\ a0[p] # "absent" => a2[p] # "absent"
                         /\ r0[p] # "absent" => r2[p] # "absent"
  BY <1>2, <1>3
<1>9. s \in Row
  BY <1>3, <1>7 DEF Row
<1>10. FlagsKept(s)
  BY <1>7, <1>8 DEF FlagsKept, Row, a0, r0
<1>11. KeysMailed(s)
  BY <1>7 DEF KeysMailed, Row
<1> QED BY <1>9, <1>10, <1>11

LEMMA ChangedRow ==
    ASSUME Typed, NEW s, RowChange(s)
    PROVE  s \in Row /\ FlagsKept(s)
<1>1. sess \in Row
  BY DEF Typed, TypeOK
<1> QED BY <1>1, LdapRows, KeyRows, RoundRows, KeyMailRows DEF RowChange

-----------------------------------------------------------------------------
(* Every step changes the rows by these operators. *)

RowsAlone ==
    \/ ApiChange \/ StartCycle \/ FetchData \/ FetchError \/ Start
    \/ StartProject \/ NewOrganisationProject \/ OpenUser \/ OpenUserError
    \/ EndProjects \/ EndDeactivate \/ EndActivate \/ EndInactive \/ UpdateGroups

LEMMA RowsAloneKept ==
    ASSUME RowsAlone PROVE db' = db /\ sess' = sess
<1>1. CASE ApiChange \/ StartCycle \/ FetchData \/ FetchError \/ Start
  BY <1>1 DEF ApiChange, StartCycle, FetchData, FetchError, Start
<1>2. CASE StartProject \/ NewOrganisationProject \/ OpenUser \/ OpenUserError
  BY <1>2 DEF StartProject, NewOrganisationProject, OpenUser, OpenUserError
<1>3. CASE EndProjects \/ EndDeactivate \/ EndActivate \/ EndInactive \/ UpdateGroups
  BY <1>3 DEF EndProjects, EndDeactivate, EndActivate, EndInactive, UpdateGroups
<1> QED BY <1>1, <1>2, <1>3 DEF RowsAlone

LEMMA ShellSet ==
    ASSUME Typed, NEW p \in Project, NEW shell \in {"bash", "nologin"}, SetShell(p, shell)
    PROVE  /\ entry[p].exists /\ entry'[p].exists
           /\ entry'[p].shell = shell
           /\ \A q \in Project \ {p} : entry'[q] = entry[q]
<1>1. entry \in [Project -> Entry]
  BY DEF Typed, TypeOK
<1>2. entry[p].exists /\ entry' = [entry EXCEPT ![p].shell = shell]
  BY DEF SetShell
<1>3. /\ entry'[p] = [entry[p] EXCEPT !.shell = shell]
      /\ \A q \in Project \ {p} : entry'[q] = entry[q]
  BY <1>1, <1>2
<1> QED BY <1>1, <1>2, <1>3 DEF Entry

LEMMA LdapErrorRows ==
    ASSUME NEW row, NEW e, LdapError(row, e)
    PROVE  db' = db /\ (sess' = row \/ Abandon)
BY DEF LdapError

LEMMA StepRows ==
    ASSUME Typed, [Next]_vars PROVE RowsChange
<1>1. CASE RowsAlone
  BY <1>1, RowsAloneKept DEF RowsChange, RowChange
<1>2. CASE SyncCache
  BY <1>2 DEF SyncCache, RowsChange
<1>3. CASE SyncUser \/ UpdateKeys
  BY <1>3 DEF SyncUser, UpdateKeys, RowsChange, RowChange
<1>4. CASE SyncUserError \/ UpdateKeysError
  BY <1>4, LdapErrorRows DEF SyncUserError, UpdateKeysError, RowsChange, RowChange
<1>5. CASE NewOrganisationProjectError \/ ShellError \/ Cancel \/ Die
  BY <1>5 DEF NewOrganisationProjectError, ShellError, Cancel, Die, RowsChange
<1>6. ASSUME NEW p \in Project, DeactivateProject(p) PROVE RowsChange
  <2>1. sess' = Deactivated(p) /\ db' = db
    BY <1>6 DEF DeactivateProject, Deactivated
  <2>2. entry'[p].shell = "nologin"
    BY <1>6, ShellSet DEF DeactivateProject
  <2> QED BY <2>1, <2>2 DEF RowsChange, RowChange
<1>7. ASSUME NEW p \in Project, ActivateProject(p) PROVE RowsChange
  <2>1. sess' = Activated(p) /\ db' = db /\ p \in Due(sess.is_activated_project)
    BY <1>7 DEF ActivateProject, Activated
  <2> QED BY <2>1 DEF RowsChange, RowChange
<1>8. CASE InactiveProject
  <2>1. todo \in Seq(Project) /\ todo # << >>
    BY <1>8 DEF InactiveProject, Typed, TypeOK
  <2>2. Head(todo) \in Project
    BY <2>1, HeadTailProperties
  <2>3. sess' = Inactivated(Head(todo)) /\ db' = db
    BY <1>8 DEF InactiveProject, Inactivated
  <2>4. entry'[Head(todo)].shell = "nologin"
    BY <1>8, <2>2, ShellSet DEF InactiveProject
  <2> QED BY <2>2, <2>3, <2>4 DEF RowsChange, RowChange
<1>9. CASE LdapCommit \/ MailCommit \/ CancelMails
  BY <1>9 DEF LdapCommit, MailCommit, CancelMails, Commit, RowsChange, RowChange
<1>10. CASE EmailActivate
  <2>1. PICK ok \in SUBSET Project : sess' = AfterActivate(ok) /\ db' = db
    BY <1>10 DEF EmailActivate, Round, Accepted, Due
  <2> QED BY <2>1 DEF RowsChange, RowChange
<1>11. CASE EmailDeactivate
  <2>1. PICK ok \in SUBSET Project : sess' = AfterDeactivate(ok) /\ db' = db
    BY <1>11 DEF EmailDeactivate, Round, Accepted, Due
  <2> QED BY <2>1 DEF RowsChange, RowChange
<1>12. CASE EmailAccount
  <2>1. PICK ok \in SUBSET Project : sess' = AfterAccount(ok) /\ db' = db
    BY <1>12 DEF EmailAccount, Round, Accepted, Due
  <2> QED BY <2>1 DEF RowsChange, RowChange
<1>13. CASE EmailKey
  <2>1. PICK added \in SUBSET Project, removed \in SUBSET Project :
           sess' = AfterKeyMails(AfterOpened, added, removed) /\ db' = db
    BY <1>13 DEF EmailKey, KeyMails, Accepted, Due
  <2> QED BY <2>1 DEF RowsChange, RowChange
<1>14. CASE UNCHANGED vars
  BY <1>14 DEF vars, RowsChange, RowChange
<1> QED BY <1>1, <1>2, <1>3, <1>4, <1>5, <1>6, <1>7, <1>8, <1>9, <1>10, <1>11, <1>12,
        <1>13, <1>14 DEF Next, DaemonStep, Environment, LdapUpdate, LdapUpdateFails,
        EmailSend, RowsAlone

-----------------------------------------------------------------------------
(* Type correctness. *)

RowsTyped == /\ db \in Row /\ sess \in Row
             /\ sess.projects_api = db.projects_api /\ Distinct(sess.projects_api)

LEMMA RowsTypedStep ==
    ASSUME Typed, [Next]_vars PROVE RowsTyped'
<1>1. RowsTyped
  BY DEF Typed, TypeOK, RowsTyped
<1>2. CASE pc = "sync api" /\ Commit(SyncedRow)
  <2>1. SyncedRow \in Row /\ Distinct(SyncedRow.projects_api)
    BY SyncedFields
  <2> QED BY <1>2, <2>1 DEF Commit, RowsTyped
<1>3. CASE /\ Abandon \/ RowChange(sess')
           /\ db' = db \/ db' = sess \/ db' = sess'
  <2>1. RowChange(sess') => sess' \in Row /\ sess'.projects_api = sess.projects_api
    BY ChangedRow DEF FlagsKept
  <2>2. CASE Abandon
    BY <1>1, <1>3, <2>2 DEF RowsTyped, Abandon
  <2>3. CASE RowChange(sess')
    BY <1>1, <1>3, <2>1, <2>3 DEF RowsTyped
  <2> QED BY <1>3, <2>2, <2>3
<1> QED BY <1>2, <1>3, StepRows DEF RowsChange

\* The rest of the state.
RestTyped ==
    /\ api \in ApiChoices /\ fetched \in ApiRecord /\ Distinct(fetched.projects)
    /\ tree \in [Project -> 0..WholeTree]
    /\ entry \in [Project -> Entry]
    /\ group \subseteq Project /\ opened \subseteq Project
    /\ pc \in {"sleep", "fetch", "sync api", "down"} \cup LdapPc \cup MailPc
    /\ cur \in Project \cup {NoProject}
    /\ cur \in Project <=> pc \in {"grow", "entry", "sync", "keys"}
    /\ pc = "grow" => tree[cur] < WholeTree
    /\ todo \in Seq(Project)
    /\ guarded \in BOOLEAN
    /\ quiet \in -1..QuietMax

LEMMA TypedParts == Typed <=> RowsTyped /\ RestTyped
BY DEF Typed, TypeOK, RowsTyped, RestTyped

LEMMA QuietTyped ==
    /\ -1 \in -1..QuietMax /\ 0 \in -1..QuietMax
    /\ \A q \in -1..QuietMax : (IF q < QuietMax THEN q + 1 ELSE q) \in -1..QuietMax
BY DEF QuietMax

\* A step between stages in which no project is in work.
Resting == {"sleep", "fetch", "sync api", "down", "project", "deactivate", "activate",
            "inactive", "groups", "commit"} \cup MailPc

LEMMA RestingTyped ==
    ASSUME RestTyped, pc \in Resting, pc' \in Resting,
           cur' = cur \/ cur' = NoProject,
           api' \in ApiChoices, fetched' \in ApiRecord, Distinct(fetched'.projects),
           tree' = tree, entry' \in [Project -> Entry], group' \subseteq Project,
           opened' \subseteq Project, todo' \in Seq(Project), guarded' \in BOOLEAN,
           quiet' \in -1..QuietMax
    PROVE  RestTyped'
<1>1. cur \notin Project /\ cur \in Project \cup {NoProject}
  BY DEF RestTyped, Resting, MailPc
<1>2. /\ pc' \in {"sleep", "fetch", "sync api", "down"} \cup LdapPc \cup MailPc
      /\ pc' \notin {"grow", "entry", "sync", "keys"}
  BY DEF Resting, LdapPc, MailPc
<1>3. NoProject \notin Project
  BY OrgAssumption
<1> QED BY <1>1, <1>2, <1>3 DEF RestTyped

\* The entry of the project in work, as OpenUser adds it and as the keys change it.
LEMMA EntryTyped ==
    ASSUME Typed, cur \in Project
    PROVE  /\ NewEntry \in Entry /\ entry[cur] \in Entry
           /\ [entry[cur] EXCEPT !.keys = RelationKeys] \in Entry
<1>1. sess \in Row /\ entry[cur] \in Entry
  BY DEF Typed, TypeOK
<1>2. RelationKeys \in SUBSET Key /\ sess.sshkey \in SUBSET Key
  BY <1>1 DEF RelationKeys, Row
<1> QED BY <1>1, <1>2 DEF NewEntry, Entry

LEMMA NothingTyped ==
    /\ NothingFetched \in ApiRecord /\ Distinct(NothingFetched.projects)
    /\ << >> \in Seq(Project) /\ NoProject \notin Project
BY OrgAssumption DEF NothingFetched, ApiRecord, Distinct

LEMMA AbandonTyped ==
    ASSUME RestTyped, Abandon, api' = api, group' = group,
           tree' \in [Project -> 0..WholeTree], entry' \in [Project -> Entry]
    PROVE  RestTyped'
<1>1. /\ fetched' = NothingFetched /\ todo' = << >> /\ opened' = {} /\ cur' = NoProject
      /\ guarded' = TRUE /\ pc' = "down" /\ quiet' = -1
  BY DEF Abandon, Disturbed
<1>2. -1 \in -1..QuietMax
  BY DEF QuietMax
<1>3. "down" \notin {"grow", "entry", "sync", "keys"}
  OBVIOUS
<1> QED BY <1>1, <1>2, <1>3, NothingTyped DEF RestTyped

LEMMA RefusedTyped ==
    ASSUME Typed, NEW e \in Entry, Refused(e)
    PROVE  entry' \in [Project -> Entry]
BY DEF Refused, Typed, TypeOK

LEMMA LdapErrorTyped ==
    ASSUME Typed, NEW row, NEW e \in Entry, LdapError(row, e)
    PROVE  RestTyped'
<1>1. /\ entry' \in [Project -> Entry]
      /\ api' = api /\ group' = group /\ tree' = tree
  BY RefusedTyped DEF LdapError
<1>2. RestTyped
  BY TypedParts
<1>3. CASE Abandon
  BY <1>1, <1>2, <1>3, AbandonTyped DEF RestTyped
<1>4. CASE NextProject /\ Disturbed /\ UNCHANGED <<fetched, todo, opened>>
  BY <1>1, <1>2, <1>4, NothingTyped, QuietTyped DEF NextProject, Disturbed, RestTyped, LdapPc
<1> QED BY <1>3, <1>4 DEF LdapError

\* cur's own stages.
LEMMA ProjectTyped ==
    ASSUME Typed,
           \/ StartProject \/ NewOrganisationProject \/ OpenUser \/ SyncUser \/ UpdateKeys
           \/ NewOrganisationProjectError \/ OpenUserError \/ SyncUserError
           \/ UpdateKeysError
    PROVE  RestTyped'
<1>1. RestTyped /\ todo \in Seq(Project) /\ tree \in [Project -> 0..WholeTree]
  BY TypedParts DEF RestTyped
<1>2. CASE StartProject
  <2>1. Head(todo) \in Project /\ Tail(todo) \in Seq(Project)
    BY <1>1, <1>2, HeadTailProperties DEF StartProject
  <2> QED BY <1>1, <1>2, <2>1 DEF StartProject, RestTyped, LdapPc, WholeTree
<1>3. CASE NewOrganisationProject
  <2>1. cur \in Project /\ tree[cur] \in 0..WholeTree /\ tree[cur] < WholeTree
    BY <1>1, <1>3 DEF NewOrganisationProject, RestTyped
  <2>2. tree' \in [Project -> 0..WholeTree] /\ tree'[cur] = tree[cur] + 1
    BY <1>1, <1>3, <2>1 DEF NewOrganisationProject, WholeTree
  <2>3. pc' = "grow" => tree'[cur] < WholeTree
    BY <1>3, <2>1, <2>2 DEF NewOrganisationProject, WholeTree
  <2> QED BY <1>1, <1>3, <2>1, <2>2, <2>3 DEF NewOrganisationProject, RestTyped, LdapPc
<1>4. CASE NewOrganisationProjectError
  <2>1. cur \in Project /\ tree[cur] \in 0..WholeTree /\ tree[cur] < WholeTree
    BY <1>1, <1>4 DEF NewOrganisationProjectError, RestTyped
  <2>2. tree' \in [Project -> 0..WholeTree]
    BY <1>1, <1>4, <2>1 DEF NewOrganisationProjectError, WholeTree
  <2> QED BY <1>1, <1>4, <2>2, AbandonTyped DEF NewOrganisationProjectError, RestTyped
<1>5. ASSUME OpenUser \/ OpenUserError \/ SyncUser \/ SyncUserError
               \/ UpdateKeys \/ UpdateKeysError
      PROVE  /\ cur \in Project /\ NewEntry \in Entry /\ entry[cur] \in Entry
             /\ [entry[cur] EXCEPT !.keys = RelationKeys] \in Entry
             /\ entry \in [Project -> Entry]
  <2>1. cur \in Project
    BY <1>1, <1>5 DEF OpenUser, OpenUserError, SyncUser, SyncUserError, UpdateKeys,
       UpdateKeysError, RestTyped
  <2> QED BY <1>1, <2>1, EntryTyped DEF RestTyped
<1>6. CASE OpenUser
  <2>1. entry' \in [Project -> Entry] /\ guarded' \in BOOLEAN
    BY <1>5, <1>6 DEF OpenUser
  <2> QED BY <1>1, <1>5, <1>6, <2>1 DEF OpenUser, RestTyped, LdapPc
<1>7. CASE OpenUserError
  <2>1. entry' \in [Project -> Entry]
    BY <1>5, <1>7, RefusedTyped DEF OpenUserError
  <2> QED BY <1>1, <1>7, <2>1, NothingTyped DEF OpenUserError, NextProject, Disturbed,
          RestTyped, LdapPc, QuietMax
<1>8. CASE SyncUser
  BY <1>1, <1>5, <1>8 DEF SyncUser, RestTyped, LdapPc
<1>9. CASE SyncUserError
  BY <1>5, <1>9, LdapErrorTyped DEF SyncUserError
<1>10. CASE UpdateKeys
  <2>1. entry' \in [Project -> Entry]
    <3>1. CASE entry' = entry
      BY <1>5, <1>10, <3>1
    <3>2. CASE entry' = [entry EXCEPT ![cur] = [entry[cur] EXCEPT !.keys = RelationKeys]]
      BY <1>5, <1>10, <3>2
    <3> QED BY <1>10, <3>1, <3>2 DEF UpdateKeys
  <2> QED BY <1>1, <1>10, <2>1, NothingTyped DEF UpdateKeys, NextProject, RestTyped, LdapPc
<1>11. CASE UpdateKeysError
  BY <1>5, <1>11, LdapErrorTyped DEF UpdateKeysError
<1> QED BY <1>2, <1>3, <1>4, <1>6, <1>7, <1>8, <1>9, <1>10, <1>11

LEMMA ShellEntry ==
    ASSUME Typed, NEW p \in Project, NEW shell \in {"bash", "nologin"}
    PROVE  [entry EXCEPT ![p].shell = shell] \in [Project -> Entry]
<1>1. entry \in [Project -> Entry]
  BY DEF Typed, TypeOK
<1>2. [entry[p] EXCEPT !.shell = shell] \in Entry
  BY <1>1 DEF Entry
<1> QED BY <1>1, <1>2

\* The relation's projects in some order.
LEMMA RelationOrder ==
    ASSUME Typed, NEW s \in [1..Cardinality(sess.project) -> sess.project]
    PROVE  s \in Seq(Project)
<1>1. sess.project \in SUBSET Project
  BY DEF Typed, TypeOK, Row
<1>2. IsFiniteSet(sess.project)
  BY <1>1, OrgAssumption, FS_Subset
<1>3. Cardinality(sess.project) \in Nat
  BY <1>2, FS_CardinalityType
<1> QED BY <1>1, <1>3, SeqDef

LEMMA LoopsTyped ==
    ASSUME Typed,
           \/ EndProjects \/ EndDeactivate \/ EndActivate \/ EndInactive \/ InactiveProject
           \/ \E p \in Project : DeactivateProject(p) \/ ActivateProject(p)
           \/ ShellError \/ UpdateGroups \/ LdapCommit
    PROVE  RestTyped'
<1>1. RestTyped /\ todo \in Seq(Project)
  BY TypedParts DEF RestTyped
<1>2. CASE EndProjects \/ EndDeactivate \/ EndInactive \/ LdapCommit
  BY <1>1, <1>2 DEF EndProjects, EndDeactivate, EndInactive, LdapCommit, RestTyped, LdapPc,
     MailPc
<1>3. CASE EndActivate
  <2>1. todo' \in Seq(Project)
    BY <1>1, <1>3, RelationOrder DEF EndActivate
  <2> QED BY <1>1, <1>3, <2>1 DEF EndActivate, RestTyped, LdapPc
<1>4. ASSUME NEW p \in Project, DeactivateProject(p) \/ ActivateProject(p)
      PROVE  RestTyped'
  <2>1. entry' \in [Project -> Entry]
    BY <1>4, ShellEntry DEF DeactivateProject, ActivateProject, SetShell
  <2> QED BY <1>1, <1>4, <2>1 DEF DeactivateProject, ActivateProject, RestTyped
<1>5. CASE InactiveProject
  <2>1. Head(todo) \in Project /\ Tail(todo) \in Seq(Project)
    BY <1>1, <1>5, HeadTailProperties DEF InactiveProject
  <2>2. entry' \in [Project -> Entry]
    BY <1>5, <2>1, ShellEntry DEF InactiveProject, SetShell
  <2> QED BY <1>1, <1>5, <2>1, <2>2 DEF InactiveProject, RestTyped
<1>6. CASE ShellError
  <2>1. ShellTargets \subseteq Project
    <3>1. pc = "inactive" /\ todo # << >> => Head(todo) \in Project
      BY <1>1, HeadTailProperties
    <3> QED BY <3>1 DEF ShellTargets, Due
  <2>2. entry' \in [Project -> Entry]
    <3>1. PICK p \in ShellTargets, shell \in {"bash", "nologin"} :
             entry' = entry \/ entry' = [entry EXCEPT ![p].shell = shell]
      BY <1>6 DEF ShellError
    <3>2. [entry EXCEPT ![p].shell = shell] \in [Project -> Entry]
      BY <2>1, ShellEntry
    <3> QED BY <1>1, <3>1, <3>2 DEF RestTyped
  <2> QED BY <1>1, <1>6, <2>2, AbandonTyped DEF ShellError, RestTyped
<1>7. CASE UpdateGroups
  <2>1. sess.project \subseteq Project
    BY DEF Typed, TypeOK, Row
  <2>2. group' \subseteq Project /\ quiet' \in -1..QuietMax
    BY <1>1, <1>7, <2>1 DEF UpdateGroups, RestTyped, QuietMax
  <2> QED BY <1>1, <1>7, <2>2 DEF UpdateGroups, RestTyped, LdapPc
<1> QED BY <1>2, <1>3, <1>4, <1>5, <1>6, <1>7

LEMMA RoundTyped ==
    ASSUME RestTyped, NEW here \in MailPc, NEW next \in MailPc, NEW due \in SUBSET Project,
           NEW After(_), Round(here, next, due, After)
    PROVE  RestTyped'
<1>1. PICK ok \in SUBSET Project : opened' = ok \/ opened' = opened
  BY DEF Round, Accepted
<1>2. quiet' = quiet \/ quiet' = -1
  BY DEF Round
<1>3. pc \in Resting /\ pc' \in Resting
  BY DEF Round, Resting
<1> QED BY <1>1, <1>2, <1>3, QuietTyped, RestingTyped DEF Round, RestTyped

LEMMA OthersTyped ==
    ASSUME Typed,
           \/ FetchData \/ FetchError \/ SyncCache \/ EmailSend \/ ApiChange \/ StartCycle
           \/ CancelMails \/ Cancel \/ Die \/ Start
    PROVE  RestTyped'
<1>1. RestTyped /\ sess \in Row /\ db \in Row
  BY TypedParts DEF RowsTyped
<1>2. ApiChoices \subseteq ApiRecord /\ \A r \in ApiChoices : Distinct(r.projects)
  BY OrgAssumption
<1>3. CASE FetchData \/ FetchError \/ ApiChange \/ StartCycle \/ Start
  <2>1. db.projects_api \in Seq(Project)
    BY <1>1 DEF Row
  <2>2. pc \in Resting /\ pc' \in Resting
    BY <1>3 DEF FetchData, FetchError, ApiChange, StartCycle, Start, Resting
  <2>3. quiet' \in -1..QuietMax
    BY <1>1, <1>3, QuietTyped DEF FetchData, FetchError, ApiChange, StartCycle, Start,
       Disturbed, RestTyped
  <2>4. CASE FetchData \/ FetchError
    BY <1>1, <1>2, <2>1, <2>2, <2>3, <2>4, RestingTyped DEF FetchData, FetchError, RestTyped
  <2>5. CASE ApiChange \/ StartCycle \/ Start
    BY <1>1, <1>2, <2>2, <2>3, <2>5, RestingTyped DEF ApiChange, StartCycle, Start, RestTyped
  <2> QED BY <1>3, <2>4, <2>5
<1>4. CASE SyncCache
  <2>1. SyncedRow.projects_api \in Seq(Project)
    BY SyncedFields DEF Row
  <2> QED BY <1>1, <1>4, <2>1, NothingTyped DEF SyncCache, RestTyped, LdapPc
<1>5. CASE EmailActivate \/ EmailDeactivate \/ EmailAccount
  <2>1. /\ Due(sess.mail_project_is_activated) \in SUBSET Project
        /\ Due(sess.mail_project_is_deactivated) \in SUBSET Project
        /\ Due(sess.mail_project_is_opensend) \in SUBSET Project
    BY DEF Due
  <2>2. {"mailactivate", "maildeactivate", "mailaccount", "mailkey"} \subseteq MailPc
    BY DEF MailPc
  <2>3. CASE EmailActivate
    BY <1>1, <2>1, <2>2, <2>3, RoundTyped DEF EmailActivate
  <2>4. CASE EmailDeactivate
    BY <1>1, <2>1, <2>2, <2>4, RoundTyped DEF EmailDeactivate
  <2>5. CASE EmailAccount
    BY <1>1, <2>1, <2>2, <2>5, RoundTyped DEF EmailAccount
  <2> QED BY <1>5, <2>3, <2>4, <2>5
<1>6. CASE EmailKey \/ MailCommit
  <2>1. pc \in Resting /\ pc' \in Resting
    BY <1>6 DEF EmailKey, MailCommit, Resting, MailPc
  <2>2. quiet' \in -1..QuietMax
    BY <1>1, <1>6, QuietTyped DEF EmailKey, MailCommit, EndCycleQuiet, RestTyped
  <2> QED BY <1>1, <1>6, <2>1, <2>2, RestingTyped DEF EmailKey, MailCommit, RestTyped
<1>7. CASE CancelMails
  <2>1. pc \in Resting /\ pc' \in Resting
    BY <1>7 DEF CancelMails, Resting
  <2> QED BY <1>1, <1>7, <2>1, NothingTyped, QuietTyped, RestingTyped
          DEF CancelMails, Disturbed, RestTyped
<1>8. CASE Cancel \/ Die
  <2>1. /\ Abandon
        /\ api' = api /\ tree' = tree /\ entry' = entry /\ group' = group
    BY <1>8 DEF Cancel, Die
  <2> QED BY <1>1, <2>1, AbandonTyped DEF RestTyped
<1> QED BY <1>3, <1>4, <1>5, <1>6, <1>7, <1>8 DEF EmailSend

\* Type correctness of the pipeline with ldap.mode "project_organisation", with the
\* projects in work where the code has them: ldapupdate's loop (627-653) holds
\* a project exactly in its own stages, and only apisync changes the list.
THEOREM TypeCorrect == Spec => []Typed
<1>1. Init => Typed
  <2> SUFFICES ASSUME Init PROVE Typed
    OBVIOUS
  <2>1. BlankRow \in Row
    BY DEF BlankRow, Row, NoFlags, Flags
  <2>2. BlankRow.projects_api = << >>
    BY DEF BlankRow
  <2>3. NoEntry \in Entry
    BY DEF NoEntry, Entry
  <2>4. Distinct(<< >>)
    BY DEF Distinct
  <2>5. RowsTyped
    BY <2>1, <2>2, <2>4 DEF Init, RowsTyped
  <2>6. RestTyped
    BY <2>3, NothingTyped, QuietTyped DEF Init, RestTyped, WholeTree
  <2> QED BY <2>5, <2>6, TypedParts
<1>2. Typed /\ [Next]_vars => Typed'
  <2> SUFFICES ASSUME Typed, [Next]_vars PROVE Typed'
    OBVIOUS
  <2>1. CASE UNCHANGED vars
    BY <2>1 DEF vars, Typed, TypeOK
  <2>2. RowsTyped'
    BY RowsTypedStep
  <2>3. CASE Next
    <3>1. RestTyped'
      BY <2>3, ProjectTyped, LoopsTyped, OthersTyped DEF Next, DaemonStep, Environment,
         LdapUpdate, LdapUpdateFails
    <3> QED BY <2>2, <3>1 DEF Typed, TypeOK, RowsTyped, RestTyped
  <2> QED BY <2>1, <2>3
<1> QED BY <1>1, <1>2, PTL DEF Spec

-----------------------------------------------------------------------------
(* DeletedFlagsExist.  A property of one row that every operator keeps: what *)
(* is in projects_api has its three mail flags, and what was (de)activated   *)
(* has the flag of that mail.                                                *)

FlagsThere(row) ==
    /\ \A p \in SetOf(row.projects_api) :
          /\ row.mail_project_is_opensend[p] # "absent"
          /\ row.mail_project_is_sshkeyadded[p] # "absent"
          /\ row.mail_project_is_sshkeyremoved[p] # "absent"
    /\ \A p \in Project :
          /\ row.is_activated_project[p] = "done" =>
                 row.mail_project_is_activated[p] # "absent"
          /\ row.is_deactivated_project[p] = "done" =>
                 row.mail_project_is_deactivated[p] # "absent"

FlagsInv == FlagsThere(db) /\ FlagsThere(sess)

LEMMA FlagsThereSynced ==
    ASSUME Typed, FlagsThere(sess) PROVE FlagsThere(SyncedRow)
<1> DEFINE s == SyncedRow
           ps == SetOf(fetched.projects)
<1>1. /\ Listed => ListedChange(sess, s)
      /\ ~Listed =>
            /\ s.projects_api = sess.projects_api \/ s.projects_api = << >>
            /\ s.is_activated_project = sess.is_activated_project
            /\ s.is_deactivated_project = sess.is_deactivated_project
            /\ s.mail_project_is_activated = sess.mail_project_is_activated
            /\ s.mail_project_is_deactivated = sess.mail_project_is_deactivated
            /\ s.mail_project_is_opensend = sess.mail_project_is_opensend
            /\ s.mail_project_is_sshkeyadded = sess.mail_project_is_sshkeyadded
            /\ s.mail_project_is_sshkeyremoved = sess.mail_project_is_sshkeyremoved
  BY SyncedFields
<1> HIDE DEF s
<1>2. CASE Listed
  <2>1. \A p \in SetOf(s.projects_api) :
           /\ s.mail_project_is_opensend[p] # "absent"
           /\ s.mail_project_is_sshkeyadded[p] # "absent"
           /\ s.mail_project_is_sshkeyremoved[p] # "absent"
    BY <1>1, <1>2 DEF ListedChange
  <2>2. ASSUME NEW p \in Project
        PROVE  /\ s.is_activated_project[p] = "done" =>
                      s.mail_project_is_activated[p] # "absent"
               /\ s.is_deactivated_project[p] = "done" =>
                      s.mail_project_is_deactivated[p] # "absent"
    <3>1. CASE p \in OverAndDone(sess, ps)
      BY <1>1, <1>2, <3>1 DEF ListedChange
    <3>2. CASE p \notin OverAndDone(sess, ps)
      BY <1>1, <1>2, <3>2 DEF ListedChange, FlagsThere
    <3> QED BY <3>1, <3>2
  <2> QED BY <2>1, <2>2 DEF FlagsThere, s
<1>3. CASE ~Listed
  <2>1. SetOf(<< >>) = {}
    BY DEF SetOf
  <2> QED BY <1>1, <1>3, <2>1 DEF FlagsThere, s
<1> QED BY <1>2, <1>3

LEMMA FlagsThereChanged ==
    ASSUME Typed, NEW s, RowChange(s), FlagsThere(sess) PROVE FlagsThere(s)
<1>1. FlagsKept(s)
  BY ChangedRow
<1>2. SetOf(sess.projects_api) \subseteq Project
  BY SessionRow
<1> QED BY <1>1, <1>2 DEF FlagsKept, FlagsThere

LEMMA FlagsInvHolds == Spec => []FlagsInv
<1>1. Init => FlagsInv
  <2>1. SetOf(<< >>) = {}
    BY DEF SetOf
  <2> QED BY <2>1 DEF Init, FlagsInv, FlagsThere, BlankRow, NoFlags
<1>2. Typed /\ FlagsInv /\ [Next]_vars => FlagsInv'
  <2> SUFFICES ASSUME Typed, FlagsInv, [Next]_vars PROVE FlagsInv'
    OBVIOUS
  <2>1. CASE pc = "sync api" /\ Commit(SyncedRow)
    BY <2>1, FlagsThereSynced DEF Commit, FlagsInv
  <2>2. CASE /\ Abandon \/ RowChange(sess')
             /\ db' = db \/ db' = sess \/ db' = sess'
    BY <2>2, FlagsThereChanged DEF FlagsInv, Abandon
  <2> QED BY <2>1, <2>2, StepRows DEF RowsChange
<1> QED BY <1>1, <1>2, TypeCorrect, PTL DEF Spec

\* apisync deletes flags of a project without looking for them (172-174, 245-248),
\* and a KeyError would end the daemon: they are there in every session,
\* whatever failed, stopped or crashed before.
THEOREM FlagsAreThere == Spec => []DeletedFlagsExist
<1>1. Typed /\ FlagsInv => DeletedFlagsExist
  <2> SUFFICES ASSUME Typed, FlagsInv PROVE DeletedFlagsExist
    OBVIOUS
  <2>1. SetOf(sess.projects_api) \subseteq Project
    BY SessionRow
  <2> QED BY <2>1 DEF DeletedFlagsExist, FlagsInv, FlagsThere, Held, OverAndDone
<1> QED BY <1>1, TypeCorrect, FlagsInvHolds, PTL

-----------------------------------------------------------------------------
(* What a step does to an entry: nothing, or it is added, or its keys or its *)
(* shell are changed.                                                        *)

Shell == IF pc = "activate" THEN "bash" ELSE "nologin"

EntryChange(p) ==
    \/ entry'[p] = entry[p]
    \/ /\ pc = "entry" /\ p = cur /\ ~entry[p].exists
       /\ entry'[p].exists /\ entry'[p].shell = "bash"
    \/ /\ pc = "keys" /\ p = cur
       /\ entry'[p].exists = entry[p].exists /\ entry'[p].shell = entry[p].shell
    \/ /\ p \in ShellTargets /\ entry[p].exists
       /\ entry'[p].exists /\ entry'[p].shell = Shell

LEMMA RefusedEntry ==
    ASSUME Typed, NEW e, Refused(e), cur \in Project
    PROVE  /\ entry'[cur] = entry[cur] \/ entry'[cur] = e
           /\ \A q \in Project \ {cur} : entry'[q] = entry[q]
<1>1. entry \in [Project -> Entry]
  BY DEF Typed, TypeOK
<1>2. entry' = entry \/ entry' = [entry EXCEPT ![cur] = e]
  BY DEF Refused
<1> QED BY <1>1, <1>2

LEMMA EntriesChange ==
    ASSUME Typed, [Next]_vars PROVE \A p \in Project : EntryChange(p)
<1>1. CASE entry' = entry
  BY <1>1 DEF EntryChange
<1>2. ASSUME OpenUser \/ OpenUserError \/ SyncUserError \/ UpdateKeys \/ UpdateKeysError
      PROVE  cur \in Project /\ entry \in [Project -> Entry] /\ entry[cur] \in Entry
  BY <1>2 DEF OpenUser, OpenUserError, SyncUserError, UpdateKeys, UpdateKeysError, Typed,
     TypeOK
<1>3. NewEntry.exists /\ NewEntry.shell = "bash"
  BY DEF NewEntry
<1>4. CASE OpenUser
  <2>1. entry' = entry \/ (~entry[cur].exists /\ entry' = [entry EXCEPT ![cur] = NewEntry])
    BY <1>4 DEF OpenUser
  <2> QED BY <1>2, <1>3, <1>4, <2>1 DEF OpenUser, EntryChange
<1>5. CASE OpenUserError
  <2>1. \/ entry' = entry
        \/ Refused(IF entry[cur].exists THEN entry[cur] ELSE NewEntry)
    BY <1>5 DEF OpenUserError
  <2> QED BY <1>1, <1>2, <1>3, <1>5, <2>1, RefusedEntry DEF OpenUserError, EntryChange
<1>6. CASE SyncUserError
  BY <1>2, <1>6, RefusedEntry DEF SyncUserError, LdapError, EntryChange
<1>7. CASE UpdateKeys \/ UpdateKeysError
  <2> DEFINE e == [entry[cur] EXCEPT !.keys = RelationKeys]
  <2>1. e.exists = entry[cur].exists /\ e.shell = entry[cur].shell
    BY <1>2, <1>7 DEF Entry
  <2>2. \/ entry' = entry
        \/ Refused(e)
        \/ entry' = [entry EXCEPT ![cur] = e]
    BY <1>7 DEF UpdateKeys, UpdateKeysError, LdapError
  <2>3. pc = "keys"
    BY <1>7 DEF UpdateKeys, UpdateKeysError
  <2> HIDE DEF e
  <2> QED BY <1>1, <1>2, <1>7, <2>1, <2>2, <2>3, RefusedEntry DEF EntryChange
<1>8. ASSUME NEW p \in Project, DeactivateProject(p) PROVE \A q \in Project : EntryChange(q)
  <2>1. p \in ShellTargets /\ Shell = "nologin"
    BY <1>8 DEF DeactivateProject, ShellTargets, Shell
  <2> QED BY <1>8, <2>1, ShellSet DEF DeactivateProject, EntryChange
<1>9. ASSUME NEW p \in Project, ActivateProject(p) PROVE \A q \in Project : EntryChange(q)
  <2>1. p \in ShellTargets /\ Shell = "bash"
    BY <1>9 DEF ActivateProject, ShellTargets, Shell
  <2> QED BY <1>9, <2>1, ShellSet DEF ActivateProject, EntryChange
<1>10. CASE InactiveProject
  <2>1. Head(todo) \in Project
    BY <1>10, HeadTailProperties DEF InactiveProject, Typed, TypeOK
  <2>2. Head(todo) \in ShellTargets /\ Shell = "nologin"
    BY <1>10 DEF InactiveProject, ShellTargets, Shell
  <2> QED BY <1>10, <2>1, <2>2, ShellSet DEF InactiveProject, EntryChange
<1>11. CASE ShellError
  <2>1. CASE entry' = entry
    BY <1>1, <2>1
  <2>2. CASE entry' # entry
    <3>1. PICK p \in ShellTargets, shell \in {"bash", "nologin"} :
             /\ entry[p].exists /\ (shell = "bash" <=> pc = "activate")
             /\ entry' = [entry EXCEPT ![p].shell = shell]
      BY <1>11, <2>2 DEF ShellError
    <3>2. p \in Project /\ shell = Shell
      <4>1. pc = "inactive" /\ todo # << >> => Head(todo) \in Project
        BY HeadTailProperties DEF Typed, TypeOK
      <4> QED BY <3>1, <4>1 DEF ShellTargets, Due, Shell
    <3>3. SetShell(p, shell)
      BY <3>1 DEF SetShell
    <3> QED BY <3>1, <3>2, <3>3, ShellSet DEF EntryChange
  <2> QED BY <2>1, <2>2
<1>12. CASE \/ FetchData \/ SyncCache \/ EmailSend \/ StartCycle \/ ApiChange \/ FetchError
            \/ CancelMails \/ Cancel \/ Die \/ Start
  <2>1. entry' = entry
    BY <1>12 DEF FetchData, SyncCache, EmailSend, EmailActivate, EmailDeactivate, EmailAccount,
       Round, EmailKey, MailCommit, StartCycle, ApiChange, FetchError, CancelMails, Cancel, Die,
       Start
  <2> QED BY <1>1, <2>1
<1>13. CASE \/ StartProject \/ NewOrganisationProject \/ NewOrganisationProjectError
            \/ SyncUser \/ EndProjects \/ EndDeactivate \/ EndActivate \/ EndInactive
            \/ UpdateGroups \/ LdapCommit \/ UNCHANGED vars
  <2>1. entry' = entry
    BY <1>13 DEF StartProject, NewOrganisationProject, NewOrganisationProjectError, SyncUser,
       EndProjects, EndDeactivate, EndActivate, EndInactive, UpdateGroups, LdapCommit, vars
  <2> QED BY <1>1, <2>1
<1> QED BY <1>4, <1>5, <1>6, <1>7, <1>8, <1>9, <1>10, <1>11, <1>12, <1>13
        DEF Next, DaemonStep, Environment, LdapUpdate, LdapUpdateFails

-----------------------------------------------------------------------------
(* DeactivatedIsLocked.  The same must hold of the session, which the next   *)
(* commit writes; and an activation that is in LDAP before its commit was    *)
(* asked for by a commit of apisync.                                         *)

LockedOut(row) == {p \in Project : /\ row.is_deactivated_project[p] = "done"
                                   /\ row.is_activated_project[p] = "absent"}

LockInv ==
    /\ \A p \in LockedOut(db) \cup LockedOut(sess) : entry[p].shell = "nologin"
    /\ \A p \in Project : db.is_activated_project[p] = "absent" <=>
                              sess.is_activated_project[p] = "absent"
    /\ \A p \in Project : entry[p].shell = "nologin" => entry[p].exists

LEMMA LockedSynced ==
    ASSUME Typed PROVE LockedOut(SyncedRow) \subseteq LockedOut(sess)
<1> DEFINE s == SyncedRow
           ps == SetOf(fetched.projects)
<1>1. /\ Listed => ListedChange(sess, s)
      /\ ~Listed => /\ s.is_activated_project = sess.is_activated_project
                    /\ s.is_deactivated_project = sess.is_deactivated_project
  BY SyncedFields
<1> HIDE DEF s
<1>2. CASE Listed
  <2>1. SUFFICES ASSUME NEW p \in Project, p \in LockedOut(s) PROVE p \in LockedOut(sess)
    BY DEF LockedOut, s
  <2>2. p \notin OverAndDone(sess, ps)
    BY <1>1, <1>2, <2>1 DEF ListedChange, LockedOut
  <2> QED BY <1>1, <1>2, <2>1, <2>2 DEF ListedChange, LockedOut
<1>3. CASE ~Listed
  BY <1>1, <1>3 DEF LockedOut, s
<1> QED BY <1>2, <1>3

LEMMA LockInvHolds == Spec => []LockInv
<1>1. Init => LockInv
  BY DEF Init, LockInv, LockedOut, BlankRow, NoFlags, NoEntry
<1>2. Typed /\ LockInv /\ [Next]_vars => LockInv'
  <2> SUFFICES ASSUME Typed, LockInv, [Next]_vars PROVE LockInv'
    OBVIOUS
  <2>1. \A p \in Project : EntryChange(p)
    BY EntriesChange
  <2>2. \A p \in Project : entry'[p].shell = "nologin" => entry'[p].exists
    BY <2>1 DEF EntryChange, LockInv
  \* Only an activation that is due gives a shell back.
  <2>3. ASSUME NEW p \in Project, entry[p].shell = "nologin", entry'[p].shell # "nologin"
        PROVE  sess.is_activated_project[p] = "due"
    <3>1. entry[p].exists
      BY <2>3 DEF LockInv
    <3>2. p \in ShellTargets /\ Shell = "bash"
      BY <2>1, <2>3, <3>1 DEF EntryChange, Shell
    <3> QED BY <3>2 DEF ShellTargets, Shell, Due
  <2>4. \A p \in LockedOut(db) \cup LockedOut(sess) : entry'[p].shell = "nologin"
    BY <2>3 DEF LockedOut, LockInv
  <2>5. CASE pc = "sync api" /\ Commit(SyncedRow)
    BY <2>2, <2>4, <2>5, LockedSynced DEF Commit, LockInv
  <2>6. CASE /\ Abandon \/ RowChange(sess')
             /\ db' = db \/ db' = sess \/ db' = sess'
    <3>1. /\ \A p \in Project : sess'.is_activated_project[p] = "absent" <=>
                                  sess.is_activated_project[p] = "absent"
          /\ \A p \in LockedOut(sess') : entry'[p].shell = "nologin"
      <4>1. CASE Abandon
        BY <2>4, <4>1 DEF LockInv, Abandon
      <4>2. CASE RowChange(sess')
        <5>1. FlagsKept(sess')
          BY <4>2, ChangedRow
        <5> QED BY <2>4, <5>1 DEF FlagsKept, LockedOut
      <4> QED BY <2>6, <4>1, <4>2
    <3> QED BY <2>2, <2>4, <2>6, <3>1 DEF LockInv
  <2> QED BY <2>5, <2>6, StepRows DEF RowsChange
<1> QED BY <1>1, <1>2, TypeCorrect, PTL DEF Spec

\* A committed deactivation that no activation followed is in force in LDAP,
\* whatever LDAP refused and wherever the daemon stopped: ldapupdate changes the
\* shell before the flag (239-245) and commits both at once.
THEOREM DeactivationInForce == Spec => []DeactivatedIsLocked
<1>1. LockInv => DeactivatedIsLocked
  BY DEF LockInv, LockedOut, DeactivatedIsLocked
<1> QED BY <1>1, LockInvHolds, PTL

-----------------------------------------------------------------------------
(* AllNoticesSent.  A round that lost no mail leaves none due, and no later  *)
(* round of the cycle makes one due.                                         *)

MailedInv ==
    /\ quiet >= 0 /\ pc \in MailPc \ {"mailactivate"} =>
           Due(sess.mail_project_is_activated) = {}
    /\ quiet >= 0 /\ pc \in MailPc \ {"mailactivate", "maildeactivate"} =>
           Due(sess.mail_project_is_deactivated) = {}
    /\ quiet >= 0 /\ pc \in {"mailkey", "mailcommit"} =>
           Due(sess.mail_project_is_opensend) = {}
    /\ Settled(1) => /\ Due(db.mail_project_is_opensend) = {}
                     /\ Due(db.mail_project_is_activated) = {}
                     /\ Due(db.mail_project_is_deactivated) = {}

LEMMA AllSettled ==
    ASSUME NEW flags \in Flags PROVE Due(Put(flags, Due(flags), "done")) = {}
BY DEF Due, Put, Flags

LEMMA MailedInvHolds == Spec => []MailedInv
<1>1. Init => MailedInv
  BY DEF Init, MailedInv, Settled, MailPc
<1>2. Typed /\ MailedInv /\ [Next]_vars => MailedInv'
  <2> SUFFICES ASSUME Typed, MailedInv, [Next]_vars PROVE MailedInv'
    OBVIOUS
  <2>1. /\ sess \in Row /\ sess.mail_project_is_activated \in Flags
        /\ sess.mail_project_is_deactivated \in Flags
        /\ sess.mail_project_is_opensend \in Flags
    BY SessionRow DEF Row
  <2>2. CASE EmailActivate
    <3>1. SUFFICES ASSUME quiet' >= 0 PROVE Due(sess'.mail_project_is_activated) = {}
      BY <2>2 DEF EmailActivate, Round, MailedInv, MailPc, Settled
    <3>2. sess' = AfterActivate(Due(sess.mail_project_is_activated))
      <4>1. PICK ok \in Accepted(Due(sess.mail_project_is_activated)) :
               /\ sess' = AfterActivate(ok)
               /\ quiet' = IF ok = Due(sess.mail_project_is_activated) THEN quiet ELSE -1
        BY <2>2 DEF EmailActivate, Round
      <4>2. ok = Due(sess.mail_project_is_activated)
        BY <3>1, <4>1
      <4> QED BY <2>2, <3>1, <4>1, <4>2 DEF EmailActivate, Round
    <3>3. sess'.mail_project_is_activated =
             Put(sess.mail_project_is_activated, Due(sess.mail_project_is_activated), "done")
      BY <2>1, <3>2 DEF AfterActivate, Row
    <3> QED BY <2>1, <3>3, AllSettled
  <2>3. CASE EmailDeactivate
    <3>1. SUFFICES ASSUME quiet' >= 0
                   PROVE  /\ Due(sess'.mail_project_is_activated) = {}
                          /\ Due(sess'.mail_project_is_deactivated) = {}
      BY <2>3 DEF EmailDeactivate, Round, MailedInv, MailPc, Settled
    <3>2. /\ sess' = AfterDeactivate(Due(sess.mail_project_is_deactivated))
          /\ quiet >= 0 /\ pc = "maildeactivate"
      <4>1. PICK ok \in Accepted(Due(sess.mail_project_is_deactivated)) :
               /\ sess' = AfterDeactivate(ok)
               /\ quiet' = IF ok = Due(sess.mail_project_is_deactivated) THEN quiet ELSE -1
        BY <2>3 DEF EmailDeactivate, Round
      <4>2. ok = Due(sess.mail_project_is_deactivated)
        BY <3>1, <4>1
      <4> QED BY <2>3, <3>1, <4>1, <4>2 DEF EmailDeactivate, Round
    <3>3. /\ sess'.mail_project_is_deactivated =
                 Put(sess.mail_project_is_deactivated,
                     Due(sess.mail_project_is_deactivated), "done")
          /\ sess'.mail_project_is_activated = sess.mail_project_is_activated
      BY <2>1, <3>2 DEF AfterDeactivate, Row
    <3> QED BY <2>1, <3>2, <3>3, AllSettled DEF MailedInv, MailPc
  <2>4. CASE EmailAccount
    <3>1. SUFFICES ASSUME quiet' >= 0
                   PROVE  /\ Due(sess'.mail_project_is_activated) = {}
                          /\ Due(sess'.mail_project_is_deactivated) = {}
                          /\ Due(sess'.mail_project_is_opensend) = {}
      BY <2>4 DEF EmailAccount, Round, MailedInv, MailPc, Settled
    <3>2. /\ sess' = AfterAccount(Due(sess.mail_project_is_opensend))
          /\ quiet >= 0 /\ pc = "mailaccount"
      <4>1. PICK ok \in Accepted(Due(sess.mail_project_is_opensend)) :
               /\ sess' = AfterAccount(ok)
               /\ quiet' = IF ok = Due(sess.mail_project_is_opensend) THEN quiet ELSE -1
        BY <2>4 DEF EmailAccount, Round
      <4>2. ok = Due(sess.mail_project_is_opensend)
        BY <3>1, <4>1
      <4> QED BY <2>4, <3>1, <4>1, <4>2 DEF EmailAccount, Round
    <3>3. /\ sess'.mail_project_is_opensend =
                 Put(sess.mail_project_is_opensend, Due(sess.mail_project_is_opensend), "done")
          /\ sess'.mail_project_is_activated = sess.mail_project_is_activated
          /\ sess'.mail_project_is_deactivated = sess.mail_project_is_deactivated
      BY <2>1, <3>2 DEF AfterAccount, Row
    <3> QED BY <2>1, <3>2, <3>3, AllSettled DEF MailedInv, MailPc
  <2>5. CASE EmailKey
    <3>1. PICK added \in SUBSET Project, removed \in SUBSET Project :
             /\ sess' = AfterKeyMails(AfterOpened, added, removed)
             /\ quiet' = quiet \/ quiet' = -1
             /\ pc = "mailkey" /\ pc' = "mailcommit"
      BY <2>5 DEF EmailKey, KeyMails, Accepted, Due
    <3>2. KeysMailed(sess')
      BY <2>1, <3>1, KeyMailRows
    <3> QED BY <3>1, <3>2 DEF KeysMailed, MailedInv, MailPc, Settled
  <2>6. CASE MailCommit
    <3>1. /\ db' = sess /\ sess' = sess /\ pc = "mailcommit" /\ pc' = "sleep"
          /\ quiet' >= 1 => quiet >= 0
      BY <2>6 DEF MailCommit, Commit, EndCycleQuiet, Typed, TypeOK, QuietMax
    <3> QED BY <3>1 DEF MailedInv, MailPc, Settled
  <2>7. CASE UNCHANGED vars
    BY <2>7 DEF vars, MailedInv, Settled
  <2>8. CASE ~EmailSend /\ Next
    <3>1. pc' \notin MailPc \ {"mailactivate"} /\ (pc' = "sleep" => quiet' < 1)
      <4>1. CASE \/ ApiChange \/ StartCycle \/ FetchData \/ FetchError \/ Start \/ SyncCache
                 \/ CancelMails \/ Cancel \/ Die
        <5>1. CASE ApiChange
          BY <5>1 DEF ApiChange, MailPc
        <5>2. CASE Start
          BY <5>2 DEF Start, MailPc
        <5>3. CASE StartCycle \/ FetchData \/ FetchError \/ SyncCache
          BY <5>3 DEF StartCycle, FetchData, FetchError, SyncCache, MailPc
        <5>4. CASE CancelMails \/ Cancel \/ Die
          BY <5>4 DEF CancelMails, Cancel, Die, Abandon, MailPc
        <5> QED BY <4>1, <5>1, <5>2, <5>3, <5>4
      <4>2. CASE \/ StartProject \/ NewOrganisationProject \/ OpenUser \/ SyncUser
                 \/ UpdateKeys \/ LdapUpdateFails
        BY <4>2 DEF StartProject, NewOrganisationProject, OpenUser, SyncUser, UpdateKeys,
           LdapUpdateFails, NewOrganisationProjectError, OpenUserError, SyncUserError,
           UpdateKeysError, ShellError, LdapError, NextProject, Abandon, MailPc
      <4>3. CASE \/ EndProjects \/ EndDeactivate \/ EndActivate \/ EndInactive
                 \/ InactiveProject \/ UpdateGroups \/ LdapCommit
                 \/ \E p \in Project : DeactivateProject(p) \/ ActivateProject(p)
        BY <4>3 DEF EndProjects, EndDeactivate, EndActivate, EndInactive, InactiveProject,
           UpdateGroups, LdapCommit, DeactivateProject, ActivateProject, MailPc
      <4> QED BY <2>8, <4>1, <4>2, <4>3 DEF Next, DaemonStep, Environment, LdapUpdate
    <3>2. pc' \in MailPc => pc' = "mailactivate"
      BY <3>1 DEF MailPc
    <3>3. quiet' \in -1..QuietMax
      <4>1. RestTyped'
        BY <2>8, ProjectTyped, LoopsTyped, OthersTyped DEF Next, DaemonStep, Environment,
           LdapUpdate, LdapUpdateFails
      <4> QED BY <4>1 DEF RestTyped
    <3>4. ~(pc' = "sleep" /\ quiet' >= 1)
      BY <3>1, <3>3 DEF QuietMax
    <3> QED BY <3>1, <3>4 DEF MailedInv, MailPc, Settled
  <2> QED BY <2>2, <2>3, <2>4, <2>5, <2>6, <2>7, <2>8 DEF EmailSend
<1> QED BY <1>1, <1>2, TypeCorrect, PTL DEF Spec

\* The mails about the account in a project are all out after a cycle that nothing
\* disturbed; the rounds that fail in part leave their flags due (emailsend 27-39,
\* 99-123) for the next one.
THEOREM NoticesAllSent == Spec => []AllNoticesSent
<1>1. Typed /\ MailedInv => AllNoticesSent
  BY DEF Typed, TypeOK, QuietMax, MailedInv, AllNoticesSent, Settled
<1> QED BY <1>1, TypeCorrect, MailedInvHolds, PTL

-----------------------------------------------------------------------------
(* The cache follows the API: what apisync was answered, if nothing changed  *)
(* since, is in projects_api until the next cycle, and the groups are the    *)
(* relation's.                                                               *)

Following == quiet >= 0 /\ (pc = "sleep" => quiet >= 1)

FollowInv ==
    /\ quiet >= 0 /\ pc = "sync api" => fetched = api
    /\ Following /\ pc \notin {"fetch", "sync api", "down"} /\ ApiListed =>
           SetOf(sess.projects_api) = SetOf(api.projects)
    /\ Following /\ pc \in {"commit", "sleep"} \cup MailPc => group = sess.project

\* Within ldapupdate and emailsend the list and the API's answer stay.
LEMMA StillFollowing ==
    ASSUME Typed, FollowInv, RowChange(sess'), api' = api, pc \in LdapPc \cup MailPc,
           pc' \in LdapPc \cup MailPc, quiet' = quiet \/ quiet' = -1,
           pc' \in {"commit"} \cup MailPc /\ quiet' >= 0 => group' = sess'.project
    PROVE  FollowInv'
<1>1. sess'.projects_api = sess.projects_api
  BY ChangedRow DEF FlagsKept
<1>2. ApiListed' <=> ApiListed
  BY DEF ApiListed
<1>3. /\ pc \notin {"fetch", "sync api", "down", "sleep"}
      /\ pc' \notin {"fetch", "sync api", "down", "sleep"}
  BY DEF LdapPc, MailPc
<1>4. Following' => Following
  <2>1. quiet' >= 0 => quiet >= 0
    OBVIOUS
  <2> QED BY <1>3, <2>1 DEF Following
<1> QED BY <1>1, <1>2, <1>3, <1>4 DEF FollowInv, Following

LEMMA LoopsFollowing ==
    ASSUME Typed, FollowInv,
           \/ StartProject \/ NewOrganisationProject \/ OpenUser \/ OpenUserError \/ SyncUser
           \/ UpdateKeys \/ EndProjects \/ EndDeactivate \/ EndActivate \/ EndInactive
           \/ InactiveProject \/ \E p \in Project : DeactivateProject(p) \/ ActivateProject(p)
    PROVE  FollowInv'
<1>1. ~Abandon /\ pc # "sync api" /\ pc \in LdapPc /\ pc' \in LdapPc \ {"commit"}
      /\ api' = api /\ (quiet' = quiet \/ quiet' = -1)
  <2>1. CASE \/ StartProject \/ NewOrganisationProject \/ OpenUser \/ OpenUserError \/ SyncUser
             \/ UpdateKeys
    BY <2>1 DEF StartProject, NewOrganisationProject, OpenUser, OpenUserError, SyncUser,
       UpdateKeys, NextProject, Disturbed, Abandon, LdapPc
  <2>2. CASE \/ EndProjects \/ EndDeactivate \/ EndActivate \/ EndInactive
             \/ InactiveProject \/ \E p \in Project : DeactivateProject(p) \/ ActivateProject(p)
    BY <2>2 DEF EndProjects, EndDeactivate, EndActivate, EndInactive, InactiveProject,
       DeactivateProject, ActivateProject, Abandon, LdapPc
  <2> QED BY <2>1, <2>2
<1>2. RowChange(sess')
  <2>1. Next
    BY DEF Next, DaemonStep, Environment, LdapUpdate, LdapUpdateFails
  <2> QED BY <1>1, <2>1, StepRows DEF RowsChange
<1>3. pc' \notin {"commit"} \cup MailPc
  BY <1>1 DEF LdapPc, MailPc
<1> QED BY <1>1, <1>2, <1>3, StillFollowing

LEMMA EmailFollowing ==
    ASSUME Typed, FollowInv,
           EmailActivate \/ EmailDeactivate \/ EmailAccount \/ EmailKey
    PROVE  FollowInv'
<1>1. /\ pc \in MailPc /\ pc' \in MailPc /\ api' = api /\ group' = group
      /\ quiet' = quiet \/ quiet' = -1
  BY DEF EmailActivate, EmailDeactivate, EmailAccount, EmailKey, Round, MailPc
<1>2. sess'.project = sess.project
  <2>1. CASE EmailActivate \/ EmailDeactivate \/ EmailAccount
    BY <2>1, SessionRow DEF EmailActivate, EmailDeactivate, EmailAccount, Round, AfterActivate,
       AfterDeactivate, AfterAccount, Row
  <2>2. CASE EmailKey
    <3>1. PICK added \in SUBSET Project, removed \in SUBSET Project :
             sess' = AfterKeyMails(AfterOpened, added, removed)
      BY <2>2 DEF EmailKey, KeyMails, Accepted, Due
    <3> QED BY <3>1, SessionRow, KeyMailRows DEF KeysMailed
  <2> QED BY <2>1, <2>2
<1>3. RowChange(sess')
  <2>1. Next /\ pc # "sync api" /\ ~Abandon
    BY <1>1 DEF Next, DaemonStep, EmailSend, Abandon, MailPc
  <2> QED BY <2>1, StepRows DEF RowsChange
<1>4. quiet' >= 0 => Following
  BY <1>1 DEF Following, MailPc
<1> QED BY <1>1, <1>2, <1>3, <1>4, StillFollowing DEF FollowInv

LEMMA FollowInvHolds == Spec => []FollowInv
<1>1. Init => FollowInv
  BY DEF Init, FollowInv, Following, LdapPc, MailPc
<1>2. Typed /\ FollowInv /\ [Next]_vars => FollowInv'
  <2> SUFFICES ASSUME Typed, FollowInv, [Next]_vars PROVE FollowInv'
    OBVIOUS
  <2>1. CASE UNCHANGED vars
    BY <2>1 DEF vars, FollowInv, Following, ApiListed
  <2>2. CASE StartCycle \/ FetchData
    BY <2>2 DEF StartCycle, FetchData, FollowInv, Following, MailPc
  <2>11. CASE FetchError \/ ApiChange \/ Start
    <3>1. ~(quiet' >= 0) \/ (pc' = "sleep" /\ ~(quiet' >= 1))
      BY <2>11 DEF FetchError, ApiChange, Start, Disturbed
    <3> QED BY <3>1 DEF FollowInv, Following, MailPc
  <2>3. CASE SyncCache
    <3>1. quiet >= 0 /\ ApiListed => Listed
      BY <2>3 DEF SyncCache, FollowInv, ApiListed, Listed
    <3>2. quiet >= 0 /\ ApiListed => SetOf(sess'.projects_api) = SetOf(api.projects)
      BY <2>3, <3>1, SyncedFields DEF SyncCache, Commit, FollowInv, ListedChange
    <3>3. pc' = "project" /\ api' = api /\ quiet' = quiet
      BY <2>3 DEF SyncCache
    <3> QED BY <3>2, <3>3 DEF FollowInv, Following, ApiListed, MailPc
  <2>4. CASE UpdateGroups
    <3>1. quiet' >= 0 => group' = sess.project
      <4>1. PICK failed \in SUBSET Project :
               /\ group' = (group \cap failed) \cup (sess.project \ failed)
               /\ quiet' = IF \E p \in failed : (p \in group) # (p \in sess.project)
                           THEN -1 ELSE quiet
        BY <2>4 DEF UpdateGroups
      <4>2. quiet' >= 0 => \A p \in failed : p \in group <=> p \in sess.project
        BY <4>1
      <4> QED BY <4>1, <4>2
    <3>2. /\ api' = api /\ sess' = sess /\ pc = "groups" /\ pc' = "commit"
          /\ quiet' = quiet \/ quiet' = -1
      BY <2>4 DEF UpdateGroups
    <3> QED BY <3>1, <3>2, StillFollowing DEF RowChange, LdapPc
  <2>5. CASE LdapCommit
    BY <2>5 DEF LdapCommit, Commit, FollowInv, Following, ApiListed, MailPc
  <2>6. CASE MailCommit
    <3>1. /\ api' = api /\ sess' = sess /\ group' = group /\ pc = "mailcommit" /\ pc' = "sleep"
          /\ quiet' >= 1 => quiet >= 0
      BY <2>6 DEF MailCommit, Commit, EndCycleQuiet, Typed, TypeOK, QuietMax
    <3> QED BY <3>1 DEF FollowInv, Following, ApiListed, MailPc
  <2>7. CASE EmailActivate \/ EmailDeactivate \/ EmailAccount \/ EmailKey
    BY <2>7, EmailFollowing
  <2>8. CASE CancelMails \/ Cancel \/ Die \/ NewOrganisationProjectError \/ ShellError
    <3>1. ~(quiet' >= 0)
      BY <2>8 DEF CancelMails, Cancel, Die, NewOrganisationProjectError, ShellError, Abandon,
         Disturbed
    <3> QED BY <3>1 DEF FollowInv, Following
  <2>9. CASE SyncUserError \/ UpdateKeysError
    <3>1. ~(quiet' >= 0)
      BY <2>9 DEF SyncUserError, UpdateKeysError, LdapError, Abandon, Disturbed
    <3> QED BY <3>1 DEF FollowInv, Following
  <2>10. CASE \/ StartProject \/ NewOrganisationProject \/ OpenUser \/ OpenUserError
              \/ SyncUser \/ UpdateKeys \/ EndProjects \/ EndDeactivate \/ EndActivate
              \/ EndInactive \/ InactiveProject
              \/ \E p \in Project : DeactivateProject(p) \/ ActivateProject(p)
    BY <2>10, LoopsFollowing
  <2> QED BY <2>1, <2>2, <2>3, <2>4, <2>5, <2>6, <2>7, <2>8, <2>9, <2>10,
          <2>11 DEF Next, DaemonStep, Environment, LdapUpdate, LdapUpdateFails, EmailSend
<1> QED BY <1>1, <1>2, TypeCorrect, PTL DEF Spec

-----------------------------------------------------------------------------
(* Whatever fails: in a cycle that nothing disturbed, every project of the   *)
(* list has the user's entry or ldapupdate is on its way to it; and nobody   *)
(* is in a group whose subtree is not whole.                                 *)

InProjects == {"project", "grow", "entry", "sync", "keys"}
Present == {p \in Project : entry[p].exists}
Waiting == IF pc \in InProjects THEN SetOf(todo) \cup (Project \cap {cur}) ELSE {}

\* The relation is the list as soon as one project went through its stages.
RelationInv ==
    \/ sess.projects_api = << >>
    \/ sess.project = SetOf(sess.projects_api)
    \/ pc \in {"grow", "entry", "sync"}
    \/ pc = "project" /\ todo # << >>

WayInv ==
    Following /\ pc \notin {"fetch", "sync api", "down"} =>
        /\ SetOf(sess.projects_api) \subseteq Present \cup Waiting
        /\ pc \in {"sync", "keys"} => cur \in Present
        /\ RelationInv

WholeInv == \A p \in group : tree[p] = WholeTree

LEMMA PresentStays ==
    ASSUME Typed, [Next]_vars PROVE Present \subseteq Present'
<1>1. \A p \in Project : EntryChange(p)
  BY EntriesChange
<1> QED BY <1>1 DEF EntryChange, Present

\* The lists of projects that wait.
LEMMA ListMembers ==
    ASSUME Typed, todo # << >>
    PROVE  /\ Head(todo) \in Project
           /\ SetOf(todo) = {Head(todo)} \cup SetOf(Tail(todo))
<1>1. todo \in Seq(Project)
  BY DEF Typed, TypeOK
<1>2. /\ Head(todo) \in Project /\ Head(todo) = todo[1]
      /\ Len(todo) \in Nat \ {0} /\ DOMAIN todo = 1..Len(todo)
      /\ Tail(todo) \in Seq(Project) /\ Len(Tail(todo)) = Len(todo) - 1
      /\ DOMAIN Tail(todo) = 1..(Len(todo) - 1)
      /\ \A i \in 1..(Len(todo) - 1) : Tail(todo)[i] = todo[i + 1]
  BY <1>1, HeadTailProperties, LenProperties, EmptySeq
<1>3. \A i \in 1..Len(todo) : i = 1 \/ (i - 1 \in 1..(Len(todo) - 1) /\ todo[i] = Tail(todo)[i - 1])
  BY <1>2
<1>4. \A i \in 1..(Len(todo) - 1) : i + 1 \in 1..Len(todo)
  BY <1>2
<1>5. SetOf(todo) \subseteq {Head(todo)} \cup SetOf(Tail(todo))
  <2>1. SUFFICES ASSUME NEW i \in 1..Len(todo)
                 PROVE  todo[i] \in {Head(todo)} \cup SetOf(Tail(todo))
    BY <1>2 DEF SetOf
  <2>2. CASE i = 1
    BY <1>2, <2>2
  <2>3. CASE i - 1 \in 1..(Len(todo) - 1) /\ todo[i] = Tail(todo)[i - 1]
    BY <1>2, <2>3 DEF SetOf
  <2> QED BY <1>3, <2>2, <2>3
<1>6. {Head(todo)} \cup SetOf(Tail(todo)) \subseteq SetOf(todo)
  <2>1. 1 \in 1..Len(todo)
    BY <1>2
  <2> QED BY <1>2, <1>4, <2>1 DEF SetOf
<1> QED BY <1>2, <1>5, <1>6

\* Only SyncUser touches the relation.
LEMMA RelationKept ==
    ASSUME Typed,
           \/ UpdateKeys \/ InactiveProject \/ EmailSend
           \/ \E p \in Project : DeactivateProject(p) \/ ActivateProject(p)
    PROVE  sess'.project = sess.project
<1>1. sess \in Row
  BY SessionRow
<1>2. CASE UpdateKeys
  <2>1. KeyRow \in Row
    BY <1>1, KeyRows
  <2>2. sess'.project = KeyRow.project
    BY <1>2, <2>1 DEF UpdateKeys, Row
  <2> QED BY <1>1, <2>2 DEF KeyRow, Row
<1>3. CASE \/ InactiveProject
           \/ \E p \in Project : DeactivateProject(p) \/ ActivateProject(p)
  BY <1>1, <1>3 DEF InactiveProject, DeactivateProject, ActivateProject, Row
<1>4. CASE EmailActivate \/ EmailDeactivate \/ EmailAccount
  BY <1>1, <1>4 DEF EmailActivate, EmailDeactivate, EmailAccount, Round, AfterActivate,
     AfterDeactivate, AfterAccount, Row
<1>5. CASE EmailKey
  <2>1. PICK added \in SUBSET Project, removed \in SUBSET Project :
           sess' = AfterKeyMails(AfterOpened, added, removed)
    BY <1>5 DEF EmailKey, KeyMails, Accepted, Due
  <2> QED BY <1>1, <2>1, KeyMailRows DEF KeysMailed
<1>6. CASE MailCommit
  BY <1>6 DEF MailCommit, Commit
<1> QED BY <1>2, <1>3, <1>4, <1>5, <1>6 DEF EmailSend

\* A step outside the loop over the projects that leaves list and relation.
LEMMA WayElsewhere ==
    ASSUME Typed, WayInv, Next,
           sess'.projects_api = sess.projects_api, sess'.project = sess.project,
           Following' => Following /\ pc \notin {"fetch", "sync api", "down"},
           pc = "keys" => cur \in Present,
           Waiting = {} \/ (pc = "keys" /\ Waiting \subseteq Waiting' \cup {cur}),
           pc = "keys" \/ pc \notin InProjects \/ (pc = "project" /\ todo = << >>),
           pc' \notin {"sync", "keys"}
    PROVE  WayInv'
<1>1. Present \subseteq Present'
  BY PresentStays
<1>2. CASE ~Following'
  BY <1>2 DEF WayInv
<1>3. CASE Following'
  <2>1. /\ SetOf(sess.projects_api) \subseteq Present \cup Waiting
        /\ RelationInv
    BY <1>3 DEF WayInv
  <2>2. sess.projects_api = << >> \/ sess.project = SetOf(sess.projects_api)
    BY <2>1 DEF RelationInv, InProjects
  <2>3. RelationInv'
    BY <2>2 DEF RelationInv
  <2>4. SetOf(sess'.projects_api) \subseteq Present' \cup Waiting'
    BY <1>1, <2>1
  <2> QED BY <2>3, <2>4 DEF WayInv
<1> QED BY <1>2, <1>3

\* The steps of the loop over the projects: what leaves the wait has its entry.
LEMMA WayProjects ==
    ASSUME Typed, WayInv, Next,
           StartProject \/ NewOrganisationProject \/ OpenUser \/ SyncUser
    PROVE  WayInv'
<1>1. Present \subseteq Present'
  BY PresentStays
<1>2. /\ pc \in InProjects /\ pc' \in InProjects /\ quiet' = quiet
      /\ pc \notin {"fetch", "sync api", "down", "sleep"} /\ pc' # "sleep"
  BY DEF StartProject, NewOrganisationProject, OpenUser, SyncUser, InProjects
<1>3. Following' => Following
  BY <1>2 DEF Following
<1>4. CASE ~Following'
  BY <1>4 DEF WayInv
<1>5. CASE Following'
  <2>1. /\ SetOf(sess.projects_api) \subseteq Present \cup Waiting
        /\ pc \in {"sync", "keys"} => cur \in Present
    BY <1>2, <1>3, <1>5 DEF WayInv
  <2>2. CASE StartProject
    <3>1. /\ pc = "project" /\ pc' \in {"grow", "entry"} /\ sess' = sess
          /\ cur' = Head(todo) /\ todo' = Tail(todo) /\ todo # << >>
      BY <2>2 DEF StartProject
    <3>2. Waiting' = Waiting
      <4>1. Project \cap {cur} = {} /\ Project \cap {cur'} = {Head(todo)}
        BY <3>1, ListMembers DEF Typed
      <4> QED BY <3>1, <4>1, ListMembers DEF Waiting, InProjects
    <3> QED BY <1>1, <2>1, <3>1, <3>2 DEF WayInv, RelationInv
  <2>3. CASE NewOrganisationProject
    <3>1. /\ pc = "grow" /\ pc' \in {"grow", "entry"} /\ sess' = sess
          /\ cur' = cur /\ todo' = todo
      BY <2>3 DEF NewOrganisationProject
    <3>2. Waiting' = Waiting
      BY <3>1 DEF Waiting, InProjects
    <3> QED BY <1>1, <2>1, <3>1, <3>2 DEF WayInv, RelationInv
  <2>4. CASE OpenUser
    <3>1. /\ pc = "entry" /\ pc' = "sync" /\ sess' = sess /\ cur' = cur /\ todo' = todo
          /\ entry' = IF entry[cur].exists THEN entry ELSE [entry EXCEPT ![cur] = NewEntry]
      BY <2>4 DEF OpenUser
    <3>2. Waiting' = Waiting
      BY <3>1 DEF Waiting, InProjects
    <3>3. cur \in Project /\ entry \in [Project -> Entry]
      BY <3>1 DEF Typed, TypeOK
    <3>4. cur' \in Present'
      BY <3>1, <3>3 DEF Present, NewEntry
    <3> QED BY <1>1, <2>1, <3>1, <3>2, <3>4 DEF WayInv, RelationInv
  <2>5. CASE SyncUser
    <3>1. pc = "sync" /\ pc' = "keys" /\ sess' = SyncRelation /\ cur' = cur /\ todo' = todo
      BY <2>5 DEF SyncUser
    <3>2. Waiting' = Waiting
      BY <3>1 DEF Waiting, InProjects
    <3>3. /\ sess'.projects_api = sess.projects_api
          /\ sess'.project = SetOf(sess.projects_api)
      BY <3>1, SessionRow DEF SyncRelation, Row
    <3> QED BY <1>1, <2>1, <3>1, <3>2, <3>3 DEF WayInv, RelationInv
  <2> QED BY <2>2, <2>3, <2>4, <2>5
<1> QED BY <1>4, <1>5

\* What a failure, a stop or a change of the API leaves is not judged: the cycle
\* counts as disturbed.
LEMMA WayFails ==
    ASSUME Typed, FetchError \/ ApiChange \/ Start \/ LdapUpdateFails
                  \/ CancelMails \/ Cancel \/ Die
    PROVE  WayInv'
<1>1. CASE FetchError \/ ApiChange \/ Start
  <2>1. ~(quiet' >= 0) \/ (pc' = "sleep" /\ ~(quiet' >= 1)) \/ pc' = "fetch"
    BY <1>1 DEF FetchError, ApiChange, Start, Disturbed
  <2> QED BY <2>1 DEF WayInv, Following
<1>2. CASE LdapUpdateFails \/ CancelMails \/ Cancel \/ Die
  <2>1. ~(quiet' >= 0)
    BY <1>2 DEF LdapUpdateFails, NewOrganisationProjectError, OpenUserError, SyncUserError,
       UpdateKeysError, LdapError, ShellError, CancelMails, Cancel, Die, Abandon, Disturbed
  <2> QED BY <2>1 DEF WayInv, Following
<1> QED BY <1>1, <1>2

LEMMA WayStep ==
    ASSUME Typed, WayInv, Next PROVE WayInv'
<1>1. CASE SyncCache
  <2>1. /\ pc = "sync api" /\ pc' = "project" /\ sess' = SyncedRow
        /\ todo' = SyncedRow.projects_api
    BY <1>1 DEF SyncCache, Commit
  <2>2. Waiting' = SetOf(todo') \cup (Project \cap {cur'})
    BY <2>1 DEF Waiting, InProjects
  <2> QED BY <2>1, <2>2 DEF WayInv, RelationInv
<1>2. CASE StartCycle \/ FetchData
  <2>1. pc' \in {"fetch", "sync api"}
    BY <1>2 DEF StartCycle, FetchData
  <2> QED BY <2>1 DEF WayInv
<1>3. CASE UpdateKeys
  <2>1. pc = "keys" /\ pc' = "project" /\ todo' = todo /\ quiet' = quiet /\ ~Abandon
    BY <1>3, OrgAssumption DEF UpdateKeys, NextProject, Abandon
  <2>2. sess'.projects_api = sess.projects_api /\ sess'.project = sess.project
    BY <1>3, <2>1, StepRows, ChangedRow, RelationKept DEF RowsChange, FlagsKept
  <2>3. Waiting \subseteq Waiting' \cup {cur}
    BY <2>1 DEF Waiting, InProjects
  <2>4. Following' => Following /\ cur \in Present
    BY <2>1 DEF Following, WayInv
  <2>5. CASE Following'
    BY <2>1, <2>2, <2>3, <2>4, <2>5, WayElsewhere
  <2>6. CASE ~Following'
    BY <2>6 DEF WayInv
  <2> QED BY <2>5, <2>6
<1>4. CASE \/ EndProjects \/ EndDeactivate \/ EndActivate \/ EndInactive \/ UpdateGroups
           \/ LdapCommit
  <2>1. /\ sess' = sess
        /\ pc \notin InProjects \/ (pc = "project" /\ todo = << >>)
        /\ pc \notin {"fetch", "sync api", "down", "sleep", "keys"}
        /\ pc' \notin {"sync", "keys"}
    BY <1>4 DEF EndProjects, EndDeactivate, EndActivate, EndInactive, UpdateGroups, LdapCommit,
       Commit, InProjects
  <2>2. Waiting = {}
    <3>1. pc = "project" => Project \cap {cur} = {}
      BY DEF Typed
    <3>2. SetOf(<< >>) = {}
      BY EmptySeq DEF SetOf
    <3> QED BY <2>1, <3>1, <3>2 DEF Waiting
  <2>3. Following' => Following
    <3>1. quiet' >= 0 => quiet >= 0
      BY <1>4 DEF EndProjects, EndDeactivate, EndActivate, EndInactive, UpdateGroups, LdapCommit
    <3> QED BY <2>1, <3>1 DEF Following
  <2> QED BY <2>1, <2>2, <2>3, WayElsewhere
<1>5. CASE \/ InactiveProject \/ EmailSend
           \/ \E p \in Project : DeactivateProject(p) \/ ActivateProject(p)
  <2>1. /\ pc \in {"deactivate", "activate", "inactive"} \cup MailPc
        /\ pc' \in {"deactivate", "activate", "inactive", "sleep"} \cup MailPc
        /\ quiet' >= 0 => pc' = "sleep" \/ quiet >= 0
        /\ pc' = "sleep" /\ quiet' >= 1 => quiet >= 0
    <3>1. CASE EmailActivate \/ EmailDeactivate \/ EmailAccount \/ EmailKey
      BY <3>1 DEF EmailActivate, EmailDeactivate, EmailAccount, Round, EmailKey, MailPc
    <3>2. CASE MailCommit
      BY <3>2 DEF MailCommit, EndCycleQuiet, MailPc, Typed, TypeOK, QuietMax
    <3>3. CASE \/ InactiveProject
               \/ \E p \in Project : DeactivateProject(p) \/ ActivateProject(p)
      BY <3>3 DEF InactiveProject, DeactivateProject, ActivateProject
    <3> QED BY <1>5, <3>1, <3>2, <3>3 DEF EmailSend
  <2>2. /\ pc \notin InProjects /\ pc' \notin InProjects /\ pc # "sync api" /\ ~Abandon
        /\ pc \notin {"fetch", "sync api", "down", "sleep"}
    BY <2>1 DEF MailPc, InProjects, Abandon
  <2>3. sess'.projects_api = sess.projects_api /\ sess'.project = sess.project
    BY <1>5, <2>2, StepRows, ChangedRow, RelationKept DEF RowsChange, FlagsKept
  <2>4. Following' => Following
    BY <2>1, <2>2 DEF Following
  <2> QED BY <2>2, <2>3, <2>4, WayElsewhere DEF Waiting, InProjects
<1> QED BY <1>1, <1>2, <1>3, <1>4, <1>5, WayProjects, WayFails
        DEF Next, DaemonStep, Environment, LdapUpdate

LEMMA WayInvHolds == Spec => []WayInv
<1>1. Init => WayInv
  BY DEF Init, WayInv, Following
<1>2. Typed /\ WayInv /\ [Next]_vars => WayInv'
  <2> SUFFICES ASSUME Typed, WayInv, [Next]_vars PROVE WayInv'
    OBVIOUS
  <2>1. CASE UNCHANGED vars
    BY <2>1 DEF vars, WayInv, Following, RelationInv, Present, Waiting
  <2> QED BY <2>1, WayStep
<1> QED BY <1>1, <1>2, TypeCorrect, PTL DEF Spec

\* A subtree grows by one entry at a time and is left alone once it is whole;
\* update_project_groups writes a group into a whole one only.
LEMMA WholeInvHolds == Spec => []WholeInv
<1>1. Init => WholeInv
  BY DEF Init, WholeInv
<1>2. Typed /\ Typed' /\ WholeInv /\ [Next]_vars => WholeInv'
  <2> SUFFICES ASSUME Typed, Typed', WholeInv, [Next]_vars PROVE WholeInv'
    OBVIOUS
  <2>1. tree \in [Project -> 0..WholeTree] /\ tree' \in [Project -> 0..WholeTree]
        /\ group \subseteq Project
    BY DEF Typed, TypeOK
  <2>2. CASE UpdateGroups
    <3>1. PICK failed \in SUBSET Project :
             /\ {p \in sess.project : tree[p] < WholeTree} \subseteq failed
             /\ group' = (group \cap failed) \cup (sess.project \ failed)
      BY <2>2 DEF UpdateGroups
    <3>2. sess.project \subseteq Project
      BY SessionRow DEF Row
    <3>3. tree' = tree
      BY <2>2 DEF UpdateGroups
    <3>4. \A p \in sess.project \ failed : tree[p] = WholeTree
      BY <2>1, <3>1, <3>2 DEF WholeTree
    <3> QED BY <3>1, <3>3, <3>4 DEF WholeInv
  <2>3. CASE NewOrganisationProject \/ NewOrganisationProjectError
    <3>1. /\ pc = "grow" /\ group' = group
          /\ tree' = tree \/ tree' = [tree EXCEPT ![cur] = tree[cur] + 1]
      BY <2>3 DEF NewOrganisationProject, NewOrganisationProjectError
    <3>2. tree[cur] < WholeTree
      BY <3>1 DEF Typed
    <3>3. cur \notin group
      BY <3>2 DEF WholeInv, WholeTree
    <3>4. \A p \in Project \ {cur} : tree'[p] = tree[p]
      BY <2>1, <3>1
    <3> QED BY <2>1, <3>1, <3>3, <3>4 DEF WholeInv
  <2>4. CASE ~UpdateGroups /\ ~NewOrganisationProject /\ ~NewOrganisationProjectError
    <3>1. tree' = tree /\ group' = group
      <4>1. CASE UNCHANGED vars
        BY <4>1 DEF vars
      <4>2. CASE EmailSend \/ StartCycle \/ FetchData \/ SyncCache \/ Environment
        BY <2>4, <4>2 DEF EmailSend, EmailActivate, EmailDeactivate, EmailAccount,
           Round, EmailKey, MailCommit, StartCycle, FetchData, SyncCache, Environment,
           ApiChange, FetchError, LdapUpdateFails, OpenUserError, SyncUserError,
           UpdateKeysError, LdapError, ShellError, CancelMails, Cancel, Die, Start
      <4>3. CASE LdapUpdate
        BY <2>4, <4>3 DEF LdapUpdate, StartProject, OpenUser, SyncUser, UpdateKeys,
           EndProjects, EndDeactivate, EndActivate, EndInactive, InactiveProject,
           DeactivateProject, ActivateProject, LdapCommit
      <4> QED BY <4>1, <4>2, <4>3 DEF Next, DaemonStep
    <3> QED BY <3>1 DEF WholeInv
  <2> QED BY <2>2, <2>3, <2>4
<1> QED BY <1>1, <1>2, TypeCorrect, PTL DEF Spec

\* After one undisturbed cycle every project of a listed user has its subtree and
\* the user's entry, and the groups are the API's list (ldapupdate 627-653): what
\* failed or was cut short in the cycles before is made good, except that an
\* unfinished subtree keeps every later cycle from counting as undisturbed.
THEOREM EntriesFollow == Spec => []EntriesFollowApi
<1>1. Typed /\ FollowInv /\ WayInv /\ WholeInv => EntriesFollowApi
  <2> SUFFICES ASSUME Typed, FollowInv, WayInv, WholeInv, Settled(1), ApiListed
               PROVE  /\ \A p \in SetOf(api.projects) : tree[p] = WholeTree /\ entry[p].exists
                      /\ group = SetOf(api.projects)
    BY DEF EntriesFollowApi
  <2>1. pc = "sleep" /\ quiet >= 1 /\ quiet >= 0
    BY DEF Settled, Typed, TypeOK, QuietMax
  <2>2. SetOf(sess.projects_api) = SetOf(api.projects) /\ group = sess.project
    BY <2>1 DEF FollowInv, Following
  <2>3. SetOf(sess.projects_api) \subseteq Present \cup Waiting /\ RelationInv
    BY <2>1 DEF WayInv, Following
  <2>4. Waiting = {}
    BY <2>1 DEF Waiting, InProjects
  <2>5. SetOf(api.projects) # {}
    <3>1. api.projects \in Seq(Project) /\ api.projects # << >>
      BY OrgAssumption DEF ApiListed, Typed, TypeOK, ApiRecord
    <3>2. 1 \in DOMAIN api.projects
      BY <3>1, LenProperties, EmptySeq
    <3> QED BY <3>2 DEF SetOf
  <2>6. sess.project = SetOf(api.projects)
    <3>1. sess.projects_api # << >>
      <4>1. SetOf(<< >>) = {}
        BY EmptySeq DEF SetOf
      <4> QED BY <2>2, <2>5, <4>1
    <3> QED BY <2>1, <2>2, <2>3, <3>1 DEF RelationInv
  <2>7. \A p \in SetOf(api.projects) : p \in Present
    BY <2>2, <2>3, <2>4
  <2>8. \A p \in SetOf(api.projects) : tree[p] = WholeTree
    BY <2>2, <2>6 DEF WholeInv
  <2> QED BY <2>2, <2>6, <2>7, <2>8 DEF Present
<1> QED BY <1>1, TypeCorrect, FollowInvHolds, WayInvHolds, WholeInvHolds, PTL

-----------------------------------------------------------------------------
(* When LDAP answers and nobody stops the daemon: every project of the list  *)
(* has its subtree and its entry, or ldapupdate is on its way to it.         *)

Calm == Faults \subseteq {"http", "smtp"}

TreeInv ==
    /\ \A p \in Project : tree[p] \in {0, WholeTree} \/ (pc = "grow" /\ p = cur)
    /\ \A p \in Present : tree[p] = WholeTree
    /\ pc \in {"entry", "sync", "keys"} => tree[cur] = WholeTree
    /\ pc \in {"sync", "keys"} => cur \in Present

\* Whoever was asked to be (de)activated had an entry then.
ReachInv ==
    /\ SetOf(sess.projects_api) \cup sess.project \subseteq Present \cup Waiting
    /\ Waiting \subseteq SetOf(sess.projects_api)
    /\ \A p \in Project : /\ sess.is_deactivated_project[p] # "absent" => p \in Present
                          /\ sess.is_activated_project[p] # "absent" => p \in Present
    /\ pc = "inactive" => SetOf(todo) \subseteq Present

CalmInv == TreeInv /\ ReachInv /\ RelationInv

LEMMA TargetsPresent ==
    ASSUME Typed, ReachInv PROVE ShellTargets \subseteq Present
<1>1. pc = "inactive" /\ todo # << >> => Head(todo) \in SetOf(todo)
  <2>1. todo \in Seq(Project)
    BY DEF Typed, TypeOK
  <2>2. todo # << >> => 1 \in DOMAIN todo /\ Head(todo) = todo[1]
    BY <2>1, HeadTailProperties, LenProperties, EmptySeq
  <2> QED BY <2>2 DEF SetOf
<1> QED BY <1>1 DEF ShellTargets, ReachInv, Due

\* The failures that are left: the API's and the mail server's.
LEMMA CalmSteps ==
    ASSUME Calm, Typed, CalmInv,
           \/ NewOrganisationProjectError \/ OpenUserError \/ SyncUserError
           \/ UpdateKeysError \/ ShellError \/ CancelMails \/ Cancel \/ Die
    PROVE  FALSE
<1>1. ~Fault("reject") /\ ~Fault("lost") /\ ~Fault("stop") /\ ~Fault("crash")
  BY DEF Calm, Fault
<1>2. \A e : ~Refused(e)
  BY <1>1 DEF Refused
<1>3. ~OpenUserError
  <2>1. pc = "entry" => ~(tree[cur] < PeopleTree)
    BY DEF CalmInv, TreeInv, WholeTree, PeopleTree
  <2> QED BY <1>2, <2>1 DEF OpenUserError
<1>4. ~ShellError
  BY <1>1, TargetsPresent DEF ShellError, CalmInv, Present
<1> QED BY <1>1, <1>2, <1>3, <1>4 DEF NewOrganisationProjectError, SyncUserError, LdapError,
        UpdateKeysError, CancelMails, Cancel, Die

LEMMA TreeStep ==
    ASSUME Calm, Typed, CalmInv, Next PROVE TreeInv'
<1>1. \A p \in Project : EntryChange(p)
  BY EntriesChange
<1>2. /\ tree \in [Project -> 0..WholeTree] /\ entry \in [Project -> Entry]
      /\ cur \in Project <=> pc \in {"grow", "entry", "sync", "keys"}
      /\ TreeInv /\ Present \subseteq Project
  BY DEF Typed, TypeOK, CalmInv, Present
\* Outside "entry" no entry is added.
<1>3. pc # "entry" => Present' = Present
  <2>1. \A p \in Project : pc # "entry" => (entry'[p].exists <=> entry[p].exists)
    BY <1>1 DEF EntryChange
  <2> QED BY <2>1 DEF Present
<1>4. CASE StartProject
  <2>1. Head(todo) \in Project
    BY <1>4, ListMembers DEF StartProject
  <2>2. tree' = tree /\ pc = "project" /\ cur' = Head(todo)
        /\ pc' = IF tree[Head(todo)] = 0 THEN "grow" ELSE "entry"
    BY <1>4 DEF StartProject
  <2>3. tree[Head(todo)] \in {0, WholeTree}
    BY <1>2, <2>1, <2>2 DEF TreeInv
  <2> QED BY <1>2, <1>3, <2>1, <2>2, <2>3 DEF TreeInv
<1>5. CASE NewOrganisationProject
  <2>1. /\ cur \in Project /\ pc = "grow" /\ cur' = cur
        /\ tree' = [tree EXCEPT ![cur] = tree[cur] + 1]
        /\ pc' = IF tree[cur] + 1 = WholeTree THEN "entry" ELSE "grow"
    BY <1>2, <1>5 DEF NewOrganisationProject
  <2>2. tree[cur] < WholeTree /\ tree[cur] \in 0..WholeTree
    BY <1>2, <2>1 DEF Typed
  <2>3. cur \notin Present
    BY <1>2, <2>2 DEF TreeInv, WholeTree
  <2>4. /\ tree'[cur] = tree[cur] + 1
        /\ \A p \in Project \ {cur} : tree'[p] = tree[p]
    BY <1>2, <2>1
  <2>5. \A p \in Project : tree'[p] \in {0, WholeTree} \/ (pc' = "grow" /\ p = cur')
    BY <1>2, <2>1, <2>4 DEF TreeInv
  <2>6. \A p \in Present' : tree'[p] = WholeTree
    BY <1>2, <1>3, <2>1, <2>3, <2>4 DEF TreeInv
  <2> QED BY <2>1, <2>4, <2>5, <2>6 DEF TreeInv
<1>6. CASE OpenUser
  <2>1. /\ cur \in Project /\ pc = "entry" /\ pc' = "sync" /\ cur' = cur /\ tree' = tree
        /\ entry' = IF entry[cur].exists THEN entry ELSE [entry EXCEPT ![cur] = NewEntry]
    BY <1>2, <1>6 DEF OpenUser
  <2>2. Present' = Present \cup {cur}
    <3>1. entry'[cur].exists
      BY <1>2, <2>1 DEF NewEntry
    <3>2. \A p \in Project \ {cur} : entry'[p] = entry[p]
      BY <1>2, <2>1
    <3> QED BY <2>1, <3>1, <3>2 DEF Present
  <2> QED BY <1>2, <2>1, <2>2 DEF TreeInv
<1>7. CASE SyncUser
  <2>1. pc = "sync" /\ pc' = "keys" /\ cur' = cur /\ tree' = tree
    BY <1>7 DEF SyncUser
  <2> QED BY <1>2, <1>3, <2>1 DEF TreeInv
<1>8. CASE UpdateKeys
  <2>1. pc = "keys" /\ pc' = "project" /\ tree' = tree
    BY <1>8 DEF UpdateKeys, NextProject
  <2> QED BY <1>2, <1>3, <2>1 DEF TreeInv
<1>9. ASSUME \/ FetchData \/ SyncCache \/ EmailSend \/ StartCycle \/ ApiChange \/ FetchError
             \/ Start \/ EndProjects \/ EndDeactivate \/ EndActivate \/ EndInactive
             \/ InactiveProject \/ UpdateGroups \/ LdapCommit
             \/ \E p \in Project : DeactivateProject(p) \/ ActivateProject(p)
      PROVE  TreeInv'
  <2>1. /\ tree' = tree /\ pc \notin {"grow", "entry", "sync", "keys"}
        /\ pc' \notin {"grow", "entry", "sync", "keys"}
    <3>1. CASE \/ FetchData \/ SyncCache \/ EmailSend \/ StartCycle \/ ApiChange
               \/ FetchError \/ Start
      BY <3>1 DEF FetchData, SyncCache, EmailSend, EmailActivate, EmailDeactivate, EmailAccount,
         Round, EmailKey, MailCommit, StartCycle, ApiChange, FetchError, Start
    <3>2. CASE \/ EndProjects \/ EndDeactivate \/ EndActivate \/ EndInactive
               \/ InactiveProject \/ UpdateGroups \/ LdapCommit
               \/ \E p \in Project : DeactivateProject(p) \/ ActivateProject(p)
      BY <3>2 DEF EndProjects, EndDeactivate, EndActivate, EndInactive, InactiveProject,
         UpdateGroups, LdapCommit, DeactivateProject, ActivateProject
    <3> QED BY <1>9, <3>1, <3>2
  <2> QED BY <1>2, <1>3, <2>1 DEF TreeInv
<1> QED BY <1>4, <1>5, <1>6, <1>7, <1>8, <1>9, CalmSteps
        DEF Next, DaemonStep, Environment, LdapUpdate, LdapUpdateFails

\* What the relation and the flags of a changed row are.
LEMMA ReachRow ==
    ASSUME Typed, CalmInv, LockInv', [Next]_vars, RowChange(sess')
    PROVE  /\ sess'.projects_api = sess.projects_api
           /\ \A p \in Project :
                 /\ sess'.is_deactivated_project[p] # "absent" => p \in Present'
                 /\ sess'.is_activated_project[p] # "absent" => p \in Present'
<1>1. FlagsKept(sess') /\ Present \subseteq Present'
  BY ChangedRow, PresentStays
<1>2. \A p \in Project : entry'[p].shell = "nologin" => p \in Present'
  BY DEF LockInv, Present
<1> QED BY <1>1, <1>2 DEF FlagsKept, CalmInv, ReachInv

\* A step outside the loop over the projects that leaves list and relation.
LEMMA ReachElsewhere ==
    ASSUME Calm, Typed, CalmInv, LockInv', Next,
           sess' = sess \/ (RowChange(sess') /\ sess'.project = sess.project),
           Waiting = {} \/ (pc = "keys" /\ pc' = "project" /\ Waiting \subseteq Waiting' \cup {cur}),
           Waiting' \subseteq Waiting,
           pc = "keys" \/ pc \notin InProjects \/ (pc = "project" /\ todo = << >>),
           pc' = "inactive" => SetOf(todo') \subseteq Present'
    PROVE  ReachInv' /\ RelationInv'
<1>1. Present \subseteq Present'
  BY PresentStays
<1>2. /\ sess'.projects_api = sess.projects_api /\ sess'.project = sess.project
      /\ \A p \in Project :
            /\ sess'.is_deactivated_project[p] # "absent" => p \in Present'
            /\ sess'.is_activated_project[p] # "absent" => p \in Present'
  <2>1. CASE sess' = sess
    BY <1>1, <2>1 DEF CalmInv, ReachInv
  <2>2. CASE RowChange(sess') /\ sess'.project = sess.project
    BY <2>2, ReachRow
  <2> QED BY <2>1, <2>2
<1>3. pc = "keys" => cur \in Present
  BY DEF CalmInv, TreeInv
<1>4. ReachInv'
  BY <1>1, <1>2, <1>3 DEF CalmInv, ReachInv
<1>5. \/ sess.projects_api = << >>
      \/ sess.project = SetOf(sess.projects_api)
  BY DEF CalmInv, RelationInv, InProjects
<1>6. RelationInv'
  BY <1>2, <1>5 DEF RelationInv
<1> QED BY <1>4, <1>6

LEMMA ReachSynced ==
    ASSUME Calm, Typed, CalmInv, SyncCache PROVE ReachInv' /\ RelationInv'
<1>1. /\ pc = "sync api" /\ pc' = "project" /\ entry' = entry /\ cur' = cur
      /\ sess' = SyncedRow /\ todo' = SyncedRow.projects_api
  BY DEF SyncCache, Commit
<1>2. /\ sess'.project = sess.project
      /\ Listed => ListedChange(sess, sess')
      /\ ~Listed => /\ sess'.is_activated_project = sess.is_activated_project
                    /\ sess'.is_deactivated_project = sess.is_deactivated_project
  BY <1>1, SyncedFields
<1>3. Waiting = {} /\ Waiting' = SetOf(sess'.projects_api) /\ Present' = Present
  <2>1. Project \cap {cur'} = {}
    BY <1>1 DEF Typed
  <2> QED BY <1>1, <2>1 DEF Waiting, InProjects, Present
<1>4. \A p \in Project : /\ sess'.is_deactivated_project[p] # "absent" => p \in Present
                         /\ sess'.is_activated_project[p] # "absent" => p \in Present
  <2>1. CASE Listed
    BY <1>2, <1>3, <2>1 DEF ListedChange, CalmInv, ReachInv
  <2>2. CASE ~Listed
    BY <1>2, <2>2 DEF CalmInv, ReachInv
  <2> QED BY <2>1, <2>2
<1>5. ReachInv'
  BY <1>1, <1>2, <1>3, <1>4 DEF CalmInv, ReachInv
<1> QED BY <1>1, <1>5 DEF RelationInv

\* The steps of the loop over the projects.
LEMMA ReachProjects ==
    ASSUME Calm, Typed, CalmInv, Next,
           FetchError \/ StartProject \/ NewOrganisationProject \/ OpenUser \/ SyncUser
    PROVE  ReachInv' /\ RelationInv'
<1>1. Present \subseteq Present'
  BY PresentStays
<1>2. CASE FetchError
  <2>1. /\ pc = "fetch" /\ pc' = "project" /\ sess' = sess /\ cur' = cur
        /\ todo' = sess.projects_api
    BY <1>2 DEF FetchError, Typed
  <2>2. Waiting = {} /\ Waiting' = SetOf(sess.projects_api)
    <3>1. Project \cap {cur'} = {}
      BY <2>1 DEF Typed
    <3> QED BY <2>1, <3>1 DEF Waiting, InProjects
  <2> QED BY <1>1, <2>1, <2>2 DEF CalmInv, ReachInv, RelationInv
<1>3. CASE StartProject
  <2>1. /\ pc = "project" /\ pc' \in {"grow", "entry"} /\ sess' = sess
        /\ cur' = Head(todo) /\ todo' = Tail(todo) /\ todo # << >>
    BY <1>3 DEF StartProject
  <2>2. Waiting' = Waiting
    <3>1. Project \cap {cur} = {} /\ Project \cap {cur'} = {Head(todo)}
      BY <2>1, ListMembers DEF Typed
    <3> QED BY <2>1, <3>1, ListMembers DEF Waiting, InProjects
  <2> QED BY <1>1, <2>1, <2>2 DEF CalmInv, ReachInv, RelationInv
<1>4. CASE NewOrganisationProject \/ OpenUser
  <2>1. /\ pc \in {"grow", "entry"} /\ pc' \in {"grow", "entry", "sync"} /\ sess' = sess
        /\ cur' = cur /\ todo' = todo
    BY <1>4 DEF NewOrganisationProject, OpenUser
  <2>2. Waiting' = Waiting
    BY <2>1 DEF Waiting, InProjects
  <2> QED BY <1>1, <2>1, <2>2 DEF CalmInv, ReachInv, RelationInv
<1>5. CASE SyncUser
  <2>1. /\ pc = "sync" /\ pc' = "keys" /\ sess' = SyncRelation /\ cur' = cur /\ todo' = todo
    BY <1>5 DEF SyncUser
  <2>2. Waiting' = Waiting
    BY <2>1 DEF Waiting, InProjects
  <2>3. /\ sess'.projects_api = sess.projects_api
        /\ sess'.project = SetOf(sess.projects_api)
        /\ sess'.is_activated_project = sess.is_activated_project
        /\ sess'.is_deactivated_project = sess.is_deactivated_project
    BY <2>1, SessionRow DEF SyncRelation, Row
  <2> QED BY <1>1, <2>1, <2>2, <2>3 DEF CalmInv, ReachInv, RelationInv
<1> QED BY <1>2, <1>3, <1>4, <1>5

LEMMA ReachStep ==
    ASSUME Calm, Typed, CalmInv, LockInv', Next PROVE ReachInv' /\ RelationInv'
<1>1. Present \subseteq Present'
  BY PresentStays
<1>2. CASE \/ ApiChange \/ StartCycle \/ FetchData \/ Start
  <2>1. /\ sess' = sess /\ pc \notin InProjects /\ pc' \notin InProjects /\ pc' # "inactive"
    BY <1>2 DEF ApiChange, StartCycle, FetchData, Start, InProjects
  <2> QED BY <2>1, ReachElsewhere DEF Waiting
<1>3. CASE EmailSend
  <2>1. pc \in MailPc /\ pc' \in MailPc \cup {"sleep"}
    BY <1>3 DEF EmailSend, EmailActivate, EmailDeactivate, EmailAccount, Round, EmailKey,
       MailCommit, MailPc
  <2>2. pc \notin InProjects /\ pc' \notin InProjects /\ pc' # "inactive" /\ pc # "sync api"
        /\ ~Abandon
    BY <2>1 DEF MailPc, InProjects, Abandon
  <2>3. RowChange(sess') /\ sess'.project = sess.project
    BY <1>3, <2>2, StepRows, RelationKept DEF RowsChange
  <2> QED BY <2>2, <2>3, ReachElsewhere DEF Waiting
<1>4. CASE UpdateKeys
  <2>1. pc = "keys" /\ pc' = "project" /\ todo' = todo /\ cur' \notin Project /\ ~Abandon
    BY <1>4, OrgAssumption DEF UpdateKeys, NextProject, Abandon
  <2>2. RowChange(sess') /\ sess'.project = sess.project
    BY <1>4, <2>1, StepRows, RelationKept DEF RowsChange
  <2>3. Waiting' \subseteq Waiting /\ Waiting \subseteq Waiting' \cup {cur}
    BY <2>1 DEF Waiting, InProjects
  <2> QED BY <2>1, <2>2, <2>3, ReachElsewhere
<1>5. CASE EndProjects \/ EndDeactivate \/ EndInactive \/ UpdateGroups \/ LdapCommit
  <2>1. /\ sess' = sess
        /\ pc \notin InProjects \/ (pc = "project" /\ todo = << >>)
        /\ pc' \notin InProjects /\ pc' # "inactive"
    BY <1>5 DEF EndProjects, EndDeactivate, EndInactive, UpdateGroups, LdapCommit, Commit,
       InProjects
  <2>2. Waiting = {} /\ Waiting' = {}
    <3>1. pc = "project" => Project \cap {cur} = {}
      BY DEF Typed
    <3>2. SetOf(<< >>) = {}
      BY EmptySeq DEF SetOf
    <3> QED BY <2>1, <3>1, <3>2 DEF Waiting
  <2> QED BY <1>5, <2>1, <2>2, ReachElsewhere DEF LdapCommit, Commit, EndProjects, EndDeactivate,
          EndInactive, UpdateGroups
<1>6. CASE EndActivate
  <2>1. /\ sess' = sess /\ pc = "activate" /\ pc' \in {"inactive", "groups"}
        /\ pc' = "inactive" => SetOf(todo') = sess.project
    BY <1>6 DEF EndActivate
  <2>2. Waiting = {} /\ Waiting' = {}
    BY <2>1 DEF Waiting, InProjects
  <2>3. sess.project \subseteq Present'
    BY <1>1, <2>2 DEF CalmInv, ReachInv
  <2> QED BY <2>1, <2>2, <2>3, ReachElsewhere DEF InProjects
<1>7. CASE InactiveProject \/ \E p \in Project : DeactivateProject(p) \/ ActivateProject(p)
  <2>1. /\ pc \in {"deactivate", "activate", "inactive"} /\ pc' = pc
        /\ pc = "inactive" => todo # << >> /\ todo' = Tail(todo)
    BY <1>7 DEF InactiveProject, DeactivateProject, ActivateProject
  <2>2. Waiting = {} /\ Waiting' = {} /\ pc \notin InProjects /\ pc # "sync api" /\ ~Abandon
    BY <2>1 DEF Waiting, InProjects, Abandon
  <2>3. RowChange(sess') /\ sess'.project = sess.project
    BY <1>7, <2>2, StepRows, RelationKept DEF RowsChange
  <2>4. pc' = "inactive" => SetOf(todo') \subseteq Present'
    BY <1>1, <2>1, ListMembers DEF CalmInv, ReachInv
  <2> QED BY <2>2, <2>3, <2>4, ReachElsewhere
<1> QED BY <1>2, <1>3, <1>4, <1>5, <1>6, <1>7, ReachSynced, ReachProjects, CalmSteps
        DEF Next, DaemonStep, Environment, LdapUpdate, LdapUpdateFails

LEMMA CalmInvHolds == ASSUME Calm PROVE Spec => []CalmInv
<1>1. Init => CalmInv
  <2> SUFFICES ASSUME Init PROVE CalmInv
    OBVIOUS
  <2>1. /\ pc = "sleep" /\ sess = BlankRow /\ Present = {} /\ Waiting = {}
        /\ \A p \in Project : tree[p] = 0
    BY DEF Init, Present, NoEntry, Waiting, InProjects
  <2>2. SetOf(sess.projects_api) = {} /\ sess.project = {}
    BY <2>1, EmptySeq DEF BlankRow, SetOf
  <2> QED BY <2>1, <2>2 DEF CalmInv, TreeInv, ReachInv, RelationInv, BlankRow, NoFlags
<1>2. Typed /\ CalmInv /\ LockInv' /\ [Next]_vars => CalmInv'
  <2> SUFFICES ASSUME Typed, CalmInv, LockInv', [Next]_vars PROVE CalmInv'
    OBVIOUS
  <2>1. CASE UNCHANGED vars
    BY <2>1 DEF vars, CalmInv, TreeInv, ReachInv, RelationInv, Present, Waiting
  <2>2. CASE Next
    BY <2>2, TreeStep, ReachStep DEF CalmInv
  <2> QED BY <2>1, <2>2
<1> QED BY <1>1, <1>2, TypeCorrect, LockInvHolds, PTL DEF Spec

\* ldap_user[0] (239, 249, 257) is never taken of an empty search when LDAP
\* answers and nobody stops the daemon: whoever is asked to be (de)activated
\* went through the loop that adds the entry.
THEOREM TargetsExist == ASSUME Calm PROVE Spec => []ShellTargetsExist
<1>1. Typed /\ CalmInv => ShellTargetsExist
  BY TargetsPresent DEF CalmInv, ShellTargetsExist, Present
<1> QED BY <1>1, TypeCorrect, CalmInvHolds, PTL

-----------------------------------------------------------------------------
(* Nobody keeps a login in a project that was left: until the shell is       *)
(* changed, something in the row or in the stage asks for it.                *)

BeforeActivate == InProjects \cup {"deactivate"}

StillAsked(p) ==
    \/ entry[p].shell = "nologin"
    \/ pc \in BeforeActivate /\ sess.is_deactivated_project[p] = "due"
    \/ /\ pc \in {"project", "deactivate", "activate"} /\ p \in sess.project
       /\ sess.known /\ ~sess.is_active /\ ~sess.is_deactivated
       /\ sess.projects_api = << >>
    \/ pc = "inactive" /\ p \in SetOf(todo)

LeaverInv ==
    /\ Due(sess.is_activated_project) \subseteq SetOf(sess.projects_api)
    /\ pc \notin BeforeActivate \cup {"activate"} => Due(sess.is_activated_project) = {}
    /\ \A p \in Present \ SetOf(sess.projects_api) : StillAsked(p)

LEMMA CalmRows ==
    ASSUME Calm, Typed, CalmInv, Next, ~SyncCache PROVE FlagsKept(sess')
<1>1. ~Abandon
  <2>1. CASE \/ FetchData \/ StartCycle \/ ApiChange \/ FetchError \/ Start
             \/ StartProject \/ NewOrganisationProject \/ OpenUser \/ SyncUser \/ UpdateKeys
    BY <2>1 DEF FetchData, StartCycle, ApiChange, FetchError, Start, StartProject,
       NewOrganisationProject, OpenUser, SyncUser, UpdateKeys, NextProject, Abandon
  <2>2. CASE \/ EndProjects \/ EndDeactivate \/ EndActivate \/ EndInactive
             \/ InactiveProject \/ UpdateGroups \/ LdapCommit
             \/ \E p \in Project : DeactivateProject(p) \/ ActivateProject(p)
    BY <2>2 DEF EndProjects, EndDeactivate, EndActivate, EndInactive, InactiveProject,
       UpdateGroups, LdapCommit, DeactivateProject, ActivateProject, Abandon
  <2>3. CASE EmailSend
    BY <2>3 DEF EmailSend, EmailActivate, EmailDeactivate, EmailAccount, Round, EmailKey,
       MailCommit, Abandon
  <2> QED BY <2>1, <2>2, <2>3, CalmSteps
          DEF Next, DaemonStep, Environment, LdapUpdate, LdapUpdateFails
<1>2. pc = "sync api" => \/ sess' = sess
                         \/ RowChange(sess')
  <2>1. CASE ApiChange \/ StartCycle \/ FetchData \/ FetchError \/ Start
    BY <2>1 DEF ApiChange, StartCycle, FetchData, FetchError, Start
  <2>2. CASE LdapUpdate
    BY <2>2 DEF LdapUpdate, StartProject, NewOrganisationProject, OpenUser, SyncUser, UpdateKeys,
       EndProjects, EndDeactivate, EndActivate, EndInactive, InactiveProject, DeactivateProject,
       ActivateProject, UpdateGroups, LdapCommit
  <2>3. CASE EmailSend
    BY <2>3 DEF EmailSend, EmailActivate, EmailDeactivate, EmailAccount, Round, EmailKey,
       MailCommit
  <2> QED BY <2>1, <2>2, <2>3, CalmSteps
          DEF Next, DaemonStep, Environment, LdapUpdate, LdapUpdateFails
<1>3. RowChange(sess')
  BY <1>1, <1>2, StepRows DEF RowsChange, RowChange
<1> QED BY <1>3, ChangedRow

LEMMA LeaverSynced ==
    ASSUME Typed, CalmInv, LeaverInv, SyncCache PROVE LeaverInv'
<1>1. /\ pc = "sync api" /\ pc' = "project" /\ entry' = entry /\ sess' = SyncedRow
  BY DEF SyncCache, Commit
<1>2. /\ sess'.project = sess.project /\ sess'.is_deactivated = sess.is_deactivated
      /\ Listed => ListedChange(sess, sess')
      /\ ~Listed =>
            /\ \/ sess'.projects_api = sess.projects_api
               \/ /\ sess'.projects_api = << >> /\ ~sess'.is_active
                  /\ sess'.known /\ ~sess'.is_deactivated
            /\ sess'.is_activated_project = sess.is_activated_project
  BY <1>1, SyncedFields
<1>3. /\ Due(sess.is_activated_project) = {}
      /\ \A p \in Present \ SetOf(sess.projects_api) : entry[p].shell = "nologin"
  BY <1>1 DEF LeaverInv, StillAsked, BeforeActivate, InProjects
<1>4. CASE Listed
  <2>1. Due(sess'.is_activated_project) \subseteq SetOf(sess'.projects_api)
    BY <1>2, <1>3, <1>4 DEF ListedChange, Due
  <2>2. ASSUME NEW p \in Present, p \notin SetOf(sess'.projects_api)
        PROVE  entry[p].shell = "nologin" \/ sess'.is_deactivated_project[p] = "due"
    BY <1>2, <1>3, <1>4, <2>2 DEF ListedChange, OverAndDone, Present
  <2>3. Present' = Present /\ pc' \in BeforeActivate
    BY <1>1 DEF Present, BeforeActivate, InProjects
  <2>4. \A p \in Present' \ SetOf(sess'.projects_api) : StillAsked(p)'
    BY <1>1, <2>2, <2>3 DEF StillAsked
  <2> QED BY <2>1, <2>3, <2>4 DEF LeaverInv
<1>5. CASE ~Listed
  <2>1. Due(sess'.is_activated_project) = {}
    BY <1>2, <1>3, <1>5
  <2>2. ASSUME NEW p \in Present, p \notin SetOf(sess'.projects_api)
        PROVE  StillAsked(p)'
    <3>1. CASE p \notin SetOf(sess.projects_api)
      BY <1>1, <1>3, <3>1 DEF StillAsked
    <3>2. CASE p \in SetOf(sess.projects_api)
      <4>1. sess.projects_api # << >>
        <5>1. SetOf(<< >>) = {}
          BY EmptySeq DEF SetOf
        <5> QED BY <3>2, <5>1
      <4>2. p \in sess.project
        BY <1>1, <3>2, <4>1 DEF CalmInv, RelationInv
      <4> QED BY <1>1, <1>2, <1>5, <2>2, <3>2, <4>2 DEF StillAsked
    <3> QED BY <3>1, <3>2
  <2>3. Present' = Present
    BY <1>1 DEF Present
  <2> QED BY <2>1, <2>2, <2>3 DEF LeaverInv
<1> QED BY <1>4, <1>5

LEMMA LeaverKept ==
    ASSUME Typed, LeaverInv, FlagsKept(sess'),
           Present' \subseteq Present \cup SetOf(sess.projects_api),
           pc \in BeforeActivate \cup {"activate"} =>
               pc' \in BeforeActivate \cup {"activate"} \/ Due(sess.is_activated_project) = {},
           \A p \in Present \ SetOf(sess.projects_api) : StillAsked(p) => StillAsked(p)'
    PROVE  LeaverInv'
<1>1. /\ sess'.projects_api = sess.projects_api
      /\ Due(sess'.is_activated_project) \subseteq Due(sess.is_activated_project)
  BY DEF FlagsKept, Due
<1>2. pc' \notin BeforeActivate \cup {"activate"} => Due(sess'.is_activated_project) = {}
  BY <1>1 DEF LeaverInv
<1>3. \A p \in Present' \ SetOf(sess'.projects_api) : StillAsked(p)'
  BY <1>1 DEF LeaverInv
<1> QED BY <1>1, <1>2, <1>3 DEF LeaverInv

\* The loop over the projects is about those of the list.
LEMMA LeaverProjects ==
    ASSUME Calm, Typed, CalmInv, LeaverInv, Next,
           StartProject \/ NewOrganisationProject \/ OpenUser \/ SyncUser \/ UpdateKeys
    PROVE  LeaverInv'
<1>1. /\ pc \in InProjects /\ pc' \in InProjects
      /\ pc = "project" => todo # << >>
  BY DEF StartProject, NewOrganisationProject, OpenUser, SyncUser, UpdateKeys, NextProject,
     InProjects
<1>2. Waiting # {} /\ Waiting \subseteq SetOf(sess.projects_api)
  <2>1. pc # "project" => cur \in Project
    BY <1>1 DEF Typed, InProjects
  <2>2. pc = "project" => SetOf(todo) # {}
    BY <1>1, ListMembers
  <2> QED BY <1>1, <2>1, <2>2 DEF Waiting, CalmInv, ReachInv
<1>3. sess.projects_api # << >>
  <2>1. SetOf(<< >>) = {}
    BY EmptySeq DEF SetOf
  <2> QED BY <1>2, <2>1
<1>4. FlagsKept(sess')
  <2>1. ~SyncCache
    BY <1>1 DEF SyncCache, InProjects
  <2> QED BY <2>1, CalmRows
<1>5. \A p \in Project \ SetOf(sess.projects_api) : entry'[p] = entry[p]
  <2>1. pc \in {"entry", "keys"} => cur \in SetOf(sess.projects_api)
    BY <1>2 DEF Waiting, InProjects, Typed
  <2>2. ShellTargets = {}
    BY <1>1 DEF ShellTargets, InProjects
  <2>3. \A p \in Project : EntryChange(p)
    BY EntriesChange
  <2> QED BY <2>1, <2>2, <2>3 DEF EntryChange
<1>6. Present' \subseteq Present \cup SetOf(sess.projects_api)
  BY <1>5 DEF Present
<1>7. ASSUME NEW p \in Present, p \notin SetOf(sess.projects_api), StillAsked(p)
      PROVE  StillAsked(p)'
  <2>1. p \in Project /\ entry'[p] = entry[p]
    BY <1>5, <1>7 DEF Present
  <2>2. entry[p].shell = "nologin" \/ sess.is_deactivated_project[p] = "due"
    BY <1>1, <1>3, <1>7 DEF StillAsked, InProjects
  <2>3. \/ sess'.is_deactivated_project[p] = sess.is_deactivated_project[p]
        \/ entry'[p].shell = "nologin"
    BY <1>4, <2>1 DEF FlagsKept
  <2> QED BY <1>1, <2>1, <2>2, <2>3 DEF StillAsked, BeforeActivate
<1> QED BY <1>1, <1>4, <1>6, <1>7, LeaverKept DEF BeforeActivate

LEMMA LeaverStep ==
    ASSUME Calm, Typed, CalmInv, LeaverInv, Next, ~SyncCache PROVE LeaverInv'
<1>1. FlagsKept(sess') /\ \A p \in Project : EntryChange(p)
  BY CalmRows, EntriesChange
<1>2. pc # "entry" => Present' \subseteq Present
  BY <1>1 DEF EntryChange, Present
<1>3. \A p \in Present : p \in Project
  BY DEF Present
\* A shell that is off stays off while no shell is given back.
<1>4. ASSUME NEW p \in Present, entry[p].shell = "nologin", pc # "activate"
      PROVE  entry'[p].shell = "nologin"
  <2>1. EntryChange(p) /\ entry[p].exists
    BY <1>1, <1>4 DEF Present
  <2> QED BY <1>4, <2>1 DEF EntryChange, Shell
<1>5. CASE \/ ApiChange \/ StartCycle \/ FetchData \/ FetchError \/ Start
           \/ UpdateGroups \/ LdapCommit \/ EmailSend
  <2>1. pc \notin BeforeActivate \cup {"activate", "inactive"}
    <3>1. CASE ApiChange \/ StartCycle \/ FetchData \/ FetchError \/ Start
      BY <3>1 DEF ApiChange, StartCycle, FetchData, FetchError, Start, BeforeActivate, InProjects
    <3>2. CASE UpdateGroups \/ LdapCommit \/ EmailSend
      BY <3>2 DEF UpdateGroups, LdapCommit, EmailSend, EmailActivate, EmailDeactivate,
         EmailAccount, Round, EmailKey, MailCommit, BeforeActivate, InProjects
    <3> QED BY <1>5, <3>1, <3>2
  <2>2. \A p \in Present : StillAsked(p) => StillAsked(p)'
    BY <1>4, <2>1 DEF StillAsked, BeforeActivate, InProjects
  <2>3. pc # "entry"
    BY <2>1 DEF BeforeActivate, InProjects
  <2> QED BY <1>1, <1>2, <2>1, <2>2, <2>3, LeaverKept
<1>6. CASE EndProjects \/ EndDeactivate
  <2>1. /\ sess' = sess /\ entry' = entry
        /\ \/ pc = "project" /\ pc' = "deactivate"
           \/ pc = "deactivate" /\ pc' = "activate" /\ Due(sess.is_deactivated_project) = {}
    BY <1>6 DEF EndProjects, EndDeactivate
  <2>2. \A p \in Present : StillAsked(p) => StillAsked(p)'
    BY <1>3, <2>1 DEF StillAsked, BeforeActivate, InProjects, Due
  <2> QED BY <1>1, <1>2, <2>1, <2>2, LeaverKept DEF BeforeActivate
<1>7. CASE EndActivate
  <2>1. /\ sess' = sess /\ entry' = entry /\ pc = "activate"
        /\ Due(sess.is_activated_project) = {}
        /\ sess.known /\ ~sess.is_active /\ ~sess.is_deactivated =>
               pc' = "inactive" /\ SetOf(todo') = sess.project
    BY <1>7 DEF EndActivate
  <2>2. \A p \in Present : StillAsked(p) => StillAsked(p)'
    BY <2>1 DEF StillAsked, BeforeActivate, InProjects
  <2> QED BY <1>1, <1>2, <2>1, <2>2, LeaverKept
<1>8. CASE EndInactive
  <2>1. sess' = sess /\ entry' = entry /\ pc = "inactive" /\ SetOf(todo) = {}
    BY <1>8, EmptySeq DEF EndInactive, SetOf
  <2>2. \A p \in Present : StillAsked(p) => StillAsked(p)'
    BY <2>1 DEF StillAsked, BeforeActivate, InProjects
  <2> QED BY <1>1, <1>2, <2>1, <2>2, LeaverKept DEF BeforeActivate, InProjects
<1>9. CASE InactiveProject
  <2>1. /\ pc = "inactive" /\ pc' = pc /\ todo' = Tail(todo) /\ todo # << >>
        /\ SetShell(Head(todo), "nologin")
    BY <1>9 DEF InactiveProject
  <2>2. entry'[Head(todo)].shell = "nologin"
    BY <2>1, ListMembers, ShellSet
  <2>3. ASSUME NEW p \in Present, StillAsked(p) PROVE StillAsked(p)'
    <3>1. entry[p].shell = "nologin" \/ p = Head(todo) \/ p \in SetOf(Tail(todo))
      BY <2>1, <2>3, ListMembers DEF StillAsked, BeforeActivate, InProjects
    <3> QED BY <1>4, <2>1, <2>2, <3>1 DEF StillAsked
  <2> QED BY <1>1, <1>2, <2>1, <2>3, LeaverKept DEF BeforeActivate, InProjects
<1>10. ASSUME NEW q \in Project, DeactivateProject(q) PROVE LeaverInv'
  <2>1. /\ pc = "deactivate" /\ pc' = pc /\ sess' = Deactivated(q)
    BY <1>10 DEF DeactivateProject, Deactivated
  <2>2. /\ sess'.project = sess.project /\ sess'.is_deactivated = sess.is_deactivated
    BY <2>1, SessionRow DEF Deactivated, Row
  <2>3. ASSUME NEW p \in Present, StillAsked(p) PROVE StillAsked(p)'
    <3>1. \/ sess'.is_deactivated_project[p] = sess.is_deactivated_project[p]
          \/ entry'[p].shell = "nologin"
      BY <1>1, <1>3 DEF FlagsKept
    <3>2. CASE entry[p].shell = "nologin"
      BY <1>4, <2>1, <3>2 DEF StillAsked
    <3> QED BY <1>1, <2>1, <2>2, <2>3, <3>1, <3>2 DEF StillAsked, FlagsKept
  <2> QED BY <1>1, <1>2, <2>1, <2>3, LeaverKept DEF BeforeActivate
<1>11. ASSUME NEW q \in Project, ActivateProject(q) PROVE LeaverInv'
  <2>1. pc = "activate" /\ pc' = pc /\ sess' = Activated(q)
    BY <1>11 DEF ActivateProject, Activated
  <2>2. sess'.project = sess.project /\ ~sess'.is_deactivated
    BY <2>1, SessionRow DEF Activated, Row
  <2>3. ASSUME NEW p \in Present, p \notin SetOf(sess.projects_api), StillAsked(p)
        PROVE  StillAsked(p)'
    <3>1. p \notin ShellTargets
      BY <2>1, <2>3 DEF ShellTargets, LeaverInv
    <3>2. entry'[p] = entry[p]
      BY <1>1, <1>3, <2>1, <3>1 DEF EntryChange
    <3> QED BY <1>1, <2>1, <2>2, <2>3, <3>2 DEF StillAsked, FlagsKept, BeforeActivate, InProjects
  <2> QED BY <1>1, <1>2, <2>1, <2>3, LeaverKept DEF BeforeActivate
<1> QED BY <1>5, <1>6, <1>7, <1>8, <1>9, <1>10, <1>11, LeaverProjects, CalmSteps
        DEF Next, DaemonStep, Environment, LdapUpdate, LdapUpdateFails

LEMMA LeaverInvHolds == ASSUME Calm PROVE Spec => []LeaverInv
<1>1. Init => LeaverInv
  BY DEF Init, LeaverInv, Due, NoFlags, BlankRow, Present, NoEntry
<1>2. Typed /\ CalmInv /\ LeaverInv /\ [Next]_vars => LeaverInv'
  <2> SUFFICES ASSUME Typed, CalmInv, LeaverInv, [Next]_vars PROVE LeaverInv'
    OBVIOUS
  <2>1. CASE UNCHANGED vars
    BY <2>1 DEF vars, LeaverInv, Present, StillAsked
  <2>2. CASE Next
    BY <2>2, LeaverSynced, LeaverStep
  <2> QED BY <2>1, <2>2
<1> QED BY <1>1, <1>2, TypeCorrect, CalmInvHolds, PTL DEF Spec

\* A project that a listed user has left keeps no login, however often the user
\* left and came back: users_projects_del (apisync 166-177) asks for it, the
\* loops over the shells (ldapupdate 235-262) carry it out.
THEOREM LeaversLocked == ASSUME Calm PROVE Spec => []LeaverLosesLogin
<1>1. Typed /\ FollowInv /\ LeaverInv => LeaverLosesLogin
  <2> SUFFICES ASSUME Typed, FollowInv, LeaverInv, Settled(2), ApiListed,
                      NEW p \in Project \ SetOf(api.projects), entry[p].exists
               PROVE  entry[p].shell = "nologin"
    BY DEF LeaverLosesLogin
  <2>1. pc = "sleep" /\ quiet >= 1 /\ quiet >= 0
    BY DEF Settled, Typed, TypeOK, QuietMax
  <2>2. SetOf(sess.projects_api) = SetOf(api.projects)
    BY <2>1 DEF FollowInv, Following
  <2>3. StillAsked(p)
    BY <2>2 DEF LeaverInv, Present
  <2> QED BY <2>1, <2>3 DEF StillAsked, BeforeActivate, InProjects
<1> QED BY <1>1, TypeCorrect, FollowInvHolds, LeaverInvHolds, PTL
=============================================================================
