--------------------------- MODULE ConcurrentProofs ---------------------------
(***************************************************************************)
(* What fairshare, createdirectories and emailsend promise alone they keep *)
(* beside each other, for any projects, users, mails, rounds and faults: a *)
(* step of ConcurrentTasks is one of theirs or leaves them as they are, and*)
(* the write lock, a session that breaks and the end of the process only   *)
(* ever cut a run short.                                                   *)
(***************************************************************************)
EXTENDS ConcurrentTasks, SequenceTheorems, FiniteSetTheorems, TLAPS

\* What is proved of createdirectories alone, in this composition.
DP == INSTANCE DirectoriesProofs WITH Project <- DirProject, flagged <- dirFlagged,
        marked <- dirMarked, pc <- dirPc,
        Faults <- Faults \cap {"mkdir", "chmod", "chown", "crash", "stop"}

FairshareSteps ==
    \/ F!NewProject \/ F!OpenFile \/ F!SelectProjects \/ F!WriteLines \/ F!Unchanged
    \/ F!CloseFile \/ F!SendSighup \/ F!Commit \/ F!Cancel \/ F!Abandon
DirectoriesSteps ==
    \/ D!Members \/ D!Uids \/ D!StartRun \/ D!NextOwner \/ D!Mkdir \/ D!MkdirError \/ D!Chmod
    \/ D!ChmodError \/ D!Chown \/ D!ChownError \/ D!Commit \/ D!Cancel \/ D!Abandon
MailSteps ==
    \/ M!Ask \/ M!StartRun \/ M!Select \/ M!Send \/ M!Refuse \/ M!AnswerLost \/ M!Raise
    \/ M!EndRound \/ M!Commit \/ M!Cancel \/ M!Abandon

LEMMA AbandonSteps ==
    ASSUME AllAbandon
    PROVE  /\ FairshareSteps \/ UNCHANGED fvars
           /\ DirectoriesSteps \/ UNCHANGED dvars
           /\ MailSteps \/ UNCHANGED mvars
BY DEF AllAbandon, FairshareSteps, DirectoriesSteps, MailSteps

LEMMA StepsOfTasks ==
    ASSUME [Next]_vars
    PROVE  /\ FairshareSteps \/ UNCHANGED fvars
           /\ DirectoriesSteps \/ UNCHANGED dvars
           /\ MailSteps \/ UNCHANGED mvars
<1>1. CASE Step
  <2>1. CASE FairshareStep
    BY <2>1 DEF FairshareStep, FairshareStart, FairshareWork, FairshareCommit, FairshareSteps
  <2>2. CASE DirectoriesStep
    BY <2>2 DEF DirectoriesStep, DirectoriesStart, DirectoriesWork, DirectoriesFlush,
       DirectoriesNext, DirectoriesCommit, DirectoriesSteps
  <2>3. CASE MailStep
    BY <2>3 DEF MailStep, MailStart, MailWork, MailSelect, MailCommit, MailSteps
  <2>. QED  BY <1>1, <2>1, <2>2, <2>3 DEF Step
<1>2. CASE NewProject \/ NewMembers \/ NewMail \/ BeginGather \/ Gathered
  BY <1>2 DEF NewProject, NewMembers, NewMail, BeginGather, Gathered, FairshareSteps,
     DirectoriesSteps, MailSteps
<1>3. CASE DirectoriesFault \/ MailFault
  BY <1>3 DEF DirectoriesFault, MailFault, DirectoriesSteps, MailSteps
<1>4. CASE FairshareLocked \/ DirectoriesLocked \/ MailLocked
  BY <1>4 DEF FairshareLocked, DirectoriesLocked, MailLocked, FairshareSteps,
     DirectoriesSteps, MailSteps
<1>5. CASE Stop \/ FairshareCancel \/ DirectoriesCancel \/ MailCancel
  BY <1>5 DEF Stop, FairshareCancel, DirectoriesCancel, MailCancel, FairshareSteps,
     DirectoriesSteps, MailSteps
<1>6. CASE Kill \/ NoFairshareFile \/ NoTemplate \/ Restart
  BY <1>6, AbandonSteps DEF Kill, NoFairshareFile, NoTemplate, Restart
<1>7. CASE UNCHANGED vars
  BY <1>7 DEF vars
<1>. QED  BY <1>1, <1>2, <1>3, <1>4, <1>5, <1>6, <1>7 DEF Next, Fine

-----------------------------------------------------------------------------
(* Mails. *)

\* During a run, what is marked was accepted, and what was accepted and is still
\* asked for is marked or was accepted without a record.
MailInv ==
    /\ asked \subseteq Mail /\ mailMarked \subseteq asked \cap told
    /\ waiting \subseteq asked
    /\ asked \cap told \subseteq unsure \cup mailMarked
    /\ Mail \ asked \subseteq told
    /\ mailPc = "idle" => mailMarked = {}

LEMMA MailInvStep ==
    ASSUME MailInv, MailSteps \/ UNCHANGED mvars
    PROVE  MailInv'
<1>. USE DEF MailInv
<1>1. CASE M!Ask
  BY <1>1 DEF M!Ask
<1>2. CASE M!StartRun \/ M!Select \/ M!Refuse \/ M!Raise \/ M!EndRound
  BY <1>2 DEF M!StartRun, M!Select, M!Refuse, M!Raise, M!EndRound
<1>3. CASE M!Send \/ M!AnswerLost
  BY <1>3 DEF M!Send, M!AnswerLost
<1>4. CASE M!Commit
  BY <1>4 DEF M!Commit, M!EndRun
<1>5. CASE M!Cancel
  BY <1>5 DEF M!Cancel, M!EndRun
<1>6. CASE M!Abandon
  BY <1>6 DEF M!Abandon, M!EndRun
<1>7. CASE UNCHANGED mvars
  BY <1>7 DEF mvars
<1>. QED  BY <1>1, <1>2, <1>3, <1>4, <1>5, <1>6, <1>7 DEF MailSteps

\* Whatever cuts emailsend short, a mail whose flag is cleared went out and one
\* whose flag is set did not, unless a fault took the record of it.
THEOREM MailsRecorded == Spec => []MailRecorded
<1>1. Init => MailInv
  BY DEF Init, M!Init, MailInv
<1>2. MailInv /\ [Next]_vars => MailInv'
  BY StepsOfTasks, MailInvStep
<1>3. MailInv => MailRecorded
  BY DEF MailInv, MailRecorded, M!MailRecorded
<1>. QED  BY <1>1, <1>2, <1>3, PTL DEF Spec

-----------------------------------------------------------------------------
(* Lines. *)

Name == Project \cup {Root}
Line == Name \X Nat

\* FileWellFormed of any lines.
WellFormed(lines) ==
    /\ \A i \in DOMAIN lines : lines[i][2] = i
    /\ \A i, j \in DOMAIN lines : lines[i][1] = lines[j][1] => i = j
    /\ lines # << >> => lines[1][1] = Root

\* Whatever part of the buffer reaches the file, the lines before stay, and what
\* is well formed as a whole is well formed as far as it goes.
LEMMA Flushing ==
    ASSUME NEW lines \in Seq(Line), NEW rest \in Seq(Line), NEW n \in 0..Len(rest)
    PROVE  LET flushed == lines \o SubSeq(rest, 1, n)
           IN  /\ flushed \in Seq(Line)
               /\ WellFormed(lines \o rest) => WellFormed(flushed)
               /\ F!Names(lines) \subseteq F!Names(flushed)
<1>. DEFINE part == SubSeq(rest, 1, n)
            flushed == lines \o part
            whole == lines \o rest
<1>1. Len(rest) \in Nat /\ Len(lines) \in Nat
      /\ DOMAIN lines = 1..Len(lines) /\ DOMAIN rest = 1..Len(rest)
  BY LenProperties
<1>2. part \in Seq(Line) /\ Len(part) = n /\ \A i \in 1..n : part[i] = rest[i]
  <2>1. \A i \in 1..n : rest[i] \in Line
    BY <1>1
  <2>2. 1 \in Int /\ n \in Int
    BY <1>1
  <2>. QED  BY <1>1, <2>1, <2>2, SubSeqProperties
<1>. HIDE DEF part
<1>3. /\ flushed \in Seq(Line) /\ Len(flushed) = Len(lines) + n
      /\ \A i \in 1..Len(lines) + n : flushed[i] = IF i <= Len(lines) THEN lines[i]
                                                  ELSE part[i - Len(lines)]
  BY <1>2, ConcatProperties
<1>4. /\ whole \in Seq(Line) /\ Len(whole) = Len(lines) + Len(rest)
      /\ \A i \in 1..Len(lines) + Len(rest) : whole[i] = IF i <= Len(lines) THEN lines[i]
                                                        ELSE rest[i - Len(lines)]
  BY ConcatProperties
<1>5. DOMAIN flushed = 1..Len(lines) + n /\ DOMAIN whole = 1..Len(lines) + Len(rest)
  BY <1>3, <1>4, LenProperties
<1>. HIDE DEF flushed, whole
<1>6. \A i \in DOMAIN flushed : i \in DOMAIN whole /\ flushed[i] = whole[i]
  <2>1. ASSUME NEW i \in 1..Len(lines) + n, i > Len(lines) PROVE i - Len(lines) \in 1..n
    BY <1>1, <2>1
  <2>. QED  BY <1>1, <1>2, <1>3, <1>4, <1>5, <2>1
<1>7. WellFormed(whole) => WellFormed(flushed)
  <2>1. flushed # << >> => 1 \in DOMAIN flushed /\ whole # << >>
    BY <1>1, <1>3, <1>4, <1>5, EmptySeq
  <2>. QED  BY <1>6, <2>1 DEF WellFormed
<1>8. F!Names(lines) \subseteq F!Names(flushed)
  BY <1>1, <1>3, <1>5 DEF F!Names, F!NameOf
<1>. QED  BY <1>3, <1>7, <1>8 DEF flushed, whole, part

\* FiniteSets as Fairshare extends it.
LEMMA SameCount == \A S : F!Cardinality(S) = Cardinality(S)
BY DEF F!Cardinality, Cardinality
LEMMA SameFinite == \A S : F!IsFiniteSet(S) = IsFiniteSet(S)
BY DEF F!IsFiniteSet, IsFiniteSet

\* The new lines continue the file, whatever is in it, with every missing name.
LEMMA Writing ==
    ASSUME NEW lines \in Seq(Line), WellFormed(lines), Root \notin Project,
           NEW missing \in SUBSET Project, missing \cap F!Names(lines) = {},
           IsFiniteSet(missing), NEW names \in F!SetToSeqs(missing)
    PROVE  LET new == F!NewLines(names, Len(lines))
           IN  /\ new \in Seq(Line)
               /\ WellFormed(lines \o new)
               /\ missing \subseteq F!Names(lines \o new)
<1>. DEFINE n == Cardinality(missing)
            len == Len(lines)
            new == F!NewLines(names, len)
            whole == lines \o new
<1>1. n \in Nat /\ len \in Nat /\ DOMAIN lines = 1..len
  BY FS_CardinalityType, LenProperties
<1>2. /\ names \in [1..n -> missing] /\ \A i, j \in 1..n : i # j => names[i] # names[j]
  BY SameCount DEF F!SetToSeqs
<1>3. \A x \in missing : \E i \in 1..n : names[i] = x
  <2>1. names \in Injection(1..n, missing)
    BY <1>2 DEF Injection, IsInjective
  <2>2. IsFiniteSet(1..n) /\ Cardinality(1..n) = n
    BY <1>1, FS_Interval
  <2>3. names \in Surjection(1..n, missing)
    BY <2>1, <2>2, FS_Injection
  <2>. QED  BY <2>3 DEF Surjection
<1>. HIDE DEF n
<1>4. ASSUME NEW first \in Nat
      PROVE  LET numbered == F!Numbered(names, first)
             IN  /\ numbered \in Seq(Line) /\ Len(numbered) = n
                 /\ \A i \in 1..n : numbered[i] = <<names[i], first + i - 1>>
  <2>. DEFINE numbered == F!Numbered(names, first)
  <2>1. DOMAIN names = 1..n
    BY <1>2
  <2>2. numbered = [i \in 1..n |-> <<names[i], first + i - 1>>]
    BY <2>1 DEF F!Numbered
  <2>3. \A i \in 1..n : <<names[i], first + i - 1>> \in Line
    BY <1>1, <1>2 DEF Line, Name
  <2>4. numbered \in [1..n -> Line]
    BY <2>2, <2>3
  <2>. QED  BY <1>1, <2>2, <2>4
<1>5. CASE len = 0
  <2>. DEFINE root == << <<Root, 1>> >>
              numbered == F!Numbered(names, 2)
  <2>1. /\ numbered \in Seq(Line) /\ Len(numbered) = n
        /\ \A i \in 1..n : numbered[i] = <<names[i], 2 + i - 1>>
    BY <1>4
  <2>2. root \in Seq(Line) /\ Len(root) = 1 /\ root[1] = <<Root, 1>>
    BY DEF Line, Name
  <2>3. new = root \o numbered
    BY <1>5 DEF F!NewLines
  <2>. HIDE DEF root, numbered
  <2>4. /\ new \in Seq(Line) /\ Len(new) = n + 1 /\ new[1] = <<Root, 1>>
        /\ \A i \in 1..n : new[i + 1] = <<names[i], i + 1>>
    <3>0. /\ root \o numbered \in Seq(Line) /\ Len(root \o numbered) = Len(root) + Len(numbered)
          /\ \A i \in 1..Len(root) + Len(numbered) : (root \o numbered)[i] =
                 IF i <= Len(root) THEN root[i] ELSE numbered[i - Len(root)]
      BY <2>1, <2>2, ConcatProperties, Zenon
    <3>1. /\ root \o numbered \in Seq(Line) /\ Len(root \o numbered) = 1 + n
          /\ \A i \in 1..1 + n : (root \o numbered)[i] = IF i <= 1 THEN root[i] ELSE numbered[i - 1]
      BY <2>1, <2>2, <3>0, Zenon
    <3>2. \A i \in 1..n : i + 1 \in 1..1 + n /\ ~(i + 1 <= 1) /\ (i + 1) - 1 = i
      BY <1>1
    <3>3. 1 \in 1..1 + n
      BY <1>1
    <3>. QED  BY <1>1, <2>1, <2>2, <2>3, <3>1, <3>2, <3>3
  <2>5. lines = << >>
    BY <1>1, <1>5, EmptySeq
  <2>. HIDE DEF new
  <2>6. whole = new
    BY <2>4, <2>5, ConcatEmptySeq
  <2>7. DOMAIN new = 1..n + 1
    BY <2>4, LenProperties
  <2>8. \A i \in 1..n + 1 : i = 1 \/ (i - 1 \in 1..n /\ new[i] = <<names[i - 1], i>>)
    <3>1. ASSUME NEW i \in 1..n + 1, i # 1 PROVE i - 1 \in 1..n /\ (i - 1) + 1 = i
      BY <1>1, <3>1
    <3>. QED  BY <2>4, <3>1
  <2>9. WellFormed(new)
    <3>1. \A i \in 1..n + 1 : new[i][2] = i
      BY <2>4, <2>8
    <3>2. \A i \in 1..n : new[i + 1][1] = names[i] /\ names[i] # Root
      BY <1>2, <2>4
    <3>3. ASSUME NEW i \in 1..n + 1, NEW j \in 1..n + 1, new[i][1] = new[j][1] PROVE i = j
      <4>1. ASSUME NEW k \in 1..n + 1, k # 1 PROVE new[k][1] = names[k - 1] /\ new[k][1] # Root /\ k - 1 \in 1..n
        BY <1>2, <2>8, <4>1
      <4>2. i # 1 /\ j # 1 => i - 1 = j - 1
        BY <1>2, <3>3, <4>1
      <4>. QED  BY <1>1, <2>4, <3>3, <4>1, <4>2
    <3>. QED  BY <2>4, <2>7, <3>1, <3>3 DEF WellFormed
  <2>10. missing \subseteq F!Names(new)
    <3>1. ASSUME NEW x \in missing PROVE \E i \in DOMAIN new : new[i][1] = x
      <4>1. PICK i \in 1..n : names[i] = x
        BY <1>3
      <4>2. i + 1 \in DOMAIN new /\ new[i + 1][1] = x
        BY <1>1, <2>4, <2>7, <4>1
      <4>. QED  BY <4>2
    <3>. QED  BY <3>1 DEF F!Names, F!NameOf
  <2>. QED  BY <2>4, <2>6, <2>9, <2>10 DEF new, whole
<1>6. CASE len # 0
  <2>1. new = F!Numbered(names, len + 1)
    BY <1>6 DEF F!NewLines
  <2>2. /\ new \in Seq(Line) /\ Len(new) = n
        /\ \A i \in 1..n : new[i] = <<names[i], len + 1 + i - 1>>
    <3>1. len + 1 \in Nat
      BY <1>1
    <3>. HIDE DEF new, len
    <3>. QED  BY <1>4, <2>1, <3>1
  <2>. HIDE DEF new
  <2>3. /\ whole \in Seq(Line) /\ Len(whole) = len + n
        /\ \A i \in 1..len + n : whole[i] = IF i <= len THEN lines[i] ELSE new[i - len]
    BY <2>2, ConcatProperties
  <2>4. DOMAIN whole = 1..len + n /\ whole # << >>
    BY <1>1, <1>6, <2>3, LenProperties, EmptySeq
  <2>. HIDE DEF whole
  <2>5. \A i \in 1..len : i \in DOMAIN whole /\ whole[i] = lines[i]
    BY <1>1, <2>3, <2>4
  <2>6. ASSUME NEW i \in 1..n PROVE len + i \in DOMAIN whole /\ whole[len + i] = <<names[i], len + i>>
    <3>1. len + i \in 1..len + n /\ ~(len + i <= len) /\ (len + i) - len = i
          /\ len + 1 + i - 1 = len + i
      BY <1>1
    <3>. QED  BY <2>2, <2>3, <2>4, <3>1
  <2>7. \A i \in DOMAIN whole : i \in 1..len \/ \E j \in 1..n : i = len + j
    <3>1. ASSUME NEW i \in 1..len + n, i \notin 1..len PROVE i - len \in 1..n /\ i = len + (i - len)
      BY <1>1, <3>1
    <3>. QED  BY <2>4, <3>1
  <2>8. \A i \in 1..len, j \in 1..n : lines[i][1] # names[j]
    BY <1>1, <1>2 DEF F!Names, F!NameOf
  <2>9. ASSUME NEW i \in DOMAIN whole PROVE whole[i][2] = i
    <3>1. CASE i \in 1..len
      BY <1>1, <2>5, <3>1 DEF WellFormed
    <3>2. CASE i \notin 1..len
      BY <2>6, <2>7, <3>2
    <3>. QED  BY <3>1, <3>2
  <2>10. ASSUME NEW i \in DOMAIN whole, NEW j \in DOMAIN whole, whole[i][1] = whole[j][1] PROVE i = j
    <3>1. CASE i \in 1..len /\ j \in 1..len
      BY <1>1, <2>5, <2>10, <3>1 DEF WellFormed
    <3>2. ASSUME NEW k \in 1..n, NEW l \in 1..n, i = len + k, j = len + l PROVE i = j
      BY <1>2, <2>6, <2>10, <3>2
    <3>3. ASSUME NEW k \in 1..len, NEW l \in 1..n PROVE whole[k][1] # whole[len + l][1]
      BY <2>5, <2>6, <2>8
    <3>. QED  BY <2>7, <2>10, <3>1, <3>2, <3>3
  <2>11. whole[1][1] = Root
    <3>1. 1 \in 1..len /\ lines # << >>
      BY <1>1, <1>6, EmptySeq
    <3>. QED  BY <2>5, <3>1 DEF WellFormed
  <2>12. missing \subseteq F!Names(whole)
    <3>1. ASSUME NEW x \in missing PROVE \E i \in DOMAIN whole : whole[i][1] = x
      <4>1. PICK i \in 1..n : names[i] = x
        BY <1>3
      <4>. QED  BY <2>6, <4>1
    <3>. QED  BY <3>1 DEF F!Names, F!NameOf
  <2>. QED  BY <2>2, <2>9, <2>10, <2>11, <2>12 DEF WellFormed, whole, new
<1>. QED  BY <1>5, <1>6

-----------------------------------------------------------------------------
(* fairshare. *)

\* The file is well formed, also with what is still in the buffer; what is
\* flagged is in the file, what is marked in the buffer at the latest; and what
\* is or will be committed as flagged PBS has read, or the observer has noted.
FairshareInv ==
    /\ project \subseteq Project /\ fsSession \subseteq Project
    /\ file \in Seq(Line) /\ buffer \in Seq(Line)
    /\ WellFormed(file) /\ WellFormed(file \o buffer)
    /\ fsPc # "written" => buffer = << >>
    /\ fsFlagged \subseteq F!Names(file)
    /\ fsMarked \subseteq F!Names(file \o buffer)
    /\ fsPc = "selected" => fsMarked = fsFlagged
    /\ fsFlagged \subseteq loaded \cup untold
    /\ fsPc = "commit" => fsMarked \subseteq loaded \cup untold

LEMMA FairshareConstants == Root \notin Project /\ IsFiniteSet(Project)
BY ConcurrentAssumption, SameFinite DEF F!FairshareAssumption

LEMMA FairshareInit == Init => FairshareInv
<1>. SUFFICES ASSUME Init PROVE FairshareInv
  OBVIOUS
<1>1. /\ project = {} /\ fsFlagged = {} /\ fsSession = {} /\ fsMarked = {}
      /\ file \in {<< >>, << <<Root, 1>> >>} /\ buffer = << >> /\ fsPc = "idle"
  BY DEF Init, F!Init
<1>2. file \in Seq(Line) /\ buffer \in Seq(Line)
  <2>1. << <<Root, 1>> >> \in Seq(Line) /\ << >> \in Seq(Line)
    BY DEF Line, Name
  <2>. QED  BY <1>1, <2>1
<1>3. file \o buffer = file
  BY <1>1, <1>2, ConcatEmptySeq
<1>4. WellFormed(file)
  BY <1>1 DEF WellFormed
<1>. QED  BY <1>1, <1>2, <1>3, <1>4 DEF FairshareInv

LEMMA FairshareInvStep ==
    ASSUME FairshareInv, FairshareSteps \/ UNCHANGED fvars
    PROVE  FairshareInv'
<1>. USE DEF FairshareInv
<1>0. /\ << >> \in Seq(Line)
      /\ \A lines \in Seq(Line) : lines \o << >> = lines
  BY EmptySeq, ConcatEmptySeq
<1>1. file \o buffer \in Seq(Line)
  BY ConcatProperties
<1>2. CASE F!NewProject \/ F!OpenFile \/ F!Unchanged
  BY <1>2 DEF F!NewProject, F!OpenFile, F!Unchanged
<1>3. CASE F!SelectProjects
  BY <1>0, <1>3 DEF F!SelectProjects
<1>4. CASE F!WriteLines
  <2>. DEFINE missing == fsSession \ F!Names(file)
  <2>1. PICK names \in F!SetToSeqs(missing) : buffer' = F!NewLines(names, Len(file))
    BY <1>4 DEF F!WriteLines, F!Missing
  <2>2. IsFiniteSet(missing) /\ missing \in SUBSET Project /\ missing \cap F!Names(file) = {}
    BY FairshareConstants, FS_Subset
  <2>3. /\ buffer' \in Seq(Line) /\ WellFormed(file \o buffer')
        /\ missing \subseteq F!Names(file \o buffer')
    BY <2>1, <2>2, FairshareConstants, Writing
  <2>4. F!Names(file) \subseteq F!Names(file \o buffer')
    <3>1. Len(buffer') \in 0..Len(buffer')
      BY <2>3, LenProperties
    <3>2. SubSeq(buffer', 1, Len(buffer')) = buffer'
      BY <2>3, SubSeqFull
    <3>3. F!Names(file) \subseteq F!Names(file \o SubSeq(buffer', 1, Len(buffer')))
      BY <2>3, <3>1, Flushing
    <3>. QED  BY <3>2, <3>3
  <2>5. /\ UNCHANGED <<project, fsFlagged, file, loaded, untold, fsSession>>
        /\ fsMarked' = fsSession /\ fsPc' = "written"
    BY <1>4 DEF F!WriteLines
  <2>. QED  BY <2>3, <2>4, <2>5
<1>5. CASE F!CloseFile
  <2>1. /\ file' = file \o buffer /\ buffer' = << >> /\ fsPc' = "closed"
        /\ UNCHANGED <<project, fsFlagged, loaded, untold, fsSession, fsMarked>>
    BY <1>5 DEF F!CloseFile
  <2>2. F!Names(file) \subseteq F!Names(file \o buffer)
    <3>1. Len(buffer) \in 0..Len(buffer)
      BY LenProperties
    <3>2. SubSeq(buffer, 1, Len(buffer)) = buffer
      BY SubSeqFull
    <3>. QED  BY <3>1, <3>2, Flushing
  <2>3. file' \o buffer' = file'
    BY <1>0, <1>1, <2>1
  <2>. QED  BY <1>0, <1>1, <2>1, <2>2, <2>3
<1>6. CASE F!SendSighup
  <2>1. /\ UNCHANGED <<project, fsFlagged, file, buffer, fsSession, fsMarked>>
        /\ loaded' = F!Names(file) /\ untold' = {} /\ fsPc' = "commit" /\ buffer = << >>
    BY <1>6 DEF F!SendSighup
  <2>2. fsMarked \subseteq F!Names(file)
    BY <1>0, <2>1
  <2>3. fsFlagged' \subseteq loaded' \cup untold' /\ fsMarked' \subseteq loaded' \cup untold'
    BY <2>1, <2>2
  <2>4. /\ fsPc' # "selected" /\ file' = file /\ buffer' = buffer
        /\ WellFormed(file') /\ WellFormed(file' \o buffer')
        /\ fsFlagged' \subseteq F!Names(file') /\ fsMarked' \subseteq F!Names(file' \o buffer')
    BY <2>1
  <2>. QED  BY <2>1, <2>3, <2>4
<1>7. CASE F!Commit
  <2>1. /\ UNCHANGED <<project, file, loaded, untold>> /\ fsFlagged' = fsMarked
        /\ fsPc = "commit" /\ fsPc' = "idle"
        /\ buffer' = << >> /\ fsSession' = {} /\ fsMarked' = {} /\ buffer = << >>
    BY <1>7 DEF F!Commit, F!EndRun
  <2>. QED  BY <1>0, <2>1
<1>8. CASE F!Cancel
  <2>1. /\ UNCHANGED <<project, loaded>> /\ fsPc' = "idle"
        /\ untold' = IF fsPc = "written" THEN untold \cup (fsMarked \ fsFlagged) ELSE untold
        /\ fsPc \in {"opened", "selected", "written"}
        /\ fsFlagged' = IF fsPc = "opened" THEN fsFlagged ELSE fsMarked
        /\ buffer' = << >> /\ fsSession' = {} /\ fsMarked' = {}
    BY <1>8 DEF F!Cancel, F!EndRun
  <2>2. F!Names(file) \subseteq F!Names(file \o buffer)
    <3>1. Len(buffer) \in 0..Len(buffer)
      BY LenProperties
    <3>2. SubSeq(buffer, 1, Len(buffer)) = buffer
      BY SubSeqFull
    <3>. QED  BY <3>1, <3>2, Flushing
  <2>3. /\ file' \in Seq(Line) /\ WellFormed(file') /\ fsFlagged' \subseteq F!Names(file')
    <3>1. CASE file' = file \o buffer
      BY <1>1, <2>1, <2>2, <3>1
    <3>2. CASE /\ fsPc = "selected"
               /\ \E names \in F!SetToSeqs(F!Missing) :
                     file' = file \o F!NewLines(names, Len(file))
      <4>. DEFINE missing == fsSession \ F!Names(file)
      <4>1. PICK names \in F!SetToSeqs(missing) : file' = file \o F!NewLines(names, Len(file))
        BY <3>2 DEF F!Missing
      <4>2. IsFiniteSet(missing) /\ missing \in SUBSET Project /\ missing \cap F!Names(file) = {}
        BY FairshareConstants, FS_Subset
      <4>. DEFINE new == F!NewLines(names, Len(file))
      <4>3. new \in Seq(Line) /\ WellFormed(file \o new)
        BY <4>2, FairshareConstants, Writing
      <4>. HIDE DEF new
      <4>4. F!Names(file) \subseteq F!Names(file \o new)
        <5>1. Len(new) \in 0..Len(new) /\ SubSeq(new, 1, Len(new)) = new
          BY <4>3, LenProperties, SubSeqFull
        <5>. QED  BY <4>3, <5>1, Flushing
      <4>5. fsFlagged' = fsFlagged
        BY <2>1, <3>2
      <4>6. file' = file \o new
        BY <4>1 DEF new
      <4>. QED  BY <4>3, <4>4, <4>5, <4>6, ConcatProperties
    <3>. QED  BY <1>8, <3>1, <3>2 DEF F!Cancel
  <2>4. file' \o buffer' = file'
    BY <1>0, <2>1, <2>3
  <2>5. fsFlagged' \subseteq loaded' \cup untold'
    BY <2>1
  <2>. QED  BY <1>0, <2>1, <2>3, <2>4, <2>5
<1>9. CASE F!Abandon
  <2>1. PICK n \in 0..Len(buffer) : file' = file \o SubSeq(buffer, 1, n)
    BY <1>9 DEF F!Abandon
  <2>2. /\ UNCHANGED <<project, fsFlagged, loaded, untold>> /\ fsPc' = "idle"
        /\ buffer' = << >> /\ fsSession' = {} /\ fsMarked' = {}
    BY <1>9 DEF F!Abandon, F!EndRun
  <2>3. file' \in Seq(Line) /\ WellFormed(file') /\ F!Names(file) \subseteq F!Names(file')
    BY <2>1, Flushing
  <2>4. file' \o buffer' = file'
    BY <1>0, <2>2, <2>3
  <2>. QED  BY <1>0, <2>2, <2>3, <2>4
<1>10. CASE UNCHANGED fvars
  BY <1>10 DEF fvars
<1>. QED  BY <1>2, <1>3, <1>4, <1>5, <1>6, <1>7, <1>8, <1>9, <1>10 DEF FairshareSteps

LEMMA FairshareAlways == Spec => []FairshareInv
<1>1. FairshareInv /\ [Next]_vars => FairshareInv'
  BY StepsOfTasks, FairshareInvStep
<1>. QED  BY <1>1, FairshareInit, PTL DEF Spec

\* PBS's file is one PBS can use after any interrupted write.
THEOREM FileStaysWellFormed == Spec => []FileWellFormed
<1>1. FairshareInv => FileWellFormed
  BY DEF FairshareInv, WellFormed, FileWellFormed, F!FileWellFormed, F!NameOf
<1>. QED  BY <1>1, FairshareAlways, PTL

\* A project is flagged only if PBS's file has its line.
THEOREM FlaggedIsListed == Spec => []FlagMeansListed
<1>1. FairshareInv => FlagMeansListed
  BY DEF FairshareInv, FlagMeansListed, F!FlagMeansListed
<1>. QED  BY <1>1, FairshareAlways, PTL

\* PBS has read the line of every flagged project, whatever step of whatever task
\* committed the flag, but for those a SIGTERM amid the close has left untold.
THEOREM FlaggedIsLoaded == Spec => []FlagMeansLoaded
<1>1. FairshareInv => FlagMeansLoaded
  BY DEF FairshareInv, FlagMeansLoaded, F!FlagMeansLoaded
<1>. QED  BY <1>1, FairshareAlways, PTL

-----------------------------------------------------------------------------
(* createdirectories: its module's proof holds of it here. *)

LEMMA DirectoriesConstants == DP!DirectoriesAssumption
<1>1. \A S : D!IsFiniteSet(S) = DP!IsFiniteSet(S)
  BY DEF D!IsFiniteSet, DP!IsFiniteSet
<1> QED BY <1>1, ConcurrentAssumption DEF D!DirectoriesAssumption, DP!DirectoriesAssumption,
        D!Owner, DP!Owner

LEMMA SameSteps == DirectoriesSteps => DP!Steps
<1>1. D!Here = DP!Here /\ \A o : D!Paths(o) = DP!Paths(o)
  BY DEF D!Here, DP!Here, D!Paths, DP!Paths
<1>2. \A count : D!MoveOn(count) = DP!MoveOn(count)
  BY <1>1 DEF D!MoveOn, DP!MoveOn
<1>3. \A o : D!OwnersUid(o) = DP!OwnersUid(o)
  BY DEF D!OwnersUid, DP!OwnersUid, D!UidOf, DP!UidOf
<1>4. D!Members \/ D!Uids \/ D!StartRun \/ D!NextOwner => DP!Steps
  BY <1>3 DEF D!Members, D!Uids, D!StartRun, D!NextOwner, D!Owner, DP!Owner, DP!Members,
     DP!Uids, DP!StartRun, DP!NextOwner, DP!Steps
<1>5. D!Mkdir \/ D!MkdirError \/ D!Chmod \/ D!ChmodError => DP!Steps
  BY <1>1 DEF D!Mkdir, D!MkdirError, D!Chmod, D!ChmodError, DP!Mkdir, DP!MkdirError, DP!Chmod,
     DP!ChmodError, DP!Steps
<1>6. D!Chown \/ D!ChownError => DP!Steps
  BY <1>1, <1>2 DEF D!Chown, D!ChownError, D!NoUser, DP!Chown, DP!ChownError, DP!NoUser, DP!Steps
<1>7. D!Commit \/ D!Cancel \/ D!Abandon => DP!Steps
  BY DEF D!Commit, D!Cancel, D!Abandon, D!EndRun, DP!Commit, DP!Cancel, DP!Abandon, DP!EndRun,
     DP!Steps
<1> QED BY <1>4, <1>5, <1>6, <1>7 DEF DirectoriesSteps

LEMMA DirectoriesAlways == Spec => [](DP!Typed /\ DP!OwnedInv)
<1>1. Init => DP!Typed /\ DP!OwnedInv
  <2>1. D!Init => DP!Init
    BY DEF D!Init, DP!Init, D!Owner, DP!Owner, D!Path, DP!Path, D!SetOf, DP!SetOf
  <2> QED BY <2>1, DirectoriesConstants, DP!InitInv DEF Init
<1>2. DP!Typed /\ DP!OwnedInv /\ [Next]_vars => DP!Typed' /\ DP!OwnedInv'
  <2> SUFFICES ASSUME DP!Typed, DP!OwnedInv, [Next]_vars PROVE DP!Typed' /\ DP!OwnedInv'
    OBVIOUS
  <2>1. CASE DirectoriesSteps
    BY <2>1, SameSteps, DirectoriesConstants, DP!TypedStep, DP!OwnedStep
  <2>2. CASE UNCHANGED dvars
    BY <2>2 DEF dvars, DP!Typed, DP!TypeOK, DP!AtWork, DP!OwnedInv, DP!Owned, DP!Paths
  <2> QED BY <2>1, <2>2, StepsOfTasks
<1> QED BY <1>1, <1>2, PTL DEF Spec

\* The flag of an owner means directories that are handed over, also when the
\* commit has to wait for the write lock, fails for it, or never comes.
THEOREM FlagStillMeansOwned == Spec => []D!FlagMeansOwned
<1>1. DP!Typed /\ DP!OwnedInv => D!FlagMeansOwned
  BY DirectoriesConstants, DP!OwnedMeans DEF D!FlagMeansOwned, DP!FlagMeansOwned, D!Uid, DP!Uid,
     D!SetOf, DP!SetOf, D!Paths, DP!Paths
<1> QED BY <1>1, DirectoriesAlways, PTL

-----------------------------------------------------------------------------
(* Each of the two tasks that have a specification of their own behaves as   *)
(* it may alone, where anything may fail: to fairshare and createdirectories *)
(* a lock that does not come and another task's SystemExit are a kill.       *)

FAlone == INSTANCE Fairshare WITH flagged <- fsFlagged, session <- fsSession,
        marked <- fsMarked, pc <- fsPc, Faults <- {"crash", "stop"}
DAlone == INSTANCE Directories WITH Project <- DirProject, flagged <- dirFlagged,
        marked <- dirMarked, pc <- dirPc,
        Faults <- {"mkdir", "chmod", "chown", "crash", "stop"}

LEMMA FairshareStepAlone == FairshareSteps => FAlone!Next
<1>1. \A lines : F!Names(lines) = FAlone!Names(lines)
  BY DEF F!Names, FAlone!Names, F!NameOf, FAlone!NameOf
<1>2. F!Missing = FAlone!Missing
  BY <1>1 DEF F!Missing, FAlone!Missing
<1>3. \A S : F!SetToSeqs(S) = FAlone!SetToSeqs(S)
  <2>1. \A S : F!Cardinality(S) = FAlone!Cardinality(S)
    BY DEF F!Cardinality, FAlone!Cardinality
  <2> QED BY <2>1 DEF F!SetToSeqs, FAlone!SetToSeqs
<1>4. \A names, n : F!NewLines(names, n) = FAlone!NewLines(names, n)
  BY DEF F!NewLines, FAlone!NewLines, F!Numbered, FAlone!Numbered
<1>5. F!WriteLines => FAlone!WriteLines
  BY <1>2, <1>3, <1>4 DEF F!WriteLines, FAlone!WriteLines
<1>6. F!NewProject \/ F!OpenFile \/ F!SelectProjects \/ F!Unchanged => FAlone!Next
  BY <1>2 DEF F!NewProject, F!OpenFile, F!SelectProjects, F!Unchanged, FAlone!NewProject,
     FAlone!OpenFile, FAlone!SelectProjects, FAlone!Unchanged, FAlone!Next, FAlone!Run
<1>7. F!CloseFile \/ F!SendSighup => FAlone!Next
  BY <1>1 DEF F!CloseFile, F!SendSighup, FAlone!CloseFile, FAlone!SendSighup, FAlone!Next,
     FAlone!Run
<1>8. F!Commit \/ F!Cancel \/ F!Abandon => FAlone!Next
  BY <1>2, <1>3, <1>4 DEF F!Commit, F!Cancel, F!Abandon, F!EndRun, FAlone!Commit, FAlone!Cancel,
     FAlone!Abandon, FAlone!Crash, FAlone!EndRun, FAlone!Next, FAlone!Run
<1> QED BY <1>5, <1>6, <1>7, <1>8 DEF FairshareSteps, FAlone!Next, FAlone!Run

\* Refinement: whatever the gather, the lock and the other tasks do, fairshare's
\* part of the state changes as Fairshare specifies it with kills and stops.
THEOREM FairshareImplemented == Spec => FAlone!Spec
<1>1. Init => FAlone!Init
  BY DEF Init, F!Init, FAlone!Init, F!Names, FAlone!Names, F!NameOf, FAlone!NameOf
<1>2. [Next]_vars => [FAlone!Next]_FAlone!vars
  BY StepsOfTasks, FairshareStepAlone DEF fvars, FAlone!vars
<1> QED BY <1>1, <1>2, PTL DEF Spec, FAlone!Spec

LEMMA DirectoriesStepAlone == DirectoriesSteps => DAlone!Next
<1>1. D!Here = DAlone!Here /\ \A o : D!Paths(o) = DAlone!Paths(o)
  BY DEF D!Here, DAlone!Here, D!Paths, DAlone!Paths
<1>2. \A count : D!MoveOn(count) = DAlone!MoveOn(count)
  BY <1>1 DEF D!MoveOn, DAlone!MoveOn
<1>3. \A o : D!OwnersUid(o) = DAlone!OwnersUid(o)
  BY DEF D!OwnersUid, DAlone!OwnersUid, D!UidOf, DAlone!UidOf
<1>4. D!Members \/ D!Uids \/ D!StartRun \/ D!NextOwner => DAlone!Next
  BY <1>3 DEF D!Members, D!Uids, D!StartRun, D!NextOwner, D!Owner, DAlone!Owner,
     DAlone!Members, DAlone!Uids, DAlone!StartRun, DAlone!NextOwner, DAlone!Next, DAlone!Run
<1>5. D!Mkdir \/ D!MkdirError \/ D!Chmod \/ D!ChmodError => DAlone!Next
  BY <1>1 DEF D!Mkdir, D!MkdirError, D!Chmod, D!ChmodError, DAlone!Mkdir, DAlone!MkdirError,
     DAlone!Chmod, DAlone!ChmodError, DAlone!Next, DAlone!Run
<1>6. D!Chown \/ D!ChownError => DAlone!Next
  BY <1>1, <1>2 DEF D!Chown, D!ChownError, D!NoUser, DAlone!Chown, DAlone!ChownError,
     DAlone!NoUser, DAlone!Next, DAlone!Run
<1>7. D!Commit \/ D!Cancel \/ D!Abandon => DAlone!Next
  BY DEF D!Commit, D!Cancel, D!Abandon, D!EndRun, DAlone!Commit, DAlone!Cancel,
     DAlone!Abandon, DAlone!Crash, DAlone!EndRun, DAlone!Next, DAlone!Run
<1> QED BY <1>4, <1>5, <1>6, <1>7 DEF DirectoriesSteps

\* Refinement: so does createdirectories, in its safety part; the fairness of its
\* steps ends with a session that breaks.
THEOREM DirectoriesImplemented ==
    Spec => DAlone!Init /\ [][DAlone!Next]_(DAlone!vars)
<1>1. Init => DAlone!Init
  BY DEF Init, D!Init, DAlone!Init, D!Owner, DAlone!Owner, D!Path, DAlone!Path, D!SetOf,
     DAlone!SetOf
<1>2. [Next]_vars => [DAlone!Next]_DAlone!vars
  BY StepsOfTasks, DirectoriesStepAlone DEF dvars, DAlone!vars
<1> QED BY <1>1, <1>2, PTL DEF Spec

-----------------------------------------------------------------------------
(* Type correctness: what the tasks are beyond their invariants, and the     *)
(* gather around them.                                                       *)

MailTyped ==
    /\ told \subseteq Mail /\ unsure \subseteq Mail
    /\ round \in 0..LastRound /\ mailPc \in {"idle", "select", "send", "commit"}

LEMMA MailTypedStep ==
    ASSUME MailInv, MailTyped, MailSteps \/ UNCHANGED mvars PROVE MailTyped'
<1> USE DEF MailTyped
<1>1. LastRound \in Nat \ {0}
  BY ConcurrentAssumption DEF M!MailAssumption
<1>2. CASE M!Ask \/ M!Select \/ M!Refuse
  BY <1>2 DEF M!Ask, M!Select, M!Refuse
<1>3. CASE M!StartRun \/ M!Raise \/ M!EndRound
  BY <1>1, <1>3 DEF M!StartRun, M!Raise, M!EndRound
<1>4. CASE M!Send \/ M!AnswerLost
  BY <1>4 DEF M!Send, M!AnswerLost, MailInv
<1>5. CASE M!Commit \/ M!Cancel \/ M!Abandon
  <2>1. /\ mailPc' = "idle" /\ round' = 0
        /\ told' \subseteq told \cup waiting /\ unsure' \subseteq unsure \cup waiting \cup mailMarked
    BY <1>5 DEF M!Commit, M!Cancel, M!Abandon, M!EndRun
  <2> QED BY <1>1, <2>1 DEF MailInv
<1>6. CASE UNCHANGED mvars
  BY <1>6 DEF mvars
<1> QED BY <1>2, <1>3, <1>4, <1>5, <1>6 DEF MailSteps

FairshareTyped ==
    /\ fsFlagged \subseteq Project /\ fsMarked \subseteq Project /\ loaded \subseteq Name
    /\ untold \subseteq Project
    /\ fsPc \in {"idle", "opened", "selected", "written", "closed", "commit"}

LEMMA NamesTyped == ASSUME NEW lines \in Seq(Line) PROVE F!Names(lines) \subseteq Name
<1>1. \A i \in DOMAIN lines : lines[i] \in Line
  BY LenProperties
<1> QED BY <1>1 DEF F!Names, F!NameOf, Line

LEMMA FairshareTypedStep ==
    ASSUME FairshareInv, FairshareTyped, FairshareSteps \/ UNCHANGED fvars PROVE FairshareTyped'
<1> USE DEF FairshareTyped
<1>1. CASE F!NewProject \/ F!OpenFile \/ F!SelectProjects \/ F!Unchanged
  BY <1>1 DEF F!NewProject, F!OpenFile, F!SelectProjects, F!Unchanged
<1>2. CASE F!WriteLines \/ F!CloseFile
  BY <1>2 DEF F!WriteLines, F!CloseFile, FairshareInv
<1>3. CASE F!SendSighup
  BY <1>3, NamesTyped DEF F!SendSighup, FairshareInv
<1>4. CASE F!Commit \/ F!Cancel \/ F!Abandon
  BY <1>4 DEF F!Commit, F!Cancel, F!Abandon, F!EndRun
<1>5. CASE UNCHANGED fvars
  BY <1>5 DEF fvars
<1> QED BY <1>1, <1>2, <1>3, <1>4, <1>5 DEF FairshareSteps

GatherTyped ==
    /\ phase \in {"sequential", "gather", "stopping", "down"}
    /\ todo \subseteq Task /\ broken \subseteq Task
    /\ holder \in Task \cup {NoTask}

LEMMA GatherTypedStep == ASSUME GatherTyped, [Next]_vars PROVE GatherTyped'
<1> USE DEF GatherTyped
<1>1. CASE FairshareStep
  BY <1>1 DEF FairshareStep, FairshareStart, FairshareWork, FairshareCommit, Start, Committed,
     gvars, Task
<1>2. CASE DirectoriesStep
  BY <1>2 DEF DirectoriesStep, DirectoriesStart, DirectoriesWork, DirectoriesFlush,
     DirectoriesNext, DirectoriesCommit, Start, Flushed, Committed, gvars, Task
<1>3. CASE MailStep
  BY <1>3 DEF MailStep, MailStart, MailWork, MailSelect, MailCommit, Start, Flushed, Committed,
     gvars, Task
<1>4. CASE NewProject \/ NewMembers \/ NewMail \/ BeginGather \/ Gathered
           \/ DirectoriesFault \/ MailFault
  BY <1>4 DEF NewProject, NewMembers, NewMail, BeginGather, Gathered, DirectoriesFault,
     MailFault, gvars
<1>5. CASE FairshareLocked \/ DirectoriesLocked \/ MailLocked
  BY <1>5 DEF FairshareLocked, DirectoriesLocked, MailLocked, Break, Task
<1>6. CASE Stop \/ FairshareCancel \/ DirectoriesCancel \/ MailCancel
  BY <1>6 DEF Stop, FairshareCancel, DirectoriesCancel, MailCancel, Committed
<1>7. CASE Kill \/ NoFairshareFile \/ NoTemplate \/ Restart
  BY <1>7 DEF Kill, NoFairshareFile, NoTemplate, AllAbandon, Restart
<1>8. CASE UNCHANGED vars
  BY <1>8 DEF vars, gvars
<1> QED BY <1>1, <1>2, <1>3, <1>4, <1>5, <1>6, <1>7, <1>8 DEF Next, Fine, Step

\* The variables of the three tasks and of the gather keep to their types; of
\* createdirectories this includes that a path in work is one of its owner's.
THEOREM TypeCorrect == Spec => []TypeOK
<1>1. Init => MailInv /\ MailTyped
  BY ConcurrentAssumption DEF Init, M!Init, MailInv, MailTyped, M!MailAssumption
<1>2. MailInv /\ MailTyped /\ [Next]_vars => MailInv' /\ MailTyped'
  BY StepsOfTasks, MailInvStep, MailTypedStep
<1>3. Init => FairshareTyped
  <2>1. Init => file \in Seq(Line) /\ loaded = F!Names(file)
    BY FairshareInit DEF Init, F!Init, FairshareInv
  <2> QED BY <2>1, NamesTyped DEF Init, F!Init, FairshareTyped
<1>4. FairshareInv /\ FairshareTyped /\ [Next]_vars => FairshareTyped'
  BY StepsOfTasks, FairshareTypedStep
<1>5. Init => GatherTyped
  BY DEF Init, GatherTyped
<1>6. GatherTyped /\ [Next]_vars => GatherTyped'
  BY GatherTypedStep
<1>7. /\ FairshareInv /\ FairshareTyped /\ DP!Typed /\ MailInv /\ MailTyped /\ GatherTyped
      => TypeOK
  <2>1. FairshareInv /\ FairshareTyped => F!TypeOK
    BY DEF FairshareInv, FairshareTyped, F!TypeOK, F!Line, Line, Name
  <2>2. DP!Typed => D!TypeOK
    BY DEF DP!Typed, DP!TypeOK, D!TypeOK, D!Owner, DP!Owner, D!Path, DP!Path, D!SetOf, DP!SetOf,
       D!Uid, DP!Uid, D!Paths, DP!Paths
  <2>3. MailInv /\ MailTyped => M!TypeOK
    BY DEF MailInv, MailTyped, M!TypeOK
  <2> QED BY <2>1, <2>2, <2>3 DEF GatherTyped, TypeOK
<1> QED BY <1>1, <1>2, <1>3, <1>4, <1>5, <1>6, <1>7, FairshareAlways, DirectoriesAlways, PTL
        DEF Spec
===============================================================================
