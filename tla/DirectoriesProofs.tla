-------------------------- MODULE DirectoriesProofs --------------------------
(***************************************************************************)
(* A flag means directories that are handed over, for any users, projects, *)
(* configured paths, failing calls, signals and kills.                     *)
(***************************************************************************)
EXTENDS Directories, SequenceTheorems, TLAPS

\* The steps, whoever lets them happen.
Steps ==
    \/ Members \/ Uids \/ StartRun \/ NextOwner \/ Mkdir \/ MkdirError \/ Chmod \/ ChmodError
    \/ Chown \/ ChownError \/ Commit \/ Cancel \/ Abandon

LEMMA NextSteps == Next => Steps
BY DEF Next, Run, Crash, Steps

\* An owner is in work in exactly the stages that make a directory.
AtWork == pc \in {"mkdir", "chmod", "chown"}
Typed ==
    /\ TypeOK
    /\ owner # Nobody <=> AtWork
    /\ AtWork => at <= Len(Paths(owner))

LEMMA PathsOf ==
    ASSUME DirectoriesAssumption, NEW o \in Owner
    PROVE  /\ Len(Paths(o)) \in Nat \ {0} /\ DOMAIN Paths(o) = 1..Len(Paths(o))
           /\ \A i \in 1..Len(Paths(o)) : <<o, Paths(o)[i]>> \in Owner \X Path
<1>1. \A s \in Seq(STRING) \ {<< >>} : Len(s) \in Nat \ {0} /\ DOMAIN s = 1..Len(s)
  BY LenProperties, EmptySeq
<1>2. UserDirs \in Seq(STRING) \ {<< >>} /\ GroupDirs \in Seq(STRING) \ {<< >>}
  BY DEF DirectoriesAssumption
<1>3. Paths(o) = UserDirs \/ Paths(o) = GroupDirs
  BY DEF Paths
<1> QED BY <1>1, <1>2, <1>3 DEF Path, SetOf

\* The directory in work is one of the owner's.
LEMMA HereOwned ==
    ASSUME DirectoriesAssumption, Typed, AtWork
    PROVE  /\ owner \in Owner /\ at \in 1..Len(Paths(owner)) /\ completed \in 0..at - 1
           /\ Here \in Owner \X Path /\ Len(Paths(owner)) \in Nat
<1>1. owner \in Owner
  BY DEF Typed, TypeOK
<1>2. at \in 1..Len(Paths(owner)) + 1 /\ at <= Len(Paths(owner)) /\ completed \in 0..at - 1
      /\ Len(Paths(owner)) \in Nat \ {0}
  BY <1>1, PathsOf DEF Typed, TypeOK
<1>3. at \in 1..Len(Paths(owner))
  BY <1>2
<1> QED BY <1>1, <1>2, <1>3, PathsOf DEF Here

LEMMA MoveOnTyped ==
    ASSUME DirectoriesAssumption, Typed, AtWork,
           NEW count \in {completed, completed + 1}, MoveOn(count),
           dir' \in [Owner \X Path -> {"none", "made", "setgid"} \cup Uid],
           UNCHANGED <<member, uids, flagged, left>>
    PROVE  Typed'
<1>1. /\ owner \in Owner /\ at \in 1..Len(Paths(owner)) /\ completed \in 0..at - 1
      /\ Len(Paths(owner)) \in Nat /\ owner # Nobody
  BY HereOwned DEF Typed
<1>2. count \in 0..at
  BY <1>1
<1>3. CASE at < Len(Paths(owner))
  <2>1. /\ at' = at + 1 /\ completed' = count /\ pc' = "mkdir"
        /\ UNCHANGED <<owner, to, marked>>
    BY <1>3 DEF MoveOn
  <2>2. Paths(owner') = Paths(owner)
    BY <2>1
  <2>3. at' \in 1..Len(Paths(owner')) /\ completed' \in 0..at' - 1
    BY <1>1, <1>2, <1>3, <2>1, <2>2
  <2> QED BY <1>1, <2>1, <2>2, <2>3 DEF Typed, TypeOK, AtWork
<1>4. CASE ~(at < Len(Paths(owner)))
  <2>1. /\ marked' \subseteq marked \cup {owner} /\ owner' = Nobody /\ to' = Nobody
        /\ pc' = "next"
    BY <1>4 DEF MoveOn
  <2> QED BY <1>1, <2>1 DEF Typed, TypeOK, AtWork
<1> QED BY <1>3, <1>4

LEMMA TypedStep ==
    ASSUME DirectoriesAssumption, Typed, Steps PROVE Typed'
<1>1. Nobody \notin Owner
  BY DEF DirectoriesAssumption
<1>2. CASE Members \/ Uids
  <2>1. member' \in [Project -> SUBSET User] /\ uids' \subseteq User
    BY <1>2 DEF Members, Uids, Typed, TypeOK
  <2>2. UNCHANGED <<flagged, marked, dir, owner, to, at, completed, left, pc>>
    BY <1>2 DEF Members, Uids
  <2> QED BY <2>1, <2>2 DEF Typed, TypeOK, AtWork, Paths
<1>3. CASE StartRun
  BY <1>3 DEF StartRun, Typed, TypeOK, AtWork, Paths
<1>4. CASE NextOwner
  <2>1. owner' \in left /\ left' \subseteq left /\ pc' = "mkdir" /\ at' = 1 /\ completed' = 0
        /\ to' \in OwnersUid(owner')
        /\ UNCHANGED <<member, uids, flagged, marked, dir>>
    BY <1>4 DEF NextOwner
  <2>2. owner' \in Owner
    BY <2>1 DEF Typed, TypeOK
  <2>3. to' \in Uid \cup {Nobody}
    BY <2>1, <2>2 DEF OwnersUid, UidOf, Uid, Owner, Typed, TypeOK
  <2>4. Len(Paths(owner')) \in Nat \ {0}
    BY <2>2, PathsOf
  <2>5. at' \in 1..Len(Paths(owner')) + 1 /\ completed' \in 0..at' - 1 /\ at' <= Len(Paths(owner'))
    BY <2>1, <2>4
  <2> QED BY <1>1, <2>1, <2>2, <2>3, <2>5 DEF Typed, TypeOK, AtWork
<1>5. CASE Mkdir \/ Chmod
  <2>1. AtWork /\ AtWork' /\ UNCHANGED <<member, uids, flagged, marked, owner, to, at, completed, left>>
    BY <1>5 DEF Mkdir, Chmod, AtWork
  <2>2. dir' \in [Owner \X Path -> {"none", "made", "setgid"} \cup Uid]
    BY <1>5 DEF Mkdir, Chmod, Typed, TypeOK
  <2> QED BY <2>1, <2>2 DEF Typed, TypeOK, AtWork, Paths
<1>6. CASE MkdirError \/ ChmodError
  BY <1>6 DEF MkdirError, ChmodError, Typed, TypeOK, AtWork
<1>7. CASE Chown
  <2>1. AtWork /\ MoveOn(completed + 1) /\ UNCHANGED <<member, uids, flagged, left>>
        /\ to \in Uid /\ dir' = [dir EXCEPT ![Here] = to]
    BY <1>7 DEF Chown, AtWork, Typed, TypeOK
  <2>2. dir' \in [Owner \X Path -> {"none", "made", "setgid"} \cup Uid]
    BY <2>1 DEF Typed, TypeOK
  <2> QED BY <2>1, <2>2, MoveOnTyped
<1>8. CASE ChownError
  <2>1. AtWork /\ MoveOn(completed) /\ UNCHANGED <<member, uids, flagged, left, dir>>
    BY <1>8 DEF ChownError, AtWork
  <2> QED BY <2>1, MoveOnTyped DEF Typed, TypeOK
<1>9. CASE Commit \/ Cancel \/ Abandon
  <2>1. /\ flagged' = flagged \/ flagged' = marked
        /\ EndRun /\ UNCHANGED <<member, uids, dir>>
    BY <1>9 DEF Commit, Cancel, Abandon
  <2> QED BY <2>1 DEF EndRun, Typed, TypeOK, AtWork
<1> QED BY <1>2, <1>3, <1>4, <1>5, <1>6, <1>7, <1>8, <1>9 DEF Steps

-----------------------------------------------------------------------------
(* Ownership. *)

Owned(o) ==
    \E who \in Uid : /\ o \in User => who \in {o, NoUid}
                     /\ \A i \in 1..Len(Paths(o)) : dir[<<o, Paths(o)[i]>>] = who

\* What is flagged or marked is handed over and not touched again in the run;
\* while the count is complete, what it counts belongs to the uid in use (the
\* path at work may be configured twice and is half made meanwhile).
OwnedInv ==
    /\ \A o \in flagged \cup marked : Owned(o)
    /\ left \cap (flagged \cup marked) = {}
    /\ pc = "idle" => left = {}
    /\ AtWork =>
          /\ owner \notin flagged \cup marked \cup left
          /\ owner \in User => to \in {owner, NoUid}
          /\ completed = at - 1 =>
                \A i \in 1..at - 1 : \/ Paths(owner)[i] = Paths(owner)[at]
                                     \/ dir[<<owner, Paths(owner)[i]>>] = to

\* Only the directory in work changes, and its owner is neither flagged nor marked.
LEMMA OwnedElsewhere ==
    ASSUME DirectoriesAssumption, Typed, AtWork, NEW o \in Owner \ {owner}, Owned(o),
           \/ dir' = dir
           \/ \E x : dir' = [dir EXCEPT ![Here] = x]
    PROVE  Owned(o)'
<1>1. \A i \in 1..Len(Paths(o)) : /\ <<o, Paths(o)[i]>> \in Owner \X Path
                                  /\ <<o, Paths(o)[i]>> # Here
  BY PathsOf DEF Here
<1>2. \A i \in 1..Len(Paths(o)) : dir'[<<o, Paths(o)[i]>>] = dir[<<o, Paths(o)[i]>>]
  BY <1>1 DEF Typed, TypeOK
<1> QED BY <1>2 DEF Owned

LEMMA OwnedQuietly ==
    ASSUME OwnedInv, Typed, dir' = dir, flagged' \subseteq flagged \cup marked,
           marked' \subseteq flagged \cup marked, left' \cap (flagged \cup marked) = {},
           pc' = "idle" => left' = {}, ~AtWork'
    PROVE  OwnedInv'
<1>1. \A o : Owned(o) => Owned(o)'
  BY DEF Owned
<1> QED BY <1>1 DEF OwnedInv

\* After a path the count is complete only if it was and the path belongs to
\* the uid in use.
LEMMA OwnedMoves ==
    ASSUME DirectoriesAssumption, Typed, OwnedInv, AtWork,
           NEW count \in {completed, completed + 1}, MoveOn(count), UNCHANGED <<flagged, left>>,
           count = completed => dir' = dir,
           count = completed + 1 => to \in Uid /\ dir' = [dir EXCEPT ![Here] = to]
    PROVE  OwnedInv'
<1>1. /\ owner \in Owner /\ at \in 1..Len(Paths(owner)) /\ completed \in 0..at - 1
      /\ Here \in Owner \X Path /\ Len(Paths(owner)) \in Nat
  BY HereOwned
<1>2. count = at => count = completed + 1 /\ completed = at - 1
  BY <1>1
<1>3. ASSUME NEW o \in flagged \cup marked PROVE Owned(o)'
  <2>1. o \in Owner \ {owner} /\ Owned(o)
    BY DEF OwnedInv, Typed, TypeOK
  <2>2. dir' = dir \/ dir' = [dir EXCEPT ![Here] = to]
    OBVIOUS
  <2> QED BY <2>1, <2>2, OwnedElsewhere
<1>4. ASSUME count = at, NEW i \in 1..at PROVE dir'[<<owner, Paths(owner)[i]>>] = to
  <2>1. dir' = [dir EXCEPT ![Here] = to] /\ Here = <<owner, Paths(owner)[at]>>
    BY <1>2, <1>4 DEF Here
  <2>2. i \in 1..Len(Paths(owner)) /\ (i = at \/ i \in 1..at - 1)
    BY <1>1
  <2>3. <<owner, Paths(owner)[i]>> \in Owner \X Path
    BY <1>1, <2>2, PathsOf
  <2>4. Paths(owner)[i] = Paths(owner)[at] \/ dir[<<owner, Paths(owner)[i]>>] = to
    BY <1>2, <1>4, <2>2 DEF OwnedInv
  <2> QED BY <1>1, <2>1, <2>3, <2>4 DEF Typed, TypeOK
<1>5. CASE at < Len(Paths(owner))
  <2>1. /\ at' = at + 1 /\ completed' = count /\ pc' = "mkdir"
        /\ UNCHANGED <<owner, to, marked>>
    BY <1>5 DEF MoveOn
  <2>2. completed' = at' - 1 => \A i \in 1..at' - 1 : dir'[<<owner', Paths(owner')[i]>>] = to'
    <3>1. at' - 1 = at /\ Paths(owner') = Paths(owner)
      BY <1>1, <2>1
    <3> QED BY <1>4, <2>1, <3>1
  <2> QED BY <1>3, <2>1, <2>2 DEF OwnedInv, AtWork
<1>6. CASE ~(at < Len(Paths(owner)))
  <2>1. /\ marked' = IF count = Len(Paths(owner)) THEN marked \cup {owner} ELSE marked
        /\ pc' = "next" /\ at = Len(Paths(owner))
    BY <1>1, <1>6 DEF MoveOn
  <2>2. \A o : o = owner /\ count = Len(Paths(owner)) => Owned(o)'
    <3>1. ASSUME count = at
          PROVE  /\ to \in Uid /\ owner \in User => to \in {owner, NoUid}
                 /\ \A i \in 1..Len(Paths(owner)) : dir'[<<owner, Paths(owner)[i]>>] = to
      BY <1>2, <1>4, <2>1, <3>1 DEF OwnedInv
    <3>2. \A o : Owned(o)' <=> \E who \in Uid :
              /\ o \in User => who \in {o, NoUid}
              /\ \A i \in 1..Len(Paths(o)) : dir'[<<o, Paths(o)[i]>>] = who
      BY DEF Owned
    <3> QED BY <1>2, <2>1, <3>1, <3>2
  <2>3. \A o \in flagged' \cup marked' : Owned(o)'
    BY <1>3, <2>1, <2>2
  <2>4. left' \cap (flagged' \cup marked') = {}
    BY <2>1 DEF OwnedInv
  <2> QED BY <2>1, <2>3, <2>4 DEF OwnedInv, AtWork
<1> QED BY <1>5, <1>6

LEMMA OwnedStep ==
    ASSUME DirectoriesAssumption, Typed, OwnedInv, Steps PROVE OwnedInv'
<1>1. CASE Members \/ Uids
  <2>1. UNCHANGED <<flagged, marked, dir, left, pc>> /\ ~AtWork'
    BY <1>1 DEF Members, Uids, AtWork
  <2> QED BY <2>1, OwnedQuietly DEF OwnedInv
<1>2. CASE StartRun
  <2>1. /\ marked' = flagged /\ left' = Owner \ flagged /\ pc' = "next" /\ dir' = dir
        /\ flagged' = flagged
    BY <1>2 DEF StartRun
  <2>2. \A o : Owned(o) => Owned(o)'
    BY <2>1 DEF Owned
  <2> QED BY <2>1, <2>2 DEF OwnedInv, AtWork
<1>3. CASE NextOwner
  <2>1. /\ owner' \in left /\ left' = left \ {owner'} /\ pc' = "mkdir" /\ at' = 1
        /\ to' \in OwnersUid(owner') /\ UNCHANGED <<dir, flagged, marked>>
    BY <1>3 DEF NextOwner
  <2>2. \A o : Owned(o) => Owned(o)'
    BY <2>1 DEF Owned
  <2>3. owner' \in User => to' \in {owner', NoUid}
    BY <2>1 DEF OwnersUid, UidOf
  <2>4. 1..at' - 1 = {}
    BY <2>1
  <2> QED BY <2>1, <2>2, <2>3, <2>4 DEF OwnedInv, AtWork
<1>4. CASE Mkdir \/ Chmod
  <2>1. /\ AtWork /\ AtWork' /\ pc' # "idle"
        /\ UNCHANGED <<flagged, marked, owner, to, at, completed, left>>
        /\ \E x : dir' = [dir EXCEPT ![Here] = x]
    BY <1>4 DEF Mkdir, Chmod, AtWork
  <2>2. /\ owner \in Owner /\ at \in 1..Len(Paths(owner)) /\ Len(Paths(owner)) \in Nat
        /\ Here \in Owner \X Path /\ Here = <<owner, Paths(owner)[at]>>
    BY <2>1, HereOwned DEF Here
  <2>3. ASSUME NEW o \in flagged \cup marked PROVE Owned(o)'
    <3>1. o \in Owner \ {owner} /\ Owned(o)
      BY <2>1 DEF OwnedInv, Typed, TypeOK
    <3> QED BY <2>1, <3>1, OwnedElsewhere
  <2>4. ASSUME NEW i \in 1..at - 1, Paths(owner)[i] # Paths(owner)[at]
        PROVE  dir'[<<owner, Paths(owner)[i]>>] = dir[<<owner, Paths(owner)[i]>>]
    <3>1. i \in 1..Len(Paths(owner))
      BY <2>2
    <3>2. <<owner, Paths(owner)[i]>> \in Owner \X Path
      BY <2>2, <3>1, PathsOf
    <3> QED BY <2>1, <2>2, <2>4, <3>2 DEF Typed, TypeOK
  <2> QED BY <2>1, <2>3, <2>4 DEF OwnedInv, Paths
<1>5. CASE MkdirError \/ ChmodError
  <2>1. UNCHANGED <<flagged, marked, dir>> /\ left' \subseteq left /\ pc' # "idle" /\ ~AtWork'
    BY <1>5 DEF MkdirError, ChmodError, AtWork
  <2> QED BY <2>1, OwnedQuietly DEF OwnedInv
<1>6. CASE Chown
  <2>1. /\ AtWork /\ MoveOn(completed + 1) /\ UNCHANGED <<flagged, left>>
        /\ to \in Uid /\ dir' = [dir EXCEPT ![Here] = to]
    BY <1>6 DEF Chown, AtWork, Typed, TypeOK
  <2>2. completed + 1 # completed
    BY <2>1, HereOwned
  <2> QED BY <2>1, <2>2, OwnedMoves
<1>7. CASE ChownError
  <2>1. AtWork /\ MoveOn(completed) /\ UNCHANGED <<flagged, left, dir>>
    BY <1>7 DEF ChownError, AtWork
  <2>2. completed + 1 # completed
    BY <2>1, HereOwned
  <2> QED BY <2>1, <2>2, OwnedMoves
<1>8. CASE Commit \/ Cancel \/ Abandon
  <2>1. /\ flagged' = flagged \/ flagged' = marked
        /\ EndRun /\ UNCHANGED dir
    BY <1>8 DEF Commit, Cancel, Abandon
  <2> QED BY <2>1, OwnedQuietly DEF EndRun, AtWork
<1> QED BY <1>1, <1>2, <1>3, <1>4, <1>5, <1>6, <1>7, <1>8 DEF Steps

LEMMA InitInv == DirectoriesAssumption /\ Init => Typed /\ OwnedInv
BY DEF DirectoriesAssumption, Init, Typed, TypeOK, AtWork, OwnedInv, Uid

LEMMA OwnedMeans == DirectoriesAssumption /\ Typed /\ OwnedInv => FlagMeansOwned
<1> SUFFICES ASSUME DirectoriesAssumption, Typed, OwnedInv, NEW o \in flagged
             PROVE  \E who \in Uid :
                       /\ o \in User => who \in {o, NoUid}
                       /\ \A d \in SetOf(Paths(o)) : dir[<<o, d>>] = who
  BY DEF FlagMeansOwned
<1>1. o \in Owner /\ Owned(o)
  BY DEF OwnedInv, Typed, TypeOK
<1>2. SetOf(Paths(o)) = {Paths(o)[i] : i \in 1..Len(Paths(o))}
  BY <1>1, PathsOf DEF SetOf
<1> QED BY <1>1, <1>2 DEF Owned

\* The flag of an owner is only committed when all of the directories belong to
\* one uid, a user's to that user (39-62, 82-113).
THEOREM FlaggedIsOwned == Spec => []FlagMeansOwned
<1>1. Init => Typed /\ OwnedInv
  BY InitInv, DirectoriesConstants
<1>2. Typed /\ OwnedInv /\ [Next]_vars => Typed' /\ OwnedInv'
  <2> SUFFICES ASSUME Typed, OwnedInv, [Next]_vars PROVE Typed' /\ OwnedInv'
    OBVIOUS
  <2>1. CASE Next
    BY <2>1, NextSteps, TypedStep, OwnedStep, DirectoriesConstants
  <2>2. CASE UNCHANGED vars
    BY <2>2 DEF vars, Typed, TypeOK, AtWork, OwnedInv, Owned, Paths
  <2> QED BY <2>1, <2>2
<1>3. Typed /\ OwnedInv => FlagMeansOwned
  BY OwnedMeans, DirectoriesConstants
<1> QED BY <1>1, <1>2, <1>3, PTL DEF Spec
=============================================================================
