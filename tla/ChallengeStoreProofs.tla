------------------------ MODULE ChallengeStoreProofs ------------------------
(* What the challenge store promises for every limit, lifetime and set of  *)
(* subjects and origins.                                                   *)
EXTENDS ChallengeStore, FiniteSetTheorems, WellFoundedInduction, TLAPS

-----------------------------------------------------------------------------
(* The inductive invariant: the maps agree, nonces were issued, no two      *)
(* entries share one, what was granted is gone, and the (finite) map keeps  *)
(* to its limit.                                                            *)

NoncesIssued == /\ \A e \in entries : e.nonce <= issued
                /\ \A n \in granted : n <= issued

OneEntryPerNonce == \A e, f \in entries : e.nonce = f.nonce => e = f

IInv == /\ TypeOK /\ MapsAgree /\ NoncesIssued /\ OneEntryPerNonce /\ SingleUse
        /\ IsFiniteSet(entries) /\ WithinLimit

LEMMA Initially == Init => IInv
BY ChallengeAssumption, FS_EmptySet
   DEF Init, IInv, TypeOK, MapsAgree, NoncesIssued, OneEntryPerNonce, SingleUse, WithinLimit, NoNonce

\* Dropping entries together with their subjects' pointers keeps the maps in
\* step (the deletes of consume and cleanup).
LEMMA ForgetKeeps ==
    ASSUME IInv, NEW gone \in SUBSET entries, Forget(gone),
           clock' \in 0..MaxTime, issued' = issued,
           granted' \subseteq granted \cup {e.nonce : e \in gone}
    PROVE  IInv'
<1> USE DEF IInv
<1>1. entries' = entries \ gone
      /\ subjectToNonce' = [t \in Subjects |-> IF \E e \in gone : e.subject = t
                                               THEN NoNonce ELSE subjectToNonce[t]]
  BY DEF Forget
<1>2. TypeOK'
  BY <1>1, ChallengeAssumption DEF TypeOK, NoncesIssued, Entries, NoNonce
<1>3. MapsAgree'
  <2>1. ASSUME NEW e \in entries' PROVE subjectToNonce'[e.subject] = e.nonce
    <3>1. e.subject \in Subjects
      BY <1>1 DEF TypeOK, Entries
    <3>2. \A f \in gone : f.subject # e.subject
      BY <1>1 DEF MapsAgree, OneEntryPerNonce
    <3> QED
      BY <1>1, <3>1, <3>2 DEF MapsAgree
  <2>2. ASSUME NEW s \in Subjects, subjectToNonce'[s] # NoNonce
        PROVE  \E e \in entries' : e.subject = s /\ e.nonce = subjectToNonce'[s]
    BY <1>1, <2>2 DEF MapsAgree
  <2> QED
    BY <2>1, <2>2 DEF MapsAgree
<1>4. NoncesIssued' /\ OneEntryPerNonce'
  BY <1>1 DEF NoncesIssued, OneEntryPerNonce
<1>5. SingleUse'
  BY <1>1 DEF SingleUse, OneEntryPerNonce
<1>6. IsFiniteSet(entries')
  BY <1>1, FS_Subset
<1>7. WithinLimit'
  <2>1. Cardinality(entries') <= Cardinality(entries)
    BY <1>1, FS_Subset
  <2>2. Cardinality(entries') \in Nat /\ Cardinality(entries) \in Nat
    BY <1>6, FS_CardinalityType
  <2> QED
    BY <2>1, <2>2, ChallengeAssumption DEF WithinLimit
<1> QED
  BY <1>2, <1>3, <1>4, <1>5, <1>6, <1>7

\* The nonces in use have a smallest one: there is an oldest entry to evict.
LEMMA OldestExists ==
    ASSUME IInv, entries # {}
    PROVE  \E e \in entries : \A f \in entries : e.nonce <= f.nonce
<1> DEFINE S == {e.nonce : e \in entries}
           R == {ss \in Nat \X Nat : ss[1] < ss[2]}
<1>1. S \subseteq Nat /\ S # {}
  BY DEF IInv, TypeOK, Entries
<1>2. IsWellFoundedOn(R, Nat)
  <2>1. R = OpToRel(<, Nat)
    BY Zenon DEF OpToRel
  <2> QED
    BY <2>1, NatLessThanWellFounded, Zenon
<1>3. PICK n \in S : \A m \in S : <<m, n>> \notin R
  BY <1>1, <1>2, WFMin
<1>4. ASSUME NEW m \in S PROVE n <= m
  <2>1. m \in Nat /\ n \in Nat
    BY <1>1
  <2>2. m < n => <<m, n>> \in R
    <3> DEFINE p == <<m, n>>
    <3>1. p \in Nat \X Nat /\ p[1] = m /\ p[2] = n
      BY <2>1
    <3> HIDE DEF p
    <3>2. m < n => p \in R
      BY <3>1
    <3> QED
      BY <3>2 DEF p
  <2> HIDE DEF R
  <2> QED
    BY <1>3, <2>1, <2>2
<1> QED
  BY <1>4

\* issue: what leaves makes room for the newcomer, and both maps learn of
\* both.
LEMMA IssueKeeps ==
    ASSUME IInv, NEW s \in Subjects, NEW o \in Origins, Issue(s, o)
    PROVE  IInv'
<1> USE DEF IInv
<1> DEFINE n    == issued + 1
           gone == Replaced(s) \cup Evicted(s)
           new  == [nonce |-> n, subject |-> s, origin |-> o, expires |-> clock + Ttl]
<1>0. /\ issued \in Nat /\ clock \in Nat /\ Ttl \in Nat /\ MaxEntries \in Nat \ {0}
      /\ entries \subseteq Entries /\ gone \subseteq entries
      /\ Cardinality(entries) \in Nat
  BY ChallengeAssumption, FS_CardinalityType DEF TypeOK, Replaced, Evicted
<1>1. /\ issued' = n /\ issued < MaxIssued /\ clock' = clock /\ granted' = granted
      /\ entries' = (entries \ gone) \cup {new}
      /\ subjectToNonce' = Without(gone, s, n)
  BY DEF Issue
<1>2. \A e \in entries : e.nonce \in 1..issued /\ e.subject \in Subjects
  BY <1>0 DEF TypeOK, NoncesIssued, Entries
<1>3. new.nonce = n /\ new.subject = s /\ new \in Entries
  BY <1>0 DEF Entries
<1>4. TypeOK'
  <2>1. subjectToNonce' \in [Subjects -> 0..MaxIssued]
    BY <1>0, <1>1, ChallengeAssumption DEF Without, TypeOK, NoNonce
  <2> HIDE DEF gone, new
  <2>2. issued + 1 \in 0..MaxIssued
    BY <1>0, <1>1, ChallengeAssumption DEF TypeOK
  <2>3. entries' \subseteq Entries
    BY <1>0, <1>1, <1>3
  <2> QED
    BY <1>1, <2>1, <2>2, <2>3 DEF TypeOK
<1>5. \A e \in entries : e.subject = s => e \in gone
  BY DEF MapsAgree, Replaced
<1>6. MapsAgree'
  <2>1. ASSUME NEW e \in entries' PROVE subjectToNonce'[e.subject] = e.nonce
    <3>1. CASE e = new
      BY <1>1, <1>3, <3>1 DEF Without
    <3>2. CASE e \in entries \ gone
      <4>1. e.subject # s /\ \A f \in gone : f.subject # e.subject
        BY <1>0, <1>5, <3>2 DEF MapsAgree, OneEntryPerNonce
      <4> QED
        BY <1>1, <1>2, <3>2, <4>1 DEF Without, MapsAgree
    <3> QED
      BY <1>1, <3>1, <3>2
  <2>2. ASSUME NEW t \in Subjects, subjectToNonce'[t] # NoNonce
        PROVE  \E e \in entries' : e.subject = t /\ e.nonce = subjectToNonce'[t]
    <3>1. CASE t = s
      BY <1>1, <1>3, <3>1 DEF Without
    <3>2. CASE t # s
      BY <1>1, <2>2, <3>2 DEF Without, MapsAgree
    <3> QED
      BY <3>1, <3>2
  <2> QED
    BY <2>1, <2>2 DEF MapsAgree
<1>7. NoncesIssued' /\ OneEntryPerNonce' /\ SingleUse'
  BY <1>0, <1>1, <1>2, <1>3 DEF NoncesIssued, OneEntryPerNonce, SingleUse, TypeOK
<1>8. new \notin entries
  BY <1>0, <1>2, <1>3
<1>9. IsFiniteSet(entries \ gone) /\ IsFiniteSet(entries')
  BY <1>0, <1>1, FS_Subset, FS_AddElement
<1>10. Cardinality(entries') = Cardinality(entries \ gone) + 1
  BY <1>1, <1>8, <1>9, FS_AddElement
<1>11. Cardinality(entries \ gone) <= MaxEntries - 1
  <2>1. ASSUME NEW e \in gone PROVE Cardinality(entries \ gone) <= MaxEntries - 1
    <3>1. Cardinality(entries \ {e}) = Cardinality(entries) - 1 /\ IsFiniteSet(entries \ {e})
      BY <1>0, <2>1, FS_RemoveElement
    <3>2. entries \ gone \in SUBSET (entries \ {e})
      BY <2>1
    <3>3. Cardinality(entries \ gone) <= Cardinality(entries \ {e})
      BY <3>1, <3>2, FS_Subset
    <3>4. Cardinality(entries \ gone) \in Nat /\ Cardinality(entries) <= MaxEntries
      BY <1>9, FS_CardinalityType DEF WithinLimit
    <3> HIDE DEF gone
    <3> QED
      BY <1>0, <3>1, <3>3, <3>4
  <2>2. CASE gone = {}
    <3>1. subjectToNonce[s] = NoNonce
      BY <2>2 DEF MapsAgree, Replaced
    <3>2. CASE Cardinality(entries) >= MaxEntries
      <4>1. entries # {}
        BY <1>0, <3>2, FS_EmptySet
      <4>2. Evicted(s) # {}
        BY <3>1, <3>2, <4>1, OldestExists DEF Evicted
      <4> QED
        BY <2>2, <4>2
    <3>3. entries \ gone = entries
      BY <2>2
    <3> HIDE DEF gone
    <3> QED
      BY <1>0, <3>2, <3>3
  <2> QED
    BY <2>1, <2>2
<1>12. WithinLimit'
  BY <1>0, <1>9, <1>10, <1>11, FS_CardinalityType DEF WithinLimit
<1> QED
  BY <1>4, <1>6, <1>7, <1>9, <1>12

LEMMA Inductive == IInv /\ [Next]_vars => IInv'
<1> SUFFICES ASSUME IInv, [Next]_vars PROVE IInv'
  OBVIOUS
<1>0. clock \in 0..MaxTime
  BY DEF IInv, TypeOK
<1>1. ASSUME NEW s \in Subjects, NEW o \in Origins, Issue(s, o) PROVE IInv'
  BY <1>1, IssueKeeps
<1>2. ASSUME NEW e \in entries, ConsumeExpired(e) PROVE IInv'
  <2>1. {e} \in SUBSET entries /\ Forget({e}) /\ clock' = clock /\ issued' = issued /\ granted' = granted
    BY <1>2 DEF ConsumeExpired
  <2> QED
    BY <1>0, <2>1, ForgetKeeps
<1>3. ASSUME NEW e \in entries, NEW s \in Subjects, NEW o \in Origins, Consume(e, s, o) PROVE IInv'
  <2>1. /\ {e} \in SUBSET entries /\ Forget({e}) /\ clock' = clock /\ issued' = issued
        /\ granted' = granted \cup {e.nonce}
    BY <1>3 DEF Consume, Use
  <2>2. granted' \subseteq granted \cup {f.nonce : f \in {e}}
    BY <2>1
  <2> QED
    BY <1>0, <2>1, <2>2, ForgetKeeps
<1>4. CASE Cleanup
  <2>1. {e \in entries : Expired(e)} \in SUBSET entries
    OBVIOUS
  <2> QED
    BY <1>0, <1>4, <2>1, ForgetKeeps DEF Cleanup
<1>5. CASE Restart
  <2>1. {e \in entries : FALSE} = {} /\ entries' = {}
    BY <1>5 DEF Restart
  <2>2. IsFiniteSet(entries') /\ Cardinality(entries') = 0
    BY <2>1, FS_EmptySet
  <2> QED
    BY <1>5, <2>1, <2>2, ChallengeAssumption
       DEF Restart, IInv, TypeOK, MapsAgree, NoncesIssued, OneEntryPerNonce, SingleUse, WithinLimit, NoNonce
<1>6. CASE Tick
  BY <1>6, ChallengeAssumption
     DEF Tick, IInv, TypeOK, MapsAgree, NoncesIssued, OneEntryPerNonce, SingleUse, WithinLimit
<1>7. CASE UNCHANGED vars
  BY <1>7 DEF vars, IInv, TypeOK, MapsAgree, NoncesIssued, OneEntryPerNonce, SingleUse, WithinLimit
<1> QED
  BY <1>1, <1>2, <1>3, <1>4, <1>5, <1>6, <1>7 DEF Next

\* The two maps stay inverse to each other, the limit holds and a challenge is
\* used once: all of src/server/challenge.ts, for every limit and lifetime.
THEOREM ChallengesCorrect == Spec => [](TypeOK /\ MapsAgree /\ WithinLimit /\ SingleUse)
<1>1. IInv => TypeOK /\ MapsAgree /\ WithinLimit /\ SingleUse
  BY DEF IInv
<1> QED
  BY <1>1, Initially, Inductive, PTL DEF Spec

\* However many subjects ask, the store never holds more challenges than its
\* limit: issue() makes room before it adds (the eviction of challenge.ts:44).
THEOREM LimitHolds == Spec => []WithinLimit
<1>1. TypeOK /\ MapsAgree /\ WithinLimit /\ SingleUse => WithinLimit
  OBVIOUS
<1> QED
  BY <1>1, ChallengesCorrect, PTL

\* Why a challenge may leave the store in one step.
MayLeave(e) ==
    \/ Expired(e)
    \/ e.nonce \in granted'
    \/ entries' = {}
    \/ \E f \in entries' \ entries : f.subject = e.subject
    \/ /\ Cardinality(entries) = MaxEntries
       /\ \A f \in entries : e.nonce <= f.nonce

LEMMA LossesStep ==
    ASSUME IInv, [Next]_vars, NEW e \in entries \ entries'
    PROVE  MayLeave(e)
<1> USE DEF IInv
<1>1. ASSUME NEW s \in Subjects, NEW o \in Origins, Issue(s, o) PROVE MayLeave(e)
  <2> DEFINE new == [nonce |-> issued + 1, subject |-> s, origin |-> o, expires |-> clock + Ttl]
  <2>1. /\ e \in Replaced(s) \cup Evicted(s)
        /\ new \in entries' /\ new.subject = s /\ new.nonce = issued + 1
    BY <1>1 DEF Issue
  <2>2. new \notin entries
    BY <2>1 DEF TypeOK, NoncesIssued
  <2> HIDE DEF new
  <2>3. CASE e \in Replaced(s)
    <3>1. e.nonce = subjectToNonce[s] /\ e.nonce # NoNonce
      BY <2>3 DEF Replaced, TypeOK, Entries, NoNonce
    <3>2. e.subject = s
      BY <3>1 DEF MapsAgree, OneEntryPerNonce
    <3> QED
      BY <2>1, <2>2, <3>2 DEF MayLeave
  <2>4. CASE e \in Evicted(s)
    <3>1. Cardinality(entries) >= MaxEntries /\ \A f \in entries : e.nonce <= f.nonce
      BY <2>4 DEF Evicted
    <3>2. Cardinality(entries) = MaxEntries
      BY <3>1, ChallengeAssumption, FS_CardinalityType DEF WithinLimit
    <3> QED
      BY <3>1, <3>2 DEF MayLeave
  <2> QED
    BY <2>1, <2>3, <2>4
<1>2. ASSUME NEW d \in entries, ConsumeExpired(d) PROVE MayLeave(e)
  BY <1>2 DEF ConsumeExpired, Forget, MayLeave
<1>3. ASSUME NEW d \in entries, NEW s \in Subjects, NEW o \in Origins, Consume(d, s, o) PROVE MayLeave(e)
  BY <1>3 DEF Consume, Use, Forget, MayLeave
<1>4. CASE Cleanup \/ Restart
  BY <1>4 DEF Cleanup, Restart, Forget, MayLeave
<1>5. CASE UNCHANGED entries
  BY <1>5
<1> QED
  BY <1>1, <1>2, <1>3, <1>4, <1>5 DEF Next, Tick, vars

\* No unexpired challenge is lost but by its use, by its subject's next one,
\* by a restart, or as the oldest of a full store (issue, consume, cleanup).
THEOREM LossesByRule == Spec => LostOnlyByRule
<1>1. IInv /\ [Next]_vars => [\A e \in entries \ entries' : MayLeave(e)]_vars
  BY LossesStep
<1>2. Spec => []IInv
  BY Initially, Inductive, PTL DEF Spec
<1> QED
  BY <1>1, <1>2, PTL DEF Spec, LostOnlyByRule, MayLeave
=============================================================================
