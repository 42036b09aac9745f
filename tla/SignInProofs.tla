---------------------------- MODULE SignInProofs ----------------------------
(* No signature opens two sessions or registers twice, however many         *)
(* requests wait for verifySig.                                             *)
EXTENDS SignIn, ChallengeStoreProofs

\* The registration store is a challenge store, too.
RegP == INSTANCE ChallengeStoreProofs WITH
    entries <- regEntries, subjectToNonce <- regSubjects, issued <- regIssued, granted <- regGranted,
    MaxIssued <- MaxRegIssued

StoresInv == IInv /\ RegP!IInv

-----------------------------------------------------------------------------
(* Each step of the routes is a step of each store, or leaves it alone *)

LEMMA StoresInitially == SignInInit => StoresInv
<1> SUFFICES ASSUME SignInInit PROVE StoresInv
  OBVIOUS
<1>1. IInv
  BY Initially DEF SignInInit
<1>2. RegP!Init
  BY DEF SignInInit, Reg!Init, RegP!Init, Reg!NoNonce, RegP!NoNonce
<1>3. RegP!IInv
  BY <1>2, RegP!Initially, ChallengeAssumption, SignInAssumption
<1> QED
  BY <1>1, <1>3 DEF StoresInv

LEMMA AuthStoreSteps == [SignInNext]_allVars => [Next]_vars
<1> SUFFICES ASSUME [SignInNext]_allVars PROVE [Next]_vars
  OBVIOUS
<1>1. ASSUME NEW a \in Subjects, NEW o \in Origins, HandleAuthChallenge(a, o) PROVE Next
  BY <1>1 DEF HandleAuthChallenge, Next
<1>2. ASSUME NEW e \in entries, NEW a \in Subjects, NEW o \in Origins, NEW valid \in BOOLEAN,
             HandleAuthSession(e, a, o, valid)
      PROVE  Next
  BY <1>2 DEF HandleAuthSession, Next
<1>3. ASSUME NEW a \in Subjects, NEW o \in Origins, HandleRegisterChallenge(a, o) PROVE UNCHANGED vars
  BY <1>3 DEF HandleRegisterChallenge, Reg!Issue, authVars, vars
<1>4. ASSUME NEW e \in regEntries, NEW a \in Subjects, NEW o \in Origins, NEW valid \in BOOLEAN,
             HandleRegister(e, a, o, valid)
      PROVE  UNCHANGED vars
  BY <1>4 DEF HandleRegister, Reg!Consume, authVars, vars
<1>5. CASE HandleExpired
  <2>1. CASE \E e \in entries : ConsumeExpired(e)
    BY <2>1 DEF Next
  <2>2. CASE \E e \in regEntries : Reg!ConsumeExpired(e) /\ UNCHANGED <<authVars, signVars>>
    BY <2>2 DEF Reg!ConsumeExpired, authVars, vars
  <2> QED
    BY <1>5, <2>1, <2>2 DEF HandleExpired
<1>6. CASE CleanupBoth \/ RestartBoth \/ Pass
  BY <1>6 DEF CleanupBoth, RestartBoth, Pass, Next
<1>7. CASE UNCHANGED vars
  BY <1>7
<1> QED
  BY <1>1, <1>2, <1>3, <1>4, <1>5, <1>6, <1>7
     DEF SignInNext, allVars, Sign, FinishSession, FinishRegister, Refuse

LEMMA RegStoreSteps == [SignInNext]_allVars => [RegP!Next]_(RegP!vars)
<1> SUFFICES ASSUME [SignInNext]_allVars PROVE [RegP!Next]_(RegP!vars)
  OBVIOUS
<1>1. ASSUME NEW a \in Subjects, NEW o \in Origins, HandleRegisterChallenge(a, o) PROVE RegP!Next
  <2>1. RegP!Issue(a, o)
    BY <1>1 DEF HandleRegisterChallenge, Reg!Issue, RegP!Issue, Reg!Replaced, RegP!Replaced,
                Reg!Evicted, RegP!Evicted, Reg!Without, RegP!Without, Reg!NoNonce, RegP!NoNonce,
                Reg!Cardinality, RegP!Cardinality, Reg!IsFiniteSet, RegP!IsFiniteSet
  <2> QED
    BY <2>1 DEF RegP!Next
<1>2. ASSUME NEW e \in regEntries, NEW a \in Subjects, NEW o \in Origins, NEW valid \in BOOLEAN,
             HandleRegister(e, a, o, valid)
      PROVE  RegP!Next
  <2>1. RegP!Consume(e, a, o)
    BY <1>2 DEF HandleRegister, Reg!Consume, RegP!Consume, Reg!Expired, RegP!Expired,
                Reg!Use, RegP!Use, Reg!Forget, RegP!Forget, Reg!NoNonce, RegP!NoNonce
  <2> QED
    BY <2>1 DEF RegP!Next
<1>3. ASSUME NEW a \in Subjects, NEW o \in Origins, HandleAuthChallenge(a, o)
      PROVE  UNCHANGED RegP!vars
  BY <1>3 DEF HandleAuthChallenge, Issue, regVars, RegP!vars
<1>4. ASSUME NEW e \in entries, NEW a \in Subjects, NEW o \in Origins, NEW valid \in BOOLEAN,
             HandleAuthSession(e, a, o, valid)
      PROVE  UNCHANGED RegP!vars
  BY <1>4 DEF HandleAuthSession, Consume, regVars, RegP!vars
<1>5. CASE HandleExpired
  <2>1. ASSUME NEW e \in regEntries, Reg!ConsumeExpired(e) PROVE RegP!Next
    <3>1. RegP!ConsumeExpired(e)
      BY <2>1 DEF Reg!ConsumeExpired, RegP!ConsumeExpired, Reg!Expired, RegP!Expired,
                  Reg!Forget, RegP!Forget, Reg!NoNonce, RegP!NoNonce
    <3> QED
      BY <3>1 DEF RegP!Next
  <2>2. CASE \E e \in entries : ConsumeExpired(e) /\ UNCHANGED <<regVars, signVars>>
    BY <2>2 DEF ConsumeExpired, regVars, RegP!vars
  <2> QED
    BY <1>5, <2>1, <2>2 DEF HandleExpired
<1>6. ASSUME CleanupBoth PROVE RegP!Next
  <2>1. RegP!Cleanup
    BY <1>6 DEF CleanupBoth, Cleanup, RegP!Cleanup, Reg!Expired, RegP!Expired,
                Reg!Forget, RegP!Forget, Reg!NoNonce, RegP!NoNonce
  <2> QED
    BY <2>1 DEF RegP!Next
<1>7. ASSUME RestartBoth PROVE RegP!Next
  <2>1. RegP!Restart
    BY <1>7 DEF RestartBoth, Restart, RegP!Restart, NoNonce, RegP!NoNonce
  <2> QED
    BY <2>1 DEF RegP!Next
<1>8. ASSUME Pass PROVE RegP!Next
  BY <1>8 DEF Pass, Tick, regVars, RegP!Tick, RegP!Next
<1>9. CASE UNCHANGED <<vars, regVars>>
  BY <1>9 DEF vars, regVars, RegP!vars
<1> QED
  BY <1>1, <1>2, <1>3, <1>4, <1>5, <1>6, <1>7, <1>8, <1>9
     DEF SignInNext, allVars, Sign, FinishSession, FinishRegister, Refuse

LEMMA StoresStep == StoresInv /\ [SignInNext]_allVars => StoresInv'
BY AuthStoreSteps, RegStoreSteps, Inductive, RegP!Inductive, ChallengeAssumption, SignInAssumption
   DEF StoresInv

-----------------------------------------------------------------------------
(* The inductive invariant: a challenge whose signature is being checked, or *)
(* was, is spent, and at most one request or grant answers to it.            *)

SpentIn(store) == IF store = "session" THEN granted ELSE regGranted

\* What a waiting request, a session and a registration say of their text.
Waiting(text) ==
    /\ text.store \in {"session", "registration"}
    /\ text.nonce \in SpentIn(text.store)

SameChallenge(x, y) == x.store = y.store /\ x.nonce = y.nonce

EarnedInv ==
    /\ \A r \in verifying : Waiting(r.text) /\ (r.valid = TRUE => r.text \in signed)
    /\ \A p, q \in verifying : SameChallenge(p.text, q.text) => p = q
    /\ \A s \in sessions : /\ s.text.store = "session" /\ s.text.nonce \in granted
                           /\ s.text \in signed
                           /\ \A t \in sessions : s.text.nonce = t.text.nonce => s = t
                           /\ \A r \in verifying : ~SameChallenge(r.text, s.text)
    /\ \A k \in keys : /\ k.text.store = "registration" /\ k.text.nonce \in regGranted
                       /\ k.text \in signed
                       /\ \A t \in keys : k.text.nonce = t.text.nonce => k = t
                       /\ \A r \in verifying : ~SameChallenge(r.text, k.text)

LEMMA EarnedInitially == SignInInit => EarnedInv
BY DEF SignInInit, EarnedInv

\* A request that starts to wait has just spent its challenge, which nobody
\* had spent before.
LEMMA AwaitKeeps ==
    ASSUME EarnedInv, NEW text, NEW valid \in BOOLEAN, Await(text, valid),
           text.store \in {"session", "registration"},
           text.nonce \notin SpentIn(text.store), text.nonce \in SpentIn(text.store)',
           granted \subseteq granted', regGranted \subseteq regGranted', UNCHANGED keys
    PROVE  EarnedInv'
<1> DEFINE new == [text |-> text, valid |-> valid]
<1>1. /\ verifying' = verifying \cup {new} /\ signed' = signed /\ sessions' = sessions
      /\ valid = TRUE => text \in signed
  BY DEF Await
<1>2. new.text = text /\ new.valid = valid
  OBVIOUS
<1> HIDE DEF new
<1>3. \A x : Waiting(x) => Waiting(x)'
  BY DEF Waiting, SpentIn
<1>4. Waiting(text)'
  BY DEF Waiting
<1>5. \A r \in verifying : ~SameChallenge(r.text, text) /\ ~SameChallenge(text, r.text)
  BY DEF EarnedInv, Waiting, SameChallenge, SpentIn
<1>6. /\ \A s \in sessions : ~SameChallenge(text, s.text)
      /\ \A k \in keys : ~SameChallenge(text, k.text)
  BY DEF EarnedInv, SameChallenge, SpentIn
<1> QED
  BY <1>1, <1>2, <1>3, <1>4, <1>5, <1>6 DEF EarnedInv

\* A step that leaves requests and grants alone: nothing spent is unspent,
\* nothing signed unsigned.
LEMMA QuietKeeps ==
    ASSUME EarnedInv, verifying' \subseteq verifying, UNCHANGED <<sessions, keys>>,
           granted \subseteq granted', regGranted \subseteq regGranted', signed \subseteq signed'
    PROVE  EarnedInv'
<1>1. \A x : Waiting(x) => Waiting(x)'
  BY DEF Waiting, SpentIn
<1> QED
  BY <1>1 DEF EarnedInv

LEMMA EarnedStep ==
    ASSUME StoresInv, EarnedInv, [SignInNext]_allVars
    PROVE  EarnedInv'
<1>1. ASSUME NEW e \in entries, NEW a \in Subjects, NEW o \in Origins, NEW valid \in BOOLEAN,
             HandleAuthSession(e, a, o, valid)
      PROVE  EarnedInv'
  <2> DEFINE text == [store |-> "session", nonce |-> e.nonce, address |-> a, origin |-> o]
  <2>1. /\ Await(text, valid) /\ UNCHANGED keys /\ regGranted' = regGranted
        /\ granted' = granted \cup {e.nonce}
    BY <1>1 DEF HandleAuthSession, Consume, Await, regVars
  <2>2. e.nonce \notin granted
    BY DEF StoresInv, IInv, SingleUse
  <2>3. text.store = "session" /\ text.nonce = e.nonce
    OBVIOUS
  <2> HIDE DEF text
  <2>4. text.nonce \notin SpentIn(text.store) /\ text.nonce \in SpentIn(text.store)'
    BY <2>1, <2>2, <2>3 DEF SpentIn
  <2> QED
    BY <2>1, <2>3, <2>4, AwaitKeeps
<1>2. ASSUME NEW e \in regEntries, NEW a \in Subjects, NEW o \in Origins, NEW valid \in BOOLEAN,
             HandleRegister(e, a, o, valid)
      PROVE  EarnedInv'
  <2> DEFINE text == [store |-> "registration", nonce |-> e.nonce, address |-> a, origin |-> o]
  <2>1. /\ Await(text, valid) /\ UNCHANGED keys /\ granted' = granted
        /\ regGranted' = regGranted \cup {e.nonce}
    BY <1>2 DEF HandleRegister, Reg!Consume, Await, authVars
  <2>2. e.nonce \notin regGranted
    BY DEF StoresInv, RegP!IInv, RegP!SingleUse
  <2>3. text.store = "registration" /\ text.nonce = e.nonce
    OBVIOUS
  <2> HIDE DEF text
  <2>4. text.nonce \notin SpentIn(text.store) /\ text.nonce \in SpentIn(text.store)'
    BY <2>1, <2>2, <2>3 DEF SpentIn
  <2> QED
    BY <2>1, <2>3, <2>4, AwaitKeeps
<1>3. ASSUME NEW request \in verifying, FinishSession(request) PROVE EarnedInv'
  <2> DEFINE new == [token |-> Cardinality(sessions) + 1, text |-> request.text]
  <2>1. /\ sessions' = sessions \cup {new} /\ verifying' = verifying \ {request}
        /\ keys' = keys /\ signed' = signed /\ granted' = granted /\ regGranted' = regGranted
        /\ request.text.store = "session" /\ request.valid
    BY <1>3 DEF FinishSession, Accepted, vars, regVars
  <2>2. new.text = request.text
    OBVIOUS
  <2> HIDE DEF new
  <2>3. request.text.nonce \in granted /\ request.text \in signed
    BY <2>1 DEF EarnedInv, Waiting, SpentIn
  <2>4. \A s \in sessions : s.text.nonce # request.text.nonce
    BY <2>1 DEF EarnedInv, SameChallenge
  <2>5. \A x : Waiting(x) => Waiting(x)'
    BY <2>1 DEF Waiting, SpentIn
  <2> QED
    BY <2>1, <2>2, <2>3, <2>4, <2>5 DEF EarnedInv, SameChallenge
<1>4. ASSUME NEW request \in verifying, FinishRegister(request) PROVE EarnedInv'
  <2> DEFINE new == [write |-> Cardinality(keys) + 1, text |-> request.text]
  <2>1. /\ keys' = keys \cup {new} /\ verifying' = verifying \ {request}
        /\ sessions' = sessions /\ signed' = signed /\ granted' = granted /\ regGranted' = regGranted
        /\ request.text.store = "registration" /\ request.valid
    BY <1>4 DEF FinishRegister, Accepted, vars, regVars
  <2>2. new.text = request.text
    OBVIOUS
  <2> HIDE DEF new
  <2>3. request.text.nonce \in regGranted /\ request.text \in signed
    BY <2>1 DEF EarnedInv, Waiting, SpentIn
  <2>4. \A k \in keys : k.text.nonce # request.text.nonce
    BY <2>1 DEF EarnedInv, SameChallenge
  <2>5. \A x : Waiting(x) => Waiting(x)'
    BY <2>1 DEF Waiting, SpentIn
  <2> QED
    BY <2>1, <2>2, <2>3, <2>4, <2>5 DEF EarnedInv, SameChallenge
<1>5. ASSUME NEW a \in Subjects, NEW o \in Origins,
             HandleAuthChallenge(a, o) \/ HandleRegisterChallenge(a, o)
      PROVE  EarnedInv'
  BY <1>5, QuietKeeps
     DEF HandleAuthChallenge, HandleRegisterChallenge, Issue, Reg!Issue, authVars, regVars, signVars
<1>6. ASSUME NEW text, Sign(text) PROVE EarnedInv'
  BY <1>6, QuietKeeps DEF Sign, vars, regVars
<1>7. ASSUME NEW request \in verifying, Refuse(request) PROVE EarnedInv'
  BY <1>7, QuietKeeps DEF Refuse, vars, regVars
<1>8. CASE HandleExpired
  BY <1>8, QuietKeeps DEF HandleExpired, ConsumeExpired, Reg!ConsumeExpired, authVars, regVars, signVars
<1>9. CASE CleanupBoth \/ RestartBoth \/ Pass
  BY <1>9, QuietKeeps DEF CleanupBoth, Cleanup, RestartBoth, Restart, Pass, Tick, regVars, signVars
<1>10. CASE UNCHANGED allVars
  BY <1>10, QuietKeeps DEF allVars, vars, regVars, signVars
<1> QED
  BY <1>1, <1>2, <1>3, <1>4, <1>5, <1>6, <1>7, <1>8, <1>9, <1>10 DEF SignInNext

-----------------------------------------------------------------------------

\* Sessions and registrations answer each to its own signature of the same
\* store, address and origin, for any number of challenges, identities and
\* requests in flight (handleAuthSession, handleRegister).
THEOREM GrantsEarned == SignInSpec => []GrantsAreEarned
<1>1. SignInInit => StoresInv /\ EarnedInv
  BY StoresInitially, EarnedInitially
<1>2. StoresInv /\ EarnedInv /\ [SignInNext]_allVars => (StoresInv /\ EarnedInv)'
  BY StoresStep, EarnedStep
<1>3. EarnedInv => GrantsAreEarned
  <2> SUFFICES ASSUME EarnedInv PROVE GrantsAreEarned
    OBVIOUS
  <2> DEFINE grants == sessions \cup {[token |-> k.write, text |-> k.text] : k \in keys}
  <2>1. ASSUME NEW s \in grants, NEW t \in grants, s.text = t.text PROVE s = t
    <3>1. ASSUME NEW g \in grants
          PROVE  \/ g \in sessions /\ g.text.store = "session"
                 \/ \E k \in keys : g = [token |-> k.write, text |-> k.text]
                                    /\ g.text = k.text /\ g.text.store = "registration"
      BY DEF EarnedInv
    <3> HIDE DEF grants
    <3>2. CASE s \in sessions /\ t \in sessions
      BY <2>1, <3>2 DEF EarnedInv
    <3>3. CASE ~(s \in sessions /\ t \in sessions)
      BY <2>1, <3>1, <3>3 DEF EarnedInv
    <3> QED
      BY <3>2, <3>3
  <2> QED
    BY <2>1 DEF EarnedInv, GrantsAreEarned
<1> QED
  BY <1>1, <1>2, <1>3, PTL DEF SignInSpec

\* The session store keeps its limit, its maps in step and its reasons to
\* lose a challenge while requests wait and the registration store works
\* beside it.
THEOREM SessionStoreCorrect == SignInSpec => [](MapsAgree /\ WithinLimit) /\ LostOnlyByRule
<1>1. SignInSpec => Spec
  BY AuthStoreSteps, PTL DEF SignInSpec, SignInInit, Spec
<1>2. TypeOK /\ MapsAgree /\ WithinLimit /\ SingleUse => MapsAgree /\ WithinLimit
  OBVIOUS
<1> QED
  BY <1>1, <1>2, ChallengesCorrect, LossesByRule, PTL
=============================================================================
