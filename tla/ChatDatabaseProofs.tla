------------------------- MODULE ChatDatabaseProofs -------------------------
(* What the database promises for every set of identities, envelopes,      *)
(* tokens and endpoints and every value of the time constants: of messages *)
(* and registrations, of the daily counts, and of push subscriptions.      *)
EXTENDS ChatDatabase, FiniteSetTheorems, WellFoundedInduction, TLAPS

-----------------------------------------------------------------------------
(* Lemmas about the row transitions of MessageTable *)

\* An accepted envelope is a row (createMessage).
LEMMA AcceptedRowType ==
    ASSUME NEW e \in Envelopes, NEW seq \in Nat, NEW now \in Nat
    PROVE  AcceptedRow(e, seq, now) \in Rows
BY EnvelopeAssumption, RetentionAssumption DEF AcceptedRow, Rows, Unopened

\* ... with a lifecycle the clients accept, live for all of Retention.
LEMMA AcceptedRowValid ==
    ASSUME NEW e \in Envelopes, NEW seq \in Nat, NEW now \in Nat
    PROVE  ValidLifecycle(AcceptedRow(e, seq, now))
BY DEF AcceptedRow, ValidLifecycle

\* An opened row is a row (openMessages).
LEMMA OpenedRowType ==
    ASSUME NEW r \in Rows, NEW now \in Nat
    PROVE  /\ OpenedRow(r, now) \in Rows
           /\ OpenedRow(r, now).opened = now
           /\ OpenedRow(r, now).seq = r.seq
<1>1. now + r.ttl \in Nat
  BY DEF Rows
<1> QED
  BY <1>1 DEF OpenedRow, Rows, Unopened

\* Opening a live unopened row gives a final lifecycle the clients accept,
\* and changes nothing else of the row.
LEMMA OpenedRowValid ==
    ASSUME NEW r \in Rows, NEW now \in Nat, ValidLifecycle(r), Live(r, now),
           ~IsFinal(r), r.created <= now
    PROVE  /\ ValidLifecycle(OpenedRow(r, now))
           /\ IsFinal(OpenedRow(r, now))
           /\ SameEnvelope(OpenedRow(r, now), r)
BY RetentionAssumption DEF OpenedRow, Rows, ValidLifecycle, IsFinal, Live, Unopened, SameEnvelope

\* A finite set enumerated without repetition is enumerated whole.
LEMMA ListingsAreComplete ==
    ASSUME NEW S, IsFiniteSet(S), NEW f \in [1..Cardinality(S) -> S],
           \A i, j \in 1..Cardinality(S) : i # j => f[i] # f[j]
    PROVE  \A r \in S : \E i \in 1..Cardinality(S) : f[i] = r
<1> DEFINE D == 1..Cardinality(S)
<1>1. Cardinality(S) \in Nat
  BY FS_CardinalityType
<1>2. IsFiniteSet(D) /\ Cardinality(D) = Cardinality(S)
  BY <1>1, FS_Interval
<1> HIDE DEF D
<1>3. f \in Injection(D, S)
  BY DEF Injection, IsInjective, D
<1>4. f \in Surjection(D, S)
  BY <1>2, <1>3, FS_Injection
<1> QED BY <1>4 DEF Surjection, D

\* Opening finitely many rows makes as many.
LEMMA OpenedFinite ==
    ASSUME NEW S, IsFiniteSet(S), NEW now
    PROVE  IsFiniteSet({OpenedRow(r, now) : r \in S})
<1> DEFINE T == {OpenedRow(r, now) : r \in S}
           f == [r \in S |-> OpenedRow(r, now)]
<1>1. f \in Surjection(S, T)
  BY DEF Surjection
<1> HIDE DEF f, T
<1>2. IsFiniteSet(T)
  BY <1>1, FS_Surjection
<1> QED
  BY <1>2 DEF T

\* Floor division stays below its dividend: Today is one of Days.
LEMMA TodayInDays ==
    ASSUME TypeOK
    PROVE  Today \in Days
BY DatabaseAssumption DEF TypeOK, Today, Days

\* Marking identities active only moves registered ones to the present.
LEMMA MarkActiveType ==
    ASSUME TypeOK, NEW S
    PROVE  MarkActive(S) \in [Addresses -> {Unregistered} \cup 0..MaxTime]
BY DEF TypeOK, MarkActive

\* recordDailyActivity keeps both of its tables well typed.
LEMMA RecordActivityType ==
    ASSUME TypeOK, NEW a \in Addresses, RecordActivity(a)
    PROVE  seen' \subseteq Counted /\ totals' \in [Days -> Nat]
BY TodayInDays DEF TypeOK, RecordActivity, CountOnce, Unpruned, Counted

\* The next rowid of push_subscriptions is a number: it counts some of the
\* rowids in use.
LEMMA RowidType == NextRowid \in Nat
<1>1. IsFiniteSet(1..MaxRowid)
  BY DatabaseAssumption, FS_Interval
<1>2. IsFiniteSet({n \in 1..MaxRowid : \E p \in push : p.rowid >= n})
  BY <1>1, FS_Subset
<1> QED
  BY <1>2, FS_CardinalityType DEF NextRowid

-----------------------------------------------------------------------------
(* Type correctness *)

LEMMA TypeInit == DbInit => TypeOK
BY DatabaseAssumption DEF DbInit, TypeOK, Days

\* Every write of db.ts, the clock, the sweep and a restart keep the types.
LEMMA TypeStep == TypeOK /\ [DbNext]_dbVars => TypeOK'
<1> SUFFICES ASSUME TypeOK, [DbNext]_dbVars PROVE TypeOK'
  OBVIOUS
<1> USE DatabaseAssumption
<1>1. CASE Tick
  BY <1>1 DEF TypeOK, Tick, registry, activity
<1>2. CASE Sweep
  BY <1>2 DEF TypeOK, Sweep, Unpruned
<1>3. CASE Restart
  BY <1>3 DEF TypeOK, Restart, Unpruned, registry
<1>4. ASSUME NEW e \in Envelopes, Create(e) PROVE TypeOK'
  <2>1. highWater' \in 0..MaxAccepted
    BY <1>4 DEF TypeOK, Create, NextSeq
  <2>2. messages' \subseteq Rows
    BY <1>4, AcceptedRowType DEF TypeOK, Create, NextSeq
  <2>3. lastActive' \in [Addresses -> {Unregistered} \cup 0..MaxTime]
    BY <1>4, MarkActiveType DEF Create
  <2>4. seen' \subseteq Counted /\ totals' \in [Days -> Nat]
    BY <1>4, RecordActivityType, EnvelopeAssumption DEF Create
  <2> QED
    BY <1>4, <2>1, <2>2, <2>3, <2>4 DEF TypeOK, Create
<1>5. ASSUME NEW a \in Addresses, NEW b \in Addresses, NEW ids \in SUBSET Ids, Open(a, b, ids)
      PROVE  TypeOK'
  <2>1. messages' \subseteq Rows
    BY <1>5, OpenedRowType DEF TypeOK, Open, Available, NewlyOpened
  <2>2. seen' \subseteq Counted /\ totals' \in [Days -> Nat]
    BY <1>5, RecordActivityType DEF TypeOK, Open, activity
  <2> QED
    BY <1>5, <2>1, <2>2 DEF TypeOK, Open, registry
<1>6. ASSUME NEW a \in Addresses, NEW b \in Addresses, Clear(a, b) PROVE TypeOK'
  BY <1>6 DEF TypeOK, Clear, registry, activity
<1>7. ASSUME NEW a \in Addresses, RegisterPubkey(a) PROVE TypeOK'
  BY <1>7 DEF TypeOK, RegisterPubkey, activity
<1>8. ASSUME NEW a \in Addresses, DeleteRegistration(a) PROVE TypeOK'
  BY <1>8 DEF TypeOK, DeleteRegistration, PushWithout, activity
<1>9. ASSUME NEW a \in Addresses, ReportAttention(a) PROVE TypeOK'
  BY <1>9, RecordActivityType DEF TypeOK, ReportAttention, registry
<1>10. ASSUME NEW t \in Tokens, DropExpiredSession(t) \/ DeleteSession(t) PROVE TypeOK'
  BY <1>10 DEF TypeOK, DropExpiredSession, DeleteSession, activity
<1>11. ASSUME NEW t \in Tokens, NEW a \in Addresses, CreateSession(t, a) PROVE TypeOK'
  <2>1. sessions' \subseteq Sessions
    BY <1>11 DEF TypeOK, CreateSession, Sessions
  <2> QED
    BY <1>11, <2>1, MarkActiveType DEF TypeOK, CreateSession, activity
<1>12. ASSUME NEW p \in Endpoints, NEW a \in Addresses, SavePushSubscription(a, p) PROVE TypeOK'
  <2>1. Upserted(a, p) \subseteq Subscriptions
    BY RowidType DEF TypeOK, Upserted, Subscriptions
  <2> QED
    BY <1>12, <2>1 DEF TypeOK, SavePushSubscription, Capped, activity
<1>13. ASSUME NEW p \in Endpoints, NEW owners, DeletePushSubscription(p, owners) PROVE TypeOK'
  BY <1>13 DEF TypeOK, DeletePushSubscription, activity
<1>14. CASE UNCHANGED dbVars
  BY <1>14 DEF TypeOK, dbVars
<1> QED
  BY <1>1, <1>2, <1>3, <1>4, <1>5, <1>6, <1>7, <1>8, <1>9, <1>10, <1>11, <1>12, <1>13, <1>14 DEF DbNext

\* Type correctness of the database (all of src/server/db.ts).
THEOREM TypeCorrect == DbSpec => []TypeOK
BY TypeInit, TypeStep, PTL DEF DbSpec

-----------------------------------------------------------------------------
(* The inductive invariant                                                  *)
(*                                                                          *)
(* RowsAreSound needs ids and sequence numbers to be unique together with   *)
(* the clock bounding every time of acceptance.  GoneOnlyWhenIdle needs two *)
(* facts more: registrations are at least as recent as their messages, and  *)
(* every stored lifetime came from an envelope, so it fits InactiveAfter.   *)

LifetimesFit == \A r \in messages : Retention - 1 + r.ttl <= InactiveAfter

IInv == TypeOK /\ RowsAreSound /\ ActiveSinceMessages /\ LifetimesFit

\* As far as the messages table goes a step deletes rows, accepts one or opens
\* some.
Shrinks == messages' \subseteq messages /\ highWater' = highWater /\ clock' >= clock

LEMMA StepKinds ==
    ASSUME TypeOK, [DbNext]_dbVars
    PROVE  \/ Shrinks
           \/ \E e \in Envelopes : Create(e)
           \/ \E a, b \in Addresses, ids \in SUBSET Ids : Open(a, b, ids)
<1>1. CASE Tick
  BY <1>1 DEF Tick, Shrinks, TypeOK
<1>2. CASE Sweep \/ Restart
  BY <1>2 DEF Sweep, Restart, Shrinks, TypeOK
<1>3. ASSUME NEW a \in Addresses, NEW b \in Addresses, Clear(a, b) PROVE Shrinks
  BY <1>3 DEF Clear, Shrinks, TypeOK
<1>4. ASSUME NEW a \in Addresses, RegisterPubkey(a) \/ DeleteRegistration(a) \/ ReportAttention(a)
      PROVE  Shrinks
  BY <1>4 DEF RegisterPubkey, DeleteRegistration, ReportAttention, Shrinks, TypeOK
<1>5. ASSUME NEW t \in Tokens, DropExpiredSession(t) \/ DeleteSession(t) PROVE Shrinks
  BY <1>5 DEF DropExpiredSession, DeleteSession, Shrinks, TypeOK
<1>6. ASSUME NEW t \in Tokens, NEW a \in Addresses, CreateSession(t, a) PROVE Shrinks
  BY <1>6 DEF CreateSession, Shrinks, TypeOK
<1>7. ASSUME NEW p \in Endpoints, NEW a \in Addresses, SavePushSubscription(a, p) PROVE Shrinks
  BY <1>7 DEF SavePushSubscription, Shrinks, TypeOK
<1>8. ASSUME NEW p \in Endpoints, NEW owners, DeletePushSubscription(p, owners) PROVE Shrinks
  BY <1>8 DEF DeletePushSubscription, Shrinks, TypeOK
<1>9. CASE UNCHANGED dbVars
  BY <1>9 DEF dbVars, Shrinks, TypeOK
<1> QED
  BY <1>1, <1>2, <1>3, <1>4, <1>5, <1>6, <1>7, <1>8, <1>9 DEF DbNext

\* Where a row of an opened table comes from.
LEMMA OpenOrigin ==
    ASSUME IInv, NEW a \in Addresses, NEW b \in Addresses, NEW ids \in SUBSET Ids,
           Open(a, b, ids), NEW q \in messages'
    PROVE  \E r \in messages :
             /\ SameEnvelope(q, r)
             /\ \/ q = r /\ r \notin NewlyOpened(Available(a, b, ids))
                \/ /\ r \in NewlyOpened(Available(a, b, ids))
                   /\ q = OpenedRow(r, clock)
                   /\ ~IsFinal(r) /\ Live(r, clock)
                   /\ ValidLifecycle(q) /\ IsFinal(q)
<1> DEFINE fresh == NewlyOpened(Available(a, b, ids))
<1>1. fresh \subseteq messages /\ \A r \in fresh : ~IsFinal(r) /\ Live(r, clock)
  BY DEF NewlyOpened, Available
<1>2. q \in messages \ fresh \/ \E r \in fresh : q = OpenedRow(r, clock)
  BY DEF Open
<1>3. CASE q \in messages \ fresh
  BY <1>3 DEF SameEnvelope
<1>4. ASSUME NEW r \in fresh, q = OpenedRow(r, clock)
      PROVE  SameEnvelope(q, r) /\ ValidLifecycle(q) /\ IsFinal(q)
  <2>1. r \in Rows /\ clock \in Nat /\ ValidLifecycle(r) /\ r.created <= clock
    BY <1>1 DEF IInv, TypeOK, RowsAreSound, LifecyclesAreValid
  <2> QED
    BY <1>1, <1>4, <2>1, OpenedRowValid
<1> QED
  BY <1>1, <1>2, <1>3, <1>4

-----------------------------------------------------------------------------
(* RowsAreSound is inductive *)

LEMMA SoundStep ==
    ASSUME IInv, [DbNext]_dbVars
    PROVE  RowsAreSound'
<1> USE DEF IInv, RowsAreSound
<1>0. clock \in Nat /\ highWater \in Nat /\ messages \subseteq Rows
  BY DEF TypeOK
<1>1. CASE Shrinks
  BY <1>0, <1>1, TypeStep
     DEF Shrinks, KeysAreUnique, LifecyclesAreValid, AcceptanceFollowsTime, ValidLifecycle, Rows, TypeOK, Unopened
<1>2. ASSUME NEW e \in Envelopes, Create(e) PROVE RowsAreSound'
  <2> DEFINE new == AcceptedRow(e, highWater + 1, clock)
  <2>1. messages' = messages \cup {new} /\ highWater' = highWater + 1 /\ clock' = clock
    BY <1>2 DEF Create, NextSeq
  <2>2. new.id = e.id /\ new.seq = highWater + 1 /\ new.created = clock /\ new.opened = Unopened
    BY DEF AcceptedRow
  <2>3. \A r \in messages : r.id # new.id /\ r.seq <= highWater /\ r.seq \in Nat
    BY <1>0, <1>2, <2>2 DEF Create, KeysAreUnique, Rows
  <2>4. KeysAreUnique'
    BY <1>0, <2>1, <2>2, <2>3 DEF KeysAreUnique
  <2>5. LifecyclesAreValid'
    <3>1. ValidLifecycle(new)
      BY <1>0, AcceptedRowValid
    <3> QED
      BY <1>0, <2>1, <2>2, <3>1 DEF LifecyclesAreValid, Unopened
  <2>6. AcceptanceFollowsTime'
    BY <1>0, <2>1, <2>2, <2>3 DEF AcceptanceFollowsTime, LifecyclesAreValid
  <2> QED
    BY <2>4, <2>5, <2>6
<1>3. ASSUME NEW a \in Addresses, NEW b \in Addresses, NEW ids \in SUBSET Ids, Open(a, b, ids)
      PROVE  RowsAreSound'
  <2>1. highWater' = highWater /\ clock' = clock
    BY <1>3 DEF Open
  <2>2. KeysAreUnique'
    <3>1. ASSUME NEW q1 \in messages', NEW q2 \in messages', q1.id = q2.id \/ q1.seq = q2.seq
          PROVE  q1 = q2
      BY <1>3, <3>1, OpenOrigin DEF KeysAreUnique, SameEnvelope
    <3>2. ASSUME NEW q \in messages' PROVE q.seq <= highWater
      BY <1>3, OpenOrigin DEF KeysAreUnique, SameEnvelope
    <3> QED
      BY <2>1, <3>1, <3>2 DEF KeysAreUnique
  <2>3. LifecyclesAreValid'
    <3>1. ASSUME NEW q \in messages'
          PROVE  ValidLifecycle(q) /\ q.created <= clock /\ q.opened <= clock
      <4>1. PICK r \in messages : SameEnvelope(q, r) /\ (q = r \/ (q = OpenedRow(r, clock) /\ ValidLifecycle(q)))
        BY <1>3, OpenOrigin
      <4>2. OpenedRow(r, clock).opened = clock
        BY <1>0, OpenedRowType
      <4> QED
        BY <1>0, <4>1, <4>2 DEF LifecyclesAreValid, SameEnvelope
    <3> QED
      BY <2>1, <3>1 DEF LifecyclesAreValid
  <2>4. AcceptanceFollowsTime'
    <3>1. ASSUME NEW q1 \in messages', NEW q2 \in messages', q1.seq < q2.seq
          PROVE  q1.created <= q2.created
      <4>1. PICK r1 \in messages : SameEnvelope(q1, r1)
        BY <1>3, OpenOrigin
      <4>2. PICK r2 \in messages : SameEnvelope(q2, r2)
        BY <1>3, OpenOrigin
      <4> QED
        BY <3>1, <4>1, <4>2 DEF AcceptanceFollowsTime, SameEnvelope
    <3> QED
      BY <3>1 DEF AcceptanceFollowsTime
  <2> QED
    BY <2>2, <2>3, <2>4
<1> QED
  BY <1>1, <1>2, <1>3, StepKinds

-----------------------------------------------------------------------------
(* The other two conjuncts and the invariant itself *)

\* A step that accepts nothing keeps the registrations as recent as the rows.
LEMMA ActiveStep ==
    ASSUME IInv, [DbNext]_dbVars
    PROVE  ActiveSinceMessages'
<1> USE DEF IInv
<1>0. /\ clock \in Nat /\ messages \subseteq Rows
      /\ \A a \in Addresses : lastActive[a] \in {Unregistered} \cup 0..MaxTime
      /\ \A r \in messages : r.created <= clock /\ r.created \in Nat
  BY DEF TypeOK, RowsAreSound, LifecyclesAreValid, Rows
<1>1. ASSUME NEW e \in Envelopes, Create(e) PROVE ActiveSinceMessages'
  <2> DEFINE new == AcceptedRow(e, highWater + 1, clock)
  <2>1. messages' = messages \cup {new} /\ lastActive' = MarkActive({e.sender, e.recipient})
    BY <1>1 DEF Create, NextSeq, Participants
  <2>2. new.sender = e.sender /\ new.recipient = e.recipient /\ new.created = clock
    BY DEF AcceptedRow
  <2>3. ASSUME NEW r \in messages', NEW a \in Addresses, Involves(r, a), lastActive'[a] # Unregistered
        PROVE  lastActive'[a] >= r.created
    <3>1. CASE a \in {e.sender, e.recipient}
      BY <1>0, <2>1, <2>2, <2>3, <3>1 DEF MarkActive
    <3>2. CASE a \notin {e.sender, e.recipient}
      BY <1>0, <2>1, <2>2, <2>3, <3>2 DEF MarkActive, ActiveSinceMessages, Involves
    <3> QED
      BY <3>1, <3>2
  <2> QED
    BY <2>3 DEF ActiveSinceMessages, Involves
<1>2. ASSUME NEW a \in Addresses, NEW b \in Addresses, NEW ids \in SUBSET Ids, Open(a, b, ids)
      PROVE  ActiveSinceMessages'
  <2>1. lastActive' = lastActive
    BY <1>2 DEF Open, registry
  <2>2. ASSUME NEW q \in messages', NEW c \in Addresses, Involves(q, c), lastActive[c] # Unregistered
        PROVE  lastActive[c] >= q.created
    <3>1. PICK r \in messages : SameEnvelope(q, r)
      BY <1>2, OpenOrigin
    <3> QED
      BY <2>2, <3>1 DEF SameEnvelope, ActiveSinceMessages, Involves
  <2> QED
    BY <2>1, <2>2 DEF ActiveSinceMessages, Involves
<1>3. ASSUME Shrinks,
             \A a \in Addresses : lastActive'[a] \in {lastActive[a], Unregistered, clock}
      PROVE  ActiveSinceMessages'
  BY <1>0, <1>3 DEF Shrinks, ActiveSinceMessages, Involves
<1>4. CASE Tick \/ Restart
  BY <1>3, <1>4 DEF Tick, Restart, registry, Shrinks, TypeOK
<1>5. CASE Sweep
  BY <1>3, <1>5 DEF Sweep, Shrinks, TypeOK
<1>6. ASSUME NEW a \in Addresses, NEW b \in Addresses, Clear(a, b) PROVE ActiveSinceMessages'
  BY <1>3, <1>6 DEF Clear, registry, Shrinks, TypeOK
<1>7. ASSUME NEW a \in Addresses, RegisterPubkey(a) \/ DeleteRegistration(a) \/ ReportAttention(a)
      PROVE  ActiveSinceMessages'
  BY <1>3, <1>7 DEF RegisterPubkey, DeleteRegistration, ReportAttention, registry, Shrinks, TypeOK
<1>8. ASSUME NEW t \in Tokens, DropExpiredSession(t) \/ DeleteSession(t) PROVE ActiveSinceMessages'
  BY <1>3, <1>8 DEF DropExpiredSession, DeleteSession, Shrinks, TypeOK
<1>9. ASSUME NEW t \in Tokens, NEW a \in Addresses, CreateSession(t, a) PROVE ActiveSinceMessages'
  BY <1>3, <1>9 DEF CreateSession, MarkActive, Shrinks, TypeOK
<1>10. ASSUME NEW p \in Endpoints, NEW a \in Addresses, SavePushSubscription(a, p)
       PROVE  ActiveSinceMessages'
  BY <1>3, <1>10 DEF SavePushSubscription, Shrinks, TypeOK
<1>11. ASSUME NEW p \in Endpoints, NEW owners, DeletePushSubscription(p, owners)
       PROVE  ActiveSinceMessages'
  BY <1>3, <1>11 DEF DeletePushSubscription, Shrinks, TypeOK
<1>12. CASE UNCHANGED dbVars
  BY <1>3, <1>12 DEF dbVars, Shrinks, TypeOK
<1> QED
  BY <1>1, <1>2, <1>4, <1>5, <1>6, <1>7, <1>8, <1>9, <1>10, <1>11, <1>12 DEF DbNext

\* Only an accepted envelope brings a lifetime, and those fit.
LEMMA LifetimesStep ==
    ASSUME IInv, [DbNext]_dbVars
    PROVE  LifetimesFit'
<1> USE DEF IInv
<1>1. CASE Shrinks
  BY <1>1 DEF Shrinks, LifetimesFit
<1>2. ASSUME NEW e \in Envelopes, Create(e) PROVE LifetimesFit'
  BY <1>2, LifetimeAssumption DEF Create, AcceptedRow, LifetimesFit
<1>3. ASSUME NEW a \in Addresses, NEW b \in Addresses, NEW ids \in SUBSET Ids, Open(a, b, ids)
      PROVE  LifetimesFit'
  BY <1>3, OpenOrigin DEF LifetimesFit, SameEnvelope
<1> QED
  BY <1>1, <1>2, <1>3, StepKinds

LEMMA IInvInit == DbInit => IInv
<1>1. DbInit => RowsAreSound /\ ActiveSinceMessages /\ LifetimesFit
  BY DEF DbInit, RowsAreSound, KeysAreUnique, LifecyclesAreValid, AcceptanceFollowsTime,
         ActiveSinceMessages, LifetimesFit
<1> QED
  BY <1>1, TypeInit DEF IInv

LEMMA IInvStep == IInv /\ [DbNext]_dbVars => IInv'
BY TypeStep, SoundStep, ActiveStep, LifetimesStep DEF IInv

LEMMA IInvCorrect == DbSpec => []IInv
BY IInvInit, IInvStep, PTL DEF DbSpec

\* Keys, lifecycles and acceptance order stay sound in every database the
\* server can produce (createMessage, openMessages, the acceptance trigger).
THEOREM RowsSound == DbSpec => []RowsAreSound
<1>1. IInv => RowsAreSound
  BY DEF IInv
<1> QED
  BY <1>1, IInvCorrect, PTL

\* Registrations are at least as recent as their messages (markAddressesActive).
THEOREM RegistrationsActive == DbSpec => []ActiveSinceMessages
<1>1. IInv => ActiveSinceMessages
  BY DEF IInv
<1> QED
  BY <1>1, IInvCorrect, PTL

-----------------------------------------------------------------------------
(* Action properties *)

\* Acceptances and openings are final, and nothing expired becomes live again
\* (openMessages; "expired messages cannot be revived").
THEOREM FinalDeadlines == DbSpec => DeadlinesAreFinal
<1> DEFINE Kept(r, q) == /\ SameEnvelope(r, q)
                         /\ IsFinal(r) => q = r
                         /\ ~Live(r, clock) => ~Live(q, clock')
<1>1. ASSUME IInv, [DbNext]_dbVars, NEW r \in messages, NEW q \in messages', r.seq = q.seq
      PROVE  Kept(r, q)
  <2> USE DEF IInv, RowsAreSound
  <2>0. clock \in Nat /\ r.expires \in Nat /\ r.seq \in Nat /\ highWater \in Nat
    BY <1>1 DEF TypeOK, Rows
  <2>1. CASE Shrinks
    <3>1. q = r
      BY <1>1, <2>1 DEF Shrinks, KeysAreUnique
    <3>2. ~Live(r, clock) => ~Live(r, clock')
      BY <1>1, <2>0, <2>1, TypeStep DEF Shrinks, Live, TypeOK
    <3> QED
      BY <3>1, <3>2 DEF SameEnvelope
  <2>2. ASSUME NEW e \in Envelopes, Create(e) PROVE Kept(r, q)
    <3>1. messages' = messages \cup {AcceptedRow(e, highWater + 1, clock)} /\ clock' = clock
      BY <2>2 DEF Create, NextSeq
    <3>2. q # AcceptedRow(e, highWater + 1, clock)
      BY <1>1, <2>0 DEF AcceptedRow, KeysAreUnique
    <3>3. q = r
      BY <1>1, <3>1, <3>2 DEF KeysAreUnique
    <3> QED
      BY <3>1, <3>3 DEF SameEnvelope
  <2>3. ASSUME NEW a \in Addresses, NEW b \in Addresses, NEW ids \in SUBSET Ids, Open(a, b, ids)
        PROVE  Kept(r, q)
    <3>1. PICK o \in messages : SameEnvelope(q, o) /\ (q = o \/ (~IsFinal(o) /\ Live(o, clock)))
      BY <1>1, <2>3, OpenOrigin
    <3>2. o = r
      BY <1>1, <3>1 DEF KeysAreUnique, SameEnvelope
    <3>3. clock' = clock
      BY <2>3 DEF Open
    <3> QED
      BY <3>1, <3>2, <3>3 DEF SameEnvelope
  <2> QED
    BY <1>1, <2>1, <2>2, <2>3, StepKinds
<1>2. IInv /\ [DbNext]_dbVars =>
        [\A r \in messages, q \in messages' : r.seq = q.seq =>
            /\ SameEnvelope(r, q)
            /\ IsFinal(r) => q = r
            /\ ~Live(r, clock) => ~Live(q, clock')]_dbVars
  BY <1>1
<1> QED
  BY <1>2, IInvCorrect, PTL DEF DbSpec, DeadlinesAreFinal

\* What a recovery checkpoint covers only ever shrinks (the acceptance trigger).
THEOREM CheckpointsShrink == DbSpec => CheckpointsOnlyShrink
<1>1. ASSUME IInv, [DbNext]_dbVars
      PROVE  /\ highWater' >= highWater
             /\ \A q \in messages' : q.seq <= highWater => \E r \in messages : r.seq = q.seq
  <2>0. highWater \in Nat
    BY <1>1 DEF IInv, TypeOK
  <2>1. CASE Shrinks
    BY <2>0, <2>1 DEF Shrinks
  <2>2. ASSUME NEW e \in Envelopes, Create(e)
        PROVE  /\ highWater' >= highWater
               /\ \A q \in messages' : q.seq <= highWater => \E r \in messages : r.seq = q.seq
    BY <2>0, <2>2 DEF Create, NextSeq, AcceptedRow
  <2>3. ASSUME NEW a \in Addresses, NEW b \in Addresses, NEW ids \in SUBSET Ids, Open(a, b, ids)
        PROVE  /\ highWater' >= highWater
               /\ \A q \in messages' : q.seq <= highWater => \E r \in messages : r.seq = q.seq
    <3>1. highWater' = highWater
      BY <2>3 DEF Open
    <3>2. \A q \in messages' : \E r \in messages : SameEnvelope(q, r)
      BY <1>1, <2>3, OpenOrigin
    <3> QED
      BY <2>0, <3>1, <3>2 DEF SameEnvelope
  <2> QED
    BY <1>1, <2>1, <2>2, <2>3, StepKinds DEF IInv
<1>2. IInv /\ [DbNext]_dbVars =>
        [/\ highWater' >= highWater
         /\ \A q \in messages' : q.seq <= highWater => \E r \in messages : r.seq = q.seq]_dbVars
  BY <1>1
<1> QED
  BY <1>2, IInvCorrect, PTL DEF DbSpec, CheckpointsOnlyShrink

\* A registration disappears only with no live message left (deleteRegistration
\* and deleteInactivePubkeys): 24 hours to open plus any lifetime fit the 30
\* days, and markAddressesActive restarts them with every message.
THEOREM RegistrationsOutliveMessages == DbSpec => GoneOnlyWhenIdle
<1> DEFINE Gone(a) == lastActive[a] # Unregistered /\ lastActive'[a] = Unregistered
<1>1. ASSUME IInv, [DbNext]_dbVars, NEW a \in Addresses, Gone(a),
             NEW r \in messages', Involves(r, a)
      PROVE  ~Live(r, clock')
  <2> USE DEF IInv
  <2>0. clock \in Nat /\ lastActive[a] \in Nat
    BY <1>1 DEF TypeOK
  <2>1. CASE Sweep
    <3>1. r \in messages /\ Inactive(a) /\ clock' = clock
      BY <1>1, <2>1 DEF Sweep
    <3>2. /\ r.created <= lastActive[a] /\ lastActive[a] < clock - InactiveAfter
          /\ ValidLifecycle(r) /\ Retention - 1 + r.ttl <= InactiveAfter
      BY <1>1, <3>1 DEF ActiveSinceMessages, RowsAreSound, LifecyclesAreValid, LifetimesFit, Inactive
    <3>3. /\ r.created \in Nat /\ r.expires \in Nat /\ r.ttl \in Nat \ {0}
          /\ r.opened \in Nat \cup {Unopened}
      BY <1>1, <3>1 DEF TypeOK, Rows
    <3>4. r.expires <= r.created + Retention - 1 + r.ttl
      BY <3>2, <3>3, RetentionAssumption DEF ValidLifecycle, Unopened
    <3>5. r.expires < clock
      BY <2>0, <3>2, <3>3, <3>4, RetentionAssumption, DatabaseAssumption
    <3> QED
      BY <2>0, <3>1, <3>3, <3>5 DEF Live
  <2>2. ASSUME NEW b \in Addresses, DeleteRegistration(b) PROVE ~Live(r, clock')
    BY <1>1, <2>2 DEF DeleteRegistration, Involves, TypeOK
  <2>3. ASSUME \A b \in Addresses : lastActive'[b] \in {lastActive[b], clock} PROVE FALSE
    BY <1>1, <2>0, <2>3 DEF Unregistered
  <2>4. CASE Tick \/ Restart
    BY <2>3, <2>4 DEF Tick, Restart, registry
  <2>5. ASSUME NEW e \in Envelopes, Create(e) PROVE FALSE
    BY <2>3, <2>5 DEF Create, MarkActive
  <2>6. ASSUME NEW b \in Addresses, NEW c \in Addresses, NEW ids \in SUBSET Ids,
               Open(b, c, ids) \/ Clear(b, c)
        PROVE  FALSE
    BY <2>3, <2>6 DEF Open, Clear, registry
  <2>7. ASSUME NEW b \in Addresses, RegisterPubkey(b) \/ ReportAttention(b) PROVE FALSE
    BY <1>1, <2>3, <2>7 DEF RegisterPubkey, ReportAttention, registry, TypeOK
  <2>8. ASSUME NEW t \in Tokens, DropExpiredSession(t) \/ DeleteSession(t) PROVE FALSE
    BY <2>3, <2>8 DEF DropExpiredSession, DeleteSession
  <2>9. ASSUME NEW t \in Tokens, NEW b \in Addresses, CreateSession(t, b) PROVE FALSE
    BY <2>3, <2>9 DEF CreateSession, MarkActive
  <2>10. ASSUME NEW p \in Endpoints, NEW b \in Addresses, SavePushSubscription(b, p) PROVE FALSE
    BY <2>3, <2>10 DEF SavePushSubscription
  <2>11. ASSUME NEW p \in Endpoints, NEW owners, DeletePushSubscription(p, owners) PROVE FALSE
    BY <2>3, <2>11 DEF DeletePushSubscription
  <2>12. CASE UNCHANGED dbVars
    BY <2>3, <2>12 DEF dbVars
  <2> QED
    BY <1>1, <2>1, <2>2, <2>4, <2>5, <2>6, <2>7, <2>8, <2>9, <2>10, <2>11, <2>12 DEF DbNext
<1>2. IInv /\ [DbNext]_dbVars =>
        [\A a \in Addresses : lastActive[a] # Unregistered /\ lastActive'[a] = Unregistered
            => \A r \in messages' : Involves(r, a) => ~Live(r, clock')]_dbVars
  BY <1>1
<1> QED
  BY <1>2, IInvCorrect, PTL DEF DbSpec, GoneOnlyWhenIdle

\* No write loses a single unexpired message: one disappears only with its
\* whole conversation (clearConversation, deleteRegistration).
THEOREM UnexpiredTogether == DbSpec => UnexpiredGoTogether
<1>1. ASSUME IInv, [DbNext]_dbVars, NEW r \in messages, Live(r, clock),
             \A q \in messages' : q.seq # r.seq,
             NEW q \in messages', Between(q, r.sender, r.recipient)
      PROVE  FALSE
  <2> USE DEF IInv
  <2>0. r \in Rows /\ clock \in Nat
    BY <1>1 DEF TypeOK
  <2>1. r \notin messages'
    BY <1>1
  <2>2. CASE Sweep
    BY <2>0, <1>1, <2>1, <2>2 DEF Sweep, Expired, Live, Rows
  <2>3. ASSUME NEW a \in Addresses, NEW b \in Addresses, Clear(a, b) PROVE FALSE
    <3>1. Between(r, a, b)
      BY <1>1, <2>1, <2>3 DEF Clear, Cleared
    <3>2. q \in messages /\ q.created <= clock /\ ~Between(q, a, b)
      BY <1>1, <2>3 DEF Clear, Cleared, RowsAreSound, LifecyclesAreValid
    <3> QED
      BY <1>1, <3>1, <3>2 DEF Between
  <2>4. ASSUME NEW a \in Addresses, DeleteRegistration(a) PROVE FALSE
    BY <1>1, <2>1, <2>4 DEF DeleteRegistration, Involves, Between
  <2>5. ASSUME NEW e \in Envelopes, Create(e) PROVE FALSE
    BY <1>1, <2>1, <2>5 DEF Create
  <2>6. ASSUME NEW a \in Addresses, NEW b \in Addresses, NEW ids \in SUBSET Ids, Open(a, b, ids)
        PROVE  FALSE
    <3>1. OpenedRow(r, clock) \in messages'
      BY <1>1, <2>1, <2>6 DEF Open
    <3>2. OpenedRow(r, clock).seq = r.seq
      BY <2>0, OpenedRowType
    <3> QED
      BY <1>1, <3>1, <3>2
  <2>7. CASE messages' = messages
    BY <1>1, <2>1, <2>7
  <2>8. CASE Tick \/ Restart
    BY <2>7, <2>8 DEF Tick, Restart
  <2>9. ASSUME NEW a \in Addresses, RegisterPubkey(a) \/ ReportAttention(a) PROVE FALSE
    BY <2>7, <2>9 DEF RegisterPubkey, ReportAttention
  <2>10. ASSUME NEW t \in Tokens, DropExpiredSession(t) \/ DeleteSession(t) PROVE FALSE
    BY <2>7, <2>10 DEF DropExpiredSession, DeleteSession
  <2>11. ASSUME NEW t \in Tokens, NEW a \in Addresses, CreateSession(t, a) PROVE FALSE
    BY <2>7, <2>11 DEF CreateSession
  <2>12. ASSUME NEW p \in Endpoints, NEW a \in Addresses, SavePushSubscription(a, p) PROVE FALSE
    BY <2>7, <2>12 DEF SavePushSubscription
  <2>13. ASSUME NEW p \in Endpoints, NEW owners, DeletePushSubscription(p, owners) PROVE FALSE
    BY <2>7, <2>13 DEF DeletePushSubscription
  <2>14. CASE UNCHANGED dbVars
    BY <2>7, <2>14 DEF dbVars
  <2> QED
    BY <1>1, <2>2, <2>3, <2>4, <2>5, <2>6, <2>8, <2>9, <2>10, <2>11, <2>12, <2>13, <2>14 DEF DbNext
<1>2. IInv /\ [DbNext]_dbVars =>
        [\A r \in messages :
            Live(r, clock) /\ (\A q \in messages' : q.seq # r.seq)
              => \A q \in messages' : ~Between(q, r.sender, r.recipient)]_dbVars
  BY <1>1
<1> QED
  BY <1>2, IInvCorrect, PTL DEF DbSpec, UnexpiredGoTogether

-----------------------------------------------------------------------------
(* What the modules that compose the database build on *)

\* The route refuses a message to oneself, so that an opening request for
\* one's own messages finds none.
NoneToOneself == \A r \in messages : r.sender # r.recipient

\* Opening one's messages to oneself, of which there are none, writes nothing.
LEMMA OpenOwnIsIdle ==
    ASSUME NoneToOneself, NEW a, NEW ids, Open(a, a, ids)
    PROVE  UNCHANGED dbVars
<1>1. Available(a, a, ids) = {}
  BY DEF Available, NoneToOneself
<1>2. NewlyOpened(Available(a, a, ids)) = {}
  BY <1>1 DEF NewlyOpened
<1> QED
  BY <1>1, <1>2 DEF Open, registry, activity, dbVars

LEMMA NoneToOneselfStep ==
    ASSUME TypeOK, NoneToOneself, [DbNext]_dbVars
    PROVE  NoneToOneself'
<1>1. CASE Shrinks
  BY <1>1 DEF Shrinks, NoneToOneself
<1>2. ASSUME NEW e \in Envelopes, Create(e) PROVE NoneToOneself'
  <2> DEFINE new == AcceptedRow(e, NextSeq, clock)
  <2>1. new.sender # new.recipient
    BY EnvelopeAssumption DEF AcceptedRow
  <2> HIDE DEF new
  <2>2. messages' = messages \cup {new}
    BY <1>2 DEF Create, new
  <2> QED
    BY <2>1, <2>2 DEF NoneToOneself
<1>3. ASSUME NEW a, NEW b, NEW ids, Open(a, b, ids) PROVE NoneToOneself'
  <2>1. ASSUME NEW r \in messages
        PROVE  OpenedRow(r, clock).sender = r.sender /\ OpenedRow(r, clock).recipient = r.recipient
    BY DEF TypeOK, Rows, OpenedRow
  <2>2. messages' \subseteq messages \cup {OpenedRow(r, clock) : r \in messages}
    BY <1>3 DEF Open, NewlyOpened, Available
  <2> QED
    BY <2>1, <2>2 DEF NoneToOneself
<1> QED
  BY <1>1, <1>2, <1>3, StepKinds

\* The table is finite: a page of it can be counted, and an opening's updates
\* listed.
LEMMA FiniteStep ==
    ASSUME TypeOK, IsFiniteSet(messages), [DbNext]_dbVars
    PROVE  IsFiniteSet(messages')
<1>1. CASE Shrinks
  BY <1>1, FS_Subset DEF Shrinks
<1>2. ASSUME NEW e \in Envelopes, Create(e) PROVE IsFiniteSet(messages')
  BY <1>2, FS_AddElement DEF Create
<1>3. ASSUME NEW a \in Addresses, NEW b \in Addresses, NEW ids \in SUBSET Ids, Open(a, b, ids)
      PROVE  IsFiniteSet(messages')
  <2> DEFINE fresh == NewlyOpened(Available(a, b, ids))
  <2>1. fresh \subseteq messages
    BY DEF NewlyOpened, Available
  <2>2. messages' = (messages \ fresh) \cup {OpenedRow(r, clock) : r \in fresh}
    BY <1>3 DEF Open
  <2> HIDE DEF fresh
  <2>3. IsFiniteSet(fresh) /\ IsFiniteSet(messages \ fresh)
    BY <2>1, FS_Subset
  <2>4. IsFiniteSet({OpenedRow(r, clock) : r \in fresh})
    BY <2>3, OpenedFinite
  <2> QED
    BY <2>2, <2>3, <2>4, FS_Union
<1> QED
  BY <1>1, <1>2, <1>3, StepKinds

-----------------------------------------------------------------------------
(* Daily activity.  The inductive invariant adds that nothing is counted   *)
(* for a day to come, so that a new day starts from zero.                  *)

CountedToday(s) == {c \in s : c.day = Today}

NothingAhead == \A d \in Days : d > Today => totals[d] = 0

ActivityInv == /\ TypeOK /\ IsFiniteSet(seen) /\ NothingAhead
               /\ totals[Today] = Cardinality(CountedToday(seen))
               /\ \A c \in seen : c.day <= Today

\* Days pass one after the other, and never back.
LEMMA DaysPass ==
    ASSUME NEW n \in Nat, NEW d \in Nat \ {0}
    PROVE  n \div d \in Nat /\ n \div d <= (n + 1) \div d
OBVIOUS

LEMMA TodayType == TypeOK => Today \in Nat /\ Today \in Days
BY TodayInDays, DaysPass, DatabaseAssumption DEF TypeOK, Today

LEMMA ActivityInitially == DbInit => ActivityInv
<1> SUFFICES ASSUME DbInit PROVE ActivityInv
  OBVIOUS
<1>1. TypeOK
  BY TypeInit
<1>2. Today \in Days /\ seen = {} /\ totals = [d \in Days |-> 0]
  BY <1>1, TodayType DEF DbInit
<1>3. CountedToday(seen) = {}
  BY <1>2 DEF CountedToday
<1> QED
  BY <1>1, <1>2, <1>3, FS_EmptySet DEF ActivityInv, NothingAhead

\* Pruning the days before today leaves today's identities.
LEMMA PruneKeepsToday ==
    ASSUME ActivityInv
    PROVE  /\ IsFiniteSet(Unpruned(seen)) /\ CountedToday(Unpruned(seen)) = CountedToday(seen)
           /\ \A c \in Unpruned(seen) : c.day <= Today
<1>1. Today \in Nat
  BY TodayType DEF ActivityInv
<1>2. IsFiniteSet(Unpruned(seen))
  BY FS_Subset DEF ActivityInv, Unpruned
<1> QED
  BY <1>1, <1>2 DEF ActivityInv, Unpruned, CountedToday

\* The first activity of a day adds one to both sides, every later one to
\* neither (recordDailyActivity).
LEMMA RecordKeeps ==
    ASSUME ActivityInv, NEW a \in Addresses, RecordActivity(a), clock' = clock, TypeOK'
    PROVE  ActivityInv'
<1> DEFINE me == [day |-> Today, identity |-> a]
           pruned == Unpruned(seen)
<1>1. /\ Today' = Today /\ Today \in Days /\ me.day = Today
      /\ seen' = pruned \cup {me} /\ totals' = CountOnce(a)
      /\ me \in seen <=> me \in pruned
  <2>1. Today' = Today /\ Today \in Days /\ Today \in Nat
    BY TodayType DEF Today, ActivityInv
  <2> QED
    BY <2>1 DEF RecordActivity, Unpruned
<1> HIDE DEF me, pruned
<1>2. /\ IsFiniteSet(pruned) /\ CountedToday(pruned) = CountedToday(seen)
      /\ \A c \in pruned : c.day <= Today
  BY PruneKeepsToday DEF pruned
<1>3. IsFiniteSet(seen')
  BY <1>1, <1>2, FS_AddElement
<1>4. \A c \in seen' : c.day <= Today
  BY <1>1, <1>2, TodayType DEF ActivityInv
<1>5. CountedToday(seen') = CountedToday(pruned) \cup {me}
  BY <1>1 DEF CountedToday
<1>6. IsFiniteSet(CountedToday(pruned)) /\ (me \in CountedToday(pruned) <=> me \in seen)
  BY <1>1, <1>2, FS_Subset DEF CountedToday
<1>7. totals \in [Days -> Nat]
  BY DEF ActivityInv, TypeOK
<1>8. totals'[Today] = Cardinality(CountedToday(seen'))
  <2>1. CASE me \in seen
    <3>1. totals' = totals
      BY <1>1, <2>1 DEF CountOnce, me
    <3>2. CountedToday(seen') = CountedToday(seen)
      BY <1>2, <1>5, <1>6, <2>1
    <3> QED
      BY <3>1, <3>2 DEF ActivityInv
  <2>2. CASE me \notin seen
    <3>1. totals' = [totals EXCEPT ![Today] = @ + 1]
      BY <1>1, <2>2 DEF CountOnce, me
    <3>2. Cardinality(CountedToday(seen')) = Cardinality(CountedToday(seen)) + 1
      BY <1>2, <1>5, <1>6, <2>2, FS_AddElement
    <3> QED
      BY <1>1, <1>7, <3>1, <3>2 DEF ActivityInv
  <2> QED
    BY <2>1, <2>2
<1>9. ASSUME NEW d \in Days, d > Today PROVE totals'[d] = 0
  <2>1. d # Today
    BY <1>9, TodayType DEF ActivityInv
  <2> QED
    BY <1>1, <1>7, <1>9, <2>1 DEF CountOnce, ActivityInv, NothingAhead
<1> QED
  BY <1>1, <1>3, <1>4, <1>8, <1>9 DEF ActivityInv, NothingAhead, CountedToday

\* initDb and the sweep prune.
LEMMA PruneKeeps ==
    ASSUME ActivityInv, seen' = Unpruned(seen), totals' = totals, clock' = clock, TypeOK'
    PROVE  ActivityInv'
<1>1. Today' = Today
  BY DEF Today
<1>2. /\ IsFiniteSet(seen') /\ CountedToday(seen') = CountedToday(seen)
      /\ \A c \in seen' : c.day <= Today
  BY PruneKeepsToday
<1> QED
  BY <1>1, <1>2 DEF ActivityInv, NothingAhead, CountedToday

\* Midnight: the new day's total is still zero, and nobody was counted in it.
LEMMA TickKeeps ==
    ASSUME ActivityInv, Tick, TypeOK'
    PROVE  ActivityInv'
<1>1. /\ seen' = seen /\ totals' = totals /\ clock' = clock + 1 /\ clock \in Nat
  BY DEF Tick, activity, ActivityInv, TypeOK
<1>2. Today \in Nat /\ Today' \in Nat /\ Today' \in Days /\ Today <= Today'
  <2>1. Today <= Today'
    BY <1>1, DaysPass, DatabaseAssumption DEF Today
  <2>2. Today' \in Days
    BY <1>1, DatabaseAssumption DEF Today, Days, TypeOK
  <2> QED
    BY <2>1, <2>2, TodayType DEF ActivityInv, Days
<1>3. seen \subseteq Counted /\ \A c \in seen : c.day <= Today /\ c.day \in Nat
  BY DEF ActivityInv, TypeOK, Counted, Days
<1>4. \A c \in seen' : c.day <= Today'
  BY <1>1, <1>2, <1>3
<1>5. \A d \in Days : d > Today' => totals'[d] = 0
  BY <1>1, <1>2 DEF ActivityInv, NothingAhead, Days
<1>6. totals'[Today'] = Cardinality({c \in seen' : c.day = Today'})
  <2>1. CASE Today' = Today
    BY <1>1, <2>1 DEF ActivityInv, CountedToday
  <2>2. CASE Today' > Today
    <3>1. totals'[Today'] = 0
      BY <1>1, <1>2, <2>2 DEF ActivityInv, NothingAhead
    <3>2. {c \in seen' : c.day = Today'} = {}
      BY <1>1, <1>2, <1>3, <2>2
    <3> QED
      BY <3>1, <3>2, FS_EmptySet
  <2> QED
    BY <1>2, <2>1, <2>2
<1> QED
  BY <1>1, <1>4, <1>5, <1>6 DEF ActivityInv, NothingAhead, CountedToday

LEMMA ActivityStep == ActivityInv /\ [DbNext]_dbVars => ActivityInv'
<1> SUFFICES ASSUME ActivityInv, [DbNext]_dbVars PROVE ActivityInv'
  OBVIOUS
<1>1. TypeOK'
  BY TypeStep DEF ActivityInv
<1>2. CASE Tick
  BY <1>1, <1>2, TickKeeps
<1>3. CASE Sweep \/ Restart
  BY <1>1, <1>3, PruneKeeps DEF Sweep, Restart
<1>4. CASE UNCHANGED <<seen, totals, clock>>
  <2>1. Today' = Today
    BY <1>4 DEF Today
  <2> QED
    BY <1>1, <1>4, <2>1 DEF ActivityInv, NothingAhead, CountedToday
<1>5. ASSUME NEW e \in Envelopes, Create(e) PROVE ActivityInv'
  BY <1>1, <1>5, RecordKeeps, EnvelopeAssumption DEF Create
<1>6. ASSUME NEW a \in Addresses, NEW b \in Addresses, NEW ids, Open(a, b, ids) PROVE ActivityInv'
  BY <1>1, <1>4, <1>6, RecordKeeps DEF Open, activity
<1>7. ASSUME NEW a \in Addresses, ReportAttention(a) PROVE ActivityInv'
  BY <1>1, <1>7, RecordKeeps DEF ReportAttention
<1>8. \/ Tick \/ Sweep \/ Restart \/ UNCHANGED <<seen, totals, clock>>
      \/ \E e \in Envelopes : Create(e)
      \/ \E a, b \in Addresses, ids \in SUBSET Ids : Open(a, b, ids)
      \/ \E a \in Addresses : ReportAttention(a)
  BY DEF DbNext, dbVars, Clear, RegisterPubkey, DeleteRegistration, DropExpiredSession, DeleteSession,
         CreateSession, SavePushSubscription, DeletePushSubscription, activity
<1> QED
  BY <1>2, <1>3, <1>4, <1>5, <1>6, <1>7, <1>8

\* The total of the current day is the number of identities active that day,
\* each counted once: across midnights, restarts and prunes
\* (recordDailyActivity, pruneDailyActivity).
THEOREM ActivityCountedOnce == DbSpec => []TodayIsCountedOnce
<1>1. ActivityInv => TodayIsCountedOnce
  BY DEF ActivityInv, TodayIsCountedOnce, CountedToday
<1> QED
  BY <1>1, ActivityInitially, ActivityStep, PTL DEF DbSpec

-----------------------------------------------------------------------------
(* Push subscriptions.  The cap keeps the newest of an identity, which is  *)
(* a bound on their number because creation time and rowid order them; the *)
(* invariant adds that rowids in use differ.                               *)

SubscriptionInv ==
    /\ TypeOK /\ IsFiniteSet(push) /\ SubscriptionsAreSound
    /\ \A p \in push : p.rowid \in 1..MaxRowid
    /\ \A p, q \in push : p.rowid = q.rowid => p = q

SubscriptionsOf(rows, a) == {p \in rows : p.address = a}

\* Those of S that are newer than p.
NewerIn(S, p) == {q \in S : Newer(q, p)}

\* Of any set of subscriptions at most k have fewer than k newer ones.
LEMMA FewAreNewest ==
    ASSUME NEW S \in SUBSET Subscriptions, IsFiniteSet(S), NEW k \in Nat,
           \A p, q \in S : p.rowid = q.rowid => p = q
    PROVE  Cardinality({p \in S : Cardinality(NewerIn(S, p)) < k}) <= k
<1> DEFINE T == {p \in S : Cardinality(NewerIn(S, p)) < k}
           f == [p \in T |-> Cardinality(NewerIn(S, p))]
<1>1. ASSUME NEW p \in S PROVE IsFiniteSet(NewerIn(S, p)) /\ Cardinality(NewerIn(S, p)) \in Nat
  BY FS_Subset, FS_CardinalityType DEF NewerIn
<1>2. \A p \in S : p.created \in Nat /\ p.rowid \in Nat
  BY DEF Subscriptions
<1>3. ASSUME NEW p \in S, NEW q \in S, Newer(p, q)
      PROVE  Cardinality(NewerIn(S, p)) # Cardinality(NewerIn(S, q))
  <2>1. NewerIn(S, p) \subseteq NewerIn(S, q)
    BY <1>2, <1>3 DEF NewerIn, Newer
  <2>2. p \in NewerIn(S, q) /\ p \notin NewerIn(S, p)
    BY <1>2, <1>3 DEF NewerIn, Newer
  <2>3. IsFiniteSet(NewerIn(S, q))
    BY <1>1
  <2> QED
    BY <2>1, <2>2, <2>3, FS_Subset
<1>4. \A p, q \in S : p # q => Newer(p, q) \/ Newer(q, p)
  BY <1>2 DEF Newer
<1>5. f \in [T -> 0..(k - 1)]
  <2>1. \A p \in T : Cardinality(NewerIn(S, p)) \in 0..(k - 1)
    BY <1>1
  <2> QED
    BY <2>1
<1>6. \A p, q \in T : f[p] = f[q] => p = q
  BY <1>3, <1>4
<1>7. f \in Injection(T, 0..(k - 1))
  <2> HIDE DEF f, T
  <2> QED
    BY <1>5, <1>6 DEF Injection, IsInjective
<1>8. IsFiniteSet(0..(k - 1)) /\ Cardinality(0..(k - 1)) = k
  BY FS_Interval
<1> HIDE DEF f, T
<1>9. Cardinality(T) <= k
  BY <1>7, <1>8, FS_Injection
<1> QED
  BY <1>9 DEF T

\* A new rowid is larger than any in use.
LEMMA NextRowidIsNew ==
    ASSUME SubscriptionInv, NEW p \in push
    PROVE  NextRowid > p.rowid
<1> DEFINE R == {n \in 1..MaxRowid : \E q \in push : q.rowid >= n}
<1>1. p.rowid \in 1..MaxRowid
  BY DEF SubscriptionInv
<1>2. IsFiniteSet(R)
  <2>1. IsFiniteSet(1..MaxRowid)
    BY DatabaseAssumption, FS_Interval
  <2> QED
    BY <2>1, FS_Subset
<1>3. 1..p.rowid \subseteq R
  BY <1>1, DatabaseAssumption
<1>4. Cardinality(1..p.rowid) = p.rowid
  BY <1>1, FS_Interval
<1>5. Cardinality(1..p.rowid) <= Cardinality(R) /\ Cardinality(R) \in Nat
  BY <1>2, <1>3, FS_Subset, FS_CardinalityType
<1> QED
  BY <1>1, <1>4, <1>5 DEF NextRowid

\* Subscriptions go, nobody's registration under those that stay.
LEMMA SubscriptionsLeave ==
    ASSUME SubscriptionInv, TypeOK', push' \subseteq push,
           \A p \in push' : lastActive'[p.address] # Unregistered
    PROVE  SubscriptionInv'
<1>1. IsFiniteSet(push')
  BY FS_Subset DEF SubscriptionInv
<1>2. ASSUME NEW a \in Addresses PROVE Cardinality(SubscriptionsOf(push', a)) <= MaxPush
  <2>1. /\ SubscriptionsOf(push', a) \subseteq SubscriptionsOf(push, a)
        /\ IsFiniteSet(SubscriptionsOf(push, a)) /\ IsFiniteSet(SubscriptionsOf(push', a))
    BY <1>1, FS_Subset DEF SubscriptionInv, SubscriptionsOf
  <2>2. /\ Cardinality(SubscriptionsOf(push', a)) <= Cardinality(SubscriptionsOf(push, a))
        /\ Cardinality(SubscriptionsOf(push', a)) \in Nat
        /\ Cardinality(SubscriptionsOf(push, a)) \in Nat
    BY <2>1, FS_Subset, FS_CardinalityType
  <2>3. Cardinality(SubscriptionsOf(push, a)) <= MaxPush
    BY DEF SubscriptionInv, SubscriptionsAreSound, SubscriptionsOf
  <2> QED
    BY <2>2, <2>3, DatabaseAssumption
<1> QED
  BY <1>1, <1>2 DEF SubscriptionInv, SubscriptionsAreSound, SubscriptionsOf

\* savePushSubscription: the endpoint's old row goes, the cap is applied to
\* the identity it now belongs to.
LEMMA SaveKeeps ==
    ASSUME SubscriptionInv, TypeOK', NEW p \in Endpoints, NEW a \in Addresses,
           SavePushSubscription(a, p)
    PROVE  SubscriptionInv'
<1> DEFINE old  == {q \in push : q.endpoint = p}
           n    == IF old = {} THEN NextRowid ELSE (CHOOSE q \in old : TRUE).rowid
           new  == [endpoint |-> p, address |-> a, created |-> clock, rowid |-> n]
           rows == (push \ old) \cup {new}
           mine == SubscriptionsOf(rows, a)
<1>1. /\ push' = Capped(rows, a) /\ lastActive' = lastActive /\ lastActive[a] # Unregistered
      /\ NextRowid <= MaxRowid
  BY DEF SavePushSubscription, Upserted
<1>2. /\ push \subseteq Subscriptions /\ clock \in Nat
      /\ \A q \in push : q.rowid \in 1..MaxRowid
      /\ \A q, r \in push : q.rowid = r.rowid => q = r
  BY DEF SubscriptionInv, TypeOK
<1>3. n \in 1..MaxRowid /\ \A q \in push \ old : q.rowid # n
  <2>1. CASE old = {}
    <3>1. n = NextRowid /\ \A q \in push : NextRowid > q.rowid
      BY <2>1, NextRowidIsNew
    <3>2. NextRowid \in Nat
      BY RowidType
    <3>3. NextRowid >= 1
      <4>1. IsFiniteSet(1..MaxRowid)
        BY DatabaseAssumption, FS_Interval
      <4>2. Cardinality({m \in 1..MaxRowid : \E q \in push : q.rowid >= m}) \in Nat
        BY <4>1, FS_Subset, FS_CardinalityType
      <4> QED
        BY <4>2 DEF NextRowid
    <3> QED
      BY <1>1, <1>2, <3>1, <3>2, <3>3, DatabaseAssumption
  <2>2. CASE old # {}
    <3> DEFINE o == CHOOSE q \in old : TRUE
    <3>1. o \in old /\ n = o.rowid
      BY <2>2
    <3> HIDE DEF o, n
    <3> QED
      BY <1>2, <3>1
  <2> QED
    BY <2>1, <2>2
<1> HIDE DEF n
<1>4. new \in Subscriptions /\ new.rowid = n /\ new.endpoint = p /\ new.address = a
  BY <1>2, <1>3, DatabaseAssumption DEF Subscriptions
<1> HIDE DEF new
<1>5. /\ rows \subseteq Subscriptions
      /\ \A q \in rows : q.rowid \in 1..MaxRowid
      /\ \A q, r \in rows : q.rowid = r.rowid => q = r
      /\ \A q, r \in rows : q.endpoint = r.endpoint => q = r
      /\ \A q \in rows : lastActive[q.address] # Unregistered
  BY <1>1, <1>2, <1>3, <1>4 DEF SubscriptionInv, SubscriptionsAreSound
<1>6. IsFiniteSet(rows)
  <2>1. IsFiniteSet(push \ old)
    BY FS_Difference DEF SubscriptionInv
  <2> QED
    BY <2>1, FS_AddElement
<1>7. push' \subseteq rows
  BY <1>1 DEF Capped
<1>8. ASSUME NEW b \in Addresses PROVE Cardinality(SubscriptionsOf(push', b)) <= MaxPush
  <2>1. CASE b = a
    <3>1. mine \in SUBSET Subscriptions /\ IsFiniteSet(mine)
      BY <1>5, <1>6, FS_Subset DEF SubscriptionsOf
    <3>2. \A q \in mine : NewerIn(mine, q) = {r \in rows : r.address = a /\ Newer(r, q)}
      BY DEF NewerIn, SubscriptionsOf
    <3>3. SubscriptionsOf(push', a) = {q \in mine : Cardinality(NewerIn(mine, q)) < MaxPush}
      BY <1>1, <3>2 DEF Capped, SubscriptionsOf
    <3>4. \A q, r \in mine : q.rowid = r.rowid => q = r
      BY <1>5 DEF SubscriptionsOf
    <3> HIDE DEF mine
    <3> QED
      BY <2>1, <3>1, <3>3, <3>4, FewAreNewest, DatabaseAssumption
  <2>2. CASE b # a
    <3>1. SubscriptionsOf(push', b) \subseteq SubscriptionsOf(push, b)
      BY <1>4, <1>7, <2>2 DEF SubscriptionsOf
    <3>2. IsFiniteSet(SubscriptionsOf(push, b))
      BY FS_Subset DEF SubscriptionInv, SubscriptionsOf
    <3>3. /\ Cardinality(SubscriptionsOf(push', b)) <= Cardinality(SubscriptionsOf(push, b))
          /\ Cardinality(SubscriptionsOf(push, b)) \in Nat
      BY <3>1, <3>2, FS_Subset, FS_CardinalityType
    <3>4. Cardinality(SubscriptionsOf(push', b)) \in Nat
      BY <3>1, <3>2, FS_Subset, FS_CardinalityType
    <3>5. Cardinality(SubscriptionsOf(push, b)) <= MaxPush
      BY DEF SubscriptionInv, SubscriptionsAreSound, SubscriptionsOf
    <3> QED
      BY <3>3, <3>4, <3>5, DatabaseAssumption
  <2> QED
    BY <2>1, <2>2
<1>9. IsFiniteSet(push')
  BY <1>6, <1>7, FS_Subset
<1> HIDE DEF rows
<1> QED
  BY <1>1, <1>5, <1>7, <1>8, <1>9 DEF SubscriptionInv, SubscriptionsAreSound, SubscriptionsOf

LEMMA SubscriptionsInitially == DbInit => SubscriptionInv
<1> SUFFICES ASSUME DbInit PROVE SubscriptionInv
  OBVIOUS
<1>1. push = {} /\ IsFiniteSet({}) /\ Cardinality({}) = 0
  BY FS_EmptySet DEF DbInit
<1>2. \A a \in Addresses : {p \in push : p.address = a} = {}
  BY <1>1
<1> QED
  BY <1>1, <1>2, TypeInit, DatabaseAssumption DEF SubscriptionInv, SubscriptionsAreSound

LEMMA SubscriptionStep == SubscriptionInv /\ [DbNext]_dbVars => SubscriptionInv'
<1> SUFFICES ASSUME SubscriptionInv, [DbNext]_dbVars PROVE SubscriptionInv'
  OBVIOUS
<1>0. /\ TypeOK' /\ \A p \in push : p.address \in Addresses /\ lastActive[p.address] # Unregistered
      /\ clock \in Nat
  BY TypeStep DEF SubscriptionInv, SubscriptionsAreSound, TypeOK, Subscriptions
<1>1. ASSUME push' \subseteq push,
             \A a \in Addresses : lastActive'[a] \in {lastActive[a], clock}
      PROVE  SubscriptionInv'
  BY <1>0, <1>1, SubscriptionsLeave DEF Unregistered
<1>2. CASE Tick \/ Restart
  BY <1>1, <1>2 DEF Tick, Restart, registry
<1>3. CASE Sweep
  <2>1. push' \subseteq push /\ \A p \in push' : lastActive'[p.address] = lastActive[p.address]
    BY <1>0, <1>3 DEF Sweep
  <2> QED
    BY <1>0, <2>1, SubscriptionsLeave
<1>4. ASSUME NEW e \in Envelopes, Create(e) PROVE SubscriptionInv'
  BY <1>1, <1>4 DEF Create, MarkActive
<1>5. ASSUME NEW a \in Addresses, NEW b \in Addresses, NEW ids, Open(a, b, ids) \/ Clear(a, b)
      PROVE  SubscriptionInv'
  BY <1>1, <1>5 DEF Open, Clear, registry
<1>6. ASSUME NEW a \in Addresses, RegisterPubkey(a) \/ ReportAttention(a) PROVE SubscriptionInv'
  BY <1>1, <1>6 DEF RegisterPubkey, ReportAttention, registry, SubscriptionInv, TypeOK
<1>7. ASSUME NEW a \in Addresses, DeleteRegistration(a) PROVE SubscriptionInv'
  <2>1. push' \subseteq push /\ \A p \in push' : lastActive'[p.address] = lastActive[p.address]
    BY <1>0, <1>7 DEF DeleteRegistration, PushWithout, SubscriptionInv, TypeOK
  <2> QED
    BY <1>0, <2>1, SubscriptionsLeave
<1>8. ASSUME NEW t \in Tokens, DropExpiredSession(t) \/ DeleteSession(t) PROVE SubscriptionInv'
  BY <1>1, <1>8 DEF DropExpiredSession, DeleteSession
<1>9. ASSUME NEW t \in Tokens, NEW a \in Addresses, CreateSession(t, a) PROVE SubscriptionInv'
  BY <1>1, <1>9 DEF CreateSession, MarkActive
<1>10. ASSUME NEW p \in Endpoints, NEW a \in Addresses, SavePushSubscription(a, p)
       PROVE  SubscriptionInv'
  BY <1>0, <1>10, SaveKeeps
<1>11. ASSUME NEW p \in Endpoints, NEW owners, DeletePushSubscription(p, owners) PROVE SubscriptionInv'
  BY <1>1, <1>11 DEF DeletePushSubscription
<1>12. CASE UNCHANGED dbVars
  BY <1>1, <1>12 DEF dbVars
<1> QED
  BY <1>2, <1>3, <1>4, <1>5, <1>6, <1>7, <1>8, <1>9, <1>10, <1>11, <1>12 DEF DbNext

\* A subscription never outlives its registration, an endpoint belongs to one
\* identity, and no identity has more than the cap, whoever takes whose
\* endpoint over (savePushSubscription, deleteInactivePubkeys).
THEOREM SubscriptionsSound == DbSpec => []SubscriptionsAreSound
<1>1. SubscriptionInv => SubscriptionsAreSound
  BY DEF SubscriptionInv
<1> QED
  BY <1>1, SubscriptionsInitially, SubscriptionStep, PTL DEF DbSpec

-----------------------------------------------------------------------------
(* Smallest and largest numbers *)

LEMMA SmallestExists ==
    ASSUME NEW S, S \subseteq Nat, S # {}
    PROVE  \E n \in S : \A m \in S : n <= m
<1> DEFINE R == {ss \in Nat \X Nat : ss[1] < ss[2]}
<1>1. IsWellFoundedOn(R, Nat)
  <2>1. R = OpToRel(<, Nat)
    BY Zenon DEF OpToRel
  <2> QED
    BY <2>1, NatLessThanWellFounded, Zenon
<1>2. PICK n \in S : \A m \in S : <<m, n>> \notin R
  BY <1>1, WFMin
<1>3. ASSUME NEW m \in S PROVE n <= m
  <2> DEFINE p == <<m, n>>
  <2>1. m \in Nat /\ n \in Nat
    OBVIOUS
  <2>2. p \in Nat \X Nat /\ p[1] = m /\ p[2] = n /\ p \notin R
    BY <1>2, <2>1
  <2> HIDE DEF p
  <2>3. ~(m < n)
    BY <2>2
  <2> QED
    BY <2>1, <2>3
<1> QED
  BY <1>3

LEMMA LargestExists ==
    ASSUME NEW top \in Nat, NEW S, S \subseteq 0..top, S # {}
    PROVE  \E n \in S : \A m \in S : m <= n
<1> DEFINE T == {top - s : s \in S}
<1>1. T \subseteq Nat /\ T # {}
  <2>1. \A s \in S : s \in 0..top /\ top - s \in Nat
    OBVIOUS
  <2> QED
    BY <2>1
<1>2. PICK k \in T : \A m \in T : k <= m
  BY <1>1, SmallestExists
<1>3. PICK n \in S : k = top - n
  OBVIOUS
<1>4. ASSUME NEW m \in S PROVE m <= n
  <2>1. top - n <= top - m
    BY <1>2, <1>3
  <2> QED
    BY <2>1
<1> QED
  BY <1>4

-----------------------------------------------------------------------------
(* The first and the last n rows *)

\* Finitely many rows, numbered differently up to `top`.
Numbered(S, top) ==
    /\ IsFiniteSet(S)
    /\ \A r \in S : r.seq \in 0..top
    /\ \A r, q \in S : r.seq = q.seq => r = q

LEMMA SubsetNumbered ==
    ASSUME NEW top \in Nat, NEW S, Numbered(S, top), NEW T \in SUBSET S
    PROVE  Numbered(T, top)
BY FS_Subset DEF Numbered

LEMMA LowestRow ==
    ASSUME NEW top \in Nat, NEW S, Numbered(S, top), S # {}
    PROVE  /\ \E r \in S : MinSeqOf(S) = r.seq
           /\ \A q \in S : MinSeqOf(S) <= q.seq
<1> DEFINE N == {r.seq : r \in S}
<1>1. N \subseteq Nat /\ N # {}
  BY DEF Numbered
<1>2. \E n \in N : \A m \in N : n <= m
  BY <1>1, SmallestExists
<1>3. \E n \in N : \A r \in S : n <= r.seq
  BY <1>2
<1>4. MinSeqOf(S) \in N /\ \A r \in S : MinSeqOf(S) <= r.seq
  BY <1>3 DEF MinSeqOf
<1> QED
  BY <1>4

LEMMA HighestRow ==
    ASSUME NEW top \in Nat, NEW S, Numbered(S, top), S # {}
    PROVE  /\ \E r \in S : MaxSeqOf(S) = r.seq
           /\ \A q \in S : q.seq <= MaxSeqOf(S)
<1> DEFINE N == {r.seq : r \in S}
<1>1. N \subseteq 0..top /\ N # {}
  BY DEF Numbered
<1>2. \E n \in N : \A m \in N : m <= n
  BY <1>1, LargestExists
<1>3. \E n \in N : \A r \in S : r.seq <= n
  BY <1>2
<1>4. MaxSeqOf(S) \in N /\ \A r \in S : r.seq <= MaxSeqOf(S)
  BY <1>3 DEF MaxSeqOf
<1> QED
  BY <1>4

\* One element more.
LEMMA OneMore ==
    ASSUME NEW B, IsFiniteSet(B), NEW m
    PROVE  IsFiniteSet(B \cup {m}) /\ Cardinality(B \cup {m}) <= Cardinality(B) + 1
<1>1. Cardinality(B) \in Nat
  BY FS_CardinalityType
<1>2. /\ IsFiniteSet(B \cup {m})
      /\ Cardinality(B \cup {m}) \in {Cardinality(B), Cardinality(B) + 1}
  BY FS_AddElement, Zenon
<1> QED
  BY <1>1, <1>2

\* A first row's predecessors are first rows.
LEMMA FirstRowsClosed ==
    ASSUME NEW top \in Nat, NEW S, Numbered(S, top), NEW n \in Nat,
           NEW r \in S, NEW m \in FirstRows(S, n), r.seq <= m.seq
    PROVE  r \in FirstRows(S, n)
<1> DEFINE below(x) == {q \in S : q.seq < x.seq}
<1>1. m \in S /\ Cardinality(below(m)) < n
  BY DEF FirstRows
<1>2. r.seq \in Nat /\ m.seq \in Nat /\ \A q \in S : q.seq \in Nat
  BY <1>1 DEF Numbered
<1>3. below(r) \in SUBSET below(m) /\ IsFiniteSet(below(m)) /\ IsFiniteSet(below(r))
  BY <1>2, FS_Subset DEF Numbered
<1>4. /\ Cardinality(below(r)) <= Cardinality(below(m))
      /\ Cardinality(below(r)) \in Nat /\ Cardinality(below(m)) \in Nat
  BY <1>3, FS_Subset, FS_CardinalityType
<1>5. Cardinality(below(r)) < n
  <2> HIDE DEF below
  <2> QED
    BY <1>1, <1>4
<1> QED
  BY <1>5 DEF FirstRows

\* There are at most n of them,
LEMMA FirstRowsBound ==
    ASSUME NEW top \in Nat, NEW S, Numbered(S, top), NEW n \in Nat
    PROVE  Cardinality(FirstRows(S, n)) \in Nat /\ Cardinality(FirstRows(S, n)) <= n
<1> DEFINE F == FirstRows(S, n)
<1>1. F \in SUBSET S /\ Numbered(F, top)
  BY SubsetNumbered DEF FirstRows
<1>2. IsFiniteSet(F) /\ Cardinality(F) \in Nat
  BY <1>1, FS_CardinalityType DEF Numbered
<1>3. CASE F = {}
  BY <1>2, <1>3, FS_EmptySet
<1>4. CASE F # {}
  <2>1. PICK m \in F : \A q \in F : q.seq <= m.seq
    BY <1>1, <1>4, HighestRow
  <2> DEFINE B == {q \in S : q.seq < m.seq}
  <2>2. Cardinality(B) < n /\ m \in S
    BY <2>1 DEF FirstRows
  <2>3. IsFiniteSet(B) /\ Cardinality(B) \in Nat
    BY FS_Subset, FS_CardinalityType DEF Numbered
  <2>4. F \subseteq B \cup {m}
    <3>1. ASSUME NEW q \in F, q # m PROVE q \in B
      <4>1. q.seq # m.seq /\ q.seq \in Nat /\ m.seq \in Nat /\ q.seq <= m.seq /\ q \in S
        BY <1>1, <2>1, <3>1 DEF Numbered
      <4> QED
        BY <4>1
    <3> QED
      BY <3>1
  <2> HIDE DEF F, B
  <2>5. IsFiniteSet(B \cup {m}) /\ Cardinality(B \cup {m}) <= Cardinality(B) + 1
    BY <2>3, OneMore
  <2>6. Cardinality(F) <= Cardinality(B \cup {m})
    BY <2>4, <2>5, FS_Subset
  <2>7. Cardinality(B \cup {m}) \in Nat
    BY <2>5, FS_CardinalityType
  <2> QED
    BY <1>2, <2>2, <2>3, <2>5, <2>6, <2>7 DEF F
<1> QED
  BY <1>3, <1>4

\* all of S if there are fewer,
LEMMA FirstRowsAll ==
    ASSUME NEW top \in Nat, NEW S, Numbered(S, top), NEW n \in Nat,
           Cardinality(FirstRows(S, n)) < n
    PROVE  FirstRows(S, n) = S
<1> DEFINE F == FirstRows(S, n)
           rest == S \ F
<1>1. F \in SUBSET S /\ rest \in SUBSET S
  BY DEF FirstRows
<1>2. Numbered(F, top) /\ Numbered(rest, top)
  BY <1>1, SubsetNumbered
<1>3. ASSUME rest # {} PROVE FALSE
  <2>1. PICK r \in rest : \A q \in rest : r.seq <= q.seq
    BY <1>2, <1>3, LowestRow
  <2> DEFINE B == {q \in S : q.seq < r.seq}
  <2>2. B \in SUBSET F
    <3>1. \A q \in S : q.seq \in Nat
      BY DEF Numbered
    <3>2. ASSUME NEW q \in B PROVE q \notin rest
      <4>1. q.seq < r.seq /\ q.seq \in Nat /\ r.seq \in Nat
        BY <1>1, <3>1
      <4> QED
        BY <2>1, <4>1
    <3> QED
      BY <3>2
  <2>3. Cardinality(B) <= Cardinality(F) /\ IsFiniteSet(F) /\ IsFiniteSet(B)
    BY <1>2, <2>2, FS_Subset DEF Numbered
  <2>4. Cardinality(B) \in Nat /\ Cardinality(F) \in Nat
    BY <2>3, FS_CardinalityType
  <2>5. Cardinality(B) < n
    <3> HIDE DEF B
    <3>1. Cardinality(F) < n
      OBVIOUS
    <3> HIDE DEF F
    <3> QED
      BY <2>3, <2>4, <3>1
  <2>6. r \in F
    BY <1>1, <2>5 DEF FirstRows
  <2> QED
    BY <2>6
<1> QED
  BY <1>1, <1>3

\* and none only if S has none.
LEMMA FirstRowsSome ==
    ASSUME NEW top \in Nat, NEW S, Numbered(S, top), NEW n \in Nat \ {0}, S # {}
    PROVE  FirstRows(S, n) # {}
<1>1. CASE Cardinality(FirstRows(S, n)) < n
  BY <1>1, FirstRowsAll
<1>2. CASE ~(Cardinality(FirstRows(S, n)) < n)
  BY <1>2, FS_EmptySet
<1> QED
  BY <1>1, <1>2

\* n rows or fewer are all first rows.
LEMMA FirstRowsFew ==
    ASSUME NEW top \in Nat, NEW S, Numbered(S, top), NEW n \in Nat, Cardinality(S) <= n
    PROVE  FirstRows(S, n) = S
<1>1. ASSUME NEW r \in S PROVE r \in FirstRows(S, n)
  <2> DEFINE B == {q \in S : q.seq < r.seq}
  <2>1. B \in SUBSET S /\ r \notin B /\ IsFiniteSet(S)
    BY DEF Numbered
  <2> HIDE DEF B
  <2>2. IsFiniteSet(B) /\ IsFiniteSet(S \ {r}) /\ Cardinality(S \ {r}) = Cardinality(S) - 1
    BY <2>1, FS_Subset, FS_RemoveElement
  <2>3. Cardinality(B) <= Cardinality(S \ {r})
    BY <2>1, <2>2, FS_Subset
  <2>4. Cardinality(B) \in Nat /\ Cardinality(S \ {r}) \in Nat /\ Cardinality(S) \in Nat
    BY <2>1, <2>2, FS_CardinalityType
  <2>5. Cardinality(B) < n
    BY <2>2, <2>3, <2>4
  <2> QED
    BY <2>5 DEF FirstRows, B
<1> QED
  BY <1>1 DEF FirstRows

\* A last row's successors are last rows.
LEMMA LastRowsClosed ==
    ASSUME NEW top \in Nat, NEW S, Numbered(S, top), NEW n \in Nat,
           NEW r \in S, NEW m \in LastRows(S, n), r.seq >= m.seq
    PROVE  r \in LastRows(S, n)
<1> DEFINE above(x) == {q \in S : q.seq > x.seq}
<1>1. m \in S /\ Cardinality(above(m)) < n
  BY DEF LastRows
<1>2. r.seq \in Nat /\ m.seq \in Nat /\ \A q \in S : q.seq \in Nat
  BY <1>1 DEF Numbered
<1>3. above(r) \in SUBSET above(m) /\ IsFiniteSet(above(m)) /\ IsFiniteSet(above(r))
  BY <1>2, FS_Subset DEF Numbered
<1>4. /\ Cardinality(above(r)) <= Cardinality(above(m))
      /\ Cardinality(above(r)) \in Nat /\ Cardinality(above(m)) \in Nat
  BY <1>3, FS_Subset, FS_CardinalityType
<1>5. Cardinality(above(r)) < n
  <2> HIDE DEF above
  <2> QED
    BY <1>1, <1>4
<1> QED
  BY <1>5 DEF LastRows

\* There are at most n of them,
LEMMA LastRowsBound ==
    ASSUME NEW top \in Nat, NEW S, Numbered(S, top), NEW n \in Nat
    PROVE  Cardinality(LastRows(S, n)) \in Nat /\ Cardinality(LastRows(S, n)) <= n
<1> DEFINE F == LastRows(S, n)
<1>1. F \in SUBSET S /\ Numbered(F, top)
  BY SubsetNumbered DEF LastRows
<1>2. IsFiniteSet(F) /\ Cardinality(F) \in Nat
  BY <1>1, FS_CardinalityType DEF Numbered
<1>3. CASE F = {}
  BY <1>2, <1>3, FS_EmptySet
<1>4. CASE F # {}
  <2>1. PICK m \in F : \A q \in F : m.seq <= q.seq
    BY <1>1, <1>4, LowestRow
  <2> DEFINE B == {q \in S : q.seq > m.seq}
  <2>2. Cardinality(B) < n /\ m \in S
    BY <2>1 DEF LastRows
  <2>3. IsFiniteSet(B) /\ Cardinality(B) \in Nat
    BY FS_Subset, FS_CardinalityType DEF Numbered
  <2>4. F \subseteq B \cup {m}
    <3>1. ASSUME NEW q \in F, q # m PROVE q \in B
      <4>1. q.seq # m.seq /\ q.seq \in Nat /\ m.seq \in Nat /\ m.seq <= q.seq /\ q \in S
        BY <1>1, <2>1, <3>1 DEF Numbered
      <4> QED
        BY <4>1
    <3> QED
      BY <3>1
  <2> HIDE DEF F, B
  <2>5. IsFiniteSet(B \cup {m}) /\ Cardinality(B \cup {m}) <= Cardinality(B) + 1
    BY <2>3, OneMore
  <2>6. Cardinality(F) <= Cardinality(B \cup {m})
    BY <2>4, <2>5, FS_Subset
  <2>7. Cardinality(B \cup {m}) \in Nat
    BY <2>5, FS_CardinalityType
  <2> QED
    BY <1>2, <2>2, <2>3, <2>5, <2>6, <2>7 DEF F
<1> QED
  BY <1>3, <1>4

\* and all of S if there are fewer.
LEMMA LastRowsAll ==
    ASSUME NEW top \in Nat, NEW S, Numbered(S, top), NEW n \in Nat,
           Cardinality(LastRows(S, n)) < n
    PROVE  LastRows(S, n) = S
<1> DEFINE F == LastRows(S, n)
           rest == S \ F
<1>1. F \in SUBSET S /\ rest \in SUBSET S
  BY DEF LastRows
<1>2. Numbered(F, top) /\ Numbered(rest, top)
  BY <1>1, SubsetNumbered
<1>3. ASSUME rest # {} PROVE FALSE
  <2>1. PICK r \in rest : \A q \in rest : q.seq <= r.seq
    BY <1>2, <1>3, HighestRow
  <2> DEFINE B == {q \in S : q.seq > r.seq}
  <2>2. B \in SUBSET F
    <3>1. \A q \in S : q.seq \in Nat
      BY DEF Numbered
    <3>2. ASSUME NEW q \in B PROVE q \notin rest
      <4>1. q.seq > r.seq /\ q.seq \in Nat /\ r.seq \in Nat
        BY <1>1, <3>1
      <4> QED
        BY <2>1, <4>1
    <3> QED
      BY <3>2
  <2>3. Cardinality(B) <= Cardinality(F) /\ IsFiniteSet(F) /\ IsFiniteSet(B)
    BY <1>2, <2>2, FS_Subset DEF Numbered
  <2>4. Cardinality(B) \in Nat /\ Cardinality(F) \in Nat
    BY <2>3, FS_CardinalityType
  <2>5. Cardinality(B) < n
    <3> HIDE DEF B
    <3>1. Cardinality(F) < n
      OBVIOUS
    <3> HIDE DEF F
    <3> QED
      BY <2>3, <2>4, <3>1
  <2>6. r \in F
    BY <1>1, <2>5 DEF LastRows
  <2> QED
    BY <2>6
<1> QED
  BY <1>1, <1>3

-----------------------------------------------------------------------------
(* Reading the table.  TableInv is what a reader of it relies on.           *)

TableInv == IInv /\ NoneToOneself /\ IsFiniteSet(messages)

LEMMA TableNumbered ==
    ASSUME TableInv, NEW S \in SUBSET messages
    PROVE  Numbered(S, highWater) /\ highWater \in Nat
<1>1. highWater \in Nat /\ messages \subseteq Rows
  BY DEF TableInv, IInv, TypeOK
<1>2. Numbered(messages, highWater)
  BY <1>1 DEF TableInv, IInv, RowsAreSound, KeysAreUnique, Numbered, Rows
<1> QED
  BY <1>1, <1>2, SubsetNumbered

\* The lowest number of some rows is one that was handed out.
LEMMA LowestOfTable ==
    ASSUME TableInv, NEW S \in SUBSET messages, S # {}
    PROVE  MinSeqOf(S) \in 0..highWater
<1>1. Numbered(S, highWater) /\ highWater \in Nat
  BY TableNumbered
<1> QED
  BY <1>1, LowestRow DEF Numbered

LEMMA TableStep ==
    ASSUME TableInv, [DbNext]_dbVars
    PROVE  TableInv' /\ highWater' >= highWater
<1>1. IInv' /\ NoneToOneself' /\ IsFiniteSet(messages')
  BY IInvStep, NoneToOneselfStep, FiniteStep DEF TableInv, IInv
<1>2. highWater' >= highWater
  <2>1. highWater \in Nat
    BY DEF TableInv, IInv, TypeOK
  <2>2. CASE Shrinks
    BY <2>1, <2>2 DEF Shrinks
  <2>3. CASE \E e \in Envelopes : Create(e)
    BY <2>1, <2>3 DEF Create, NextSeq
  <2>4. CASE \E a, b \in Addresses, ids \in SUBSET Ids : Open(a, b, ids)
    BY <2>1, <2>4 DEF Open
  <2> QED
    BY <2>2, <2>3, <2>4, StepKinds DEF TableInv, IInv
<1> QED
  BY <1>1, <1>2 DEF TableInv

\* A live row numbered up to the old high-water mark was live under that
\* number before: rows do not come back and do not change conversation.
LEMMA LiveRowsWere ==
    ASSUME TableInv, [DbNext]_dbVars, NEW c, NEW d, NEW q \in LiveBetween(messages', c, d, clock'), q.seq <= highWater
    PROVE  \E r \in LiveBetween(messages, c, d, clock) : r.seq = q.seq /\ r.id = q.id /\ r.recipient = q.recipient
<1> USE DEF LiveBetween
<1>0. /\ highWater \in Nat /\ clock \in Nat /\ clock' \in Nat
      /\ messages \subseteq Rows /\ messages' \subseteq Rows /\ IInv
      /\ q \in messages' /\ Between(q, c, d) /\ Live(q, clock')
  BY TableStep DEF TableInv, IInv, TypeOK
<1>1. CASE Shrinks
  <2>1. q \in messages /\ clock <= clock'
    BY <1>0, <1>1 DEF Shrinks
  <2>2. q.expires \in Nat
    BY <1>0 DEF Rows
  <2> QED
    BY <1>0, <2>1, <2>2 DEF Live
<1>2. ASSUME NEW e \in Envelopes, Create(e) PROVE \E r \in LiveBetween(messages, c, d, clock) : r.seq = q.seq /\ r.id = q.id /\ r.recipient = q.recipient
  <2> DEFINE new == AcceptedRow(e, NextSeq, clock)
  <2>1. messages' = messages \cup {new} /\ clock' = clock /\ new.seq = highWater + 1
    BY <1>2 DEF Create, NextSeq, AcceptedRow
  <2> HIDE DEF new
  <2>2. q \in messages
    BY <1>0, <2>1
  <2> QED
    BY <1>0, <2>1, <2>2
<1>3. ASSUME NEW a \in Addresses, NEW b \in Addresses, NEW ids \in SUBSET Ids, Open(a, b, ids)
      PROVE  \E r \in LiveBetween(messages, c, d, clock) : r.seq = q.seq /\ r.id = q.id /\ r.recipient = q.recipient
  <2>1. clock' = clock
    BY <1>3 DEF Open
  <2>2. PICK r \in messages : SameEnvelope(q, r) /\ (q = r \/ Live(r, clock))
    BY <1>0, <1>3, OpenOrigin
  <2>3. Between(r, c, d) /\ Live(r, clock)
    BY <1>0, <2>1, <2>2 DEF Between, SameEnvelope
  <2> QED
    BY <2>2, <2>3 DEF SameEnvelope
<1> QED
  BY <1>0, <1>1, <1>2, <1>3, StepKinds DEF IInv

\* A history page has every live row from its oldest to `before`; a page that
\* is not full has all of them.
LEMMA PageOfHistory ==
    ASSUME TableInv, NEW a, NEW b, NEW before \in Nat, NEW limit \in Nat \ {0}
    PROVE  LET rows == HistoryRows(messages, a, b, before, limit, clock)
           IN  /\ rows # {} => MinSeqOf(rows) \in Nat
               /\ \A r \in LiveBetween(messages, a, b, clock) :
                    /\ r.seq < before
                    /\ Cardinality(rows) # limit \/ (rows # {} /\ r.seq >= MinSeqOf(rows))
                    => r \in rows
<1> DEFINE S == {r \in LiveBetween(messages, a, b, clock) : r.seq < before}
           rows == LastRows(S, limit)
<1>1. S \in SUBSET messages /\ limit \in Nat \ {0} /\ rows \in SUBSET S
  BY DEF LiveBetween, LastRows
<1>2. Numbered(S, highWater) /\ highWater \in Nat
  BY <1>1, TableNumbered
<1>3. Numbered(rows, highWater)
  BY <1>1, <1>2, SubsetNumbered
<1>4. ASSUME Cardinality(rows) # limit PROVE rows = S
  <2>1. Cardinality(rows) \in Nat /\ Cardinality(rows) <= limit
    BY <1>1, <1>2, LastRowsBound
  <2>2. Cardinality(rows) < limit
    <3> HIDE DEF rows
    <3> QED
      BY <1>1, <1>4, <2>1
  <2> QED
    BY <1>1, <1>2, <2>2, LastRowsAll
<1>5. ASSUME rows # {} PROVE MinSeqOf(rows) \in Nat
  <2>1. \E r \in rows : MinSeqOf(rows) = r.seq
    BY <1>2, <1>3, <1>5, LowestRow
  <2> QED
    BY <1>3, <2>1 DEF Numbered
<1>6. ASSUME rows # {}, NEW r \in S, r.seq >= MinSeqOf(rows) PROVE r \in rows
  <2>1. PICK m \in rows : MinSeqOf(rows) = m.seq
    BY <1>2, <1>3, <1>6, LowestRow
  <2> QED
    BY <1>1, <1>2, <1>6, <2>1, LastRowsClosed
<1>7. HistoryRows(messages, a, b, before, limit, clock) = rows
  BY DEF HistoryRows
<1> HIDE DEF rows
<1>8. \A r \in LiveBetween(messages, a, b, clock) : r.seq < before => r \in S
  OBVIOUS
<1> HIDE DEF S
<1> QED
  BY <1>4, <1>5, <1>6, <1>7, <1>8

\* A recovery page is all of its interval, or has every row up to where the
\* next page starts, which is further on and below the bound.
LEMMA PageOfRecovery ==
    ASSUME TableInv, NEW a, NEW b, NEW from \in Nat, NEW bound \in Nat, NEW limit \in Nat \ {0}
    PROVE  LET rows == RecoveryFetch(messages, a, b, from, bound, limit, clock)
               page == FirstRows(rows, limit)
           IN  /\ Cardinality(rows) <= limit =>
                    \A r \in LiveBetween(messages, a, b, clock) : from < r.seq /\ r.seq <= bound => r \in page
               /\ Cardinality(rows) > limit =>
                    /\ MaxSeqOf(page) \in Nat
                    /\ from < MaxSeqOf(page) /\ MaxSeqOf(page) < bound
                    /\ \A r \in LiveBetween(messages, a, b, clock) :
                          from < r.seq /\ r.seq <= MaxSeqOf(page) => r \in page
<1> DEFINE S == {r \in LiveBetween(messages, a, b, clock) : r.seq > from /\ r.seq <= bound}
           rows == FirstRows(S, limit + 1)
           page == FirstRows(rows, limit)
<1>1. /\ S \in SUBSET messages /\ limit \in Nat \ {0}
      /\ rows \in SUBSET S /\ page \in SUBSET rows
  BY DEF LiveBetween, FirstRows
<1>2. Numbered(S, highWater) /\ highWater \in Nat
  BY <1>1, TableNumbered
<1>3. Numbered(rows, highWater) /\ Numbered(page, highWater)
  BY <1>1, <1>2, SubsetNumbered
<1>4. /\ Cardinality(rows) \in Nat
      /\ Cardinality(page) \in Nat /\ Cardinality(page) <= limit
  <2>1. Cardinality(page) \in Nat /\ Cardinality(page) <= limit
    BY <1>1, <1>2, <1>3, FirstRowsBound
  <2>2. Cardinality(rows) \in Nat
    BY <1>1, <1>2, FirstRowsBound
  <2> QED
    BY <2>1, <2>2
<1>5. /\ Cardinality(rows) < limit + 1 => rows = S
      /\ Cardinality(rows) <= limit => page = rows
  <2>1. limit + 1 \in Nat /\ limit \in Nat
    BY <1>1
  <2>2. ASSUME Cardinality(rows) < limit + 1 PROVE rows = S
    BY <1>2, <2>1, <2>2, FirstRowsAll
  <2>3. ASSUME Cardinality(rows) <= limit PROVE page = rows
    <3> HIDE DEF rows
    <3> QED
      BY <1>2, <1>3, <2>1, <2>3, FirstRowsFew DEF page
  <2> QED
    BY <2>2, <2>3
<1>6. ASSUME NEW r \in S, NEW m \in page, r.seq <= m.seq PROVE r \in page
  <2>1. m \in rows
    BY <1>1
  <2>2. r \in rows
    <3>1. limit + 1 \in Nat
      BY <1>1
    <3> QED
      BY <1>2, <1>6, <2>1, <3>1, FirstRowsClosed
  <2> HIDE DEF rows
  <2> QED
    BY <1>1, <1>2, <1>3, <1>6, <2>1, <2>2, FirstRowsClosed DEF page
<1>7. RecoveryFetch(messages, a, b, from, bound, limit, clock) = rows
  BY DEF RecoveryFetch
<1>8. \A r \in LiveBetween(messages, a, b, clock) : from < r.seq /\ r.seq <= bound => r \in S
  <2>1. \A r \in LiveBetween(messages, a, b, clock) : r.seq \in Nat
    BY DEF LiveBetween, TableInv, IInv, TypeOK, Rows
  <2> QED
    BY <2>1
<1>9. \A r \in S : from < r.seq /\ r.seq <= bound /\ r.seq \in Nat
  BY <1>2 DEF Numbered
<1> HIDE DEF S, rows
<1>10. ASSUME Cardinality(rows) <= limit
       PROVE  \A r \in LiveBetween(messages, a, b, clock) : from < r.seq /\ r.seq <= bound => r \in page
  <2>1. page = S
    BY <1>1, <1>4, <1>5, <1>10
  <2> QED
    BY <1>8, <2>1
<1>11. ASSUME ~(Cardinality(rows) <= limit)
       PROVE  /\ MaxSeqOf(page) \in Nat /\ from < MaxSeqOf(page) /\ MaxSeqOf(page) < bound
              /\ \A r \in LiveBetween(messages, a, b, clock) : from < r.seq /\ r.seq <= MaxSeqOf(page) => r \in page
  <2>1. page # rows
    BY <1>1, <1>4, <1>11
  <2>2. PICK last \in rows : last \notin page
    BY <1>1, <2>1
  <2>3. page # {}
    BY <1>1, <1>2, <1>3, <2>2, FirstRowsSome DEF page
  <2>4. PICK m \in page : MaxSeqOf(page) = m.seq
    BY <1>2, <1>3, <2>3, HighestRow
  <2>5. m \in S /\ last \in S
    BY <1>1, <2>2
  <2>6. m.seq < last.seq
    BY <1>6, <1>9, <2>2, <2>5
  <2>7. \A r \in LiveBetween(messages, a, b, clock) : from < r.seq /\ r.seq <= m.seq => r \in page
    <3>1. ASSUME NEW r \in LiveBetween(messages, a, b, clock), from < r.seq, r.seq <= m.seq PROVE r \in page
      <4>1. r.seq \in Nat
        BY DEF LiveBetween, TableInv, IInv, TypeOK, Rows
      <4>2. r.seq <= bound
        BY <1>9, <2>5, <3>1, <4>1
      <4> QED
        BY <1>6, <1>8, <3>1, <4>2
    <3> QED
      BY <3>1
  <2> QED
    BY <1>9, <2>4, <2>5, <2>6, <2>7
<1> QED
  BY <1>4, <1>7, <1>10, <1>11
=============================================================================
