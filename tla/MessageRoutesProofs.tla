------------------------- MODULE MessageRoutesProofs -------------------------
(* The message routes, under any number of requests and whatever interleaves *)
(* at their awaits: the tables change only by whole writes of db.ts, so that *)
(* all the database promises holds of the server; what it publishes is a     *)
(* complete and ordered log of it; and the pages it serves miss nothing.     *)
EXTENDS MessageServer, RecoveryReader, ChatDatabaseProofs
LOCAL INSTANCE SequencesExt

-----------------------------------------------------------------------------
(* The inductive invariant of the writes.                                  *)

ServerInv == TypeOK /\ requests \in [Slots -> Requests] /\ NoneToOneself

LEMMA ServerInitially == Init => ServerInv /\ DbInit
<1> SUFFICES ASSUME Init PROVE ServerInv /\ DbInit
  OBVIOUS
<1>1. DbInit /\ requests = [s \in Slots |-> Idle] /\ messages = {}
  BY DEF Init, DbInit
<1>2. requests \in [Slots -> Requests]
  BY <1>1 DEF Requests
<1> QED
  BY <1>1, <1>2, TypeInit DEF ServerInv, NoneToOneself

\* What a request still has to do says what it carries.
LEMMA RequestCarries ==
    ASSUME ServerInv, NEW s \in Slots
    PROVE  /\ requests[s] \in Requests
           /\ requests[s].stage = "signature" => requests[s].envelope \in Envelopes
           /\ requests[s].stage = "ids" => requests[s].address \in Addresses
BY DEF ServerInv, Requests, Idle

\* One action of the routes is one write, or none.
LEMMA StepsOfTheDatabase ==
    ASSUME ServerInv, [Next]_vars
    PROVE  [DbNext]_dbVars
<1>1. ASSUME NEW s \in Slots, FinishSend(s) PROVE DbNext
  BY <1>1, RequestCarries DEF FinishSend, Stored, DbNext
<1>2. ASSUME NEW s \in Slots, NEW b \in Addresses, NEW ids \in SUBSET Ids, FinishOpen(s, b, ids)
      PROVE  [DbNext]_dbVars
  <2> DEFINE a == requests[s].address
  <2>1. a \in Addresses /\ Open(a, b, ids)
    BY <1>2, RequestCarries DEF FinishOpen
  <2> HIDE DEF a
  <2>2. CASE a = b
    BY <2>1, <2>2, OpenOwnIsIdle DEF ServerInv
  <2>3. CASE a # b
    BY <2>1, <2>3 DEF DbNext
  <2> QED
    BY <2>2, <2>3
<1>3. ASSUME NEW a \in Addresses, NEW b \in Addresses, a # b, ClearConversation(a, b) PROVE DbNext
  BY <1>3 DEF ClearConversation, DbNext
<1>4. ASSUME NEW a \in Addresses, DeleteAddress(a) \/ Register(a) PROVE DbNext
  BY <1>4 DEF DeleteAddress, Register, DbNext
<1>5. ASSUME NEW t \in Tokens, NEW a \in Addresses, SignIn(t, a) PROVE DbNext
  BY <1>5 DEF SignIn, DbNext
<1>6. ASSUME NEW t \in Tokens, SignOut(t) \/ DropSession(t) PROVE DbNext
  BY <1>6 DEF SignOut, DropSession, DbNext
<1>7. CASE Pass \/ SweepExpired \/ RestartServer
  BY <1>7 DEF Pass, SweepExpired, RestartServer, DbNext
<1>8. \/ \E s \in Slots : FinishSend(s)
      \/ \E s \in Slots, b \in Addresses, ids \in SUBSET Ids : FinishOpen(s, b, ids)
      \/ \E a, b \in Addresses : a # b /\ ClearConversation(a, b)
      \/ \E a \in Addresses : DeleteAddress(a) \/ Register(a)
      \/ \E t \in Tokens, a \in Addresses : SignIn(t, a)
      \/ \E t \in Tokens : SignOut(t) \/ DropSession(t)
      \/ Pass \/ SweepExpired \/ RestartServer
      \/ UNCHANGED dbVars
  BY DEF Next, vars, ReceiveSend, ReceiveOpen, Enter, CheckSend, Refuse, FinishReplay
<1> QED
  BY <1>1, <1>2, <1>3, <1>4, <1>5, <1>6, <1>7, <1>8

\* Requests go from stage to stage with what the stage before had checked.
LEMMA RequestsStep ==
    ASSUME ServerInv, [Next]_vars
    PROVE  requests' \in [Slots -> Requests]
<1>1. requests \in [Slots -> Requests] /\ Idle \in Requests
  BY DEF ServerInv, Requests
<1>2. ASSUME NEW s, NEW r \in Requests, requests' = [requests EXCEPT ![s] = r]
      PROVE  requests' \in [Slots -> Requests]
  BY <1>1, <1>2
<1>3. ASSUME NEW s \in Slots, NEW a \in Addresses, ReceiveSend(s, a) \/ ReceiveOpen(s, a)
      PROVE  requests' \in [Slots -> Requests]
  <2>1. /\ [stage |-> "body", address |-> a] \in Requests
        /\ [stage |-> "ids", address |-> a] \in Requests
    BY DEF Requests
  <2> QED
    BY <1>2, <1>3, <2>1 DEF ReceiveSend, ReceiveOpen, Enter
<1>4. ASSUME NEW s \in Slots, NEW e \in Envelopes, CheckSend(s, e)
      PROVE  requests' \in [Slots -> Requests]
  <2>1. [stage |-> "signature", envelope |-> e] \in Requests
    BY DEF Requests
  <2> QED
    BY <1>2, <1>4, <2>1 DEF CheckSend
<1>5. ASSUME NEW s \in Slots, Leave(s) PROVE requests' \in [Slots -> Requests]
  BY <1>1, <1>2, <1>5 DEF Leave
<1>6. CASE RestartServer
  BY <1>1, <1>6 DEF RestartServer
<1>7. CASE UNCHANGED requests
  BY <1>1, <1>7
<1>8. \/ \E s \in Slots, a \in Addresses : ReceiveSend(s, a) \/ ReceiveOpen(s, a)
      \/ \E s \in Slots, e \in Envelopes : CheckSend(s, e)
      \/ \E s \in Slots : Leave(s)
      \/ RestartServer \/ UNCHANGED requests
  BY DEF Next, vars, Refuse, FinishSend, FinishReplay, FinishOpen, ClearConversation, DeleteAddress,
         Register, SignIn, SignOut, DropSession, Pass, SweepExpired
<1> QED
  BY <1>3, <1>4, <1>5, <1>6, <1>7, <1>8

LEMMA ServerInvStep == ServerInv /\ [Next]_vars => ServerInv' /\ [DbNext]_dbVars
<1> SUFFICES ASSUME ServerInv, [Next]_vars PROVE ServerInv' /\ [DbNext]_dbVars
  OBVIOUS
<1>1. [DbNext]_dbVars
  BY StepsOfTheDatabase
<1> QED
  BY <1>1, RequestsStep, TypeStep, NoneToOneselfStep DEF ServerInv

\* The server's data obeys the abstract specification, with any number of
\* requests in flight: every step of a handler, of the sweep and of a restart
\* is one write of db.ts or none.
THEOREM ServerImplementsDatabase == Spec => DbSpec
BY ServerInitially, ServerInvStep, PTL DEF Spec, DbSpec

\* So the table is as sound under concurrent requests as it is alone.
THEOREM ServerRowsSound == Spec => []RowsAreSound
BY ServerImplementsDatabase, RowsSound, PTL

-----------------------------------------------------------------------------
(* The streams.  A message is published with a sequence number above every *)
(* published one, and a message whose opening was published cannot be      *)
(* opened again: what makes the order of the streams inductive.            *)

Events == {Message(r) : r \in Rows} \cup {ExpiryUpdate(r) : r \in Rows}
          \cup {Clearance(p, at) : p \in Addresses, at \in Nat}
          \cup {Disconnected(p) : p \in Addresses}

OfMessage == {"message", "expiry-update"}

\* e may come before f in a stream.
MayPrecede(e, f) ==
    /\ e.type = "message" /\ f.type = "message" => e.row.seq < f.row.seq
    /\ e.type = "expiry-update" /\ f.type \in OfMessage => e.row.seq # f.row.seq

Ordered(s) == \A i, j \in DOMAIN s : i < j => MayPrecede(s[i], s[j])

\* e tells of an acceptance made, and an opening it tells of is final, in a
\* table of which the high-water mark is `mark`.
Settled(e, table, mark) ==
    /\ e.type \in OfMessage => e.row.seq <= mark
    /\ e.type = "expiry-update" => \A r \in table : r.seq = e.row.seq => IsFinal(r)

AllSettled(s, table, mark) == \A i \in DOMAIN s : Settled(s[i], table, mark)

StreamsInv ==
    /\ published \in [Addresses -> Seq(Events)]
    /\ \A a \in Addresses : Ordered(published[a])
    /\ \A a \in Addresses : AllSettled(published[a], messages, highWater)

\* What a step does not undo: every settled event stays settled.
SettledStays ==
    \A e \in Events : Settled(e, messages, highWater) => Settled(e, messages', highWater')

\* A stream stays ordered if what is added is, and may follow what was there.
LEMMA OrderedConcat ==
    ASSUME NEW s \in Seq(Events), NEW t \in Seq(Events), Ordered(s), Ordered(t),
           \A i \in DOMAIN s, j \in DOMAIN t : MayPrecede(s[i], t[j])
    PROVE  Ordered(s \o t)
<1> DEFINE c == s \o t
<1>1. /\ c \in Seq(Events) /\ Len(s) \in Nat /\ Len(t) \in Nat
      /\ DOMAIN s = 1..Len(s) /\ DOMAIN t = 1..Len(t) /\ DOMAIN c = 1..(Len(s) + Len(t))
      /\ \A i \in DOMAIN s : c[i] = s[i]
      /\ \A i \in 1..(Len(s) + Len(t)) : i > Len(s) => c[i] = t[i - Len(s)]
  OBVIOUS
<1> HIDE DEF c
<1>2. ASSUME NEW i \in DOMAIN c, NEW j \in DOMAIN c, i < j PROVE MayPrecede(c[i], c[j])
  <2>1. i \in Nat /\ j \in Nat /\ i >= 1 /\ j >= 1
    BY <1>1
  <2>2. CASE j <= Len(s)
    BY <1>1, <1>2, <2>1, <2>2 DEF Ordered
  <2>3. CASE i <= Len(s) /\ j > Len(s)
    <3>1. i \in DOMAIN s /\ j - Len(s) \in DOMAIN t /\ c[i] = s[i] /\ c[j] = t[j - Len(s)]
      BY <1>1, <2>1, <2>3
    <3> QED
      BY <3>1
  <2>4. CASE i > Len(s)
    <3>1. /\ i - Len(s) \in DOMAIN t /\ j - Len(s) \in DOMAIN t /\ i - Len(s) < j - Len(s)
          /\ c[i] = t[i - Len(s)] /\ c[j] = t[j - Len(s)]
      BY <1>1, <1>2, <2>1, <2>4
    <3> QED
      BY <3>1 DEF Ordered
  <2> QED
    BY <1>1, <2>1, <2>2, <2>3, <2>4
<1>3. Ordered(c)
  BY <1>2 DEF Ordered
<1> QED
  BY <1>3 DEF c

\* publish, of events that may follow what was published and are settled.
LEMMA PublishKeeps ==
    ASSUME StreamsInv, SettledStays, NEW told \in [Addresses -> Seq(Events)], Publish(told),
           \A a \in Addresses : Ordered(told[a]) /\ AllSettled(told[a], messages', highWater'),
           \A a \in Addresses, e \in Events : \A j \in DOMAIN told[a] :
                Settled(e, messages, highWater) => MayPrecede(e, told[a][j])
    PROVE  StreamsInv'
<1>1. published \in [Addresses -> Seq(Events)]
      /\ published' = [a \in Addresses |-> published[a] \o told[a]]
  BY DEF StreamsInv, Publish
<1>2. published' \in [Addresses -> Seq(Events)]
  BY <1>1
<1>3. ASSUME NEW a \in Addresses
      PROVE  Ordered(published'[a]) /\ AllSettled(published'[a], messages', highWater')
  <2> DEFINE s == published[a]
             t == told[a]
  <2>1. s \in Seq(Events) /\ t \in Seq(Events) /\ Ordered(s) /\ published'[a] = s \o t
    BY <1>1 DEF StreamsInv
  <2>2. \A i \in DOMAIN s : s[i] \in Events /\ Settled(s[i], messages, highWater)
    BY <2>1 DEF StreamsInv, AllSettled
  <2>3. AllSettled(s, messages', highWater')
    BY <2>2 DEF SettledStays, AllSettled
  <2>4. Ordered(t) /\ AllSettled(t, messages', highWater')
        /\ \A i \in DOMAIN s, j \in DOMAIN t : MayPrecede(s[i], t[j])
    BY <2>2
  <2> HIDE DEF s, t
  <2>5. Ordered(s \o t)
    BY <2>1, <2>4, OrderedConcat
  <2>6. AllSettled(s \o t, messages', highWater')
    BY <2>1, <2>3, <2>4 DEF AllSettled
  <2> QED
    BY <2>1, <2>5, <2>6
<1> QED
  BY <1>2, <1>3 DEF StreamsInv

\* A step that publishes nothing.
LEMMA SilenceKeeps ==
    ASSUME StreamsInv, SettledStays, published' = published
    PROVE  StreamsInv'
<1>1. ASSUME NEW a \in Addresses PROVE AllSettled(published[a], messages', highWater')
  BY DEF StreamsInv, SettledStays, AllSettled
<1> QED
  BY <1>1 DEF StreamsInv

\* No write unsettles an event: new rows have new numbers, openings are final.
LEMMA WritesKeepSettled ==
    ASSUME IInv, [DbNext]_dbVars
    PROVE  SettledStays
<1>0. highWater \in Nat /\ messages \subseteq Rows
  BY DEF IInv, TypeOK
<1>1. CASE Shrinks
  BY <1>0, <1>1 DEF Shrinks, SettledStays, Settled, Events, Rows, Message, ExpiryUpdate
<1>2. ASSUME NEW e \in Envelopes, Create(e) PROVE SettledStays
  <2> DEFINE new == AcceptedRow(e, NextSeq, clock)
  <2>1. messages' = messages \cup {new} /\ highWater' = highWater + 1 /\ new.seq = highWater + 1
    BY <1>2 DEF Create, NextSeq, AcceptedRow
  <2> HIDE DEF new
  <2>2. ASSUME NEW f \in Events, f.type \in OfMessage PROVE f.row.seq \in Nat
    BY <2>2 DEF Events, OfMessage, Message, ExpiryUpdate, Clearance, Disconnected, Rows
  <2>3. ASSUME NEW f \in Events, Settled(f, messages, highWater)
        PROVE  Settled(f, messages', highWater')
    BY <1>0, <2>1, <2>2, <2>3 DEF Settled, OfMessage
  <2> QED
    BY <2>3 DEF SettledStays
<1>3. ASSUME NEW a \in Addresses, NEW b \in Addresses, NEW ids \in SUBSET Ids, Open(a, b, ids)
      PROVE  SettledStays
  <2>1. highWater' = highWater
    BY <1>3 DEF Open
  <2>2. \A q \in messages' : \E r \in messages : q.seq = r.seq /\ (IsFinal(r) => IsFinal(q))
    BY <1>3, OpenOrigin DEF SameEnvelope
  <2> QED
    BY <2>1, <2>2 DEF SettledStays, Settled
<1> QED
  BY <1>1, <1>2, <1>3, StepKinds DEF IInv

\* What FinishSend publishes.
LEMMA SendKeepsStreams ==
    ASSUME ServerInv, IInv, StreamsInv, SettledStays, NEW s \in Slots, FinishSend(s)
    PROVE  StreamsInv'
<1> DEFINE e == requests[s].envelope
           new == AcceptedRow(e, NextSeq, clock)
           told == ToldOfMessage(e)
<1>0. highWater \in Nat /\ clock \in Nat
  BY DEF IInv, TypeOK
<1>1. e \in Envelopes /\ Create(e) /\ Publish(told)
  BY RequestCarries DEF FinishSend, Stored
<1>2. new \in Rows /\ new.seq = highWater + 1 /\ highWater' = highWater + 1
  <2>1. NextSeq \in Nat
    BY <1>0 DEF NextSeq
  <2>2. new.seq = NextSeq
    BY DEF AcceptedRow
  <2> QED
    BY <1>0, <1>1, <2>1, <2>2, AcceptedRowType DEF Create, NextSeq
<1>3. told = [a \in Addresses |-> IF a \in Participants(e) THEN <<Message(new)>> ELSE <<>>]
  BY DEF ToldOfMessage
<1>4. Message(new) \in Events /\ Message(new).type = "message" /\ Message(new).row = new
  BY <1>2 DEF Events, Message
<1> HIDE DEF e, new, told
<1>5. ASSUME NEW a \in Addresses
      PROVE  /\ told[a] \in Seq(Events)
             /\ \A j \in DOMAIN told[a] : j = 1 /\ told[a][j] = Message(new)
  BY <1>3, <1>4
<1>6. told \in [Addresses -> Seq(Events)]
  BY <1>3, <1>5
<1>7. ASSUME NEW a \in Addresses PROVE Ordered(told[a]) /\ AllSettled(told[a], messages', highWater')
  <2>1. Settled(Message(new), messages', highWater')
    BY <1>0, <1>2, <1>4 DEF Settled
  <2> QED
    BY <1>5, <2>1 DEF Ordered, AllSettled
<1>8. ASSUME NEW a \in Addresses, NEW f \in Events, NEW j \in DOMAIN told[a],
             Settled(f, messages, highWater)
      PROVE  MayPrecede(f, told[a][j])
  <2>1. f.type \in OfMessage => f.row.seq \in Nat
    BY DEF Events, OfMessage, Message, ExpiryUpdate, Clearance, Disconnected, Rows
  <2>2. f.type \in OfMessage => f.row.seq < new.seq
    BY <1>0, <1>2, <1>8, <2>1 DEF Settled
  <2> QED
    BY <1>2, <1>4, <1>5, <2>1, <2>2 DEF MayPrecede, OfMessage
<1> QED
  BY <1>1, <1>6, <1>7, <1>8, PublishKeeps

\* What FinishOpen publishes: each row it opens once, none of them announced
\* as opened before.
LEMMA OpenKeepsStreams ==
    ASSUME ServerInv, IInv, IsFiniteSet(messages), StreamsInv, SettledStays,
           NEW s \in Slots, NEW b \in Addresses, NEW ids \in SUBSET Ids, FinishOpen(s, b, ids)
    PROVE  StreamsInv'
<1> DEFINE a == requests[s].address
           fresh == NewlyOpened(Available(a, b, ids))
<1>0. /\ highWater \in Nat /\ clock \in Nat /\ messages \subseteq Rows
      /\ \A r, q \in messages : r.seq = q.seq => r = q
      /\ \A r \in messages : r.seq <= highWater
  BY DEF IInv, TypeOK, RowsAreSound, KeysAreUnique
<1>1. a \in Addresses /\ Open(a, b, ids)
  BY RequestCarries DEF FinishOpen
<1>2. PICK updates \in SetToSeqs(fresh) :
        Publish([c \in Addresses |->
                    IF c \in {a, b}
                    THEN [i \in DOMAIN updates |-> ExpiryUpdate(OpenedRow(updates[i], clock))]
                    ELSE <<>>])
  BY DEF FinishOpen
<1> DEFINE list == [i \in DOMAIN updates |-> ExpiryUpdate(OpenedRow(updates[i], clock))]
           told == [c \in Addresses |-> IF c \in {a, b} THEN list ELSE <<>>]
<1>3. fresh \subseteq messages /\ \A r \in fresh : ~IsFinal(r)
  BY DEF NewlyOpened, Available
<1>4. Cardinality(fresh) \in Nat
  BY <1>3, FS_Subset, FS_CardinalityType
<1>5. /\ DOMAIN updates = 1..Cardinality(fresh)
      /\ \A i \in DOMAIN updates : updates[i] \in fresh
      /\ \A i, j \in DOMAIN updates : i # j => updates[i] # updates[j]
  BY DEF SetToSeqs
<1>6. Publish(told)
  BY <1>2
<1>7. \A q \in messages', r \in fresh : q.seq = r.seq => IsFinal(q)
  <2> SUFFICES ASSUME NEW q \in messages', NEW r \in fresh, q.seq = r.seq PROVE IsFinal(q)
    OBVIOUS
  <2>1. PICK p \in messages : /\ SameEnvelope(q, p)
                              /\ (q = p /\ p \notin fresh) \/ IsFinal(q)
    BY <1>1, OpenOrigin
  <2> QED
    BY <1>0, <1>3, <2>1 DEF SameEnvelope
<1>8. highWater' = highWater
  BY <1>1 DEF Open
<1> HIDE DEF a, fresh, told
<1>9. ASSUME NEW i \in DOMAIN updates
      PROVE  /\ list[i] \in Events /\ list[i].type = "expiry-update"
             /\ list[i].row.seq = updates[i].seq
  <2>1. updates[i] \in Rows
    BY <1>0, <1>3, <1>5
  <2>2. OpenedRow(updates[i], clock) \in Rows /\ OpenedRow(updates[i], clock).seq = updates[i].seq
    BY <1>0, <2>1, OpenedRowType
  <2> QED
    BY <2>2 DEF Events, ExpiryUpdate
<1>10. DOMAIN list = DOMAIN updates /\ list \in Seq(Events)
  <2>1. list \in [1..Cardinality(fresh) -> Events]
    BY <1>5, <1>9
  <2> QED
    BY <1>4, <1>5, <2>1
<1> HIDE DEF list
<1>11. Ordered(list)
  <2>1. ASSUME NEW i \in DOMAIN list, NEW j \in DOMAIN list, i < j PROVE MayPrecede(list[i], list[j])
    <3>1. updates[i] # updates[j] /\ updates[i] \in messages /\ updates[j] \in messages
      BY <1>3, <1>4, <1>5, <1>10, <2>1
    <3>2. list[i].row.seq # list[j].row.seq
      BY <1>0, <1>9, <1>10, <3>1
    <3> QED
      BY <1>9, <1>10, <3>2 DEF MayPrecede
  <2> QED
    BY <2>1 DEF Ordered
<1>12. AllSettled(list, messages', highWater')
  <2>1. ASSUME NEW i \in DOMAIN list PROVE Settled(list[i], messages', highWater')
    <3>1. updates[i] \in fresh /\ updates[i] \in messages
      BY <1>3, <1>5, <1>10
    <3> QED
      BY <1>0, <1>7, <1>8, <1>9, <1>10, <3>1 DEF Settled
  <2> QED
    BY <2>1 DEF AllSettled
<1>13. ASSUME NEW f \in Events, NEW j \in DOMAIN list, Settled(f, messages, highWater)
       PROVE  MayPrecede(f, list[j])
  <2>1. updates[j] \in messages /\ ~IsFinal(updates[j])
    BY <1>3, <1>5, <1>10
  <2> QED
    BY <1>9, <1>10, <1>13, <2>1 DEF Settled, MayPrecede
<1>14. ASSUME NEW c \in Addresses
       PROVE  /\ told[c] \in Seq(Events) /\ Ordered(told[c])
              /\ AllSettled(told[c], messages', highWater')
              /\ \A f \in Events : \A j \in DOMAIN told[c] :
                    Settled(f, messages, highWater) => MayPrecede(f, told[c][j])
  <2>1. CASE told[c] = list
    BY <1>10, <1>11, <1>12, <1>13, <2>1
  <2>2. CASE told[c] = <<>>
    BY <2>2 DEF Ordered, AllSettled
  <2>3. told[c] = list \/ told[c] = <<>>
    BY DEF told
  <2> QED
    BY <2>1, <2>2, <2>3
<1>15. told \in [Addresses -> Seq(Events)]
  BY <1>14 DEF told
<1> QED
  BY <1>6, <1>14, <1>15, PublishKeeps

-----------------------------------------------------------------------------
(* The other publishers, and the theorem *)

\* What is neither a message nor an opening may stand anywhere in a stream.
LEMMA NoticeKeepsStreams ==
    ASSUME StreamsInv, SettledStays, NEW told \in [Addresses -> Seq(Events)], Publish(told),
           \A a \in Addresses : \A j \in DOMAIN told[a] : told[a][j].type \notin OfMessage
    PROVE  StreamsInv'
<1>1. \A a \in Addresses : Ordered(told[a]) /\ AllSettled(told[a], messages', highWater')
  BY DEF Ordered, MayPrecede, AllSettled, Settled, OfMessage
<1>2. \A a \in Addresses, e \in Events : \A j \in DOMAIN told[a] : MayPrecede(e, told[a][j])
  BY DEF MayPrecede, OfMessage
<1> QED
  BY <1>1, <1>2, PublishKeeps

LEMMA ClearKeepsStreams ==
    ASSUME TypeOK, StreamsInv, SettledStays, NEW a \in Addresses, NEW b \in Addresses,
           ClearConversation(a, b)
    PROVE  StreamsInv'
<1> DEFINE told == ToldOfClear(a, b)
<1>1. Clearance(a, clock) \in Events /\ Clearance(b, clock) \in Events
  BY DatabaseAssumption DEF TypeOK, Events
<1>2. ASSUME NEW c \in Addresses
      PROVE  /\ told[c] \in Seq(Events)
             /\ \A j \in DOMAIN told[c] : told[c][j].type \notin OfMessage
  <2>1. told[c] \in {<<Clearance(b, clock)>>, <<Clearance(a, clock)>>, <<>>}
    BY DEF ToldOfClear
  <2>2. Clearance(a, clock).type \notin OfMessage /\ Clearance(b, clock).type \notin OfMessage
    BY DEF Clearance, OfMessage
  <2> HIDE DEF told
  <2>3. ASSUME NEW x \in Events, x.type \notin OfMessage, told[c] = <<x>>
        PROVE  /\ told[c] \in Seq(Events)
               /\ \A j \in DOMAIN told[c] : told[c][j].type \notin OfMessage
    BY <2>3
  <2>4. CASE told[c] = <<>>
    BY <2>4
  <2> QED
    BY <1>1, <2>1, <2>2, <2>3, <2>4
<1>3. told \in [Addresses -> Seq(Events)]
  BY <1>2 DEF ToldOfClear
<1> HIDE DEF told
<1>4. Publish(told)
  BY DEF ClearConversation, told
<1> QED
  BY <1>2, <1>3, <1>4, NoticeKeepsStreams

LEMMA DeleteKeepsStreams ==
    ASSUME StreamsInv, SettledStays, NEW a \in Addresses, DeleteAddress(a)
    PROVE  StreamsInv'
<1> DEFINE told == [b \in Addresses |-> IF b \in Partners(a) THEN <<Disconnected(a)>> ELSE <<>>]
<1>1. Disconnected(a) \in Events /\ Disconnected(a).type \notin OfMessage
  BY DEF Events, Disconnected, OfMessage
<1>2. ASSUME NEW c \in Addresses
      PROVE  /\ told[c] \in Seq(Events)
             /\ \A j \in DOMAIN told[c] : told[c][j].type \notin OfMessage
  <2>1. told[c] \in {<<Disconnected(a)>>, <<>>}
    OBVIOUS
  <2> QED
    BY <1>1, <2>1
<1>3. told \in [Addresses -> Seq(Events)]
  BY <1>2
<1>4. Publish(told)
  BY DEF DeleteAddress
<1> HIDE DEF told
<1> QED
  BY <1>2, <1>3, <1>4, NoticeKeepsStreams

LEMMA StreamsInitially == Init => IsFiniteSet(messages) /\ StreamsInv
<1> SUFFICES ASSUME Init PROVE IsFiniteSet(messages) /\ StreamsInv
  OBVIOUS
<1>1. messages = {} /\ published = [a \in Addresses |-> <<>>]
  BY DEF Init, DbInit
<1>2. IsFiniteSet(messages)
  BY <1>1, FS_EmptySet
<1> QED
  BY <1>1, <1>2 DEF StreamsInv, Ordered, AllSettled

ServerIInv == ServerInv /\ IInv /\ IsFiniteSet(messages) /\ StreamsInv

LEMMA ServerIInvStep == ServerIInv /\ [Next]_vars => ServerIInv'
<1> SUFFICES ASSUME ServerIInv, [Next]_vars PROVE ServerIInv'
  OBVIOUS
<1> USE DEF ServerIInv
<1>0. ServerInv' /\ [DbNext]_dbVars /\ IInv' /\ SettledStays /\ TypeOK
  BY ServerInvStep, IInvStep, WritesKeepSettled DEF ServerInv
<1>1. IsFiniteSet(messages')
  BY <1>0, FiniteStep
<1>2. ASSUME NEW s \in Slots, FinishSend(s) PROVE StreamsInv'
  BY <1>0, <1>2, SendKeepsStreams
<1>3. ASSUME NEW s \in Slots, NEW b \in Addresses, NEW ids \in SUBSET Ids, FinishOpen(s, b, ids)
      PROVE  StreamsInv'
  BY <1>0, <1>3, OpenKeepsStreams
<1>4. ASSUME NEW a \in Addresses, NEW b \in Addresses, ClearConversation(a, b) PROVE StreamsInv'
  BY <1>0, <1>4, ClearKeepsStreams
<1>5. ASSUME NEW a \in Addresses, DeleteAddress(a) PROVE StreamsInv'
  BY <1>0, <1>5, DeleteKeepsStreams
<1>6. ASSUME RestartServer PROVE StreamsInv'
  <2>1. published' = [a \in Addresses |-> <<>>]
    BY <1>6 DEF RestartServer
  <2> QED
    BY <2>1 DEF StreamsInv, Ordered, AllSettled
<1>7. ASSUME published' = published PROVE StreamsInv'
  BY <1>0, <1>7, SilenceKeeps
<1>8. \/ \E s \in Slots : FinishSend(s)
      \/ \E s \in Slots, b \in Addresses, ids \in SUBSET Ids : FinishOpen(s, b, ids)
      \/ \E a, b \in Addresses : ClearConversation(a, b)
      \/ \E a \in Addresses : DeleteAddress(a)
      \/ RestartServer
      \/ published' = published
  BY DEF Next, vars, observed, ReceiveSend, ReceiveOpen, Enter, CheckSend, Refuse, FinishReplay,
         Register, SignIn, SignOut, DropSession, Pass, SweepExpired
<1> QED
  BY <1>0, <1>1, <1>2, <1>3, <1>4, <1>5, <1>6, <1>7, <1>8

\* Every stream carries its messages in acceptance order and announces an
\* opening once, after its message, whatever handlers interleave at their
\* awaits (publish in handleSendMessage and handleOpenMessages).
THEOREM StreamsOrdered == Spec => []StreamsAreOrdered
<1>1. Init => ServerIInv
  BY ServerInitially, IInvInit, StreamsInitially DEF ServerIInv
<1>2. ServerIInv => StreamsAreOrdered
  BY DEF ServerIInv, StreamsInv, Ordered, MayPrecede, OfMessage, StreamsAreOrdered
<1> QED
  BY <1>1, <1>2, ServerIInvStep, PTL DEF Spec

-----------------------------------------------------------------------------
(* The streams are complete.  First, what a reader holds after each event: *)
(* the recursive function is there for any number of events (a smallest    *)
(* number for which it were not would have one below it), and events added *)
(* at the end do not change what was held before them.                     *)

IsReading(a, rows, events, top, held) ==
    held = [n \in 0..top |-> IF n = 0 THEN rows ELSE Applied(a, held[n - 1], events[n])]

LEMMA ReadingExists ==
    ASSUME NEW a, NEW rows, NEW events, NEW top \in Nat
    PROVE  \E held : IsReading(a, rows, events, top, held)
<1> DEFINE T == {k \in 0..top : ~\E held : IsReading(a, rows, events, k, held)}
<1> SUFFICES ASSUME T # {} PROVE FALSE
  OBVIOUS
<1>0. T \subseteq Nat
  OBVIOUS
<1>1. PICK k \in T : \A m \in T : k <= m
  <2> HIDE DEF T
  <2> QED
    BY <1>0, SmallestExists
<1>2. CASE k = 0
  <2>1. IsReading(a, rows, events, 0, [n \in 0..0 |-> rows])
    BY DEF IsReading
  <2> QED
    BY <1>1, <1>2, <2>1
<1>3. CASE k # 0
  <2>1. k \in Nat /\ k - 1 \in 0..top /\ k - 1 \notin T
    BY <1>1, <1>3
  <2>2. PICK held : IsReading(a, rows, events, k - 1, held)
    BY <2>1
  <2> DEFINE more == [n \in 0..k |-> IF n < k THEN held[n] ELSE Applied(a, held[k - 1], events[k])]
  <2>3. \A n \in 0..(k - 1) : held[n] = IF n = 0 THEN rows ELSE Applied(a, held[n - 1], events[n])
    BY <2>2 DEF IsReading
  <2>4. ASSUME NEW n \in 0..k PROVE more[n] = IF n = 0 THEN rows ELSE Applied(a, more[n - 1], events[n])
    <3>1. CASE n = 0
      BY <1>3, <2>1, <2>3, <3>1
    <3>2. CASE n # 0 /\ n < k
      <4>1. more[n] = held[n] /\ more[n - 1] = held[n - 1] /\ n \in 0..(k - 1)
        BY <2>1, <3>2
      <4> QED
        BY <2>3, <3>2, <4>1
    <3>3. CASE n = k
      <4>1. more[n] = Applied(a, held[k - 1], events[k]) /\ more[n - 1] = held[k - 1]
        BY <1>3, <2>1, <3>3
      <4> QED
        BY <1>3, <3>3, <4>1
    <3> QED
      BY <2>1, <3>1, <3>2, <3>3
  <2>5. more = [n \in 0..k |-> more[n]]
    OBVIOUS
  <2> HIDE DEF more
  <2>6. IsReading(a, rows, events, k, more)
    BY <2>4, <2>5 DEF IsReading
  <2> QED
    BY <1>1, <2>6
<1> QED
  BY <1>2, <1>3

LEMMA ReadingsAre ==
    ASSUME NEW a, NEW rows, NEW S, NEW events \in Seq(S)
    PROVE  /\ Readings(a, rows, events)[0] = rows
           /\ \A n \in 1..Len(events) :
                Readings(a, rows, events)[n] = Applied(a, Readings(a, rows, events)[n - 1], events[n])
<1> DEFINE held == Readings(a, rows, events)
<1>1. Len(events) \in Nat
  OBVIOUS
<1>2. \E h : h = [n \in 0..Len(events) |-> IF n = 0 THEN rows ELSE Applied(a, h[n - 1], events[n])]
  <2>1. PICK h : IsReading(a, rows, events, Len(events), h)
    BY <1>1, ReadingExists
  <2> QED
    BY <2>1, Zenon DEF IsReading
<1>3. held = [n \in 0..Len(events) |-> IF n = 0 THEN rows ELSE Applied(a, held[n - 1], events[n])]
  BY <1>2, Zenon DEF Readings
<1> HIDE DEF held
<1>4. \A n \in 0..Len(events) : held[n] = IF n = 0 THEN rows ELSE Applied(a, held[n - 1], events[n])
  BY <1>3
<1>5. held[0] = rows
  BY <1>1, <1>4
<1>6. ASSUME NEW n \in 1..Len(events) PROVE held[n] = Applied(a, held[n - 1], events[n])
  BY <1>1, <1>4
<1> QED
  BY <1>5, <1>6 DEF held

LEMMA ReadingsOfMore ==
    ASSUME NEW a, NEW rows, NEW s \in Seq(Events), NEW t \in Seq(Events)
    PROVE  \A n \in 0..Len(s) : Readings(a, rows, s \o t)[n] = Readings(a, rows, s)[n]
<1> DEFINE c == s \o t
           f == Readings(a, rows, c)
           g == Readings(a, rows, s)
<1>1. /\ c \in Seq(Events) /\ Len(s) \in Nat /\ Len(t) \in Nat /\ Len(c) = Len(s) + Len(t)
      /\ \A n \in 1..Len(s) : c[n] = s[n]
      /\ \A n \in 1..Len(t) : c[Len(s) + n] = t[n]
  OBVIOUS
<1> HIDE DEF c
<1>2. f[0] = rows /\ \A n \in 1..Len(c) : f[n] = Applied(a, f[n - 1], c[n])
  BY <1>1, ReadingsAre
<1>3. g[0] = rows /\ \A n \in 1..Len(s) : g[n] = Applied(a, g[n - 1], s[n])
  BY ReadingsAre
<1> HIDE DEF f, g
<1>4. \A n \in 0..Len(s) : f[n] = g[n]
  <2> DEFINE T == {n \in 0..Len(s) : f[n] # g[n]}
  <2> SUFFICES ASSUME T # {} PROVE FALSE
    OBVIOUS
  <2>0. T \subseteq Nat
    OBVIOUS
  <2>1. PICK k \in T : \A m \in T : k <= m
    <3> HIDE DEF T
    <3> QED
      BY <2>0, SmallestExists
  <2>2. k # 0
    BY <1>2, <1>3, <2>1
  <2>3. k \in 1..Len(s) /\ k - 1 \in 0..Len(s) /\ k - 1 \notin T
    BY <1>1, <2>1, <2>2
  <2>4. f[k - 1] = g[k - 1] /\ k \in 1..Len(c)
    BY <1>1, <2>3
  <2>5. f[k] = g[k]
    BY <1>1, <1>2, <1>3, <2>3, <2>4
  <2> QED
    BY <2>1, <2>5
<1> QED
  BY <1>4 DEF f, g, c

LEMMA ReadingKept ==
    ASSUME NEW a, NEW rows, NEW s \in Seq(Events), NEW t \in Seq(Events)
    PROVE  Readings(a, rows, s \o t)[Len(s)] = Readings(a, rows, s)[Len(s)]
<1>1. Len(s) \in 0..Len(s)
  OBVIOUS
<1>2. \A n \in 0..Len(s) : Readings(a, rows, s \o t)[n] = Readings(a, rows, s)[n]
  BY ReadingsOfMore
<1> QED
  BY <1>1, <1>2, Zenon

LEMMA ReadingNext ==
    ASSUME NEW a, NEW rows, NEW s \in Seq(Events), NEW t \in Seq(Events), NEW n \in 1..Len(t)
    PROVE  Readings(a, rows, s \o t)[Len(s) + n]
               = Applied(a, Readings(a, rows, s \o t)[(Len(s) + n) - 1], t[n])
<1> DEFINE c == s \o t
           f == Readings(a, rows, c)
<1>0. c \in Seq(Events)
  OBVIOUS
<1>1. /\ Len(s) \in Nat /\ Len(t) \in Nat /\ Len(c) = Len(s) + Len(t)
      /\ c[Len(s) + n] = t[n]
  OBVIOUS
<1> HIDE DEF c
<1>2. Len(s) + n \in 1..Len(c)
  BY <1>1
<1>3. f[Len(s) + n] = Applied(a, f[(Len(s) + n) - 1], c[Len(s) + n])
  <2> DEFINE m == Len(s) + n
  <2> HIDE DEF m
  <2>1. m \in 1..Len(c)
    BY <1>2 DEF m
  <2>2. f[0] = rows /\ \A k \in 1..Len(c) : f[k] = Applied(a, f[k - 1], c[k])
    BY <1>0, ReadingsAre
  <2> HIDE DEF f
  <2> QED
    BY <2>1, <2>2, Zenon DEF m
<1> HIDE DEF f
<1>4. f[Len(s) + n] = Applied(a, f[(Len(s) + n) - 1], t[n])
  BY <1>1, <1>3
<1> QED
  BY <1>4 DEF f, c

\* What each kind of event does.
LEMMA AppliedMessage ==
    ASSUME NEW a, NEW rows, NEW r
    PROVE  Applied(a, rows, Message(r)) = rows \cup {r}
BY DEF Applied, Message

LEMMA AppliedUpdate ==
    ASSUME NEW a, NEW rows, NEW r
    PROVE  Applied(a, rows, ExpiryUpdate(r)) = {IF q.id = r.id THEN r ELSE q : q \in rows}
<1>1. ExpiryUpdate(r).type = "expiry-update" /\ ExpiryUpdate(r).row = r
  BY DEF ExpiryUpdate
<1> QED
  BY <1>1, Zenon DEF Applied

LEMMA AppliedClearance ==
    ASSUME NEW a, NEW rows, NEW p, NEW at
    PROVE  Applied(a, rows, Clearance(p, at)) = {r \in rows : ~(Between(r, a, p) /\ r.created <= at)}
<1>1. /\ Clearance(p, at).type = "conversation-cleared" /\ Clearance(p, at).partner = p
      /\ Clearance(p, at).at = at
  BY DEF Clearance
<1> QED
  BY <1>1, Zenon DEF Applied

LEMMA AppliedDisconnect ==
    ASSUME NEW a, NEW rows, NEW p
    PROVE  Applied(a, rows, Disconnected(p)) = {r \in rows : ~Involves(r, p)}
<1>1. Disconnected(p).type = "user:disconnected" /\ Disconnected(p).partner = p
  BY DEF Disconnected
<1> QED
  BY <1>1, Zenon DEF Applied

\* What a reader holds is rows, and the live ones are the database's.
CompleteFor(a) ==
    /\ Replayed(a) \subseteq Rows
    /\ {r \in Replayed(a) : Live(r, clock)} = {r \in messages : Involves(r, a) /\ Live(r, clock)}

CompleteInv == \A a \in Addresses \ left : CompleteFor(a)

Start(a) == {r \in base : Involves(r, a)}

\* Nothing, or one event more.
LEMMA ReplayedSame ==
    ASSUME NEW a, base' = base, published'[a] = published[a]
    PROVE  Replayed(a)' = Replayed(a)
BY DEF Replayed

LEMMA ReplayedNext ==
    ASSUME StreamsInv, NEW a \in Addresses, NEW e \in Events, base' = base,
           published'[a] = published[a] \o <<e>>
    PROVE  Replayed(a)' = Applied(a, Replayed(a), e)
<1> DEFINE s == published[a]
           t == <<e>>
           rows == Start(a)
<1>1. s \in Seq(Events) /\ t \in Seq(Events) /\ Len(s) \in Nat
  BY DEF StreamsInv
<1>2. Len(t) = 1 /\ t[1] = e /\ Len(s \o t) = Len(s) + 1
  BY <1>1
<1>3. Replayed(a)' = Readings(a, rows, s \o t)[Len(s \o t)]
  BY DEF Replayed, Start
<1>4. Replayed(a) = Readings(a, rows, s)[Len(s)]
  BY DEF Replayed, Start
<1> HIDE DEF s, t, rows
<1>5. Readings(a, rows, s \o t)[Len(s)] = Readings(a, rows, s)[Len(s)]
  BY <1>1, ReadingKept
<1>6. Readings(a, rows, s \o t)[Len(s) + 1] = Applied(a, Readings(a, rows, s \o t)[(Len(s) + 1) - 1], t[1])
  <2>1. 1 \in 1..Len(t)
    BY <1>2
  <2> QED
    BY <1>1, <2>1, ReadingNext
<1>7. (Len(s) + 1) - 1 = Len(s)
  BY <1>1
<1> QED
  BY <1>2, <1>3, <1>4, <1>5, <1>6, <1>7

\* Steps that publish nothing: what is live stays what it was, or less of both.
LEMMA SilentlyComplete ==
    ASSUME TypeOK, CompleteInv, UNCHANGED <<published, base>>, left \subseteq left',
           clock' \in Nat, clock <= clock',
           \A r \in Rows : Live(r, clock') => (r \in messages' <=> r \in messages),
           messages' \subseteq Rows
    PROVE  CompleteInv'
<1> SUFFICES ASSUME NEW a \in Addresses \ left' PROVE CompleteFor(a)'
  BY DEF CompleteInv
<1>1. CompleteFor(a)
  BY DEF CompleteInv
<1>2. Replayed(a)' = Replayed(a)
  BY ReplayedSame
<1>3. \A r \in Rows : Live(r, clock') => Live(r, clock)
  BY DEF TypeOK, Live, Rows
<1>4. messages \subseteq Rows
  BY DEF TypeOK
<1>5. ASSUME NEW r PROVE r \in Replayed(a) /\ Live(r, clock') <=> r \in messages' /\ Involves(r, a) /\ Live(r, clock')
  <2>1. r \in Rows => (Live(r, clock') => (r \in Replayed(a) <=> r \in messages /\ Involves(r, a)))
    BY <1>1, <1>3 DEF CompleteFor
  <2>2. r \in Replayed(a) => r \in Rows
    BY <1>1 DEF CompleteFor
  <2> QED
    BY <2>1, <2>2
<1>6. (CompleteFor(a))' = (/\ Replayed(a)' \subseteq Rows
                         /\ {r \in Replayed(a)' : Live(r, clock')} = {r \in messages' : Involves(r, a) /\ Live(r, clock')})
  BY DEF CompleteFor
<1>7. Replayed(a)' \subseteq Rows
  BY <1>1, <1>2 DEF CompleteFor
<1>8. {r \in Replayed(a)' : Live(r, clock')} = {r \in messages' : Involves(r, a) /\ Live(r, clock')}
  BY <1>2, <1>5
<1> QED
  BY <1>7, <1>8 DEF CompleteFor

\* A send.
LEMMA SendComplete ==
    ASSUME ServerInv, IInv, StreamsInv, CompleteInv, NEW s \in Slots, FinishSend(s)
    PROVE  CompleteInv'
<1> DEFINE e == requests[s].envelope
           new == AcceptedRow(e, NextSeq, clock)
<1>0. highWater \in Nat /\ clock \in Nat
  BY DEF IInv, TypeOK
<1>1. e \in Envelopes /\ Create(e) /\ Publish(ToldOfMessage(e)) /\ left' = left
  BY RequestCarries DEF FinishSend, Stored
<1>2. new \in Rows
  BY <1>0, <1>1, AcceptedRowType DEF NextSeq
<1>3. /\ messages' = messages \cup {new} /\ clock' = clock /\ base' = base
      /\ published' = [a \in Addresses |-> published[a] \o (IF a \in Participants(e) THEN <<Message(new)>> ELSE <<>>)]
  BY <1>1 DEF Create, Publish, ToldOfMessage
<1>4. \A a : Involves(new, a) <=> a \in Participants(e)
  BY DEF AcceptedRow, Involves, Participants
<1>5. Message(new) \in Events
  BY <1>2 DEF Events
<1> HIDE DEF e, new
<1> SUFFICES ASSUME NEW a \in Addresses \ left PROVE CompleteFor(a)'
  BY <1>1 DEF CompleteInv
<1>6. CompleteFor(a)
  BY DEF CompleteInv
<1>7. CASE a \in Participants(e)
  <2>1. published'[a] = published[a] \o <<Message(new)>>
    BY <1>3, <1>7
  <2>2. Replayed(a)' = Replayed(a) \cup {new}
    <3>1. Replayed(a)' = Applied(a, Replayed(a), Message(new))
      BY <1>3, <1>5, <2>1, ReplayedNext
    <3>2. Applied(a, Replayed(a), Message(new)) = Replayed(a) \cup {new}
      BY AppliedMessage
    <3> QED
      BY <3>1, <3>2
  <2>3. Replayed(a)' \subseteq Rows
    BY <1>2, <1>6, <2>2 DEF CompleteFor
  <2>4. {r \in Replayed(a)' : Live(r, clock')} = {r \in messages' : Involves(r, a) /\ Live(r, clock')}
    BY <1>3, <1>4, <1>6, <1>7, <2>2 DEF CompleteFor
  <2> QED
    BY <2>3, <2>4 DEF CompleteFor
<1>8. CASE a \notin Participants(e)
  <2>1. published'[a] = published[a]
    <3>1. published[a] \in Seq(Events)
      BY DEF StreamsInv
    <3> QED
      BY <1>3, <1>8, <3>1
  <2>2. Replayed(a)' = Replayed(a)
    BY <1>3, <2>1, ReplayedSame
  <2>3. {r \in Replayed(a)' : Live(r, clock')} = {r \in messages' : Involves(r, a) /\ Live(r, clock')}
    BY <1>3, <1>4, <1>6, <1>8, <2>2 DEF CompleteFor
  <2> QED
    BY <1>6, <2>2, <2>3 DEF CompleteFor
<1> QED
  BY <1>7, <1>8

\* A clear and an account deletion take the same rows from the reader as from
\* the table; whom they do not tell had none of them.
LEMMA ClearComplete ==
    ASSUME IInv, StreamsInv, CompleteInv, NEW a \in Addresses, NEW b \in Addresses, a # b,
           ClearConversation(a, b)
    PROVE  CompleteInv'
<1>1. /\ messages' = messages \ {r \in messages : r.created <= clock /\ Between(r, a, b)}
      /\ clock' = clock /\ base' = base /\ left' = left
      /\ published' = [c \in Addresses |-> published[c] \o ToldOfClear(a, b)[c]]
  BY DEF ClearConversation, Clear, Cleared, Publish
<1>2. clock \in Nat
  BY DEF IInv, TypeOK
<1> SUFFICES ASSUME NEW c \in Addresses \ left PROVE CompleteFor(c)'
  BY <1>1 DEF CompleteInv
<1>3. CompleteFor(c) /\ published[c] \in Seq(Events)
  BY DEF CompleteInv, StreamsInv
<1>4. ASSUME NEW p \in Addresses, ToldOfClear(a, b)[c] = <<Clearance(p, clock)>>,
             \A r : Between(r, c, p) <=> Between(r, a, b)
      PROVE  CompleteFor(c)'
  <2>1. Clearance(p, clock) \in Events
    BY <1>2 DEF Events
  <2>2. published'[c] = published[c] \o <<Clearance(p, clock)>>
    BY <1>1, <1>4
  <2>3. Replayed(c)' = Applied(c, Replayed(c), Clearance(p, clock))
    BY <1>1, <2>1, <2>2, ReplayedNext
  <2>4. Replayed(c)' = {r \in Replayed(c) : ~(Between(r, c, p) /\ r.created <= clock)}
    <3>1. Applied(c, Replayed(c), Clearance(p, clock)) = {r \in Replayed(c) : ~(Between(r, c, p) /\ r.created <= clock)}
      BY AppliedClearance
    <3> QED
      BY <2>3, <3>1
  <2>5. Replayed(c)' \subseteq Rows
    BY <1>3, <2>4 DEF CompleteFor
  <2>6. {r \in Replayed(c)' : Live(r, clock')} = {r \in messages' : Involves(r, c) /\ Live(r, clock')}
    BY <1>1, <1>3, <1>4, <2>4 DEF CompleteFor
  <2> QED
    BY <2>5, <2>6 DEF CompleteFor
<1>5. CASE c = a
  <2>1. ToldOfClear(a, b)[c] = <<Clearance(b, clock)>>
    BY <1>5 DEF ToldOfClear
  <2> QED
    BY <1>4, <1>5, <2>1
<1>6. CASE c = b
  <2>1. ToldOfClear(a, b)[c] = <<Clearance(a, clock)>>
    BY <1>6 DEF ToldOfClear
  <2>2. \A r : Between(r, c, a) <=> Between(r, a, b)
    BY <1>6 DEF Between
  <2> QED
    BY <1>4, <2>1, <2>2
<1>7. CASE c # a /\ c # b
  <2>1. ToldOfClear(a, b)[c] = <<>>
    BY <1>7 DEF ToldOfClear
  <2>2. published'[c] = published[c]
    <3>1. published'[c] = published[c] \o <<>>
      BY <1>1, <2>1
    <3> QED
      BY <1>3, <3>1
  <2>3. Replayed(c)' = Replayed(c)
    BY <1>1, <2>2, ReplayedSame
  <2>4. \A r : Involves(r, c) => ~Between(r, a, b)
    BY <1>7 DEF Involves, Between
  <2>5. {r \in Replayed(c)' : Live(r, clock')} = {r \in messages' : Involves(r, c) /\ Live(r, clock')}
    BY <1>1, <1>3, <2>3, <2>4 DEF CompleteFor
  <2> QED
    BY <1>3, <2>3, <2>5 DEF CompleteFor
<1> QED
  BY <1>5, <1>6, <1>7

LEMMA DeleteComplete ==
    ASSUME IInv, StreamsInv, CompleteInv, NEW a \in Addresses, DeleteAddress(a)
    PROVE  CompleteInv'
<1>1. /\ messages' = {r \in messages : ~Involves(r, a)}
      /\ clock' = clock /\ base' = base /\ left' = left \cup {a}
      /\ published' = [b \in Addresses |-> published[b] \o (IF b \in Partners(a) THEN <<Disconnected(a)>> ELSE <<>>)]
  BY DEF DeleteAddress, DeleteRegistration, Publish
<1> SUFFICES ASSUME NEW c \in Addresses \ left, c # a PROVE CompleteFor(c)'
  BY <1>1 DEF CompleteInv
<1>2. CompleteFor(c) /\ published[c] \in Seq(Events)
  BY DEF CompleteInv, StreamsInv
<1>3. CASE c \in Partners(a)
  <2>1. Disconnected(a) \in Events
    BY DEF Events
  <2>2. published'[c] = published[c] \o <<Disconnected(a)>>
    BY <1>1, <1>3
  <2>3. Replayed(c)' = {r \in Replayed(c) : ~Involves(r, a)}
    <3>1. Replayed(c)' = Applied(c, Replayed(c), Disconnected(a))
      BY <1>1, <2>1, <2>2, ReplayedNext
    <3>2. Applied(c, Replayed(c), Disconnected(a)) = {r \in Replayed(c) : ~Involves(r, a)}
      BY AppliedDisconnect
    <3> QED
      BY <3>1, <3>2
  <2>4. {r \in Replayed(c)' : Live(r, clock')} = {r \in messages' : Involves(r, c) /\ Live(r, clock')}
    BY <1>1, <1>2, <2>3 DEF CompleteFor
  <2> QED
    BY <1>2, <2>3, <2>4 DEF CompleteFor
<1>4. CASE c \notin Partners(a)
  <2>1. published'[c] = published[c]
    BY <1>1, <1>2, <1>4
  <2>2. Replayed(c)' = Replayed(c)
    BY <1>1, <2>1, ReplayedSame
  <2>3. \A r \in messages : Involves(r, c) => ~Involves(r, a)
    BY <1>4 DEF Partners, Involves, Between
  <2>4. {r \in Replayed(c)' : Live(r, clock')} = {r \in messages' : Involves(r, c) /\ Live(r, clock')}
    BY <1>1, <1>2, <2>2, <2>3 DEF CompleteFor
  <2> QED
    BY <1>2, <2>2, <2>4 DEF CompleteFor
<1> QED
  BY <1>3, <1>4

-----------------------------------------------------------------------------
(* Openings: a reader takes the updates one after the other, in whatever    *)
(* order the query returned the rows.                                       *)

\* After the first k of them.
Midway(held, c, updates, k) ==
    /\ held \subseteq Rows
    /\ \A r \in Rows : Live(r, clock) =>
         (r \in held <=> \/ /\ r \in messages /\ Involves(r, c)
                            /\ \A i \in 1..k : updates[i] # r
                         \/ \E i \in 1..k : r = OpenedRow(updates[i], clock))

\* One update more.
LEMMA UpdateStep ==
    ASSUME TypeOK, KeysAreUnique, NEW c, NEW k \in Nat, NEW updates, NEW held,
           \A i \in 1..(k + 1) : /\ updates[i] \in messages /\ Live(updates[i], clock)
                                 /\ Involves(updates[i], c),
           \A i, j \in 1..(k + 1) : i # j => updates[i] # updates[j],
           Midway(held, c, updates, k)
    PROVE  Midway(Applied(c, held, ExpiryUpdate(OpenedRow(updates[k + 1], clock))), c, updates, k + 1)
<1> DEFINE u == updates[k + 1]
           x == OpenedRow(u, clock)
           next == {IF r.id = x.id THEN x ELSE r : r \in held}
<1>1. Applied(c, held, ExpiryUpdate(x)) = next
  BY AppliedUpdate
<1>2. clock \in Nat /\ messages \subseteq Rows
  BY DEF TypeOK
<1>3. u \in messages /\ u \in Rows /\ Live(u, clock) /\ Involves(u, c) /\ k + 1 \in 1..(k + 1)
  BY <1>2
<1>4. \A i \in 1..(k + 1) : /\ updates[i] \in Rows /\ OpenedRow(updates[i], clock) \in Rows
                            /\ OpenedRow(updates[i], clock).id = updates[i].id
  <2>1. \A i \in 1..(k + 1) : updates[i] \in Rows
    BY <1>2
  <2>2. \A r \in Rows : OpenedRow(r, clock) \in Rows
    BY <1>2, OpenedRowType
  <2>3. \A r \in Rows : OpenedRow(r, clock).id = r.id
    BY DEF OpenedRow, Rows
  <2> QED
    BY <2>1, <2>2, <2>3
<1>5. x \in Rows /\ x.id = u.id /\ Live(x, clock)
  <2>1. x \in Rows /\ x.id = u.id
    BY <1>3, <1>4
  <2>2. Live(x, clock)
    BY <1>2, <1>3 DEF OpenedRow, Rows, Live
  <2> QED
    BY <2>1, <2>2
<1>6. \A i \in 1..k : i \in 1..(k + 1) /\ updates[i] # u
  BY <1>3
<1>7. u \in held
  BY <1>3, <1>6 DEF Midway
<1> HIDE DEF u, x
<1>8. next \subseteq Rows
  BY <1>5 DEF Midway
<1>9. \A q : q \in next <=> q = x \/ (q \in held /\ q.id # u.id)
  BY <1>5, <1>7
<1> HIDE DEF next
<1>10. \A i \in 1..k : OpenedRow(updates[i], clock).id # u.id /\ updates[i].id # u.id
  BY <1>3, <1>4, <1>6 DEF KeysAreUnique
<1>11. \A i \in 1..(k + 1) : i \in 1..k \/ updates[i] = u
  BY DEF u
<1>12. updates[k + 1] = u /\ OpenedRow(u, clock) = x
  BY DEF u, x
<1>13. ASSUME NEW q \in Rows, Live(q, clock)
       PROVE  q \in next <=> \/ /\ q \in messages /\ Involves(q, c)
                                /\ \A i \in 1..(k + 1) : updates[i] # q
                             \/ \E i \in 1..(k + 1) : q = OpenedRow(updates[i], clock)
  <2>1. ASSUME q \in messages, q # u PROVE q.id # u.id
    BY <1>3, <2>1 DEF KeysAreUnique
  <2>2. q \in held <=> \/ /\ q \in messages /\ Involves(q, c)
                          /\ \A i \in 1..k : updates[i] # q
                       \/ \E i \in 1..k : q = OpenedRow(updates[i], clock)
    BY <1>13 DEF Midway
  <2>3. ASSUME q \in next
        PROVE  \/ /\ q \in messages /\ Involves(q, c)
                  /\ \A i \in 1..(k + 1) : updates[i] # q
               \/ \E i \in 1..(k + 1) : q = OpenedRow(updates[i], clock)
    <3>1. CASE q = x
      BY <1>3, <1>12, <3>1
    <3>2. CASE q \in held /\ q.id # u.id
      BY <1>6, <1>11, <2>2, <3>2
    <3> QED
      BY <1>9, <2>3, <3>1, <3>2
  <2>4. ASSUME q \in messages, Involves(q, c), \A i \in 1..(k + 1) : updates[i] # q
        PROVE  q \in next
    <3>1. q # u /\ \A i \in 1..k : updates[i] # q
      BY <1>3, <1>6, <1>12, <2>4
    <3> QED
      BY <1>9, <2>1, <2>2, <2>4, <3>1
  <2>5. ASSUME NEW i \in 1..(k + 1), q = OpenedRow(updates[i], clock) PROVE q \in next
    <3>1. CASE i \in 1..k
      BY <1>9, <1>10, <2>2, <2>5, <3>1
    <3>2. CASE updates[i] = u
      BY <1>9, <1>12, <2>5, <3>2
    <3> QED
      BY <1>11, <3>1, <3>2
  <2> QED
    BY <2>3, <2>4, <2>5
<1>14. Midway(next, c, updates, k + 1)
  BY <1>8, <1>13 DEF Midway
<1> QED
  BY <1>1, <1>14 DEF x, u

\* All of them, by the smallest number of updates that would not do.
LEMMA UpdatesApplied ==
    ASSUME TypeOK, KeysAreUnique, NEW c, NEW rows, NEW s \in Seq(Events), NEW list \in Seq(Events), NEW updates,
           \A i \in 1..Len(list) : /\ updates[i] \in messages /\ Live(updates[i], clock)
                                   /\ Involves(updates[i], c)
                                   /\ list[i] = ExpiryUpdate(OpenedRow(updates[i], clock)),
           \A i, j \in 1..Len(list) : i # j => updates[i] # updates[j],
           Midway(Readings(c, rows, s)[Len(s)], c, updates, 0)
    PROVE  Midway(Readings(c, rows, s \o list)[Len(s \o list)], c, updates, Len(list))
<1> DEFINE f == Readings(c, rows, s \o list)
           T == {k \in 0..Len(list) : ~Midway(f[Len(s) + k], c, updates, k)}
<1>1. Len(s) \in Nat /\ Len(list) \in Nat /\ Len(s \o list) = Len(s) + Len(list)
  OBVIOUS
<1>2. ASSUME NEW n \in 1..Len(list) PROVE f[Len(s) + n] = Applied(c, f[(Len(s) + n) - 1], list[n])
  BY ReadingNext
<1>3. Midway(f[Len(s) + 0], c, updates, 0)
  <2>1. Len(s) + 0 = Len(s)
    BY <1>1
  <2>2. f[Len(s)] = Readings(c, rows, s)[Len(s)]
    BY ReadingKept
  <2> HIDE DEF f
  <2> QED
    BY <2>1, <2>2
<1> HIDE DEF f
<1>4. T = {}
  <2> SUFFICES ASSUME T # {} PROVE FALSE
    OBVIOUS
  <2>1. T \subseteq Nat
    OBVIOUS
  <2>2. PICK k \in T : \A m \in T : k <= m
    <3> HIDE DEF T
    <3> QED
      BY <2>1, SmallestExists
  <2>3. k \in 1..Len(list)
    BY <1>1, <1>3, <2>2
  <2>4. PICK j \in Nat : k = j + 1
    BY <2>3
  <2>5. j \in 0..Len(list) /\ j \notin T /\ j + 1 \in 1..Len(list)
    BY <1>1, <2>2, <2>3, <2>4
  <2>6. Midway(f[Len(s) + j], c, updates, j)
    BY <2>5
  <2>7. f[Len(s) + (j + 1)] = Applied(c, f[Len(s) + j], list[j + 1])
    <3>1. f[Len(s) + (j + 1)] = Applied(c, f[(Len(s) + (j + 1)) - 1], list[j + 1])
      BY <1>2, <2>5
    <3>2. (Len(s) + (j + 1)) - 1 = Len(s) + j
      BY <1>1
    <3> QED
      BY <3>1, <3>2
  <2>8. \A i \in 1..(j + 1) : i \in 1..Len(list)
    BY <1>1, <2>5
  <2>9. Midway(Applied(c, f[Len(s) + j], ExpiryUpdate(OpenedRow(updates[j + 1], clock))), c, updates, j + 1)
    <3> HIDE DEF T
    <3>1. /\ \A i \in 1..(j + 1) : /\ updates[i] \in messages /\ Live(updates[i], clock)
                                   /\ Involves(updates[i], c)
          /\ \A i, m \in 1..(j + 1) : i # m => updates[i] # updates[m]
      BY <2>8
    <3> QED
      BY <2>6, <3>1, UpdateStep
  <2>10. list[j + 1] = ExpiryUpdate(OpenedRow(updates[j + 1], clock))
    BY <2>5
  <2>11. Midway(f[Len(s) + (j + 1)], c, updates, j + 1)
    BY <2>7, <2>9, <2>10
  <2> QED
    BY <2>2, <2>4, <2>11
<1>5. Midway(f[Len(s) + Len(list)], c, updates, Len(list))
  BY <1>1, <1>4
<1> QED
  BY <1>1, <1>5 DEF f

\* An opening: both parties have the rows with the deadlines of the table.
LEMMA OpenComplete ==
    ASSUME ServerInv, IInv, IsFiniteSet(messages), StreamsInv, CompleteInv,
           NEW s \in Slots, NEW b \in Addresses, NEW ids \in SUBSET Ids, FinishOpen(s, b, ids)
    PROVE  CompleteInv'
<1> DEFINE a == requests[s].address
           fresh == NewlyOpened(Available(a, b, ids))
           total == Cardinality(fresh)
<1>0. /\ clock \in Nat /\ messages \subseteq Rows /\ TypeOK /\ KeysAreUnique
  BY DEF IInv, TypeOK, RowsAreSound
<1>1. Open(a, b, ids) /\ left' = left
  BY RequestCarries DEF FinishOpen
<1>2. PICK updates \in SetToSeqs(fresh) :
        Publish([c \in Addresses |->
                    IF c \in {a, b}
                    THEN [i \in DOMAIN updates |-> ExpiryUpdate(OpenedRow(updates[i], clock))]
                    ELSE <<>>])
  BY DEF FinishOpen
<1> DEFINE list == [i \in DOMAIN updates |-> ExpiryUpdate(OpenedRow(updates[i], clock))]
           told == [c \in Addresses |-> IF c \in {a, b} THEN list ELSE <<>>]
<1>3. \A r \in fresh : r \in messages /\ r.recipient = a /\ r.sender = b /\ Live(r, clock)
  BY DEF NewlyOpened, Available
<1>4. IsFiniteSet(fresh) /\ total \in Nat
  <2>1. fresh \subseteq messages
    BY <1>3
  <2> QED
    BY <2>1, FS_Subset, FS_CardinalityType
<1>5. /\ DOMAIN updates = 1..total /\ updates \in [1..total -> fresh]
      /\ \A i, j \in 1..total : i # j => updates[i] # updates[j]
  BY DEF SetToSeqs
<1>6. Publish(told)
  BY <1>2
<1>7. /\ messages' = (messages \ fresh) \cup {OpenedRow(r, clock) : r \in fresh}
      /\ clock' = clock
  BY <1>1 DEF Open
<1> HIDE DEF a, fresh, told, total
<1>8. \A r \in fresh : \E i \in 1..total : updates[i] = r
  BY <1>4, <1>5, ListingsAreComplete DEF total
<1>9. ASSUME NEW i \in 1..total
      PROVE  list[i] = ExpiryUpdate(OpenedRow(updates[i], clock)) /\ list[i] \in Events
  <2>1. OpenedRow(updates[i], clock) \in Rows
    BY <1>0, <1>3, <1>5, OpenedRowType
  <2> QED
    BY <1>5, <2>1 DEF Events
<1>10. DOMAIN list = 1..total /\ list \in Seq(Events) /\ Len(list) = total
  <2>1. list \in [1..total -> Events]
    BY <1>5, <1>9
  <2> QED
    BY <1>4, <2>1
<1> HIDE DEF list
<1>11. base' = base /\ published' = [c \in Addresses |-> published[c] \o told[c]]
  BY <1>6 DEF Publish
<1> SUFFICES ASSUME NEW c \in Addresses \ left PROVE CompleteFor(c)'
  BY <1>1 DEF CompleteInv
<1>12. CompleteFor(c) /\ published[c] \in Seq(Events)
  BY DEF CompleteInv, StreamsInv
<1>13. \A r \in fresh : OpenedRow(r, clock) \in Rows /\ (Involves(OpenedRow(r, clock), c) <=> c \in {a, b})
                        /\ (Involves(r, c) <=> c \in {a, b})
  <2>1. ASSUME NEW r \in fresh PROVE OpenedRow(r, clock).sender = b /\ OpenedRow(r, clock).recipient = a
    BY <1>0, <1>3 DEF OpenedRow, Rows
  <2>2. ASSUME NEW r \in fresh PROVE OpenedRow(r, clock) \in Rows
    BY <1>0, <1>3, OpenedRowType
  <2> QED
    BY <1>3, <2>1, <2>2 DEF Involves
<1>14. CASE c \in {a, b}
  <2>1. published'[c] = published[c] \o list
    BY <1>11, <1>14 DEF told
  <2>2. Replayed(c)' = Readings(c, Start(c), published[c] \o list)[Len(published[c] \o list)]
    BY <1>11, <2>1 DEF Replayed, Start
  <2>3. Replayed(c) = Readings(c, Start(c), published[c])[Len(published[c])]
    BY DEF Replayed, Start
  <2>4. Midway(Replayed(c), c, updates, 0)
    BY <1>0, <1>12 DEF Midway, CompleteFor
  <2>5. /\ \A i \in 1..Len(list) : /\ updates[i] \in messages /\ Live(updates[i], clock)
                                   /\ Involves(updates[i], c)
                                   /\ list[i] = ExpiryUpdate(OpenedRow(updates[i], clock))
        /\ \A i, j \in 1..Len(list) : i # j => updates[i] # updates[j]
    <3>1. \A i \in 1..total : updates[i] \in fresh
      BY <1>5
    <3> QED
      BY <1>3, <1>5, <1>9, <1>10, <1>13, <1>14, <3>1
  <2>6. Midway(Readings(c, Start(c), published[c] \o list)[Len(published[c] \o list)], c, updates, Len(list))
    <3>1. Midway(Readings(c, Start(c), published[c])[Len(published[c])], c, updates, 0)
      BY <2>3, <2>4
    <3> QED
      BY <1>0, <1>10, <1>12, <2>5, <3>1, UpdatesApplied
  <2>7. Midway(Replayed(c)', c, updates, total)
    BY <1>10, <2>2, <2>6
  <2>8. \A r \in Rows : Live(r, clock) => (r \in Replayed(c)' <=> r \in messages' /\ Involves(r, c))
    <3>1. ASSUME NEW r \in Rows PROVE (\A i \in 1..total : updates[i] # r) <=> r \notin fresh
      BY <1>5, <1>8
    <3>2. ASSUME NEW r \in Rows
          PROVE  (\E i \in 1..total : r = OpenedRow(updates[i], clock)) <=> \E q \in fresh : r = OpenedRow(q, clock)
      BY <1>5, <1>8
    <3>3. \A r \in Rows : Live(r, clock) =>
             (r \in Replayed(c)' <=> \/ r \in messages /\ Involves(r, c) /\ r \notin fresh
                                     \/ \E q \in fresh : r = OpenedRow(q, clock))
      BY <2>7, <3>1, <3>2 DEF Midway
    <3> QED
      BY <1>7, <1>13, <1>14, <3>3
  <2>9. Replayed(c)' \subseteq Rows
    BY <2>7 DEF Midway
  <2>10. messages' \subseteq Rows
    BY <1>0, <1>7, <1>13
  <2>11. {r \in Replayed(c)' : Live(r, clock')} = {r \in messages' : Involves(r, c) /\ Live(r, clock')}
    BY <1>7, <2>8, <2>9, <2>10
  <2> QED
    BY <2>9, <2>11 DEF CompleteFor
<1>15. CASE c \notin {a, b}
  <2>1. published'[c] = published[c]
    <3>1. published'[c] = published[c] \o <<>>
      BY <1>11, <1>15 DEF told
    <3> QED
      BY <1>12, <3>1
  <2>2. Replayed(c)' = Replayed(c)
    BY <1>11, <2>1, ReplayedSame
  <2>3. {r \in Replayed(c)' : Live(r, clock')} = {r \in messages' : Involves(r, c) /\ Live(r, clock')}
    BY <1>7, <1>12, <1>13, <1>15, <2>2 DEF CompleteFor
  <2> QED
    BY <1>12, <2>2, <2>3 DEF CompleteFor
<1> QED
  BY <1>14, <1>15

\* A restart: whoever reconnects starts from the table.
LEMMA RestartComplete ==
    ASSUME TypeOK, RestartServer
    PROVE  CompleteInv'
<1>1. messages' = messages /\ clock' = clock /\ base' = messages /\ published' = [a \in Addresses |-> <<>>]
  BY DEF RestartServer, Restart
<1> SUFFICES ASSUME NEW a \in Addresses \ left' PROVE CompleteFor(a)'
  BY DEF CompleteInv
<1> DEFINE rows == {r \in messages : Involves(r, a)}
<1>2. Replayed(a)' = Readings(a, rows, <<>>)[Len(<<>>)]
  BY <1>1 DEF Replayed
<1>3. Readings(a, rows, <<>>)[0] = rows /\ Len(<<>>) = 0
  <2>1. <<>> \in Seq(Events)
    OBVIOUS
  <2> HIDE DEF rows
  <2> QED
    BY <2>1, ReadingsAre
<1>4. Replayed(a)' = rows /\ rows \subseteq Rows
  BY <1>2, <1>3 DEF TypeOK
<1> QED
  BY <1>1, <1>4 DEF CompleteFor

LEMMA CompleteInitially == Init => CompleteInv
<1> SUFFICES ASSUME Init, NEW a \in Addresses PROVE CompleteFor(a)
  BY DEF CompleteInv
<1>1. messages = {} /\ base = {} /\ published = [b \in Addresses |-> <<>>]
  BY DEF Init, DbInit
<1>2. Replayed(a) = Readings(a, {}, <<>>)[Len(<<>>)]
  <2>1. {r \in base : Involves(r, a)} = {} /\ published[a] = <<>>
    BY <1>1
  <2> QED
    BY <2>1 DEF Replayed
<1>3. Readings(a, {}, <<>>)[0] = {} /\ Len(<<>>) = 0
  <2>1. <<>> \in Seq(Events)
    OBVIOUS
  <2> QED
    BY <2>1, ReadingsAre
<1> QED
  BY <1>1, <1>2, <1>3 DEF CompleteFor

LEMMA CompleteStep == ServerIInv /\ CompleteInv /\ [Next]_vars => CompleteInv'
<1> SUFFICES ASSUME ServerIInv, CompleteInv, [Next]_vars PROVE CompleteInv'
  OBVIOUS
<1>0. /\ ServerInv /\ IInv /\ IsFiniteSet(messages) /\ StreamsInv /\ TypeOK
      /\ messages \subseteq Rows /\ clock \in Nat
  BY DEF ServerIInv, IInv, TypeOK
<1>1. ASSUME NEW s \in Slots, FinishSend(s) PROVE CompleteInv'
  BY <1>0, <1>1, SendComplete
<1>2. ASSUME NEW s \in Slots, NEW b \in Addresses, NEW ids \in SUBSET Ids, FinishOpen(s, b, ids)
      PROVE  CompleteInv'
  BY <1>0, <1>2, OpenComplete
<1>3. ASSUME NEW a \in Addresses, NEW b \in Addresses, a # b, ClearConversation(a, b) PROVE CompleteInv'
  BY <1>0, <1>3, ClearComplete
<1>4. ASSUME NEW a \in Addresses, DeleteAddress(a) PROVE CompleteInv'
  BY <1>0, <1>4, DeleteComplete
<1>5. ASSUME RestartServer PROVE CompleteInv'
  BY <1>0, <1>5, RestartComplete
<1>6. CASE UNCHANGED <<messages, clock, observed>>
  BY <1>0, <1>6, SilentlyComplete DEF observed
<1>7. CASE Pass
  BY <1>0, <1>7, SilentlyComplete DEF Pass, Tick, observed
<1>8. CASE SweepExpired
  <2>1. /\ clock' = clock /\ UNCHANGED <<published, base>> /\ left' = left
        /\ messages' = messages \ {r \in messages : r.expires <= clock}
    BY <1>8 DEF SweepExpired, Sweep, observed, Expired
  <2>2. \A r \in Rows : Live(r, clock') => (r \in messages' <=> r \in messages)
    BY <1>0, <2>1 DEF Live, Rows
  <2> QED
    BY <1>0, <2>1, <2>2, SilentlyComplete
<1>9. \/ \E s \in Slots : FinishSend(s)
      \/ \E s \in Slots, b \in Addresses, ids \in SUBSET Ids : FinishOpen(s, b, ids)
      \/ \E a, b \in Addresses : a # b /\ ClearConversation(a, b)
      \/ \E a \in Addresses : DeleteAddress(a)
      \/ RestartServer \/ Pass \/ SweepExpired
      \/ UNCHANGED <<messages, clock, observed>>
  <2>1. CASE UNCHANGED vars
    BY <2>1 DEF vars, dbVars
  <2>2. CASE Next
    BY <2>2 DEF Next, observed, ReceiveSend, ReceiveOpen, Enter, CheckSend, Refuse, FinishReplay,
         Register, SignIn, SignOut, DropSession, RegisterPubkey, CreateSession, DeleteSession,
         DropExpiredSession, dbVars
  <2> QED
    BY <2>1, <2>2
<1> QED
  BY <1>1, <1>2, <1>3, <1>4, <1>5, <1>6, <1>7, <1>8, <1>9

\* Whoever was connected since the server started and applied each event in
\* order has the messages and deadlines of the database, whatever handlers
\* interleave at their awaits: no write of the routes goes untold or is told
\* otherwise than it happened.
THEOREM StreamsComplete == Spec => []StreamsAreComplete
<1>1. Init => ServerIInv /\ CompleteInv
  BY ServerInitially, IInvInit, StreamsInitially, CompleteInitially DEF ServerIInv
<1>2. ServerIInv /\ CompleteInv /\ [Next]_vars => ServerIInv' /\ CompleteInv'
  BY ServerIInvStep, CompleteStep
<1>3. CompleteInv => StreamsAreComplete
  BY DEF CompleteInv, CompleteFor, StreamsAreComplete
<1> QED
  BY <1>1, <1>2, <1>3, PTL DEF Spec

-----------------------------------------------------------------------------
(* Pages miss nothing: what a browser has read of a conversation is complete *)
(* however the table changes between its pages, and a recovery always gets   *)
(* further.  It rests on what the first and the last n rows of a finite      *)
(* table are.  The inductive invariant: cursors stay below the high-water    *)
(* mark, so that what is accepted later is beyond them, and nothing behind   *)
(* them is missed.                                                           *)

CursorsInRange ==
    /\ phase \in {"new", "idle", "recovering"}
    /\ checkpoint \in 0..highWater /\ olderCursor \in Nat
    /\ lower \in 0..highWater /\ upper \in 0..highWater

ReaderInv == TableInv /\ CursorsInRange /\ NothingSkipped

Conversation == LiveBetween(messages, me, partner, clock)

-----------------------------------------------------------------------------
(* The pages *)

\* A history page has every live row from its oldest to `before`; a page that
\* is not full has all of them.
LEMMA HistoryPage ==
    ASSUME TableInv, NEW before \in Nat
    PROVE  LET rows == HistoryRows(messages, me, partner, before, PageSize, clock)
           IN  /\ rows # {} => MinSeqOf(rows) \in Nat
               /\ \A r \in Conversation :
                    /\ r.seq < before
                    /\ Cardinality(rows) # PageSize \/ (rows # {} /\ r.seq >= MinSeqOf(rows))
                    => r \in rows
BY PageOfHistory, ReaderAssumption DEF Conversation

\* A recovery page is all of its interval, or has every row up to where the
\* next page starts, which is further on and below the bound.
LEMMA RecoveryPage ==
    ASSUME TableInv, NEW from \in Nat, NEW bound \in Nat
    PROVE  LET rows == RecoveryFetch(messages, me, partner, from, bound, RecoveryLimit, clock)
               page == FirstRows(rows, RecoveryLimit)
           IN  /\ Exhausted(rows) =>
                    \A r \in Conversation : from < r.seq /\ r.seq <= bound => r \in page
               /\ ~Exhausted(rows) =>
                    /\ ContinueAfter(rows) \in Nat
                    /\ from < ContinueAfter(rows) /\ ContinueAfter(rows) < bound
                    /\ \A r \in Conversation :
                          from < r.seq /\ r.seq <= ContinueAfter(rows) => r \in page
<1> DEFINE rows == RecoveryFetch(messages, me, partner, from, bound, RecoveryLimit, clock)
           page == FirstRows(rows, RecoveryLimit)
<1>1. RecoveryLimit \in Nat \ {0}
  BY ReaderAssumption
<1>2. Cardinality(rows) \in Nat
  <2>1. rows \in SUBSET messages
    BY DEF RecoveryFetch, FirstRows, LiveBetween
  <2> QED
    BY <2>1, FS_Subset, FS_CardinalityType DEF TableInv
<1>3. /\ Cardinality(rows) <= RecoveryLimit =>
           \A r \in Conversation : from < r.seq /\ r.seq <= bound => r \in page
      /\ Cardinality(rows) > RecoveryLimit =>
           /\ MaxSeqOf(page) \in Nat
           /\ from < MaxSeqOf(page) /\ MaxSeqOf(page) < bound
           /\ \A r \in Conversation : from < r.seq /\ r.seq <= MaxSeqOf(page) => r \in page
  BY <1>1, PageOfRecovery DEF Conversation
<1>4. /\ Exhausted(rows) <=> ~(Cardinality(rows) > RecoveryLimit)
      /\ ContinueAfter(rows) = MaxSeqOf(page)
  <2> HIDE DEF rows
  <2> QED
    BY <1>1, <1>2 DEF Exhausted, ContinueAfter
<1> HIDE DEF rows, page
<1>5. Exhausted(rows) <=> Cardinality(rows) <= RecoveryLimit
  BY DEF Exhausted
<1> QED
  BY <1>3, <1>4, <1>5 DEF rows, page

-----------------------------------------------------------------------------
(* Each step keeps the invariant *)

LEMMA ReaderInitially == ReaderInit => ReaderInv
<1> SUFFICES ASSUME ReaderInit PROVE ReaderInv
  OBVIOUS
<1>1. DbInit /\ messages = {} /\ highWater = 0
  BY DEF ReaderInit, DbInit
<1>2. IInv
  BY <1>1, IInvInit
<1>3. TableInv
  BY <1>1, <1>2, FS_EmptySet DEF TableInv, NoneToOneself
<1>4. CursorsInRange /\ NothingSkipped
  BY <1>1 DEF ReaderInit, CursorsInRange, NothingSkipped, NoCursor
<1> QED
  BY <1>3, <1>4 DEF ReaderInv

LEMMA ServerStepsOfTheDatabase ==
    ASSUME TableInv, ServerStep
    PROVE  [DbNext]_dbVars
<1>1. ASSUME NEW a \in Addresses, NEW b \in Addresses,
             NEW ids \in SUBSET {r.id : r \in Available(a, b, Ids)}, Open(a, b, ids)
      PROVE  [DbNext]_dbVars
  <2>1. ids \in SUBSET Ids
    BY DEF Available, TableInv, IInv, TypeOK, Rows
  <2>2. CASE a = b
    BY <1>1, <2>2, OpenOwnIsIdle DEF TableInv
  <2>3. CASE a # b
    BY <1>1, <2>1, <2>3 DEF DbNext
  <2> QED
    BY <2>2, <2>3
<1>2. CASE \/ Tick \/ Sweep
           \/ \E e \in Envelopes : Create(e)
           \/ \E a, b \in Addresses : a # b /\ Clear(a, b)
           \/ \E a \in Addresses : DeleteRegistration(a)
  BY <1>2 DEF DbNext
<1> QED
  BY <1>1, <1>2 DEF ServerStep

\* A live row numbered up to the old high-water mark was live under that
\* number before: rows do not come back and do not change conversation.
LEMMA LiveBefore ==
    ASSUME TableInv, [DbNext]_dbVars, NEW q \in Conversation', q.seq <= highWater
    PROVE  \E r \in Conversation : r.seq = q.seq
BY LiveRowsWere DEF Conversation

\* Whatever the server does, nothing behind the cursors becomes missing.
LEMMA ServerKeeps ==
    ASSUME ReaderInv, [DbNext]_dbVars, UNCHANGED readerVars
    PROVE  ReaderInv'
<1>1. TableInv' /\ highWater' >= highWater
  BY TableStep DEF ReaderInv
<1>2. highWater \in Nat /\ highWater' \in Nat
  BY <1>1 DEF ReaderInv, TableInv, IInv, TypeOK
<1>3. CursorsInRange'
  BY <1>1, <1>2 DEF ReaderInv, CursorsInRange, readerVars
<1>4. ASSUME phase' # "new", NEW q \in Conversation', InReach(q)' PROVE q.seq \in got'
  <2>1. UNCHANGED readerVars /\ InReach(q) /\ phase # "new"
    BY <1>4 DEF InReach, readerVars
  <2>2. q.seq \in Nat
    BY <1>1 DEF Conversation, LiveBetween, TableInv, IInv, TypeOK, Rows
  <2>3. q.seq <= highWater
    BY <1>2, <2>1, <2>2 DEF InReach, ReaderInv, CursorsInRange
  <2>4. PICK r \in Conversation : r.seq = q.seq
    BY <2>3, LiveBefore DEF ReaderInv
  <2> QED
    BY <2>1, <2>4 DEF ReaderInv, NothingSkipped, Conversation, InReach, readerVars
<1> QED
  BY <1>1, <1>3, <1>4 DEF ReaderInv, NothingSkipped, Conversation

\* The table stays as it is while a page is read.
LEMMA ReadingTable ==
    ASSUME TableInv, UNCHANGED dbVars
    PROVE  TableInv' /\ Conversation' = Conversation /\ highWater' = highWater /\ highWater \in Nat
<1>1. TableInv'
  BY TableStep
<1> QED
  BY <1>1 DEF dbVars, registry, activity, Conversation, TableInv, IInv, TypeOK

LEMMA ConversationNumbers ==
    ASSUME TableInv
    PROVE  \A r \in Conversation : r.seq \in Nat /\ r.seq <= highWater
BY DEF Conversation, LiveBetween, TableInv, IInv, TypeOK, Rows, RowsAreSound, KeysAreUnique

\* What a history page adds: all between its oldest row and `before`.
LEMMA LoadPageAdds ==
    ASSUME TableInv, NEW before \in Nat, LoadPage(before)
    PROVE  /\ olderCursor' \in Nat /\ got \subseteq got'
           /\ \A r \in Conversation :
                r.seq < before /\ (~hasMore' \/ r.seq >= olderCursor') => r.seq \in got'
<1> DEFINE rows == HistoryRows(messages, me, partner, before, PageSize, clock)
<1>1. /\ got' = got \cup Seqs(rows)
      /\ olderCursor' = IF rows = {} THEN NoCursor ELSE MinSeqOf(rows)
      /\ hasMore' = (Cardinality(rows) = PageSize)
  BY DEF LoadPage
<1>2. /\ rows # {} => MinSeqOf(rows) \in Nat
      /\ \A r \in Conversation :
            /\ r.seq < before
            /\ Cardinality(rows) # PageSize \/ (rows # {} /\ r.seq >= MinSeqOf(rows))
            => r \in rows
  BY HistoryPage
<1>3. rows = {} => Cardinality(rows) # PageSize
  BY FS_EmptySet, ReaderAssumption
<1> HIDE DEF rows
<1> QED
  BY <1>1, <1>2, <1>3 DEF Seqs, NoCursor

LEMMA HistoryKeeps ==
    ASSUME ReaderInv, LoadNewest \/ LoadOlder
    PROVE  ReaderInv'
<1> USE DEF ReaderInv
<1>0. /\ TableInv' /\ Conversation' = Conversation /\ highWater' = highWater /\ highWater \in Nat
      /\ \A r \in Conversation : r.seq \in Nat /\ r.seq <= highWater
  BY ReadingTable, ConversationNumbers DEF LoadNewest, LoadOlder
<1>1. CASE LoadNewest
  <2>1. LoadPage(highWater + 1) /\ phase' = "idle" /\ checkpoint' = highWater
        /\ lower' = lower /\ upper' = upper
    BY <1>1 DEF LoadNewest, InitialCheckpoint
  <2>2. highWater + 1 \in Nat /\ \A r \in Conversation : r.seq < highWater + 1
    BY <1>0
  <2>3. CursorsInRange'
    BY <1>0, <2>1, <2>2, LoadPageAdds DEF CursorsInRange
  <2>4. NothingSkipped'
    <3>1. ASSUME NEW r \in Conversation', InReach(r)' PROVE r.seq \in got'
      BY <1>0, <2>1, <2>2, <3>1, LoadPageAdds DEF InReach
    <3> QED
      BY <3>1 DEF NothingSkipped, Conversation
  <2> QED
    BY <1>0, <2>3, <2>4
<1>2. CASE LoadOlder
  <2>1. /\ LoadPage(olderCursor) /\ hasMore /\ phase = "idle" /\ phase' = phase
        /\ checkpoint' = checkpoint /\ lower' = lower /\ upper' = upper
    BY <1>2 DEF LoadOlder
  <2>2. olderCursor \in Nat
    BY DEF CursorsInRange
  <2>3. CursorsInRange'
    BY <1>0, <2>1, <2>2, LoadPageAdds DEF CursorsInRange
  <2>4. ASSUME NEW r \in Conversation', InReach(r)' PROVE r.seq \in got'
    <3>1. r \in Conversation /\ r.seq \in Nat
      BY <1>0
    <3>2. r.seq <= checkpoint
      BY <2>1, <2>4 DEF InReach
    <3>3. CASE r.seq < olderCursor
      BY <2>1, <2>2, <2>4, <3>1, <3>3, LoadPageAdds DEF InReach
    <3>4. CASE ~(r.seq < olderCursor)
      <4>1. InReach(r)
        BY <2>2, <3>1, <3>2, <3>4 DEF InReach
      <4> QED
        BY <2>1, <2>2, <3>1, <4>1, LoadPageAdds DEF NothingSkipped, Conversation
    <3> QED
      BY <3>3, <3>4
  <2>5. NothingSkipped'
    BY <2>4 DEF NothingSkipped, Conversation
  <2> QED
    BY <1>0, <2>3, <2>5
<1> QED
  BY <1>1, <1>2

\* A recovery page, from where the last one ended.
LEMMA RecoveryKeeps ==
    ASSUME ReaderInv, phase # "new", NEW from \in 0..highWater, NEW bound \in 0..highWater,
           ReadPage(from, bound),
           from = checkpoint \/ (phase = "recovering" /\ from = lower)
    PROVE  ReaderInv'
<1> USE DEF ReaderInv
<1>0. /\ TableInv' /\ Conversation' = Conversation /\ highWater' = highWater /\ highWater \in Nat
      /\ \A r \in Conversation : r.seq \in Nat /\ r.seq <= highWater
  BY ReadingTable, ConversationNumbers DEF ReadPage
<1>1. from \in Nat /\ bound \in Nat /\ bound <= highWater
  BY <1>0
<1> DEFINE rows == RecoveryFetch(messages, me, partner, from, bound, RecoveryLimit, clock)
           page == FirstRows(rows, RecoveryLimit)
<1>2. /\ got' = got \cup Seqs(page) /\ olderCursor' = olderCursor /\ hasMore' = hasMore
      /\ Exhausted(rows) => phase' = "idle" /\ checkpoint' = bound /\ lower' = lower /\ upper' = upper
      /\ ~Exhausted(rows) => /\ phase' = "recovering" /\ lower' = ContinueAfter(rows)
                             /\ upper' = bound /\ checkpoint' = checkpoint
  BY DEF ReadPage
<1>3. /\ Exhausted(rows) => \A r \in Conversation : from < r.seq /\ r.seq <= bound => r \in page
      /\ ~Exhausted(rows) =>
            /\ ContinueAfter(rows) \in Nat
            /\ from < ContinueAfter(rows) /\ ContinueAfter(rows) < bound
            /\ \A r \in Conversation : from < r.seq /\ r.seq <= ContinueAfter(rows) => r \in page
  BY <1>1, RecoveryPage
<1> HIDE DEF rows, page
<1>4. CursorsInRange'
  BY <1>0, <1>1, <1>2, <1>3 DEF CursorsInRange
<1>5. ASSUME NEW r \in Conversation, ~hasMore \/ r.seq >= olderCursor,
             r.seq <= from \/ r.seq <= checkpoint
      PROVE  r.seq \in got'
  <2>1. InReach(r)
    BY <1>5 DEF InReach
  <2> QED
    BY <1>2, <2>1 DEF NothingSkipped, Conversation
<1>6. ASSUME NEW r \in Conversation', InReach(r)' PROVE r.seq \in got'
  <2>1. r \in Conversation /\ r.seq \in Nat /\ (~hasMore \/ r.seq >= olderCursor)
    BY <1>0, <1>2, <1>6 DEF InReach
  <2>2. r \in page => r.seq \in got'
    BY <1>2 DEF Seqs
  <2> QED
    BY <1>1, <1>2, <1>3, <1>5, <1>6, <2>1, <2>2 DEF InReach
<1> QED
  BY <1>0, <1>4, <1>6 DEF NothingSkipped, Conversation

LEMMA ReaderInvStep == ReaderInv /\ [ReaderNext]_recoveryVars => ReaderInv'
<1> SUFFICES ASSUME ReaderInv, [ReaderNext]_recoveryVars PROVE ReaderInv'
  OBVIOUS
<1>0. highWater \in Nat /\ highWater \in 0..highWater /\ CursorsInRange
  BY DEF ReaderInv, TableInv, IInv, TypeOK
<1>1. CASE ServerStep
  BY <1>1, ServerStepsOfTheDatabase, ServerKeeps DEF ServerStep, ReaderInv
<1>2. CASE LoadNewest \/ LoadOlder
  BY <1>2, HistoryKeeps
<1>3. CASE BeginRecovery
  <2>1. phase = "idle" /\ ReadPage(checkpoint, highWater) /\ checkpoint \in 0..highWater
    BY <1>0, <1>3 DEF BeginRecovery, CursorsInRange
  <2> QED
    BY <1>0, <2>1, RecoveryKeeps
<1>4. CASE ContinueRecovery
  <2>1. phase = "recovering" /\ ReadPage(lower, upper) /\ lower \in 0..highWater /\ upper \in 0..highWater
    BY <1>0, <1>4 DEF ContinueRecovery, CursorsInRange
  <2> QED
    BY <2>1, RecoveryKeeps
<1>5. CASE AbandonRecovery
  <2>1. /\ TableInv' /\ Conversation' = Conversation /\ highWater' = highWater
        /\ UNCHANGED <<got, olderCursor, hasMore, checkpoint, lower, upper>>
        /\ phase = "recovering" /\ phase' = "idle"
    BY <1>5, ReadingTable DEF AbandonRecovery, ReaderInv
  <2>2. CursorsInRange'
    BY <1>0, <2>1 DEF CursorsInRange
  <2>3. \A r : InReach(r)' => InReach(r)
    BY <2>1 DEF InReach
  <2> QED
    BY <2>1, <2>2, <2>3 DEF ReaderInv, NothingSkipped, Conversation
<1>6. CASE UNCHANGED recoveryVars
  BY <1>6, ServerKeeps DEF recoveryVars, ReaderInv
<1> QED
  BY <1>1, <1>2, <1>3, <1>4, <1>5, <1>6 DEF ReaderNext, ReaderStep

-----------------------------------------------------------------------------

\* No order of sends, openings, clears, sweeps and pages leaves a live row
\* behind the cursors unread (readConversationMessages, recoverMessages).
THEOREM NothingIsSkipped == ReaderSpec => []NothingSkipped
<1>1. ReaderInv => NothingSkipped
  BY DEF ReaderInv
<1> QED
  BY <1>1, ReaderInitially, ReaderInvStep, PTL DEF ReaderSpec

\* Every continuation of a recovery starts further on and below the bound
\* fixed at its start, for every page size (recoverMessages, recover).
THEOREM RecoveriesAdvance == ReaderSpec => []RecoveryAdvances
<1>1. ReaderInv => RecoveryAdvances
  <2> SUFFICES ASSUME ReaderInv PROVE RecoveryAdvances
    OBVIOUS
  <2>1. lower \in Nat /\ upper \in Nat /\ TableInv
    BY DEF ReaderInv, CursorsInRange
  <2> QED
    BY <2>1, RecoveryPage DEF RecoveryAdvances
<1> QED
  BY <1>1, ReaderInitially, ReaderInvStep, PTL DEF ReaderSpec
=============================================================================
