------------------------ MODULE TerminalClientProofs ------------------------
(* The terminal client ends up with what the server has and exposes no     *)
(* incoming message before its opening, for every conversation, page size, *)
(* number of connections and table.                                        *)
EXTENDS TerminalClient, ChatDatabaseProofs
LOCAL INSTANCE SequencesExt

-----------------------------------------------------------------------------
(* The inductive invariant: types, and what is under way.                  *)

Entries == [row : Rows, until : Int]
Told    == [type : {"message", "expiry-update"}, row : Rows]
Cuts    == [type : {"conversation-cleared"}, at : Nat]

InHistory == task.at \in {"page", "states", "opens"}

Tasks ==
    {Waiting, Reading} \cup [at : {"page"}, before : Nat, read : SUBSET Entries]
    \cup [at : {"states", "opens"}, rows : SUBSET Rows, since : Nat, read : SUBSET Entries]
    \cup [at : {"confirm"}, row : Rows, since : Nat]

Variables ==
    /\ posted \subseteq Ids /\ conn \in BOOLEAN
    /\ stream \in Seq(Told \cup Cuts)
    /\ task \in Tasks
    /\ known \in [DOMAIN known -> Entries] /\ \A id \in DOMAIN known : known[id].row.id = id
    /\ own \in [DOMAIN own -> Entries]
    /\ sending = NotSending \/ sending \in [at : {"accepted"}, row : Rows]

Control ==
    /\ conn => task # Waiting
    /\ task.at \in {"states", "opens", "confirm"} => task.since <= clock
    /\ task.at \in {"states", "opens"} => MinSeqOf(task.rows) \in Nat

-----------------------------------------------------------------------------
(* Every copy of a message is a version of the one acceptance of its id,   *)
(* and none is ahead of the table.                                         *)

Read  == IF InHistory THEN task.read ELSE {}
Known == {known[id] : id \in DOMAIN known}
Shown == Known \cup Read

RowsIn(s) == {s[i].row : i \in {j \in DOMAIN s : s[j].type \in {"message", "expiry-update"}}}

InTask == CASE task.at \in {"states", "opens"} -> task.rows
            [] task.at = "confirm"             -> {task.row}
            [] OTHER                           -> {}

Copies == {m.row : m \in Shown} \cup RowsIn(stream) \cup InTask

CopiesSound ==
    /\ \A r \in messages : r.id \in posted /\ Between(r, me, partner)
    /\ \A p \in Copies : /\ p.id \in posted /\ Between(p, me, partner)
                         /\ ValidLifecycle(p) /\ p.created <= clock
    /\ \A p \in Copies, r \in messages :
          p.id = r.id => SameEnvelope(p, r) /\ (IsFinal(p) => p = r)
    /\ \A p, q \in Copies : p.id = q.id => SameEnvelope(p, q)

\* What an entry promises while it is shown, and whose copies chat made.
EntriesSound ==
    /\ \A m \in Shown : m.until <= m.row.expires /\ (m.row.recipient = me => IsFinal(m.row))
    /\ \A id \in DOMAIN own : own[id].row.recipient # me
    /\ sending # NotSending => sending.row.recipient # me

-----------------------------------------------------------------------------
(* While the stream is open, every difference from the table is on its way. *)

\* A clear from frame i of s on takes a message accepted at t.
ErasedFrom(s, i, t) == \E j \in i..Len(s) : s[j].type = "conversation-cleared" /\ t <= s[j].at

\* An opening of the message is still to be read; a delivery that no later
\* clear takes back is.
Updating(s, id) == \E i \in DOMAIN s : s[i].type = "expiry-update" /\ s[i].row.id = id
Arriving(s, id, t) ==
    \E i \in DOMAIN s : s[i].type = "message" /\ s[i].row.id = id /\ ~ErasedFrom(s, i, t)

Held == IF InHistory THEN task.read ELSE Known

\* The history has still to come to it, or to confirm it.
Unread(r) ==
    \/ task.at = "page" /\ r.seq < task.before
    \/ /\ task.at \in {"states", "opens"}
       /\ \/ r.seq < MinSeqOf(task.rows)
          \/ \E q \in task.rows : q.id = r.id /\ (task.at = "states" \/ q.recipient = me)

\* The terminal has it, or has still to ask for it.
Sought(r) ==
    \/ task.at = "confirm" /\ task.row.id = r.id
    \/ \E m \in Held : m.row.id = r.id
    \/ Unread(r)

Expected(r) ==
    \/ r.id \in missed
    \/ Arriving(stream, r.id, r.created)
    \/ ~ErasedFrom(stream, 1, r.created) /\ Sought(r)

FinalUpdates(s) == \A i \in DOMAIN s : s[i].type = "expiry-update" => IsFinal(s[i].row)

HeldAgree ==
    \A m \in Held :
        /\ (\E r \in messages : r.id = m.row.id) \/ ErasedFrom(stream, 1, m.row.created)
        /\ \A r \in messages : r.id = m.row.id => m.row = r \/ Updating(stream, r.id)
        /\ m.row.id \in missed \/ m.until = m.row.expires

Follows ==
    /\ FinalUpdates(stream)
    /\ HeldAgree
    /\ \A r \in messages : Live(r, clock) => Expected(r)

FollowsInv == conn => Follows

\* Inductive by itself; with it, FollowsInv is.
ClientCore == TableInv /\ Variables /\ Control /\ CopiesSound /\ EntriesSound

-----------------------------------------------------------------------------
(* The stream as a sequence                                                *)

Frames == Told \cup Cuts

LEMMA Joined ==
    ASSUME NEW s \in Seq(Frames), NEW more \in Seq(Frames)
    PROVE  /\ s \o more \in Seq(Frames)
           /\ \A i \in DOMAIN s : i \in DOMAIN (s \o more) /\ (s \o more)[i] = s[i]
           /\ \A i \in DOMAIN more :
                /\ Len(s) + i \in DOMAIN (s \o more) /\ (s \o more)[Len(s) + i] = more[i]
                /\ Len(s) + i \notin DOMAIN s
           /\ \A i \in DOMAIN (s \o more) :
                i \in DOMAIN s \/ \E j \in DOMAIN more : i = Len(s) + j /\ (s \o more)[i] = more[j]
<1>1. /\ s \o more \in Seq(Frames) /\ Len(s) \in Nat /\ Len(more) \in Nat
      /\ DOMAIN (s \o more) = 1..(Len(s) + Len(more))
      /\ \A i \in 1..(Len(s) + Len(more)) : (s \o more)[i] = IF i <= Len(s) THEN s[i] ELSE more[i - Len(s)]
      /\ DOMAIN s = 1..Len(s) /\ DOMAIN more = 1..Len(more)
  OBVIOUS
<1>2. ASSUME NEW i \in DOMAIN (s \o more), i \notin DOMAIN s
      PROVE  \E j \in DOMAIN more : i = Len(s) + j /\ (s \o more)[i] = more[j]
  <2>1. i - Len(s) \in DOMAIN more /\ i = Len(s) + (i - Len(s)) /\ (s \o more)[i] = more[i - Len(s)]
    BY <1>1, <1>2
  <2> QED BY <2>1
<1>3. ASSUME NEW i \in DOMAIN more
      PROVE  /\ Len(s) + i \in DOMAIN (s \o more) /\ (s \o more)[Len(s) + i] = more[i]
             /\ Len(s) + i \notin DOMAIN s
  <2>1. Len(s) + i \in 1..(Len(s) + Len(more)) /\ ~(Len(s) + i <= Len(s)) /\ (Len(s) + i) - Len(s) = i
    BY <1>1, <1>3
  <2> QED BY <1>1, <2>1
<1> QED BY <1>1, <1>2, <1>3

\* What is told comes after what is on its way.
LEMMA TellKeeps ==
    ASSUME NEW s \in Seq(Frames), NEW more \in Seq(Frames)
    PROVE  /\ s \o more \in Seq(Frames)
           /\ RowsIn(s \o more) \subseteq RowsIn(s) \cup RowsIn(more)
           /\ \A id : Updating(s, id) \/ Updating(more, id) => Updating(s \o more, id)
           /\ \A t : ErasedFrom(s, 1, t) \/ ErasedFrom(more, 1, t) => ErasedFrom(s \o more, 1, t)
           /\ FinalUpdates(s) /\ FinalUpdates(more) => FinalUpdates(s \o more)
<1> DEFINE all == s \o more
<1>1. /\ all \in Seq(Frames)
      /\ \A i \in DOMAIN s : i \in DOMAIN all /\ all[i] = s[i]
      /\ \A i \in DOMAIN more : Len(s) + i \in DOMAIN all /\ all[Len(s) + i] = more[i]
      /\ \A i \in DOMAIN all : i \in DOMAIN s \/ \E j \in DOMAIN more : i = Len(s) + j /\ all[i] = more[j]
  BY Joined
<1> HIDE DEF all
<1>2. \A i : \A t \in Seq(Frames) : i \in DOMAIN t <=> i \in 1..Len(t)
  OBVIOUS
<1>3. RowsIn(all) \subseteq RowsIn(s) \cup RowsIn(more)
  BY <1>1 DEF RowsIn
<1>4. ASSUME NEW id, Updating(s, id) \/ Updating(more, id) PROVE Updating(all, id)
  BY <1>1, <1>4 DEF Updating
<1>5. ASSUME NEW t, ErasedFrom(s, 1, t) \/ ErasedFrom(more, 1, t) PROVE ErasedFrom(all, 1, t)
  BY <1>1, <1>2, <1>5 DEF ErasedFrom
<1>6. ASSUME FinalUpdates(s), FinalUpdates(more) PROVE FinalUpdates(all)
  BY <1>1, <1>6 DEF FinalUpdates
<1> QED BY <1>1, <1>3, <1>4, <1>5, <1>6 DEF all

\* Deliveries and openings take nothing back.
LEMMA TellErasesNone ==
    ASSUME NEW s \in Seq(Frames), NEW more \in Seq(Told)
    PROVE  /\ \A t : ErasedFrom(s \o more, 1, t) => ErasedFrom(s, 1, t)
           /\ \A id, t : Arriving(s, id, t) \/ Arriving(more, id, t) => Arriving(s \o more, id, t)
<1> DEFINE all == s \o more
<1>0. more \in Seq(Frames) /\ \A i \in DOMAIN more : more[i].type # "conversation-cleared"
  <2>1. \A i \in DOMAIN more : more[i] \in Told
    OBVIOUS
  <2>2. more \in Seq(Frames)
    BY <2>1 DEF Frames
  <2> QED BY <2>1, <2>2 DEF Told
<1>1. /\ all \in Seq(Frames)
      /\ \A i \in DOMAIN s : i \in DOMAIN all /\ all[i] = s[i]
      /\ \A i \in DOMAIN more : Len(s) + i \in DOMAIN all /\ all[Len(s) + i] = more[i]
      /\ \A i \in DOMAIN all : i \in DOMAIN s \/ \E j \in DOMAIN more : i = Len(s) + j /\ all[i] = more[j]
  BY <1>0, Joined
<1> HIDE DEF all
<1>2. \A i : \A t \in Seq(Frames) : i \in DOMAIN t <=> i \in 1..Len(t)
  OBVIOUS
<1>3. ASSUME NEW i \in Nat, i >= 1, NEW t, ErasedFrom(all, i, t) PROVE ErasedFrom(s, i, t)
  <2>1. PICK j \in i..Len(all) : all[j].type = "conversation-cleared" /\ t <= all[j].at
    BY <1>3 DEF ErasedFrom
  <2>2. j \in DOMAIN all /\ j >= i
    BY <1>1, <1>2, <1>3, <2>1
  <2>3. j \in DOMAIN s
    BY <1>0, <1>1, <2>1, <2>2
  <2>4. j \in i..Len(s)
    BY <1>2, <2>2, <2>3
  <2> QED BY <1>1, <2>1, <2>3, <2>4 DEF ErasedFrom
<1>4. ASSUME NEW id, NEW t, Arriving(s, id, t) PROVE Arriving(all, id, t)
  <2>1. PICK i \in DOMAIN s : s[i].type = "message" /\ s[i].row.id = id /\ ~ErasedFrom(s, i, t)
    BY <1>4 DEF Arriving
  <2>2. i \in Nat /\ i >= 1
    BY <1>2
  <2> QED BY <1>1, <1>3, <2>1, <2>2 DEF Arriving
<1>5. ASSUME NEW id, NEW t, Arriving(more, id, t) PROVE Arriving(all, id, t)
  <2>1. PICK i \in DOMAIN more : more[i].type = "message" /\ more[i].row.id = id
    BY <1>5 DEF Arriving
  <2> DEFINE k == Len(s) + i
  <2>2. k \in DOMAIN all /\ all[k] = more[i] /\ k \notin DOMAIN s
    BY <1>0, <1>1, Joined DEF all
  <2>3. k \in Nat /\ k >= 1 /\ k > Len(s) /\ Len(s) \in Nat
    BY <1>0, <1>2
  <2> HIDE DEF k
  <2>4. ~ErasedFrom(s, k, t)
    BY <2>3 DEF ErasedFrom
  <2> QED BY <1>3, <2>1, <2>2, <2>3, <2>4 DEF Arriving
<1> QED BY <1>3, <1>4, <1>5 DEF all

\* What is left once the next frame is read.
LEMMA ReadingKeeps ==
    ASSUME NEW s \in Seq(Frames), s # <<>>
    PROVE  /\ Tail(s) \in Seq(Frames) /\ Head(s) \in Frames
           /\ RowsIn(Tail(s)) \subseteq RowsIn(s)
           /\ FinalUpdates(s) => FinalUpdates(Tail(s)) /\ (Head(s).type = "expiry-update" => IsFinal(Head(s).row))
           /\ \A t : ErasedFrom(s, 1, t) <=>
                \/ Head(s).type = "conversation-cleared" /\ t <= Head(s).at
                \/ ErasedFrom(Tail(s), 1, t)
           /\ \A id : Updating(s, id) =>
                \/ Head(s).type = "expiry-update" /\ Head(s).row.id = id
                \/ Updating(Tail(s), id)
           /\ \A id, t : Arriving(s, id, t) =>
                \/ Head(s).type = "message" /\ Head(s).row.id = id /\ ~ErasedFrom(s, 1, t)
                \/ Arriving(Tail(s), id, t)
<1> DEFINE rest == Tail(s)
<1>1. /\ rest \in Seq(Frames) /\ Len(s) \in Nat /\ Len(s) >= 1 /\ Len(rest) = Len(s) - 1
      /\ DOMAIN s = 1..Len(s) /\ DOMAIN rest = 1..Len(rest)
      /\ Head(s) = s[1] /\ 1 \in DOMAIN s /\ s[1] \in Frames
      /\ \A i \in 1..Len(rest) : rest[i] = s[i + 1]
  OBVIOUS
<1> HIDE DEF rest
<1>2. /\ \A i \in DOMAIN rest : i \in Nat /\ i >= 1 /\ i + 1 \in DOMAIN s /\ rest[i] = s[i + 1]
      /\ \A i \in DOMAIN s : i # 1 => i - 1 \in DOMAIN rest /\ s[i] = rest[i - 1]
  <2>1. ASSUME NEW i \in DOMAIN s, i # 1 PROVE i - 1 \in DOMAIN rest /\ s[i] = rest[i - 1]
    <3>1. i - 1 \in 1..Len(rest) /\ (i - 1) + 1 = i
      BY <1>1, <2>1
    <3> QED BY <1>1, <3>1
  <2> QED BY <1>1, <2>1
<1>3. RowsIn(rest) \subseteq RowsIn(s)
  BY <1>2 DEF RowsIn
<1>4. ASSUME NEW i \in Nat, i >= 1, NEW t, ErasedFrom(rest, i, t) PROVE ErasedFrom(s, i + 1, t) /\ ErasedFrom(s, 1, t)
  <2>1. PICK j \in i..Len(rest) : rest[j].type = "conversation-cleared" /\ t <= rest[j].at
    BY <1>4 DEF ErasedFrom
  <2>2. j \in 1..Len(rest) /\ j + 1 \in (i + 1)..Len(s) /\ j + 1 \in 1..Len(s)
    BY <1>1, <1>4, <2>1
  <2> QED BY <1>1, <2>1, <2>2 DEF ErasedFrom
<1>5. ASSUME NEW t PROVE ErasedFrom(s, 1, t) <=> \/ Head(s).type = "conversation-cleared" /\ t <= Head(s).at
                                                 \/ ErasedFrom(rest, 1, t)
  <2>1. ASSUME ErasedFrom(s, 1, t), ~(Head(s).type = "conversation-cleared" /\ t <= Head(s).at)
        PROVE  ErasedFrom(rest, 1, t)
    <3>1. PICK j \in 1..Len(s) : s[j].type = "conversation-cleared" /\ t <= s[j].at
      BY <2>1 DEF ErasedFrom
    <3>2. j # 1
      BY <1>1, <2>1, <3>1
    <3>3. j - 1 \in 1..Len(rest) /\ rest[j - 1] = s[j]
      BY <1>1, <1>2, <3>2
    <3> QED BY <3>1, <3>3 DEF ErasedFrom
  <2>2. ASSUME Head(s).type = "conversation-cleared", t <= Head(s).at PROVE ErasedFrom(s, 1, t)
    <3>1. 1 \in 1..Len(s)
      BY <1>1
    <3> QED BY <1>1, <2>2, <3>1 DEF ErasedFrom
  <2> QED BY <1>4, <2>1, <2>2
<1>6. ASSUME NEW id, Updating(s, id) PROVE \/ Head(s).type = "expiry-update" /\ Head(s).row.id = id
                                           \/ Updating(rest, id)
  BY <1>1, <1>2, <1>6 DEF Updating
<1>7. ASSUME NEW id, NEW t, Arriving(s, id, t)
      PROVE  \/ Head(s).type = "message" /\ Head(s).row.id = id /\ ~ErasedFrom(s, 1, t)
             \/ Arriving(rest, id, t)
  <2>1. PICK i \in DOMAIN s : s[i].type = "message" /\ s[i].row.id = id /\ ~ErasedFrom(s, i, t)
    BY <1>7 DEF Arriving
  <2>2. CASE i = 1
    BY <1>1, <2>1, <2>2
  <2>3. ASSUME i # 1 PROVE Arriving(rest, id, t)
    <3>1. i - 1 \in DOMAIN rest /\ s[i] = rest[i - 1] /\ i - 1 \in Nat /\ i - 1 >= 1 /\ (i - 1) + 1 = i
      BY <1>1, <1>2, <2>3
    <3>2. ~ErasedFrom(rest, i - 1, t)
      BY <1>4, <2>1, <3>1
    <3> QED BY <2>1, <3>1, <3>2 DEF Arriving
  <2> QED BY <2>2, <2>3
<1>8. FinalUpdates(s) => FinalUpdates(rest) /\ (Head(s).type = "expiry-update" => IsFinal(Head(s).row))
  BY <1>1, <1>2 DEF FinalUpdates
<1> QED BY <1>1, <1>3, <1>5, <1>6, <1>7, <1>8 DEF rest

\* A stream just opened carries nothing yet.
LEMMA NothingTold ==
    RowsIn(<<>>) = {} /\ <<>> \in Seq(Frames) /\ FinalUpdates(<<>>)
    /\ (\A t : ~ErasedFrom(<<>>, 1, t)) /\ (\A id : ~Updating(<<>>, id)) /\ (\A id, t : ~Arriving(<<>>, id, t))
BY DEF RowsIn, ErasedFrom, Updating, Arriving, FinalUpdates

-----------------------------------------------------------------------------
(* The maps                                                                *)

IsMap(map) == map \in [DOMAIN map -> Entries] /\ \A id \in DOMAIN map : map[id].row.id = id

Within(part, map) == DOMAIN part \subseteq DOMAIN map /\ \A id \in DOMAIN part : part[id] = map[id]

LEMMA LessOf ==
    ASSUME NEW map, NEW ids, map \in [DOMAIN map -> Entries]
    PROVE  /\ Without(map, ids) \in [DOMAIN Without(map, ids) -> Entries]
           /\ Within(Without(map, ids), map) /\ DOMAIN Without(map, ids) = DOMAIN map \ ids
           /\ Retained(map) \in [DOMAIN Retained(map) -> Entries]
           /\ Within(Retained(map), map)
           /\ \A id \in DOMAIN map : IsRetained(map[id]) => id \in DOMAIN Retained(map)
BY DEF Without, Retained, Restrict, Within

LEMMA LessIsMap ==
    ASSUME NEW map, NEW ids, IsMap(map)
    PROVE  IsMap(Without(map, ids)) /\ IsMap(Retained(map))
<1>1. /\ Without(map, ids) \in [DOMAIN Without(map, ids) -> Entries] /\ Within(Without(map, ids), map)
      /\ Retained(map) \in [DOMAIN Retained(map) -> Entries] /\ Within(Retained(map), map)
  BY LessOf DEF IsMap
<1> QED BY <1>1 DEF IsMap, Within

\* deliver() adds available messages and forgets none.
LEMMA DeliverAdds ==
    ASSUME NEW entries \in SUBSET Entries, NEW before, IsMap(before),
           own \in [DOMAIN own -> Entries], Deliver(entries, before)
    PROVE  /\ IsMap(known')
           /\ DOMAIN before \subseteq DOMAIN known'
           /\ \A m \in entries : IsAvailable(m) => m.row.id \in DOMAIN known'
           /\ \A id \in DOMAIN known' :
                \/ known'[id] \in entries /\ IsAvailable(known'[id])
                \/ /\ id \in DOMAIN before /\ known'[id] = before[id]
                   /\ \A m \in entries : IsAvailable(m) => m.row.id # id
           /\ own' \in [DOMAIN own' -> Entries] /\ Within(own', own)
<1> DEFINE shown == {m \in entries : IsAvailable(m)}
           news  == {m \in shown : m.row.id \notin DOMAIN before \/ before[m.row.id].row # m.row}
           gone  == {m.row.id : m \in news} \cup (DOMAIN known \ DOMAIN before)
           ids   == DOMAIN before \cup {m.row.id : m \in shown}
           One(id) == CHOOSE m \in shown : m.row.id = id
<1>1. /\ known' = [id \in ids |-> IF \E m \in shown : m.row.id = id THEN One(id) ELSE before[id]]
      /\ own' = Without(own, gone)
  BY DEF Deliver
<1>2. own' \in [DOMAIN own' -> Entries] /\ Within(own', own)
  <2> HIDE DEF gone
  <2> QED BY <1>1, LessOf
<1>3. \A id : (\E m \in shown : m.row.id = id) => One(id) \in shown /\ One(id).row.id = id
  OBVIOUS
<1>4. shown \subseteq entries /\ \A m \in entries : m \in shown <=> IsAvailable(m)
  OBVIOUS
<1>5. /\ \A m \in shown : m.row.id \in ids
      /\ DOMAIN before \subseteq ids
      /\ \A id \in ids : id \in DOMAIN before \/ \E m \in shown : m.row.id = id
  OBVIOUS
<1> HIDE DEF shown, news, gone, ids, One
<1>6. DOMAIN known' = ids
  BY <1>1
<1>7. ASSUME NEW id \in ids
      PROVE  /\ known'[id] \in Entries /\ known'[id].row.id = id
             /\ \/ known'[id] \in shown
                \/ id \in DOMAIN before /\ known'[id] = before[id] /\ \A m \in shown : m.row.id # id
  <2>1. CASE \E m \in shown : m.row.id = id
    BY <1>1, <1>3, <1>4, <1>7, <2>1
  <2>2. CASE ~\E m \in shown : m.row.id = id
    BY <1>1, <1>5, <1>7, <2>2 DEF IsMap
  <2> QED BY <2>1, <2>2
<1>8. known' \in [DOMAIN known' -> Entries]
  <2>1. known' = [id \in ids |-> known'[id]]
    BY <1>1, <1>6
  <2> QED BY <1>6, <1>7, <2>1
<1> QED BY <1>2, <1>4, <1>5, <1>6, <1>7, <1>8 DEF IsMap

-----------------------------------------------------------------------------
(* What the server writes and tells                                        *)

\* An enumeration of some rows is a sequence that has them all.
LEMMA ListedRows ==
    ASSUME NEW S, IsFiniteSet(S), NEW listed \in SetToSeqs(S)
    PROVE  /\ listed \in Seq(S)
           /\ \A r \in S : \E i \in DOMAIN listed : listed[i] = r
<1>1. Cardinality(S) \in Nat
  BY FS_CardinalityType
<1>2. /\ listed \in [1..Cardinality(S) -> S]
      /\ \A i, j \in 1..Cardinality(S) : i # j => listed[i] # listed[j]
  BY DEF SetToSeqs
<1>3. \A r \in S : \E i \in 1..Cardinality(S) : listed[i] = r
  BY <1>2, ListingsAreComplete
<1> QED BY <1>1, <1>2, <1>3

\* The stream grows by deliveries and openings of rows in the table.
Grows ==
    /\ stream' \in Seq(Frames) /\ RowsIn(stream') \subseteq RowsIn(stream) \cup messages'
    /\ FinalUpdates(stream) => FinalUpdates(stream')
    /\ \A t : ErasedFrom(stream', 1, t) <=> ErasedFrom(stream, 1, t)
    /\ \A id : Updating(stream, id) => Updating(stream', id)
    /\ \A id, t : Arriving(stream, id, t) => Arriving(stream', id, t)

LEMMA TellGrows ==
    ASSUME Variables, NEW more \in Seq(Told), Tell(more), RowsIn(more) \subseteq messages', FinalUpdates(more)
    PROVE  /\ Grows
           /\ conn => /\ \A id : Updating(more, id) => Updating(stream', id)
                      /\ \A id, t : Arriving(more, id, t) => Arriving(stream', id, t)
<1>1. stream \in Seq(Frames) /\ more \in Seq(Frames)
  <2>1. \A i \in DOMAIN more : more[i] \in Told
    OBVIOUS
  <2> QED BY <2>1 DEF Variables, Frames
<1>2. CASE conn
  BY <1>1, <1>2, TellKeeps, TellErasesNone DEF Tell, Grows
<1>3. CASE ~conn
  BY <1>1, <1>3 DEF Tell, Grows
<1> QED BY <1>2, <1>3

LEMMA TellOne ==
    ASSUME NEW f, f.type \in {"message", "expiry-update"}
    PROVE  /\ RowsIn(<<f>>) = {f.row}
           /\ f.type = "message" => FinalUpdates(<<f>>) /\ \A t : Arriving(<<f>>, f.row.id, t)
<1>1. \A t : ~ErasedFrom(<<f>>, 1, t)
  BY DEF ErasedFrom
<1> QED BY <1>1 DEF RowsIn, Arriving, FinalUpdates

LEMMA OpenedRowId ==
    ASSUME NEW r \in Rows, NEW now
    PROVE  OpenedRow(r, now).id = r.id
BY DEF OpenedRow, Rows

LEMMA OpeningTells ==
    ASSUME Variables, TableInv, NEW a \in Addresses, NEW b \in Addresses, NEW ids \in SUBSET Ids,
           OpenAndTell(a, b, ids)
    PROVE  /\ Open(a, b, ids) /\ Grows
           /\ conn => \A r \in NewlyOpened(Available(a, b, ids)) : Updating(stream', r.id)
<1> DEFINE fresh == NewlyOpened(Available(a, b, ids))
<1>1. PICK updates \in SetToSeqs(fresh) : Tell([i \in DOMAIN updates |-> ExpiryUpdate(OpenedRow(updates[i], clock))])
  BY DEF OpenAndTell
<1> DEFINE list == [i \in DOMAIN updates |-> ExpiryUpdate(OpenedRow(updates[i], clock))]
<1>2. /\ fresh \subseteq messages /\ fresh \subseteq Rows /\ IsFiniteSet(fresh) /\ clock \in Nat
      /\ messages' = (messages \ fresh) \cup {OpenedRow(r, clock) : r \in fresh} /\ Open(a, b, ids)
  <2>1. fresh \subseteq messages
    BY DEF NewlyOpened, Available
  <2>2. messages' = (messages \ fresh) \cup {OpenedRow(r, clock) : r \in fresh} /\ Open(a, b, ids)
    BY DEF OpenAndTell, Open
  <2> HIDE DEF fresh
  <2> QED BY <2>1, <2>2, FS_Subset DEF TableInv, IInv, TypeOK
<1>3. updates \in Seq(fresh) /\ \A r \in fresh : \E i \in DOMAIN updates : updates[i] = r
  <2> HIDE DEF fresh
  <2> QED BY <1>2, ListedRows
<1>4. \A r \in fresh : OpenedRow(r, clock) \in Rows /\ OpenedRow(r, clock).id = r.id /\ IsFinal(OpenedRow(r, clock))
  BY <1>2, OpenedRowType, OpenedRowId DEF IsFinal, Unopened
<1>5. DOMAIN updates = 1..Len(updates) /\ Len(updates) \in Nat /\ \A i \in DOMAIN updates : updates[i] \in fresh
  <2> HIDE DEF fresh
  <2> QED BY <1>3
<1>6. \A i \in DOMAIN updates : list[i] = [type |-> "expiry-update", row |-> OpenedRow(updates[i], clock)]
  BY DEF ExpiryUpdate
<1>7. list \in Seq(Told) /\ DOMAIN list = DOMAIN updates
  <2>1. \A i \in 1..Len(updates) : list[i] \in Told
    BY <1>4, <1>5, <1>6 DEF Told
  <2>2. list = [i \in 1..Len(updates) |-> list[i]]
    BY <1>5
  <2> HIDE DEF list
  <2> QED BY <1>5, <2>1, <2>2
<1> HIDE DEF fresh
<1>8. Tell(list)
  BY <1>1
<1> HIDE DEF list
<1>9. RowsIn(list) \subseteq messages'
  BY <1>2, <1>5, <1>6, <1>7 DEF RowsIn
<1>10. \A r \in fresh : Updating(list, r.id)
  BY <1>3, <1>4, <1>6, <1>7 DEF Updating
<1>11. FinalUpdates(list)
  BY <1>4, <1>5, <1>6, <1>7 DEF FinalUpdates
<1> QED BY <1>2, <1>7, <1>8, <1>9, <1>10, <1>11, TellGrows DEF fresh

\* Other identities and devices open some of what is there.
LEMMA SomeoneOpens ==
    ASSUME TableInv, NEW a, NEW b, OpenElsewhere(a, b)
    PROVE  \E ids \in SUBSET Ids : OpenAndTell(a, b, ids)
<1>1. Available(a, b, Ids) \subseteq Rows
  BY DEF Available, TableInv, IInv, TypeOK
<1>2. {r.id : r \in NewlyOpened(Available(a, b, Ids))} \subseteq Ids
  BY <1>1 DEF NewlyOpened, Rows
<1> QED BY <1>2 DEF OpenElsewhere

LEMMA CopyTypes == Variables => Copies \subseteq Rows /\ Shown \subseteq Entries /\ Held \subseteq Shown
<1> SUFFICES ASSUME Variables PROVE Copies \subseteq Rows /\ Shown \subseteq Entries /\ Held \subseteq Shown
  OBVIOUS
<1>1. Known \subseteq Entries
  BY DEF Variables, Known
<1>2. Read \subseteq Entries /\ InTask \subseteq Rows
  BY DEF Variables, Tasks, Read, InTask, InHistory, Waiting, Reading
<1>3. RowsIn(stream) \subseteq Rows
  BY DEF Variables, RowsIn, Told, Cuts
<1>4. Held \subseteq Shown
  BY DEF Held, Shown, Read
<1> QED BY <1>1, <1>2, <1>3, <1>4 DEF Copies, Shown, Entries

\* How the table moves: rows leave, one is accepted, or some are opened.
Leaves   == messages' \subseteq messages /\ posted' = posted
Accepts  == \E e \in Envelopes :
                /\ {e.sender, e.recipient} = {me, partner} /\ e.id \notin posted /\ posted' = posted \cup {e.id}
                /\ messages' = messages \cup {AcceptedRow(e, NextSeq, clock)} /\ clock' = clock
Opens    == \E a, b \in Addresses, ids \in SUBSET Ids : a # b /\ Open(a, b, ids) /\ posted' = posted

LEMMA CopiesStep ==
    ASSUME TableInv, TableInv', Variables, CopiesSound, Copies' \subseteq Copies \cup messages',
           clock' >= clock, Leaves \/ Accepts \/ Opens
    PROVE  CopiesSound'
<1>1. /\ clock \in Nat /\ clock' \in Nat /\ messages \subseteq Rows /\ messages' \subseteq Rows /\ posted \subseteq posted'
      /\ \A r \in messages' : ValidLifecycle(r) /\ r.created <= clock'
      /\ \A r, q \in messages' : r.id = q.id => r = q
  BY DEF TableInv, IInv, TypeOK, RowsAreSound, KeysAreUnique, LifecyclesAreValid, Leaves, Accepts, Opens
<1>2. /\ \A r \in messages' : r.id \in posted' /\ Between(r, me, partner)
      /\ \A p \in Copies, r \in messages' : p.id = r.id => SameEnvelope(p, r) /\ (IsFinal(p) => p = r)
  <2>1. CASE Leaves
    BY <1>1, <2>1 DEF CopiesSound, Leaves
  <2>2. CASE Accepts
    <3>1. PICK e \in Envelopes :
            /\ {e.sender, e.recipient} = {me, partner} /\ e.id \notin posted /\ posted' = posted \cup {e.id}
            /\ messages' = messages \cup {AcceptedRow(e, NextSeq, clock)}
      BY <2>2 DEF Accepts
    <3> DEFINE new == AcceptedRow(e, NextSeq, clock)
    <3>2. new.id = e.id /\ new.sender = e.sender /\ new.recipient = e.recipient
      BY DEF AcceptedRow
    <3> HIDE DEF new
    <3>3. Between(new, me, partner)
      BY <3>1, <3>2 DEF Between
    <3> QED BY <3>1, <3>2, <3>3 DEF CopiesSound, new
  <2>3. CASE Opens
    <3>1. PICK a \in Addresses, b \in Addresses, ids \in SUBSET Ids : Open(a, b, ids) /\ posted' = posted
      BY <2>3 DEF Opens
    <3>2. ASSUME NEW q \in messages'
          PROVE  /\ q.id \in posted' /\ Between(q, me, partner)
                 /\ \A p \in Copies : p.id = q.id => SameEnvelope(p, q) /\ (IsFinal(p) => p = q)
      <4>1. PICK r \in messages : SameEnvelope(q, r) /\ (q = r \/ ~IsFinal(r))
        BY <3>1, OpenOrigin DEF TableInv
      <4> QED BY <3>1, <4>1 DEF CopiesSound, SameEnvelope, Between
    <3> QED BY <3>2
  <2> QED BY <2>1, <2>2, <2>3
<1>3. ASSUME NEW p \in Copies' PROVE p.id \in posted' /\ Between(p, me, partner) /\ ValidLifecycle(p) /\ p.created <= clock'
  <2>1. CASE p \in messages'
    BY <1>1, <1>2, <2>1
  <2>2. CASE p \in Copies
    <3>1. p.id \in posted /\ Between(p, me, partner) /\ ValidLifecycle(p) /\ p.created <= clock
      BY <2>2 DEF CopiesSound
    <3>2. p.created <= clock'
      BY <1>1, <2>2, <3>1, CopyTypes DEF Rows
    <3> QED BY <1>1, <3>1, <3>2
  <2> QED BY <2>1, <2>2
<1>4. \A p \in Copies', r \in messages' : p.id = r.id => SameEnvelope(p, r) /\ (IsFinal(p) => p = r)
  BY <1>1, <1>2 DEF SameEnvelope
<1>5. \A p, q \in Copies' : p.id = q.id => SameEnvelope(p, q)
  BY <1>1, <1>2 DEF SameEnvelope, CopiesSound
<1> QED BY <1>2, <1>3, <1>4, <1>5 DEF CopiesSound

\* Every step of the program is a write of the database or leaves it alone.
Moves ==
    /\ [DbNext]_dbVars /\ clock' \in Nat /\ clock' >= clock
    /\ Leaves \/ Accepts \/ Opens

LEMMA QuietMoves ==
    ASSUME TableInv, UNCHANGED dbVars, posted' = posted
    PROVE  Moves
BY DEF dbVars, Moves, Leaves, TableInv, IInv, TypeOK

LEMMA OpenMoves ==
    ASSUME TableInv, NEW a \in Addresses, NEW b \in Addresses, a # b, NEW ids \in SUBSET Ids,
           Open(a, b, ids), posted' = posted
    PROVE  Moves
<1>1. DbNext
  BY DEF DbNext
<1>2. clock' = clock /\ clock \in Nat
  BY DEF Open, TableInv, IInv, TypeOK
<1>3. Opens
  BY DEF Opens
<1> QED BY <1>1, <1>2, <1>3 DEF Moves

IdsOf(rows) == {r.id : r \in rows}

LEMMA TaskIds ==
    ASSUME Variables
    PROVE  /\ task.at \in {"states", "opens"} => IdsOf(Incoming(task.rows)) \in SUBSET Ids
           /\ task.at = "confirm" => {task.row.id} \in SUBSET Ids
BY DEF Variables, Tasks, Waiting, Reading, Incoming, IdsOf, Rows

LEMMA NextMoves ==
    ASSUME TableInv, Variables, [Next]_vars
    PROVE  Moves
<1>0. me \in Addresses /\ partner \in Addresses /\ me # partner /\ clock \in Nat
  BY TerminalAssumption DEF TableInv, IInv, TypeOK
<1>1. ASSUME NEW e \in Envelopes, PartnerSends(e) \/ Send(e) PROVE Moves
  <2>1. Accepted(e) /\ {e.sender, e.recipient} = {me, partner}
    BY <1>1 DEF PartnerSends, Send
  <2>2. DbNext
    BY <2>1 DEF Accepted, DbNext
  <2>3. Accepts /\ clock' = clock
    BY <2>1 DEF Accepted, Create, Accepts
  <2> QED BY <1>0, <2>2, <2>3 DEF Moves
<1>2. ASSUME NEW a \in Addresses, NEW b \in Addresses, a # b, OpenElsewhere(a, b) PROVE Moves
  <2>1. PICK ids \in SUBSET Ids : OpenAndTell(a, b, ids)
    BY <1>2, SomeoneOpens
  <2>2. posted' = posted
    BY <1>2 DEF OpenElsewhere
  <2> QED BY <1>2, <2>1, <2>2, OpenMoves DEF OpenAndTell
<1>3. CASE ClearElsewhere
  <2>1. DbNext
    BY <1>0, <1>3 DEF ClearElsewhere, DbNext
  <2> QED BY <1>0, <1>3, <2>1 DEF ClearElsewhere, Clear, Moves, Leaves
<1>4. CASE Pass
  BY <1>0, <1>4 DEF Pass, Tick, DbNext, Moves, Leaves
<1>5. CASE Connect \/ FetchPage \/ LookUpStates \/ LoseLink \/ EndLink \/ ReadFrame \/ ConfirmOwn
           \/ SendAnswered \/ SendLost
  <2>1. UNCHANGED dbVars /\ posted' = posted
    BY <1>5 DEF Connect, FetchPage, LookUpStates, LoseLink, EndLink, ReadFrame, ConfirmOwn, SendAnswered, SendLost
  <2> QED BY <2>1, QuietMoves
<1>6. CASE OpenPage
  <2>1. OpenAndTell(me, partner, IdsOf(Incoming(task.rows))) /\ posted' = posted /\ task.at = "opens"
    BY <1>6 DEF OpenPage, IdsOf
  <2> QED BY <1>0, <2>1, TaskIds, OpenMoves DEF OpenAndTell
<1>7. CASE FailHistory
  <2>1. /\ posted' = posted
        /\ \/ UNCHANGED dbVars
           \/ task.at = "opens" /\ Open(me, partner, IdsOf(Incoming(task.rows)))
    BY <1>7 DEF FailHistory, IdsOf
  <2> QED BY <1>0, <2>1, TaskIds, OpenMoves, QuietMoves
<1>8. CASE ConfirmIncoming \/ RejectMessage
  <2>1. /\ posted' = posted /\ task.at = "confirm"
        /\ UNCHANGED dbVars \/ OpenAndTell(me, partner, {task.row.id})
    BY <1>8 DEF ConfirmIncoming, RejectMessage
  <2> QED BY <1>0, <2>1, TaskIds, OpenMoves, QuietMoves DEF OpenAndTell
<1>9. CASE UNCHANGED vars
  BY <1>9, QuietMoves DEF vars
<1> QED BY <1>0, <1>1, <1>2, <1>3, <1>4, <1>5, <1>6, <1>7, <1>8, <1>9 DEF Next

-----------------------------------------------------------------------------
(* Types, copies and entries are kept                                      *)

Kept ==
    /\ Variables' /\ Control' /\ EntriesSound'
    /\ Copies' \subseteq Copies \cup messages'

LEMMA CoreTypes ==
    ASSUME ClientCore
    PROVE  /\ clock \in Nat /\ highWater \in Nat /\ highWater <= MaxAccepted /\ messages \subseteq Rows
           /\ me \in Addresses /\ partner \in Addresses /\ me # partner
           /\ IsMap(known) /\ own \in [DOMAIN own -> Entries] /\ stream \in Seq(Frames)
           /\ \A r, q \in messages : r.id = q.id => r = q
           /\ \A r \in messages : r.seq <= highWater /\ ValidLifecycle(r) /\ r.created <= clock
BY TerminalAssumption, DatabaseAssumption
   DEF ClientCore, TableInv, IInv, TypeOK, RowsAreSound, KeysAreUnique, LifecyclesAreValid, Variables, IsMap, Frames

\* An accepted message is told at once.
LEMMA AcceptedTells ==
    ASSUME Variables, TableInv, NEW e \in Envelopes, Accepted(e)
    PROVE  /\ Grows
           /\ conn => \A t : Arriving(stream', e.id, t)
<1> DEFINE new == AcceptedRow(e, NextSeq, clock)
           told == <<Message(new)>>
<1>1. Tell(told) /\ messages' = messages \cup {new}
  BY DEF Accepted, Create
<1>2. new \in Rows /\ new.id = e.id
  <2>1. NextSeq \in Nat /\ clock \in Nat
    BY DEF NextSeq, TableInv, IInv, TypeOK
  <2> QED BY <2>1, AcceptedRowType DEF AcceptedRow
<1> HIDE DEF new
<1>3. Message(new) \in Told /\ Message(new).type = "message" /\ Message(new).row = new
  BY <1>2 DEF Message, Told
<1>4. told \in Seq(Told)
  BY <1>3
<1>5. RowsIn(told) = {new} /\ FinalUpdates(told) /\ \A t : Arriving(told, e.id, t)
  BY <1>2, <1>3, TellOne
<1> HIDE DEF told
<1> QED BY <1>1, <1>4, <1>5, TellGrows

LEMMA PostedIds ==
    ASSUME Variables, Moves
    PROVE  posted' \subseteq Ids
BY EnvelopeAssumption DEF Variables, Moves, Leaves, Accepts, Opens

\* What happens on the server and to the link leaves the terminal alone.
LEMMA TerminalKept ==
    ASSUME ClientCore, Moves, UNCHANGED <<task, known, own, sending>>,
           conn' \in BOOLEAN, conn' = conn \/ ~conn',
           stream' \in Seq(Frames), RowsIn(stream') \subseteq RowsIn(stream) \cup messages'
    PROVE  Kept
<1>1. Shown' = Shown /\ InTask' = InTask
  BY DEF Shown, Known, Read, InHistory, InTask
<1>2. Copies' \subseteq Copies \cup messages'
  BY <1>1 DEF Copies
<1>3. EntriesSound'
  BY <1>1 DEF ClientCore, EntriesSound
<1>4. Variables'
  BY PostedIds DEF ClientCore, Variables, Frames
<1>5. Control'
  <2>1. clock \in Nat /\ clock' \in Nat /\ clock' >= clock
    BY CoreTypes DEF Moves
  <2>2. task.at \in {"states", "opens", "confirm"} => task.since \in Nat
    BY DEF ClientCore, Variables, Tasks, Waiting, Reading
  <2> QED BY <2>1, <2>2 DEF ClientCore, Control
<1> QED BY <1>2, <1>3, <1>4, <1>5 DEF Kept

LEMMA ServerKept ==
    ASSUME ClientCore, Moves,
           \/ \E e \in Envelopes : PartnerSends(e)
           \/ OpenElsewhere(me, partner) \/ OpenElsewhere(partner, me)
           \/ ClearElsewhere \/ Pass \/ LoseLink \/ UNCHANGED vars
    PROVE  Kept
<1>0. stream \in Seq(Frames) /\ conn \in BOOLEAN /\ Variables
  BY CoreTypes DEF ClientCore, Variables
<1>1. UNCHANGED <<task, known, own, sending>>
  BY DEF PartnerSends, OpenElsewhere, ClearElsewhere, Pass, LoseLink, vars, terminal, link
<1>2. conn' \in BOOLEAN /\ (conn' = conn \/ ~conn')
  <2>1. conn' = conn \/ LoseLink
    BY DEF PartnerSends, Accepted, OpenElsewhere, ClearElsewhere, Pass, vars, link
  <2>2. LoseLink => ~conn' /\ conn' \in BOOLEAN
    BY DEF LoseLink
  <2> QED BY <1>0, <2>1, <2>2
<1>3. stream' \in Seq(Frames) /\ RowsIn(stream') \subseteq RowsIn(stream) \cup messages'
  <2>1. ASSUME NEW e \in Envelopes, PartnerSends(e) PROVE Grows
    BY <2>1, <1>0, AcceptedTells DEF PartnerSends, ClientCore
  <2>2. CASE OpenElsewhere(me, partner) \/ OpenElsewhere(partner, me)
    <3>1. ASSUME NEW a \in Addresses, NEW b \in Addresses, OpenElsewhere(a, b) PROVE Grows
      BY <3>1, SomeoneOpens, OpeningTells DEF ClientCore
    <3> QED BY <2>2, <3>1, CoreTypes DEF Grows
  <2>3. CASE ClearElsewhere
    <3>1. Tell(<<Clearance(clock)>>)
      BY <2>3 DEF ClearElsewhere
    <3>2. <<Clearance(clock)>> \in Seq(Frames)
      <4>1. Clearance(clock) \in Frames
        BY CoreTypes DEF Clearance, Frames, Cuts
      <4> QED BY <4>1
    <3>3. RowsIn(<<Clearance(clock)>>) = {}
      BY DEF RowsIn, Clearance
    <3> QED BY <1>0, <3>1, <3>2, <3>3, TellKeeps DEF Tell
  <2>4. CASE Pass \/ LoseLink \/ UNCHANGED vars
    <3>1. stream' \in {stream, <<>>}
      BY <2>4 DEF Pass, LoseLink, vars, link
    <3> QED BY <1>0, <3>1, NothingTold
  <2> QED BY <2>1, <2>2, <2>3, <2>4 DEF Grows
<1> QED BY <1>1, <1>2, <1>3, TerminalKept

LEMMA LinkKept ==
    ASSUME ClientCore, Moves, Connect \/ FailHistory \/ EndLink
    PROVE  Kept
<1>0. stream \in Seq(Frames) /\ conn \in BOOLEAN /\ Variables /\ clock \in Nat
  BY CoreTypes DEF ClientCore, Variables
<1>1. own' = own /\ sending' = sending
  BY DEF Connect, FailHistory, EndLink
<1>2. stream' \in {stream, <<>>} /\ conn' \in BOOLEAN
  BY <1>0 DEF Connect, FailHistory, EndLink, link
<1>3. stream' \in Seq(Frames) /\ RowsIn(stream') \subseteq RowsIn(stream)
  BY <1>0, <1>2, NothingTold
<1>4. IsMap(known') /\ Known' \subseteq Known
  <2>1. CASE Connect
    <3>1. known' = Retained(known) /\ IsMap(known)
      BY <2>1, CoreTypes DEF Connect
    <3>2. IsMap(known') /\ Within(known', known)
      BY <3>1, LessIsMap, LessOf DEF IsMap
    <3> QED BY <3>2 DEF Within, Known
  <2>2. CASE known' = known
    BY <2>2, CoreTypes DEF Known, IsMap
  <2> QED BY <2>1, <2>2 DEF FailHistory, EndLink
<1>5. task' = ReadPage(MaxAccepted + 1, {}) \/ (task' = Waiting /\ conn' = FALSE)
  BY <1>0 DEF Connect, FailHistory, EndLink, link
<1>6. task' \in Tasks /\ Read' = {} /\ InTask' = {} /\ Control'
  <2>1. MaxAccepted + 1 \in Nat
    BY DatabaseAssumption
  <2> QED BY <1>5, <2>1 DEF ReadPage, Waiting, Tasks, Read, InTask, InHistory, Control
<1>7. Variables'
  BY <1>0, <1>1, <1>2, <1>3, <1>4, <1>6, PostedIds DEF Variables, IsMap, Frames
<1>8. Shown' \subseteq Shown /\ Copies' \subseteq Copies
  BY <1>3, <1>4, <1>6 DEF Shown, Copies
<1>9. EntriesSound'
  BY <1>1, <1>8 DEF ClientCore, EntriesSound
<1> QED BY <1>6, <1>7, <1>8, <1>9 DEF Kept

LEMMA SendKept ==
    ASSUME ClientCore, Moves, (\E e \in Envelopes : Send(e)) \/ SendAnswered \/ SendLost
    PROVE  Kept
<1>0. stream \in Seq(Frames) /\ conn \in BOOLEAN /\ Variables /\ clock \in Nat
  BY CoreTypes DEF ClientCore, Variables
<1>1. /\ task' = task /\ known' = known /\ conn' = conn /\ clock' = clock
  BY DEF Send, Accepted, Create, SendAnswered, SendLost, link, dbVars
<1>2. stream' \in Seq(Frames) /\ RowsIn(stream') \subseteq RowsIn(stream) \cup messages'
  <2>1. ASSUME NEW e \in Envelopes, Send(e) PROVE Grows
    BY <2>1, <1>0, AcceptedTells DEF Send, ClientCore
  <2>2. CASE stream' = stream
    BY <1>0, <2>2
  <2> QED BY <2>1, <2>2 DEF Grows, SendAnswered, SendLost, link
<1>3. /\ sending' = NotSending \/ (sending' \in [at : {"accepted"}, row : Rows] /\ sending'.row.recipient # me)
      /\ own' \in [DOMAIN own' -> Entries]
      /\ \A id \in DOMAIN own' : own'[id].row.recipient # me
  <2>1. ASSUME NEW e \in Envelopes, Send(e)
        PROVE  /\ sending' \in [at : {"accepted"}, row : Rows] /\ sending'.row.recipient # me
               /\ own' = own
    <3>1. sending' = [at |-> "accepted", row |-> AcceptedRow(e, NextSeq, clock)] /\ own' = own /\ e.recipient = partner
      BY <2>1 DEF Send
    <3>2. AcceptedRow(e, NextSeq, clock) \in Rows /\ AcceptedRow(e, NextSeq, clock).recipient = e.recipient
      <4>1. NextSeq \in Nat
        BY CoreTypes DEF NextSeq
      <4> QED BY <1>0, <4>1, AcceptedRowType DEF AcceptedRow
    <3> QED BY <3>1, <3>2, CoreTypes
  <2>2. ASSUME SendAnswered
        PROVE  /\ sending' = NotSending /\ own' \in [DOMAIN own' -> Entries]
               /\ \A id \in DOMAIN own' : own'[id].row.recipient # me
    <3> DEFINE r == sending.row
               ids == DOMAIN own \cup {r.id}
    <3>1. sending # NotSending /\ sending' = NotSending
          /\ own' = [id \in ids |-> IF id = r.id THEN Entry(r, r.expires) ELSE own[id]]
      BY <2>2 DEF SendAnswered
    <3>2. r \in Rows /\ r.recipient # me
      BY <3>1 DEF ClientCore, Variables, EntriesSound
    <3> HIDE DEF r
    <3>3. Entry(r, r.expires) \in Entries /\ Entry(r, r.expires).row = r
      BY <3>2 DEF Entry, Entries, Rows
    <3>4. own \in [DOMAIN own -> Entries] /\ \A id \in DOMAIN own : own[id].row.recipient # me
      BY DEF ClientCore, Variables, EntriesSound
    <3> HIDE DEF ids
    <3>5. DOMAIN own' = ids
      BY <3>1
    <3>6. \A id \in ids : own'[id] \in Entries /\ own'[id].row.recipient # me
      BY <3>1, <3>2, <3>3, <3>4 DEF ids
    <3>7. own' = [id \in ids |-> own'[id]]
      BY <3>1, <3>5
    <3> QED BY <3>1, <3>5, <3>6, <3>7
  <2>3. CASE SendLost
    BY <2>3 DEF SendLost, ClientCore, Variables, EntriesSound
  <2> QED BY <2>1, <2>2, <2>3 DEF ClientCore, Variables, EntriesSound
<1>4. Shown' = Shown /\ InTask' = InTask
  BY <1>1 DEF Shown, Known, Read, InHistory, InTask
<1>5. EntriesSound'
  BY <1>3, <1>4 DEF ClientCore, EntriesSound
<1>6. Copies' \subseteq Copies \cup messages'
  BY <1>2, <1>4 DEF Copies
<1>7. Variables' /\ Control'
  BY <1>0, <1>1, <1>2, <1>3, PostedIds DEF ClientCore, Variables, Control, Frames
<1> QED BY <1>5, <1>6, <1>7 DEF Kept

\* A confirmation of a row of the table.
LEMMA ConfirmedIs ==
    ASSUME NEW r \in Rows, NEW since \in Nat, clock \in Nat, since <= clock
    PROVE  /\ Confirmed(r, since) \in Entries /\ Confirmed(r, since).row = r
           /\ Confirmed(r, since).until <= r.expires
           /\ since = clock => Confirmed(r, since).until = r.expires
BY DEF Confirmed, Entry, Entries, Rows

\* An opening confirms rows of the new table, each with its deadline.
LEMMA OpenedByIs ==
    ASSUME TableInv, TableInv', NEW ids \in SUBSET Ids, Open(me, partner, ids), NEW r \in OpenedBy(ids)
    PROVE  r \in messages' /\ IsFinal(r) /\ r.id \in ids /\ r \in Rows
<1> DEFINE found == Available(me, partner, ids)
           fresh == NewlyOpened(found)
<1>1. /\ messages' = (messages \ fresh) \cup {OpenedRow(q, clock) : q \in fresh}
      /\ found \subseteq messages /\ fresh \subseteq found /\ \A q \in found \ fresh : IsFinal(q)
      /\ \A q \in found : q.id \in ids
  BY DEF Open, NewlyOpened, Available
<1>2. messages \subseteq Rows /\ messages' \subseteq Rows /\ clock \in Nat
  BY DEF TableInv, IInv, TypeOK
<1>3. r \in (found \ fresh) \cup {OpenedRow(q, clock) : q \in fresh}
  BY DEF OpenedBy
<1> HIDE DEF found, fresh
<1>4. CASE r \in found \ fresh
  BY <1>1, <1>2, <1>4
<1>5. ASSUME NEW q \in fresh, r = OpenedRow(q, clock) PROVE IsFinal(r) /\ r.id \in ids /\ r \in messages'
  <2>1. q \in Rows /\ q.id \in ids
    BY <1>1, <1>2
  <2>2. r.id = q.id /\ r.opened = clock
    BY <1>2, <1>5, <2>1, OpenedRowId, OpenedRowType
  <2> QED BY <1>1, <1>2, <1>5, <2>1, <2>2 DEF IsFinal, Unopened
<1> QED BY <1>2, <1>3, <1>4, <1>5

\* Entries that only repeat the table's rows, as confirmed.
Sound(m) == m.until <= m.row.expires /\ (m.row.recipient = me => IsFinal(m.row))

LEMMA HistoryKept ==
    ASSUME ClientCore, Moves, TableInv', UNCHANGED <<known, own, sending>>, conn' = conn,
           stream' \in Seq(Frames), RowsIn(stream') \subseteq RowsIn(stream) \cup messages',
           task' \in Tasks, InTask' \subseteq InTask \cup messages', Control',
           \A m \in Read' : m \in Read \/ (m.row \in messages' /\ Sound(m))
    PROVE  Kept
<1>1. Shown' = Known \cup Read'
  BY DEF Shown, Known
<1>2. Copies' \subseteq Copies \cup messages'
  BY <1>1 DEF Copies, Shown
<1>3. EntriesSound'
  <2>1. \A m \in Shown' : m \in Shown \/ Sound(m)
    BY <1>1 DEF Shown
  <2> QED BY <2>1 DEF ClientCore, EntriesSound, Sound
<1>4. Variables'
  BY PostedIds DEF ClientCore, Variables, Frames
<1> QED BY <1>2, <1>3, <1>4 DEF Kept

LEMMA PageKept ==
    ASSUME ClientCore, Moves, TableInv', FetchPage
    PROVE  Kept
<1>0. /\ stream \in Seq(Frames) /\ conn \in BOOLEAN /\ Variables /\ clock \in Nat /\ messages \subseteq Rows
      /\ task.at = "page" /\ task \in [at : {"page"}, before : Nat, read : SUBSET Entries]
      /\ UNCHANGED <<stream, conn, sending, messages, clock>>
  BY CoreTypes DEF ClientCore, Variables, FetchPage, link, dbVars, Tasks, Waiting, Reading
<1> DEFINE rows == HistoryRows(messages, me, partner, task.before, PageSize, clock)
<1>1. CASE rows # {}
  <2>1. /\ task' = [at |-> "states", rows |-> rows, since |-> clock, read |-> task.read]
        /\ UNCHANGED <<known, own>>
    BY <1>1 DEF FetchPage
  <2>2. rows \in SUBSET messages
    BY DEF HistoryRows, LastRows, LiveBetween
  <2> HIDE DEF rows
  <2>3. MinSeqOf(rows) \in Nat
    <3>1. MinSeqOf(rows) \in 0..highWater
      BY <1>1, <2>2, LowestOfTable DEF ClientCore
    <3> QED BY <3>1
  <2>4. task' \in Tasks
    <3>1. rows \in SUBSET Rows /\ task.read \in SUBSET Entries
      BY <1>0, <2>2
    <3> QED BY <1>0, <2>1, <3>1 DEF Tasks
  <2>5. InTask' \subseteq messages' /\ Read' = Read
    BY <1>0, <2>1, <2>2 DEF InTask, Read, InHistory
  <2>6. Control'
    BY <1>0, <2>1, <2>3 DEF Control, Waiting
  <2> QED BY <1>0, <2>1, <2>4, <2>5, <2>6, HistoryKept
<1>2. CASE rows = {}
  <2> DEFINE before == Without(known, GoneFrom(task.read))
  <2>1. Deliver(task.read, before) /\ task' = Reading
    BY <1>2 DEF FetchPage
  <2>2. IsMap(before) /\ Within(before, known) /\ task.read \in SUBSET Entries
    BY <1>0, CoreTypes, LessIsMap, LessOf DEF IsMap
  <2> HIDE DEF before
  <2>3. IsMap(known') /\ Known' \subseteq Known \cup task.read
        /\ own' \in [DOMAIN own' -> Entries] /\ Within(own', own)
    <3>0. own \in [DOMAIN own -> Entries]
      BY CoreTypes
    <3>1. /\ IsMap(known')
          /\ \A id \in DOMAIN known' :
                \/ known'[id] \in task.read /\ IsAvailable(known'[id])
                \/ /\ id \in DOMAIN before /\ known'[id] = before[id]
                   /\ \A m \in task.read : IsAvailable(m) => m.row.id # id
          /\ own' \in [DOMAIN own' -> Entries] /\ Within(own', own)
      BY <2>1, <2>2, <3>0, DeliverAdds
    <3> QED BY <2>2, <3>1 DEF Known, Within
  <2>4. task' \in Tasks /\ Read' = {} /\ InTask' = {} /\ Read = task.read /\ Control'
    BY <1>0, <2>1 DEF Reading, Waiting, Tasks, Read, InTask, InHistory, Control
  <2>5. Variables'
    BY <1>0, <2>3, <2>4, PostedIds DEF Variables, IsMap
  <2>6. Shown' \subseteq Shown /\ Copies' \subseteq Copies
    BY <1>0, <2>3, <2>4 DEF Shown, Copies
  <2>7. EntriesSound'
    BY <1>0, <2>3, <2>6 DEF ClientCore, EntriesSound, Within
  <2> QED BY <2>4, <2>5, <2>6, <2>7 DEF Kept
<1> QED BY <1>1, <1>2

LEMMA LookUpKept ==
    ASSUME ClientCore, Moves, TableInv', LookUpStates
    PROVE  Kept
<1>0. /\ stream \in Seq(Frames) /\ conn \in BOOLEAN /\ Variables /\ clock \in Nat /\ messages \subseteq Rows
      /\ task.at = "states"
      /\ task \in [at : {"states", "opens"}, rows : SUBSET Rows, since : Nat, read : SUBSET Entries]
      /\ task.since <= clock /\ MinSeqOf(task.rows) \in Nat
      /\ UNCHANGED <<stream, conn, sending, messages, clock, known, own>>
  BY CoreTypes DEF ClientCore, Variables, Control, LookUpStates, link, dbVars, Tasks, Waiting, Reading
<1> DEFINE live == {r \in LiveBetween(messages, me, partner, clock) : \E q \in Own(task.rows) : r.id = q.id}
           more == {Confirmed(r, task.since) : r \in live}
<1>1. task' = [at |-> "opens", rows |-> task.rows, since |-> clock, read |-> task.read \cup more]
  BY DEF LookUpStates
<1>2. ASSUME NEW r \in live PROVE r \in messages /\ r.recipient # me
  <2>1. r \in messages /\ \E q \in task.rows : r.id = q.id /\ q.sender = me
    BY DEF LiveBetween, Own
  <2>2. PICK q \in task.rows : r.id = q.id /\ q.sender = me
    BY <2>1
  <2>3. q \in Copies
    BY <1>0 DEF Copies, InTask
  <2>4. SameEnvelope(q, r) /\ Between(q, me, partner)
    BY <2>1, <2>2, <2>3 DEF ClientCore, CopiesSound
  <2> QED BY <2>1, <2>2, <2>4, CoreTypes DEF SameEnvelope, Between
<1> HIDE DEF live
<1>3. \A m \in more : m \in Entries /\ m.row \in messages /\ Sound(m)
  BY <1>0, <1>2, ConfirmedIs DEF Sound
<1> HIDE DEF more
<1>4. task' \in Tasks /\ InTask' = InTask /\ Read' = Read \cup more /\ Control'
  <2>1. task.read \cup more \in SUBSET Entries
    BY <1>0, <1>3
  <2> QED BY <1>0, <1>1, <2>1 DEF Tasks, InTask, Read, InHistory, Control, Waiting
<1> QED BY <1>0, <1>3, <1>4, HistoryKept

LEMMA OpenPageKept ==
    ASSUME ClientCore, Moves, TableInv', OpenPage
    PROVE  Kept
<1>0. /\ stream \in Seq(Frames) /\ conn \in BOOLEAN /\ Variables /\ clock \in Nat /\ messages \subseteq Rows
      /\ task.at = "opens" /\ me \in Addresses /\ partner \in Addresses
      /\ task \in [at : {"states", "opens"}, rows : SUBSET Rows, since : Nat, read : SUBSET Entries]
      /\ task.since <= clock /\ MinSeqOf(task.rows) \in Nat
      /\ UNCHANGED <<conn, sending, known, own>>
  BY CoreTypes DEF ClientCore, Variables, Control, OpenPage, Tasks, Waiting, Reading
<1> DEFINE ids  == {r.id : r \in Incoming(task.rows)}
           more == {Confirmed(r, task.since) : r \in OpenedBy(ids)}
<1>1. /\ OpenAndTell(me, partner, ids)
      /\ task' = [at |-> "page", before |-> MinSeqOf(task.rows), read |-> task.read \cup more]
  BY DEF OpenPage, ReadPage
<1>2. ids \in SUBSET Ids
  BY <1>0, TaskIds DEF IdsOf
<1> HIDE DEF ids
<1>3. Open(me, partner, ids) /\ Grows
  BY <1>0, <1>1, <1>2, OpeningTells DEF ClientCore
<1>4. \A r \in OpenedBy(ids) : r \in messages' /\ IsFinal(r) /\ r \in Rows
  BY <1>2, <1>3, OpenedByIs DEF ClientCore
<1>5. \A m \in more : m \in Entries /\ m.row \in messages' /\ Sound(m)
  BY <1>0, <1>4, ConfirmedIs DEF Sound
<1> HIDE DEF more
<1>6. task' \in Tasks /\ InTask' = {} /\ Read' = Read \cup more /\ Control'
  <2>1. task.read \cup more \in SUBSET Entries
    BY <1>0, <1>5
  <2> QED BY <1>0, <1>1, <2>1 DEF Tasks, InTask, Read, InHistory, Control, Waiting
<1> QED BY <1>0, <1>3, <1>5, <1>6, HistoryKept DEF Grows

\* What the stream and the answers to it make of the maps.
LEMMA MapsKept ==
    ASSUME ClientCore, Moves, conn' = conn, sending' = sending,
           stream' \in Seq(Frames), RowsIn(stream') \subseteq RowsIn(stream) \cup messages',
           IsMap(known'), own' \in [DOMAIN own' -> Entries], Within(own', own),
           task' \in Tasks, Read' = {}, InTask' \subseteq Copies \cup messages', Control',
           \A m \in Known' : m \in Shown \/ (m.row \in Copies \cup messages' /\ Sound(m))
    PROVE  Kept
<1>1. Shown' = Known'
  BY DEF Shown
<1>2. Copies' \subseteq Copies \cup messages'
  BY <1>1 DEF Copies
<1>3. EntriesSound'
  BY <1>1 DEF ClientCore, EntriesSound, Sound, Within
<1>4. Variables'
  BY PostedIds DEF ClientCore, Variables, Frames, IsMap
<1> QED BY <1>2, <1>3, <1>4 DEF Kept

LEMMA DeliverKept ==
    ASSUME ClientCore, Moves, conn' = conn, sending' = sending,
           stream' \in Seq(Frames), RowsIn(stream') \subseteq RowsIn(stream) \cup messages',
           NEW entries \in SUBSET Entries, \A m \in entries : m.row \in messages' /\ Sound(m),
           Deliver(entries, known), task' = Reading
    PROVE  Kept
<1>1. IsMap(known) /\ own \in [DOMAIN own -> Entries]
  BY CoreTypes
<1>2. /\ IsMap(known')
      /\ \A id \in DOMAIN known' :
            \/ known'[id] \in entries /\ IsAvailable(known'[id])
            \/ /\ id \in DOMAIN known /\ known'[id] = known[id]
               /\ \A m \in entries : IsAvailable(m) => m.row.id # id
      /\ own' \in [DOMAIN own' -> Entries] /\ Within(own', own)
  BY <1>1, DeliverAdds
<1>3. \A m \in Known' : m \in entries \/ m \in Shown
  BY <1>2 DEF Known, Shown
<1>4. task' \in Tasks /\ Read' = {} /\ InTask' = {} /\ Control'
  BY DEF Reading, Waiting, Tasks, Read, InTask, InHistory, Control
<1> QED BY <1>2, <1>3, <1>4, MapsKept

LEMMA ReadFrameKept ==
    ASSUME ClientCore, Moves, ReadFrame
    PROVE  Kept
<1> DEFINE event == Head(stream)
           map   == Retained(known)
<1>0. /\ stream \in Seq(Frames) /\ Variables /\ clock \in Nat /\ clock' = clock /\ own \in [DOMAIN own -> Entries]
      /\ task = Reading /\ stream # <<>> /\ stream' = Tail(stream) /\ conn' = conn /\ sending' = sending
      /\ IsMap(known)
  BY CoreTypes DEF ClientCore, ReadFrame, dbVars
<1>1. /\ stream' \in Seq(Frames) /\ RowsIn(stream') \subseteq RowsIn(stream) /\ event \in Frames
      /\ IsMap(map) /\ Within(map, known)
  BY <1>0, ReadingKeeps, LessIsMap, LessOf DEF IsMap
<1>2. /\ \/ event.type = "message" /\ task' = [at |-> "confirm", row |-> event.row, since |-> clock]
            /\ known' = map /\ own' = own
         \/ event.type = "expiry-update" /\ ApplyUpdate(map, event.row) /\ task' = task
         \/ /\ task' = task
            /\ \E gone : known' = Without(map, gone) /\ own' = Without(own, gone)
      /\ event.type \in {"message", "expiry-update"} => event.row \in Rows /\ event.row \in Copies
  <2>1. event = stream[1] /\ 1 \in DOMAIN stream
    BY <1>0
  <2>2. event.type \in {"message", "expiry-update"} => event.row \in RowsIn(stream)
    BY <2>1 DEF RowsIn
  <2>3. event.type \in {"message", "expiry-update", "conversation-cleared"}
    BY <1>1 DEF Frames, Told, Cuts
  <2>4. event.type \in {"message", "expiry-update"} => event.row \in Rows
    BY <1>1 DEF Frames, Told, Cuts
  <2> HIDE DEF event, map
  <2>5. CASE event.type = "message"
    BY <2>5, <2>2, <2>4 DEF ReadFrame, Copies, event, map
  <2>6. CASE event.type = "expiry-update"
    BY <2>6, <2>2, <2>4 DEF ReadFrame, Copies, event, map
  <2>7. CASE event.type = "conversation-cleared"
    BY <2>7 DEF ReadFrame, event, map
  <2> QED BY <2>3, <2>5, <2>6, <2>7
<1> HIDE DEF event, map
<1>3. \A id \in DOMAIN map : map[id] \in Shown
  BY <1>1 DEF Within, Shown, Known
<1>4. Reading \in Tasks /\ (task' = Reading => Read' = {} /\ InTask' = {} /\ Control')
  BY DEF Reading, Waiting, Tasks, Read, InTask, InHistory, Control
<1>5. CASE /\ event.type = "message" /\ task' = [at |-> "confirm", row |-> event.row, since |-> clock]
           /\ known' = map /\ own' = own
  <2>1. task' \in Tasks /\ Read' = {} /\ InTask' \subseteq Copies /\ Control'
    BY <1>0, <1>2, <1>5 DEF Tasks, Read, InTask, InHistory, Control, Waiting
  <2>2. Known' \subseteq Shown
    BY <1>3, <1>5 DEF Known
  <2> QED BY <1>0, <1>1, <1>5, <2>1, <2>2, MapsKept DEF Within
<1>6. CASE event.type = "expiry-update" /\ ApplyUpdate(map, event.row) /\ task' = task
  <2> DEFINE r == event.row
             m == map[r.id]
             entry == Entry(r, m.until + r.expires - m.row.expires)
  <2>1. CASE r.id \in DOMAIN map /\ ~IsFinal(m.row)
    <3>1. known' = [map EXCEPT ![r.id] = entry] /\ own' = Without(own, {r.id})
      BY <1>6, <2>1 DEF ApplyUpdate
    <3>2. m \in Entries /\ m.row.id = r.id /\ m \in Shown /\ r \in Rows /\ r \in Copies
      BY <1>1, <1>2, <1>3, <1>6, <2>1 DEF IsMap
    <3> HIDE DEF m, r
    <3>3. entry \in Entries /\ entry.row = r /\ (m.until <= m.row.expires => entry.until <= r.expires)
      BY <3>2 DEF Entry, Entries, Rows
    <3>4. m.until <= m.row.expires /\ m.row.recipient # me
      BY <2>1, <3>2 DEF ClientCore, EntriesSound
    <3>5. r.recipient # me
      <4>1. m.row \in Copies
        BY <3>2 DEF Copies
      <4> QED BY <3>2, <3>4, <4>1 DEF ClientCore, CopiesSound, SameEnvelope
    <3>6. Sound(entry)
      BY <3>3, <3>4, <3>5 DEF Sound
    <3> HIDE DEF entry
    <3>7. IsMap(known')
      BY <1>1, <3>1, <3>3 DEF IsMap
    <3>8. \A q \in Known' : q \in Shown \/ q = entry
      BY <1>1, <1>3, <3>1 DEF IsMap, Known
    <3>9. own' \in [DOMAIN own' -> Entries] /\ Within(own', own)
      BY <1>0, <3>1, LessOf
    <3> QED BY <1>0, <1>1, <1>4, <1>6, <3>2, <3>3, <3>6, <3>7, <3>8, <3>9, MapsKept
  <2>2. CASE ~(r.id \in DOMAIN map /\ ~IsFinal(m.row))
    <3>1. known' = map /\ own' = own
      BY <1>6, <2>2 DEF ApplyUpdate
    <3>2. Known' \subseteq Shown
      BY <1>3, <3>1 DEF Known
    <3> QED BY <1>0, <1>1, <1>4, <1>6, <3>1, <3>2, MapsKept DEF Within
  <2> QED BY <2>1, <2>2
<1>7. CASE task' = task /\ \E gone : known' = Without(map, gone) /\ own' = Without(own, gone)
  <2>1. PICK gone : known' = Without(map, gone) /\ own' = Without(own, gone)
    BY <1>7
  <2>2. /\ IsMap(known') /\ Within(known', map)
        /\ own' \in [DOMAIN own' -> Entries] /\ Within(own', own)
    BY <1>0, <1>1, <2>1, LessIsMap, LessOf DEF IsMap
  <2>3. Known' \subseteq Shown
    BY <1>3, <2>2 DEF Known, Within
  <2> QED BY <1>0, <1>1, <1>4, <1>7, <2>2, <2>3, MapsKept
<1> QED BY <1>2, <1>5, <1>6, <1>7

LEMMA ConfirmKept ==
    ASSUME ClientCore, Moves, TableInv', ConfirmOwn \/ ConfirmIncoming \/ RejectMessage
    PROVE  Kept
<1>0. /\ stream \in Seq(Frames) /\ Variables /\ clock \in Nat /\ messages \subseteq Rows /\ messages' \subseteq Rows
      /\ me \in Addresses /\ partner \in Addresses
      /\ task.at = "confirm" /\ task \in [at : {"confirm"}, row : Rows, since : Nat] /\ task.since <= clock
      /\ task.row \in Copies /\ {task.row.id} \in SUBSET Ids
  <2>1. task.at = "confirm"
    BY DEF ConfirmOwn, ConfirmIncoming, RejectMessage
  <2>2. task.row \in Copies
    BY <2>1 DEF Copies, InTask
  <2> QED BY <2>1, <2>2, CoreTypes, TaskIds
          DEF ClientCore, Variables, Control, Tasks, Waiting, Reading, TableInv, IInv, TypeOK
<1>1. CASE ConfirmOwn
  <2> DEFINE live == {q \in LiveBetween(messages, me, partner, clock) : q.id = task.row.id}
             entries == {Confirmed(r, task.since) : r \in live}
  <2>1. /\ task.row.recipient # me /\ Deliver(entries, known) /\ task' = Reading
        /\ stream' = stream /\ conn' = conn /\ sending' = sending /\ messages' = messages
    BY <1>1 DEF ConfirmOwn, link, dbVars
  <2>2. \A r \in live : r \in messages /\ r.recipient # me
    <3>1. \A r \in live : r \in messages /\ r.id = task.row.id
      BY DEF LiveBetween
    <3> QED BY <1>0, <2>1, <3>1 DEF ClientCore, CopiesSound, SameEnvelope
  <2> HIDE DEF live
  <2>3. \A m \in entries : m \in Entries /\ m.row \in messages /\ Sound(m)
    BY <1>0, <2>2, ConfirmedIs DEF Sound
  <2> HIDE DEF entries
  <2> QED BY <1>0, <2>1, <2>3, DeliverKept
<1>2. CASE ConfirmIncoming
  <2> DEFINE ids == {task.row.id}
             entries == {Confirmed(r, task.since) : r \in OpenedBy(ids)}
  <2>1. /\ OpenAndTell(me, partner, ids) /\ Deliver(entries, known) /\ task' = Reading
        /\ conn' = conn /\ sending' = sending
    BY <1>2 DEF ConfirmIncoming
  <2>2. ids \in SUBSET Ids
    BY <1>0
  <2> HIDE DEF ids
  <2>3. Open(me, partner, ids) /\ Grows
    BY <1>0, <2>1, <2>2, OpeningTells DEF ClientCore
  <2>4. \A r \in OpenedBy(ids) : r \in messages' /\ IsFinal(r) /\ r \in Rows
    BY <1>0, <2>2, <2>3, OpenedByIs DEF ClientCore
  <2>5. \A m \in entries : m \in Entries /\ m.row \in messages' /\ Sound(m)
    BY <1>0, <2>4, ConfirmedIs DEF Sound
  <2> HIDE DEF entries
  <2> QED BY <2>1, <2>3, <2>5, DeliverKept DEF Grows
<1>3. CASE RejectMessage
  <2>1. task' = Reading /\ known' = known /\ own' = own /\ conn' = conn /\ sending' = sending
    BY <1>3 DEF RejectMessage
  <2>2. stream' \in Seq(Frames) /\ RowsIn(stream') \subseteq RowsIn(stream) \cup messages'
    <3>1. CASE UNCHANGED <<dbVars, stream>>
      BY <1>0, <3>1
    <3>2. CASE OpenAndTell(me, partner, {task.row.id})
      <4>1. Grows
        BY <1>0, <3>2, OpeningTells DEF ClientCore
      <4> QED BY <4>1 DEF Grows
    <3> QED BY <1>3, <3>1, <3>2 DEF RejectMessage
  <2>3. task' \in Tasks /\ Read' = {} /\ InTask' = {} /\ Control'
    BY <2>1 DEF Reading, Waiting, Tasks, Read, InTask, InHistory, Control
  <2> QED BY <2>1, <2>2, <2>3, HistoryKept
<1> QED BY <1>1, <1>2, <1>3

LEMMA CoreInitially == Init => ClientCore
<1> SUFFICES ASSUME Init PROVE ClientCore
  OBVIOUS
<1>1. TableInv
  <2>1. IInv
    BY IInvInit DEF Init
  <2> QED BY <2>1, FS_EmptySet DEF Init, DbInit, TableInv, NoneToOneself
<1>2. /\ messages = {} /\ clock = 0 /\ posted = {} /\ conn = FALSE /\ stream = <<>>
      /\ task = Waiting /\ known = EmptyMap /\ own = EmptyMap /\ sending = NotSending
  BY DEF Init, DbInit
<1>3. DOMAIN known = {} /\ DOMAIN own = {} /\ Shown = {} /\ InTask = {}
  BY <1>2 DEF EmptyMap, Shown, Known, Read, InHistory, InTask, Waiting
<1>4. known \in [DOMAIN known -> Entries] /\ own \in [DOMAIN own -> Entries]
  BY <1>2 DEF EmptyMap
<1>5. Variables /\ Control
  <2>1. stream \in Seq(Told \cup Cuts)
    BY <1>2, NothingTold DEF Frames
  <2>2. task \in Tasks /\ Control
    BY <1>2 DEF Control, Tasks, Waiting
  <2>3. \A id \in DOMAIN known : known[id].row.id = id
    BY <1>3
  <2> QED BY <1>2, <1>4, <2>1, <2>2, <2>3 DEF Variables
<1>6. Copies = {}
  BY <1>2, <1>3, NothingTold DEF Copies
<1>7. CopiesSound /\ EntriesSound
  BY <1>2, <1>3, <1>6 DEF CopiesSound, EntriesSound
<1> QED BY <1>1, <1>5, <1>7 DEF ClientCore

LEMMA CoreStep == ClientCore /\ [Next]_vars => ClientCore' /\ Moves /\ Kept
<1> SUFFICES ASSUME ClientCore, [Next]_vars PROVE ClientCore' /\ Moves /\ Kept
  OBVIOUS
<1>1. Moves
  BY NextMoves DEF ClientCore
<1>2. TableInv'
  BY <1>1, TableStep DEF Moves, ClientCore
<1>3. Kept
  <2>1. CASE \/ \E e \in Envelopes : PartnerSends(e)
             \/ OpenElsewhere(me, partner) \/ OpenElsewhere(partner, me)
             \/ ClearElsewhere \/ Pass \/ LoseLink \/ UNCHANGED vars
    BY <1>1, <2>1, ServerKept
  <2>2. CASE Connect \/ FailHistory \/ EndLink
    BY <1>1, <2>2, LinkKept
  <2>3. CASE (\E e \in Envelopes : Send(e)) \/ SendAnswered \/ SendLost
    BY <1>1, <2>3, SendKept
  <2>4. CASE FetchPage \/ LookUpStates \/ OpenPage
    BY <1>1, <1>2, <2>4, PageKept, LookUpKept, OpenPageKept
  <2>5. CASE ReadFrame
    BY <1>1, <2>5, ReadFrameKept
  <2>6. CASE ConfirmOwn \/ ConfirmIncoming \/ RejectMessage
    BY <1>1, <1>2, <2>6, ConfirmKept
  <2> QED BY <2>1, <2>2, <2>3, <2>4, <2>5, <2>6 DEF Next
<1>4. CopiesSound'
  BY <1>1, <1>2, <1>3, CopiesStep DEF Moves, Kept, ClientCore
<1> QED BY <1>1, <1>2, <1>3, <1>4 DEF ClientCore, Kept

\* For every conversation, page size and table: an incoming message that chat
\* may draw was opened, and leaves the screen no later than the server deletes
\* it, whichever of the history, the stream and a confirmation it came by
\* (confirmMessages and applyExpiryUpdate, src/cli/main.ts).
THEOREM ExposedAreOpened == Spec => []ExposedIsOpened
<1>1. ClientCore => ExposedIsOpened
  <2> SUFFICES ASSUME ClientCore, NEW id \in DOMAIN Screen, Screen[id].row.recipient = me
               PROVE  /\ IsFinal(Screen[id].row) /\ Screen[id].until <= Screen[id].row.expires
                      /\ \A r \in messages : r.id = id => r = Screen[id].row
    BY DEF ExposedIsOpened
  <2>1. id \in DOMAIN known /\ Screen[id] = known[id]
    BY DEF Screen, ClientCore, EntriesSound
  <2>2. known[id] \in Shown /\ known[id].row.id = id
    BY <2>1, CoreTypes DEF Shown, Known, IsMap
  <2>3. known[id].row \in Copies
    BY <2>2 DEF Copies
  <2> QED BY <2>1, <2>2, <2>3 DEF ClientCore, EntriesSound, CopiesSound
<1> QED BY <1>1, CoreInitially, CoreStep, PTL DEF Spec

-----------------------------------------------------------------------------
(* While the stream is open the terminal follows                           *)

\* The table moves on and the stream tells of it.
Evolves ==
    /\ FinalUpdates(stream) => FinalUpdates(stream')
    /\ \A t : ErasedFrom(stream, 1, t) => ErasedFrom(stream', 1, t)
    /\ \A id : Updating(stream, id) => Updating(stream', id)
    /\ \A r \in messages : (\E q \in messages' : q.id = r.id) \/ ErasedFrom(stream', 1, r.created)
    /\ \A q \in messages' :
         \/ q.id \notin posted /\ \A t : Arriving(stream', q.id, t)
         \/ \E r \in messages :
              /\ SameEnvelope(q, r) /\ (q = r \/ Updating(stream', q.id)) /\ (Live(q, clock') => Live(r, clock))
              /\ ErasedFrom(stream', 1, r.created) => ErasedFrom(stream, 1, r.created)
              /\ Arriving(stream, r.id, r.created) => Arriving(stream', r.id, r.created)

LEMMA QuietEvolves ==
    ASSUME ClientCore, Moves, messages' = messages, stream' = stream
    PROVE  Evolves
<1>1. clock \in Nat /\ clock' \in Nat /\ clock' >= clock /\ messages \subseteq Rows
  BY CoreTypes DEF Moves
<1>2. \A r \in messages : Live(r, clock') => Live(r, clock)
  BY <1>1 DEF Live, Rows
<1> QED BY <1>2 DEF Evolves, SameEnvelope

LEMMA AcceptEvolves ==
    ASSUME ClientCore, NEW e \in Envelopes, Accepted(e), conn
    PROVE  Evolves
<1>1. Grows /\ \A t : Arriving(stream', e.id, t)
  BY AcceptedTells DEF ClientCore
<1>2. /\ messages' = messages \cup {AcceptedRow(e, NextSeq, clock)} /\ clock' = clock /\ e.id \notin posted
      /\ AcceptedRow(e, NextSeq, clock).id = e.id
  BY DEF Accepted, Create, AcceptedRow
<1> QED BY <1>1, <1>2 DEF Evolves, Grows, SameEnvelope

LEMMA OpenEvolves ==
    ASSUME ClientCore, NEW a \in Addresses, NEW b \in Addresses, NEW ids \in SUBSET Ids,
           OpenAndTell(a, b, ids), conn
    PROVE  Evolves
<1> DEFINE fresh == NewlyOpened(Available(a, b, ids))
<1>1. /\ Open(a, b, ids) /\ Grows /\ \A r \in fresh : Updating(stream', r.id)
  BY OpeningTells DEF ClientCore
<1>2. /\ messages' = (messages \ fresh) \cup {OpenedRow(r, clock) : r \in fresh} /\ clock' = clock
      /\ fresh \subseteq messages /\ messages \subseteq Rows
  BY <1>1, CoreTypes DEF Open, NewlyOpened, Available
<1>3. ASSUME NEW q \in messages'
      PROVE  \E r \in messages :
               SameEnvelope(q, r) /\ (q = r \/ Updating(stream', q.id)) /\ (Live(q, clock') => Live(r, clock))
  <2>1. PICK r \in messages :
           /\ SameEnvelope(q, r)
           /\ (q = r /\ r \notin fresh) \/ (r \in fresh /\ Live(r, clock))
    BY <1>1, OpenOrigin DEF ClientCore, TableInv
  <2> HIDE DEF fresh
  <2> QED BY <1>1, <1>2, <2>1 DEF SameEnvelope
<1>4. ASSUME NEW r \in messages PROVE \E q \in messages' : q.id = r.id
  <2> HIDE DEF fresh
  <2>1. CASE r \in fresh
    BY <1>2, <2>1, OpenedRowId
  <2>2. CASE r \notin fresh
    BY <1>2, <2>2
  <2> QED BY <2>1, <2>2
<1> QED BY <1>1, <1>3, <1>4 DEF Evolves, Grows

LEMMA ClearEvolves ==
    ASSUME ClientCore, ClearElsewhere, conn
    PROVE  Evolves
<1>1. /\ stream \in Seq(Frames) /\ clock \in Nat /\ messages \subseteq Rows
      /\ \A r \in messages : r.created <= clock
  BY CoreTypes
<1> DEFINE told == <<Clearance(clock)>>
<1>2. stream' = stream \o told
  BY DEF ClearElsewhere, Tell
<1>3. told \in Seq(Frames)
  <2>1. Clearance(clock) \in Frames
    BY <1>1 DEF Clearance, Frames, Cuts
  <2> QED BY <2>1
<1>4. FinalUpdates(told) /\ \A t : t <= clock => ErasedFrom(told, 1, t)
  <2>1. DOMAIN told = 1..1 /\ Len(told) = 1 /\ told[1].type = "conversation-cleared" /\ told[1].at = clock
    BY DEF Clearance
  <2> HIDE DEF told
  <2> QED BY <2>1 DEF FinalUpdates, ErasedFrom
<1> HIDE DEF told
<1>5. messages' = {}
  <2>1. \A r \in messages : Between(r, partner, me)
    BY DEF ClientCore, CopiesSound, Between
  <2> QED BY <1>1, <2>1 DEF ClearElsewhere, Clear, Cleared
<1>6. \A r \in messages : ErasedFrom(stream', 1, r.created)
  BY <1>1, <1>2, <1>3, <1>4, TellKeeps
<1> QED BY <1>1, <1>2, <1>3, <1>4, <1>5, <1>6, TellKeeps DEF Evolves

\* What is held is still accounted for; what is new of it comes from the table.
LEMMA HeldStep ==
    ASSUME ClientCore, ClientCore', HeldAgree, Evolves, missed \subseteq missed',
           \A m \in Held' : m \in Held \/ (m.row \in messages' /\ (m.row.id \in missed' \/ m.until = m.row.expires))
    PROVE  HeldAgree'
<1>1. \A r, q \in messages' : r.id = q.id => r = q
  BY DEF ClientCore, TableInv, IInv, RowsAreSound, KeysAreUnique
<1> SUFFICES ASSUME NEW m \in Held'
             PROVE  /\ (\E r \in messages' : r.id = m.row.id) \/ ErasedFrom(stream', 1, m.row.created)
                    /\ \A r \in messages' : r.id = m.row.id => m.row = r \/ Updating(stream', r.id)
                    /\ m.row.id \in missed' \/ m.until = m.row.expires
  BY DEF HeldAgree
<1>2. CASE m.row \in messages' /\ (m.row.id \in missed' \/ m.until = m.row.expires)
  BY <1>1, <1>2
<1>3. CASE m \in Held
  <2>1. m.row \in Copies
    BY <1>3, CopyTypes DEF ClientCore, Copies
  <2>2. m.row.id \in posted /\ \A r \in messages : m.row.id = r.id => r.created = m.row.created
    BY <2>1 DEF ClientCore, CopiesSound, SameEnvelope
  <2>3. (\E r \in messages' : r.id = m.row.id) \/ ErasedFrom(stream', 1, m.row.created)
    BY <1>3, <2>2 DEF HeldAgree, Evolves
  <2>4. ASSUME NEW q \in messages', q.id = m.row.id PROVE m.row = q \/ Updating(stream', q.id)
    <3>1. PICK r \in messages : SameEnvelope(q, r) /\ (q = r \/ Updating(stream', q.id))
      BY <2>2, <2>4 DEF Evolves
    <3> QED BY <1>3, <2>4, <3>1 DEF HeldAgree, Evolves, SameEnvelope
  <2> QED BY <1>3, <2>3, <2>4 DEF HeldAgree
<1> QED BY <1>2, <1>3

\* What was expected is expected still, when what was sought is sought or found.
LEMMA FollowsStep ==
    ASSUME ClientCore, ClientCore', Follows, Evolves, missed \subseteq missed',
           \A m \in Held' : m \in Held \/ (m.row \in messages' /\ (m.row.id \in missed' \/ m.until = m.row.expires)),
           \A r \in messages, q \in messages' :
              SameEnvelope(q, r) /\ Live(r, clock) /\ Live(q, clock') /\ Sought(r) => q.id \in missed' \/ Sought(q)'
    PROVE  Follows'
<1>1. HeldAgree'
  BY HeldStep DEF Follows
<1>2. FinalUpdates(stream')
  BY DEF Follows, Evolves
<1>3. ASSUME NEW q \in messages', Live(q, clock')
      PROVE  q.id \in missed' \/ Arriving(stream', q.id, q.created) \/ (~ErasedFrom(stream', 1, q.created) /\ Sought(q)')
  <2>1. CASE \A t : Arriving(stream', q.id, t)
    BY <2>1
  <2>2. ASSUME NEW r \in messages, SameEnvelope(q, r), Live(q, clock') => Live(r, clock),
               ErasedFrom(stream', 1, r.created) => ErasedFrom(stream, 1, r.created),
               Arriving(stream, r.id, r.created) => Arriving(stream', r.id, r.created)
        PROVE  q.id \in missed' \/ Arriving(stream', q.id, q.created) \/ (~ErasedFrom(stream', 1, q.created) /\ Sought(q)')
    <3>1. q.id = r.id /\ q.created = r.created /\ Live(r, clock)
      BY <1>3, <2>2 DEF SameEnvelope
    <3>2. Expected(r)
      BY <3>1 DEF Follows
    <3> QED BY <1>3, <2>2, <3>1, <3>2 DEF Expected
  <2> QED BY <2>1, <2>2 DEF Evolves
<1>4. (\A r \in messages : Live(r, clock) => Expected(r))'
  BY <1>3 DEF Expected
<1> QED BY <1>1, <1>2, <1>4 DEF Follows

\* What happens on the server leaves the terminal where it is.
LEMMA ServerFollows ==
    ASSUME ClientCore, ClientCore', Follows, Evolves, UNCHANGED <<task, known, missed>>
    PROVE  Follows'
<1>1. Held' = Held
  BY DEF Held, InHistory, Known
<1>2. ASSUME NEW r \in messages, NEW q \in messages', SameEnvelope(q, r), Sought(r) PROVE Sought(q)'
  BY <1>1, <1>2 DEF Sought, Unread, SameEnvelope
<1> QED BY <1>1, <1>2, FollowsStep

\* A new connection reads the whole history.
LEMMA ConnectFollows ==
    ASSUME ClientCore, Connect
    PROVE  Follows'
<1>1. /\ task' = [at |-> "page", before |-> MaxAccepted + 1, read |-> {}] /\ stream' = <<>>
      /\ messages' = messages /\ clock' = clock
  BY DEF Connect, ReadPage, dbVars
<1>2. HeldAgree' /\ FinalUpdates(stream')
  <2>1. Held' = {}
    BY <1>1 DEF Held, InHistory
  <2> QED BY <1>1, <2>1, NothingTold DEF HeldAgree
<1>3. ASSUME NEW r \in messages PROVE ~ErasedFrom(stream', 1, r.created) /\ Sought(r)'
  <2>1. r.seq < MaxAccepted + 1
    <3>1. r.seq \in Nat /\ r.seq <= highWater /\ highWater \in Nat /\ highWater <= MaxAccepted /\ MaxAccepted \in Nat
      BY CoreTypes, DatabaseAssumption DEF Rows
    <3> QED BY <3>1
  <2> QED BY <1>1, <2>1, NothingTold DEF Sought, Unread
<1>4. (\A r \in messages : Live(r, clock) => Expected(r))'
  BY <1>1, <1>3 DEF Expected
<1> QED BY <1>2, <1>4 DEF Follows

\* A live message's entry is never dropped for its deadline, unless it was missed.
LEMMA RetainedWhileLive ==
    ASSUME ClientCore, HeldAgree, NEW m \in Held, NEW r \in messages, r.id = m.row.id, Live(r, clock)
    PROVE  /\ r.id \in missed \/ IsRetained(m)
           /\ r.id \in missed \/ IsAvailable(m) \/ ~IsFinal(m.row)
<1>1. /\ m \in Entries /\ m.row \in Copies /\ r \in Rows /\ clock \in Nat
  BY CopyTypes, CoreTypes DEF ClientCore, Copies
<1>2. /\ SameEnvelope(m.row, r) /\ (IsFinal(m.row) => m.row = r) /\ ValidLifecycle(m.row) /\ ValidLifecycle(r)
      /\ r.id \in missed \/ m.until = m.row.expires
  BY <1>1, CoreTypes DEF ClientCore, CopiesSound, HeldAgree
<1>3. m.until \in Int /\ m.row \in Rows
  BY <1>1 DEF Entries
<1>4. CASE IsFinal(m.row)
  BY <1>1, <1>2, <1>3, <1>4 DEF Live, IsAvailable, IsRetained, Rows
<1>5. CASE ~IsFinal(m.row)
  <2>1. m.row.expires = r.created + Retention /\ m.row.ttl = r.ttl
    BY <1>2, <1>5 DEF ValidLifecycle, IsFinal, SameEnvelope
  <2>2. r.expires = r.created + Retention \/ (r.opened < r.created + Retention /\ r.expires = r.opened + r.ttl)
    BY <1>2 DEF ValidLifecycle
  <2>3. /\ r.created \in Nat /\ r.ttl \in Nat /\ r.opened \in Int /\ r.expires \in Nat /\ Retention \in Nat
    BY <1>1, RetentionAssumption DEF Rows, Unopened
  <2>4. ASSUME m.until = m.row.expires PROVE IsRetained(m)
    BY <1>1, <1>5, <2>1, <2>2, <2>3, <2>4 DEF Live, IsAvailable, IsRetained
  <2> QED BY <1>2, <1>5, <2>4
<1> QED BY <1>4, <1>5

\* A live message of the conversation still unread is on the page or before it.
LEMMA PageFollows ==
    ASSUME ClientCore, ClientCore', Follows, FetchPage
    PROVE  Follows'
<1>0. /\ Variables /\ clock \in Nat /\ messages \subseteq Rows /\ IsMap(known) /\ own \in [DOMAIN own -> Entries]
      /\ task.at = "page" /\ task \in [at : {"page"}, before : Nat, read : SUBSET Entries]
      /\ UNCHANGED <<stream, messages, clock, posted, dbVars>>
      /\ PageSize \in Nat \ {0}
  BY CoreTypes, TerminalAssumption DEF ClientCore, Variables, FetchPage, link, dbVars, Tasks, Waiting, Reading
<1>1. Held = task.read
  BY <1>0 DEF Held, InHistory
<1>2. Moves /\ Evolves
  <2>1. Moves
    BY <1>0, QuietMoves DEF ClientCore
  <2> QED BY <1>0, <2>1, QuietEvolves
<1> DEFINE rows == HistoryRows(messages, me, partner, task.before, PageSize, clock)
<1>3. /\ rows # {} => MinSeqOf(rows) \in Nat
      /\ \A r \in LiveBetween(messages, me, partner, clock) :
            /\ r.seq < task.before
            /\ Cardinality(rows) # PageSize \/ (rows # {} /\ r.seq >= MinSeqOf(rows))
            => r \in rows
  BY <1>0, PageOfHistory DEF ClientCore
<1>4. \A r \in messages : Live(r, clock) => r \in LiveBetween(messages, me, partner, clock)
  BY DEF ClientCore, CopiesSound, LiveBetween
<1>5. /\ rows # {} => /\ task' = [at |-> "states", rows |-> rows, since |-> clock, read |-> task.read]
                      /\ missed' = missed
      /\ rows = {} => /\ Deliver(task.read, Without(known, GoneFrom(task.read)))
                      /\ task' = Reading /\ missed' = missed \cup ExpiredUnopened(task.read)
  BY DEF FetchPage
<1> HIDE DEF rows
<1>6. ASSUME NEW r \in messages, Live(r, clock), Sought(r)
      PROVE  (\E m \in Held : m.row.id = r.id) \/ r.seq < task.before
  BY <1>0, <1>6 DEF Sought, Unread
<1>7. CASE rows # {}
  <2>1. Held' = Held
    BY <1>1, <1>5, <1>7 DEF Held, InHistory
  <2>2. ASSUME NEW r \in messages, NEW q \in messages', SameEnvelope(q, r), Live(r, clock), Sought(r) PROVE Sought(q)'
    <3>1. CASE \E m \in Held : m.row.id = r.id
      BY <2>1, <2>2, <3>1 DEF Sought, SameEnvelope
    <3>2. CASE r.seq < task.before
      <4>1. r.seq \in Nat /\ MinSeqOf(rows) \in Nat
        BY <1>0, <1>3, <1>7 DEF Rows
      <4>2. r \in rows \/ r.seq < MinSeqOf(rows)
        BY <1>3, <1>4, <1>7, <2>2, <3>2, <4>1
      <4>3. q.id = r.id /\ q.seq = r.seq
        BY <2>2 DEF SameEnvelope
      <4>4. Unread(q)'
        BY <1>5, <1>7, <4>2, <4>3 DEF Unread
      <4> QED BY <4>4 DEF Sought
    <3> QED BY <1>6, <2>2, <3>1, <3>2
  <2> QED BY <1>2, <1>5, <1>7, <2>1, <2>2, FollowsStep
<1>8. CASE rows = {}
  <2> DEFINE before == Without(known, GoneFrom(task.read))
  <2>1. Deliver(task.read, before) /\ task' = Reading /\ missed' = missed \cup ExpiredUnopened(task.read)
    BY <1>5, <1>8
  <2>2. IsMap(before) /\ Within(before, known) /\ DOMAIN before = DOMAIN known \ GoneFrom(task.read)
    BY <1>0, LessIsMap, LessOf DEF IsMap
  <2>3. \A id \in DOMAIN before : \E m \in task.read : IsAvailable(m) /\ m.row.id = id
    BY <2>2 DEF GoneFrom
  <2> HIDE DEF before
  <2>4. /\ \A m \in task.read : IsAvailable(m) => m.row.id \in DOMAIN known'
        /\ \A id \in DOMAIN known' : known'[id] \in task.read /\ known'[id].row.id = id
    <3>1. /\ IsMap(known')
          /\ \A m \in task.read : IsAvailable(m) => m.row.id \in DOMAIN known'
          /\ \A id \in DOMAIN known' :
                \/ known'[id] \in task.read /\ IsAvailable(known'[id])
                \/ /\ id \in DOMAIN before /\ known'[id] = before[id]
                   /\ \A m \in task.read : IsAvailable(m) => m.row.id # id
      BY <1>0, <2>1, <2>2, DeliverAdds
    <3> QED BY <2>3, <3>1 DEF IsMap
  <2>5. Held' = Known'
    BY <2>1 DEF Held, InHistory, Reading, Known
  <2>6. \A m \in Held' : m \in Held
    BY <1>1, <2>4, <2>5 DEF Known
  <2>7. ASSUME NEW r \in messages, NEW q \in messages', SameEnvelope(q, r), Live(r, clock), Sought(r)
        PROVE  q.id \in missed' \/ Sought(q)'
    <3>1. r.seq \in Nat /\ Cardinality(rows) # PageSize /\ q.id = r.id
      <4>1. Cardinality(rows) = 0
        BY <1>8, FS_EmptySet
      <4> QED BY <1>0, <2>7, <4>1 DEF Rows, SameEnvelope
    <3>2. PICK m \in Held : m.row.id = r.id
      BY <1>3, <1>4, <1>6, <1>8, <2>7, <3>1
    <3>3. r.id \in missed \/ IsAvailable(m) \/ ~IsFinal(m.row)
      BY <2>7, <3>2, RetainedWhileLive DEF Follows
    <3>4. CASE IsAvailable(m)
      <4>1. known'[r.id] \in Held' /\ known'[r.id].row.id = r.id
        BY <1>1, <2>4, <2>5, <3>2, <3>4 DEF Known
      <4> QED BY <3>1, <4>1 DEF Sought
    <3>5. CASE ~IsAvailable(m) /\ ~IsFinal(m.row)
      BY <1>1, <2>1, <3>1, <3>2, <3>5 DEF ExpiredUnopened
    <3> QED BY <2>1, <3>1, <3>3, <3>4, <3>5
  <2> QED BY <1>2, <2>1, <2>6, <2>7, FollowsStep
<1> QED BY <1>7, <1>8

LEMMA LookUpFollows ==
    ASSUME ClientCore, ClientCore', Follows, LookUpStates
    PROVE  Follows'
<1>0. /\ Variables /\ clock \in Nat /\ messages \subseteq Rows
      /\ task.at = "states"
      /\ task \in [at : {"states", "opens"}, rows : SUBSET Rows, since : Nat, read : SUBSET Entries]
      /\ task.since <= clock
      /\ UNCHANGED <<stream, messages, clock, posted, dbVars>>
  BY CoreTypes DEF ClientCore, Variables, Control, LookUpStates, link, dbVars, Tasks, Waiting, Reading
<1> DEFINE live == {r \in LiveBetween(messages, me, partner, clock) : \E q \in Own(task.rows) : r.id = q.id}
           more == {Confirmed(r, task.since) : r \in live}
<1>1. /\ task' = [at |-> "opens", rows |-> task.rows, since |-> clock, read |-> task.read \cup more]
      /\ missed' = IF task.since = clock THEN missed ELSE missed \cup {r.id : r \in Own(task.rows)}
  BY DEF LookUpStates, Slow
<1>2. Moves /\ Evolves
  <2>1. Moves
    BY <1>0, QuietMoves DEF ClientCore
  <2> QED BY <1>0, <2>1, QuietEvolves
<1>3. \A r \in live : r \in messages /\ \E q \in Own(task.rows) : r.id = q.id
  BY DEF LiveBetween
<1>4. \A r \in messages : Live(r, clock) /\ (\E q \in Own(task.rows) : r.id = q.id) => r \in live
  BY DEF ClientCore, CopiesSound, LiveBetween
<1> HIDE DEF live
<1>5. \A m \in more : m.row \in messages /\ (m.row.id \in missed' \/ m.until = m.row.expires)
  <2> SUFFICES ASSUME NEW r \in live PROVE LET m == Confirmed(r, task.since)
                                           IN  m.row \in messages /\ (m.row.id \in missed' \/ m.until = m.row.expires)
    OBVIOUS
  <2>1. /\ Confirmed(r, task.since).row = r
        /\ task.since = clock => Confirmed(r, task.since).until = r.expires
    BY <1>0, <1>3, ConfirmedIs
  <2> QED BY <1>1, <1>3, <2>1
<1>6. Held' = Held \cup more
  BY <1>0, <1>1 DEF Held, InHistory
<1>7. \A r \in live : \E m \in more : m.row.id = r.id
  <2> SUFFICES ASSUME NEW r \in live PROVE \E m \in more : m.row.id = r.id
    OBVIOUS
  <2>1. Confirmed(r, task.since).row = r
    BY <1>0, <1>3, ConfirmedIs
  <2> QED BY <2>1
<1> HIDE DEF more
<1>8. ASSUME NEW r \in messages, NEW q \in messages', SameEnvelope(q, r), Live(r, clock), Sought(r) PROVE Sought(q)'
  <2>1. q.id = r.id /\ q.seq = r.seq
    BY <1>8 DEF SameEnvelope
  <2>2. CASE \E m \in Held : m.row.id = r.id
    BY <1>6, <2>1, <2>2 DEF Sought
  <2>3. CASE r.seq < MinSeqOf(task.rows)
    BY <1>1, <2>1, <2>3 DEF Sought, Unread
  <2>4. ASSUME NEW p \in task.rows, p.id = r.id PROVE Sought(q)'
    <3>1. CASE p.recipient = me
      BY <1>1, <2>1, <2>4, <3>1 DEF Sought, Unread
    <3>2. CASE p.recipient # me
      <4>1. p \in Own(task.rows)
        <5>1. p \in Copies
          BY <1>0, <2>4 DEF Copies, InTask
        <5> QED BY <2>4, <3>2, <5>1 DEF ClientCore, CopiesSound, Between, Own
      <4>2. r \in live
        BY <1>4, <1>8, <2>4, <4>1
      <4> QED BY <1>6, <1>7, <2>1, <4>2 DEF Sought
    <3> QED BY <3>1, <3>2
  <2> QED BY <1>0, <1>8, <2>2, <2>3, <2>4 DEF Sought, Unread
<1>9. missed \subseteq missed' /\ messages' = messages
  BY <1>0, <1>1
<1>10. \A m \in Held' : m \in Held \/ (m.row \in messages' /\ (m.row.id \in missed' \/ m.until = m.row.expires))
  BY <1>5, <1>6, <1>9
<1> QED BY <1>2, <1>8, <1>9, <1>10, FollowsStep

\* What an opening confirms has every live message it asked for.
LEMMA OpenedByHas ==
    ASSUME ClientCore, NEW ids \in SUBSET Ids,
           NEW r \in messages, r.id \in ids, r.recipient = me, Live(r, clock)
    PROVE  \E q \in OpenedBy(ids) : q.id = r.id
<1> DEFINE found == Available(me, partner, ids)
           fresh == NewlyOpened(found)
<1>1. r \in found /\ r \in Rows
  <2>1. Between(r, me, partner) /\ me # partner
    BY CoreTypes DEF ClientCore, CopiesSound
  <2> QED BY <2>1, CoreTypes DEF Available, Between
<1>2. CASE r \in fresh
  <2> HIDE DEF fresh, found
  <2>1. OpenedRow(r, clock) \in {OpenedRow(q, clock) : q \in fresh} /\ OpenedRow(r, clock).id = r.id
    BY <1>1, <1>2, OpenedRowId
  <2> QED BY <2>1 DEF OpenedBy, found, fresh
<1>3. CASE r \notin fresh
  BY <1>1, <1>3 DEF OpenedBy
<1> QED BY <1>2, <1>3

LEMMA OpenPageFollows ==
    ASSUME ClientCore, ClientCore', Follows, OpenPage, conn
    PROVE  Follows'
<1>0. /\ Variables /\ clock \in Nat /\ messages \subseteq Rows /\ me \in Addresses /\ partner \in Addresses
      /\ task.at = "opens"
      /\ task \in [at : {"states", "opens"}, rows : SUBSET Rows, since : Nat, read : SUBSET Entries]
      /\ task.since <= clock
  BY CoreTypes DEF ClientCore, Variables, Control, OpenPage, Tasks, Waiting, Reading
<1> DEFINE ids  == {r.id : r \in Incoming(task.rows)}
           more == {Confirmed(r, task.since) : r \in OpenedBy(ids)}
<1>1. /\ OpenAndTell(me, partner, ids)
      /\ task' = [at |-> "page", before |-> MinSeqOf(task.rows), read |-> task.read \cup more]
      /\ missed' = IF task.since = clock THEN missed ELSE missed \cup ids
  BY DEF OpenPage, ReadPage, Slow
<1>2. ids \in SUBSET Ids
  BY <1>0, TaskIds DEF IdsOf
<1>3. \A p \in task.rows : p.recipient = me => p.id \in ids
  BY DEF Incoming
<1> HIDE DEF ids
<1>4. Open(me, partner, ids) /\ Evolves
  BY <1>0, <1>1, <1>2, OpenEvolves DEF OpenAndTell
<1>5. \A r \in OpenedBy(ids) : r \in messages' /\ r.id \in ids /\ r \in Rows
  BY <1>2, <1>4, OpenedByIs DEF ClientCore
<1>6. \A r \in OpenedBy(ids) : LET m == Confirmed(r, task.since)
                               IN  m.row = r /\ (task.since = clock => m.until = r.expires)
  BY <1>0, <1>5, ConfirmedIs
<1>7. \A m \in more : m.row \in messages' /\ (m.row.id \in missed' \/ m.until = m.row.expires)
  BY <1>1, <1>5, <1>6
<1>8. \A r \in OpenedBy(ids) : \E m \in more : m.row.id = r.id
  BY <1>6
<1> HIDE DEF more
<1>9. Held' = Held \cup more
  BY <1>0, <1>1 DEF Held, InHistory
<1>10. ASSUME NEW r \in messages, NEW q \in messages', SameEnvelope(q, r), Live(r, clock), Sought(r) PROVE Sought(q)'
  <2>1. q.id = r.id /\ q.seq = r.seq
    BY <1>10 DEF SameEnvelope
  <2>2. CASE \E m \in Held : m.row.id = r.id
    BY <1>9, <2>1, <2>2 DEF Sought
  <2>3. CASE r.seq < MinSeqOf(task.rows)
    BY <1>1, <2>1, <2>3 DEF Sought, Unread
  <2>4. ASSUME NEW p \in task.rows, p.id = r.id, p.recipient = me PROVE Sought(q)'
    <3>1. r.recipient = me
      <4>1. p \in Copies
        BY <1>0, <2>4 DEF Copies, InTask
      <4> QED BY <2>4, <4>1 DEF ClientCore, CopiesSound, SameEnvelope
    <3>2. PICK o \in OpenedBy(ids) : o.id = r.id
      BY <1>2, <1>3, <1>10, <2>4, <3>1, OpenedByHas
    <3> QED BY <1>8, <1>9, <2>1, <3>2 DEF Sought
  <2> QED BY <1>0, <1>10, <2>2, <2>3, <2>4 DEF Sought, Unread
<1>11. missed \subseteq missed'
  BY <1>1
<1>12. \A m \in Held' : m \in Held \/ (m.row \in messages' /\ (m.row.id \in missed' \/ m.until = m.row.expires))
  BY <1>7, <1>9
<1> QED BY <1>4, <1>10, <1>11, <1>12, FollowsStep

\* A confirmation adds to the map the row it asked for, if that is still live.
LEMMA ConfirmFollows ==
    ASSUME ClientCore, ClientCore', Follows, Evolves, task.at = "confirm", task' = Reading,
           NEW entries \in SUBSET Entries, Deliver(entries, known),
           missed' = IF task.since = clock THEN missed ELSE missed \cup {task.row.id}, clock' = clock,
           \A m \in entries : m.row \in messages' /\ m.row.id = task.row.id /\ (task.since = clock => m.until = m.row.expires),
           \A r \in messages : Live(r, clock) /\ r.id = task.row.id => \E m \in entries : m.row.id = r.id
    PROVE  Follows'
<1>1. IsMap(known) /\ own \in [DOMAIN own -> Entries]
  BY CoreTypes
<1>2. /\ IsMap(known')
      /\ DOMAIN known \subseteq DOMAIN known'
      /\ \A m \in entries : IsAvailable(m) => m.row.id \in DOMAIN known'
      /\ \A id \in DOMAIN known' :
            \/ known'[id] \in entries /\ IsAvailable(known'[id])
            \/ /\ id \in DOMAIN known /\ known'[id] = known[id]
               /\ \A m \in entries : IsAvailable(m) => m.row.id # id
  BY <1>1, DeliverAdds
<1>3. Held = Known /\ Held' = Known'
  BY DEF Held, InHistory, Reading, Known
<1>4. \A m \in Held' : m \in Held \/ (m.row \in messages' /\ (m.row.id \in missed' \/ m.until = m.row.expires))
  BY <1>2, <1>3 DEF Known
<1>5. \A r, q \in messages' : r.id = q.id => r = q
  BY DEF ClientCore, TableInv, IInv, RowsAreSound, KeysAreUnique
<1>6. ASSUME NEW id \in DOMAIN known', NEW q, q.id = id PROVE Sought(q)'
  <2>1. known'[id] \in Held' /\ known'[id].row.id = id
    BY <1>2, <1>3, <1>6 DEF Known, IsMap
  <2> QED BY <1>6, <2>1 DEF Sought
<1>7. ASSUME NEW r \in messages, NEW q \in messages', SameEnvelope(q, r), Live(r, clock), Live(q, clock'), Sought(r)
      PROVE  q.id \in missed' \/ Sought(q)'
  <2>1. q.id = r.id
    BY <1>7 DEF SameEnvelope
  <2>2. CASE \E m \in Held : m.row.id = r.id
    <3>1. r.id \in DOMAIN known
      BY <1>1, <1>3, <2>2 DEF Known, IsMap
    <3> QED BY <1>2, <1>6, <2>1, <3>1
  <2>3. CASE task.row.id = r.id
    <3>1. CASE task.since # clock
      BY <2>1, <2>3, <3>1
    <3>2. CASE task.since = clock
      <4>1. PICK m \in entries : m.row.id = r.id
        BY <1>7, <2>3
      <4>2. m.row = q /\ m.until = q.expires
        BY <1>5, <2>1, <3>2, <4>1
      <4>3. IsAvailable(m)
        <5>1. q \in Rows /\ clock \in Nat
          BY CoreTypes DEF ClientCore, TableInv, IInv, TypeOK
        <5> QED BY <1>7, <4>2, <5>1 DEF IsAvailable, Live, Rows
      <4> QED BY <1>2, <1>6, <2>1, <4>1, <4>3
    <3> QED BY <3>1, <3>2
  <2> QED BY <1>7, <2>2, <2>3 DEF Sought, Unread
<1> QED BY <1>4, <1>7, FollowsStep

LEMMA AnswerFollows ==
    ASSUME ClientCore, ClientCore', Moves, Follows, ConfirmOwn \/ ConfirmIncoming \/ RejectMessage, conn
    PROVE  Follows'
<1>0. /\ Variables /\ clock \in Nat /\ messages \subseteq Rows /\ me \in Addresses /\ partner \in Addresses
      /\ task.at = "confirm" /\ task \in [at : {"confirm"}, row : Rows, since : Nat] /\ task.since <= clock
      /\ {task.row.id} \in SUBSET Ids /\ task.row \in Copies
  <2>1. task.at = "confirm"
    BY DEF ConfirmOwn, ConfirmIncoming, RejectMessage
  <2>2. task.row \in Copies
    BY <2>1 DEF Copies, InTask
  <2> QED BY <2>1, <2>2, CoreTypes, TaskIds DEF ClientCore, Variables, Control, Tasks, Waiting, Reading
<1>1. CASE ConfirmOwn
  <2> DEFINE live == {q \in LiveBetween(messages, me, partner, clock) : q.id = task.row.id}
             entries == {Confirmed(r, task.since) : r \in live}
  <2>1. /\ Deliver(entries, known) /\ task' = Reading
        /\ missed' = IF task.since = clock THEN missed ELSE missed \cup {task.row.id}
        /\ stream' = stream /\ messages' = messages /\ clock' = clock
    BY <1>1 DEF ConfirmOwn, Slow, link, dbVars
  <2>2. /\ \A r \in live : r \in messages /\ r \in Rows /\ r.id = task.row.id
        /\ \A r \in messages : Live(r, clock) /\ r.id = task.row.id => r \in live
    BY <1>0 DEF LiveBetween, ClientCore, CopiesSound
  <2> HIDE DEF live
  <2>3. \A r \in live : LET m == Confirmed(r, task.since)
                        IN  m \in Entries /\ m.row = r /\ (task.since = clock => m.until = r.expires)
    BY <1>0, <2>2, ConfirmedIs
  <2>4. entries \in SUBSET Entries
    BY <2>3
  <2>5. /\ \A m \in entries : m.row \in messages' /\ m.row.id = task.row.id /\ (task.since = clock => m.until = m.row.expires)
        /\ \A r \in messages : Live(r, clock) /\ r.id = task.row.id => \E m \in entries : m.row.id = r.id
    BY <2>1, <2>2, <2>3
  <2>6. Evolves
    BY <2>1, QuietEvolves
  <2> HIDE DEF entries
  <2> QED BY <1>0, <2>1, <2>4, <2>5, <2>6, ConfirmFollows
<1>2. CASE ConfirmIncoming
  <2> DEFINE ids == {task.row.id}
             entries == {Confirmed(r, task.since) : r \in OpenedBy(ids)}
  <2>1. /\ OpenAndTell(me, partner, ids) /\ Deliver(entries, known) /\ task' = Reading
        /\ missed' = IF task.since = clock THEN missed ELSE missed \cup ids
        /\ task.row.recipient = me
    BY <1>2 DEF ConfirmIncoming, Slow
  <2>2. ids \in SUBSET Ids /\ \A id : id \in ids <=> id = task.row.id
    BY <1>0
  <2> HIDE DEF ids
  <2>3. Open(me, partner, ids) /\ Evolves /\ clock' = clock
    <3>1. Open(me, partner, ids)
      BY <2>1 DEF OpenAndTell
    <3> QED BY <1>0, <2>1, <2>2, <3>1, OpenEvolves DEF Open
  <2>4. \A r \in OpenedBy(ids) : r \in messages' /\ r.id = task.row.id /\ r \in Rows
    BY <1>0, <2>2, <2>3, OpenedByIs DEF ClientCore
  <2>5. \A r \in OpenedBy(ids) : LET m == Confirmed(r, task.since)
                                 IN  m \in Entries /\ m.row = r /\ (task.since = clock => m.until = r.expires)
    BY <1>0, <2>4, ConfirmedIs
  <2>6. \A r \in messages : Live(r, clock) /\ r.id = task.row.id => \E q \in OpenedBy(ids) : q.id = r.id
    <3> SUFFICES ASSUME NEW r \in messages, Live(r, clock), r.id = task.row.id PROVE \E q \in OpenedBy(ids) : q.id = r.id
      OBVIOUS
    <3>1. r.recipient = me
      BY <1>0, <2>1 DEF ClientCore, CopiesSound, SameEnvelope
    <3> QED BY <2>2, <3>1, OpenedByHas
  <2>7. entries \in SUBSET Entries
    BY <2>5
  <2>8. /\ \A m \in entries : m.row \in messages' /\ m.row.id = task.row.id /\ (task.since = clock => m.until = m.row.expires)
        /\ \A r \in messages : Live(r, clock) /\ r.id = task.row.id => \E m \in entries : m.row.id = r.id
    <3>1. \A m \in entries : m.row \in messages' /\ m.row.id = task.row.id /\ (task.since = clock => m.until = m.row.expires)
      BY <2>4, <2>5
    <3>2. \A r \in OpenedBy(ids) : \E m \in entries : m.row.id = r.id
      BY <2>5
    <3> HIDE DEF entries
    <3> QED BY <2>6, <3>1, <3>2
  <2>9. missed' = IF task.since = clock THEN missed ELSE missed \cup {task.row.id}
    BY <2>1 DEF ids
  <2> HIDE DEF entries
  <2> QED BY <1>0, <2>1, <2>3, <2>7, <2>8, <2>9, ConfirmFollows
<1>3. CASE RejectMessage
  <2>1. /\ missed' = missed \cup {task.row.id} /\ task' = Reading /\ known' = known
    BY <1>3 DEF RejectMessage
  <2>2. Evolves
    <3>1. CASE UNCHANGED <<dbVars, stream>>
      BY <3>1, QuietEvolves DEF dbVars
    <3>2. CASE OpenAndTell(me, partner, {task.row.id})
      BY <1>0, <3>2, OpenEvolves
    <3> QED BY <1>3, <3>1, <3>2 DEF RejectMessage
  <2>3. Held' = Held
    BY <1>0, <2>1 DEF Held, InHistory, Known, Reading
  <2>4. ASSUME NEW r \in messages, NEW q \in messages', SameEnvelope(q, r), Sought(r)
        PROVE  q.id \in missed' \/ Sought(q)'
    BY <1>0, <2>1, <2>3, <2>4 DEF Sought, Unread, SameEnvelope
  <2> QED BY <2>1, <2>2, <2>3, <2>4, FollowsStep
<1> QED BY <1>1, <1>2, <1>3

\* The next frame settles what it was on its way for.
LEMMA FrameFollows ==
    ASSUME ClientCore, ClientCore', Follows, ReadFrame
    PROVE  Follows'
<1> DEFINE event == Head(stream)
           rest  == Tail(stream)
           map   == Retained(known)
           Taken(t) == event.type = "conversation-cleared" /\ t <= event.at
<1>0. /\ stream \in Seq(Frames) /\ stream # <<>> /\ stream' = rest /\ task = Reading
      /\ messages' = messages /\ clock' = clock /\ missed' = missed
      /\ IsMap(known) /\ known \in [DOMAIN known -> Entries] /\ messages \subseteq Rows
  BY CoreTypes DEF ReadFrame, dbVars, IsMap
<1>1. /\ rest \in Seq(Frames) /\ event \in Frames /\ event.type \in {"message", "expiry-update", "conversation-cleared"}
      /\ FinalUpdates(rest) /\ (event.type = "expiry-update" => IsFinal(event.row))
      /\ \A t : ErasedFrom(stream, 1, t) <=> Taken(t) \/ ErasedFrom(rest, 1, t)
      /\ \A id : Updating(stream, id) =>
           \/ event.type = "expiry-update" /\ event.row.id = id
           \/ Updating(rest, id)
      /\ \A id, t : Arriving(stream, id, t) =>
           \/ event.type = "message" /\ event.row.id = id /\ ~ErasedFrom(stream, 1, t)
           \/ Arriving(rest, id, t)
  <2>1. event \in Frames => event.type \in {"message", "expiry-update", "conversation-cleared"}
    BY DEF Frames, Told, Cuts
  <2> QED BY <1>0, <2>1, ReadingKeeps DEF Follows
<1>2. /\ IsMap(map) /\ Within(map, known)
      /\ \A id \in DOMAIN known : IsRetained(known[id]) => id \in DOMAIN map
  BY <1>0, LessIsMap, LessOf
<1>3. event.type \in {"message", "expiry-update"} => event.row \in Rows /\ event.row \in Copies
  <2>1. event = stream[1] /\ 1 \in DOMAIN stream
    BY <1>0
  <2>2. event.type \in {"message", "expiry-update"} => event.row \in RowsIn(stream)
    BY <2>1 DEF RowsIn
  <2>3. event.type \in {"message", "expiry-update"} => event.row \in Rows
    BY <1>1 DEF Frames, Told, Cuts
  <2> QED BY <2>2, <2>3 DEF Copies
<1>4. /\ event.type = "message" => known' = map /\ task' = [at |-> "confirm", row |-> event.row, since |-> clock]
      /\ event.type = "expiry-update" => ApplyUpdate(map, event.row) /\ task' = task
      /\ event.type = "conversation-cleared" => task' = task /\ known' = Without(map, {id \in DOMAIN map : map[id].row.created <= event.at})
  <2> HIDE DEF map
  <2> QED BY DEF ReadFrame, map
<1>5. Held = Known /\ Held' = Known'
  <2>1. task'.at \in {"reading", "confirm"}
    BY <1>0, <1>1, <1>4 DEF Reading
  <2> QED BY <1>0, <2>1 DEF Held, InHistory, Known, Reading
<1> HIDE DEF event, rest, map
<1> DEFINE Renewed(m, k) == /\ event.type = "expiry-update" /\ m.row = event.row /\ k.row.id = event.row.id
                           /\ m.until = k.until + event.row.expires - k.row.expires
           Same(m, k) == m = k /\ (event.type = "expiry-update" /\ event.row.id = k.row.id => IsFinal(k.row))
           From(m) == \E k \in Held : ~Taken(k.row.created) /\ (Same(m, k) \/ Renewed(m, k))
           Still(k) == \E m \in Held' : m.row.id = k.row.id
<1>6. /\ \A m \in Held' : From(m)
      /\ \A k \in Held : IsRetained(k) /\ ~Taken(k.row.created) => Still(k)
  <2>0. /\ \A id \in DOMAIN map : map[id] \in Held /\ map[id].row.id = id
        /\ \A k \in Held : IsRetained(k) => k.row.id \in DOMAIN map /\ map[k.row.id] = k
    BY <1>0, <1>2, <1>5 DEF Known, Within, IsMap
  <2>1. CASE event.type = "message"
    <3>1. \A m \in Held' : \E id \in DOMAIN map : m = map[id]
      BY <1>4, <1>5, <2>1 DEF Known
    <3>2. \A k \in Held : IsRetained(k) => k \in Held'
      BY <1>4, <1>5, <2>0, <2>1 DEF Known
    <3> QED BY <2>0, <2>1, <3>1, <3>2
  <2>2. CASE event.type = "conversation-cleared"
    <3> DEFINE gone == {id \in DOMAIN map : map[id].row.created <= event.at}
    <3>1. known' = Without(map, gone)
      BY <1>4, <2>2
    <3>2. Within(known', map) /\ DOMAIN known' = DOMAIN map \ gone
      BY <1>2, <3>1, LessOf DEF IsMap
    <3>3. \A m \in Held' : \E id \in DOMAIN map \ gone : m = map[id]
      BY <1>5, <3>2 DEF Known, Within
    <3>4. \A id \in DOMAIN map \ gone : map[id] \in Held'
      BY <1>5, <3>2 DEF Known, Within
    <3>5. \A id \in DOMAIN map : id \in gone <=> Taken(map[id].row.created)
      BY <2>2
    <3> HIDE DEF gone
    <3>6. ASSUME NEW m \in Held' PROVE From(m)
      <4>1. PICK id \in DOMAIN map \ gone : m = map[id]
        BY <3>3
      <4>2. map[id] \in Held /\ ~Taken(map[id].row.created) /\ Same(m, map[id])
        BY <2>0, <2>2, <3>5, <4>1
      <4> QED BY <4>2
    <3>7. ASSUME NEW k \in Held, IsRetained(k), ~Taken(k.row.created) PROVE Still(k)
      <4>1. k.row.id \in DOMAIN map \ gone /\ map[k.row.id] = k
        BY <2>0, <3>5, <3>7
      <4> QED BY <3>4, <4>1
    <3> QED BY <3>6, <3>7
  <2>3. CASE event.type = "expiry-update"
    <3> DEFINE u == event.row
               k0 == map[u.id]
               entry == Entry(u, k0.until + u.expires - k0.row.expires)
    <3>1. CASE u.id \in DOMAIN map /\ ~IsFinal(k0.row)
      <4>1. known' = [map EXCEPT ![u.id] = entry]
        BY <1>4, <2>3, <3>1 DEF ApplyUpdate
      <4>2. k0 \in Held /\ k0.row.id = u.id
        BY <2>0, <3>1
      <4>3. entry.row = u /\ entry.until = k0.until + u.expires - k0.row.expires
        BY DEF Entry
      <4>4. Renewed(entry, k0)
        BY <2>3, <4>2, <4>3
      <4> HIDE DEF u, k0, entry
      <4>5. DOMAIN known' = DOMAIN map /\ known'[u.id] = entry /\ \A id \in DOMAIN map : id # u.id => known'[id] = map[id]
        BY <3>1, <4>1
      <4>6. ASSUME NEW m \in Held' PROVE From(m)
        <5>1. PICK id \in DOMAIN map : m = known'[id]
          BY <1>5, <4>5 DEF Known
        <5>2. CASE id = u.id
          BY <2>3, <4>2, <4>4, <4>5, <5>1, <5>2
        <5>3. CASE id # u.id
          <6>1. m = map[id] /\ map[id] \in Held /\ map[id].row.id = id /\ u = event.row
            BY <2>0, <4>5, <5>1, <5>3 DEF u
          <6> QED BY <2>3, <5>3, <6>1
        <5> QED BY <5>2, <5>3
      <4>7. ASSUME NEW k \in Held, IsRetained(k) PROVE Still(k)
        <5>1. k.row.id \in DOMAIN map /\ map[k.row.id] = k
          BY <2>0, <4>7
        <5>2. known'[k.row.id] \in Held'
          BY <1>5, <4>5, <5>1 DEF Known
        <5>3. known'[k.row.id].row.id = k.row.id
          <6>1. CASE k.row.id = u.id
            BY <4>3, <4>5, <6>1
          <6>2. CASE k.row.id # u.id
            BY <4>5, <5>1, <6>2
          <6> QED BY <6>1, <6>2
        <5> QED BY <5>2, <5>3
      <4> QED BY <4>6, <4>7
    <3>2. CASE ~(u.id \in DOMAIN map /\ ~IsFinal(k0.row))
      <4>1. known' = map
        BY <1>4, <2>3, <3>2 DEF ApplyUpdate
      <4>2. ASSUME NEW m \in Held' PROVE From(m)
        <5>1. PICK id \in DOMAIN map : m = map[id]
          BY <1>5, <4>1, <4>2 DEF Known
        <5>2. m \in Held /\ m.row.id = id /\ (u.id = id => IsFinal(m.row))
          BY <2>0, <3>2, <5>1
        <5> QED BY <2>3, <5>2
      <4>3. ASSUME NEW k \in Held, IsRetained(k) PROVE Still(k)
        BY <1>5, <2>0, <4>1, <4>3 DEF Known
      <4> QED BY <4>2, <4>3
    <3> QED BY <3>1, <3>2
  <2> QED BY <1>1, <2>1, <2>2, <2>3
<1>7. \A r, q \in messages : r.id = q.id => r = q
  BY CoreTypes
<1>8. HeldAgree'
  <2> SUFFICES ASSUME NEW m \in Held'
               PROVE  /\ (\E r \in messages' : r.id = m.row.id) \/ ErasedFrom(stream', 1, m.row.created)
                      /\ \A r \in messages' : r.id = m.row.id => m.row = r \/ Updating(stream', r.id)
                      /\ m.row.id \in missed' \/ m.until = m.row.expires
    BY DEF HeldAgree
  <2>1. PICK k \in Held : ~Taken(k.row.created) /\ (Same(m, k) \/ Renewed(m, k))
    BY <1>6
  <2>2. /\ (\E r \in messages : r.id = k.row.id) \/ ErasedFrom(stream, 1, k.row.created)
        /\ \A r \in messages : r.id = k.row.id => k.row = r \/ Updating(stream, r.id)
        /\ k.row.id \in missed \/ k.until = k.row.expires
    BY DEF Follows, HeldAgree
  <2>3. k \in Entries /\ k.row \in Copies
    BY CopyTypes DEF ClientCore, Copies
  <2>4. CASE Same(m, k)
    <3>1. ASSUME NEW r \in messages, r.id = m.row.id PROVE m.row = r \/ Updating(rest, r.id)
      <4>1. IsFinal(k.row) => k.row = r
        BY <2>3, <2>4, <3>1 DEF ClientCore, CopiesSound
      <4> QED BY <1>1, <2>2, <2>4, <3>1, <4>1
    <3> QED BY <1>0, <1>1, <2>1, <2>2, <2>4, <3>1
  <2>5. CASE Renewed(m, k)
    <3>1. event.row \in Copies /\ event.row \in Rows /\ IsFinal(event.row)
      BY <1>1, <1>3, <2>5
    <3>2. SameEnvelope(k.row, event.row) /\ \A r \in messages : event.row.id = r.id => event.row = r
      BY <2>3, <2>5, <3>1 DEF ClientCore, CopiesSound
    <3>3. k.until = k.row.expires => m.until = m.row.expires
      BY <2>3, <2>5, <3>1 DEF Entries, Rows
    <3> QED BY <1>0, <1>1, <2>1, <2>2, <2>5, <3>2, <3>3 DEF SameEnvelope
  <2> QED BY <2>1, <2>4, <2>5
<1>9. ASSUME NEW r \in messages, Live(r, clock)
      PROVE  \/ r.id \in missed \/ Arriving(rest, r.id, r.created)
             \/ ~ErasedFrom(rest, 1, r.created) /\ Sought(r)'
  <2>1. CASE Arriving(stream, r.id, r.created)
    <3>1. CASE Arriving(rest, r.id, r.created)
      BY <3>1
    <3>2. CASE event.type = "message" /\ event.row.id = r.id /\ ~ErasedFrom(stream, 1, r.created)
      <4>1. Sought(r)'
        BY <1>4, <3>2 DEF Sought
      <4> QED BY <1>1, <3>2, <4>1
    <3> QED BY <1>1, <2>1, <3>1, <3>2
  <2>2. ASSUME ~ErasedFrom(stream, 1, r.created), NEW k \in Held, k.row.id = r.id
        PROVE  r.id \in missed \/ (~ErasedFrom(rest, 1, r.created) /\ Sought(r)')
    <3>1. r.id \in missed \/ IsRetained(k)
      BY <1>9, <2>2, RetainedWhileLive DEF Follows
    <3>2. ~Taken(k.row.created)
      <4>1. k.row \in Copies
        BY CopyTypes DEF ClientCore, Copies
      <4>2. k.row.created = r.created
        BY <2>2, <4>1 DEF ClientCore, CopiesSound, SameEnvelope
      <4> QED BY <1>1, <2>2, <4>2
    <3>3. IsRetained(k) => Sought(r)'
      BY <1>6, <2>2, <3>2 DEF Sought
    <3> QED BY <1>1, <2>2, <3>1, <3>3
  <2>3. Sought(r) => \E k \in Held : k.row.id = r.id
    BY <1>0 DEF Sought, Unread, Reading
  <2> QED BY <1>9, <2>1, <2>2, <2>3 DEF Follows, Expected
<1>10. (\A r \in messages : Live(r, clock) => Expected(r))'
  BY <1>0, <1>9 DEF Expected
<1> QED BY <1>0, <1>1, <1>8, <1>10 DEF Follows

LEMMA FollowsInvStep == ClientCore /\ ClientCore' /\ FollowsInv /\ [Next]_vars => FollowsInv'
<1> SUFFICES ASSUME ClientCore, ClientCore', FollowsInv, [Next]_vars, conn' PROVE Follows'
  BY DEF FollowsInv
<1>0. Moves /\ me \in Addresses /\ partner \in Addresses
  BY CoreStep, CoreTypes
<1>1. CASE Connect
  BY <1>1, ConnectFollows
<1>2. CASE FailHistory \/ LoseLink
  BY <1>2 DEF FailHistory, LoseLink
<1>3. ASSUME ~Connect, ~FailHistory, ~LoseLink PROVE Follows'
  <2>0. conn' = conn
    BY <1>3 DEF Next, PartnerSends, Send, Accepted, OpenElsewhere, ClearElsewhere, Pass, FetchPage, LookUpStates,
                OpenPage, EndLink, ReadFrame, ConfirmOwn, ConfirmIncoming, RejectMessage, SendAnswered, SendLost, vars, link
  <2>1. conn /\ Follows
    BY <2>0 DEF FollowsInv
  <2>2. ASSUME NEW e \in Envelopes, PartnerSends(e) \/ Send(e) PROVE Follows'
    <3>1. Accepted(e) /\ UNCHANGED <<task, known, missed>>
      BY <2>2 DEF PartnerSends, Send, terminal
    <3> QED BY <2>1, <3>1, AcceptEvolves, ServerFollows
  <2>3. ASSUME NEW a \in Addresses, NEW b \in Addresses, OpenElsewhere(a, b) PROVE Follows'
    <3>1. PICK ids \in SUBSET Ids : OpenAndTell(a, b, ids)
      BY <2>3, SomeoneOpens DEF ClientCore
    <3>2. UNCHANGED <<task, known, missed>>
      BY <2>3 DEF OpenElsewhere, terminal
    <3> QED BY <2>1, <3>1, <3>2, OpenEvolves, ServerFollows
  <2>4. CASE ClearElsewhere
    <3>1. UNCHANGED <<task, known, missed>>
      BY <2>4 DEF ClearElsewhere, terminal
    <3> QED BY <2>1, <2>4, <3>1, ClearEvolves, ServerFollows
  <2>5. CASE Pass \/ SendAnswered \/ SendLost \/ UNCHANGED vars
    <3>1. messages' = messages /\ stream' = stream /\ UNCHANGED <<task, known, missed>>
      BY <2>5 DEF Pass, Tick, SendAnswered, SendLost, vars, link, dbVars, terminal
    <3> QED BY <1>0, <2>1, <3>1, QuietEvolves, ServerFollows
  <2>6. CASE FetchPage \/ LookUpStates \/ OpenPage
    BY <2>1, <2>6, PageFollows, LookUpFollows, OpenPageFollows
  <2>7. CASE ReadFrame
    BY <2>1, <2>7, FrameFollows
  <2>8. CASE ConfirmOwn \/ ConfirmIncoming \/ RejectMessage
    BY <1>0, <2>1, <2>8, AnswerFollows
  <2>9. CASE EndLink
    BY <2>1, <2>9 DEF EndLink
  <2> QED BY <1>0, <1>3, <2>2, <2>3, <2>4, <2>5, <2>6, <2>7, <2>8, <2>9 DEF Next
<1> QED BY <1>1, <1>2, <1>3

\* For every conversation, page size, number of connections and table: a
\* terminal that has read its history and everything told to it knows each
\* available message as the server has it, and every message the server has,
\* save those whose confirmation failed or took time and those that expired
\* unopened while the history was read (follow, src/cli/main.ts:62-153).
THEOREM TerminalFollows == Spec => []FollowsServer
<1>1. ClientCore /\ FollowsInv => FollowsServer
  <2> SUFFICES ASSUME ClientCore, FollowsInv, CaughtUp
               PROVE  /\ \A id \in DOMAIN known :
                            IsAvailable(known[id]) => known[id].row \in LiveBetween(messages, me, partner, clock)
                      /\ \A r \in LiveBetween(messages, me, partner, clock) : r.id \in DOMAIN known \cup missed
    BY DEF FollowsServer
  <2>1. Follows /\ stream = <<>> /\ task = Reading /\ IsMap(known) /\ clock \in Nat
    BY CoreTypes DEF CaughtUp, FollowsInv
  <2>2. Held = Known
    BY <2>1 DEF Held, InHistory, Reading
  <2>3. ASSUME NEW id \in DOMAIN known, IsAvailable(known[id])
        PROVE  known[id].row \in LiveBetween(messages, me, partner, clock)
    <3> DEFINE m == known[id]
    <3>1. m \in Held /\ m \in Entries /\ m \in Shown
      BY <2>1, <2>2 DEF Known, Shown, IsMap
    <3>2. m.row \in messages
      BY <2>1, <3>1, NothingTold DEF Follows, HeldAgree
    <3>3. Between(m.row, me, partner)
      BY <3>2 DEF ClientCore, CopiesSound
    <3>4. m.until <= m.row.expires /\ clock < m.until
      BY <2>3, <3>1 DEF ClientCore, EntriesSound, IsAvailable
    <3>5. Live(m.row, clock)
      BY <2>1, <3>1, <3>4 DEF Live, Entries, Rows
    <3> QED BY <3>2, <3>3, <3>5 DEF LiveBetween
  <2>4. ASSUME NEW r \in LiveBetween(messages, me, partner, clock) PROVE r.id \in DOMAIN known \cup missed
    <3>1. r \in messages /\ Live(r, clock)
      BY DEF LiveBetween
    <3>2. r.id \in missed \/ Sought(r)
      BY <2>1, <3>1, NothingTold DEF Follows, Expected
    <3>3. Sought(r) => \E m \in Known : m.row.id = r.id
      BY <2>1, <2>2 DEF Sought, Unread, Reading
    <3> QED BY <2>1, <3>2, <3>3 DEF Known, IsMap
  <2> QED BY <2>3, <2>4
<1>2. Init => FollowsInv
  BY DEF Init, FollowsInv
<1> QED BY <1>1, <1>2, CoreInitially, CoreStep, FollowsInvStep, PTL DEF Spec
=============================================================================
