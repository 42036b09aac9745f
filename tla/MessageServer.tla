---------------------------- MODULE MessageServer ----------------------------
(***************************************************************************)
(* The message and account routes of the server (routes/messages.ts,       *)
(* routes/account.ts) on top of the database, and the live events they     *)
(* publish (sse.ts).  A handler runs until its first await; requests that  *)
(* wait for a body or for a signature check interleave with every other    *)
(* handler, with the sweep and with restarts.                              *)
(*                                                                         *)
(*   requests   what each concurrent request still has to do               *)
(*   published  per identity, the events since the server started: what a  *)
(*              stream that was open all the time carries                  *)
(*   base       the messages the server started with                       *)
(*   left       identities that deleted their registration since then      *)
(*                                                                         *)
(* published, base and left are observations: no handler reads them.       *)
(***************************************************************************)
EXTENDS ChatDatabase, Sequences
LOCAL INSTANCE SequencesExt

CONSTANTS
    Slots,         \* places for requests in flight
    MaxPublished   \* bound on the events of one stream

VARIABLES requests, published, base, left

observed == <<published, base, left>>
vars == <<dbVars, requests, observed>>

Idle == [stage |-> "idle"]

\* "body": the session was checked, the body is read.  "signature": the
\* envelope passed all other checks, its signature is verified.  "ids": the
\* body of an opening request is read.
Requests ==
    {Idle}
    \cup [stage : {"body", "ids"}, address : Addresses]
    \cup [stage : {"signature"}, envelope : Envelopes]

Message(r)         == [type |-> "message", row |-> r]
ExpiryUpdate(r)    == [type |-> "expiry-update", row |-> r]
Clearance(p, at)   == [type |-> "conversation-cleared", partner |-> p, at |-> at]
Disconnected(p)    == [type |-> "user:disconnected", partner |-> p]

Init ==
    /\ DbInit
    /\ requests = [s \in Slots |-> Idle]
    /\ published = [a \in Addresses |-> <<>>]
    /\ base = {}
    /\ left = {}

\* publish, of the events `told` lists for each identity.
Publish(told) ==
    /\ \A a \in Addresses : Len(published[a] \o told[a]) <= MaxPublished
    /\ published' = [a \in Addresses |-> published[a] \o told[a]]
    /\ UNCHANGED base

\* getSessionAddress: an expired session is no session.
Authenticated(a) == \E t \in Tokens : SessionOf(t, a)

Enter(s, request) ==
    /\ requests[s] = Idle
    /\ requests' = [requests EXCEPT ![s] = request]
    /\ UNCHANGED <<dbVars, observed>>

Leave(s) == requests' = [requests EXCEPT ![s] = Idle]

-----------------------------------------------------------------------------
(* POST /api/messages *)

\* Up to the await of the body.
ReceiveSend(s, a) ==
    Authenticated(a) /\ Enter(s, [stage |-> "body", address |-> a])

\* Up to the await of verifyMessageEnvelope.
CheckSend(s, e) ==
    /\ requests[s] = [stage |-> "body", address |-> e.sender]
    /\ lastActive[e.recipient] # Unregistered
    /\ requests' = [requests EXCEPT ![s] = [stage |-> "signature", envelope |-> e]]
    /\ UNCHANGED <<dbVars, observed>>

\* A malformed body, an unknown recipient or a bad signature: no effect.
Refuse(s) ==
    /\ requests[s] # Idle
    /\ Leave(s)
    /\ UNCHANGED <<dbVars, observed>>

\* mutant: a replayed id replaces the stored message
StoredOverOld(e) ==
    /\ highWater < MaxAccepted
    /\ highWater' = NextSeq
    /\ messages' = {r \in messages : r.id # e.id} \cup {AcceptedRow(e, NextSeq, clock)}
    /\ lastActive' = MarkActive(Participants(e))
    /\ RecordActivity(e.sender)
    /\ UNCHANGED <<clock, sessions, push>>

Stored(e) == Create(e)

\* mutant: the sender's own streams are not told
ToldRecipientOnly(e) ==
    [a \in Addresses |-> IF a = e.recipient THEN <<Message(AcceptedRow(e, NextSeq, clock))>> ELSE <<>>]

\* What a stored message publishes.
ToldOfMessage(e) ==
    [a \in Addresses |-> IF a \in Participants(e) THEN <<Message(AcceptedRow(e, NextSeq, clock))>> ELSE <<>>]

\* From the verified signature to the response.
FinishSend(s) ==
    /\ requests[s].stage = "signature"
    /\ LET e == requests[s].envelope
       IN  Stored(e) /\ Publish(ToldOfMessage(e))
    /\ Leave(s)
    /\ UNCHANGED left

\* createMessage returned null: 409 and nothing published.
FinishReplay(s) ==
    /\ requests[s].stage = "signature"
    /\ \E r \in messages : r.id = requests[s].envelope.id
    /\ Leave(s)
    /\ UNCHANGED <<dbVars, observed>>

-----------------------------------------------------------------------------
(* Opening, clearing and account deletion *)

ReceiveOpen(s, a) ==
    Authenticated(a) /\ Enter(s, [stage |-> "ids", address |-> a])

\* handleOpenMessages once the ids are read.  The updates come in the order
\* of a query that states none.
FinishOpen(s, b, ids) ==
    /\ requests[s].stage = "ids"
    /\ LET a == requests[s].address
       IN  /\ Open(a, b, ids)
           /\ \E updates \in SetToSeqs(NewlyOpened(Available(a, b, ids))) :
                Publish([c \in Addresses |->
                    IF c \in {a, b}
                    THEN [i \in DOMAIN updates |-> ExpiryUpdate(OpenedRow(updates[i], clock))]
                    ELSE <<>>])
    /\ Leave(s)
    /\ UNCHANGED left

\* mutant: only the partner's streams are told
ToldOfClearPartner(a, b) ==
    [c \in Addresses |-> IF c = b THEN <<Clearance(a, clock)>> ELSE <<>>]

ToldOfClear(a, b) ==
    [c \in Addresses |-> CASE c = a -> <<Clearance(b, clock)>>
                           [] c = b -> <<Clearance(a, clock)>>
                           [] OTHER -> <<>>]

\* handleClearConversation awaits nothing.
ClearConversation(a, b) ==
    /\ Authenticated(a)
    /\ Clear(a, b)
    /\ Publish(ToldOfClear(a, b))
    /\ UNCHANGED <<requests, left>>

\* getConversationPartners
Partners(a) == {b \in Addresses : \E r \in messages : Between(r, a, b)}

\* handleDeleteAddress awaits nothing.
DeleteAddress(a) ==
    /\ Authenticated(a)
    /\ DeleteRegistration(a)
    /\ Publish([b \in Addresses |-> IF b \in Partners(a) THEN <<Disconnected(a)>> ELSE <<>>])
    /\ left' = left \cup {a}
    /\ UNCHANGED requests

-----------------------------------------------------------------------------
(* The other writers of the same tables, and the server's own steps *)

\* Registration and sign-in consume a challenge first: see ChallengeStore.
SignIn(t, a)   == CreateSession(t, a) /\ UNCHANGED <<requests, observed>>
SignOut(t)     == DeleteSession(t) /\ UNCHANGED <<requests, observed>>
DropSession(t) == DropExpiredSession(t) /\ UNCHANGED <<requests, observed>>
Register(a)    == RegisterPubkey(a) /\ UNCHANGED <<requests, observed>>
Pass           == Tick /\ UNCHANGED <<requests, observed>>
SweepExpired   == Sweep /\ UNCHANGED <<requests, observed>>

\* Requests and streams do not survive the process.  A crash between a
\* commit and its publish looks like this step after the handler's.
RestartServer ==
    /\ Restart
    /\ requests' = [s \in Slots |-> Idle]
    /\ published' = [a \in Addresses |-> <<>>]
    /\ base' = messages
    /\ left' = {}

Next ==
    \/ \E s \in Slots, a \in Addresses : ReceiveSend(s, a) \/ ReceiveOpen(s, a)
    \/ \E s \in Slots, e \in Envelopes : CheckSend(s, e)
    \/ \E s \in Slots : Refuse(s) \/ FinishSend(s) \/ FinishReplay(s)
    \/ \E s \in Slots, b \in Addresses, ids \in SUBSET Ids \ {{}} : FinishOpen(s, b, ids)
    \/ \E a, b \in Addresses : a # b /\ ClearConversation(a, b)
    \/ \E a \in Addresses : DeleteAddress(a) \/ Register(a)
    \/ \E t \in Tokens, a \in Addresses : SignIn(t, a)
    \/ \E t \in Tokens : SignOut(t) \/ DropSession(t)
    \/ Pass
    \/ SweepExpired
    \/ RestartServer

Spec == Init /\ [][Next]_vars

-----------------------------------------------------------------------------

\* What is left of `rows` for identity a after one event, read as a stream
\* reader must: in order, and by id.
Applied(a, rows, event) ==
    CASE event.type = "message"              -> rows \cup {event.row}
      [] event.type = "expiry-update"        -> {IF r.id = event.row.id THEN event.row ELSE r : r \in rows}
      [] event.type = "conversation-cleared" ->
            {r \in rows : ~(Between(r, a, event.partner) /\ r.created <= event.at)}
      [] event.type = "user:disconnected"    -> {r \in rows : ~Involves(r, event.partner)}

\* The messages of a stream reader that started from `rows`, after each of
\* the first events.
Readings(a, rows, events) ==
    LET held[n \in 0..Len(events)] == IF n = 0 THEN rows ELSE Applied(a, held[n - 1], events[n])
    IN  held

\* ... that started from base, after all that was published.
Replayed(a) == Readings(a, {r \in base : Involves(r, a)}, published[a])[Len(published[a])]

\* The events are a complete log: whoever was connected since the server
\* started and applied each event in order has exactly the messages, with
\* exactly the deadlines, that the database has for it (publish calls of
\* handleSendMessage, handleOpenMessages, handleClearConversation and
\* handleDeleteAddress).  Identities that deleted their own registration are
\* told by the response, not by an event.
StreamsAreComplete ==
    \A a \in Addresses \ left :
        {r \in Replayed(a) : Live(r, clock)} = {r \in messages : Involves(r, a) /\ Live(r, clock)}

\* Accepted, opened and deleted in an order that keeps up with the streams:
\* every stream carries its messages in acceptance order, and at most one
\* expiry update for each, after it.
StreamsAreOrdered ==
    \A a \in Addresses : \A i, j \in DOMAIN published[a] :
        LET e == published[a][i]
            f == published[a][j]
        IN  i < j =>
              /\ e.type = "message" /\ f.type = "message" => e.row.seq < f.row.seq
              /\ e.type = "expiry-update" /\ f.type \in {"message", "expiry-update"} => e.row.seq # f.row.seq
=============================================================================
