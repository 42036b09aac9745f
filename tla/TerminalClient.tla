--------------------------- MODULE TerminalClient ---------------------------
(***************************************************************************)
(* `watch` and `chat` of the terminal client (src/cli/main.ts, client.ts)  *)
(* against the server's database and over a live stream that may drop:     *)
(* follow() subscribes, reads the whole history page by page, confirming   *)
(* every message on the way, and then applies the stream's events one by   *)
(* one; chat() also sends.                                                 *)
(*                                                                         *)
(*   posted        ids posted by anyone; each message is sealed once       *)
(*   conn, stream  the response of client.events is open; frames to read   *)
(*   task          the await follow() is at                                *)
(*   known         follow's map `seen`: by id, the message as last         *)
(*                 confirmed and the time up to which it is available      *)
(*   own           chat's map where it holds another object than `seen`    *)
(*                 does: copies of its own messages, made of the response  *)
(*   sending       the one send under way: its row once accepted           *)
(*   connections   how often the stream was opened                         *)
(*   missed        observed only: messages whose live confirmation failed, *)
(*                 that had a confirmation that took time, or that expired *)
(*                 unopened while the history was read                     *)
(*                                                                         *)
(* The clocks of client and server agree; a confirmation that takes time   *)
(* ends a message's availability early by as much.                         *)
(***************************************************************************)
EXTENDS ChatDatabase, Sequences, Functions
LOCAL INSTANCE SequencesExt

CONSTANTS
    me, partner,      \* whose conversation is followed
    PageSize,         \* messages in a history page
    MaxConnections,   \* bound on connections
    MaxStream         \* bound on frames not read yet

ASSUME TerminalAssumption ==
    /\ me \in Addresses /\ partner \in Addresses /\ me # partner
    /\ PageSize \in Nat \ {0} /\ MaxConnections \in Nat /\ MaxStream \in Nat

VARIABLES posted, conn, stream, task, known, own, sending, connections, missed

link     == <<conn, stream, connections>>
terminal == <<task, known, own, sending, missed>>
vars     == <<dbVars, posted, link, terminal>>

Waiting == [at |-> "waiting"]      \* between two connections
Reading == [at |-> "reading"]      \* for the next frame
NotSending == [at |-> "nothing"]
EmptyMap == [id \in {} |-> {}]

Message(r)      == [type |-> "message", row |-> r]
ExpiryUpdate(r) == [type |-> "expiry-update", row |-> r]
Clearance(at)   == [type |-> "conversation-cleared", at |-> at]

Init ==
    /\ DbInit /\ posted = {}
    /\ conn = FALSE /\ stream = <<>> /\ connections = 0
    /\ task = Waiting /\ known = EmptyMap /\ own = EmptyMap
    /\ sending = NotSending /\ missed = {}

-----------------------------------------------------------------------------
(* The server *)

Tell(events) ==
    /\ stream' = IF conn THEN stream \o events ELSE stream
    /\ Len(stream') <= MaxStream

Accepted(e) ==
    /\ e.id \notin posted /\ posted' = posted \cup {e.id}
    /\ Create(e)
    /\ Tell(<<Message(AcceptedRow(e, NextSeq, clock))>>)
    /\ UNCHANGED <<conn, connections>>

OpenAndTell(a, b, ids) ==
    /\ Open(a, b, ids)
    /\ \E updates \in SetToSeqs(NewlyOpened(Available(a, b, ids))) :
         Tell([i \in DOMAIN updates |-> ExpiryUpdate(OpenedRow(updates[i], clock))])

PartnerSends(e) == e.sender = partner /\ e.recipient = me /\ Accepted(e) /\ UNCHANGED terminal

\* The partner opens, or another client of this identity does.
OpenElsewhere(a, b) ==
    /\ \E ids \in SUBSET {r.id : r \in NewlyOpened(Available(a, b, Ids))} \ {{}} : OpenAndTell(a, b, ids)
    /\ UNCHANGED <<posted, conn, connections, terminal>>

ClearElsewhere ==
    /\ Clear(partner, me)
    /\ Tell(<<Clearance(clock)>>)
    /\ UNCHANGED <<posted, conn, connections, terminal>>

Pass == Tick /\ UNCHANGED <<posted, link, terminal>>

-----------------------------------------------------------------------------
(* Messages on the screen *)

Entry(r, until) == [row |-> r, until |-> until]

\* isMessageAvailable and shouldRetainMessage
IsAvailable(m) == clock < m.until
IsRetained(m) == IsAvailable(m) \/ (~IsFinal(m.row) /\ clock < m.until + m.row.ttl)

\* confirmMessages: the deadline counts from the start of the request.
Confirmed(r, since) == Entry(r, since + r.expires - clock)

Retained(map) == Restrict(map, {id \in DOMAIN map : IsRetained(map[id])})
Without(map, ids) == Restrict(map, DOMAIN map \ ids)

\* deliver of each of a set of messages; receive and lifecycle put the object
\* shared with known into chat's map, a repeated delivery does not.
Deliver(entries, before) ==
    LET shown == {m \in entries : IsAvailable(m)}
        news  == {m \in shown : m.row.id \notin DOMAIN before \/ before[m.row.id].row # m.row}
    IN  /\ known' = [id \in DOMAIN before \cup {m.row.id : m \in shown} |->
                      IF \E m \in shown : m.row.id = id
                      THEN CHOOSE m \in shown : m.row.id = id
                      ELSE before[id]]
        /\ own' = Without(own, {m.row.id : m \in news} \cup (DOMAIN known \ DOMAIN before))

-----------------------------------------------------------------------------
(* Connecting, and the history *)

\* A page is read before `before`; read is what earlier pages confirmed.
ReadPage(before, read) == [at |-> "page", before |-> before, read |-> read]

\* The stream is open, its first frame read: the history comes first.
Connect ==
    /\ task = Waiting
    /\ connections < MaxConnections /\ connections' = connections + 1
    /\ conn' = TRUE /\ stream' = <<>>
    /\ known' = Retained(known)
    /\ task' = ReadPage(MaxAccepted + 1, {})
    /\ missed' = {}
    /\ UNCHANGED <<dbVars, posted, own, sending>>

Own(rows)      == {r \in rows : r.sender = me}
Incoming(rows) == {r \in rows : r.recipient = me}

\* mutant: entries of an earlier connection are kept
NoneGone(read) == {}

\* seen messages the history did not confirm
GoneFrom(read) == DOMAIN known \ {m.row.id : m \in {n \in read : IsAvailable(n)}}

\* Messages dropped at the end of the history although an update that extends
\* them may be on its way.
ExpiredUnopened(read) == {m.row.id : m \in {n \in read : ~IsAvailable(n) /\ ~IsFinal(n.row)}}

\* The server's page; an empty one ends the history.
FetchPage ==
    /\ task.at = "page"
    /\ LET rows == HistoryRows(messages, me, partner, task.before, PageSize, clock)
       IN  IF rows # {}
           THEN /\ task' = [at |-> "states", rows |-> rows, since |-> clock, read |-> task.read]
                /\ UNCHANGED <<known, own, missed>>
           ELSE /\ LET gone == GoneFrom(task.read)
                   IN  Deliver(task.read, Without(known, gone))
                /\ task' = Reading /\ missed' = missed \cup ExpiredUnopened(task.read)
    /\ UNCHANGED <<dbVars, posted, link, sending>>

\* A confirmation that took time may have come too late for its messages.
Slow(ids) == missed' = IF task.since = clock THEN missed ELSE missed \cup ids

\* The read-only lookup of the page's own messages.
LookUpStates ==
    /\ task.at = "states"
    /\ LET live == {r \in LiveBetween(messages, me, partner, clock) : \E q \in Own(task.rows) : r.id = q.id}
       IN  task' = [at |-> "opens", rows |-> task.rows, since |-> clock,
                    read |-> task.read \cup {Confirmed(r, task.since) : r \in live}]
    /\ Slow({r.id : r \in Own(task.rows)})
    /\ UNCHANGED <<dbVars, posted, link, known, own, sending>>

\* mutant: messages are exposed as they were delivered
OpenedByNobody(ids) == Available(me, partner, ids)

\* What opening `ids` confirms: their rows once opened.
OpenedBy(ids) ==
    LET found == Available(me, partner, ids)
    IN  (found \ NewlyOpened(found)) \cup {OpenedRow(r, clock) : r \in NewlyOpened(found)}

\* The opening of the page's incoming messages, and the next page.
OpenPage ==
    /\ task.at = "opens"
    /\ LET ids == {r.id : r \in Incoming(task.rows)}
       IN  /\ OpenAndTell(me, partner, ids)
           /\ task' = ReadPage(MinSeqOf(task.rows),
                               task.read \cup {Confirmed(r, task.since) : r \in OpenedBy(ids)})
           /\ Slow(ids)
    /\ UNCHANGED <<posted, conn, connections, known, own, sending>>

\* A request of the history fails, or its answer is lost: follow reconnects.
FailHistory ==
    /\ task.at \in {"page", "states", "opens"}
    /\ IF task.at = "opens"
       THEN Open(me, partner, {r.id : r \in Incoming(task.rows)}) \/ UNCHANGED dbVars
       ELSE UNCHANGED dbVars
    /\ conn' = FALSE /\ stream' = <<>>
    /\ task' = Waiting
    /\ UNCHANGED <<posted, connections, known, own, sending, missed>>

-----------------------------------------------------------------------------
(* The stream *)

\* The stream is lost, with or without what the response had received.
LoseLink ==
    /\ conn /\ conn' = FALSE
    /\ stream' \in {stream, <<>>}
    /\ UNCHANGED <<dbVars, posted, connections, terminal>>

\* "Live connection closed"
EndLink ==
    /\ task = Reading /\ ~conn /\ stream = <<>>
    /\ task' = Waiting
    /\ UNCHANGED <<dbVars, posted, link, known, own, sending, missed>>

\* applyExpiryUpdate to a message of known, and chat's lifecycle callback.
ApplyUpdate(map, r) ==
    LET m == map[r.id]
    IN  IF r.id \in DOMAIN map /\ ~IsFinal(m.row)
        THEN /\ known' = [map EXCEPT ![r.id] = Entry(r, m.until + r.expires - m.row.expires)]
             /\ own' = Without(own, {r.id})
        ELSE known' = map /\ UNCHANGED own

\* The next frame.
ReadFrame ==
    /\ task = Reading /\ stream # <<>>
    /\ stream' = Tail(stream)
    /\ LET event == Head(stream)
           map   == Retained(known)
       IN  CASE event.type = "message" ->
                  /\ task' = [at |-> "confirm", row |-> event.row, since |-> clock]
                  /\ known' = map /\ UNCHANGED own
             [] event.type = "expiry-update" ->
                  ApplyUpdate(map, event.row) /\ UNCHANGED task
             [] event.type = "conversation-cleared" ->
                  LET gone == {id \in DOMAIN map : map[id].row.created <= event.at}
                  IN  known' = Without(map, gone) /\ own' = Without(own, gone) /\ UNCHANGED task
    /\ UNCHANGED <<dbVars, posted, conn, connections, sending, missed>>

\* confirmLiveMessage of an own message
ConfirmOwn ==
    /\ task.at = "confirm" /\ task.row.recipient # me
    /\ Deliver({Confirmed(r, task.since) :
                  r \in {q \in LiveBetween(messages, me, partner, clock) : q.id = task.row.id}}, known)
    /\ Slow({task.row.id})
    /\ task' = Reading
    /\ UNCHANGED <<dbVars, posted, link, sending>>

\* ... and of an incoming one
ConfirmIncoming ==
    /\ task.at = "confirm" /\ task.row.recipient = me
    /\ OpenAndTell(me, partner, {task.row.id})
    /\ Deliver({Confirmed(r, task.since) : r \in OpenedBy({task.row.id})}, known)
    /\ Slow({task.row.id})
    /\ task' = Reading
    /\ UNCHANGED <<posted, conn, connections, sending>>

\* The request fails or its answer is lost: "Rejected an invalid message".
RejectMessage ==
    /\ task.at = "confirm"
    /\ \/ UNCHANGED <<dbVars, stream>>
       \/ OpenAndTell(me, partner, {task.row.id})
    /\ missed' = missed \cup {task.row.id}
    /\ task' = Reading
    /\ UNCHANGED <<posted, conn, connections, known, own, sending>>

-----------------------------------------------------------------------------
(* Sending in chat *)

\* client.send up to its acceptance, one at a time
Send(e) ==
    /\ e.sender = me /\ e.recipient = partner
    /\ sending = NotSending
    /\ Accepted(e)
    /\ sending' = [at |-> "accepted", row |-> AcceptedRow(e, NextSeq, clock)]
    /\ UNCHANGED <<task, known, own, missed>>

\* The response: "Sent".
SendAnswered ==
    /\ sending # NotSending
    /\ LET r == sending.row
       IN  own' = [id \in DOMAIN own \cup {r.id} |-> IF id = r.id THEN Entry(r, r.expires) ELSE own[id]]
    /\ sending' = NotSending
    /\ UNCHANGED <<dbVars, posted, link, task, known, missed>>

\* It is lost: "Send failed".
SendLost ==
    /\ sending # NotSending
    /\ sending' = NotSending
    /\ UNCHANGED <<dbVars, posted, link, task, known, own, missed>>

Next ==
    \/ \E e \in Envelopes : PartnerSends(e) \/ Send(e)
    \/ OpenElsewhere(me, partner) \/ OpenElsewhere(partner, me)
    \/ ClearElsewhere
    \/ Pass
    \/ Connect \/ FetchPage \/ LookUpStates \/ OpenPage \/ FailHistory
    \/ LoseLink \/ EndLink \/ ReadFrame
    \/ ConfirmOwn \/ ConfirmIncoming \/ RejectMessage
    \/ SendAnswered \/ SendLost

Spec == Init /\ [][Next]_vars

-----------------------------------------------------------------------------

\* Everything told has been applied.
CaughtUp == task = Reading /\ conn /\ stream = <<>>

\* What chat may draw.
Screen == [id \in DOMAIN own \cup DOMAIN known |-> IF id \in DOMAIN own THEN own[id] ELSE known[id]]

\* A client that has read everything follows the server: each message it
\* knows as available is there with the same lifecycle, and none that is there
\* is unknown, whatever was sent, opened or cleared while it was away, read the
\* history or waited for a confirmation (follow, main.ts:111-121).
FollowsServer ==
    LET live == LiveBetween(messages, me, partner, clock)
    IN  CaughtUp =>
          /\ \A id \in DOMAIN known : IsAvailable(known[id]) => known[id].row \in live
          /\ \A r \in live : r.id \in DOMAIN known \cup missed

\* "Incoming messages being opened remain hidden until the server confirms their
\* opening deadline" (docs/domain-behavior.md:22): an incoming message on the
\* screen was opened, and leaves it no later than the server deletes it.
ExposedIsOpened ==
    \A id \in DOMAIN Screen :
        LET m == Screen[id]
        IN  m.row.recipient = me =>
              /\ IsFinal(m.row)
              /\ m.until <= m.row.expires
              /\ \A r \in messages : r.id = id => r = m.row

\* Chat "removes expired messages from its display (and all of them when
\* either side clears the conversation)", docs/cli.md:52-53.
ClearedLeaveTheScreen ==
    CaughtUp /\ sending = NotSending =>
        \A id \in DOMAIN Screen : IsAvailable(Screen[id]) => \E r \in messages : r.id = id
=============================================================================
