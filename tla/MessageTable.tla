---------------------------- MODULE MessageTable ----------------------------
(***************************************************************************)
(* The `messages` table of src/server/db.ts as a set of rows, with the     *)
(* queries and row transitions of the server as operators on it.  The      *)
(* module has no variables: ChatDatabase, MessageServer, RecoveryReader    *)
(* and ConversationSession all apply these operators to a table of their   *)
(* own.                                                                    *)
(*                                                                         *)
(* The ciphertext and signature columns are opaque payload and left out.   *)
(* Times are in ticks; a tick is one millisecond of Date.now(), so events  *)
(* of one tick are events of one millisecond.                              *)
(***************************************************************************)
EXTENDS Integers, FiniteSets

CONSTANTS
    Addresses,   \* identities
    Ids,         \* message ids, chosen by the sending client
    Envelopes,   \* the signed envelopes clients may post
    Retention    \* UNOPENED_RETENTION_MS

ASSUME RetentionAssumption == Retention \in Nat \ {0}

\* A signed envelope fixes its id, its participants and its lifetime.  The
\* lifetimes are MESSAGE_TTLS, all positive, and the route has refused a
\* message to oneself.
ASSUME EnvelopeAssumption ==
    /\ Envelopes \subseteq [id : Ids, sender : Addresses, recipient : Addresses, ttl : Nat \ {0}]
    /\ \A e \in Envelopes : e.sender # e.recipient

Unopened == -1   \* opened_at IS NULL

Rows == [id : Ids, sender : Addresses, recipient : Addresses, ttl : Nat \ {0},
         seq : Nat, created : Nat, opened : Nat \cup {Unopened}, expires : Nat]

-----------------------------------------------------------------------------
(* Row transitions *)

\* mutant: a message has no deadline before it is opened
AcceptedWithoutDeadline(e, seq, now) ==
    [id |-> e.id, sender |-> e.sender, recipient |-> e.recipient, ttl |-> e.ttl,
     seq |-> seq, created |-> now, opened |-> Unopened, expires |-> Unopened]

\* createMessage's INSERT, with the acceptance trigger's sequence number.
AcceptedRow(e, seq, now) ==
    [id |-> e.id, sender |-> e.sender, recipient |-> e.recipient, ttl |-> e.ttl,
     seq |-> seq, created |-> now, opened |-> Unopened, expires |-> now + Retention]

\* openMessages' UPDATE of a row nobody has opened yet.
OpenedRow(r, now) == [r EXCEPT !.opened = now, !.expires = now + r.ttl]

\* Two versions of one acceptance: all but the lifecycle's later half agrees.
SameEnvelope(r, q) ==
    /\ r.id = q.id /\ r.sender = q.sender /\ r.recipient = q.recipient /\ r.ttl = q.ttl
    /\ r.seq = q.seq /\ r.created = q.created

IsFinal(r) == r.opened # Unopened

Live(r, now) == r.expires > now

\* parseDeliveryLifecycle: what every client demands of a lifecycle.
ValidLifecycle(r) ==
    IF r.opened = Unopened
    THEN r.expires = r.created + Retention
    ELSE /\ r.created <= r.opened
         /\ r.opened < r.created + Retention
         /\ r.expires = r.opened + r.ttl

-----------------------------------------------------------------------------
(* Queries *)

Between(r, a, b) == \/ r.sender = a /\ r.recipient = b
                    \/ r.sender = b /\ r.recipient = a

Involves(r, a) == r.sender = a \/ r.recipient = a

LiveBetween(table, a, b, now) == {r \in table : Between(r, a, b) /\ Live(r, now)}

\* The first and the last n rows of S by acceptance: ORDER BY acceptance_seq
\* [DESC] LIMIT n.
FirstRows(S, n) == {r \in S : Cardinality({q \in S : q.seq < r.seq}) < n}
LastRows(S, n)  == {r \in S : Cardinality({q \in S : q.seq > r.seq}) < n}

\* readConversationMessages: the newest `limit` live rows accepted before
\* `before`.
HistoryRows(table, a, b, before, limit, now) ==
    LastRows({r \in LiveBetween(table, a, b, now) : r.seq < before}, limit)

\* mutant: the cursor's own row is fetched again
RecoveryFetchInclusive(table, a, b, lower, bound, limit, now) ==
    FirstRows({r \in LiveBetween(table, a, b, now) : r.seq >= lower /\ r.seq <= bound}, limit + 1)

\* recoverMessages: one row more than a page is fetched to tell whether the
\* interval (lower, bound] is exhausted.
RecoveryFetch(table, a, b, lower, bound, limit, now) ==
    FirstRows({r \in LiveBetween(table, a, b, now) : r.seq > lower /\ r.seq <= bound}, limit + 1)

MaxSeqOf(S) == CHOOSE n \in {r.seq : r \in S} : \A r \in S : r.seq <= n
MinSeqOf(S) == CHOOSE n \in {r.seq : r \in S} : \A r \in S : n <= r.seq
=============================================================================
