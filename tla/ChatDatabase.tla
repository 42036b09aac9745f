---------------------------- MODULE ChatDatabase ----------------------------
(***************************************************************************)
(* The SQLite database of the chat server, src/server/db.ts: one variable  *)
(* per table and one action per exported write.  Every write of db.ts runs *)
(* synchronously inside one (immediate) transaction, so each is one step;  *)
(* what happens between the writes of one request is MessageServer's       *)
(* subject.                                                                *)
(*                                                                         *)
(*   clock       Date.now(), assumed never to step back                    *)
(*   messages    table messages                                            *)
(*   highWater   message_recovery.high_water, the last acceptance_seq      *)
(*   lastActive  pubkeys.last_active_at; Unregistered where there is no row *)
(*   sessions    table sessions (the token hash stands for the token)      *)
(*   push        table push_subscriptions                                  *)
(*   seen        daily_activity_seen with its key: who was counted when    *)
(*   totals      daily_activity_totals                                     *)
(***************************************************************************)
EXTENDS MessageTable

CONSTANTS
    Tokens,         \* session tokens (32 random bytes: never issued twice while live)
    Endpoints,      \* push endpoints
    SessionTtl,     \* SESSION_TTL_MS
    InactiveAfter,  \* PUBKEY_RETENTION_MS
    DayLength,      \* ticks in a UTC day
    MaxPush,        \* MAX_PUSH_SUBSCRIPTIONS
    MaxTime,        \* bound on clock
    MaxAccepted,    \* bound on highWater
    MaxRowid        \* bound on the rowids of push_subscriptions

ASSUME DatabaseAssumption ==
    /\ SessionTtl \in Nat /\ InactiveAfter \in Nat /\ DayLength \in Nat \ {0}
    /\ MaxPush \in Nat \ {0} /\ MaxTime \in Nat /\ MaxAccepted \in Nat /\ MaxRowid \in Nat

\* 24 hours to open and at most 24 hours of lifetime fit in the 30 days; the
\* last tick to open in is the one before the 24 hours are over.
ASSUME LifetimeAssumption == \A e \in Envelopes : Retention - 1 + e.ttl <= InactiveAfter

VARIABLES clock, messages, highWater, lastActive, sessions, push, seen, totals

registry == <<lastActive, sessions, push>>
activity == <<seen, totals>>
dbVars == <<clock, messages, highWater, lastActive, sessions, push, seen, totals>>

Unregistered == -1

Sessions == [token : Tokens, address : Addresses, expires : Nat]
Subscriptions == [endpoint : Endpoints, address : Addresses, created : Nat, rowid : Nat]
Days == 0..MaxTime
Counted == [day : Days, identity : Addresses]

DbInit ==
    /\ clock = 0
    /\ messages = {}
    /\ highWater = 0
    /\ lastActive = [a \in Addresses |-> Unregistered]
    /\ sessions = {}
    /\ push = {}
    /\ seen = {}
    /\ totals = [d \in Days |-> 0]

-----------------------------------------------------------------------------
(* Helpers that several writes share *)

Today == clock \div DayLength

\* markAddressesActive: an UPDATE, so it never registers anyone.
MarkActive(S) ==
    [a \in Addresses |-> IF a \in S /\ lastActive[a] # Unregistered THEN clock ELSE lastActive[a]]

\* pruneDailyActivity, on a value of seen.
Unpruned(s) == {c \in s : c.day >= Today}

\* mutant: the INSERT OR IGNORE's result is not looked at
CountEveryTime(a) == [totals EXCEPT ![Today] = @ + 1]

\* The total after recordDailyActivity: one more the first time that day.
CountOnce(a) ==
    IF [day |-> Today, identity |-> a] \in seen THEN totals ELSE [totals EXCEPT ![Today] = @ + 1]

\* recordDailyActivity
RecordActivity(a) ==
    /\ seen' = Unpruned(seen) \cup {[day |-> Today, identity |-> a]}
    /\ totals' = CountOnce(a)

-----------------------------------------------------------------------------
(* Messages *)

\* mutant: the sequence numbers the stored rows instead of the acceptances
NextSeqOfRows == Cardinality(messages) + 1

\* The acceptance trigger's sequence number.
NextSeq == highWater + 1

\* mutant: the recipient is not marked active
ParticipantsSenderOnly(e) == {e.sender}

Participants(e) == {e.sender, e.recipient}

\* createMessage.  A row with the same id, if there is one, wins: the insert
\* is ignored, nothing else is written and the caller learns of a duplicate.
Create(e) ==
    /\ highWater < MaxAccepted
    /\ \A r \in messages : r.id # e.id
    /\ highWater' = NextSeq
    /\ messages' = messages \cup {AcceptedRow(e, NextSeq, clock)}
    /\ lastActive' = MarkActive(Participants(e))
    /\ RecordActivity(e.sender)
    /\ UNCHANGED <<clock, sessions, push>>

\* mutant: expires_at is not part of the lookup
AvailableEvenExpired(recipient, sender, ids) ==
    {r \in messages : r.id \in ids /\ r.recipient = recipient /\ r.sender = sender}

\* The rows an opening request finds available.
Available(recipient, sender, ids) ==
    {r \in messages : r.id \in ids /\ r.recipient = recipient /\ r.sender = sender /\ Live(r, clock)}

\* mutant: a second opening restarts the lifetime
NewlyOpenedAgain(rows) == rows

\* ... and those of them it opens.
NewlyOpened(rows) == {r \in rows : ~IsFinal(r)}

\* openMessages
Open(recipient, sender, ids) ==
    LET found == Available(recipient, sender, ids)
        fresh == NewlyOpened(found)
    IN  /\ messages' = (messages \ fresh) \cup {OpenedRow(r, clock) : r \in fresh}
        /\ IF found # {} THEN RecordActivity(recipient) ELSE UNCHANGED activity
        /\ UNCHANGED <<clock, highWater, registry>>

\* mutant: only the caller's own messages are cleared
ClearedOneWay(a, b) == {r \in messages : r.created <= clock /\ r.sender = a /\ r.recipient = b}

Cleared(a, b) == {r \in messages : r.created <= clock /\ Between(r, a, b)}

\* clearConversation
Clear(a, b) ==
    /\ messages' = messages \ Cleared(a, b)
    /\ UNCHANGED <<clock, highWater, registry, activity>>

-----------------------------------------------------------------------------
(* Registrations, sessions, push subscriptions *)

\* registerPubkey: the upsert leaves last_active_at of an existing row alone.
RegisterPubkey(a) ==
    /\ lastActive' = [lastActive EXCEPT ![a] = IF @ = Unregistered THEN clock ELSE @]
    /\ UNCHANGED <<clock, messages, highWater, sessions, push, activity>>

\* createSession
CreateSession(t, a) ==
    /\ \A s \in sessions : s.token # t
    /\ sessions' = sessions \cup {[token |-> t, address |-> a, expires |-> clock + SessionTtl]}
    /\ lastActive' = MarkActive({a})
    /\ UNCHANGED <<clock, messages, highWater, push, activity>>

SessionExpired(s) == s.expires < clock

\* getSession returning a row: whose request it is.
SessionOf(t, a) == \E s \in sessions : s.token = t /\ s.address = a /\ ~SessionExpired(s)

\* getSession finding an expired row deletes it.
DropExpiredSession(t) ==
    /\ \E s \in sessions : s.token = t /\ SessionExpired(s)
    /\ sessions' = {s \in sessions : s.token # t}
    /\ UNCHANGED <<clock, messages, highWater, lastActive, push, activity>>

\* deleteSession
DeleteSession(t) ==
    /\ sessions' = {s \in sessions : s.token # t}
    /\ UNCHANGED <<clock, messages, highWater, lastActive, push, activity>>

\* mutant: deleteAddress forgets the push subscriptions
PushWithOwner(a) == push

PushWithout(a) == {p \in push : p.address # a}

\* deleteRegistration: sessions, messages in both directions, subscriptions
\* and the public key, in one transaction.
DeleteRegistration(a) ==
    /\ sessions' = {s \in sessions : s.address # a}
    /\ messages' = {r \in messages : ~Involves(r, a)}
    /\ push' = PushWithout(a)
    /\ lastActive' = [lastActive EXCEPT ![a] = Unregistered]
    /\ UNCHANGED <<clock, highWater, activity>>

NextRowid == 1 + Cardinality({n \in 1..MaxRowid : \E p \in push : p.rowid >= n})

\* savePushSubscription, the upsert: an endpoint already stored keeps its
\* rowid and changes hands.
Upserted(a, p) ==
    LET old   == {q \in push : q.endpoint = p}
        rowid == IF old = {} THEN NextRowid ELSE (CHOOSE q \in old : TRUE).rowid
    IN  (push \ old) \cup {[endpoint |-> p, address |-> a, created |-> clock, rowid |-> rowid]}

\* ORDER BY created_at DESC, rowid DESC
Newer(p, q) == \/ p.created > q.created
               \/ p.created = q.created /\ p.rowid > q.rowid

\* ... and what its cap leaves: of the subscriptions of `a` the newest.
Capped(rows, a) ==
    {p \in rows : p.address = a
        => Cardinality({q \in rows : q.address = a /\ Newer(q, p)}) < MaxPush}

\* handleSubscribePush from its getPubkey check on: nothing is awaited from
\* there to the write.
SavePushSubscription(a, p) ==
    /\ lastActive[a] # Unregistered
    /\ NextRowid <= MaxRowid
    /\ push' = Capped(Upserted(a, p), a)
    /\ UNCHANGED <<clock, messages, highWater, lastActive, sessions, activity>>

\* deletePushSubscription: by its owner, or by pushNotify whoever owns it.
DeletePushSubscription(p, owners) ==
    /\ push' = {q \in push : ~(q.endpoint = p /\ q.address \in owners)}
    /\ UNCHANGED <<clock, messages, highWater, lastActive, sessions, activity>>

\* The attention heartbeat of a focused browser counts as activity.
ReportAttention(a) ==
    /\ RecordActivity(a)
    /\ UNCHANGED <<clock, messages, highWater, registry>>

-----------------------------------------------------------------------------
(* Time, the 30-second sweep and restarts *)

Tick == /\ clock < MaxTime
        /\ clock' = clock + 1
        /\ UNCHANGED <<messages, highWater, registry, activity>>

\* deleteInactivePubkeys' choice of rows, for the cutoff of server.ts.
Inactive(a) == lastActive[a] # Unregistered /\ lastActive[a] < clock - InactiveAfter

\* mutant: a row is swept one tick early
ExpiredSoon(rows) == {r \in rows : r.expires <= clock + 1}

\* deleteExpiredMessages' choice of rows.
Expired(rows) == {r \in rows : r.expires <= clock}

\* The interval callback of server.ts: its four deletes run to completion one
\* after the other.
Sweep ==
    /\ messages' = messages \ Expired(messages)
    /\ sessions' = {s \in sessions : ~SessionExpired(s)}
    /\ seen' = Unpruned(seen)
    /\ push' = {p \in push : ~Inactive(p.address)}
    /\ lastActive' = [a \in Addresses |-> IF Inactive(a) THEN Unregistered ELSE lastActive[a]]
    /\ UNCHANGED <<clock, highWater, totals>>

\* A restart keeps the file; on the current schema initDb only prunes.
Restart ==
    /\ seen' = Unpruned(seen)
    /\ UNCHANGED <<clock, messages, highWater, registry, totals>>

-----------------------------------------------------------------------------

DbNext ==
    \/ Tick
    \/ Sweep
    \/ Restart
    \/ \E e \in Envelopes : Create(e)
    \/ \E a, b \in Addresses, ids \in SUBSET Ids : a # b /\ Open(a, b, ids)
    \/ \E a, b \in Addresses : a # b /\ Clear(a, b)
    \/ \E a \in Addresses : RegisterPubkey(a) \/ DeleteRegistration(a) \/ ReportAttention(a)
    \/ \E t \in Tokens : DropExpiredSession(t) \/ DeleteSession(t)
    \/ \E t \in Tokens, a \in Addresses : CreateSession(t, a)
    \/ \E p \in Endpoints, a \in Addresses : SavePushSubscription(a, p)
    \/ \E p \in Endpoints : DeletePushSubscription(p, Addresses)
    \/ \E p \in Endpoints, a \in Addresses : DeletePushSubscription(p, {a})

\* The abstract specification of the server's data: from an empty file, only
\* the writes of db.ts, each whole.  MessageServer is checked to implement it.
DbSpec == DbInit /\ [][DbNext]_dbVars

-----------------------------------------------------------------------------
(* Invariants *)

TypeOK ==
    /\ clock \in 0..MaxTime
    /\ messages \subseteq Rows
    /\ highWater \in 0..MaxAccepted
    /\ lastActive \in [Addresses -> {Unregistered} \cup 0..MaxTime]
    /\ sessions \subseteq Sessions
    /\ push \subseteq Subscriptions
    /\ seen \subseteq Counted
    /\ totals \in [Days -> Nat]

\* The primary key on id and the unique index on acceptance_seq, which no row
\* passes the high-water mark of.
KeysAreUnique ==
    /\ \A r, q \in messages : (r.id = q.id \/ r.seq = q.seq) => r = q
    /\ \A r \in messages : r.seq <= highWater

\* Every stored lifecycle is one the clients' parseDeliveryLifecycle accepts,
\* and was accepted no later than now.
LifecyclesAreValid ==
    \A r \in messages : ValidLifecycle(r) /\ r.created <= clock /\ r.opened <= clock

\* Acceptance order agrees with acceptance time: a page in acceptance order
\* is a page in time order.
AcceptanceFollowsTime ==
    \A r, q \in messages : r.seq < q.seq => r.created <= q.created

\* The messages table stays sound whatever the order of sends, openings,
\* clears, account deletions, sweeps and restarts (createMessage,
\* openMessages and the acceptance trigger of src/server/db.ts).
RowsAreSound == KeysAreUnique /\ LifecyclesAreValid /\ AcceptanceFollowsTime

\* A registered participant has been active since each of its messages, so
\* createMessage's markAddressesActive holds both registrations open.
ActiveSinceMessages ==
    \A r \in messages, a \in Addresses :
        Involves(r, a) /\ lastActive[a] # Unregistered => lastActive[a] >= r.created

\* Only registered identities have push subscriptions, at most MaxPush each:
\* neither account deletion nor the 30-day prune leaves one behind.
SubscriptionsAreSound ==
    /\ \A p \in push : lastActive[p.address] # Unregistered
    /\ \A p, q \in push : p.endpoint = q.endpoint => p = q
    /\ \A a \in Addresses : Cardinality({p \in push : p.address = a}) <= MaxPush

\* The day's total counts each identity active that day once, across
\* restarts and prunes, and no earlier day's identities are added to.
TodayIsCountedOnce ==
    /\ totals[Today] = Cardinality({c \in seen : c.day = Today})
    /\ \A c \in seen : c.day <= Today

-----------------------------------------------------------------------------
(* Action properties *)

\* While a message is stored its envelope and acceptance never change; an
\* opening is final; and once expired it is never live again (openMessages:
\* "Retries and later openings cannot reset it, and expired messages cannot
\* be revived", docs/domain-behavior.md).
DeadlinesAreFinal ==
    [][\A r \in messages, q \in messages' : r.seq = q.seq =>
          /\ SameEnvelope(r, q)
          /\ IsFinal(r) => q = r
          /\ ~Live(r, clock) => ~Live(q, clock')]_dbVars

\* No row ever appears at or below a high-water mark already handed out: what
\* a recovery checkpoint covers can only shrink.
CheckpointsOnlyShrink ==
    [][/\ highWater' >= highWater
       /\ \A q \in messages' : q.seq <= highWater => \E r \in messages : r.seq = q.seq]_dbVars

\* An unexpired message is deleted only together with its whole conversation:
\* no sweep, prune, restart or opening loses one.
UnexpiredGoTogether ==
    [][\A r \in messages :
          Live(r, clock) /\ (\A q \in messages' : q.seq # r.seq)
            => \A q \in messages' : ~Between(q, r.sender, r.recipient)]_dbVars

\* A registration disappears only when its owner has no live message left:
\* the 30-day prune never cuts off an identity somebody is waiting for.
GoneOnlyWhenIdle ==
    [][\A a \in Addresses :
          lastActive[a] # Unregistered /\ lastActive'[a] = Unregistered
            => \A r \in messages' : Involves(r, a) => ~Live(r, clock')]_dbVars
=============================================================================
