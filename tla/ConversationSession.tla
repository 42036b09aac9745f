------------------------- MODULE ConversationSession -------------------------
(***************************************************************************)
(* One browser's session of one conversation,                              *)
(* src/client/lib/conversation-session.ts, against the server's database   *)
(* and over a live event stream that may drop.  Every await is a place     *)
(* where anything else may happen: server writes, events, focus changes,   *)
(* lost connections.  A change of connection or attention starts new work  *)
(* and everything begun before is ignored when it resumes; the model drops *)
(* it at once.                                                             *)
(*                                                                         *)
(*   posted         ids clients have posted; each message is sealed once     *)
(*   work           how many works began before the current one            *)
(*   conn, stream   the live stream is up; its events in flight            *)
(*   attentive      the window is visible and focused                      *)
(*   store          the loaded messages (ConversationMessages)             *)
(*   synced         synchronizedWork is the current work                   *)
(*   syncedHere     synchronizedWork was on the current connection         *)
(*   sync           the synchronize() or resume() under way, or that it     *)
(*                  failed and the error waits for retry()                 *)
(*   checkpoint     recoveryCursor                                         *)
(*   buffered       live events held until synchronized                    *)
(*   decrypting     messages receive() is decrypting                       *)
(*   hasMore, olderCursor, older   history paging and its request          *)
(*   wantOpen, opening             openPending's queue and its request     *)
(*   ownClear       the time of a clear() whose answer is still to come    *)
(*   forgotten      observed only: messages whose decryption a focus       *)
(*                  change superseded on the current connection            *)
(*   stale          observed only: messages buffered when a stream dropped *)
(***************************************************************************)
EXTENDS ChatDatabase, ConversationMessages, Sequences
LOCAL INSTANCE SequencesExt

CONSTANTS
    partner,
    PageSize,       \* PAGE_SIZE
    RecoveryLimit,  \* rows in a recovery page of the server
    MaxRounds,      \* MAX_REFRESH_ROUNDS
    MaxWork,        \* bound on work: changes of connection and attention
    MaxStream       \* bound on stream and buffered

\* The envelopes of other conversations are no concern of this session.
ASSUME SessionAssumption ==
    /\ me \in Addresses /\ partner \in Addresses /\ me # partner
    /\ \A e \in Envelopes : Between(e, me, partner)
    /\ PageSize \in Nat \ {0} /\ RecoveryLimit \in Nat \ {0} /\ MaxRounds \in Nat \ {0}
    /\ MaxWork \in Nat /\ MaxStream \in Nat

VARIABLES posted, work, conn, stream, attentive, store, synced, syncedHere, sync, checkpoint,
          buffered, decrypting, hasMore, olderCursor, older, wantOpen, opening, ownClear,
          forgotten, stale

link     == <<work, conn, attentive>>
syncing  == <<synced, syncedHere, sync, checkpoint>>
incoming == <<buffered, decrypting>>
paging   == <<hasMore, olderCursor, older>>
openings == <<wantOpen, opening>>
client   == <<link, store, syncing, incoming, paging, openings, ownClear>>
observed == <<forgotten, stale>>
vars     == <<dbVars, posted, stream, client, observed>>

None == -1
Idle == [stage |-> "idle"]
Failed == [stage |-> "failed"]

Message(r)      == [type |-> "message", row |-> r]
ExpiryUpdate(r) == [type |-> "expiry-update", row |-> r]
Clearance(at)   == [type |-> "conversation-cleared", at |-> at]

\* A session opened in a focused window before its stream is up.
Init ==
    /\ DbInit /\ posted = {}
    /\ work = 0 /\ conn = FALSE /\ stream = <<>> /\ attentive = TRUE
    /\ store = EmptyStore
    /\ synced = FALSE /\ syncedHere = FALSE /\ sync = Idle /\ checkpoint = None
    /\ buffered = <<>> /\ decrypting = {}
    /\ hasMore = FALSE /\ olderCursor = None /\ older = Idle
    /\ wantOpen = FALSE /\ opening = Idle
    /\ ownClear = None
    /\ forgotten = {} /\ stale = {}

-----------------------------------------------------------------------------
(* The server: its writes, and the events they send down a stream that is up *)

Tell(events) ==
    /\ stream' = IF conn THEN stream \o events ELSE stream
    /\ Len(stream') + Len(buffered) <= MaxStream

\* A message of either participant, under the fresh random id it was sealed
\* with.
Accept(e) ==
    /\ e.id \notin posted /\ posted' = posted \cup {e.id}
    /\ Create(e)
    /\ Tell(<<Message(AcceptedRow(e, NextSeq, clock))>>)
    /\ UNCHANGED <<client, observed>>

\* `a` opens messages of `b`, in the order of some query.
OpenAndTell(a, b, ids) ==
    /\ Open(a, b, ids)
    /\ \E updates \in SetToSeqs(NewlyOpened(Available(a, b, ids))) :
         Tell([i \in DOMAIN updates |-> ExpiryUpdate(OpenedRow(updates[i], clock))])

\* The partner opens, another client of this identity does, or an opening
\* request whose work was superseded gets to the server after all.
OpenElsewhere(a, b) ==
    /\ \E ids \in SUBSET IdsOf(NewlyOpened(Available(a, b, Ids))) \ {{}} : OpenAndTell(a, b, ids)
    /\ UNCHANGED <<posted, observed, client>>

PartnerClears ==
    /\ Clear(partner, me)
    /\ Tell(<<Clearance(clock)>>)
    /\ UNCHANGED <<posted, observed, client>>

Pass         == Tick /\ UNCHANGED <<posted, observed, stream, client>>
SweepExpired == Sweep /\ UNCHANGED <<posted, observed, stream, client>>

-----------------------------------------------------------------------------
(* Work: connection and attention *)

AskServer(from, bound) == [stage |-> "ask", from |-> from, bound |-> bound]

\* mutant: a session that fell out of sync waits for the next reconnect
StartSyncNever == Idle

\* synchronize() at its start: history before the first checkpoint, then the
\* recovery of everything after it.
StartSync == IF conn /\ attentive THEN AskServer(checkpoint, None) ELSE Idle

\* startWork
Supersede(keptStore) ==
    /\ work < MaxWork /\ work' = work + 1
    /\ store' = keptStore
    /\ synced' = FALSE
    /\ decrypting' = {} /\ older' = Idle /\ wantOpen' = FALSE /\ opening' = Idle
    /\ UNCHANGED <<buffered, hasMore, olderCursor, checkpoint, ownClear, posted, dbVars>>

Connect ==
    /\ ~conn
    /\ conn' = TRUE /\ stream' = <<>>
    /\ Supersede(CancelOpening(store))
    /\ syncedHere' = FALSE
    /\ sync' = IF attentive THEN AskServer(checkpoint, None) ELSE Idle
    /\ UNCHANGED <<attentive, observed>>

\* Events in flight are lost.
Disconnect ==
    /\ conn
    /\ conn' = FALSE /\ stream' = <<>>
    /\ Supersede(CancelOpening(store))
    /\ syncedHere' = FALSE
    /\ sync' = Idle
    /\ forgotten' = {}
    /\ stale' = stale \cup {buffered[i].row.seq : i \in DOMAIN buffered}
    /\ UNCHANGED attentive

LoseAttention ==
    /\ attentive
    /\ attentive' = FALSE
    /\ Supersede(CancelOpening(store))
    /\ sync' = Idle
    /\ forgotten' = forgotten \cup {r.seq : r \in decrypting}
    /\ UNCHANGED <<conn, stream, syncedHere, stale>>

Drain(completed) == [stage |-> "drain", completed |-> completed]

\* attentionChanged(true) and the start of resume().
RegainAttention ==
    /\ ~attentive
    /\ attentive' = TRUE
    /\ Supersede(SweepStore(CancelOpening(store), ClientNow(store, clock), FALSE))
    /\ sync' = CASE conn /\ syncedHere  -> Drain(None)
                 [] conn /\ ~syncedHere -> AskServer(checkpoint, None)
                 [] ~conn               -> Idle
    /\ UNCHANGED <<conn, stream, syncedHere, observed>>

-----------------------------------------------------------------------------
(* synchronize(): pages *)

\* The server answers for history or for a recovery page.
AnswerPage ==
    /\ sync.stage = "ask"
    /\ LET bound == IF sync.bound = None THEN highWater ELSE sync.bound
           newest == HistoryRows(messages, me, partner, highWater + 1, PageSize, clock)
           rows == RecoveryFetch(messages, me, partner, sync.from, bound, RecoveryLimit, clock)
           page == FirstRows(rows, RecoveryLimit)
       IN  sync' =
             IF sync.from = None
             THEN [stage |-> "page", first |-> TRUE, rows |-> newest, upper |-> highWater, next |-> None]
             ELSE [stage |-> "page", first |-> FALSE, rows |-> page, upper |-> bound,
                   next |-> IF Cardinality(rows) <= RecoveryLimit THEN None ELSE MaxSeqOf(page)]
    /\ UNCHANGED <<dbVars, posted, observed, stream, link, store, synced, syncedHere, checkpoint,
                   incoming, paging, openings, ownClear>>

\* mutant: the rounds stop at what is already loaded
RoundIdsNone(loaded, refreshed) == {}

\* The ids a round of the refresh still has to look up.
RoundIds(loaded, refreshed) == loaded \ refreshed

\* The next lookup, or what follows the last one.
NextRound(loaded, round, refreshed, completed) ==
    LET ids == RoundIds(loaded, refreshed)
    IN  IF ids = {} THEN Drain(completed)
        ELSE [stage |-> "look", goal |-> "round", round |-> round, refreshed |-> refreshed,
              ids |-> ids, completed |-> completed, started |-> clock]

\* The recovery cursor after a page: a first page's is kept at once.
Baseline == IF sync.first THEN sync.upper ELSE checkpoint

\* A page has come, the conversation list was refreshed and its messages are
\* decrypted.
TakePage ==
    /\ sync.stage = "page"
    /\ store' = Add(store, sync.rows)
    /\ checkpoint' = Baseline
    /\ IF sync.first
       THEN /\ olderCursor' = IF sync.rows = {} THEN None ELSE MinSeqOf(sync.rows)
            /\ hasMore' = (Cardinality(sync.rows) = PageSize)
       ELSE UNCHANGED <<olderCursor, hasMore>>
    /\ sync' = IF sync.next # None THEN AskServer(sync.next, sync.upper)
               ELSE NextRound(LoadedIds(store'), 0, {}, sync.upper)
    /\ UNCHANGED <<dbVars, posted, observed, stream, link, synced, syncedHere, incoming, older, openings, ownClear>>

-----------------------------------------------------------------------------
(* synchronize(): lifecycle lookups *)

\* getMessageStates
AnswerLookup ==
    /\ sync.stage = "look"
    /\ sync' = [stage |-> "states", goal |-> sync.goal, round |-> sync.round, refreshed |-> sync.refreshed,
                ids |-> sync.ids, completed |-> sync.completed, started |-> sync.started, time |-> clock,
                found |-> {r \in LiveBetween(messages, me, partner, clock) : r.id \in sync.ids}]
    /\ UNCHANGED <<dbVars, posted, observed, stream, link, store, synced, syncedHere, checkpoint,
                   incoming, paging, openings, ownClear>>

\* mutant: the error is only logged
AfterFailureSilent == Idle

\* A failed resume() falls back to synchronize().
AfterFailure ==
    IF sync.stage \in {"look", "states"} /\ sync.completed = None THEN StartSync ELSE Failed

\* A whole answer is applied; another round follows for what loaded since.
TakeStates ==
    /\ sync.stage = "states"
    /\ store' = ApplyStates(store, sync.ids, sync.found, sync.time, sync.started)
    /\ LET refreshed == sync.refreshed \cup sync.ids
           next == NextRound(LoadedIds(store'), sync.round + 1, refreshed, sync.completed)
       IN  sync' = IF ~StatesComplete(store, sync.ids, sync.found) THEN AfterFailure
                   ELSE IF sync.goal = "drain" THEN Drain(sync.completed)
                   ELSE IF next.stage = "look" /\ next.round = MaxRounds THEN Failed
                   ELSE next
    /\ UNCHANGED <<dbVars, posted, observed, stream, link, synced, syncedHere, checkpoint, incoming, paging,
                   openings, ownClear>>

-----------------------------------------------------------------------------
(* drainBuffered, and becoming synchronized *)

\* mutant: an update for a message still to load is lost
BufferedAppliedLate(s, event) == s

BufferedApplied(s, event) ==
    IF event.type = "message" THEN Add(s, {event.row}) ELSE ApplyLifecycle(s, event.row)

\* One buffered event; messages are decrypted first.
DrainOne ==
    /\ sync.stage = "drain" /\ buffered # <<>>
    /\ store' = BufferedApplied(store, Head(buffered))
    /\ buffered' = Tail(buffered)
    /\ UNCHANGED <<dbVars, posted, observed, stream, link, syncing, decrypting, paging, openings, ownClear>>

NeedsTime == ~HasServerTime(store) /\ store.entries # {}

\* Without server time the loaded messages are looked up once more.
DrainLookup ==
    /\ sync.stage = "drain" /\ buffered = <<>> /\ NeedsTime
    /\ sync' = [stage |-> "look", goal |-> "drain", round |-> 0, refreshed |-> {},
                ids |-> LoadedIds(store), completed |-> sync.completed, started |-> clock]
    /\ UNCHANGED <<dbVars, posted, observed, stream, link, store, synced, syncedHere, checkpoint,
                   incoming, paging, openings, ownClear>>

\* The end of synchronize() and, with no checkpoint of its own, of resume().
Synchronized ==
    /\ sync.stage = "drain" /\ buffered = <<>> /\ ~NeedsTime
    /\ synced' = TRUE /\ syncedHere' = TRUE
    /\ store' = SweepStore(store, ClientNow(store, clock), TRUE)
    /\ sync' = Idle
    /\ checkpoint' = IF sync.completed = None THEN checkpoint ELSE sync.completed
    /\ wantOpen' = TRUE
    /\ UNCHANGED <<dbVars, posted, observed, stream, link, incoming, paging, opening, ownClear>>

\* A request fails.
SyncFails ==
    /\ sync.stage \in {"ask", "page", "look", "states"}
    /\ sync' = AfterFailure
    /\ UNCHANGED <<dbVars, posted, observed, stream, link, store, synced, syncedHere, checkpoint, incoming,
                   paging, openings, ownClear>>

\* retry()
Retry ==
    /\ sync = Failed
    /\ sync' = StartSync
    /\ UNCHANGED <<dbVars, posted, observed, stream, link, store, synced, syncedHere, checkpoint, incoming,
                   paging, openings, ownClear>>

-----------------------------------------------------------------------------
(* Live events *)

\* receive and applyExpiryUpdate while not synchronized.
BufferEvent ==
    /\ stream # <<>> /\ ~synced
    /\ Head(stream).type # "conversation-cleared"
    /\ stream' = Tail(stream)
    /\ buffered' = Append(buffered, Head(stream))
    /\ UNCHANGED <<dbVars, posted, observed, link, store, syncing, decrypting, paging, openings, ownClear>>

\* receive starts decrypting.
ReceiveMessage ==
    /\ stream # <<>> /\ synced
    /\ Head(stream).type = "message"
    /\ stream' = Tail(stream)
    /\ decrypting' = decrypting \cup {Head(stream).row}
    /\ UNCHANGED <<dbVars, posted, observed, link, store, syncing, buffered, paging, openings, ownClear>>

\* receive goes on: still synchronized or the message is dropped.
Decrypted(r) ==
    /\ r \in decrypting
    /\ decrypting' = decrypting \ {r}
    /\ IF synced
       THEN LET added == Add(store, {r})
            IN  /\ store' = added
                /\ wantOpen' = TRUE
                /\ IF HasServerTime(added) THEN UNCHANGED <<synced, syncedHere, sync>>
                   ELSE synced' = FALSE /\ syncedHere' = FALSE /\ sync' = StartSync
       ELSE UNCHANGED <<store, wantOpen, synced, syncedHere, sync>>
    /\ UNCHANGED <<dbVars, posted, observed, stream, link, checkpoint, buffered, paging, opening, ownClear>>

ReceiveUpdate ==
    /\ stream # <<>> /\ synced
    /\ Head(stream).type = "expiry-update"
    /\ stream' = Tail(stream)
    /\ store' = ApplyLifecycle(store, Head(stream).row)
    /\ UNCHANGED <<dbVars, posted, observed, link, syncing, incoming, paging, openings, ownClear>>

\* A clear applies whether or not the session is synchronized.
ReceiveClear ==
    /\ stream # <<>>
    /\ Head(stream).type = "conversation-cleared"
    /\ stream' = Tail(stream)
    /\ store' = ClearThrough(store, Head(stream).at)
    /\ UNCHANGED <<dbVars, posted, observed, link, syncing, incoming, paging, openings, ownClear>>

-----------------------------------------------------------------------------
(* clear(), the expiry timer, older pages *)

\* The server gets this session's clear(); its button is disabled until the
\* answer comes.
ClearHere ==
    /\ ownClear = None
    /\ Clear(me, partner)
    /\ Tell(<<Clearance(clock)>>)
    /\ ownClear' = clock
    /\ UNCHANGED <<posted, observed, link, store, syncing, incoming, paging, openings>>

ClearAnswered ==
    /\ ownClear # None
    /\ ownClear' = None
    /\ store' = ClearThrough(store, ownClear)
    /\ UNCHANGED <<dbVars, posted, observed, stream, link, syncing, incoming, paging, openings>>

\* The answer is lost; the event may still come.
ClearFails ==
    /\ ownClear # None
    /\ ownClear' = None
    /\ UNCHANGED <<dbVars, posted, observed, stream, link, store, syncing, incoming, paging, openings>>

\* publish()'s timer
ExpiryTimer ==
    /\ store' = SweepStore(store, ClientNow(store, clock), synced)
    /\ store' # store
    /\ UNCHANGED <<dbVars, posted, observed, stream, link, syncing, incoming, paging, openings, ownClear>>

AskOlder ==
    /\ synced /\ older = Idle /\ hasMore /\ olderCursor # None
    /\ older' = [stage |-> "ask"]
    /\ UNCHANGED <<dbVars, posted, observed, stream, link, store, syncing, incoming, hasMore, olderCursor, openings, ownClear>>

AnswerOlder ==
    /\ older.stage = "ask"
    /\ older' = [stage |-> "page",
                 rows |-> HistoryRows(messages, me, partner, olderCursor, PageSize, clock)]
    /\ UNCHANGED <<dbVars, posted, observed, stream, link, store, syncing, incoming, hasMore, olderCursor, openings, ownClear>>

TakeOlder ==
    /\ older.stage = "page"
    /\ store' = Add(store, older.rows)
    /\ olderCursor' = IF older.rows = {} THEN None ELSE MinSeqOf(older.rows)
    /\ hasMore' = (Cardinality(older.rows) = PageSize)
    /\ older' = Idle
    /\ wantOpen' = TRUE
    /\ UNCHANGED <<dbVars, posted, observed, stream, link, syncing, incoming, opening, ownClear>>

\* The cursor only advances on success.
OlderFails ==
    /\ older # Idle
    /\ older' = Idle
    /\ UNCHANGED <<dbVars, posted, observed, stream, link, store, syncing, incoming, hasMore, olderCursor, openings, ownClear>>

-----------------------------------------------------------------------------
(* openPending *)

\* mutant: openings are requested out of sync too
MayOpenAlways == TRUE

MayOpen == synced

\* The next run of the queue: requests one after the other.
OpenPending ==
    /\ wantOpen /\ opening = Idle
    /\ wantOpen' = FALSE
    /\ IF MayOpen /\ PendingIds(store) # {}
       THEN /\ opening' = [stage |-> "sent", ids |-> PendingIds(store), started |-> clock]
            /\ store' = TakePending(store)
       ELSE UNCHANGED <<opening, store>>
    /\ UNCHANGED <<dbVars, posted, observed, stream, link, syncing, incoming, paging, ownClear>>

AnswerOpening ==
    /\ opening.stage = "sent"
    /\ OpenAndTell(me, partner, opening.ids)
    /\ opening' = [stage |-> "answered", ids |-> opening.ids, started |-> opening.started, time |-> clock,
                   found |-> {r \in messages' : r.id \in IdsOf(Available(me, partner, opening.ids))}]
    /\ UNCHANGED <<posted, observed, link, store, syncing, incoming, paging, wantOpen, ownClear>>

TakeOpening ==
    /\ opening.stage = "answered"
    /\ opening' = Idle
    /\ store' = IF synced
                THEN ConfirmOpening(store, opening.ids, opening.found, opening.time, opening.started)
                ELSE store
    /\ UNCHANGED <<dbVars, posted, observed, stream, link, syncing, incoming, paging, wantOpen, ownClear>>

\* The request or its answer is lost.
OpeningFails ==
    /\ opening # Idle
    /\ opening' = Idle
    /\ store' = FailOpening(store, opening.ids)
    /\ UNCHANGED <<dbVars, posted, observed, stream, link, syncing, incoming, paging, wantOpen, ownClear>>

\* retryOpening()
RetryOpening ==
    /\ InState(store, "failed") # {}
    /\ store' = RetryFailed(store)
    /\ wantOpen' = TRUE
    /\ UNCHANGED <<dbVars, posted, observed, stream, link, syncing, incoming, paging, opening, ownClear>>

-----------------------------------------------------------------------------

ServerStep ==
    \/ \E e \in Envelopes : Accept(e)
    \/ OpenElsewhere(partner, me) \/ OpenElsewhere(me, partner)
    \/ PartnerClears \/ SweepExpired \/ Pass

LinkStep == Connect \/ Disconnect \/ LoseAttention \/ RegainAttention

\* Requests are answered, if nothing else happens to them ...
AnswerStep == AnswerPage \/ AnswerLookup \/ AnswerOlder \/ AnswerOpening

\* ... and what was awaited goes on.
ClientStep ==
    \/ TakePage \/ TakeStates \/ DrainOne \/ DrainLookup \/ Synchronized
    \/ BufferEvent \/ ReceiveMessage \/ ReceiveUpdate \/ ReceiveClear
    \/ \E r \in decrypting : Decrypted(r)
    \/ ClearAnswered \/ ExpiryTimer \/ TakeOlder \/ OpenPending \/ TakeOpening

UserStep == ClearHere \/ AskOlder \/ Retry \/ RetryOpening

FailStep == SyncFails \/ OlderFails \/ OpeningFails \/ ClearFails

Next == ServerStep \/ LinkStep \/ AnswerStep \/ ClientStep \/ UserStep \/ FailStep

Spec == Init /\ [][Next]_vars

\* A lookup or page is answered or fails, and the event loop resumes what is
\* ready.
SyncAnswer == AnswerPage \/ AnswerLookup \/ SyncFails
SyncStep   == TakePage \/ TakeStates \/ DrainOne \/ DrainLookup \/ Synchronized
FairSpec   == Spec /\ WF_vars(SyncAnswer) /\ WF_vars(SyncStep)

-----------------------------------------------------------------------------

\* An event about row r of one type is in flight.
InFlight(type, r) ==
    \E i \in DOMAIN stream : stream[i].type = type /\ stream[i].row.seq = r.seq

\* The live messages of the range this session loaded.
InRange == {r \in LiveBetween(messages, me, partner, clock) : ~hasMore \/ r.seq >= olderCursor}

\* A synchronized session has row r, or is about to: in flight, being
\* decrypted, or removed for good (see RemovedForCause).
HasOrAwaits(r) ==
    \/ r.id \in LoadedIds(store) \cup store.removed
    \/ InFlight("message", r)
    \/ \E d \in decrypting : d.seq = r.seq

\* A synchronized session misses no live message within the range it loaded,
\* through lost streams, failed requests and focus changes, but for those
\* whose decryption a focus change cut short.
NothingElseMissing ==
    synced => \A r \in InRange : HasOrAwaits(r) \/ r.seq \in forgotten

\* "Regaining attention on the stream that was synchronized before needs no
\* refresh: it stayed live, so every change since is in the buffer",
\* src/client/lib/conversation-session.ts.
NothingMissing == synced => \A r \in InRange : HasOrAwaits(r)

\* Entry e runs on the server's deadline, or the update that makes it so is
\* in flight.
Authoritative(e) ==
    \A r \in messages : e.row.seq = r.seq => e.row = r \/ InFlight("expiry-update", r)

\* Every deadline a synchronized session runs on is the server's, whatever the
\* order of pages, lookups, events, reconnects and focus changes, but for
\* messages that were buffered when a stream dropped.
OtherDeadlinesAreAuthoritative ==
    synced => \A e \in store.entries : Authoritative(e) \/ e.row.seq \in stale

\* What a synchronized session shows is on the server, or news to the contrary
\* is on its way: no cleared and no swept message stays on the screen.
NoGhosts ==
    synced => \A e \in Displayed(store, clock) :
        \/ \E r \in messages : r.seq = e.row.seq
        \/ e.row.seq \in stale
        \/ InFlight("expiry-update", e.row)
        \/ \E i \in DOMAIN stream : stream[i].type = "conversation-cleared"
        \/ ownClear # None

\* An incoming message is not shown before the server has started its
\* lifetime ("remain hidden until the server confirms their opening deadline",
\* docs/domain-behavior.md), synchronized or not.
HiddenUntilOpened ==
    \A e \in store.entries : e.opening = "confirmed" =>
        /\ IsFinal(e.row)
        /\ \A r \in messages : r.seq = e.row.seq => r = e.row

\* Cleared messages stay gone, whichever page, event or buffered event brings
\* them back.
ClearedStayGone ==
    \A e \in store.entries : e.row.created > store.cleared /\ e.row.id \notin store.removed

\* A connected, focused session is synchronized, on its way there or shows an
\* error that can be retried: no interleaving of work leaves it recovering with
\* nothing under way.
NeverStuck == conn /\ attentive => synced \/ sync # Idle

\* An opening is only ever requested by a focused window with a live stream
\* and a synchronized session ("A background tab ... does not start an
\* unopened message's lifetime", docs/domain-behavior.md).
OpensOnlyWhileWatching ==
    [][opening = Idle /\ opening' # Idle => conn /\ attentive /\ synced]_vars

\* When an opening request ends, by its answer, its failure, a reconnect or a
\* change of focus, none of its messages is left waiting for it; only a
\* session that fell out of sync on a live stream ignores an answer.
OpeningsAreSettled ==
    [][opening # Idle /\ opening' = Idle /\ (synced \/ link' # link) =>
          \A e \in InState(store', "requested") : e.row.id \notin opening.ids]_vars

\* A message the server still delivers is removed for good only by a clear, by
\* its deadline on the client's conservative clock or, in a synchronized
\* session, by an older deadline while news of its opening is on the way: out
\* of sync no message is dropped on a deadline that may have been replaced.
RemovedForCause ==
    [][\A r \in LiveBetween(messages, me, partner, clock) :
          r.id \in store'.removed \ store.removed =>
             \/ r.created <= store'.cleared
             \/ ClientNow(store', clock) >= r.expires
             \/ synced' /\ (InFlight("expiry-update", r) \/ r.seq \in stale)]_vars

\* A session left connected and focused becomes synchronized or reports an
\* error.
Settles == (conn /\ attentive) ~> (synced \/ sync = Failed \/ ~conn \/ ~attentive)
=============================================================================
