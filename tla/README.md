# Verification of 0xchat

TLA+ models of the 0xchat server and browser client, checked with TLC, and
theorems about them checked with TLAPS.  Paths below are paths in the
repository; line numbers are in `PROJECT.json`.

## The system

0xchat is a small encrypted chat.  A Bun server keeps one SQLite file; browsers
and a terminal client sign message envelopes, post them, and learn of messages
over one server-sent event stream per client.  A message lives until its
recipient opens it (at most 24 hours), then for the lifetime its sender chose;
either participant can clear a conversation for both.

| Part | State | Operations | What makes it correct |
|---|---|---|---|
| Database, `src/server/db.ts` | messages, acceptance numbers, public keys, sessions, push subscriptions, daily counts | one transaction per exported function; a 30-second sweep | unique ids and rising acceptance numbers; final deadlines; no live message lost but with its conversation; no registration pruned under a live message; each identity counted once a day |
| Message and account routes, `routes/messages.ts`, `routes/account.ts` | requests between two awaits | check, await, write, publish | what is written is one write of the database; what is published is a complete, ordered log of it |
| Registration and sign-in, `routes/register.ts`, `routes/auth.ts` | requests that wait for a signature check | challenge, consume, await, write | a session or a registration for one signature, made for that store, address and origin |
| Challenge store, `challenge.ts` | two maps: challenges, and each subject's latest | issue, consume, cleanup | maps agree, single use, hard limit, no loss but by rule |
| Recovery, `recoverMessages`, `recovery-cursor.ts` | signed cursors held by clients | newest page with a checkpoint, older pages, recovery pages | no live message skipped |
| Live events, `sse.ts`, `routes/events.ts` | open streams, attention, one-use tokens, caps | publish, heartbeat, attention | caps hold and are released; newest attention wins |
| Push, `push.ts`, `routes/push.ts` | subscription copies | wake up once per message; dead endpoints deleted | alerts reach who enabled them, and nobody who disabled |
| Rate limits, `rate-limit.ts` | timestamps per key | hit | never more than the limit in a window |
| Browser conversation, `conversation-messages.ts`, `conversation-session.ts` | loaded messages, removed ids, early updates, buffer, cursors, requests in flight | synchronize, resume, events, paging, opening, clear, retry, expiry timer | synchronized means: all messages of the range, the server's deadlines; hidden until opened; removed only for cause |
| Browser connection, `sse-connection.ts`, `useSSE.ts` | socket, timers, backoff, generation, attention reports | connect, suspend, reconnect, report | one socket at a time; never nothing to wait for; both sides agree on attention |
| Browser identity, `identity-transition.ts`, `session.ts`, `useIdentity.ts`, `useSession.ts` | stored key and session, current attempt | log in, import, Burn, 401 | only the last attempt commits; the session in use is that of the identity on screen |
| Browser push, `usePushSubscription.ts`, `public/sw.js` | browser subscription, opt-ins, queue | enable, disable, reconcile | who disabled is not woken; On on screen is true |
| Conversation list, `useConversations.ts` | generation, latest refresh | refresh | newest refresh wins |
| Terminal client, `src/cli` | messages known, own copies, stream | read, watch, chat | follows the server; shows no incoming message before its opening |

The routes call the database synchronously.  JavaScript runs a handler to its
next `await`, so between two awaits a request is atomic and at each of them
any other request, the sweep, or a crash may come.  The routes publish to
`sse.ts` after the database has committed.  In the browser, `useSSE` hands
connection and event callbacks to the session, window focus is a second input,
and every change of either starts new *work*: whatever an earlier work awaited
is ignored when it comes.

The browser keeps its key and session in `localStorage`; importing a key,
burning the identity and logging in each take several awaits, and so do
enabling and disabling alerts, which in addition time out while their work
goes on.

What is hard here: sends and logins that wait for a signature check; openings
and clears from both sides and several devices; a crash between commit and
publish; pages read while rows come and go; streams that drop events on every
reconnect; focus changes during each await of the client; timers acting on
deadlines that may be out of date; answers to a request of an earlier session,
socket, identity or subscription.  `PROJECT.json` lists these hazards at their
lines, together with the properties that cover them.

## Modules

    MessageTable                    rows, their transitions, queries (no variables)
      ChatDatabase                  every table, one action per write: DbSpec
        MessageServer               handlers and live events; implements DbSpec
        RecoveryReader              pages read while the database changes
        ConversationSession         the browser session, on ConversationMessages
        TerminalClient              watch and chat over a stream that drops
      ConversationMessages          the browser's store (no variables)
    ChallengeStore                  the two maps of one store
      SignIn                        both stores and the routes that use them
    EventStreams                    tokens, stream endpoint, registry: RegistrySpec
      LiveConnection                SseConnection and useSSE against it
    EventLink                       abstract connection; LiveConnection implements it
    BrowserIdentity                 who a tab is, and its session
    PushAlerts                      alerts of a closed browser, both ends

    ChatDatabaseProofs              rows, registrations, activity, push subscriptions
      MessageRoutesProofs           MessageServer and RecoveryReader
      ConversationSessionProofs
      TerminalClientProofs
    ChallengeStoreProofs
      SignInProofs
    LiveConnectionProofs            EventStreams by itself, LiveConnection, EventLink
    BrowserProofs                   BrowserIdentity and PushAlerts

**MessageTable** models a row of `messages`, `createMessage`'s insert,
`openMessages`' update, and the history and recovery queries.  The ciphertext
and signature are opaque and left out.

**ChatDatabase** has a variable per table.  Each exported write of `db.ts` is
one action, because each runs in one transaction.  `Create` includes what the
insert trigger, `markAddressesActive` and `recordDailyActivity` do.  A replay
is no action here: it writes nothing.  `Sweep` is the interval callback of
`server.ts`, its four deletes together, since it awaits nothing.  `Restart` is
`initDb` on an existing file of the current schema.  The per-day hash key is
modelled by its effect: the same identity gives the same entry on the same
day.  Times are milliseconds of `Date.now()`, assumed never to step back.
`DbSpec` is the abstract specification of the server's data.

**MessageServer** puts the routes on top.  A request waits in a slot at
stage `body`, `signature` or `ids`, the awaits of `handleSendMessage` and
`handleOpenMessages`; clear and account deletion await nothing.  `published`
is the log of events per identity since the server started; `Readings` says
what a reader of such a log has after each event.  A crash is
`RestartServer`; with `published` and `base` reset it also stands for a crash
between a commit and its publish, of which nothing is to be shown here: that
a reader need not rely on the events of the server that crashed is
`NothingElseMissing` of the session, which reconnects.

**RecoveryReader** reads one conversation with the newest page, older pages
and recoveries that take several requests, while the database goes on.  A
cursor is the number it carries.

**ConversationMessages** has one operator per method of the class of that
name, on a store of `entries`, `removed`, `early`, `cleared` and `lead` (the
client's idea of server time).  **ConversationSession** makes each await of
`conversation-session.ts` a place where anything else may happen: `sync` is
the `synchronize()` or `resume()` under way with the request it waits for,
`buffered` and `decrypting` the events not applied yet, `opening` and `older`
the other two requests.  A request has two steps, the server's answer and the
client's continuation, and may fail before or after the server acted.  A
change of connection or focus drops what the old work was waiting for; the
code does the same by comparing works when it resumes.  An opening request of
superseded work may still reach the server: `OpenElsewhere` covers it, as it
does other devices of the same identity.  Lookups and openings of up to 100
ids are one request each.  `posted` makes clients use fresh ids, as
`crypto.randomUUID` does: an id is posted again only by a replay, which
`MessageServer` covers.

**ChallengeStore** has the two maps of the class, `entries` with the issue
order of a JavaScript `Map`, and `subjectToNonce`.  **SignIn** has the
server's two stores, for sign-in and for registration, by extending the module
and instantiating it once more, and the handlers of `routes/auth.ts` and
`routes/register.ts`: consume, await `verifySig`, write.  A signature is good
for the text it was made for; anybody may send a bad one.

**EventStreams** is `routes/events.ts` and `sse.ts`: `tokens`, `clients`, the
count per IP, and the streams whose cleanup has not run.  `registerClient`,
`unregisterClient`, attention reports, a failed write during publish and the
token timer are actions; none of them awaits between check and write.
**LiveConnection** composes it with the connection of one tab and the streams
of another device.  Every method and callback of `SseConnection` is an action,
and an answer that belongs to an earlier generation still comes.  Requests may
be lost before or after the server handled them.  **EventLink** is what the
connection promises: one thing at a time, a socket exactly while it dials or
is open.  `LinkSpec` maps its phase from the code's flags; there is a phase
"lost", active with nothing to wait for, which the abstract specification does
not have.

**BrowserIdentity** has `localStorage`, the state of `useIdentity`,
`useSession` and `App`, and one record per login, import or Burn in flight at
the await it waits at.  The server is who is registered and which tokens are
live.  Burn may be clicked again while one is under way, since the dialog stays
as it is: each click has its record in `burns`, and `BurnAtOnce` is the click
that finds no session in storage and leaves the server alone.  One tab is
modelled: several share `localStorage` without coordination, and what one
writes the other does not expect.  An import is
slightly over-approximated: any failure of its steps may come at any of them.

**PushAlerts** has both ends of wake-ups: the browser's subscription and
stored opt-ins, the operations of `usePushSubscription.ts` in their queue with
their timeouts, the server's rows and sends, and the push service, which knows
one live endpoint.  `stopped` and `strayed` are history: who was told that
alerts have stopped, and whether something happened that only the next
start-up check sets right.  Disabling with an address but no session removes
the subscription from the browser and does not ask the server.  An endpoint
the push service has called dead is assumed to stay dead: `push.ts` deletes
its row by the endpoint alone, without looking whether it was saved again.

**TerminalClient** is `follow()` and `chat()`: history page by page with a
confirmation of every message, then the stream's events in order, and a send.
`known` is follow's map, `own` the objects only chat's map holds.  A
confirmation that finds a message gone makes it unavailable.  `missed` is
history: messages whose live confirmation failed or took time, and those that
expired unopened while the history was read.

The `MC...` modules give envelopes, symmetries and views for TLC.

## Runs

| Run | Question | Bounds |
|---|---|---|
| `chat_database` | Do the tables stay sound in every order of writes? | 2 identities, an envelope each way, 2 acceptances, 2 endpoints with room for 1, 4 moments: past each deadline, the 30 days and a midnight |
| `sign_in` | Is every session and registration earned, and does the store keep its rules meanwhile? | 3 identities for 2 places, 2 origins, 3 sign-in challenges, 1 registration challenge, 2 requests waiting |
| `message_server` | Are events a complete and ordered log, and writes those of `DbSpec`? | 2 requests waiting, 2 acceptances, 2 events per identity |
| `message_recovery` | Is a live message ever skipped? | 4 acceptances, 1 in another conversation, pages of 1 row |
| `conversation_session` | Does a session that says it is synchronized have what the server has? | 2 messages, pages of 1 row, 4 changes of connection or focus, 2 events in flight, one moment |
| `conversation_lifetimes` | What is shown and removed as time passes; does synchronizing end? | 1 message, 3 moments, 3 changes of connection or focus |
| `live_connection` | One socket, exact counts, agreed attention, and a stream in the end? | 2 changes of the window, 1 failure, 1 stream of another device, 2 reports per stream, caps of 2, 7 tokens |
| `browser_identity` | Is the session in use that of the identity on screen, and does login end? | 4 identities, 2 of them generated, 3 imports, burns or expiries, 1 failed request, 8 sessions |
| `push_alerts` | Is nobody woken who disabled, and is On true? | 2 identities, 2 VAPID keys, 2 subscriptions, 3 identity changes, 4 operations, 1 late work |
| `terminal_client` | Does the terminal end up with what the server has? | 2 acceptances, pages of 1 row, 2 connections, 3 moments, so that a message also expires unopened |
| `lost_on_resume`, `own_message_stays` | see below: each shows a sentence of the repository violated | 1 acceptance, one moment |

The bounds are named in each `.cfg`: `MaxTime`, `MaxAccepted`, `MaxRowid`,
`MaxIssued`, `MaxPublished`, `MaxWork`, `MaxStream`, `MaxMoves`,
`MaxFailures`, `MaxChanges`, `MaxEpochs`, `MaxAsked` and the like bound
counters of the model, the rest are parameters of the program scaled down.
They are small since the hazards are between pairs: a row and the page
boundary before it, an event and the request it races, a deadline and the step
that acts on it, two logins, two identities of one browser.  Two messages are
needed for order and for a page boundary; one row per page makes every load
take several requests; four works allow a reconnect with a focus change before
and after it.  Two requests wait at once in
`message_server`, since two with one envelope are what a replay check may get
wrong; two events per stream are enough there for an opening after its message
or for two messages, and after a restart the log begins anew from whatever the
tables then hold.  Two generated identities let one Burn overtake another.
One failure of the network is enough to take any retry; two
changes of the window suspend and resume a connection at any of its awaits.
That the interesting cases happen inside these bounds is shown by the mutants:
for each property `PROJECT.json` names a plausible bug in one definition that
breaks the property under the same `.cfg`.

`MCView` leaves out tables of the database that nothing in the session reads,
so states that differ only there behave alike.  Deadlock is checked where
something is always left to do: the sweep of the server, the timers of the
connection.  In `sign_in`, `browser_identity`, `push_alerts`,
`terminal_client` and `own_message_stays` everything may come to rest once the
user's actions are spent, and deadlock is not checked.

### Fairness

`conversation_lifetimes`: `WF(SyncAnswer)`, a request of the session is
answered or fails, since the browser ends every request one way or the other;
`WF(SyncStep)`, the event loop resumes what has been answered, and the
draining loop goes on.  Nothing is assumed of the server's writes, the
connection, the user or the live events.  `Settles` then says that a session
left connected and focused becomes synchronized or shows its error.

`live_connection`: timers fire, time passes, a token request, a dial and a
socket succeed or fail, and a stream whose connection is gone is noticed by
the server.  All are alternatives the browser and the runtime decide between,
none is assumed to be the good one; that they fail only finitely often is the
bound `MaxFailures`.  `Reconnects` says that a visible tab ends up with a
stream.

`browser_identity`: effects run after a render, every request ends, and the
steps of a login, an import and a Burn go on after their awaits.  The user and
the expiry of sessions are not assumed fair.  `SignsIn` says that a registered
identity gets its session; it names one exception, `Forgotten`, described
below.

### What the runs found

Two runs check a sentence of the repository and find it violated.  Each is a
narrow case, described with its lines in `PROJECT.json`:

- `lost_on_resume`: a message being decrypted when the focus leaves and
  returns is dropped until the next reconnect.
- `own_message_stays`: `chat` puts its own copy of a sent message on the
  screen when the response comes; if the conversation was cleared before the
  live confirmation, nothing removes the copy until its lifetime is over.

The passing properties name their exceptions exactly: `NothingElseMissing`
excludes only messages in `forgotten`, `OtherDeadlinesAreAuthoritative` only
those in `stale`, `FollowsServer` those in `missed`, the push properties a
state in `strayed`: variables that no action's guard reads.

Reading the code for the models showed further differences, which no run
states as a property:

- A send may store a message for an identity the sweep pruned while the
  signature was checked: the recipient check of `routes/messages.ts` comes before
  the await, the write after it.
- A message accepted in the very millisecond of a clear, after it, stays on
  the server; clients drop it, since the event clears up to and including its
  time.
- An event buffered before a reconnect is applied after the refresh, with a
  deadline that the refresh may already have replaced (`stale`).
- A session that falls out of sync on a live stream ignores the answer of an
  opening request; its messages stay hidden with nothing to retry
  (`OpeningsAreSettled` says so).
- A Burn during a login leaves `loading` set with no login under way: the
  page says it is connecting until it is reloaded (`Forgotten`).  The same
  holds when the key generated by a Burn cannot be prepared.
- Burn clicked twice generates two identities.  When the earlier is prepared,
  `isRegistered` is set although the later is on screen, and its registration
  stays on the server, of a key that is nowhere stored.
- `App` offers the Retry of a failed start-up check only while `useIdentity` is
  loading, which it no longer is when the error is set; and its effect logs in
  again at once after a failed login, without waiting for that Retry button.
- An operation on alerts whose timeout rejected it goes on; an Enable goes on
  after its identity left the screen; a second Enable may undo the first.  The
  next start-up check of that identity sets the server and the browser right
  (`strayed`).  If removing the stored opt-in failed, a leftover subscription
  resumes alerts.
- In the terminal, a message whose live confirmation fails is reported as
  invalid and is not read again before the next reconnect (`missed`).
- A message that the terminal read unopened in its history, and whose time to
  be opened ends before the history does, is dropped there; if another device
  opened it meanwhile, the update that extends it finds nothing to extend, and
  the message stays unknown until the next reconnect (`missed`, too).  The
  proof attempt of `FollowsServer` found this, and the run has since had
  messages that expire unopened.

## Proofs

`ChatDatabaseProofs` proves, for any identities, ids, envelopes, tokens and
endpoints and any values of the bounds and times that meet the named
assumptions:

- `TypeCorrect`: types.
- `RowsSound`, `RegistrationsActive`: invariants.
- `FinalDeadlines`, `CheckpointsShrink`, `UnexpiredTogether`,
  `RegistrationsOutliveMessages`: what no step may do.
- `ActivityCountedOnce`, `SubscriptionsSound`: invariants of the daily counts
  and of the push subscriptions.

Assumptions are `RetentionAssumption`, `EnvelopeAssumption` (no message to
oneself, positive lifetimes: `routes/messages.ts` and `message-envelope.ts` refuse
others), `DatabaseAssumption` and `LifetimeAssumption` (24 hours to open and
at most 24 of lifetime fit in the 30 days of `PUBKEY_RETENTION_MS`); only
`RegistrationsOutliveMessages` needs the last.

The argument is one inductive invariant, `IInv`: types, `RowsAreSound`,
`ActiveSinceMessages`, and `LifetimesFit`, that the longest life of every stored
row fits in the 30 days.  `RowsAreSound` alone is not enough for the prune:
that a live message keeps its participants registered follows from their
having been active since it was accepted, and from the message's longest life.
`StepKinds` sorts the writes into those that only delete rows, those that
accept one and those that open some; each invariant is proved for the three
kinds, and the action properties follow from the invariant in the state
before the step.

`ActivityCountedOnce` needs that nothing is counted for days to come: with it
a new day starts from zero.  `SubscriptionsSound` needs that rowids differ, so
that the order the cap keeps the newest by is total, and that the newest k of
a finite set are at most k.

`ChallengeStoreProofs` proves `ChallengesCorrect`: types, agreement of the
maps, the limit and single use, for any number of subjects and any capacity
and lifetime.  Its invariant adds that nonces in the store were issued, and
that no two entries share one.  `OldestExists` shows that an eviction at the
limit always finds an entry to evict.

`LimitHolds` states the limit by itself.  The module also proves
`LossesByRule`, the reasons for which a challenge may leave the store: an
entry that is replaced belonged to the newcomer's subject because
the maps agree, and one that is evicted was the oldest of a full store.

`SignInProofs` shows that every step of the routes is a step of each of the
two stores or leaves it alone, so that the invariant of `ChallengeStoreProofs`
holds of both.  `EarnedInv` then says that a request waiting for `verifySig`
has spent its challenge, that at most one request or grant answers to a
challenge, and that what is granted was signed; `SingleUse` of the stores
makes it inductive.  `GrantsEarned` and `SessionStoreCorrect` follow.

`MessageRoutesProofs` proves that the routes implement `DbSpec`
(`ServerImplementsDatabase`): each action of MessageServer is one write or
none.  Its invariant adds that no message is to its own sender, since opening
"from oneself" would be no write of `DbNext`.  `ServerRowsSound` carries the
soundness of rows over.  `StreamsOrdered` rests on what makes the order of a
stream inductive: every published event is `Settled`, its number not above the
high-water mark and, if it tells of an opening, the row of that number final.
A write never unsettles an event, a new message has a higher number, and only
rows that are not final are opened.

`StreamsComplete` says that the log of events is complete: applied in order by
whoever was connected all the time it gives the table.  `Readings` is a
recursive function over the log; that it is there at all, and that events
added at the end do not change what was held before, is shown by a smallest
number of events for which it would fail.  The invariant, `CompleteInv`, is the
property with types: each write takes from, adds to or replaces in what a
reader holds just what it does in the table.  An opening publishes several
updates in whatever order its query returned the rows, so `Midway` says what a
reader has between two of them.

The same module proves `NothingIsSkipped` and `RecoveriesAdvance` for
every page size and every table.  Half of it is about pages: the first n rows
of a finite set of numbered rows are closed downwards, at most n, all of them
if fewer than n; the same for the last n.  `HistoryPage` and `RecoveryPage`
say what a page of either kind contains.  The invariant adds that cursors stay
below the high-water mark, so that what is accepted later is beyond them, and
`LiveBefore` that a live row under a number handed out was live under it
before.

`LiveConnectionProofs` proves of the registry alone that its counts are exact
and the caps hold, and that a token opens one stream (`CountsCorrect`,
`TokensCorrect`).  Its invariant, `RegistryInv`, ties clients, streams to be
cleaned up, tokens and counts together: a place in a cap is returned by the
cleanup of exactly one stream.

The module carries the counts over to the composition
(`CountsStayExact`) and proves `LinkImplemented`, the refinement of EventLink.
Its invariant says that timer, request and socket exclude each other, that a
timer runs for what is left until `retryAt`, and that a request in flight
leaves no retry time: this is what keeps `Activate`, which goes by `retryIn`
alone, from setting a timer beside a request.

`AttentionIsKnown` rests on `AttentionInv`: until the socket opens nothing was
reported on its stream, and its client says what the dial said; from then on
the report with the highest number carries what `useSSE` believes, and it is
the last the client took or still in flight.

`ConversationSessionProofs` proves every safety property of the session, for
any page size and table.  Its invariants build on each other:

- `Core`: a sound table, `Control` (work is under way only while connected and
  attentive; a failed or interrupted synchronization knows where to go on), a
  sound store, and `CopiesSound`: whatever the store holds, or a page, answer
  or event carries, is a version of an accepted message, and of two versions
  the final one is the server's.  `SessionNeverStuck`, `SessionStaysCleared`,
  `SessionShowsOpened`, `SessionOpensWatching` and `SessionSettlesOpenings`
  follow from it.
- `Currency`: a copy that is not the server's row has an update or a clear on
  its way behind it, was dropped by the client, is superseded in the store, or
  is marked `stale`.  From it follow `SessionDeadlines` and
  `SessionShowsNoGhosts`, and with `AnswersComplete` (answers about single
  messages list all that are live) `SessionRemovesForCause`.
- `Coverage`: a live message of the conversation is in the store or removed if
  the recovery cursor has passed it, on a page or in the stream if it is
  beyond, and never between the two.  It is `SessionMissesNothingElse`.

The operators of ConversationMessages have lemmas of their own there: each
keeps the store sound, and what it holds afterwards it held before or was
given (`Evolves`).

`BrowserProofs` proves the three safety properties of BrowserIdentity from
`IdentityInv`: the session in use, the one in storage and the logins that still
count are all of the identity on screen or, from the local part of a Burn to
the next effect of `useSession`, all of another; and a key that a Burn
generates has no session and no login before.  `LiveSessionStays` says that a
live session ends only by a step of the latest import.  `AlertsInv`, for
`StoppedStaysStopped` and `OnIsReal`, says that but for late works one
operation has its turn; that the start-up checks in the queue are of later
epochs than everything asked before them; and, of the operation whose turn it
is, what it may still save, holds and shows at the stage it has reached
(`TurnKept`).  While nothing has strayed, the subscription held is of no
identity in `stopped`, and the operation whose turn it is saves none for one.

`TerminalClientProofs` proves `ExposedAreOpened` from `ClientCore` (types, what is
under way, copies that are versions of accepted messages), and
`TerminalFollows` from `FollowsInv`: while the stream is open, every difference
between what is held and the table is on its way in the stream, and every live
message is held, arriving, still to be read or confirmed, or in `missed`.
`Evolves` and `FollowsStep` say once what a write of the server does to that.

Constants carry the assumptions named in the modules that declare them, and
nothing else is assumed.

Only model-checked: `Settles`, `Reconnects` and `SignsIn`, which rest on fairness
and are out of the prover's reach.  The two violated sentences are
counterexamples, which TLC finds.

## Not modelled

Cryptography, parsing, rendering, static files and the public key lookup: pure
functions or reads.  The daily activity command, which prints one query.
Schema migrations.  A clock that steps back.  Rate limits: a refusal has no
effect and the models let every request fail; the window itself is sequential.
The list of conversations, whose overlapping refreshes are listed as a hazard.
Several tabs sharing one `localStorage`, and a storage that is blocked or
corrupt.  The service worker, which shows a fixed text.  In the terminal
client: signing in again, arguments, identity files and drawing.  The HMAC of
a recovery cursor.

## Plan

Done: MessageTable and ChatDatabase; ChallengeStore and SignIn; MessageServer;
RecoveryReader; ConversationMessages and ConversationSession; EventStreams,
EventLink and LiveConnection; BrowserIdentity; PushAlerts; TerminalClient.
Every safety property a passing run checks is a theorem, as are both
refinements.

Proofs that remain worth having: that a recovery that ends without failure has
read everything its bound covers, as an abstract reader that takes one page;
that the session implements a client of the complete log.  Models that remain:
the window of the rate limiters against a reference count, and the refreshes
of the conversation list.
