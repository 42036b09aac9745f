------------------------ MODULE ConversationMessages ------------------------
(***************************************************************************)
(* The client's store of one conversation's loaded messages,               *)
(* src/client/lib/conversation-messages.ts, as operators on a store:       *)
(*                                                                         *)
(*   entries  the loaded messages, each with the last lifecycle learned    *)
(*            and its opening state; "none" for the client's own messages  *)
(*   removed  ids that must not come back                                  *)
(*   early    updatesBeforeLoad: lifecycles of messages not loaded yet     *)
(*   cleared  clearedThrough                                               *)
(*   lead     serverOffset, as the ticks by which the client's idea of     *)
(*            server time is ahead of it; Unknown before the first answer. *)
(*            The monotonic clock runs at the server's rate.               *)
(*                                                                         *)
(* Signatures were checked and plaintexts decrypted before anything gets   *)
(* here.  `revealed` is left out: what is shown needs a synchronized,      *)
(* hence attentive, session (ConversationSession), except for final        *)
(* deadlines that were shown before.                                       *)
(***************************************************************************)
EXTENDS MessageTable

CONSTANT me   \* the identity whose client this is

Unknown == -1
Never == -1   \* clearedThrough before any clear

EmptyStore == [entries |-> {}, removed |-> {}, early |-> {}, cleared |-> Never, lead |-> Unknown]

IdsOf(rows) == {r.id : r \in rows}
LoadedIds(store) == {e.row.id : e \in store.entries}

HasServerTime(store) == store.lead # Unknown

\* now(), given the server's clock
ClientNow(store, now) == now + store.lead

\* observeTime: the latency of the answered request shortens availability.
ObserveTime(store, time, started) ==
    [store EXCEPT !.lead = IF @ > time - started THEN @ ELSE time - started]

-----------------------------------------------------------------------------
(* Lifecycles *)

\* mutant: any later lifecycle replaces an earlier one
MergeAny(row, q) == [row EXCEPT !.opened = q.opened, !.expires = q.expires]

\* mergeLifecycle: opened beats unopened; a final deadline never changes.
Merge(row, q) ==
    IF q.created = row.created /\ ~IsFinal(row) /\ IsFinal(q)
    THEN [row EXCEPT !.opened = q.opened, !.expires = q.expires]
    ELSE row

\* applyTo, which demands a valid lifecycle for the message's own lifetime.
Advance(row, q) ==
    IF ValidLifecycle([q EXCEPT !.ttl = row.ttl]) THEN Merge(row, q) ELSE row

AdvanceEntry(e, q) == [e EXCEPT !.row = Advance(e.row, q)]

RemoveIds(store, ids) ==
    [store EXCEPT !.entries = {e \in @ : e.row.id \notin ids},
                  !.early   = {q \in @ : q.id \notin ids},
                  !.removed = @ \cup ids]

\* applyLifecycle: held back until the message loads, if it has not.
ApplyLifecycle(store, q) ==
    LET prior == {p \in store.early : p.id = q.id}
        held  == IF prior = {} THEN q ELSE Merge(CHOOSE p \in prior : TRUE, q)
    IN  IF q.id \in store.removed THEN store
        ELSE IF q.id \in LoadedIds(store)
        THEN [store EXCEPT !.entries = {IF e.row.id = q.id THEN AdvanceEntry(e, q) ELSE e : e \in @}]
        ELSE [store EXCEPT !.early = (@ \ prior) \cup {held}]

-----------------------------------------------------------------------------
(* Loading and removing *)

\* mutant: an update that came before its message is forgotten
EntryAsLoaded(store, row) ==
    [row |-> row, opening |-> IF row.recipient = me THEN "pending" ELSE "none"]

\* The entry of a message loaded for the first time.
NewEntry(store, row) ==
    LET held == {q \in store.early : q.id = row.id}
    IN  [row |-> IF held = {} THEN row ELSE Advance(row, CHOOSE q \in held : TRUE),
         opening |-> IF row.recipient = me THEN "pending" ELSE "none"]

\* mutant: a clear removes only what is loaded
ClearedRowsNone(store, rows) == {}

\* Messages that load after they were cleared.
ClearedRows(store, rows) == {r \in rows : r.created <= store.cleared}

\* add; the ids of one call are distinct.
Add(store, rows) ==
    LET news  == {r \in rows : r.id \notin store.removed}
        late  == ClearedRows(store, news)
        kept  == news \ late
        known == {r \in kept : r.id \in LoadedIds(store)}
        fresh == kept \ known
    IN  RemoveIds([store EXCEPT
                  !.entries = {IF \E r \in known : r.id = e.row.id
                               THEN AdvanceEntry(e, CHOOSE r \in known : r.id = e.row.id)
                               ELSE e : e \in @}
                              \cup {NewEntry(store, r) : r \in fresh},
                  !.early = {q \in @ : q.id \notin IdsOf(fresh)}], IdsOf(late))

\* clear
ClearThrough(store, at) ==
    LET through == IF store.cleared > at THEN store.cleared ELSE at
    IN  RemoveIds([store EXCEPT !.cleared = through],
               {e.row.id : e \in {f \in store.entries : f.row.created <= through}})

\* mutant: the sweep also takes deadlines that may have been replaced
SweptAnyDeadline(store, now, synchronized) == {e \in store.entries : now >= e.row.expires}

\* What sweep drops: out of sync an unopened deadline may already have been
\* replaced by an opening elsewhere.
Swept(store, now, synchronized) ==
    {e \in store.entries : now >= e.row.expires /\ (synchronized \/ IsFinal(e.row))}

\* sweep, `now` being the client's; it needs an authoritative clock.
SweepStore(store, now, synchronized) ==
    IF HasServerTime(store)
    THEN RemoveIds(store, {e.row.id : e \in Swept(store, now, synchronized)})
    ELSE store

-----------------------------------------------------------------------------
(* Openings *)

InState(store, opening) == {e \in store.entries : e.opening = opening}

\* Moves the entries with one of these ids from one opening state to another.
Move(store, ids, from, to) ==
    [store EXCEPT !.entries = {IF e.row.id \in ids /\ e.opening = from
                               THEN [e EXCEPT !.opening = to] ELSE e : e \in @}]

PendingIds(store)        == {e.row.id : e \in InState(store, "pending")}
TakePending(store)       == Move(store, PendingIds(store), "pending", "requested")

\* mutant: superseded requests stay requested
KeepRequested(store) == store

CancelOpening(store)     == Move(store, Ids, "requested", "pending")
FailOpening(store, ids)  == Move(store, ids, "requested", "failed")
RetryFailed(store)       == Move(store, Ids, "failed", "pending")

-----------------------------------------------------------------------------
(* Server answers about single messages *)

\* confirmMessage of src/shared/protocol-client.ts, on the rows an answer
\* lists as available.
Unavailable(row, found) == \A q \in found : q.id # row.id

Confirms(row, q, kind) ==
    /\ q.id = row.id /\ q.created = row.created
    /\ kind = "opening" => IsFinal(q)
    /\ IsFinal(row) /\ IsFinal(q) => q.opened = row.opened

Confirmed(row, found, kind) == \E q \in found : Confirms(row, q, kind)

\* The entry once its answer, if there is a valid one, is applied.
Answered(e, found, kind) ==
    IF Confirmed(e.row, found, kind)
    THEN AdvanceEntry(e, CHOOSE q \in found : Confirms(e.row, q, kind))
    ELSE e

\* applyStates
Asked(store, ids) == {e \in store.entries : e.row.id \in ids}

StatesComplete(store, ids, found) ==
    \A e \in Asked(store, ids) : Unavailable(e.row, found) \/ Confirmed(e.row, found, "availability")

ApplyStates(store, ids, found, time, started) ==
    LET asked == Asked(store, ids)
        heard == {e \in asked : Confirmed(e.row, found, "availability")}
        after == RemoveIds([store EXCEPT !.entries = (@ \ heard)
                            \cup {Answered(e, found, "availability") : e \in heard}],
                        {e.row.id : e \in {f \in asked : Unavailable(f.row, found)}})
    IN  IF heard = {} THEN after ELSE ObserveTime(after, time, started)

\* confirmOpening
ConfirmOpening(store, ids, found, time, started) ==
    LET asked  == {e \in Asked(store, ids) : e.opening = "requested"}
        heard  == {e \in asked : Confirmed(e.row, found, "opening")}
        gone   == {e \in asked : Unavailable(e.row, found)}
        failed == asked \ (heard \cup gone)
        after  == RemoveIds([store EXCEPT !.entries = (@ \ asked)
                     \cup {[Answered(e, found, "opening") EXCEPT !.opening = "confirmed"] : e \in heard}
                     \cup {[e EXCEPT !.opening = "failed"] : e \in failed}],
                     {e.row.id : e \in gone})
    IN  IF heard = {} THEN after ELSE ObserveTime(after, time, started)

\* display while synchronized: what the user sees.
Displayed(store, now) ==
    {e \in store.entries : /\ HasServerTime(store)
                           /\ ClientNow(store, now) < e.row.expires
                           /\ e.opening \in {"none", "confirmed"}}
=============================================================================
