---------------------- MODULE ConversationSessionProofs ----------------------
(* What a session of a conversation shows is what the server has, for every *)
(* conversation, page size, bound and table.                                *)
EXTENDS ConversationSession, ChatDatabaseProofs
LOCAL INSTANCE SequencesExt

-----------------------------------------------------------------------------
(* The inductive invariant: control.                                        *)
(*                                                                          *)
(* What is under way, and what it implies about the connection: work is     *)
(* done by a connected and attentive session only, a synchronized one has   *)
(* nothing buffered, and a failed or interrupted one knows where to go on.  *)

Number == 0..highWater \cup {None}

SyncFields ==
    /\ sync.stage \in {"idle", "failed", "ask", "page", "look", "states", "drain"}
    /\ sync.stage = "idle" => sync = Idle
    /\ sync.stage = "failed" => sync = Failed
    /\ sync.stage = "ask" => /\ sync.from \in Number /\ sync.bound \in Number
                             /\ sync.from = None => sync.bound = None
                             /\ sync.from = None <=> checkpoint = None
    /\ sync.stage = "page" => /\ sync.first \in BOOLEAN /\ sync.rows \subseteq Rows
                              /\ sync.upper \in 0..highWater /\ sync.next \in Number
                              /\ sync.first <=> checkpoint = None
                              /\ sync.first => sync.next = None
                              /\ sync.rows # {} => MinSeqOf(sync.rows) \in 0..highWater
    /\ sync.stage \in {"look", "states"} =>
         /\ sync.goal \in {"round", "drain"} /\ sync.round \in Nat
         /\ sync.refreshed \subseteq Ids /\ sync.ids \subseteq Ids
         /\ sync.started \in 0..clock
    /\ sync.stage = "states" => sync.found \subseteq Rows /\ sync.time \in sync.started..clock
    /\ sync.stage \in {"look", "states", "drain"} =>
         /\ sync.completed \in Number
         /\ sync.completed = None => syncedHere
         /\ checkpoint # None

RequestFields ==
    /\ older.stage \in {"idle", "ask", "page"}
    /\ older.stage = "idle" => older = Idle
    /\ older.stage = "page" => /\ older.rows \subseteq Rows
                               /\ older.rows # {} => MinSeqOf(older.rows) \in 0..highWater
    /\ older.stage # "idle" => checkpoint # None /\ hasMore /\ olderCursor \in 0..highWater
    /\ opening.stage \in {"idle", "sent", "answered"}
    /\ opening.stage = "idle" => opening = Idle
    /\ opening.stage # "idle" => opening.ids \subseteq Ids /\ opening.started \in 0..clock
    /\ opening.stage = "answered" => opening.found \subseteq Rows /\ opening.time \in opening.started..clock

RowEvents == [type : {"message", "expiry-update"}, row : Rows]
Clearances == [type : {"conversation-cleared"}, at : Nat]

Variables ==
    /\ posted \subseteq Ids
    /\ conn \in BOOLEAN /\ attentive \in BOOLEAN /\ synced \in BOOLEAN /\ syncedHere \in BOOLEAN
    /\ hasMore \in BOOLEAN /\ checkpoint \in Number /\ olderCursor \in Number
    /\ stream \in Seq(RowEvents \cup Clearances) /\ buffered \in Seq(RowEvents)
    /\ decrypting \subseteq Rows
    /\ ownClear \in Nat \cup {None}

OnlyWhileWatching ==
    /\ sync # Idle \/ older # Idle \/ opening # Idle \/ decrypting # {} => conn /\ attentive
    /\ synced => conn /\ attentive /\ syncedHere /\ sync = Idle /\ buffered = <<>>
    /\ syncedHere => conn /\ checkpoint # None
    /\ syncedHere /\ decrypting # {} => synced
    /\ ~conn => stream = <<>>

Control == Variables /\ SyncFields /\ RequestFields /\ OnlyWhileWatching /\ NeverStuck

-----------------------------------------------------------------------------
(* The store.                                                               *)

Entries == [row : Rows, opening : {"none", "pending", "requested", "confirmed", "failed"}]
Stores == [entries : SUBSET Entries, removed : SUBSET Ids, early : SUBSET Rows,
           cleared : Nat \cup {Never}, lead : Nat \cup {Unknown}]

StoreSound(s) ==
    /\ s \in Stores
    /\ \A e, f \in s.entries : e.row.id = f.row.id => e = f
    /\ \A e \in s.entries : e.row.created > s.cleared /\ e.row.id \notin s.removed
    /\ \A e \in s.entries : /\ e.opening = "none" <=> e.row.recipient # me
                            /\ e.opening = "confirmed" => IsFinal(e.row)
    /\ \A q \in s.early : IsFinal(q) /\ q.id \notin LoadedIds(s)

-----------------------------------------------------------------------------
(* Copies of the server's rows, wherever they are on their way.             *)

RowsOf(s) == {e.row : e \in s.entries} \cup s.early

Of(events, types) == {events[i].row : i \in {j \in DOMAIN events : events[j].type \in types}}
Messages == Of(stream, {"message"}) \cup Of(buffered, {"message"})
Updates  == Of(stream, {"expiry-update"}) \cup Of(buffered, {"expiry-update"})

PageRows    == IF sync.stage = "page" THEN sync.rows ELSE {}
FoundRows   == IF sync.stage = "states" THEN sync.found ELSE {}
OlderRows   == IF older.stage = "page" THEN older.rows ELSE {}
OpeningRows == IF opening.stage = "answered" THEN opening.found ELSE {}

\* Rows on their way to the store.
Sources == decrypting \cup PageRows \cup FoundRows \cup OlderRows \cup OpeningRows \cup Messages

Copies == messages \cup RowsOf(store) \cup Sources \cup Updates

\* Versions of the same acceptances: of each the unopened or the final one.
Agree(S) ==
    \A u, v \in S : /\ u.id = v.id <=> u.seq = v.seq
                    /\ u.id = v.id => SameEnvelope(u, v)
                    /\ u.id = v.id /\ IsFinal(u) /\ IsFinal(v) => u = v

Distinct(rows) == \A u, v \in rows : u.id = v.id => u = v

CopiesSound ==
    /\ \A v \in Copies : /\ v \in Rows /\ ValidLifecycle(v) /\ Between(v, me, partner)
                         /\ v.id \in posted /\ v.seq <= highWater /\ v.created <= clock
    /\ Agree(Copies)
    /\ \A v \in Copies, r \in messages : v.id = r.id /\ IsFinal(v) => r = v
    /\ \A u \in Updates \cup OpeningRows : IsFinal(u)
    /\ Distinct(PageRows) /\ Distinct(OlderRows) /\ Distinct(FoundRows)

-----------------------------------------------------------------------------
(* Currency: how far a copy is from the server's row.                       *)

NoRow(v) == \A r \in messages : r.id # v.id
Latest(v) == \A u \in Copies : u.id = v.id /\ IsFinal(u) => u = v
ClearAhead(v) == \E i \in DOMAIN stream : stream[i].type = "conversation-cleared" /\ v.created <= stream[i].at
UpdateAhead(v) == \E u \in Updates : u.id = v.id

\* The row itself, or the last one there was.
Exact(v) ==
    \/ v \in messages
    \/ NoRow(v) /\ ((v.expires <= clock /\ Latest(v)) \/ ClearAhead(v))
    \/ v.seq \in stale

Current(v) == Exact(v) \/ UpdateAhead(v)
Dropped(v) == v.id \in store.removed \/ v.created <= store.cleared
Superseded(v) == \E q \in RowsOf(store) : q.id = v.id /\ IsFinal(q) /\ Exact(q)

SourcesCurrent == \A v \in Sources : Current(v) \/ Dropped(v) \/ Superseded(v)
UpdatesExact == \A u \in Updates : Exact(u) \/ Dropped(u)

\* Which entries are known to be current at this stage.
RefreshedAt(id) ==
    \/ syncedHere
    \/ sync.stage = "drain"
    \/ sync.stage \in {"look", "states"} /\ (sync.goal = "drain" \/ id \in sync.refreshed)

EntriesCurrent == \A e \in store.entries : RefreshedAt(e.row.id) => Current(e.row)

BufferedStale == ~conn => \A i \in DOMAIN buffered : buffered[i].row.seq \in stale

Currency == SourcesCurrent /\ UpdatesExact /\ EntriesCurrent /\ BufferedStale

-----------------------------------------------------------------------------
(* Coverage: which live messages have reached the session.                  *)

Conversation == LiveBetween(messages, me, partner, clock)
InReach(r) == ~hasMore \/ r.seq >= olderCursor
Had(r) == r.id \in LoadedIds(store) \cup store.removed
Ahead(r) == \E v \in Messages : v.id = r.id
Deciphered(r) == \E v \in decrypting : v.id = r.id

CoveredTo(r, n) == n # None /\ InReach(r) /\ r.seq <= n => Had(r)
AheadFrom(r, n) == n # None /\ r.seq > n => Had(r) \/ Ahead(r)

\* What a history page reaches back to.
PageReaches(rows, r) == Cardinality(rows) # PageSize \/ (rows # {} /\ r.seq >= MinSeqOf(rows))

\* Up to the recovery cursor, and by an open stream.
CoveredLive(r) ==
    /\ CoveredTo(r, checkpoint)
    /\ syncedHere /\ InReach(r) => Had(r) \/ Ahead(r) \/ Deciphered(r) \/ r.seq \in forgotten

\* By a page of the synchronization under way.
CoveredByPage(r) ==
    /\ sync.first /\ r.seq <= sync.upper /\ PageReaches(sync.rows, r) => r.id \in IdsOf(sync.rows)
    /\ ~sync.first /\ InReach(r) /\ r.seq <= (IF sync.next = None THEN sync.upper ELSE sync.next)
         => Had(r) \/ r.id \in IdsOf(sync.rows)

\* By the synchronization under way: below its bound by its pages, above by
\* the events of its stream.
CoveredSoon(r) ==
    /\ sync.stage = "ask" => CoveredTo(r, sync.from) /\ AheadFrom(r, sync.bound)
    /\ sync.stage = "page" => CoveredByPage(r) /\ AheadFrom(r, sync.upper)
    /\ sync.stage \in {"look", "states", "drain"} => CoveredTo(r, sync.completed) /\ AheadFrom(r, sync.completed)

CoveredByOlder(r) ==
    older.stage = "page" /\ r.seq < olderCursor /\ PageReaches(older.rows, r) => r.id \in IdsOf(older.rows)

Covered(r) == CoveredLive(r) /\ CoveredSoon(r) /\ CoveredByOlder(r)

Coverage == \A r \in Conversation : Covered(r)

\* Answers about single messages list every one that is still live.
AnswersComplete ==
    /\ sync.stage \in {"look", "states"} => sync.ids \subseteq posted
    /\ opening.stage # "idle" => opening.ids \subseteq posted
    /\ sync.stage = "states" => \A r \in Conversation : r.id \in sync.ids => r.id \in IdsOf(sync.found)
    /\ opening.stage = "answered" =>
         \A r \in Conversation : r.recipient = me /\ r.id \in opening.ids => r.id \in IdsOf(opening.found)

StoreOK == StoreSound(store)

-----------------------------------------------------------------------------
(* Lifecycles: of two versions of an acceptance the final one wins.          *)

Agreed(S) == S \subseteq Rows /\ Agree(S) /\ \A v \in S : ValidLifecycle(v)

\* mergeLifecycle takes a final lifecycle and keeps anything else.
LEMMA AdvanceTakesFinal ==
    ASSUME NEW row \in Rows, NEW q \in Rows, SameEnvelope(row, q), ValidLifecycle(q),
           IsFinal(row) /\ IsFinal(q) => row = q
    PROVE  Advance(row, q) = IF IsFinal(q) THEN q ELSE row
<1>1. [q EXCEPT !.ttl = row.ttl] = q
  BY DEF SameEnvelope, Rows
<1>2. ASSUME ~IsFinal(row), IsFinal(q)
      PROVE  [row EXCEPT !.opened = q.opened, !.expires = q.expires] = q
  BY DEF SameEnvelope, Rows
<1> QED BY <1>1, <1>2 DEF Advance, Merge, SameEnvelope

\* ... so two copies merge into the final one of them, if there is one.
LEMMA AgreedAdvance ==
    ASSUME NEW S, Agreed(S), NEW u \in S, NEW v \in S, u.id = v.id
    PROVE  /\ Advance(u, v) = (IF IsFinal(v) THEN v ELSE u)
           /\ IsFinal(u) => Advance(u, v) = u
           /\ IsFinal(v) => Advance(u, v) = v
           /\ Advance(u, v).id = u.id /\ Advance(u, v).created = u.created
           /\ Advance(u, v).recipient = u.recipient
<1>1. /\ u \in Rows /\ v \in Rows /\ SameEnvelope(u, v) /\ ValidLifecycle(v)
      /\ IsFinal(u) /\ IsFinal(v) => u = v
  BY DEF Agreed, Agree
<1> QED BY <1>1, AdvanceTakesFinal DEF SameEnvelope

\* An unopened lifecycle is determined by its acceptance.
LEMMA UnopenedAgree ==
    ASSUME NEW S, Agreed(S), NEW u \in S, NEW v \in S, u.id = v.id, IsFinal(u) => IsFinal(v), IsFinal(v) => IsFinal(u)
    PROVE  u = v
<1>1. /\ u \in Rows /\ v \in Rows /\ SameEnvelope(u, v) /\ ValidLifecycle(v) /\ ValidLifecycle(u)
      /\ IsFinal(u) /\ IsFinal(v) => u = v
  BY DEF Agreed, Agree
<1> QED BY <1>1 DEF SameEnvelope, ValidLifecycle, IsFinal, Rows

-----------------------------------------------------------------------------
(* The operations of the store.  Each keeps it sound, and what it holds      *)
(* afterwards it held before or was given.                                   *)

Holds(s, r) == \E e \in s.entries : e.row.id = r.id /\ (IsFinal(r) => e.row = r)

Evolves(s, t, given) ==
    /\ s.removed \subseteq t.removed /\ s.cleared <= t.cleared
    /\ \A e \in t.entries : e.row \in RowsOf(s) \cup given
    /\ t.early \subseteq s.early \cup given
    /\ \A e \in s.entries : e.row.id \in t.removed \/ Holds(t, e.row)
    /\ \A q \in s.early : q.id \in t.removed \/ q \in RowsOf(t)

LEMMA EvolvesTrans ==
    ASSUME NEW s, NEW t, NEW u, NEW given, StoreSound(s), StoreSound(t), StoreSound(u),
           Evolves(s, t, given), Evolves(t, u, given)
    PROVE  Evolves(s, u, given)
<1>1. s.removed \subseteq u.removed /\ s.cleared <= u.cleared
  BY DEF Evolves, StoreSound, Stores, Never
<1>2. \A e \in u.entries : e.row \in RowsOf(s) \cup given
  BY DEF Evolves, RowsOf
<1>3. u.early \subseteq s.early \cup given
  BY DEF Evolves
<1>4. ASSUME NEW e \in s.entries PROVE e.row.id \in u.removed \/ Holds(u, e.row)
  <2>1. CASE e.row.id \in t.removed
    BY <2>1 DEF Evolves
  <2>2. CASE Holds(t, e.row)
    <3>1. PICK f \in t.entries : f.row.id = e.row.id /\ (IsFinal(e.row) => f.row = e.row)
      BY <2>2 DEF Holds
    <3>2. f.row.id \in u.removed \/ Holds(u, f.row)
      BY DEF Evolves
    <3> QED BY <3>1, <3>2 DEF Holds
  <2> QED BY <2>1, <2>2 DEF Evolves
<1>5. ASSUME NEW q \in s.early PROVE q.id \in u.removed \/ q \in RowsOf(u)
  <2>1. CASE q.id \in t.removed \/ q \in t.early
    BY <2>1 DEF Evolves
  <2>2. CASE \E f \in t.entries : f.row = q
    <3>1. PICK f \in t.entries : f.row = q
      BY <2>2
    <3>2. f.row.id \in u.removed \/ Holds(u, f.row)
      BY DEF Evolves
    <3>3. IsFinal(q)
      BY DEF StoreSound
    <3> QED BY <3>1, <3>2, <3>3 DEF Holds, RowsOf
  <2> QED BY <2>1, <2>2 DEF Evolves, RowsOf
<1> QED BY <1>1, <1>2, <1>3, <1>4, <1>5 DEF Evolves

\* Openings change nothing but opening states.
LEMMA MoveKeeps ==
    ASSUME NEW s, StoreSound(s), NEW ids,
           NEW from \in {"pending", "requested", "failed"}, NEW to \in {"pending", "requested", "failed"}
    PROVE  /\ StoreSound(Move(s, ids, from, to))
           /\ Evolves(s, Move(s, ids, from, to), {})
           /\ LoadedIds(Move(s, ids, from, to)) = LoadedIds(s)
           /\ Move(s, ids, from, to).removed = s.removed
           /\ Move(s, ids, from, to).cleared = s.cleared
           /\ Move(s, ids, from, to).lead = s.lead
           /\ from # to => \A e \in Move(s, ids, from, to).entries : e.row.id \in ids => e.opening # from
<1> DEFINE t == Move(s, ids, from, to)
           moved(e) == IF e.row.id \in ids /\ e.opening = from THEN [e EXCEPT !.opening = to] ELSE e
<1>1. s \in Stores
  BY DEF StoreSound
<1>2. t = [s EXCEPT !.entries = {moved(e) : e \in s.entries}]
  BY DEF Move
<1>3. /\ t.entries = {moved(e) : e \in s.entries} /\ t.removed = s.removed /\ t.early = s.early
      /\ t.cleared = s.cleared /\ t.lead = s.lead
      /\ t = [entries |-> t.entries, removed |-> s.removed, early |-> s.early,
              cleared |-> s.cleared, lead |-> s.lead]
  BY <1>1, <1>2 DEF Stores
<1>4. \A e \in s.entries : /\ moved(e) \in Entries /\ moved(e).row = e.row
                           /\ moved(e).opening = "none" <=> e.opening = "none"
                           /\ moved(e).opening = "confirmed" => e.opening = "confirmed"
                           /\ from # to /\ e.row.id \in ids => moved(e).opening # from
  BY <1>1 DEF Stores, Entries
<1> HIDE DEF moved, t
<1>5. t \in Stores
  BY <1>1, <1>3, <1>4 DEF Stores
<1>6. {e.row : e \in t.entries} = {e.row : e \in s.entries}
  BY <1>3, <1>4
<1>7. LoadedIds(t) = LoadedIds(s)
  BY <1>3, <1>4 DEF LoadedIds
<1>8. StoreSound(t)
  <2>1. \A e, f \in t.entries : e.row.id = f.row.id => e = f
    BY <1>3, <1>4 DEF StoreSound
  <2>2. \A e \in t.entries : /\ e.row.created > t.cleared /\ e.row.id \notin t.removed
                             /\ e.opening = "none" <=> e.row.recipient # me
                             /\ e.opening = "confirmed" => IsFinal(e.row)
    BY <1>3, <1>4 DEF StoreSound
  <2>3. \A q \in t.early : IsFinal(q) /\ q.id \notin LoadedIds(t)
    BY <1>3, <1>7 DEF StoreSound
  <2> QED BY <1>5, <2>1, <2>2, <2>3 DEF StoreSound
<1>9. Evolves(s, t, {})
  <2>1. s.cleared <= t.cleared
    BY <1>1, <1>3 DEF Stores, Never
  <2>2. \A e \in s.entries : Holds(t, e.row)
    BY <1>3, <1>4 DEF Holds
  <2> QED BY <1>3, <1>4, <2>1, <2>2 DEF Evolves, RowsOf
<1>10. from # to => \A e \in t.entries : e.row.id \in ids => e.opening # from
  BY <1>3, <1>4
<1> QED BY <1>3, <1>7, <1>8, <1>9, <1>10 DEF t

\* Removing takes the entries and early updates of some ids, and no others.
LEMMA RemoveKeeps ==
    ASSUME NEW s, StoreSound(s), NEW ids \in SUBSET Ids
    PROVE  /\ StoreSound(RemoveIds(s, ids))
           /\ Evolves(s, RemoveIds(s, ids), {})
           /\ RemoveIds(s, ids).entries = {e \in s.entries : e.row.id \notin ids}
           /\ RemoveIds(s, ids).removed = s.removed \cup ids
           /\ RemoveIds(s, ids).cleared = s.cleared
           /\ RemoveIds(s, ids).lead = s.lead
<1> DEFINE t == RemoveIds(s, ids)
           kept == {e \in s.entries : e.row.id \notin ids}
           held == {q \in s.early : q.id \notin ids}
<1>1. s \in Stores
  BY DEF StoreSound
<1>2. /\ t.entries = {e \in s.entries : e.row.id \notin ids} /\ t.removed = s.removed \cup ids
      /\ t.early = {q \in s.early : q.id \notin ids} /\ t.cleared = s.cleared /\ t.lead = s.lead
      /\ t = [entries |-> t.entries, removed |-> t.removed, early |-> t.early,
              cleared |-> s.cleared, lead |-> s.lead]
  <2>1. t = [s EXCEPT !.entries = kept, !.early = held, !.removed = @ \cup ids]
    BY DEF RemoveIds
  <2> HIDE DEF t, kept, held
  <2>2. /\ t.entries = kept /\ t.removed = s.removed \cup ids /\ t.early = held
        /\ t.cleared = s.cleared /\ t.lead = s.lead
        /\ t = [entries |-> t.entries, removed |-> t.removed, early |-> t.early,
                cleared |-> s.cleared, lead |-> s.lead]
    BY <1>1, <2>1 DEF Stores
  <2> QED BY <2>2 DEF kept, held
<1> HIDE DEF t
<1>3. t \in Stores
  BY <1>1, <1>2 DEF Stores
<1>4. StoreSound(t)
  BY <1>2, <1>3 DEF StoreSound, LoadedIds
<1>5. Evolves(s, t, {})
  <2>1. s.cleared <= t.cleared
    BY <1>1, <1>2 DEF Stores, Never
  <2>2. \A e \in s.entries : e.row.id \in ids \/ Holds(t, e.row)
    BY <1>2 DEF Holds
  <2> QED BY <1>2, <2>1, <2>2 DEF Evolves, RowsOf
<1> QED BY <1>2, <1>4, <1>5 DEF t

\* A clear removes what was created up to it, loaded or still to load.
LEMMA ClearKeeps ==
    ASSUME NEW s, StoreSound(s), NEW at \in Nat
    PROVE  /\ StoreSound(ClearThrough(s, at))
           /\ Evolves(s, ClearThrough(s, at), {})
           /\ LoadedIds(ClearThrough(s, at)) \subseteq LoadedIds(s)
           /\ ClearThrough(s, at).cleared >= at
           /\ \A e \in s.entries : e.row.id \in ClearThrough(s, at).removed =>
                e.row.created <= ClearThrough(s, at).cleared
           /\ ClearThrough(s, at).removed \subseteq s.removed \cup LoadedIds(s)
<1> DEFINE t == ClearThrough(s, at)
           through == IF s.cleared > at THEN s.cleared ELSE at
           ids == {e.row.id : e \in {f \in s.entries : f.row.created <= through}}
           kept == {e \in s.entries : e.row.id \notin ids}
           held == {q \in s.early : q.id \notin ids}
<1>1. s \in Stores /\ s.cleared \in Nat \cup {Never} /\ s.entries \subseteq Entries
  BY DEF StoreSound, Stores
<1>2. /\ through \in Nat /\ through >= at /\ through >= s.cleared
      /\ \A e \in s.entries : e.row.id \in ids <=> e.row.created <= through
  BY <1>1 DEF Never, StoreSound
<1>3. /\ t.entries = kept /\ t.removed = s.removed \cup ids /\ t.early = held
      /\ t.cleared = through /\ t.lead = s.lead
      /\ t = [entries |-> t.entries, removed |-> t.removed, early |-> t.early,
              cleared |-> t.cleared, lead |-> t.lead]
  <2>1. t = [[s EXCEPT !.cleared = through] EXCEPT !.entries = {e \in @ : e.row.id \notin ids},
                      !.early = {q \in @ : q.id \notin ids}, !.removed = @ \cup ids]
    BY DEF ClearThrough, RemoveIds
  <2> HIDE DEF through, ids, t
  <2>2. [s EXCEPT !.cleared = through] = [entries |-> s.entries, removed |-> s.removed, early |-> s.early,
                                          cleared |-> through, lead |-> s.lead]
    BY <1>1 DEF Stores
  <2>3. t = [entries |-> kept, removed |-> s.removed \cup ids, early |-> held,
             cleared |-> through, lead |-> s.lead]
    BY <2>1, <2>2
  <2> QED BY <2>3
<1>4. ids \subseteq Ids /\ ids \subseteq LoadedIds(s)
  BY <1>1 DEF Entries, Rows, LoadedIds
<1>5. \A e \in t.entries : e \in s.entries /\ e.row.created > through /\ e.row.id \notin ids
  <2>1. \A e \in s.entries : e.row.created \in Nat
    BY <1>1 DEF Entries, Rows
  <2> QED BY <1>2, <1>3, <2>1
<1> HIDE DEF t, ids, through
<1>6. t \in Stores
  BY <1>1, <1>2, <1>3, <1>4 DEF Stores
<1>7. StoreSound(t)
  BY <1>3, <1>5, <1>6 DEF StoreSound, LoadedIds
<1>8. Evolves(s, t, {})
  <2>1. \A e \in s.entries : e.row.id \in t.removed \/ Holds(t, e.row)
    BY <1>3 DEF Holds
  <2> QED BY <1>2, <1>3, <2>1 DEF Evolves, RowsOf
<1>9. LoadedIds(t) \subseteq LoadedIds(s)
  BY <1>3 DEF LoadedIds
<1>10. ASSUME NEW e \in s.entries, e.row.id \in t.removed PROVE e.row.created <= t.cleared
  BY <1>2, <1>3, <1>10 DEF StoreSound
<1> QED BY <1>2, <1>3, <1>4, <1>7, <1>8, <1>9, <1>10 DEF t

\* The sweep removes entries past their deadline on the client's clock, out
\* of sync only those whose deadline is final.
LEMMA SweepKeeps ==
    ASSUME NEW s, StoreSound(s), NEW now, NEW synchronized
    PROVE  /\ StoreSound(SweepStore(s, now, synchronized))
           /\ Evolves(s, SweepStore(s, now, synchronized), {})
           /\ LoadedIds(SweepStore(s, now, synchronized)) \subseteq LoadedIds(s)
           /\ SweepStore(s, now, synchronized).cleared = s.cleared
           /\ SweepStore(s, now, synchronized).lead = s.lead
           /\ SweepStore(s, now, synchronized).removed \subseteq s.removed \cup LoadedIds(s)
           /\ \A e \in s.entries : e.row.id \in SweepStore(s, now, synchronized).removed =>
                HasServerTime(s) /\ now >= e.row.expires /\ (synchronized \/ IsFinal(e.row))
<1> DEFINE ids == {e.row.id : e \in Swept(s, now, synchronized)}
<1>1. s \in Stores /\ s.entries \subseteq Entries
  BY DEF StoreSound, Stores
<1>2. ids \subseteq Ids /\ ids \subseteq LoadedIds(s)
  BY <1>1 DEF Entries, Rows, LoadedIds, Swept
<1>3. \A e \in s.entries : e.row.id \in ids => now >= e.row.expires /\ (synchronized \/ IsFinal(e.row))
  BY DEF Swept, StoreSound
<1>4. CASE HasServerTime(s)
  <2>1. SweepStore(s, now, synchronized) = RemoveIds(s, ids)
    BY <1>4 DEF SweepStore
  <2> HIDE DEF ids
  <2>2. LoadedIds(RemoveIds(s, ids)) \subseteq LoadedIds(s)
    BY <1>2, RemoveKeeps DEF LoadedIds
  <2>3. \A e \in s.entries : e.row.id \notin s.removed
    BY DEF StoreSound
  <2> QED BY <1>2, <1>3, <1>4, <2>1, <2>2, <2>3, RemoveKeeps
<1>5. CASE ~HasServerTime(s)
  <2>1. SweepStore(s, now, synchronized) = s
    BY <1>5 DEF SweepStore
  <2>2. Evolves(s, s, {})
    BY <1>1 DEF Evolves, RowsOf, Holds, Stores, Never
  <2> QED BY <2>1, <2>2 DEF StoreSound
<1> QED BY <1>4, <1>5

LEMMA EvolvesSelf ==
    ASSUME NEW s, StoreSound(s), NEW given
    PROVE  Evolves(s, s, given)
BY DEF Evolves, RowsOf, Holds, StoreSound, Stores, Never

LEMMA EvolvesMore ==
    ASSUME NEW s, NEW t, NEW given, NEW more, Evolves(s, t, given), given \subseteq more
    PROVE  Evolves(s, t, more)
BY DEF Evolves

\* An update reaches its message or waits for it, unless that was removed.
LEMMA LifecycleKeeps ==
    ASSUME NEW s, StoreSound(s), NEW q, Agreed(RowsOf(s) \cup {q}), IsFinal(q)
    PROVE  /\ StoreSound(ApplyLifecycle(s, q))
           /\ Evolves(s, ApplyLifecycle(s, q), {q})
           /\ ApplyLifecycle(s, q).removed = s.removed
           /\ ApplyLifecycle(s, q).cleared = s.cleared
           /\ ApplyLifecycle(s, q).lead = s.lead
           /\ LoadedIds(ApplyLifecycle(s, q)) = LoadedIds(s)
           /\ q.id \in s.removed \/ q \in RowsOf(ApplyLifecycle(s, q))
<1> DEFINE t == ApplyLifecycle(s, q)
<1>1. s \in Stores /\ s.entries \subseteq Entries /\ s.early \subseteq Rows /\ q \in Rows
  BY DEF StoreSound, Stores, Agreed
<1>2. CASE q.id \in s.removed
  BY <1>2, EvolvesSelf DEF ApplyLifecycle
<1>3. CASE q.id \notin s.removed /\ q.id \in LoadedIds(s)
  <2> DEFINE next(e) == IF e.row.id = q.id THEN AdvanceEntry(e, q) ELSE e
             nexts == {next(e) : e \in s.entries}
  <2>1. t = [s EXCEPT !.entries = nexts]
    BY <1>3 DEF ApplyLifecycle
  <2>2. \A e \in s.entries :
          /\ next(e) \in Entries /\ next(e).opening = e.opening
          /\ next(e).row.id = e.row.id /\ next(e).row.created = e.row.created
          /\ next(e).row.recipient = e.row.recipient
          /\ IsFinal(e.row) => next(e).row = e.row
          /\ next(e).row \in {e.row, q}
          /\ e.row.id = q.id => next(e).row = q
    <3> SUFFICES ASSUME NEW e \in s.entries, e.row.id = q.id
                 PROVE  /\ next(e) \in Entries /\ next(e).opening = e.opening
                        /\ next(e).row.id = e.row.id /\ next(e).row.created = e.row.created
                        /\ next(e).row.recipient = e.row.recipient
                        /\ IsFinal(e.row) => next(e).row = e.row
                        /\ next(e).row = q
      BY <1>1
    <3>1. e.row \in RowsOf(s) /\ e \in Entries
      BY <1>1 DEF RowsOf
    <3>2. /\ Advance(e.row, q) = q
          /\ IsFinal(e.row) => Advance(e.row, q) = e.row
          /\ Advance(e.row, q).id = e.row.id /\ Advance(e.row, q).created = e.row.created
          /\ Advance(e.row, q).recipient = e.row.recipient
      BY <3>1, AgreedAdvance
    <3>3. next(e) = [e EXCEPT !.row = q]
      BY <3>2 DEF AdvanceEntry
    <3>4. e.row.id = q.id /\ e.row.created = q.created /\ e.row.recipient = q.recipient
          /\ (IsFinal(e.row) => e.row = q)
      BY <3>1, <3>2 DEF Agreed, Agree, SameEnvelope
    <3> HIDE DEF next
    <3> QED BY <1>1, <3>1, <3>3, <3>4 DEF Entries
  <2> HIDE DEF next, t
  <2>3. /\ t.entries = nexts /\ t.removed = s.removed /\ t.early = s.early
        /\ t.cleared = s.cleared /\ t.lead = s.lead
        /\ t = [entries |-> nexts, removed |-> s.removed, early |-> s.early,
                cleared |-> s.cleared, lead |-> s.lead]
    BY <1>1, <2>1 DEF Stores
  <2>4. t \in Stores
    BY <1>1, <2>2, <2>3 DEF Stores
  <2>5. LoadedIds(t) = LoadedIds(s)
    BY <2>2, <2>3 DEF LoadedIds
  <2>6. StoreSound(t)
    <3>1. \A e, f \in t.entries : e.row.id = f.row.id => e = f
      BY <2>2, <2>3 DEF StoreSound
    <3>2. \A e \in t.entries : e.row.created > t.cleared /\ e.row.id \notin t.removed
      BY <2>2, <2>3 DEF StoreSound
    <3>3. \A e \in t.entries : /\ e.opening = "none" <=> e.row.recipient # me
                               /\ e.opening = "confirmed" => IsFinal(e.row)
      BY <2>2, <2>3 DEF StoreSound
    <3>4. \A r \in t.early : IsFinal(r) /\ r.id \notin LoadedIds(t)
      BY <2>3, <2>5 DEF StoreSound
    <3> QED BY <2>4, <3>1, <3>2, <3>3, <3>4 DEF StoreSound
  <2>7. Evolves(s, t, {q})
    <3>1. s.cleared <= t.cleared
      BY <1>1, <2>3 DEF Stores, Never
    <3>2. \A e \in t.entries : e.row \in RowsOf(s) \cup {q}
      BY <2>2, <2>3 DEF RowsOf
    <3>3. \A e \in s.entries : Holds(t, e.row)
      BY <2>2, <2>3 DEF Holds
    <3> QED BY <2>3, <3>1, <3>2, <3>3 DEF Evolves, RowsOf
  <2>8. q \in RowsOf(t)
    BY <1>3, <2>2, <2>3 DEF RowsOf, LoadedIds
  <2> QED BY <2>3, <2>5, <2>6, <2>7, <2>8 DEF t
<1>4. CASE q.id \notin s.removed /\ q.id \notin LoadedIds(s)
  <2> DEFINE prior == {p \in s.early : p.id = q.id}
             held  == IF prior = {} THEN q ELSE Merge(CHOOSE p \in prior : TRUE, q)
  <2>1. t = [s EXCEPT !.early = (@ \ prior) \cup {held}]
    BY <1>4 DEF ApplyLifecycle
  <2>2. ASSUME NEW p \in prior PROVE p = q
    <3>1. p \in RowsOf(s) /\ IsFinal(p)
      BY DEF RowsOf, StoreSound
    <3> QED BY <3>1 DEF Agreed, Agree
  <2>3. held = q
    BY <2>2 DEF Merge
  <2> HIDE DEF held, t
  <2>4. (s.early \ prior) \cup {held} = s.early \cup {q}
    BY <2>2, <2>3
  <2> HIDE DEF prior
  <2>5. /\ t.entries = s.entries /\ t.removed = s.removed /\ t.early = s.early \cup {q}
        /\ t.cleared = s.cleared /\ t.lead = s.lead
        /\ t = [entries |-> s.entries, removed |-> s.removed, early |-> s.early \cup {q},
                cleared |-> s.cleared, lead |-> s.lead]
    BY <1>1, <2>1, <2>4 DEF Stores
  <2>6. t \in Stores
    BY <1>1, <2>5 DEF Stores
  <2>7. LoadedIds(t) = LoadedIds(s)
    BY <2>5 DEF LoadedIds
  <2>8. StoreSound(t)
    BY <1>4, <2>5, <2>6, <2>7 DEF StoreSound
  <2>9. Evolves(s, t, {q})
    <3>1. s.cleared <= t.cleared
      BY <1>1, <2>5 DEF Stores, Never
    <3> QED BY <2>5, <3>1 DEF Evolves, RowsOf, Holds
  <2> QED BY <2>5, <2>7, <2>8, <2>9 DEF t, RowsOf
<1> QED BY <1>2, <1>3, <1>4

\* What holds in one store is held in the next, unless removed.
LEMMA HoldsOn ==
    ASSUME NEW s, NEW t, NEW given, Evolves(s, t, given), NEW r, Holds(s, r)
    PROVE  r.id \in t.removed \/ Holds(t, r)
<1>1. PICK e \in s.entries : e.row.id = r.id /\ (IsFinal(r) => e.row = r)
  BY DEF Holds
<1>2. e.row.id \in t.removed \/ Holds(t, e.row)
  BY DEF Evolves
<1> QED BY <1>1, <1>2 DEF Holds

LEMMA StoreExcept ==
    ASSUME NEW s \in Stores, NEW E, NEW H
    PROVE  [s EXCEPT !.entries = E, !.early = H] =
           [entries |-> E, removed |-> s.removed, early |-> H, cleared |-> s.cleared, lead |-> s.lead]
<1> DEFINE t == [s EXCEPT !.entries = E, !.early = H]
<1>1. s = [entries |-> s.entries, removed |-> s.removed, early |-> s.early, cleared |-> s.cleared, lead |-> s.lead]
  BY DEF Stores
<1>2. t = [[entries |-> s.entries, removed |-> s.removed, early |-> s.early, cleared |-> s.cleared, lead |-> s.lead]
             EXCEPT !.entries = E, !.early = H]
  BY <1>1
<1> HIDE DEF t
<1>3. t = [entries |-> E, removed |-> s.removed, early |-> H, cleared |-> s.cleared, lead |-> s.lead]
  BY <1>2
<1> QED BY <1>3 DEF t

\* Loaded messages join what is there: updates that came before them apply,
\* what was removed or cleared stays away.
LEMMA AddKeeps ==
    ASSUME NEW s, StoreSound(s), NEW rows, Agreed(RowsOf(s) \cup rows), Distinct(rows)
    PROVE  /\ StoreSound(Add(s, rows))
           /\ Evolves(s, Add(s, rows), rows)
           /\ Add(s, rows).cleared = s.cleared
           /\ Add(s, rows).lead = s.lead
           /\ LoadedIds(Add(s, rows)) \subseteq LoadedIds(s) \cup IdsOf(rows)
           /\ \A r \in rows : r.id \in Add(s, rows).removed \/ Holds(Add(s, rows), r)
           /\ Add(s, rows).removed \subseteq s.removed \cup {r.id : r \in {q \in rows : q.created <= s.cleared}}
<1> DEFINE news  == {r \in rows : r.id \notin s.removed}
           late  == ClearedRows(s, news)
           kept  == news \ late
           known == {r \in kept : r.id \in LoadedIds(s)}
           fresh == kept \ known
           next(e) == IF \E r \in known : r.id = e.row.id
                      THEN AdvanceEntry(e, CHOOSE r \in known : r.id = e.row.id) ELSE e
           nexts == {next(e) : e \in s.entries}
           added == {NewEntry(s, r) : r \in fresh}
           held  == {q \in s.early : q.id \notin IdsOf(fresh)}
           mid   == [s EXCEPT !.entries = nexts \cup added, !.early = held]
<1>1. s \in Stores /\ s.entries \subseteq Entries /\ s.early \subseteq Rows /\ rows \subseteq Rows
      /\ s.cleared \in Nat \cup {Never}
  BY DEF StoreSound, Stores, Agreed
<1>2. Add(s, rows) = RemoveIds(mid, IdsOf(late))
  BY DEF Add
<1>3. \A e \in s.entries : /\ next(e) \in Entries /\ next(e).opening = e.opening
                           /\ next(e).row.id = e.row.id /\ next(e).row.created = e.row.created
                           /\ next(e).row.recipient = e.row.recipient
                           /\ IsFinal(e.row) => next(e).row = e.row
                           /\ next(e).row \in {e.row} \cup rows
                           /\ \A r \in known : r.id = e.row.id /\ IsFinal(r) => next(e).row = r
  <2> SUFFICES ASSUME NEW e \in s.entries
               PROVE  /\ next(e) \in Entries /\ next(e).opening = e.opening
                      /\ next(e).row.id = e.row.id /\ next(e).row.created = e.row.created
                      /\ next(e).row.recipient = e.row.recipient
                      /\ IsFinal(e.row) => next(e).row = e.row
                      /\ next(e).row \in {e.row} \cup rows
                      /\ \A r \in known : r.id = e.row.id /\ IsFinal(r) => next(e).row = r
    OBVIOUS
  <2>1. CASE \E r \in known : r.id = e.row.id
    <3> DEFINE q == CHOOSE r \in known : r.id = e.row.id
    <3>1. q \in known /\ q.id = e.row.id
      BY <2>1
    <3>2. q \in rows /\ \A r \in known : r.id = e.row.id => r = q
      BY <3>1 DEF Distinct
    <3>3. next(e) = [e EXCEPT !.row = Advance(e.row, q)]
      BY <2>1 DEF AdvanceEntry
    <3> HIDE DEF next, q, known
    <3>4. e.row \in RowsOf(s) /\ e \in Entries
      BY <1>1 DEF RowsOf
    <3> DEFINE a == Advance(e.row, q)
    <3>5. /\ a = (IF IsFinal(q) THEN q ELSE e.row)
          /\ IsFinal(e.row) => a = e.row
          /\ IsFinal(q) => a = q
          /\ a.id = e.row.id /\ a.created = e.row.created
          /\ a.recipient = e.row.recipient
      BY <3>1, <3>2, <3>4, AgreedAdvance
    <3> HIDE DEF a
    <3>6. next(e) = [row |-> a, opening |-> e.opening] /\ a \in Rows
      BY <1>1, <3>2, <3>3, <3>4, <3>5 DEF Entries, a
    <3> QED BY <3>2, <3>4, <3>5, <3>6 DEF Entries
  <2>2. CASE ~\E r \in known : r.id = e.row.id
    BY <1>1, <2>2
  <2> QED BY <2>1, <2>2
<1>4. \A r \in fresh : /\ r \in rows /\ r.id \notin s.removed /\ r.created > s.cleared
                       /\ r.id \notin LoadedIds(s) /\ r \in Rows
  BY <1>1 DEF ClearedRows, Rows, Never
<1>5. \A r \in fresh : /\ NewEntry(s, r) \in Entries
                       /\ NewEntry(s, r).opening = (IF r.recipient = me THEN "pending" ELSE "none")
                       /\ NewEntry(s, r).row.id = r.id /\ NewEntry(s, r).row.created = r.created
                       /\ NewEntry(s, r).row.recipient = r.recipient
                       /\ IsFinal(r) => NewEntry(s, r).row = r
                       /\ NewEntry(s, r).row \in {r} \cup s.early
                       /\ \A q \in s.early : q.id = r.id => NewEntry(s, r).row = q
  <2> SUFFICES ASSUME NEW r \in fresh
               PROVE  /\ NewEntry(s, r) \in Entries
                      /\ NewEntry(s, r).opening = (IF r.recipient = me THEN "pending" ELSE "none")
                      /\ NewEntry(s, r).row.id = r.id /\ NewEntry(s, r).row.created = r.created
                      /\ NewEntry(s, r).row.recipient = r.recipient
                      /\ IsFinal(r) => NewEntry(s, r).row = r
                      /\ NewEntry(s, r).row \in {r} \cup s.early
                      /\ \A q \in s.early : q.id = r.id => NewEntry(s, r).row = q
    OBVIOUS
  <2>1. r \in rows /\ r \in Rows
    BY <1>4
  <2> HIDE DEF fresh
  <2> DEFINE before == {q \in s.early : q.id = r.id}
             a == IF before = {} THEN r ELSE Advance(r, CHOOSE q \in before : TRUE)
  <2>2. ASSUME NEW q \in before
        PROVE  /\ Advance(r, q) = q /\ q \in Rows
               /\ IsFinal(r) => q = r
               /\ q.id = r.id /\ q.created = r.created /\ q.recipient = r.recipient
               /\ \A p \in before : p = q
    <3>1. q \in RowsOf(s) /\ IsFinal(q) /\ q.id = r.id
      BY DEF RowsOf, StoreSound
    <3>2. \A p \in before : p \in RowsOf(s) /\ IsFinal(p)
      BY DEF RowsOf, StoreSound
    <3> HIDE DEF before
    <3>3. Advance(r, q) = q
      BY <2>1, <3>1, AgreedAdvance
    <3>4. (IsFinal(r) => q = r) /\ SameEnvelope(q, r)
      BY <2>1, <3>1 DEF Agreed, Agree
    <3>5. \A p \in before : p = q
      BY <3>1, <3>2 DEF Agreed, Agree, before
    <3> QED BY <1>1, <3>1, <3>3, <3>4, <3>5 DEF SameEnvelope, before
  <2>3. NewEntry(s, r) = [row |-> a, opening |-> IF r.recipient = me THEN "pending" ELSE "none"]
    BY DEF NewEntry
  <2>4. CASE before = {}
    <3>1. a = r
      BY <2>4
    <3> HIDE DEF a
    <3> QED BY <2>1, <2>3, <2>4, <3>1 DEF Entries
  <2>5. CASE before # {}
    <3>1. PICK q \in before : a = q
      BY <2>2, <2>5
    <3> HIDE DEF a
    <3> QED BY <2>1, <2>2, <2>3, <2>5, <3>1 DEF Entries
  <2> QED BY <2>4, <2>5
<1>6. /\ mid.entries = nexts \cup added /\ mid.removed = s.removed /\ mid.early = held
      /\ mid.cleared = s.cleared /\ mid.lead = s.lead
      /\ mid = [entries |-> nexts \cup added, removed |-> s.removed, early |-> held,
                cleared |-> s.cleared, lead |-> s.lead]
  <2>1. mid = [entries |-> nexts \cup added, removed |-> s.removed, early |-> held,
               cleared |-> s.cleared, lead |-> s.lead]
    <3> DEFINE now == nexts \cup added
    <3>1. mid = [s EXCEPT !.entries = now, !.early = held]
      OBVIOUS
    <3> HIDE DEF now, held, mid
    <3>2. [s EXCEPT !.entries = now, !.early = held] =
             [entries |-> now, removed |-> s.removed, early |-> held, cleared |-> s.cleared, lead |-> s.lead]
      BY <1>1, StoreExcept, Zenon
    <3>3. mid = [entries |-> now, removed |-> s.removed, early |-> held, cleared |-> s.cleared, lead |-> s.lead]
      BY <3>1, <3>2
    <3> QED BY <3>3 DEF now
  <2> HIDE DEF nexts, added, held, mid
  <2> QED BY <2>1
<1>7. IdsOf(late) \subseteq Ids
  BY <1>1 DEF IdsOf, ClearedRows, Rows
<1>8. \A r \in rows : r.id \in s.removed \/ r.id \in IdsOf(late) \/ r \in known \/ r \in fresh
  BY DEF IdsOf
<1>9. \A r \in known : r \in rows /\ r.id \in LoadedIds(s)
  OBVIOUS
<1>10. \A r \in late : r \in rows /\ r.created <= s.cleared
  BY DEF ClearedRows
<1>11. \A r1, r2 \in fresh : r1.id = r2.id => r1 = r2
  BY DEF Distinct
<1> HIDE DEF mid, next, fresh, known, late, kept, news
<1>12. LoadedIds(mid) = LoadedIds(s) \cup IdsOf(fresh)
  BY <1>3, <1>5, <1>6 DEF LoadedIds, IdsOf
<1>13. StoreSound(mid)
  <2>1. mid \in Stores
    <3>1. nexts \subseteq Entries /\ added \subseteq Entries /\ held \subseteq Rows
      BY <1>1, <1>3, <1>5
    <3> QED BY <1>1, <1>6, <3>1 DEF Stores
  <2>2. \A e, f \in mid.entries : e.row.id = f.row.id => e = f
    <3>1. \A e, f \in nexts : e.row.id = f.row.id => e = f
      BY <1>3 DEF StoreSound
    <3>2. \A e, f \in added : e.row.id = f.row.id => e = f
      BY <1>5, <1>11
    <3>3. \A e \in nexts : e.row.id \in LoadedIds(s)
      BY <1>3 DEF LoadedIds
    <3>4. \A e \in added : e.row.id \notin LoadedIds(s)
      BY <1>4, <1>5
    <3> QED BY <1>6, <3>1, <3>2, <3>3, <3>4
  <2>3. \A e \in mid.entries : /\ e.row.created > mid.cleared /\ e.row.id \notin mid.removed
                               /\ e.opening = "none" <=> e.row.recipient # me
                               /\ e.opening = "confirmed" => IsFinal(e.row)
    <3>1. \A e \in nexts : /\ e.row.created > mid.cleared /\ e.row.id \notin mid.removed
                           /\ e.opening = "none" <=> e.row.recipient # me
                           /\ e.opening = "confirmed" => IsFinal(e.row)
      BY <1>3, <1>6 DEF StoreSound
    <3>2. \A e \in added : /\ e.row.created > mid.cleared /\ e.row.id \notin mid.removed
                           /\ e.opening = "none" <=> e.row.recipient # me
                           /\ e.opening # "confirmed"
      BY <1>4, <1>5, <1>6
    <3> QED BY <1>6, <3>1, <3>2
  <2>4. \A q \in mid.early : IsFinal(q) /\ q.id \notin LoadedIds(mid)
    BY <1>6, <1>12 DEF StoreSound
  <2> QED BY <2>1, <2>2, <2>3, <2>4 DEF StoreSound
<1>14. Evolves(s, mid, rows)
  <2>1. s.cleared <= mid.cleared
    BY <1>1, <1>6 DEF Never
  <2>2. \A e \in nexts : e.row \in RowsOf(s) \cup rows
    BY <1>3 DEF RowsOf
  <2>3. \A e \in added : e.row \in RowsOf(s) \cup rows
    BY <1>4, <1>5 DEF RowsOf
  <2>4. \A e \in s.entries : Holds(mid, e.row)
    BY <1>3, <1>6 DEF Holds
  <2>5. ASSUME NEW q \in s.early, q.id \in IdsOf(fresh) PROVE \E e \in added : e.row = q
    <3>1. PICK r \in fresh : r.id = q.id
      BY <2>5 DEF IdsOf
    <3> QED BY <1>5, <3>1
  <2> QED BY <1>6, <2>1, <2>2, <2>3, <2>4, <2>5 DEF Evolves, RowsOf
<1> DEFINE t == RemoveIds(mid, IdsOf(late))
<1>15. /\ StoreSound(t) /\ Evolves(mid, t, {}) /\ t.cleared = s.cleared /\ t.lead = s.lead
       /\ t.removed = s.removed \cup IdsOf(late)
       /\ t.entries = {e \in mid.entries : e.row.id \notin IdsOf(late)}
  <2> DEFINE ids == IdsOf(late)
  <2>1. ids \in SUBSET Ids
    BY <1>7
  <2> HIDE DEF ids
  <2>2. /\ StoreSound(RemoveIds(mid, ids)) /\ Evolves(mid, RemoveIds(mid, ids), {})
        /\ RemoveIds(mid, ids).cleared = mid.cleared /\ RemoveIds(mid, ids).lead = mid.lead
        /\ RemoveIds(mid, ids).removed = mid.removed \cup ids
        /\ RemoveIds(mid, ids).entries = {e \in mid.entries : e.row.id \notin ids}
    BY <1>13, <2>1, RemoveKeeps
  <2> QED BY <1>6, <2>2 DEF ids
<1> HIDE DEF t
<1>16. Evolves(s, t, rows)
  <2>1. Evolves(mid, t, rows)
    BY <1>15 DEF Evolves
  <2>2. StoreSound(mid) /\ StoreSound(t) /\ Evolves(s, mid, rows)
    BY <1>13, <1>14, <1>15
  <2> HIDE DEF Evolves, StoreSound
  <2> QED BY <2>1, <2>2, EvolvesTrans
<1>17. LoadedIds(t) \subseteq LoadedIds(s) \cup IdsOf(rows)
  <2>1. IdsOf(fresh) \subseteq IdsOf(rows)
    BY <1>4 DEF IdsOf
  <2>2. LoadedIds(t) \subseteq LoadedIds(mid)
    BY <1>15 DEF LoadedIds
  <2> QED BY <1>12, <2>1, <2>2
<1>18. ASSUME NEW r \in rows PROVE r.id \in t.removed \/ Holds(t, r)
  <2>1. CASE r \in known
    <3>1. PICK e \in s.entries : e.row.id = r.id
      BY <1>9, <2>1 DEF LoadedIds
    <3>2. Holds(mid, r)
      BY <1>3, <1>6, <2>1, <3>1 DEF Holds
    <3> QED BY <1>15, <3>2, HoldsOn
  <2>2. CASE r \in fresh
    <3>1. Holds(mid, r)
      BY <1>5, <1>6, <2>2 DEF Holds
    <3> QED BY <1>15, <3>1, HoldsOn
  <2> QED BY <1>8, <1>15, <2>1, <2>2
<1>19. t.removed \subseteq s.removed \cup {r.id : r \in {q \in rows : q.created <= s.cleared}}
  BY <1>10, <1>15 DEF IdsOf
<1> QED BY <1>2, <1>15, <1>16, <1>17, <1>18, <1>19 DEF t

\* Entries may change to later versions of their messages.
LaterBy(s, f, given) ==
    \A e \in s.entries : /\ f[e] \in Entries
                         /\ f[e].row.id = e.row.id /\ f[e].row.created = e.row.created
                         /\ f[e].row.recipient = e.row.recipient
                         /\ IsFinal(e.row) => f[e].row = e.row
                         /\ f[e].row \in {e.row} \cup given
                         /\ f[e].opening = "none" <=> e.opening = "none"
                         /\ f[e].opening = "confirmed" => IsFinal(f[e].row)

LEMMA EntriesKeep ==
    ASSUME NEW s, StoreSound(s), NEW given, NEW f, LaterBy(s, f, given)
    PROVE  LET t == [s EXCEPT !.entries = {f[e] : e \in s.entries}]
           IN  /\ StoreSound(t) /\ Evolves(s, t, given) /\ LoadedIds(t) = LoadedIds(s)
               /\ t.entries = {f[e] : e \in s.entries} /\ t.removed = s.removed
               /\ t.cleared = s.cleared /\ t.lead = s.lead /\ t.early = s.early
<1> DEFINE nexts == {f[e] : e \in s.entries}
           t == [s EXCEPT !.entries = nexts]
<1> USE DEF LaterBy
<1>1. s \in Stores
  BY DEF StoreSound
<1>2. /\ t.entries = nexts /\ t.removed = s.removed /\ t.early = s.early
      /\ t.cleared = s.cleared /\ t.lead = s.lead
      /\ t = [entries |-> nexts, removed |-> s.removed, early |-> s.early,
              cleared |-> s.cleared, lead |-> s.lead]
  <2> HIDE DEF nexts
  <2> QED BY <1>1 DEF Stores
<1> HIDE DEF t
<1>3. t \in Stores
  BY <1>1, <1>2 DEF Stores
<1>4. LoadedIds(t) = LoadedIds(s)
  BY <1>2 DEF LoadedIds
<1>5. StoreSound(t)
  <2>1. \A e, g \in t.entries : e.row.id = g.row.id => e = g
    BY <1>2 DEF StoreSound
  <2>2. \A e \in t.entries : e.row.created > t.cleared /\ e.row.id \notin t.removed
    BY <1>2 DEF StoreSound
  <2>3. \A e \in t.entries : /\ e.opening = "none" <=> e.row.recipient # me
                             /\ e.opening = "confirmed" => IsFinal(e.row)
    BY <1>2 DEF StoreSound
  <2>4. \A q \in t.early : IsFinal(q) /\ q.id \notin LoadedIds(t)
    BY <1>2, <1>4 DEF StoreSound
  <2> QED BY <1>3, <2>1, <2>2, <2>3, <2>4 DEF StoreSound
<1>6. Evolves(s, t, given)
  <2>1. s.cleared <= t.cleared
    BY <1>1, <1>2 DEF Stores, Never
  <2>2. \A e \in t.entries : e.row \in RowsOf(s) \cup given
    BY <1>2 DEF RowsOf
  <2>3. \A e \in s.entries : Holds(t, e.row)
    BY <1>2 DEF Holds
  <2> QED BY <1>2, <2>1, <2>2, <2>3 DEF Evolves, RowsOf
<1> QED BY <1>2, <1>4, <1>5, <1>6 DEF t

\* Server time only sets the lead.
LEMMA TimeKeeps ==
    ASSUME NEW s, StoreSound(s), NEW time \in Nat, NEW started \in Nat, started <= time
    PROVE  LET t == ObserveTime(s, time, started)
           IN  /\ StoreSound(t) /\ t.entries = s.entries /\ t.removed = s.removed /\ t.early = s.early
               /\ t.cleared = s.cleared /\ RowsOf(t) = RowsOf(s) /\ LoadedIds(t) = LoadedIds(s)
               /\ t.lead >= time - started
<1> DEFINE lead == IF s.lead > time - started THEN s.lead ELSE time - started
           t == ObserveTime(s, time, started)
<1>1. s \in Stores /\ lead \in Nat /\ lead >= time - started
  BY DEF StoreSound, Stores, Unknown
<1>2. t = [s EXCEPT !.lead = lead]
  BY DEF ObserveTime
<1> HIDE DEF lead, t
<1>3. /\ t.entries = s.entries /\ t.removed = s.removed /\ t.early = s.early
      /\ t.cleared = s.cleared /\ t.lead = lead /\ t \in Stores
  BY <1>1, <1>2 DEF Stores
<1> QED BY <1>1, <1>3 DEF StoreSound, LoadedIds, RowsOf, t

LEMMA EvolvesSame ==
    ASSUME NEW s, NEW t, NEW u, NEW given, Evolves(s, t, given),
           u.entries = t.entries, u.removed = t.removed, u.early = t.early, u.cleared = t.cleared
    PROVE  Evolves(s, u, given)
<1>1. RowsOf(u) = RowsOf(t) /\ \A r : Holds(t, r) => Holds(u, r)
  BY DEF RowsOf, Holds
<1> QED BY <1>1 DEF Evolves

\* An answer about a message is about an acceptance its copy agrees with.
LEMMA AnswersConfirm ==
    ASSUME NEW S, Agreed(S), NEW u \in S, NEW q \in S
    PROVE  /\ Confirms(u, q, "availability") <=> q.id = u.id
           /\ Confirms(u, q, "opening") <=> q.id = u.id /\ IsFinal(q)
<1>1. q.id = u.id => q.created = u.created /\ (IsFinal(u) /\ IsFinal(q) => q = u)
  BY DEF Agreed, Agree, SameEnvelope
<1> QED BY <1>1 DEF Confirms

\* Entries that an answer brought up to date.
UpToDate(s, ids, found) ==
    \A e \in s.entries : e.row.id \in ids => \E r \in found : r.id = e.row.id /\ (IsFinal(r) => e.row = r)

\* A lookup's answer brings the lifecycles of what is still available and
\* removes the rest of what was asked for.
LEMMA StatesKeep ==
    ASSUME NEW s, StoreSound(s), NEW ids \in SUBSET Ids, NEW found,
           Agreed(RowsOf(s) \cup found), Distinct(found),
           NEW time \in Nat, NEW started \in Nat, started <= time
    PROVE  LET t == ApplyStates(s, ids, found, time, started)
           IN  /\ StoreSound(t) /\ Evolves(s, t, found) /\ t.cleared = s.cleared
               /\ LoadedIds(t) \subseteq LoadedIds(s)
               /\ UpToDate(t, ids, found)
               /\ t.removed \subseteq s.removed \cup {i \in ids : i \notin IdsOf(found)}
               /\ StatesComplete(s, ids, found)
<1> DEFINE asked == Asked(s, ids)
           heard == {e \in asked : Confirmed(e.row, found, "availability")}
           gone  == {e.row.id : e \in {f \in asked : Unavailable(f.row, found)}}
           f     == [e \in s.entries |-> IF e \in heard THEN Answered(e, found, "availability") ELSE e]
           mid   == [s EXCEPT !.entries = {f[e] : e \in s.entries}]
           after == RemoveIds(mid, gone)
<1>1. s \in Stores /\ s.entries \subseteq Entries
  BY DEF StoreSound, Stores
<1>2. \A e \in s.entries, q \in found : Confirms(e.row, q, "availability") <=> q.id = e.row.id
  BY AnswersConfirm DEF RowsOf
<1>3. /\ heard \subseteq s.entries /\ gone \subseteq Ids
      /\ \A e \in s.entries : e \in heard <=> e.row.id \in ids /\ \E q \in found : q.id = e.row.id
      /\ \A i \in gone : i \in ids /\ i \notin IdsOf(found)
      /\ \A e \in s.entries : e.row.id \in ids => e \in heard \/ e.row.id \in gone
  BY <1>1, <1>2 DEF Asked, Confirmed, Unavailable, IdsOf, Entries, Rows
<1>4. StatesComplete(s, ids, found)
  BY <1>2 DEF StatesComplete, Asked, Unavailable, Confirmed
<1>5. ASSUME NEW e \in heard
      PROVE  \E q \in found : /\ q.id = e.row.id
                              /\ Answered(e, found, "availability") = [e EXCEPT !.row = Advance(e.row, q)]
  <2>1. e \in s.entries /\ \E q \in found : Confirms(e.row, q, "availability")
    BY <1>3 DEF Confirmed
  <2>2. PICK q \in found : q = (CHOOSE p \in found : Confirms(e.row, p, "availability"))
    BY <2>1
  <2>3. Confirms(e.row, q, "availability")
    BY <2>1, <2>2
  <2>4. Answered(e, found, "availability") = [e EXCEPT !.row = Advance(e.row, q)]
    BY <2>1, <2>2 DEF Answered, Confirmed, AdvanceEntry
  <2> QED BY <1>2, <2>1, <2>3, <2>4
<1> HIDE DEF heard, gone
<1>6. \A e \in s.entries : /\ f[e] \in Entries
                           /\ f[e].row.id = e.row.id /\ f[e].row.created = e.row.created
                           /\ f[e].row.recipient = e.row.recipient
                           /\ IsFinal(e.row) => f[e].row = e.row
                           /\ f[e].row \in {e.row} \cup found
                           /\ f[e].opening = e.opening
                           /\ e \in heard => \E q \in found : q.id = e.row.id /\ (IsFinal(q) => f[e].row = q)
  <2> SUFFICES ASSUME NEW e \in s.entries, e \in heard
               PROVE  /\ f[e] \in Entries
                      /\ f[e].row.id = e.row.id /\ f[e].row.created = e.row.created
                      /\ f[e].row.recipient = e.row.recipient
                      /\ IsFinal(e.row) => f[e].row = e.row
                      /\ f[e].row \in {e.row} \cup found
                      /\ f[e].opening = e.opening
                      /\ \E q \in found : q.id = e.row.id /\ (IsFinal(q) => f[e].row = q)
    BY <1>1
  <2>1. PICK q \in found : q.id = e.row.id /\ Answered(e, found, "availability") = [e EXCEPT !.row = Advance(e.row, q)]
    BY <1>5
  <2>2. f[e] = [e EXCEPT !.row = Advance(e.row, q)]
    BY <2>1
  <2> DEFINE a == Advance(e.row, q)
  <2>3. e.row \in RowsOf(s) /\ e \in Entries
    BY <1>1 DEF RowsOf
  <2>4. /\ a = (IF IsFinal(q) THEN q ELSE e.row)
        /\ IsFinal(e.row) => a = e.row
        /\ IsFinal(q) => a = q
        /\ a.id = e.row.id /\ a.created = e.row.created
        /\ a.recipient = e.row.recipient
    BY <2>1, <2>3, AgreedAdvance
  <2>5. q \in Rows
    BY DEF Agreed
  <2> HIDE DEF f, a
  <2>6. f[e] = [row |-> a, opening |-> e.opening] /\ a \in Rows
    BY <2>2, <2>3, <2>4, <2>5 DEF Entries, a
  <2> QED BY <2>1, <2>3, <2>4, <2>6 DEF Entries
<1>7. (s.entries \ heard) \cup {Answered(e, found, "availability") : e \in heard} = {f[e] : e \in s.entries}
  <2>1. \A e \in s.entries : f[e] = IF e \in heard THEN Answered(e, found, "availability") ELSE e
    OBVIOUS
  <2> HIDE DEF f
  <2> QED BY <1>3, <2>1
<1>8. ApplyStates(s, ids, found, time, started) = IF heard = {} THEN after ELSE ObserveTime(after, time, started)
  <2>1. [s EXCEPT !.entries = (@ \ heard) \cup {Answered(e, found, "availability") : e \in heard}] = mid
    BY <1>7
  <2> HIDE DEF mid
  <2> QED BY <2>1 DEF ApplyStates, heard, gone
<1> HIDE DEF f
<1>9. \A e \in s.entries : /\ f[e].opening = "none" <=> e.opening = "none"
                           /\ f[e].opening = "confirmed" => IsFinal(f[e].row)
  BY <1>6 DEF StoreSound
<1>10. /\ StoreSound(mid) /\ Evolves(s, mid, found) /\ LoadedIds(mid) = LoadedIds(s)
       /\ mid.entries = {f[e] : e \in s.entries} /\ mid.removed = s.removed
       /\ mid.cleared = s.cleared
  <2>1. LaterBy(s, f, found)
    BY <1>6, <1>9 DEF LaterBy
  <2> QED BY <2>1, EntriesKeep
<1> HIDE DEF mid
<1>11. /\ StoreSound(after) /\ Evolves(mid, after, {})
       /\ after.entries = {e \in mid.entries : e.row.id \notin gone}
       /\ after.removed = mid.removed \cup gone /\ after.cleared = mid.cleared
  BY <1>3, <1>10, RemoveKeeps
<1> HIDE DEF after
<1>12. Evolves(s, after, found)
  <2>1. Evolves(mid, after, found)
    BY <1>11, EvolvesMore
  <2> QED BY <1>10, <1>11, <2>1, EvolvesTrans
<1> DEFINE t == ApplyStates(s, ids, found, time, started)
<1>13. /\ StoreSound(t) /\ t.entries = after.entries /\ t.removed = after.removed
       /\ t.early = after.early /\ t.cleared = after.cleared
  <2>1. CASE heard = {}
    BY <1>8, <1>11, <2>1
  <2>2. CASE heard # {}
    <3>1. t = ObserveTime(after, time, started)
      BY <1>8, <2>2
    <3> DEFINE u == ObserveTime(after, time, started)
    <3>2. /\ StoreSound(u) /\ u.entries = after.entries /\ u.removed = after.removed
          /\ u.early = after.early /\ u.cleared = after.cleared
      <4>1. StoreSound(after) /\ time \in Nat /\ started \in Nat /\ started <= time
        BY <1>11
      <4> QED BY <4>1, TimeKeeps, Zenon
    <3> HIDE DEF t, u
    <3>3. t = u
      BY <3>1 DEF u
    <3> QED BY <3>2, <3>3
  <2> QED BY <2>1, <2>2
<1> HIDE DEF t
<1>14. Evolves(s, t, found)
  BY <1>12, <1>13, EvolvesSame
<1>15. LoadedIds(t) \subseteq LoadedIds(s)
  BY <1>10, <1>11, <1>13 DEF LoadedIds
<1>16. ASSUME NEW e \in t.entries, e.row.id \in ids
       PROVE  \E r \in found : r.id = e.row.id /\ (IsFinal(r) => e.row = r)
  <2>1. PICK g \in s.entries : e = f[g]
    BY <1>10, <1>11, <1>13
  <2>2. e.row.id \notin gone
    BY <1>11, <1>13
  <2> QED BY <1>3, <1>6, <1>16, <2>1, <2>2
<1>17. t.removed \subseteq s.removed \cup {i \in ids : i \notin IdsOf(found)}
  BY <1>3, <1>10, <1>11, <1>13
<1> QED BY <1>4, <1>10, <1>11, <1>13, <1>14, <1>15, <1>16, <1>17 DEF t, UpToDate

\* Removing looks only at the entries that stay.
LEMMA RemoveSame ==
    ASSUME NEW s \in Stores, NEW ids, NEW E, NEW F,
           {e \in E : e.row.id \notin ids} = {e \in F : e.row.id \notin ids}
    PROVE  RemoveIds([s EXCEPT !.entries = E], ids) = RemoveIds([s EXCEPT !.entries = F], ids)
<1> DEFINE kept == {e \in E : e.row.id \notin ids}
           held == {q \in s.early : q.id \notin ids}
           all  == s.removed \cup ids
           result == [entries |-> kept, removed |-> all, early |-> held, cleared |-> s.cleared, lead |-> s.lead]
<1>1. ASSUME NEW G, {e \in G : e.row.id \notin ids} = kept
      PROVE  RemoveIds([s EXCEPT !.entries = G], ids) = result
  <2> DEFINE u == [s EXCEPT !.entries = G]
  <2>1. u = [entries |-> G, removed |-> s.removed, early |-> s.early, cleared |-> s.cleared, lead |-> s.lead]
    BY DEF Stores
  <2> HIDE DEF u
  <2>2. /\ {e \in u.entries : e.row.id \notin ids} = kept /\ {q \in u.early : q.id \notin ids} = held
        /\ u.removed \cup ids = all
    BY <1>1, <2>1
  <2>3. RemoveIds(u, ids) = [u EXCEPT !.entries = kept, !.early = held, !.removed = all]
    BY <2>2 DEF RemoveIds
  <2> HIDE DEF kept, held, all
  <2>4. RemoveIds(u, ids) = result
    BY <2>1, <2>3
  <2> QED BY <2>4 DEF u
<1>2. RemoveIds([s EXCEPT !.entries = E], ids) = result
  BY <1>1
<1>3. RemoveIds([s EXCEPT !.entries = F], ids) = result
  BY <1>1
<1> QED BY <1>2, <1>3

NoneRequested(s, ids) == \A e \in s.entries : e.row.id \in ids => e.opening # "requested"

\* Only what an answer does not list is removed.
RemovedUnlisted(s, t, ids, found) ==
    \A i \in t.removed \ s.removed : /\ i \in ids /\ i \notin IdsOf(found)
                                     /\ \E e \in s.entries : e.row.id = i /\ e.row.recipient = me

\* An opening's answer settles every message it was requested for.
LEMMA ConfirmKeeps ==
    ASSUME NEW s, StoreSound(s), NEW ids \in SUBSET Ids, NEW found,
           Agreed(RowsOf(s) \cup found), \A q \in found : IsFinal(q),
           NEW time \in Nat, NEW started \in Nat, started <= time
    PROVE  LET t == ConfirmOpening(s, ids, found, time, started)
           IN  /\ StoreSound(t) /\ Evolves(s, t, found) /\ t.cleared = s.cleared
               /\ LoadedIds(t) \subseteq LoadedIds(s)
               /\ NoneRequested(t, ids) /\ RemovedUnlisted(s, t, ids, found)
<1> DEFINE asked == {e \in Asked(s, ids) : e.opening = "requested"}
           heard == {e \in asked : Confirmed(e.row, found, "opening")}
           lost  == {e \in asked : Unavailable(e.row, found)}
           gone  == {e.row.id : e \in lost}
           failed == asked \ (heard \cup lost)
           answered(e) == [Answered(e, found, "opening") EXCEPT !.opening = "confirmed"]
           f     == [e \in s.entries |-> IF e \in heard THEN answered(e) ELSE e]
           mid   == [s EXCEPT !.entries = {f[e] : e \in s.entries}]
           after == RemoveIds(mid, gone)
           made  == ((s.entries \ asked) \cup {answered(e) : e \in heard})
                      \cup {[e EXCEPT !.opening = "failed"] : e \in failed}
<1>1. s \in Stores /\ s.entries \subseteq Entries
  BY DEF StoreSound, Stores
<1>2. \A e \in s.entries, q \in found : Confirms(e.row, q, "opening") <=> q.id = e.row.id
  BY AnswersConfirm DEF RowsOf
<1>3. /\ heard \subseteq s.entries /\ asked \subseteq s.entries /\ gone \subseteq Ids /\ failed = {}
      /\ \A e \in s.entries : e \in asked <=> e.row.id \in ids /\ e.opening = "requested"
      /\ \A e \in s.entries : e \in heard <=> e \in asked /\ \E q \in found : q.id = e.row.id
      /\ \A i \in gone : /\ i \in ids /\ i \notin IdsOf(found)
                         /\ \E e \in s.entries : e.row.id = i /\ e.opening = "requested"
      /\ \A e \in asked : e \in heard \/ e.row.id \in gone
      /\ \A e \in s.entries : e.row.id \in gone <=> e \in asked /\ e \notin heard
  <2>1. /\ heard \subseteq s.entries /\ asked \subseteq s.entries
        /\ \A e \in s.entries : e \in asked <=> e.row.id \in ids /\ e.opening = "requested"
    BY DEF Asked
  <2>2. \A e \in s.entries : e \in heard <=> e \in asked /\ \E q \in found : q.id = e.row.id
    BY <1>2 DEF Confirmed
  <2>3. \A e \in s.entries : e \in lost <=> e \in asked /\ ~\E q \in found : q.id = e.row.id
    BY <2>1 DEF Unavailable
  <2>4. \A e \in lost : e \in s.entries
    BY <2>1
  <2> HIDE DEF asked, heard, lost
  <2>5. gone \subseteq Ids
    BY <1>1, <2>4 DEF Entries, Rows
  <2>6. failed = {}
    BY <2>1, <2>2, <2>3
  <2>7. \A e \in s.entries : e.row.id \in gone <=> e \in asked /\ e \notin heard
    BY <2>1, <2>2, <2>3, <2>4 DEF StoreSound
  <2>8. \A i \in gone : /\ i \in ids /\ i \notin IdsOf(found)
                        /\ \E e \in s.entries : e.row.id = i /\ e.opening = "requested"
    BY <2>1, <2>3, <2>4 DEF IdsOf
  <2> QED BY <2>1, <2>2, <2>5, <2>6, <2>7, <2>8
<1>5. ASSUME NEW e \in heard
      PROVE  \E q \in found : q.id = e.row.id /\ Answered(e, found, "opening") = [e EXCEPT !.row = Advance(e.row, q)]
  <2>1. e \in s.entries /\ \E q \in found : Confirms(e.row, q, "opening")
    BY <1>3 DEF Confirmed
  <2>2. PICK q \in found : q = (CHOOSE p \in found : Confirms(e.row, p, "opening"))
    BY <2>1
  <2>3. Confirms(e.row, q, "opening")
    BY <2>1, <2>2
  <2>4. Answered(e, found, "opening") = [e EXCEPT !.row = Advance(e.row, q)]
    BY <2>1, <2>2 DEF Answered, Confirmed, AdvanceEntry
  <2> QED BY <1>2, <2>1, <2>3, <2>4
<1>6. ASSUME NEW e \in heard
      PROVE  \E q \in found : q.id = e.row.id /\ answered(e) = [row |-> q, opening |-> "confirmed"]
                              /\ (IsFinal(e.row) => e.row = q) /\ SameEnvelope(e.row, q) /\ q \in Rows
  <2>1. PICK q \in found : q.id = e.row.id /\ Answered(e, found, "opening") = [e EXCEPT !.row = Advance(e.row, q)]
    BY <1>5
  <2>2. e.row \in RowsOf(s) /\ e \in Entries
    BY <1>1, <1>3 DEF RowsOf
  <2>3. Advance(e.row, q) = q
    BY <2>1, <2>2, AgreedAdvance
  <2>4. q \in Rows /\ SameEnvelope(e.row, q) /\ (IsFinal(e.row) => e.row = q)
    BY <2>1, <2>2 DEF Agreed, Agree
  <2>5. [e EXCEPT !.row = q] = [row |-> q, opening |-> e.opening]
    BY <2>2 DEF Entries
  <2>6. answered(e) = [[row |-> q, opening |-> e.opening] EXCEPT !.opening = "confirmed"]
    BY <2>1, <2>3, <2>5
  <2> HIDE DEF answered
  <2>7. answered(e) = [row |-> q, opening |-> "confirmed"]
    BY <2>6
  <2> QED BY <2>1, <2>4, <2>7
<1>7. \A e \in s.entries : f[e] = IF e \in heard THEN answered(e) ELSE e
  OBVIOUS
<1> HIDE DEF heard, gone, asked, answered, f, lost
<1>8. \A e \in s.entries : /\ f[e] \in Entries
                           /\ f[e].row.id = e.row.id /\ f[e].row.created = e.row.created
                           /\ f[e].row.recipient = e.row.recipient
                           /\ IsFinal(e.row) => f[e].row = e.row
                           /\ f[e].row \in {e.row} \cup found
                           /\ f[e].opening = "none" <=> e.opening = "none"
                           /\ f[e].opening = "confirmed" => IsFinal(f[e].row)
                           /\ e \in heard => f[e].opening = "confirmed"
                           /\ e \notin heard => f[e] = e
  <2> SUFFICES ASSUME NEW e \in s.entries, e \in heard
               PROVE  /\ f[e] \in Entries
                      /\ f[e].row.id = e.row.id /\ f[e].row.created = e.row.created
                      /\ f[e].row.recipient = e.row.recipient
                      /\ IsFinal(e.row) => f[e].row = e.row
                      /\ f[e].row \in {e.row} \cup found
                      /\ f[e].opening = "none" <=> e.opening = "none"
                      /\ IsFinal(f[e].row)
                      /\ f[e].opening = "confirmed"
    BY <1>1, <1>7 DEF StoreSound
  <2>1. PICK q \in found : /\ q.id = e.row.id /\ answered(e) = [row |-> q, opening |-> "confirmed"]
                           /\ (IsFinal(e.row) => e.row = q) /\ SameEnvelope(e.row, q) /\ q \in Rows
    BY <1>6
  <2>2. e.opening = "requested"
    BY <1>3
  <2> QED BY <1>7, <2>1, <2>2 DEF SameEnvelope, Entries
<1>9. {e \in made : e.row.id \notin gone} = {e \in {f[g] : g \in s.entries} : e.row.id \notin gone}
  <2>1. \A g \in s.entries : g \in heard => f[g] = answered(g)
    BY <1>7
  <2>2. made = (s.entries \ asked) \cup {answered(e) : e \in heard}
    BY <1>3
  <2> HIDE DEF made, failed
  <2>3. ASSUME NEW e \in made, e.row.id \notin gone PROVE e \in {f[g] : g \in s.entries}
    BY <1>3, <1>8, <2>1, <2>2
  <2>4. ASSUME NEW g \in s.entries, f[g].row.id \notin gone PROVE f[g] \in made
    <3>1. CASE g \in heard
      BY <2>1, <2>2, <3>1
    <3>2. CASE g \notin heard
      BY <1>3, <1>8, <2>2, <2>4, <3>2
    <3> QED BY <3>1, <3>2
  <2> QED BY <2>3, <2>4
<1>10. ConfirmOpening(s, ids, found, time, started) = IF heard = {} THEN after ELSE ObserveTime(after, time, started)
  <2> DEFINE all == {f[e] : e \in s.entries}
  <2>1. ConfirmOpening(s, ids, found, time, started) =
          LET u == RemoveIds([s EXCEPT !.entries = made], gone)
          IN  IF heard = {} THEN u ELSE ObserveTime(u, time, started)
    BY DEF ConfirmOpening, heard, gone, asked, answered, lost
  <2> HIDE DEF made, failed
  <2>2. {e \in made : e.row.id \notin gone} = {e \in all : e.row.id \notin gone}
    BY <1>9
  <2> HIDE DEF all
  <2>3. RemoveIds([s EXCEPT !.entries = made], gone) = RemoveIds([s EXCEPT !.entries = all], gone)
    BY <1>1, <2>2, RemoveSame
  <2> QED BY <2>1, <2>3 DEF all
<1>11. /\ StoreSound(mid) /\ Evolves(s, mid, found) /\ LoadedIds(mid) = LoadedIds(s)
       /\ mid.entries = {f[e] : e \in s.entries} /\ mid.removed = s.removed
       /\ mid.cleared = s.cleared
  <2>1. LaterBy(s, f, found)
    BY <1>8 DEF LaterBy
  <2> QED BY <2>1, EntriesKeep
<1> HIDE DEF mid
<1>12. /\ StoreSound(after) /\ Evolves(mid, after, {})
       /\ after.entries = {e \in mid.entries : e.row.id \notin gone}
       /\ after.removed = mid.removed \cup gone /\ after.cleared = mid.cleared
  BY <1>3, <1>11, RemoveKeeps
<1> HIDE DEF after
<1>13. Evolves(s, after, found)
  <2>1. Evolves(mid, after, found)
    BY <1>12, EvolvesMore
  <2> QED BY <1>11, <1>12, <2>1, EvolvesTrans
<1> DEFINE t == ConfirmOpening(s, ids, found, time, started)
<1>14. /\ StoreSound(t) /\ t.entries = after.entries /\ t.removed = after.removed
       /\ t.early = after.early /\ t.cleared = after.cleared
  <2>1. CASE heard = {}
    BY <1>10, <1>12, <2>1
  <2>2. CASE heard # {}
    <3>1. t = ObserveTime(after, time, started)
      BY <1>10, <2>2
    <3> DEFINE u == ObserveTime(after, time, started)
    <3>2. /\ StoreSound(u) /\ u.entries = after.entries /\ u.removed = after.removed
          /\ u.early = after.early /\ u.cleared = after.cleared
      <4>1. StoreSound(after) /\ time \in Nat /\ started \in Nat /\ started <= time
        BY <1>12
      <4> QED BY <4>1, TimeKeeps, Zenon
    <3> HIDE DEF t, u
    <3>3. t = u
      BY <3>1 DEF u
    <3> QED BY <3>2, <3>3
  <2> QED BY <2>1, <2>2
<1> HIDE DEF t
<1>15. Evolves(s, t, found)
  BY <1>13, <1>14, EvolvesSame
<1>16. LoadedIds(t) \subseteq LoadedIds(s)
  BY <1>11, <1>12, <1>14 DEF LoadedIds
<1>17. ASSUME NEW e \in t.entries, e.row.id \in ids
       PROVE  e.opening # "requested"
  <2>1. PICK g \in s.entries : e = f[g]
    BY <1>11, <1>12, <1>14
  <2>2. e.row.id \notin gone
    BY <1>12, <1>14
  <2> QED BY <1>3, <1>8, <1>17, <2>1, <2>2
<1>18. ASSUME NEW i \in t.removed, i \notin s.removed
       PROVE  i \in ids /\ i \notin IdsOf(found) /\ \E e \in s.entries : e.row.id = i /\ e.row.recipient = me
  <2>1. i \in gone
    BY <1>11, <1>12, <1>14, <1>18
  <2> QED BY <1>3, <2>1 DEF StoreSound
<1> QED BY <1>11, <1>12, <1>14, <1>15, <1>16, <1>17, <1>18 DEF t, NoneRequested, RemovedUnlisted

-----------------------------------------------------------------------------
(* Events in flight and buffered, as sets.                                   *)

LEMMA OfNone == \A types : Of(<<>>, types) = {}
BY DEF Of

LEMMA OfTail ==
    ASSUME NEW T, NEW events \in Seq(T), events # <<>>, NEW types
    PROVE  /\ Of(Tail(events), types) \subseteq Of(events, types)
           /\ Of(events, types) = Of(Tail(events), types)
                \cup (IF Head(events).type \in types THEN {Head(events).row} ELSE {})
           /\ Head(events) \in T /\ Tail(events) \in Seq(T)
<1>1. /\ Len(events) \in Nat \ {0} /\ Head(events) = events[1] /\ Tail(events) \in Seq(T)
      /\ Len(Tail(events)) = Len(events) - 1 /\ events[1] \in T
      /\ DOMAIN events = 1..Len(events) /\ DOMAIN Tail(events) = 1..(Len(events) - 1)
      /\ \A i \in 1..(Len(events) - 1) : Tail(events)[i] = events[i + 1]
  OBVIOUS
<1>2. ASSUME NEW r \in Of(Tail(events), types) PROVE r \in Of(events, types)
  <2>1. PICK i \in DOMAIN Tail(events) : Tail(events)[i].type \in types /\ r = Tail(events)[i].row
    BY <1>2 DEF Of
  <2>2. i + 1 \in DOMAIN events /\ events[i + 1] = Tail(events)[i]
    BY <1>1, <2>1
  <2> QED BY <2>1, <2>2 DEF Of
<1>3. ASSUME NEW r \in Of(events, types)
      PROVE  r \in Of(Tail(events), types) \/ (Head(events).type \in types /\ r = Head(events).row)
  <2>1. PICK i \in DOMAIN events : events[i].type \in types /\ r = events[i].row
    BY <1>3 DEF Of
  <2>2. CASE i = 1
    BY <1>1, <2>1, <2>2
  <2>3. CASE i # 1
    <3>1. i - 1 \in DOMAIN Tail(events) /\ Tail(events)[i - 1] = events[i]
      BY <1>1, <2>1, <2>3
    <3> QED BY <2>1, <3>1 DEF Of
  <2> QED BY <2>2, <2>3
<1>4. Head(events).type \in types => Head(events).row \in Of(events, types)
  BY <1>1 DEF Of
<1> QED BY <1>1, <1>2, <1>3, <1>4

LEMMA OfAppend ==
    ASSUME NEW T, NEW events \in Seq(T), NEW event \in T, NEW types
    PROVE  Of(Append(events, event), types) =
             Of(events, types) \cup (IF event.type \in types THEN {event.row} ELSE {})
<1> DEFINE s == Append(events, event)
<1>1. /\ Len(events) \in Nat /\ DOMAIN events = 1..Len(events) /\ DOMAIN s = 1..(Len(events) + 1)
      /\ s[Len(events) + 1] = event /\ \A i \in 1..Len(events) : s[i] = events[i]
  OBVIOUS
<1> HIDE DEF s
<1>2. ASSUME NEW r \in Of(s, types)
      PROVE  r \in Of(events, types) \/ (event.type \in types /\ r = event.row)
  <2>1. PICK i \in DOMAIN s : s[i].type \in types /\ r = s[i].row
    BY <1>2 DEF Of
  <2>2. CASE i = Len(events) + 1
    BY <1>1, <2>1, <2>2
  <2>3. CASE i # Len(events) + 1
    <3>1. i \in DOMAIN events /\ events[i] = s[i]
      BY <1>1, <2>1, <2>3
    <3> QED BY <2>1, <3>1 DEF Of
  <2> QED BY <2>2, <2>3
<1>3. Of(events, types) \subseteq Of(s, types)
  BY <1>1 DEF Of
<1>4. event.type \in types => event.row \in Of(s, types)
  <2>1. Len(events) + 1 \in DOMAIN s
    BY <1>1
  <2> QED BY <1>1, <2>1 DEF Of
<1> QED BY <1>2, <1>3, <1>4 DEF s

LEMMA OfConcat ==
    ASSUME NEW T, NEW events \in Seq(T), NEW more \in Seq(T), NEW types
    PROVE  Of(events \o more, types) = Of(events, types) \cup Of(more, types)
<1> DEFINE s == events \o more
           n == Len(events)
<1>1. /\ n \in Nat /\ Len(more) \in Nat
      /\ DOMAIN events = 1..n /\ DOMAIN more = 1..Len(more) /\ DOMAIN s = 1..(n + Len(more))
      /\ \A i \in 1..n : s[i] = events[i]
      /\ \A i \in 1..(n + Len(more)) : i > n => s[i] = more[i - n]
  OBVIOUS
<1> HIDE DEF s, n
<1>2. ASSUME NEW r \in Of(s, types) PROVE r \in Of(events, types) \cup Of(more, types)
  <2>1. PICK i \in DOMAIN s : s[i].type \in types /\ r = s[i].row
    BY <1>2 DEF Of
  <2>2. CASE i > n
    <3>1. i - n \in DOMAIN more /\ more[i - n] = s[i]
      BY <1>1, <2>1, <2>2
    <3> QED BY <2>1, <3>1 DEF Of
  <2>3. CASE ~(i > n)
    <3>1. i \in DOMAIN events /\ events[i] = s[i]
      BY <1>1, <2>1, <2>3
    <3> QED BY <2>1, <3>1 DEF Of
  <2> QED BY <2>2, <2>3
<1>3. Of(events, types) \subseteq Of(s, types)
  <2>1. \A i \in DOMAIN events : i \in DOMAIN s /\ s[i] = events[i]
    BY <1>1
  <2> QED BY <2>1 DEF Of
<1>4. ASSUME NEW r \in Of(more, types) PROVE r \in Of(s, types)
  <2>1. PICK i \in DOMAIN more : more[i].type \in types /\ r = more[i].row
    BY <1>4 DEF Of
  <2>2. n + i \in DOMAIN s /\ s[n + i] = more[i]
    <3>1. n + i \in 1..(n + Len(more)) /\ n + i > n /\ (n + i) - n = i
      BY <1>1, <2>1
    <3> QED BY <1>1, <3>1
  <2> QED BY <2>1, <2>2 DEF Of
<1> QED BY <1>2, <1>3, <1>4 DEF s

\* The steps of the server, and those that leave its tables alone.
DatabaseStep == ServerStep \/ AnswerOpening \/ ClearHere
SessionStep ==
    LinkStep \/ AnswerPage \/ AnswerLookup \/ AnswerOlder \/ ClientStep
    \/ AskOlder \/ Retry \/ RetryOpening \/ FailStep

\* What comes down the streams goes to the store, or is dropped; only an
\* answer brings rows, and it takes them from the table.
Flow ==
    /\ Sources' \subseteq Sources \cup messages
    /\ Updates' \subseteq Updates /\ OpeningRows' \subseteq OpeningRows
    /\ Distinct(PageRows)' /\ Distinct(OlderRows)' /\ Distinct(FoundRows)'

LEMMA SessionFlow ==
    ASSUME Variables, TableInv, CopiesSound, SessionStep
    PROVE  Flow
<1> USE DEF Idle, Failed, dbVars, link, syncing, incoming, paging, openings,
            Flow, Sources, Updates, Messages, PageRows, FoundRows, OlderRows, OpeningRows
<1>0. /\ stream \in Seq(RowEvents \cup Clearances) /\ buffered \in Seq(RowEvents)
      /\ Distinct(PageRows) /\ Distinct(OlderRows) /\ Distinct(FoundRows) /\ Distinct(messages)
  BY DEF Variables, CopiesSound, TableInv, IInv, RowsAreSound, KeysAreUnique, Distinct
<1>00. Distinct({})
  BY DEF Distinct
<1>1. ASSUME Connect PROVE Flow
  BY <1>0, <1>00, <1>1, OfNone DEF Connect, Supersede, AskServer
<1>2. ASSUME Disconnect PROVE Flow
  BY <1>0, <1>00, <1>2, OfNone DEF Disconnect, Supersede
<1>3. ASSUME LoseAttention PROVE Flow
  BY <1>0, <1>00, <1>3, OfNone DEF LoseAttention, Supersede
<1>4. ASSUME RegainAttention PROVE Flow
  BY <1>0, <1>00, <1>4, OfNone DEF RegainAttention, Supersede, AskServer, Drain
<1>5. ASSUME AnswerPage PROVE Flow
  <2> DEFINE bound  == IF sync.bound = None THEN highWater ELSE sync.bound
             newest == HistoryRows(messages, me, partner, highWater + 1, PageSize, clock)
             rows   == RecoveryFetch(messages, me, partner, sync.from, bound, RecoveryLimit, clock)
             page   == FirstRows(rows, RecoveryLimit)
  <2>1. newest \subseteq messages /\ page \subseteq messages
    BY DEF HistoryRows, LastRows, RecoveryFetch, FirstRows, LiveBetween
  <2>2. /\ \/ sync' = [stage |-> "page", first |-> TRUE, rows |-> newest, upper |-> highWater, next |-> None]
           \/ sync' = [stage |-> "page", first |-> FALSE, rows |-> page, upper |-> bound,
                       next |-> IF Cardinality(rows) <= RecoveryLimit THEN None ELSE MaxSeqOf(page)]
        /\ UNCHANGED <<stream, buffered, decrypting, older, opening>>
    BY <1>5 DEF AnswerPage
  <2> HIDE DEF newest, page, rows, bound
  <2>3. PageRows' \subseteq messages
    BY <2>1, <2>2
  <2>4. Distinct(PageRows)'
    BY <1>0, <2>3 DEF Distinct
  <2>5. FoundRows' = {} /\ OlderRows' = OlderRows /\ OpeningRows' = OpeningRows
    BY <2>2
  <2> QED BY <1>0, <1>00, <2>2, <2>3, <2>4, <2>5
<1>6. ASSUME TakePage PROVE Flow
  BY <1>0, <1>00, <1>6, OfNone DEF TakePage, AskServer, NextRound, Drain
<1>7. ASSUME AnswerLookup PROVE Flow
  <2> DEFINE found == {r \in LiveBetween(messages, me, partner, clock) : r.id \in sync.ids}
  <2>1. found \subseteq messages
    BY DEF LiveBetween
  <2>2. /\ sync' = [stage |-> "states", goal |-> sync.goal, round |-> sync.round, refreshed |-> sync.refreshed,
                    ids |-> sync.ids, completed |-> sync.completed, started |-> sync.started, time |-> clock,
                    found |-> found]
        /\ UNCHANGED <<stream, buffered, decrypting, older, opening>>
    BY <1>7 DEF AnswerLookup
  <2> HIDE DEF found
  <2>3. FoundRows' \subseteq messages /\ PageRows' = {} /\ OlderRows' = OlderRows /\ OpeningRows' = OpeningRows
    BY <2>1, <2>2
  <2>4. Distinct(FoundRows)'
    BY <1>0, <2>3 DEF Distinct
  <2> QED BY <1>0, <1>00, <2>2, <2>3, <2>4
<1>8. ASSUME TakeStates PROVE Flow
  BY <1>0, <1>00, <1>8, OfNone DEF TakeStates, AfterFailure, StartSync, Drain, NextRound, AskServer
<1>9. ASSUME DrainOne PROVE Flow
  <2>1. \A types : Of(Tail(buffered), types) \subseteq Of(buffered, types)
    BY <1>0, <1>9, OfTail DEF DrainOne
  <2> QED BY <1>0, <1>9, <2>1 DEF DrainOne
<1>10. ASSUME DrainLookup PROVE Flow
  BY <1>0, <1>00, <1>10, OfNone DEF DrainLookup
<1>11. ASSUME Synchronized PROVE Flow
  BY <1>0, <1>00, <1>11, OfNone DEF Synchronized
<1>12. ASSUME SyncFails PROVE Flow
  BY <1>0, <1>00, <1>12, OfNone DEF SyncFails, AfterFailure, StartSync, AskServer
<1>13. ASSUME Retry PROVE Flow
  BY <1>0, <1>00, <1>13, OfNone DEF Retry, StartSync, AskServer
<1>14. ASSUME BufferEvent PROVE Flow
  <2>1. /\ stream # <<>> /\ Head(stream).type # "conversation-cleared"
        /\ stream' = Tail(stream) /\ buffered' = Append(buffered, Head(stream))
        /\ UNCHANGED <<decrypting, sync, older, opening>>
    BY <1>14 DEF BufferEvent
  <2>2. Head(stream) \in RowEvents
    BY <1>0, <2>1, OfTail DEF Clearances
  <2>3. \A types : Of(stream, types) \cup Of(buffered, types) = Of(stream', types) \cup Of(buffered', types)
    <3> SUFFICES ASSUME NEW types
                 PROVE  Of(stream, types) \cup Of(buffered, types) = Of(stream', types) \cup Of(buffered', types)
      OBVIOUS
    <3>1. Of(stream, types) = Of(Tail(stream), types)
                \cup (IF Head(stream).type \in types THEN {Head(stream).row} ELSE {})
      BY <1>0, <2>1, OfTail
    <3>2. Of(Append(buffered, Head(stream)), types) =
             Of(buffered, types) \cup (IF Head(stream).type \in types THEN {Head(stream).row} ELSE {})
      BY <1>0, <2>2, OfAppend
    <3> QED BY <2>1, <3>1, <3>2
  <2> QED BY <1>0, <2>1, <2>3
<1>15. ASSUME ReceiveMessage PROVE Flow
  <2>1. \A types : Of(Tail(stream), types) \subseteq Of(stream, types)
    BY <1>0, <1>15, OfTail DEF ReceiveMessage
  <2>2. Head(stream).row \in Of(stream, {"message"})
    BY <1>0, <1>15, OfTail DEF ReceiveMessage
  <2> QED BY <1>0, <1>15, <2>1, <2>2 DEF ReceiveMessage
<1>16. ASSUME NEW r \in decrypting, Decrypted(r) PROVE Flow
  BY <1>0, <1>00, <1>16, OfNone DEF Decrypted, StartSync, AskServer
<1>17. ASSUME ReceiveUpdate PROVE Flow
  <2>1. \A types : Of(Tail(stream), types) \subseteq Of(stream, types)
    BY <1>0, <1>17, OfTail DEF ReceiveUpdate
  <2> QED BY <1>0, <1>17, <2>1 DEF ReceiveUpdate
<1>18. ASSUME ReceiveClear PROVE Flow
  <2>1. \A types : Of(Tail(stream), types) \subseteq Of(stream, types)
    BY <1>0, <1>18, OfTail DEF ReceiveClear
  <2> QED BY <1>0, <1>18, <2>1 DEF ReceiveClear
<1>19. ASSUME ClearAnswered PROVE Flow
  BY <1>0, <1>00, <1>19, OfNone DEF ClearAnswered
<1>20. ASSUME ClearFails PROVE Flow
  BY <1>0, <1>00, <1>20, OfNone DEF ClearFails
<1>21. ASSUME ExpiryTimer PROVE Flow
  BY <1>0, <1>00, <1>21, OfNone DEF ExpiryTimer
<1>22. ASSUME AskOlder PROVE Flow
  BY <1>0, <1>00, <1>22, OfNone DEF AskOlder
<1>23. ASSUME AnswerOlder PROVE Flow
  <2> DEFINE page == HistoryRows(messages, me, partner, olderCursor, PageSize, clock)
  <2>1. page \subseteq messages
    BY DEF HistoryRows, LastRows, LiveBetween
  <2>2. older' = [stage |-> "page", rows |-> page] /\ UNCHANGED <<stream, buffered, decrypting, sync, opening>>
    BY <1>23 DEF AnswerOlder
  <2> HIDE DEF page
  <2>3. OlderRows' \subseteq messages /\ PageRows' = PageRows /\ FoundRows' = FoundRows /\ OpeningRows' = OpeningRows
    BY <2>1, <2>2
  <2>4. Distinct(OlderRows)'
    BY <1>0, <2>3 DEF Distinct
  <2> QED BY <1>0, <2>2, <2>3, <2>4
<1>24. ASSUME TakeOlder PROVE Flow
  BY <1>0, <1>00, <1>24, OfNone DEF TakeOlder
<1>25. ASSUME OlderFails PROVE Flow
  BY <1>0, <1>00, <1>25, OfNone DEF OlderFails
<1>26. ASSUME OpenPending PROVE Flow
  BY <1>0, <1>00, <1>26, OfNone DEF OpenPending
<1>27. ASSUME TakeOpening PROVE Flow
  BY <1>0, <1>00, <1>27, OfNone DEF TakeOpening
<1>28. ASSUME OpeningFails PROVE Flow
  BY <1>0, <1>00, <1>28, OfNone DEF OpeningFails
<1>29. ASSUME RetryOpening PROVE Flow
  BY <1>0, <1>00, <1>29, OfNone DEF RetryOpening
<1> QED
  BY <1>1, <1>2, <1>3, <1>4, <1>5, <1>6, <1>7, <1>8, <1>9, <1>10, <1>11, <1>12, <1>13, <1>14, <1>15, <1>16, <1>17, <1>18, <1>19, <1>20, <1>21, <1>22, <1>23, <1>24, <1>25, <1>26, <1>27, <1>28, <1>29
     DEF SessionStep, LinkStep, ClientStep, FailStep

-----------------------------------------------------------------------------
(* The store in every step.                                                  *)

\* Copies agree, so they may be merged.
LEMMA CopiesAgree ==
    ASSUME CopiesSound, NEW S \in SUBSET Copies
    PROVE  Agreed(S)
BY DEF CopiesSound, Agreed, Agree

\* Entries are those of before and of rows that were on their way.
Arrivals ==
    \A e \in store'.entries : \/ e.row.id \in LoadedIds(store)
                              \/ \E r \in Sources : r.id = e.row.id /\ (IsFinal(r) => e.row = r)

\* Incoming rows join the store.
LEMMA AddStep ==
    ASSUME StoreOK, CopiesSound, NEW rows \in SUBSET Sources, Distinct(rows), store' = Add(store, rows)
    PROVE  /\ StoreOK' /\ Evolves(store, store', Sources \cup Updates) /\ Arrivals
           /\ \A r \in rows : r.id \in store'.removed \/ Holds(store', r)
           /\ \A i \in store'.removed : i \in store.removed \/
                \E r \in rows : r.id = i /\ r.created <= store.cleared
           /\ LoadedIds(store') \subseteq LoadedIds(store) \cup IdsOf(rows)
           /\ store'.lead = store.lead /\ store'.cleared = store.cleared
<1>1. Agreed(RowsOf(store) \cup rows)
  BY CopiesAgree DEF Copies
<1>2. /\ StoreSound(store') /\ Evolves(store, store', rows) /\ store'.cleared = store.cleared
      /\ store'.lead = store.lead
      /\ LoadedIds(store') \subseteq LoadedIds(store) \cup IdsOf(rows)
      /\ \A r \in rows : r.id \in store'.removed \/ Holds(store', r)
      /\ store'.removed \subseteq store.removed \cup {r.id : r \in {q \in rows : q.created <= store.cleared}}
  BY <1>1, AddKeeps DEF StoreOK
<1>3. Evolves(store, store', Sources \cup Updates)
  BY <1>2, EvolvesMore
<1>4. ASSUME NEW e \in store'.entries, e.row.id \notin LoadedIds(store)
      PROVE  \E r \in Sources : r.id = e.row.id /\ (IsFinal(r) => e.row = r)
  <2>1. PICK r \in rows : r.id = e.row.id
    BY <1>2, <1>4 DEF IdsOf, LoadedIds
  <2>2. Holds(store', r)
    BY <1>2, <2>1 DEF StoreSound
  <2>3. PICK f \in store'.entries : f.row.id = r.id /\ (IsFinal(r) => f.row = r)
    BY <2>2 DEF Holds
  <2>4. f = e
    BY <1>2, <2>1, <2>3 DEF StoreSound
  <2> QED BY <2>1, <2>3, <2>4
<1> QED BY <1>2, <1>3, <1>4 DEF StoreOK, Arrivals

\* An update joins the store.
LEMMA UpdateStep ==
    ASSUME StoreOK, CopiesSound, NEW u \in Updates, store' = ApplyLifecycle(store, u)
    PROVE  /\ StoreOK' /\ Evolves(store, store', Sources \cup Updates) /\ Arrivals
           /\ u.id \in store'.removed \/ u \in RowsOf(store')
           /\ store'.removed = store.removed /\ LoadedIds(store') = LoadedIds(store)
           /\ store'.lead = store.lead /\ store'.cleared = store.cleared
<1>1. Agreed(RowsOf(store) \cup {u}) /\ IsFinal(u)
  BY CopiesAgree DEF Copies, CopiesSound
<1>2. /\ StoreSound(store') /\ Evolves(store, store', {u}) /\ store'.removed = store.removed
      /\ store'.lead = store.lead /\ store'.cleared = store.cleared
      /\ LoadedIds(store') = LoadedIds(store)
      /\ u.id \in store.removed \/ u \in RowsOf(store')
  BY <1>1, LifecycleKeeps DEF StoreOK
<1>3. Evolves(store, store', Sources \cup Updates)
  BY <1>2, EvolvesMore
<1>4. Arrivals
  BY <1>2 DEF Arrivals, LoadedIds
<1> QED BY <1>2, <1>3, <1>4 DEF StoreOK

\* Nothing is loaded.
LEMMA QuietStep ==
    ASSUME StoreSound(store'), Evolves(store, store', {}), LoadedIds(store') \subseteq LoadedIds(store)
    PROVE  StoreOK' /\ Evolves(store, store', Sources \cup Updates) /\ Arrivals
<1>1. Evolves(store, store', Sources \cup Updates)
  BY EvolvesMore
<1>2. Arrivals
  BY DEF Arrivals, LoadedIds
<1> QED BY <1>1, <1>2 DEF StoreOK

StoreEffect == StoreOK' /\ Evolves(store, store', Sources \cup Updates) /\ Arrivals

LEMMA SessionStore ==
    ASSUME Control, StoreOK, CopiesSound, SessionStep
    PROVE  StoreEffect
<1> USE DEF StoreEffect, dbVars, link, syncing, incoming, paging, openings
<1>0. StoreSound(store) /\ Variables /\ SyncFields /\ RequestFields /\ store \in Stores
  BY DEF StoreOK, StoreSound, Control
<1>1. ASSUME store' = store PROVE StoreEffect
  BY <1>0, <1>1, QuietStep, EvolvesSelf
<1>2. ASSUME NEW ids, NEW from \in {"pending", "requested", "failed"}, NEW to \in {"pending", "requested", "failed"},
             store' = Move(store, ids, from, to)
      PROVE  StoreEffect
  BY <1>0, <1>2, QuietStep, MoveKeeps
<1>3. ASSUME NEW now, NEW synchronized, store' = SweepStore(store, now, synchronized)
      PROVE  StoreEffect
  BY <1>0, <1>3, QuietStep, SweepKeeps
<1>4. ASSUME NEW at \in Nat, store' = ClearThrough(store, at)
      PROVE  StoreEffect
  BY <1>0, <1>4, QuietStep, ClearKeeps
<1>5. ASSUME Connect \/ Disconnect \/ LoseAttention PROVE StoreEffect
  BY <1>2, <1>5 DEF Connect, Disconnect, LoseAttention, Supersede, CancelOpening
<1>6. ASSUME RegainAttention PROVE StoreEffect
  <2> DEFINE mid == CancelOpening(store)
  <2>1. store' = SweepStore(mid, ClientNow(store, clock), FALSE)
    BY <1>6 DEF RegainAttention, Supersede
  <2>2. StoreSound(mid) /\ Evolves(store, mid, {}) /\ LoadedIds(mid) = LoadedIds(store)
    BY <1>0, MoveKeeps DEF CancelOpening
  <2> HIDE DEF mid
  <2>3. StoreSound(store') /\ Evolves(mid, store', {}) /\ LoadedIds(store') \subseteq LoadedIds(mid)
    BY <2>1, <2>2, SweepKeeps
  <2> QED BY <1>0, <2>2, <2>3, EvolvesTrans, QuietStep
<1>7. ASSUME TakePage PROVE StoreEffect
  <2>1. /\ store' = Add(store, sync.rows) /\ Distinct(sync.rows) /\ sync.rows \subseteq Sources
    BY <1>7 DEF TakePage, CopiesSound, PageRows, Sources
  <2> QED BY <2>1, AddStep
<1>8. ASSUME TakeStates PROVE StoreEffect
  <2>1. /\ store' = ApplyStates(store, sync.ids, sync.found, sync.time, sync.started)
        /\ Distinct(sync.found) /\ sync.found \subseteq Sources /\ sync.stage = "states"
    BY <1>8 DEF TakeStates, CopiesSound, FoundRows, Sources
  <2>2. /\ sync.ids \in SUBSET Ids /\ sync.time \in Nat /\ sync.started \in Nat /\ sync.started <= sync.time
        /\ Agreed(RowsOf(store) \cup sync.found)
    BY <1>0, <2>1, CopiesAgree DEF SyncFields, Copies
  <2>3. /\ StoreSound(store') /\ Evolves(store, store', sync.found) /\ LoadedIds(store') \subseteq LoadedIds(store)
    <3> DEFINE t == ApplyStates(store, sync.ids, sync.found, sync.time, sync.started)
    <3>1. /\ StoreSound(t) /\ Evolves(store, t, sync.found) /\ LoadedIds(t) \subseteq LoadedIds(store)
      BY <1>0, <2>1, <2>2, StatesKeep
    <3> HIDE DEF t
    <3>2. store' = t
      BY <2>1 DEF t
    <3> QED BY <3>1, <3>2
  <2>4. Evolves(store, store', Sources \cup Updates)
    BY <2>1, <2>3, EvolvesMore
  <2> QED BY <2>3, <2>4 DEF StoreOK, Arrivals, LoadedIds
<1>9. ASSUME DrainOne PROVE StoreEffect
  <2>1. buffered # <<>> /\ store' = BufferedApplied(store, Head(buffered))
    BY <1>9 DEF DrainOne
  <2>2. /\ Head(buffered) \in RowEvents
        /\ \A types : Head(buffered).type \in types => Head(buffered).row \in Of(buffered, types)
    BY <1>0, <2>1, OfTail DEF Variables
  <2>3. CASE Head(buffered).type = "message"
    <3>1. {Head(buffered).row} \in SUBSET Sources /\ Distinct({Head(buffered).row})
      BY <2>2, <2>3 DEF Sources, Messages, Distinct
    <3> QED BY <2>1, <2>3, <3>1, AddStep DEF BufferedApplied
  <2>4. CASE Head(buffered).type = "expiry-update"
    <3>1. Head(buffered).row \in Updates
      BY <2>2, <2>4 DEF Updates
    <3> QED BY <2>1, <2>4, <3>1, UpdateStep DEF BufferedApplied
  <2> QED BY <2>2, <2>3, <2>4 DEF RowEvents
<1>10. ASSUME Synchronized \/ ExpiryTimer PROVE StoreEffect
  BY <1>3, <1>10 DEF Synchronized, ExpiryTimer
<1>11. ASSUME NEW r \in decrypting, Decrypted(r) PROVE StoreEffect
  <2>1. CASE synced
    <3>1. store' = Add(store, {r}) /\ {r} \in SUBSET Sources /\ Distinct({r})
      BY <1>11, <2>1 DEF Decrypted, Sources, Distinct
    <3> QED BY <3>1, AddStep
  <2>2. CASE ~synced
    BY <1>1, <1>11, <2>2 DEF Decrypted
  <2> QED BY <2>1, <2>2
<1>12. ASSUME ReceiveUpdate PROVE StoreEffect
  <2>1. stream # <<>> /\ store' = ApplyLifecycle(store, Head(stream).row) /\ Head(stream).type = "expiry-update"
    BY <1>12 DEF ReceiveUpdate
  <2>2. Head(stream).row \in Updates
    BY <1>0, <2>1, OfTail DEF Variables, Updates
  <2> QED BY <2>1, <2>2, UpdateStep
<1>13. ASSUME ReceiveClear PROVE StoreEffect
  <2>1. /\ stream # <<>> /\ store' = ClearThrough(store, Head(stream).at)
        /\ Head(stream).type = "conversation-cleared"
    BY <1>13 DEF ReceiveClear
  <2>2. Head(stream).at \in Nat
    BY <1>0, <2>1, OfTail DEF Variables, RowEvents, Clearances
  <2> QED BY <1>4, <2>1, <2>2
<1>14. ASSUME ClearAnswered PROVE StoreEffect
  BY <1>0, <1>4, <1>14 DEF ClearAnswered, Variables
<1>15. ASSUME TakeOlder PROVE StoreEffect
  <2>1. /\ store' = Add(store, older.rows) /\ Distinct(older.rows) /\ older.rows \subseteq Sources
    BY <1>15 DEF TakeOlder, CopiesSound, OlderRows, Sources
  <2> QED BY <2>1, AddStep
<1>16. ASSUME OpenPending PROVE StoreEffect
  BY <1>1, <1>2, <1>16 DEF OpenPending, TakePending
<1>17. ASSUME TakeOpening PROVE StoreEffect
  <2>1. CASE ~synced
    BY <1>1, <1>17, <2>1 DEF TakeOpening
  <2>2. CASE synced
    <3>1. /\ store' = ConfirmOpening(store, opening.ids, opening.found, opening.time, opening.started)
          /\ opening.stage = "answered" /\ OpeningRows = opening.found
          /\ \A q \in opening.found : IsFinal(q)
      BY <1>17, <2>2 DEF TakeOpening, OpeningRows, CopiesSound
    <3>2. /\ opening.ids \in SUBSET Ids /\ opening.time \in Nat /\ opening.started \in Nat
          /\ opening.started <= opening.time /\ Agreed(RowsOf(store) \cup opening.found)
          /\ opening.found \subseteq Sources
      <4>1. opening.found \subseteq Sources /\ RowsOf(store) \cup opening.found \subseteq Copies
        BY <3>1 DEF Sources, Copies
      <4> QED BY <1>0, <3>1, <4>1, CopiesAgree DEF RequestFields
    <3> DEFINE t == ConfirmOpening(store, opening.ids, opening.found, opening.time, opening.started)
    <3>3. /\ StoreSound(t) /\ Evolves(store, t, opening.found) /\ LoadedIds(t) \subseteq LoadedIds(store)
      BY <1>0, <3>1, <3>2, ConfirmKeeps
    <3> HIDE DEF t
    <3>4. store' = t
      BY <3>1 DEF t
    <3>5. Evolves(store, store', Sources \cup Updates)
      BY <3>2, <3>3, <3>4, EvolvesMore
    <3> QED BY <3>3, <3>4, <3>5 DEF StoreOK, Arrivals, LoadedIds
  <2> QED BY <2>1, <2>2
<1>18. ASSUME OpeningFails \/ RetryOpening PROVE StoreEffect
  BY <1>2, <1>18 DEF OpeningFails, RetryOpening, FailOpening, RetryFailed
<1>19. ASSUME \/ AnswerPage \/ AnswerLookup \/ AnswerOlder \/ DrainLookup \/ BufferEvent \/ ReceiveMessage
              \/ AskOlder \/ Retry \/ SyncFails \/ OlderFails \/ ClearFails
       PROVE  StoreEffect
  BY <1>1, <1>19 DEF AnswerPage, AnswerLookup, AnswerOlder, DrainLookup, BufferEvent, ReceiveMessage,
                     AskOlder, Retry, SyncFails, OlderFails, ClearFails
<1> QED
  BY <1>5, <1>6, <1>7, <1>8, <1>9, <1>10, <1>11, <1>12, <1>13, <1>14, <1>15, <1>16, <1>17, <1>18, <1>19
     DEF SessionStep, LinkStep, ClientStep, FailStep

-----------------------------------------------------------------------------
(* The copies in every step.                                                 *)

LEMMA EvolvedRows ==
    ASSUME NEW s, NEW t, NEW given, Evolves(s, t, given)
    PROVE  RowsOf(t) \subseteq RowsOf(s) \cup given
BY DEF Evolves, RowsOf

\* Fewer copies are as sound.
LEMMA FewerCopies ==
    ASSUME CopiesSound, Copies' \subseteq Copies, messages' \subseteq messages, posted' = posted,
           highWater' = highWater, clock \in Nat, clock' \in Nat, clock' >= clock, messages \subseteq Rows,
           Updates' \cup OpeningRows' \subseteq Updates \cup OpeningRows,
           Distinct(PageRows)', Distinct(OlderRows)', Distinct(FoundRows)'
    PROVE  CopiesSound'
<1>1. \A v \in Copies' : /\ v \in Rows /\ ValidLifecycle(v) /\ Between(v, me, partner)
                         /\ v.id \in posted' /\ v.seq <= highWater' /\ v.created <= clock'
  <2> SUFFICES ASSUME NEW v \in Copies'
               PROVE  /\ v \in Rows /\ ValidLifecycle(v) /\ Between(v, me, partner)
                      /\ v.id \in posted' /\ v.seq <= highWater' /\ v.created <= clock'
    OBVIOUS
  <2>1. v \in Copies
    OBVIOUS
  <2>2. v \in Rows /\ v.created <= clock
    BY <2>1 DEF CopiesSound
  <2> QED BY <2>1, <2>2 DEF CopiesSound, Rows
<1>2. Agree(Copies')
  BY DEF CopiesSound, Agree
<1>3. \A v \in Copies', r \in messages' : v.id = r.id /\ IsFinal(v) => r = v
  BY DEF CopiesSound
<1>4. \A u \in Updates' \cup OpeningRows' : IsFinal(u)
  BY DEF CopiesSound
<1> QED BY <1>1, <1>2, <1>3, <1>4 DEF CopiesSound

LEMMA SessionKeepsDb ==
    ASSUME SessionStep
    PROVE  UNCHANGED <<dbVars, posted>>
BY DEF SessionStep, LinkStep, ClientStep, FailStep, Connect, Disconnect, LoseAttention, RegainAttention,
       Supersede, AnswerPage, TakePage, AnswerLookup, TakeStates, DrainOne, DrainLookup, Synchronized,
       SyncFails, Retry, BufferEvent, ReceiveMessage, Decrypted, ReceiveUpdate, ReceiveClear, ClearAnswered,
       ClearFails, ExpiryTimer, AskOlder, AnswerOlder, TakeOlder, OlderFails, OpenPending, TakeOpening,
       OpeningFails, RetryOpening

LEMMA SessionCopies ==
    ASSUME Control, TableInv, StoreOK, CopiesSound, SessionStep
    PROVE  CopiesSound' /\ Copies' \subseteq Copies
<1>1. Flow /\ StoreEffect
  BY SessionFlow, SessionStore DEF Control
<1>2. UNCHANGED <<clock, messages, highWater, posted>>
  BY SessionKeepsDb DEF dbVars
<1>3. RowsOf(store') \subseteq RowsOf(store) \cup (Sources \cup Updates)
  BY <1>1, EvolvedRows DEF StoreEffect
<1>4. Copies' \subseteq Copies
  BY <1>1, <1>2, <1>3 DEF Flow, Copies
<1>5. clock \in Nat /\ messages \subseteq Rows
  BY DEF TableInv, IInv, TypeOK
<1> QED BY <1>1, <1>2, <1>4, <1>5, FewerCopies DEF Flow

-----------------------------------------------------------------------------
(* What the server tells.                                                    *)

\* An enumeration of some rows is a sequence that has them all.
LEMMA ListedRows ==
    ASSUME NEW S, IsFiniteSet(S), NEW listed \in SetToSeqs(S)
    PROVE  /\ listed \in Seq(S)
           /\ \A r \in S : \E i \in DOMAIN listed : listed[i] = r
<1>1. Cardinality(S) \in Nat
  BY FS_CardinalityType
<1>2. /\ listed \in [1..Cardinality(S) -> S]
      /\ \A i, j \in 1..Cardinality(S) : i # j => listed[i] # listed[j]
  BY DEF SetToSeqs
<1>3. \A r \in S : \E i \in 1..Cardinality(S) : listed[i] = r
  BY <1>2, ListingsAreComplete
<1> QED BY <1>1, <1>2, <1>3

LEMMA TellSets ==
    ASSUME NEW T, stream \in Seq(T), NEW events \in Seq(T), Tell(events), NEW types
    PROVE  /\ Of(stream, types) \subseteq Of(stream', types)
           /\ Of(stream', types) \subseteq Of(stream, types) \cup Of(events, types)
           /\ conn => Of(stream', types) = Of(stream, types) \cup Of(events, types)
           /\ stream' \in Seq(T)
<1>1. stream' = IF conn THEN stream \o events ELSE stream
  BY DEF Tell
<1>2. Of(stream \o events, types) = Of(stream, types) \cup Of(events, types) /\ stream \o events \in Seq(T)
  BY OfConcat
<1> QED BY <1>1, <1>2

Prefixed == \A i \in DOMAIN stream : i \in DOMAIN stream' /\ stream'[i] = stream[i]

LEMMA TellExtends ==
    ASSUME NEW T, stream \in Seq(T), NEW events \in Seq(T), Tell(events)
    PROVE  Prefixed
<1>1. \A i \in DOMAIN stream : i \in DOMAIN (stream \o events) /\ (stream \o events)[i] = stream[i]
  OBVIOUS
<1> QED BY <1>1 DEF Tell, Prefixed

Fresh(a, b, ids) == NewlyOpened(Available(a, b, ids))
OpenedBy(a, b, ids) == {OpenedRow(r, clock) : r \in Fresh(a, b, ids)}

\* An opening tells its updates.
LEMMA OpeningTells ==
    ASSUME Variables, TableInv, NEW a \in Addresses, NEW b \in Addresses, NEW ids \in SUBSET Ids,
           OpenAndTell(a, b, ids), buffered' = buffered
    PROVE  /\ Open(a, b, ids)
           /\ Updates \subseteq Updates' /\ Updates' \subseteq Updates \cup OpenedBy(a, b, ids)
           /\ conn => OpenedBy(a, b, ids) \subseteq Updates'
           /\ Messages' = Messages
           /\ stream' \in Seq(RowEvents \cup Clearances) /\ Prefixed
<1> DEFINE fresh == Fresh(a, b, ids)
           T == RowEvents \cup Clearances
<1>1. PICK updates \in SetToSeqs(fresh) : Tell([i \in DOMAIN updates |-> ExpiryUpdate(OpenedRow(updates[i], clock))])
  BY DEF OpenAndTell, Fresh
<1> DEFINE list == [i \in DOMAIN updates |-> ExpiryUpdate(OpenedRow(updates[i], clock))]
<1>2. fresh \subseteq messages /\ fresh \subseteq Rows /\ IsFiniteSet(fresh) /\ clock \in Nat
  <2>1. fresh \subseteq messages
    BY DEF Fresh, NewlyOpened, Available
  <2> HIDE DEF fresh
  <2> QED BY <2>1, FS_Subset DEF TableInv, IInv, TypeOK
<1>3. updates \in Seq(fresh) /\ \A r \in fresh : \E i \in DOMAIN updates : updates[i] = r
  <2> HIDE DEF fresh
  <2> QED BY <1>2, ListedRows
<1>4. \A r \in fresh : OpenedRow(r, clock) \in Rows
  BY <1>2, OpenedRowType
<1>5. DOMAIN updates = 1..Len(updates) /\ Len(updates) \in Nat /\ \A i \in DOMAIN updates : updates[i] \in fresh
  <2> HIDE DEF fresh
  <2> QED BY <1>3
<1>6. \A i \in DOMAIN updates : list[i] = [type |-> "expiry-update", row |-> OpenedRow(updates[i], clock)]
  BY DEF ExpiryUpdate
<1>7. list \in Seq(T) /\ DOMAIN list = DOMAIN updates
  <2>1. \A i \in 1..Len(updates) : list[i] \in T
    BY <1>4, <1>5, <1>6 DEF RowEvents
  <2>2. list = [i \in 1..Len(updates) |-> list[i]]
    BY <1>5
  <2> HIDE DEF list, T
  <2> QED BY <1>5, <2>1, <2>2
<1>8. Tell(list) /\ stream \in Seq(T)
  BY <1>1 DEF Variables
<1>9. Of(list, {"message"}) = {}
  BY <1>6, <1>7 DEF Of
<1>10. Of(list, {"expiry-update"}) = OpenedBy(a, b, ids)
  <2>1. OpenedBy(a, b, ids) = {OpenedRow(r, clock) : r \in fresh}
    BY DEF OpenedBy
  <2> HIDE DEF fresh, list
  <2> QED BY <1>3, <1>5, <1>6, <1>7, <2>1 DEF Of
<1> HIDE DEF list, fresh, T
<1>11. /\ Of(stream, {"message"}) \subseteq Of(stream', {"message"})
       /\ Of(stream', {"message"}) \subseteq Of(stream, {"message"}) \cup Of(list, {"message"})
  BY <1>7, <1>8, TellSets
<1>12. /\ Of(stream, {"expiry-update"}) \subseteq Of(stream', {"expiry-update"})
       /\ Of(stream', {"expiry-update"}) \subseteq Of(stream, {"expiry-update"}) \cup Of(list, {"expiry-update"})
       /\ conn => Of(stream', {"expiry-update"}) = Of(stream, {"expiry-update"}) \cup Of(list, {"expiry-update"})
       /\ stream' \in Seq(T)
  BY <1>7, <1>8, TellSets
<1>13. Prefixed
  BY <1>7, <1>8, TellExtends
<1>14. Open(a, b, ids)
  BY DEF OpenAndTell
<1> QED BY <1>9, <1>10, <1>11, <1>12, <1>13, <1>14 DEF Messages, Updates, T

\* What an opening does to the table.
LEMMA OpeningWrites ==
    ASSUME TableInv, NEW a \in Addresses, NEW b \in Addresses, NEW ids \in SUBSET Ids, Open(a, b, ids)
    PROVE  /\ messages' = (messages \ Fresh(a, b, ids)) \cup OpenedBy(a, b, ids)
           /\ UNCHANGED <<clock, highWater>>
           /\ Fresh(a, b, ids) \subseteq messages
           /\ \A r \in Fresh(a, b, ids) : /\ ~IsFinal(r) /\ Live(r, clock)
                                         /\ OpenedRow(r, clock) \in Rows /\ ValidLifecycle(OpenedRow(r, clock))
                                         /\ IsFinal(OpenedRow(r, clock)) /\ SameEnvelope(OpenedRow(r, clock), r)
<1>1. /\ Fresh(a, b, ids) \subseteq messages /\ messages \subseteq Rows /\ clock \in Nat
      /\ \A r \in messages : ValidLifecycle(r) /\ r.created <= clock
      /\ \A r \in Fresh(a, b, ids) : ~IsFinal(r) /\ Live(r, clock)
  BY DEF Fresh, NewlyOpened, Available, TableInv, IInv, TypeOK, RowsAreSound, LifecyclesAreValid
<1>2. ASSUME NEW r \in Fresh(a, b, ids)
      PROVE  /\ OpenedRow(r, clock) \in Rows /\ ValidLifecycle(OpenedRow(r, clock))
             /\ IsFinal(OpenedRow(r, clock)) /\ SameEnvelope(OpenedRow(r, clock), r)
  BY <1>1, OpenedRowType, OpenedRowValid
<1>3. messages' = (messages \ Fresh(a, b, ids)) \cup OpenedBy(a, b, ids) /\ UNCHANGED <<clock, highWater>>
  BY DEF Open, Fresh, OpenedBy
<1> QED BY <1>1, <1>2, <1>3

\* Opened rows are copies as sound as their originals.
LEMMA OpeningCopies ==
    ASSUME TableInv, CopiesSound, NEW a \in Addresses, NEW b \in Addresses, NEW ids \in SUBSET Ids,
           Open(a, b, ids), posted' = posted, Copies' \subseteq Copies \cup OpenedBy(a, b, ids),
           \A u \in Updates' \cup OpeningRows' : IsFinal(u),
           Distinct(PageRows)', Distinct(OlderRows)', Distinct(FoundRows)'
    PROVE  CopiesSound'
<1> DEFINE fresh == Fresh(a, b, ids)
           opened == OpenedBy(a, b, ids)
<1>1. /\ messages' = (messages \ fresh) \cup opened /\ UNCHANGED <<clock, highWater>> /\ fresh \subseteq messages
      /\ \A r \in fresh : /\ ~IsFinal(r) /\ OpenedRow(r, clock) \in Rows /\ ValidLifecycle(OpenedRow(r, clock))
                          /\ IsFinal(OpenedRow(r, clock)) /\ SameEnvelope(OpenedRow(r, clock), r)
  BY OpeningWrites
<1>2. messages \subseteq Copies /\ \A v \in Copies' : v \in Copies \/ v \in opened
  BY DEF Copies
<1>3. \A u \in opened : \E r \in fresh : u = OpenedRow(r, clock)
  BY DEF OpenedBy
<1> HIDE DEF fresh, opened
<1>4. ASSUME NEW u \in opened
      PROVE  /\ u \in Rows /\ ValidLifecycle(u) /\ IsFinal(u)
             /\ \E r \in fresh : r \in messages /\ SameEnvelope(u, r) /\ u = OpenedRow(r, clock)
             /\ \A v \in Copies : v.id = u.id => ~IsFinal(v)
  <2>1. PICK r \in fresh : u = OpenedRow(r, clock)
    BY <1>3
  <2>2. r \in messages /\ SameEnvelope(u, r) /\ u \in Rows /\ ValidLifecycle(u) /\ IsFinal(u) /\ ~IsFinal(r)
    BY <1>1, <2>1
  <2>3. \A v \in Copies : v.id = u.id => ~IsFinal(v)
    BY <2>2 DEF CopiesSound, SameEnvelope
  <2> QED BY <2>1, <2>2, <2>3
<1>5. \A v \in Copies' : /\ v \in Rows /\ ValidLifecycle(v) /\ Between(v, me, partner)
                         /\ v.id \in posted' /\ v.seq <= highWater' /\ v.created <= clock'
  BY <1>1, <1>2, <1>4 DEF CopiesSound, SameEnvelope, Between
<1>6. Agree(Copies')
  <2>1. ASSUME NEW u \in Copies', NEW v \in Copies'
        PROVE  /\ u.id = v.id <=> u.seq = v.seq
               /\ u.id = v.id => SameEnvelope(u, v)
    <3>1. PICK p \in Copies : SameEnvelope(u, p)
      BY <1>2, <1>4 DEF SameEnvelope
    <3>2. PICK q \in Copies : SameEnvelope(v, q)
      BY <1>2, <1>4 DEF SameEnvelope
    <3> QED BY <3>1, <3>2 DEF CopiesSound, Agree, SameEnvelope
  <2>2. ASSUME NEW u \in Copies', NEW v \in Copies', u.id = v.id, IsFinal(u), IsFinal(v)
        PROVE  u = v
    <3>1. CASE u \in Copies /\ v \in Copies
      BY <2>2, <3>1 DEF CopiesSound, Agree
    <3>2. CASE u \in opened /\ v \in opened
      <4>1. PICK r \in fresh : r \in messages /\ SameEnvelope(u, r) /\ u = OpenedRow(r, clock)
        BY <1>4, <3>2
      <4>2. PICK q \in fresh : q \in messages /\ SameEnvelope(v, q) /\ v = OpenedRow(q, clock)
        BY <1>4, <3>2
      <4>3. r = q
        BY <2>2, <4>1, <4>2 DEF SameEnvelope, TableInv, IInv, RowsAreSound, KeysAreUnique
      <4> QED BY <4>1, <4>2, <4>3
    <3> QED BY <1>2, <1>4, <2>2, <3>1, <3>2
  <2> QED BY <2>1, <2>2 DEF Agree
<1>7. ASSUME NEW v \in Copies', NEW q \in messages', v.id = q.id, IsFinal(v) PROVE q = v
  <2>1. messages' \subseteq Copies'
    BY DEF Copies
  <2>2. CASE IsFinal(q)
    BY <1>6, <1>7, <2>1, <2>2 DEF Agree
  <2>3. CASE ~IsFinal(q)
    <3>1. q \in messages /\ q \notin fresh
      BY <1>1, <1>4, <2>3
    <3>2. CASE v \in Copies
      BY <1>7, <3>1, <3>2 DEF CopiesSound
    <3>3. CASE v \in opened
      <4>1. PICK r \in fresh : r \in messages /\ SameEnvelope(v, r)
        BY <1>4, <3>3
      <4>2. r = q
        BY <1>7, <3>1, <4>1 DEF SameEnvelope, TableInv, IInv, RowsAreSound, KeysAreUnique
      <4> QED BY <3>1, <4>2
    <3> QED BY <1>2, <3>2, <3>3
  <2> QED BY <2>2, <2>3
<1> QED BY <1>5, <1>6, <1>7 DEF CopiesSound

\* An acceptance tells its row.
LEMMA AcceptingTells ==
    ASSUME Variables, TableInv, NEW e \in Envelopes, Accept(e)
    PROVE  LET row == AcceptedRow(e, NextSeq, clock)
           IN  /\ Messages \subseteq Messages' /\ Messages' \subseteq Messages \cup {row}
               /\ conn => row \in Messages'
               /\ Updates' = Updates
               /\ stream' \in Seq(RowEvents \cup Clearances) /\ Prefixed
               /\ messages' = messages \cup {row} /\ row.id \notin posted /\ posted' = posted \cup {row.id}
               /\ row.seq = highWater + 1 /\ highWater' = highWater + 1 /\ clock' = clock
               /\ row \in Rows /\ ValidLifecycle(row) /\ ~IsFinal(row) /\ row.created = clock
               /\ Between(row, me, partner)
<1> DEFINE T == RowEvents \cup Clearances
           row == AcceptedRow(e, NextSeq, clock)
           list == <<Message(row)>>
<1>1. highWater \in Nat /\ clock \in Nat /\ NextSeq \in Nat
  BY DEF TableInv, IInv, TypeOK, NextSeq
<1>2. row \in Rows /\ ValidLifecycle(row)
  BY <1>1, AcceptedRowType, AcceptedRowValid
<1>3. /\ row.id = e.id /\ row.seq = highWater + 1 /\ ~IsFinal(row) /\ row.created = clock
      /\ Between(row, me, partner)
  BY SessionAssumption DEF AcceptedRow, NextSeq, IsFinal, Between, Unopened
<1>4. /\ Tell(list) /\ stream \in Seq(T) /\ buffered' = buffered
      /\ messages' = messages \cup {row} /\ highWater' = highWater + 1 /\ clock' = clock
      /\ e.id \notin posted /\ posted' = posted \cup {e.id}
  BY DEF Accept, Create, NextSeq, Variables, client, incoming
<1> HIDE DEF row
<1>5. Message(row) \in T /\ list \in Seq(T)
  BY <1>2 DEF Message, RowEvents
<1>6. Of(list, {"message"}) = {row} /\ Of(list, {"expiry-update"}) = {}
  BY DEF Of, Message
<1> HIDE DEF list, T
<1>7. /\ Of(stream, {"message"}) \subseteq Of(stream', {"message"})
      /\ Of(stream', {"message"}) \subseteq Of(stream, {"message"}) \cup Of(list, {"message"})
      /\ conn => Of(stream', {"message"}) = Of(stream, {"message"}) \cup Of(list, {"message"})
      /\ stream' \in Seq(T)
  BY <1>4, <1>5, TellSets
<1>8. /\ Of(stream, {"expiry-update"}) \subseteq Of(stream', {"expiry-update"})
      /\ Of(stream', {"expiry-update"}) \subseteq Of(stream, {"expiry-update"}) \cup Of(list, {"expiry-update"})
  BY <1>4, <1>5, TellSets
<1>9. Prefixed
  BY <1>4, <1>5, TellExtends
<1> QED BY <1>2, <1>3, <1>4, <1>6, <1>7, <1>8, <1>9 DEF Messages, Updates, T, row

\* A clear tells its time.
LEMMA ClearingTells ==
    ASSUME Variables, TableInv, Tell(<<Clearance(clock)>>), buffered' = buffered
    PROVE  /\ Messages' = Messages /\ Updates' = Updates
           /\ stream' \in Seq(RowEvents \cup Clearances) /\ Prefixed
           /\ conn => \E i \in DOMAIN stream' : stream'[i] = Clearance(clock)
<1> DEFINE T == RowEvents \cup Clearances
           list == <<Clearance(clock)>>
<1>1. clock \in Nat /\ stream \in Seq(T)
  BY DEF TableInv, IInv, TypeOK, Variables
<1>2. list \in Seq(T)
  BY <1>1 DEF Clearance, Clearances
<1>3. Of(list, {"message"}) = {} /\ Of(list, {"expiry-update"}) = {}
  BY DEF Of, Clearance
<1>4. conn => \E i \in DOMAIN stream' : stream'[i] = Clearance(clock)
  <2> SUFFICES ASSUME conn PROVE \E i \in DOMAIN stream' : stream'[i] = Clearance(clock)
    OBVIOUS
  <2>1. stream' = Append(stream, Clearance(clock))
    BY <1>1 DEF Tell
  <2>2. Len(stream) + 1 \in DOMAIN Append(stream, Clearance(clock))
        /\ Append(stream, Clearance(clock))[Len(stream) + 1] = Clearance(clock)
    BY <1>1
  <2> QED BY <2>1, <2>2
<1>5. Tell(list)
  OBVIOUS
<1> HIDE DEF list, T
<1>6. /\ Of(stream, {"message"}) \subseteq Of(stream', {"message"})
      /\ Of(stream', {"message"}) \subseteq Of(stream, {"message"}) \cup Of(list, {"message"})
      /\ stream' \in Seq(T)
  BY <1>1, <1>2, <1>5, TellSets
<1>7. /\ Of(stream, {"expiry-update"}) \subseteq Of(stream', {"expiry-update"})
      /\ Of(stream', {"expiry-update"}) \subseteq Of(stream, {"expiry-update"}) \cup Of(list, {"expiry-update"})
  BY <1>1, <1>2, <1>5, TellSets
<1>8. Prefixed
  BY <1>1, <1>2, <1>5, TellExtends
<1> QED BY <1>3, <1>4, <1>6, <1>7, <1>8 DEF Messages, Updates, T

\* A fresh acceptance is no version of any copy.
LEMMA AcceptingCopies ==
    ASSUME TableInv, CopiesSound, NEW row \in Rows, row.id \notin posted, posted' = posted \cup {row.id},
           row.seq = highWater + 1, highWater' = highWater + 1, clock' = clock, row.created = clock,
           messages' = messages \cup {row}, ValidLifecycle(row), ~IsFinal(row), Between(row, me, partner),
           Copies' \subseteq Copies \cup {row}, Updates' \cup OpeningRows' \subseteq Updates \cup OpeningRows,
           Distinct(PageRows)', Distinct(OlderRows)', Distinct(FoundRows)'
    PROVE  CopiesSound'
<1>1. highWater \in Nat /\ clock \in Nat
  BY DEF TableInv, IInv, TypeOK
<1>2. \A v \in Copies : v.id # row.id /\ v.seq # row.seq
  <2> SUFFICES ASSUME NEW v \in Copies PROVE v.id # row.id /\ v.seq # row.seq
    OBVIOUS
  <2>1. v.id \in posted /\ v.seq <= highWater /\ v \in Rows
    BY DEF CopiesSound
  <2> QED BY <1>1, <2>1 DEF Rows
<1>3. \A v \in Copies' : /\ v \in Rows /\ ValidLifecycle(v) /\ Between(v, me, partner)
                         /\ v.id \in posted' /\ v.seq <= highWater' /\ v.created <= clock'
  <2> SUFFICES ASSUME NEW v \in Copies'
               PROVE  /\ v \in Rows /\ ValidLifecycle(v) /\ Between(v, me, partner)
                      /\ v.id \in posted' /\ v.seq <= highWater' /\ v.created <= clock'
    OBVIOUS
  <2>1. CASE v \in Copies
    <3>1. v \in Rows /\ v.seq <= highWater
      BY <2>1 DEF CopiesSound
    <3> QED BY <1>1, <2>1, <3>1 DEF CopiesSound, Rows
  <2>2. CASE v = row
    BY <1>1, <2>2
  <2> QED BY <2>1, <2>2
<1>4. Agree(Copies')
  BY <1>2 DEF CopiesSound, Agree, SameEnvelope
<1>5. \A v \in Copies', r \in messages' : v.id = r.id /\ IsFinal(v) => r = v
  <2>1. messages \subseteq Copies
    BY DEF Copies
  <2> QED BY <1>2, <2>1 DEF CopiesSound
<1>6. \A u \in Updates' \cup OpeningRows' : IsFinal(u)
  BY DEF CopiesSound
<1> QED BY <1>3, <1>4, <1>5, <1>6 DEF CopiesSound

\* The session's part in a step of the server.
LEMMA DatabaseFrame ==
    ASSUME DatabaseStep
    PROVE  /\ UNCHANGED <<link, store, syncing, incoming, paging, wantOpen, observed>>
           /\ AnswerOpening \/ opening' = opening
           /\ ClearHere \/ ownClear' = ownClear
           /\ (\E e \in Envelopes : Accept(e)) \/ posted' = posted
BY DEF DatabaseStep, ServerStep, Accept, OpenElsewhere, PartnerClears, SweepExpired, Pass, AnswerOpening, ClearHere,
       client, openings, observed

LEMMA SomeoneOpens ==
    ASSUME TableInv, NEW a, NEW b, OpenElsewhere(a, b)
    PROVE  \E ids \in SUBSET Ids : OpenAndTell(a, b, ids)
<1>1. Available(a, b, Ids) \subseteq Rows
  BY DEF Available, TableInv, IInv, TypeOK
<1>2. IdsOf(NewlyOpened(Available(a, b, Ids))) \subseteq Ids
  BY <1>1 DEF IdsOf, NewlyOpened, Rows
<1> QED BY <1>2 DEF OpenElsewhere

LEMMA DatabaseCopies ==
    ASSUME Control, TableInv, CopiesSound, DatabaseStep
    PROVE  CopiesSound'
<1>0. /\ Variables /\ RequestFields /\ messages \subseteq Rows /\ clock \in Nat /\ highWater \in Nat
      /\ me \in Addresses /\ partner \in Addresses
  BY SessionAssumption DEF Control, TableInv, IInv, TypeOK
<1>1. /\ UNCHANGED <<store, sync, decrypting, older, buffered>>
      /\ AnswerOpening \/ opening' = opening
      /\ PageRows' = PageRows /\ OlderRows' = OlderRows /\ FoundRows' = FoundRows
  BY DatabaseFrame DEF link, syncing, incoming, paging, PageRows, OlderRows, FoundRows
<1>2. Distinct(PageRows)' /\ Distinct(OlderRows)' /\ Distinct(FoundRows)'
  BY <1>1 DEF CopiesSound
<1>3. ASSUME opening' = opening
      PROVE  OpeningRows' = OpeningRows /\ Sources' = decrypting \cup PageRows \cup FoundRows \cup OlderRows \cup OpeningRows \cup Messages'
  BY <1>1, <1>3 DEF OpeningRows, Sources
<1>4. ASSUME NEW e \in Envelopes, Accept(e) PROVE CopiesSound'
  <2> DEFINE row == AcceptedRow(e, NextSeq, clock)
  <2>1. /\ Messages' \subseteq Messages \cup {row} /\ Updates' = Updates
        /\ messages' = messages \cup {row} /\ row.id \notin posted /\ posted' = posted \cup {row.id}
        /\ row.seq = highWater + 1 /\ highWater' = highWater + 1 /\ clock' = clock
        /\ row \in Rows /\ ValidLifecycle(row) /\ ~IsFinal(row) /\ row.created = clock
        /\ Between(row, me, partner)
    BY <1>0, <1>4, AcceptingTells
  <2>2. opening' = opening
    BY <1>4 DEF Accept, client, openings
  <2> HIDE DEF row
  <2>3. Copies' \subseteq Copies \cup {row} /\ Updates' \cup OpeningRows' \subseteq Updates \cup OpeningRows
    BY <1>1, <1>3, <2>1, <2>2 DEF Copies, Sources
  <2> QED BY <1>2, <2>1, <2>3, AcceptingCopies
<1>5. ASSUME NEW a \in Addresses, NEW b \in Addresses, OpenElsewhere(a, b) PROVE CopiesSound'
  <2>1. PICK ids \in SUBSET Ids : OpenAndTell(a, b, ids)
    BY <1>5, SomeoneOpens
  <2>2. /\ Open(a, b, ids) /\ Updates' \subseteq Updates \cup OpenedBy(a, b, ids) /\ Messages' = Messages
    BY <1>0, <1>1, <2>1, OpeningTells
  <2>3. opening' = opening /\ posted' = posted
    BY <1>5 DEF OpenElsewhere, client, openings
  <2>4. /\ messages' = (messages \ Fresh(a, b, ids)) \cup OpenedBy(a, b, ids)
        /\ \A u \in OpenedBy(a, b, ids) : IsFinal(u)
    BY <2>2, OpeningWrites DEF OpenedBy
  <2>5. Copies' \subseteq Copies \cup OpenedBy(a, b, ids)
    BY <1>1, <1>3, <2>2, <2>3, <2>4 DEF Copies, Sources
  <2>6. \A u \in Updates' \cup OpeningRows' : IsFinal(u)
    BY <1>3, <2>2, <2>3, <2>4 DEF CopiesSound
  <2> QED BY <1>2, <2>2, <2>3, <2>5, <2>6, OpeningCopies
<1>6. ASSUME AnswerOpening PROVE CopiesSound'
  <2> DEFINE ids == opening.ids
             found == {r \in messages' : r.id \in IdsOf(Available(me, partner, ids))}
  <2>1. ids \in SUBSET Ids /\ OpenAndTell(me, partner, ids) /\ posted' = posted
    BY <1>0, <1>6 DEF AnswerOpening, RequestFields
  <2>2. opening'.stage = "answered" /\ opening'.found = found
    BY <1>6 DEF AnswerOpening
  <2>3. OpeningRows' = found
    BY <2>2 DEF OpeningRows
  <2> HIDE DEF ids
  <2>4. /\ Open(me, partner, ids) /\ Updates' \subseteq Updates \cup OpenedBy(me, partner, ids) /\ Messages' = Messages
    BY <1>0, <1>1, <2>1, OpeningTells
  <2>5. /\ messages' = (messages \ Fresh(me, partner, ids)) \cup OpenedBy(me, partner, ids)
        /\ Fresh(me, partner, ids) \subseteq messages
        /\ \A r \in Fresh(me, partner, ids) : IsFinal(OpenedRow(r, clock)) /\ SameEnvelope(OpenedRow(r, clock), r)
    BY <1>0, <2>1, <2>4, OpeningWrites
  <2>6. \A u \in OpenedBy(me, partner, ids) : IsFinal(u)
    BY <2>5 DEF OpenedBy
  <2>7. found \subseteq messages'
    OBVIOUS
  <2>8. Copies' \subseteq Copies \cup OpenedBy(me, partner, ids)
    BY <1>1, <2>3, <2>4, <2>5, <2>7 DEF Copies, Sources
  <2>9. ASSUME NEW u \in found PROVE IsFinal(u)
    <3>1. PICK r \in Available(me, partner, ids) : r.id = u.id
      BY DEF IdsOf
    <3>2. r \in messages /\ u \in messages'
      BY DEF Available
    <3>3. CASE u \in OpenedBy(me, partner, ids)
      BY <2>6, <3>3
    <3>4. CASE u \in messages /\ u \notin Fresh(me, partner, ids)
      <4>1. u = r
        BY <3>1, <3>2, <3>4 DEF TableInv, IInv, RowsAreSound, KeysAreUnique
      <4> QED BY <3>4, <4>1 DEF Fresh, NewlyOpened
    <3> QED BY <2>5, <3>2, <3>3, <3>4
  <2> HIDE DEF found
  <2>10. \A u \in Updates' \cup OpeningRows' : IsFinal(u)
    BY <2>3, <2>4, <2>6, <2>9 DEF CopiesSound
  <2> QED BY <1>0, <1>2, <2>1, <2>4, <2>8, <2>10, OpeningCopies
<1>7. ASSUME messages' \subseteq messages, Messages' = Messages, Updates' = Updates, opening' = opening,
             posted' = posted, highWater' = highWater, clock' \in Nat, clock' >= clock
      PROVE  CopiesSound'
  <2>1. Copies' \subseteq Copies /\ Updates' \cup OpeningRows' \subseteq Updates \cup OpeningRows
    BY <1>1, <1>3, <1>7 DEF Copies, Sources
  <2> QED BY <1>0, <1>2, <1>7, <2>1, FewerCopies
<1>8. ASSUME PartnerClears \/ ClearHere PROVE CopiesSound'
  <2>1. /\ Tell(<<Clearance(clock)>>) /\ messages' \subseteq messages /\ UNCHANGED <<clock, highWater, posted, opening>>
    BY <1>8 DEF PartnerClears, ClearHere, Clear, client, openings
  <2>2. Messages' = Messages /\ Updates' = Updates
    BY <1>0, <1>1, <2>1, ClearingTells
  <2> QED BY <1>0, <1>7, <2>1, <2>2
<1>9. ASSUME SweepExpired \/ Pass PROVE CopiesSound'
  <2>1. /\ messages' \subseteq messages /\ clock' \in {clock, clock + 1}
        /\ UNCHANGED <<highWater, posted, opening, stream>>
    BY <1>9 DEF SweepExpired, Pass, Sweep, Tick, client, openings
  <2>2. Messages' = Messages /\ Updates' = Updates
    BY <1>1, <2>1 DEF Messages, Updates
  <2> QED BY <1>0, <1>7, <2>1, <2>2
<1> QED BY <1>0, <1>4, <1>5, <1>6, <1>8, <1>9 DEF DatabaseStep, ServerStep

LEMMA NoEvents == \A S : <<>> \in Seq(S)
OBVIOUS

\* Every loaded id is an id.
LEMMA LoadedAreIds ==
    ASSUME NEW s, StoreSound(s)
    PROVE  LoadedIds(s) \subseteq Ids /\ PendingIds(s) \subseteq LoadedIds(s)
BY DEF StoreSound, Stores, Entries, Rows, LoadedIds, PendingIds, InState

LEMMA ControlInitially == Init => Control
<1> SUFFICES ASSUME Init PROVE Control
  OBVIOUS
<1> USE DEF Init, DbInit, Number, Idle, None
<1>1. Variables
  BY NoEvents DEF Variables
<1>2. SyncFields
  BY DEF SyncFields
<1>3. RequestFields
  BY DEF RequestFields
<1>4. OnlyWhileWatching
  BY DEF OnlyWhileWatching
<1>5. NeverStuck
  BY DEF NeverStuck
<1> QED BY <1>1, <1>2, <1>3, <1>4, <1>5 DEF Control

LEMMA ControlWhenSession ==
    ASSUME Control, TableInv, TypeOK, StoreOK, StoreOK', SessionStep
    PROVE  Control'
<1> USE DEF Control, Number, Idle, Failed, None, dbVars, link, syncing, incoming, paging, openings
<1>0. LoadedIds(store) \subseteq Ids /\ LoadedIds(store') \subseteq Ids /\ PendingIds(store) \subseteq Ids
  BY LoadedAreIds DEF StoreOK
<1>1. ASSUME Disconnect PROVE Control'
  <2>1. Variables'
    BY <1>1, NoEvents DEF Disconnect, Supersede, Variables
  <2>2. SyncFields'
    BY <1>1 DEF Disconnect, Supersede, Variables, SyncFields, OnlyWhileWatching, StoreOK, StoreSound, Stores, Entries, LoadedIds, Idle, Failed
  <2>3. RequestFields'
    BY <1>1 DEF Disconnect, Supersede, Variables, RequestFields, StoreOK, StoreSound, Stores, Entries, OnlyWhileWatching
  <2>4. OnlyWhileWatching'
    BY <1>1 DEF Disconnect, Supersede, Variables, SyncFields, OnlyWhileWatching
  <2>5. NeverStuck'
    BY <1>1 DEF Disconnect, Supersede, Variables, SyncFields, OnlyWhileWatching, NeverStuck
  <2> QED BY <2>1, <2>2, <2>3, <2>4, <2>5
<1>2. ASSUME AnswerPage PROVE Control'
  <2>1. Variables'
    BY <1>2 DEF AnswerPage, Variables
  <2>2. SyncFields'
    <3> DEFINE bound  == IF sync.bound = None THEN highWater ELSE sync.bound
               newest == HistoryRows(messages, me, partner, highWater + 1, PageSize, clock)
               rows   == RecoveryFetch(messages, me, partner, sync.from, bound, RecoveryLimit, clock)
               page   == FirstRows(rows, RecoveryLimit)
    <3>1. highWater \in Nat /\ messages \subseteq Rows
      BY DEF TypeOK
    <3>2. newest \subseteq messages /\ page \subseteq messages /\ rows \subseteq messages
      BY DEF HistoryRows, LastRows, RecoveryFetch, FirstRows, LiveBetween
    <3>3. newest # {} => MinSeqOf(newest) \in 0..highWater
      BY <3>1, <3>2, LowestOfTable
    <3>31. page # {} => MinSeqOf(page) \in 0..highWater
      BY <3>1, <3>2, LowestOfTable
    <3>4. ASSUME sync.from # None PROVE Cardinality(rows) <= RecoveryLimit \/ MaxSeqOf(page) \in 0..highWater
      <4>1. sync.from \in Nat /\ bound \in 0..highWater
        BY <1>2, <3>1, <3>4 DEF AnswerPage, SyncFields
      <4>2. RecoveryLimit \in Nat \ {0}
        BY SessionAssumption
      <4>3. Cardinality(rows) > RecoveryLimit => MaxSeqOf(page) \in Nat /\ MaxSeqOf(page) < bound
        <5> HIDE DEF bound
        <5>1. bound \in Nat
          BY <3>1, <4>1
        <5> QED BY <4>1, <4>2, <5>1, PageOfRecovery
      <4>4. Cardinality(rows) \in Nat
        BY <3>2, FS_Subset, FS_CardinalityType DEF TableInv
      <4>5. bound \in Nat /\ bound <= highWater
        BY <3>1, <4>1
      <4> HIDE DEF rows, page, bound
      <4> QED BY <3>1, <4>2, <4>3, <4>4, <4>5
    <3>5. /\ sync.stage = "ask" /\ UNCHANGED <<clock, highWater, checkpoint, syncedHere>>
          /\ sync' = IF sync.from = None
               THEN [stage |-> "page", first |-> TRUE, rows |-> newest, upper |-> highWater, next |-> None]
               ELSE [stage |-> "page", first |-> FALSE, rows |-> page, upper |-> bound,
                     next |-> IF Cardinality(rows) <= RecoveryLimit THEN None ELSE MaxSeqOf(page)]
      BY <1>2 DEF AnswerPage
    <3>6. bound \in 0..highWater \/ sync.from = None
      BY <1>2, <3>1 DEF AnswerPage, SyncFields
    <3> HIDE DEF bound, newest, rows, page
    <3> QED BY <3>1, <3>2, <3>3, <3>31, <3>4, <3>5, <3>6 DEF SyncFields
  <2>3. RequestFields'
    BY <1>2 DEF AnswerPage, Variables, RequestFields, StoreOK, StoreSound, Stores, Entries, OnlyWhileWatching
  <2>4. OnlyWhileWatching'
    BY <1>2 DEF AnswerPage, Variables, SyncFields, OnlyWhileWatching
  <2>5. NeverStuck'
    BY <1>2 DEF AnswerPage, Variables, SyncFields, OnlyWhileWatching, NeverStuck
  <2> QED BY <2>1, <2>2, <2>3, <2>4, <2>5
<1>3. ASSUME TakePage PROVE Control'
  <2>1. Variables' /\ SyncFields' /\ RequestFields'
    <3> DEFINE loaded == LoadedIds(store')
    <3>1. /\ sync.stage = "page" /\ checkpoint' = Baseline
          /\ sync' = IF sync.next # None THEN AskServer(sync.next, sync.upper)
                     ELSE NextRound(loaded, 0, {}, sync.upper)
          /\ UNCHANGED <<clock, highWater, syncedHere, synced, older, opening, posted, conn, attentive,
                         stream, buffered, decrypting, ownClear>>
          /\ IF sync.first
             THEN /\ olderCursor' = IF sync.rows = {} THEN None ELSE MinSeqOf(sync.rows)
                  /\ hasMore' = (Cardinality(sync.rows) = PageSize)
             ELSE UNCHANGED <<olderCursor, hasMore>>
      BY <1>3 DEF TakePage
    <3>2. /\ sync.first \in BOOLEAN /\ sync.upper \in 0..highWater /\ sync.next \in 0..highWater \cup {None}
          /\ sync.first <=> checkpoint = None
          /\ sync.first => sync.next = None
          /\ sync.rows # {} => MinSeqOf(sync.rows) \in 0..highWater
      BY <3>1 DEF SyncFields
    <3>3. highWater \in Nat /\ clock \in Nat /\ loaded \subseteq Ids
      BY <1>0 DEF TypeOK
    <3>4. checkpoint' \in 0..highWater
      BY <3>1, <3>2, <3>3 DEF Baseline, Variables
    <3> HIDE DEF loaded
    <3>5. Variables'
      BY <3>1, <3>2, <3>3, <3>4 DEF Variables
    <3>6. SyncFields'
      <4>1. CASE sync.next # None
        BY <3>1, <3>2, <3>3, <3>4, <4>1 DEF SyncFields, AskServer
      <4>2. CASE sync.next = None
        BY <3>1, <3>2, <3>3, <3>4, <4>2 DEF SyncFields, NextRound, RoundIds, Drain
      <4> QED BY <4>1, <4>2
    <3>7. RequestFields'
      BY <3>1, <3>2, <3>3, <3>4 DEF RequestFields
    <3> QED BY <3>5, <3>6, <3>7
  <2>2. OnlyWhileWatching'
    BY <1>3 DEF TakePage, Baseline, AskServer, NextRound, RoundIds, Drain, Variables, SyncFields, OnlyWhileWatching
  <2>3. NeverStuck'
    BY <1>3 DEF TakePage, Baseline, AskServer, NextRound, RoundIds, Drain, Variables, SyncFields, OnlyWhileWatching, NeverStuck
  <2> QED BY <2>1, <2>2, <2>3
<1>4. ASSUME AnswerLookup PROVE Control'
  <2>1. Variables'
    BY <1>4 DEF AnswerLookup, LiveBetween, Variables
  <2>2. SyncFields'
    <3> DEFINE found == {r \in LiveBetween(messages, me, partner, clock) : r.id \in sync.ids}
    <3>1. /\ sync.stage = "look"
          /\ sync' = [stage |-> "states", goal |-> sync.goal, round |-> sync.round, refreshed |-> sync.refreshed,
                      ids |-> sync.ids, completed |-> sync.completed, started |-> sync.started, time |-> clock,
                      found |-> found]
          /\ UNCHANGED <<clock, highWater, checkpoint, syncedHere>>
      BY <1>4 DEF AnswerLookup
    <3>2. found \subseteq Rows /\ clock \in Nat
      BY DEF TypeOK, LiveBetween
    <3> HIDE DEF found
    <3> QED BY <3>1, <3>2 DEF SyncFields
  <2>3. RequestFields'
    BY <1>4 DEF AnswerLookup, LiveBetween, Variables, RequestFields, StoreOK, StoreSound, Stores, Entries, OnlyWhileWatching
  <2>4. OnlyWhileWatching'
    BY <1>4 DEF AnswerLookup, LiveBetween, Variables, SyncFields, OnlyWhileWatching
  <2>5. NeverStuck'
    BY <1>4 DEF AnswerLookup, LiveBetween, Variables, SyncFields, OnlyWhileWatching, NeverStuck
  <2> QED BY <2>1, <2>2, <2>3, <2>4, <2>5
<1>5. ASSUME TakeStates PROVE Control'
  <2>1. Variables'
    BY <1>5 DEF TakeStates, AfterFailure, StartSync, Drain, NextRound, RoundIds, AskServer, Variables
  <2>2. SyncFields'
    <3>1. /\ sync.stage = "states"
          /\ UNCHANGED <<clock, highWater, checkpoint, syncedHere, conn, attentive>>
          /\ \/ sync' = AfterFailure
             \/ sync' = Failed
             \/ sync' = Drain(sync.completed)
             \/ sync' = NextRound(LoadedIds(store'), sync.round + 1, sync.refreshed \cup sync.ids, sync.completed)
      BY <1>5 DEF TakeStates
    <3>2. /\ sync.refreshed \cup sync.ids \subseteq Ids /\ sync.round + 1 \in Nat
          /\ sync.completed \in 0..highWater \cup {None} /\ (sync.completed = None => syncedHere)
          /\ checkpoint # None
      BY <3>1 DEF SyncFields
    <3>3. CASE sync' = AfterFailure
      BY <3>1, <3>2, <3>3 DEF SyncFields, AfterFailure, StartSync, AskServer, Variables, OnlyWhileWatching
    <3>4. CASE sync' = Failed \/ sync' = Drain(sync.completed)
      BY <3>1, <3>2, <3>4 DEF SyncFields, Drain
    <3>5. CASE sync' = NextRound(LoadedIds(store'), sync.round + 1, sync.refreshed \cup sync.ids, sync.completed)
      <4>1. clock \in Nat
        BY DEF TypeOK
      <4> QED BY <1>0, <3>1, <3>2, <3>5, <4>1 DEF SyncFields, Drain, NextRound, RoundIds
    <3> QED BY <3>1, <3>3, <3>4, <3>5
  <2>3. RequestFields'
    BY <1>5 DEF TakeStates, AfterFailure, StartSync, Drain, NextRound, RoundIds, AskServer, Variables, RequestFields, StoreOK, StoreSound, Stores, Entries, OnlyWhileWatching
  <2>4. OnlyWhileWatching'
    BY <1>5 DEF TakeStates, AfterFailure, StartSync, Drain, NextRound, RoundIds, AskServer, Variables, SyncFields, OnlyWhileWatching
  <2>5. NeverStuck'
    BY <1>5 DEF TakeStates, AfterFailure, StartSync, Drain, NextRound, RoundIds, AskServer, Variables, SyncFields, OnlyWhileWatching, NeverStuck
  <2> QED BY <2>1, <2>2, <2>3, <2>4, <2>5
<1>6. ASSUME DrainLookup PROVE Control'
  <2>1. Variables'
    BY <1>6 DEF DrainLookup, Variables
  <2>2. SyncFields'
    BY <1>0, <1>6 DEF DrainLookup, SyncFields, TypeOK
  <2>3. RequestFields'
    BY <1>6 DEF DrainLookup, Variables, RequestFields, StoreOK, StoreSound, Stores, Entries, OnlyWhileWatching
  <2>4. OnlyWhileWatching'
    BY <1>6 DEF DrainLookup, Variables, SyncFields, OnlyWhileWatching
  <2>5. NeverStuck'
    BY <1>6 DEF DrainLookup, Variables, SyncFields, OnlyWhileWatching, NeverStuck
  <2> QED BY <2>1, <2>2, <2>3, <2>4, <2>5
<1>7. ASSUME AnswerOlder PROVE Control'
  <2>1. Variables'
    BY <1>7 DEF AnswerOlder, HistoryRows, LastRows, LiveBetween, Variables
  <2>2. SyncFields'
    BY <1>7 DEF AnswerOlder, HistoryRows, LastRows, LiveBetween, Variables, SyncFields, OnlyWhileWatching, StoreOK, StoreSound, Stores, Entries, LoadedIds, Idle, Failed
  <2>3. RequestFields'
    <3> DEFINE page == HistoryRows(messages, me, partner, olderCursor, PageSize, clock)
    <3>1. page \subseteq messages /\ messages \subseteq Rows
      BY DEF HistoryRows, LastRows, LiveBetween, TypeOK
    <3>2. page # {} => MinSeqOf(page) \in 0..highWater
      BY <3>1, LowestOfTable
    <3>3. older' = [stage |-> "page", rows |-> page] /\ older.stage = "ask"
      BY <1>7 DEF AnswerOlder
    <3> HIDE DEF page
    <3> QED BY <1>7, <3>1, <3>2, <3>3 DEF AnswerOlder, RequestFields
  <2>4. OnlyWhileWatching'
    BY <1>7 DEF AnswerOlder, HistoryRows, LastRows, LiveBetween, Variables, SyncFields, OnlyWhileWatching
  <2>5. NeverStuck'
    BY <1>7 DEF AnswerOlder, HistoryRows, LastRows, LiveBetween, Variables, SyncFields, OnlyWhileWatching, NeverStuck
  <2> QED BY <2>1, <2>2, <2>3, <2>4, <2>5
<1>8. ASSUME TakeOlder PROVE Control'
  <2>1. Variables'
    BY <1>8 DEF TakeOlder, Variables, RequestFields
  <2>2. SyncFields'
    BY <1>8 DEF TakeOlder, Variables, SyncFields, OnlyWhileWatching, StoreOK, StoreSound, Stores, Entries, LoadedIds, Idle, Failed
  <2>3. RequestFields'
    BY <1>8 DEF TakeOlder, Variables, RequestFields, StoreOK, StoreSound, Stores, Entries, OnlyWhileWatching
  <2>4. OnlyWhileWatching'
    BY <1>8 DEF TakeOlder, Variables, SyncFields, OnlyWhileWatching
  <2>5. NeverStuck'
    BY <1>8 DEF TakeOlder, Variables, SyncFields, OnlyWhileWatching, NeverStuck
  <2> QED BY <2>1, <2>2, <2>3, <2>4, <2>5
<1>9. ASSUME OpenPending PROVE Control'
  <2>1. RequestFields' /\ OnlyWhileWatching'
    <3>1. RequestFields'
      BY <1>0, <1>9 DEF OpenPending, RequestFields, TypeOK
    <3>2. OnlyWhileWatching'
      BY <1>9 DEF OpenPending, OnlyWhileWatching, MayOpen, Variables
    <3> QED BY <3>1, <3>2
  <2>2. Variables'
    BY <1>9 DEF OpenPending, PendingIds, InState, Variables
  <2>3. SyncFields'
    BY <1>9 DEF OpenPending, PendingIds, InState, Variables, SyncFields, OnlyWhileWatching, StoreOK, StoreSound, Stores, Entries, LoadedIds, Idle, Failed
  <2>4. NeverStuck'
    BY <1>9 DEF OpenPending, PendingIds, InState, Variables, SyncFields, OnlyWhileWatching, NeverStuck
  <2> QED BY <2>1, <2>2, <2>3, <2>4
<1>10. ASSUME NEW r \in decrypting, Decrypted(r) PROVE Control'
  <2>1. Variables'
    BY <1>10 DEF Decrypted, StartSync, AskServer, Variables
  <2>2. SyncFields'
    BY <1>10 DEF Decrypted, StartSync, AskServer, Variables, SyncFields, OnlyWhileWatching, StoreOK, StoreSound, Stores, Entries, LoadedIds, Idle, Failed
  <2>3. RequestFields'
    BY <1>10 DEF Decrypted, StartSync, AskServer, Variables, RequestFields, StoreOK, StoreSound, Stores, Entries, OnlyWhileWatching
  <2>4. OnlyWhileWatching'
    BY <1>10 DEF Decrypted, StartSync, AskServer, Variables, SyncFields, OnlyWhileWatching
  <2>5. NeverStuck'
    BY <1>10 DEF Decrypted, StartSync, AskServer, Variables, SyncFields, OnlyWhileWatching, NeverStuck
  <2> QED BY <2>1, <2>2, <2>3, <2>4, <2>5
<1> USE DEF Variables, SyncFields, RequestFields, OnlyWhileWatching, NeverStuck,
            StoreOK, StoreSound, Stores, Entries, LoadedIds
<1>11. ASSUME Connect PROVE Control'
  BY <1>11 DEF Connect, Supersede, AskServer
<1>12. ASSUME LoseAttention PROVE Control'
  BY <1>12 DEF LoseAttention, Supersede
<1>13. ASSUME RegainAttention PROVE Control'
  BY <1>13 DEF RegainAttention, Supersede, AskServer, Drain
<1>14. ASSUME DrainOne PROVE Control'
  BY <1>14 DEF DrainOne
<1>15. ASSUME Synchronized PROVE Control'
  BY <1>15 DEF Synchronized
<1>16. ASSUME SyncFails PROVE Control'
  BY <1>16 DEF SyncFails, AfterFailure, StartSync, AskServer
<1>17. ASSUME Retry PROVE Control'
  BY <1>17 DEF Retry, StartSync, AskServer
<1>18. ASSUME BufferEvent PROVE Control'
  BY <1>18 DEF BufferEvent, RowEvents, Clearances
<1>19. ASSUME ReceiveMessage PROVE Control'
  BY <1>19 DEF ReceiveMessage, RowEvents, Clearances
<1>20. ASSUME ReceiveUpdate PROVE Control'
  BY <1>20 DEF ReceiveUpdate
<1>21. ASSUME ReceiveClear PROVE Control'
  BY <1>21 DEF ReceiveClear
<1>22. ASSUME ClearAnswered PROVE Control'
  BY <1>22 DEF ClearAnswered
<1>23. ASSUME ClearFails PROVE Control'
  BY <1>23 DEF ClearFails
<1>24. ASSUME ExpiryTimer PROVE Control'
  BY <1>24 DEF ExpiryTimer
<1>25. ASSUME AskOlder PROVE Control'
  BY <1>25 DEF AskOlder
<1>26. ASSUME OlderFails PROVE Control'
  BY <1>26 DEF OlderFails
<1>27. ASSUME TakeOpening PROVE Control'
  BY <1>27 DEF TakeOpening
<1>28. ASSUME OpeningFails PROVE Control'
  BY <1>28 DEF OpeningFails
<1>29. ASSUME RetryOpening PROVE Control'
  BY <1>29 DEF RetryOpening
<1> HIDE DEF Control, Variables, SyncFields, RequestFields, OnlyWhileWatching, NeverStuck
<1> QED
  BY <1>1, <1>2, <1>3, <1>4, <1>5, <1>6, <1>7, <1>8, <1>9, <1>10, <1>11, <1>12, <1>13, <1>14, <1>15, <1>16, <1>17, <1>18, <1>19, <1>20, <1>21, <1>22, <1>23, <1>24, <1>25, <1>26, <1>27, <1>28, <1>29
     DEF SessionStep, LinkStep, ClientStep, FailStep

\* Time does not step back.
LEMMA StepTime ==
    ASSUME TypeOK, [DbNext]_dbVars
    PROVE  clock' >= clock
<1>1. CASE Shrinks
  BY <1>1 DEF Shrinks
<1>2. ASSUME NEW e \in Envelopes, Create(e) PROVE clock' >= clock
  BY <1>2 DEF Create, TypeOK
<1>3. ASSUME NEW a \in Addresses, NEW b \in Addresses, NEW ids \in SUBSET Ids, Open(a, b, ids) PROVE clock' >= clock
  BY <1>3 DEF Open, TypeOK
<1> QED BY <1>1, <1>2, <1>3, StepKinds

\* Every step of the session is, for the server's tables, a step of the
\* database.
LEMMA TablesStep ==
    ASSUME Control, TableInv, [Next]_vars
    PROVE  [DbNext]_dbVars
<1>0. me \in Addresses /\ partner \in Addresses /\ me # partner
  BY SessionAssumption
<1>1. CASE UNCHANGED vars
  BY <1>1 DEF vars
<1>2. CASE SessionStep
  BY <1>2, SessionKeepsDb
<1>3. ASSUME NEW e \in Envelopes, Accept(e) PROVE DbNext
  BY <1>3 DEF Accept, DbNext
<1>4. ASSUME NEW a \in Addresses, NEW b \in Addresses, a # b, OpenElsewhere(a, b) PROVE DbNext
  <2>1. PICK ids \in SUBSET Ids : Open(a, b, ids)
    BY <1>4, SomeoneOpens DEF OpenAndTell
  <2> QED BY <1>4, <2>1 DEF DbNext
<1>5. ASSUME PartnerClears \/ ClearHere PROVE DbNext
  BY <1>0, <1>5 DEF PartnerClears, ClearHere, DbNext
<1>6. ASSUME SweepExpired \/ Pass PROVE DbNext
  BY <1>6 DEF SweepExpired, Pass, DbNext
<1>7. ASSUME AnswerOpening PROVE DbNext
  <2>1. opening.ids \in SUBSET Ids /\ Open(me, partner, opening.ids)
    BY <1>7 DEF AnswerOpening, OpenAndTell, Control, RequestFields
  <2> HIDE DEF Open
  <2> QED BY <1>0, <2>1 DEF DbNext
<1>8. CASE DatabaseStep
  BY <1>0, <1>3, <1>4, <1>5, <1>6, <1>7, <1>8 DEF DatabaseStep, ServerStep
<1> QED BY <1>1, <1>2, <1>8 DEF Next, DatabaseStep, SessionStep, AnswerStep, UserStep

\* What happens on the server leaves the session's work as it is.
LEMMA ControlWhenDatabase ==
    ASSUME Control, TableInv, TypeOK', DatabaseStep, highWater' >= highWater, clock' >= clock
    PROVE  Control'
<1> USE DEF Number, Idle, None
<1>0. /\ Variables /\ RequestFields /\ SyncFields /\ OnlyWhileWatching /\ NeverStuck
      /\ clock \in Nat /\ highWater \in Nat /\ clock' \in Nat /\ highWater' \in Nat /\ messages' \subseteq Rows
      /\ me \in Addresses /\ partner \in Addresses
  BY SessionAssumption DEF Control, TableInv, IInv, TypeOK
<1>1. /\ UNCHANGED <<work, conn, attentive, synced, syncedHere, sync, checkpoint, buffered, decrypting,
                     hasMore, olderCursor, older>>
      /\ AnswerOpening \/ opening' = opening
      /\ ClearHere \/ ownClear' = ownClear
  BY DatabaseFrame DEF link, syncing, incoming, paging
<1>2. /\ posted' \subseteq Ids
      /\ stream' \in Seq(RowEvents \cup Clearances)
      /\ ~conn => stream' = stream
      /\ ownClear' \in Nat \cup {None}
  <2>1. ASSUME NEW e \in Envelopes, Accept(e)
        PROVE  posted' \subseteq Ids /\ stream' \in Seq(RowEvents \cup Clearances) /\ (~conn => stream' = stream)
    <3> DEFINE row == AcceptedRow(e, NextSeq, clock)
    <3>1. /\ stream' \in Seq(RowEvents \cup Clearances)
          /\ posted' = posted \cup {row.id} /\ row \in Rows
      BY <1>0, <2>1, AcceptingTells
    <3>2. ~conn => stream' = stream
      BY <2>1 DEF Accept, Tell
    <3>3. posted' \subseteq Ids
      BY <1>0, <3>1 DEF Variables, Rows
    <3> QED BY <3>1, <3>2, <3>3
  <2>2. ASSUME NEW a \in Addresses, NEW b \in Addresses, NEW ids \in SUBSET Ids, OpenAndTell(a, b, ids)
        PROVE  stream' \in Seq(RowEvents \cup Clearances) /\ (~conn => stream' = stream)
    <3>1. ~conn => stream' = stream
      BY <2>2 DEF OpenAndTell, Tell
    <3> QED BY <1>0, <1>1, <2>2, <3>1, OpeningTells
  <2>3. ASSUME PartnerClears \/ ClearHere
        PROVE  stream' \in Seq(RowEvents \cup Clearances) /\ (~conn => stream' = stream)
    <3>1. Tell(<<Clearance(clock)>>)
      BY <2>3 DEF PartnerClears, ClearHere
    <3>2. ~conn => stream' = stream
      BY <3>1 DEF Tell
    <3> QED BY <1>0, <1>1, <3>1, <3>2, ClearingTells
  <2>4. SweepExpired \/ Pass => stream' = stream
    BY DEF SweepExpired, Pass
  <2>5. AnswerOpening => opening.ids \in SUBSET Ids /\ OpenAndTell(me, partner, opening.ids)
    BY <1>0 DEF AnswerOpening, RequestFields
  <2>6. ASSUME NEW a, NEW b, OpenElsewhere(a, b) PROVE \E ids \in SUBSET Ids : OpenAndTell(a, b, ids)
    BY <2>6, SomeoneOpens
  <2>7. posted' \subseteq Ids
    <3>1. (\E e \in Envelopes : Accept(e)) \/ posted' = posted
      BY DatabaseFrame
    <3> QED BY <1>0, <2>1, <3>1 DEF Variables
  <2>8. ownClear' \in Nat \cup {None}
    BY <1>0, <1>1 DEF Variables, ClearHere
  <2>9. stream' \in Seq(RowEvents \cup Clearances) /\ (~conn => stream' = stream)
    <3>1. stream \in Seq(RowEvents \cup Clearances)
      BY <1>0 DEF Variables
    <3>2. CASE OpenElsewhere(partner, me) \/ OpenElsewhere(me, partner)
      BY <1>0, <2>2, <2>6, <3>2
    <3>3. CASE AnswerOpening
      BY <1>0, <2>2, <2>5, <3>3
    <3>4. CASE PartnerClears \/ ClearHere
      BY <2>3, <3>4
    <3> QED BY <2>1, <2>4, <3>1, <3>2, <3>3, <3>4 DEF DatabaseStep, ServerStep
  <2> QED BY <2>7, <2>8, <2>9
<1>3. Variables'
  BY <1>0, <1>1, <1>2 DEF Variables
<1>4. SyncFields'
  <2>1. 0..highWater \subseteq 0..highWater' /\ 0..clock \subseteq 0..clock'
    BY <1>0
  <2>2. sync.stage = "states" => sync.time \in sync.started..clock'
    BY <1>0 DEF SyncFields
  <2> HIDE DEF None
  <2> QED BY <1>0, <1>1, <2>1, <2>2 DEF SyncFields
<1>5. RequestFields'
  <2>1. 0..highWater \subseteq 0..highWater' /\ 0..clock \subseteq 0..clock'
    BY <1>0
  <2>2. CASE opening' = opening
    <3>1. opening.stage = "answered" => opening.time \in opening.started..clock'
      BY <1>0 DEF RequestFields
    <3> QED BY <1>0, <1>1, <2>1, <2>2, <3>1 DEF RequestFields
  <2>3. CASE AnswerOpening
    <3>1. /\ opening.stage = "sent" /\ clock' = clock
          /\ opening' = [stage |-> "answered", ids |-> opening.ids, started |-> opening.started, time |-> clock,
                   found |-> {r \in messages' : r.id \in IdsOf(Available(me, partner, opening.ids))}]
      BY <2>3 DEF AnswerOpening, OpenAndTell, Open
    <3> QED BY <1>0, <1>1, <2>1, <3>1 DEF RequestFields
  <2> QED BY <1>1, <2>2, <2>3
<1>6. OnlyWhileWatching' /\ NeverStuck'
  <2>1. opening' = Idle \/ opening # Idle
    BY <1>1 DEF AnswerOpening
  <2> QED BY <1>0, <1>1, <1>2, <2>1 DEF OnlyWhileWatching, NeverStuck
<1> QED BY <1>3, <1>4, <1>5, <1>6 DEF Control

-----------------------------------------------------------------------------
(* The session's invariant so far: sound tables, sound control, a sound      *)
(* store and sound copies.                                                   *)

Core == TableInv /\ Control /\ StoreOK /\ CopiesSound

LEMMA CoreInitially == Init => Core
<1> SUFFICES ASSUME Init PROVE Core
  OBVIOUS
<1>1. Control
  BY ControlInitially
<1>2. TableInv
  <2>1. IInv
    BY IInvInit DEF Init
  <2> QED BY <2>1, FS_EmptySet DEF TableInv, NoneToOneself, Init, DbInit
<1>3. StoreOK
  BY DEF Init, StoreOK, StoreSound, Stores, EmptyStore, LoadedIds, Never, Unknown
<1>4. CopiesSound
  <2>1. RowsOf(store) = {}
    BY DEF Init, RowsOf, EmptyStore
  <2>2. Sources = {} /\ Updates = {}
    BY OfNone DEF Init, Sources, PageRows, FoundRows, OlderRows, OpeningRows, Messages, Updates, Idle
  <2>3. Copies = {} /\ OpeningRows = {} /\ PageRows = {} /\ OlderRows = {} /\ FoundRows = {}
    BY <2>1, <2>2 DEF Init, DbInit, Copies, OpeningRows, PageRows, FoundRows, OlderRows, Idle
  <2> QED BY <2>2, <2>3 DEF CopiesSound, Agree, Distinct
<1> QED BY <1>1, <1>2, <1>3, <1>4 DEF Core

LEMMA CoreStep == Core /\ [Next]_vars => Core'
<1> SUFFICES ASSUME Core, [Next]_vars PROVE Core'
  OBVIOUS
<1>0. TableInv /\ Control /\ StoreOK /\ CopiesSound
  BY DEF Core
<1>1. [DbNext]_dbVars
  BY <1>0, TablesStep
<1>2. TableInv' /\ highWater' >= highWater
  BY <1>0, <1>1, TableStep
<1>3. TypeOK /\ TypeOK'
  BY <1>0, <1>2 DEF TableInv, IInv
<1>4. CASE UNCHANGED vars
  <2>1. UNCHANGED <<messages, highWater, clock, posted, work, conn, stream, attentive, store, synced, syncedHere,
                    sync, checkpoint, buffered, decrypting, hasMore, olderCursor, older, opening, ownClear>>
    BY <1>4 DEF vars, dbVars, client, link, syncing, incoming, paging, openings
  <2>2. Control'
    BY <1>0, <2>1 DEF Control, Variables, SyncFields, RequestFields, OnlyWhileWatching, NeverStuck, Number
  <2>3. StoreOK' /\ CopiesSound'
    BY <1>0, <2>1 DEF StoreOK, CopiesSound, Copies, Sources, Updates, Messages, PageRows, FoundRows, OlderRows, OpeningRows
  <2> QED BY <1>2, <2>2, <2>3 DEF Core
<1>5. CASE SessionStep
  <2>1. StoreOK'
    BY <1>0, <1>5, SessionStore DEF StoreEffect
  <2>2. CopiesSound'
    BY <1>0, <1>5, SessionCopies
  <2>3. Control'
    BY <1>0, <1>3, <1>5, <2>1, ControlWhenSession
  <2> QED BY <1>2, <2>1, <2>2, <2>3 DEF Core
<1>6. CASE DatabaseStep
  <2>1. store' = store
    BY <1>6, DatabaseFrame
  <2>2. StoreOK'
    BY <1>0, <2>1 DEF StoreOK
  <2>3. CopiesSound'
    BY <1>0, <1>6, DatabaseCopies
  <2>4. clock' >= clock
    BY <1>1, <1>3, StepTime
  <2>5. Control'
    BY <1>0, <1>2, <1>3, <1>6, <2>4, ControlWhenDatabase
  <2> QED BY <1>2, <2>2, <2>3, <2>5 DEF Core
<1> QED BY <1>4, <1>5, <1>6 DEF Next, DatabaseStep, SessionStep, AnswerStep, UserStep

LEMMA CoreHolds == Spec => []Core
<1>1. Init => Core
  BY CoreInitially
<1>2. Core /\ [Next]_vars => Core'
  BY CoreStep
<1> QED BY <1>1, <1>2, PTL DEF Spec

-----------------------------------------------------------------------------
(* What follows from the core alone.                                         *)

\* A connected and attentive session is synchronized, has a synchronization
\* under way or shows an error to retry: every path of synchronize(), resume(),
\* receive() and the work changes leaves one of these.
THEOREM SessionNeverStuck == Spec => []NeverStuck
<1>1. Core => NeverStuck
  BY DEF Core, Control
<1> QED BY <1>1, CoreHolds, PTL

\* No page, event or buffered event brings back what clearThrough or remove
\* took away.
THEOREM SessionStaysCleared == Spec => []ClearedStayGone
<1>1. Core => ClearedStayGone
  BY DEF Core, StoreOK, StoreSound, ClearedStayGone
<1> QED BY <1>1, CoreHolds, PTL

\* An entry confirmed as opened carries the final lifecycle, and it is the one
\* the server has: no older page or lookup put another in its place.
THEOREM SessionShowsOpened == Spec => []HiddenUntilOpened
<1>1. ASSUME Core PROVE HiddenUntilOpened
  <2> SUFFICES ASSUME NEW e \in store.entries, e.opening = "confirmed"
               PROVE  IsFinal(e.row) /\ \A r \in messages : r.seq = e.row.seq => r = e.row
    BY DEF HiddenUntilOpened
  <2>1. IsFinal(e.row)
    BY <1>1 DEF Core, StoreOK, StoreSound
  <2>2. e.row \in Copies
    BY DEF Copies, RowsOf
  <2>3. ASSUME NEW r \in messages, r.seq = e.row.seq PROVE r = e.row
    <3>1. r \in Copies
      BY DEF Copies
    <3> QED BY <1>1, <2>1, <2>2, <2>3, <3>1 DEF Core, CopiesSound, Agree
  <2> QED BY <2>1, <2>3
<1> QED BY <1>1, CoreHolds, PTL

\* openPending asks the server only in a focused window with a live stream and
\* a synchronized session.
THEOREM SessionOpensWatching == Spec => OpensOnlyWhileWatching
<1>1. ASSUME Core, [Next]_vars, opening = Idle, opening' # Idle
      PROVE  conn /\ attentive /\ synced
  <2> USE DEF link, syncing, incoming, paging, openings, client
  <2>1. CASE OpenPending
    BY <1>1, <2>1 DEF OpenPending, MayOpen, Core, Control, OnlyWhileWatching
  <2>2. UNCHANGED vars => opening' = opening
    BY DEF vars
  <2>3. LinkStep => opening' = Idle
    BY DEF LinkStep, Connect, Disconnect, LoseAttention, RegainAttention, Supersede
  <2>4. ~AnswerOpening /\ ~TakeOpening /\ ~OpeningFails
    BY <1>1 DEF AnswerOpening, TakeOpening, OpeningFails, Idle
  <2>5. ServerStep => opening' = opening
    BY DEF ServerStep, Accept, OpenElsewhere, PartnerClears, SweepExpired, Pass
  <2>6. UserStep \/ FailStep => OpeningFails \/ opening' = opening
    BY DEF UserStep, ClearHere, AskOlder, Retry, RetryOpening, FailStep, SyncFails, OlderFails, ClearFails
  <2>7. AnswerStep => AnswerOpening \/ opening' = opening
    BY DEF AnswerStep, AnswerPage, AnswerLookup, AnswerOlder
  <2>8. ClientStep => OpenPending \/ TakeOpening \/ opening' = opening
    BY DEF ClientStep, TakePage, TakeStates, DrainOne, DrainLookup, Synchronized, BufferEvent, ReceiveMessage,
           ReceiveUpdate, ReceiveClear, Decrypted, ClearAnswered, ExpiryTimer, TakeOlder
  <2> QED BY <1>1, <2>1, <2>2, <2>3, <2>4, <2>5, <2>6, <2>7, <2>8 DEF Next
<1>2. Core /\ [Next]_vars => [opening = Idle /\ opening' # Idle => conn /\ attentive /\ synced]_vars
  BY <1>1
<1> QED BY <1>2, CoreHolds, PTL DEF Spec, OpensOnlyWhileWatching

\* However an opening request ends, by its answer, its failure, a reconnect or
\* a change of focus, confirmOpening, failOpening and cancelOpening leave none
\* of its messages requested.
THEOREM SessionSettlesOpenings == Spec => OpeningsAreSettled
<1>1. ASSUME Core, [Next]_vars, opening # Idle, opening' = Idle, synced \/ link' # link,
             NEW e \in InState(store', "requested")
      PROVE  e.row.id \notin opening.ids
  <2> USE DEF link, syncing, incoming, paging, openings, client
  <2>0. /\ StoreSound(store) /\ opening.stage # "idle" /\ opening.ids \in SUBSET Ids /\ opening.started \in Nat
        /\ e \in store'.entries /\ e.opening = "requested"
        /\ clock \in Nat
    BY <1>1 DEF Core, StoreOK, Control, RequestFields, Idle, InState, TableInv, IInv, TypeOK
  <2>1. ASSUME Supersede(CancelOpening(store)) \/ Supersede(SweepStore(CancelOpening(store), ClientNow(store, clock), FALSE))
        PROVE  e.row.id \notin opening.ids
    <3> DEFINE cancelled == CancelOpening(store)
    <3>1. StoreSound(cancelled) /\ \A f \in cancelled.entries : f.row.id \in Ids => f.opening # "requested"
      BY <2>0, MoveKeeps DEF CancelOpening
    <3> HIDE DEF cancelled
    <3>2. SweepStore(cancelled, ClientNow(store, clock), FALSE).entries \subseteq cancelled.entries
      <4> DEFINE ids == {f.row.id : f \in Swept(cancelled, ClientNow(store, clock), FALSE)}
      <4>1. ids \subseteq Ids
        BY <3>1 DEF Swept, StoreSound, Stores, Entries, Rows
      <4> HIDE DEF ids
      <4>2. RemoveIds(cancelled, ids).entries \subseteq cancelled.entries
        BY <3>1, <4>1, RemoveKeeps
      <4> QED BY <4>2 DEF SweepStore, ids
    <3>3. e \in cancelled.entries
      BY <2>0, <2>1, <3>2 DEF Supersede, cancelled
    <3> QED BY <2>0, <3>1, <3>3
  <2>2. CASE LinkStep
    BY <2>1, <2>2 DEF LinkStep, Connect, Disconnect, LoseAttention, RegainAttention
  <2>3. CASE TakeOpening
    <3>1. /\ opening.stage = "answered" /\ synced
          /\ store' = ConfirmOpening(store, opening.ids, opening.found, opening.time, opening.started)
      BY <1>1, <2>3 DEF TakeOpening
    <3>2. opening.time \in Nat /\ opening.started <= opening.time
      BY <1>1, <2>0, <3>1 DEF Core, Control, RequestFields
    <3>3. OpeningRows = opening.found
      BY <3>1 DEF OpeningRows
    <3>4. RowsOf(store) \cup opening.found \in SUBSET Copies /\ \A q \in opening.found : IsFinal(q)
      BY <1>1, <3>3 DEF Copies, Sources, Core, CopiesSound
    <3>5. Agreed(RowsOf(store) \cup opening.found)
      BY <1>1, <3>4, CopiesAgree DEF Core
    <3> DEFINE t == ConfirmOpening(store, opening.ids, opening.found, opening.time, opening.started)
    <3>6. NoneRequested(t, opening.ids)
      <4>1. /\ StoreSound(store) /\ opening.ids \in SUBSET Ids /\ opening.time \in Nat /\ opening.started \in Nat
            /\ opening.started <= opening.time
        BY <2>0, <3>2
      <4>2. \A q \in opening.found : IsFinal(q)
        BY <3>4
      <4> QED BY <3>5, <4>1, <4>2, ConfirmKeeps
    <3> HIDE DEF t
    <3>7. store' = t
      BY <3>1 DEF t
    <3> QED BY <2>0, <3>6, <3>7 DEF NoneRequested
  <2>4. CASE OpeningFails
    <3>1. store' = Move(store, opening.ids, "requested", "failed")
      BY <2>4 DEF OpeningFails, FailOpening
    <3>2. \A f \in Move(store, opening.ids, "requested", "failed").entries :
             f.row.id \in opening.ids => f.opening # "requested"
      BY <2>0, MoveKeeps
    <3> QED BY <2>0, <3>1, <3>2
  <2>5. ~AnswerOpening /\ ~OpenPending /\ opening' # opening
    BY <1>1 DEF AnswerOpening, OpenPending, Idle
  <2>6. UNCHANGED vars => opening' = opening
    BY DEF vars
  <2>7. ServerStep => opening' = opening
    BY DEF ServerStep, Accept, OpenElsewhere, PartnerClears, SweepExpired, Pass
  <2>8. UserStep \/ FailStep => OpeningFails \/ opening' = opening
    BY DEF UserStep, ClearHere, AskOlder, Retry, RetryOpening, FailStep, SyncFails, OlderFails, ClearFails
  <2>9. AnswerStep => AnswerOpening \/ opening' = opening
    BY DEF AnswerStep, AnswerPage, AnswerLookup, AnswerOlder
  <2>10. ClientStep => OpenPending \/ TakeOpening \/ opening' = opening
    BY DEF ClientStep, TakePage, TakeStates, DrainOne, DrainLookup, Synchronized, BufferEvent, ReceiveMessage,
           ReceiveUpdate, ReceiveClear, Decrypted, ClearAnswered, ExpiryTimer, TakeOlder
  <2> QED BY <1>1, <2>2, <2>3, <2>4, <2>5, <2>6, <2>7, <2>8, <2>9, <2>10 DEF Next
<1>2. Core /\ [Next]_vars =>
        [opening # Idle /\ opening' = Idle /\ (synced \/ link' # link) =>
           \A e \in InState(store', "requested") : e.row.id \notin opening.ids]_vars
  BY <1>1
<1> QED BY <1>2, CoreHolds, PTL DEF Spec, OpeningsAreSettled

-----------------------------------------------------------------------------
(* Currency of the copies.                                                   *)

\* A copy is as current as an earlier version of the same message.
LEMMA LaterIsCurrent ==
    ASSUME CopiesSound, NEW v \in Copies, NEW w \in Copies, v.id = w.id, IsFinal(v) => w = v, Current(v)
    PROVE  Current(w)
<1>1. /\ v \in Rows /\ w \in Rows /\ v.seq = w.seq /\ v.created = w.created
      /\ ~IsFinal(v) /\ ~IsFinal(w) => v = w
  <2>1. Agreed(Copies)
    BY CopiesAgree
  <2>2. ~IsFinal(v) /\ ~IsFinal(w) => v = w
    BY <2>1, UnopenedAgree
  <2> QED BY <2>2 DEF CopiesSound, Agree, SameEnvelope
<1>2. CASE w = v
  BY <1>2
<1>3. CASE ~IsFinal(v) /\ IsFinal(w)
  <2>1. v \in messages => v = w
    BY <1>3 DEF CopiesSound
  <2>2. Latest(v) => w = v
    BY <1>3 DEF Latest
  <2>3. NoRow(v) => NoRow(w)
    BY DEF NoRow
  <2>4. ClearAhead(v) => ClearAhead(w)
    BY <1>1 DEF ClearAhead
  <2>5. UpdateAhead(v) => UpdateAhead(w)
    BY DEF UpdateAhead
  <2> QED BY <1>1, <1>3, <2>1, <2>2, <2>3, <2>4, <2>5 DEF Current, Exact
<1> QED BY <1>1, <1>2, <1>3

\* How a step on the connection changes what the session has: clears and
\* updates leave the stream only for the store, and an entry becomes current
\* only if it was or an arriving row made it so.
Applied(event) == event.at <= store'.cleared
Reached(u) == u.id \in store'.removed \/ u \in RowsOf(store')
ClearsGetThrough ==
    \A i \in DOMAIN stream : stream[i].type = "conversation-cleared" =>
        (\E j \in DOMAIN stream' : stream'[j] = stream[i]) \/ Applied(stream[i])
UpdatesGetThrough == \A u \in Updates : u \in Updates' \/ Reached(u)
Refreshes ==
    \A e \in store'.entries : RefreshedAt(e.row.id)' =>
        \/ RefreshedAt(e.row.id) /\ e.row.id \in LoadedIds(store)
        \/ \E r \in Sources : r.id = e.row.id /\ (IsFinal(r) => e.row = r)

Moves ==
    /\ UNCHANGED <<messages, clock>> /\ stale \subseteq stale'
    /\ Copies' \subseteq Copies /\ Sources' \subseteq Sources \cup messages /\ Updates' \subseteq Updates
    /\ StoreOK /\ StoreEffect
    /\ ClearsGetThrough /\ UpdatesGetThrough /\ Refreshes

LEMMA DroppedStays ==
    ASSUME Moves, NEW v \in Rows, Dropped(v)
    PROVE  Dropped(v)'
<1>1. store.removed \subseteq store'.removed /\ store.cleared <= store'.cleared
  BY DEF Moves, StoreEffect, Evolves
<1>2. v.created \in Nat /\ store.cleared \in Int /\ store'.cleared \in Int
  BY DEF Rows, Moves, StoreEffect, StoreOK, StoreSound, Stores, Never
<1> QED BY <1>1, <1>2 DEF Dropped

LEMMA ExactStays ==
    ASSUME Variables, Moves, CopiesSound, NEW v \in Copies, Exact(v)
    PROVE  Exact(v)' \/ Dropped(v)'
<1>1. NoRow(v) => NoRow(v)'
  BY DEF NoRow, Moves
<1>2. Latest(v) => Latest(v)'
  BY DEF Latest, Moves
<1>3. ASSUME ClearAhead(v) PROVE ClearAhead(v)' \/ Dropped(v)'
  <2>1. PICK i \in DOMAIN stream : stream[i].type = "conversation-cleared" /\ v.created <= stream[i].at
    BY <1>3 DEF ClearAhead
  <2>2. CASE \E j \in DOMAIN stream' : stream'[j] = stream[i]
    BY <2>1, <2>2 DEF ClearAhead
  <2>3. CASE Applied(stream[i])
    <3>1. stream[i] \in RowEvents \cup Clearances
      BY DEF Variables
    <3>2. stream[i].at \in Nat
      BY <2>1, <3>1 DEF RowEvents, Clearances
    <3>3. v.created \in Nat /\ store'.cleared \in Int
      BY DEF CopiesSound, Rows, Moves, StoreEffect, StoreOK, StoreSound, Stores, Never
    <3> QED BY <2>1, <2>3, <3>2, <3>3 DEF Applied, Dropped
  <2> QED BY <2>1, <2>2, <2>3 DEF Moves, ClearsGetThrough
<1>4. UNCHANGED <<messages, clock>> /\ stale \subseteq stale'
  BY DEF Moves
<1> QED BY <1>1, <1>2, <1>3, <1>4 DEF Exact

\* What the store had final it still has, unless it was removed.
LEMMA FinalStays ==
    ASSUME Moves, NEW q \in RowsOf(store), IsFinal(q)
    PROVE  q.id \in store'.removed \/ q \in RowsOf(store')
<1>1. Evolves(store, store', Sources \cup Updates)
  BY DEF Moves, StoreEffect
<1>2. CASE q \in store.early
  BY <1>1, <1>2 DEF Evolves
<1>3. CASE \E e \in store.entries : e.row = q
  BY <1>1, <1>3 DEF Evolves, Holds, RowsOf
<1> QED BY <1>2, <1>3 DEF RowsOf

\* What the store has of a loaded message is its entry.
LEMMA LoadedRow ==
    ASSUME NEW s, StoreSound(s), NEW e \in s.entries, NEW q \in RowsOf(s), q.id = e.row.id
    PROVE  e.row = q
BY DEF StoreSound, RowsOf, LoadedIds

LEMMA UpdateStays ==
    ASSUME Variables, Moves, CopiesSound, UpdatesExact, NEW v \in Copies, UpdateAhead(v)
    PROVE  \/ UpdateAhead(v)' \/ Dropped(v)'
           \/ \E q \in RowsOf(store') : q.id = v.id /\ IsFinal(q) /\ Exact(q)'
<1>1. PICK u \in Updates : u.id = v.id
  BY DEF UpdateAhead
<1>2. u \in Copies /\ u.created = v.created /\ IsFinal(u)
  BY <1>1 DEF Copies, CopiesSound, Agree, SameEnvelope
<1>3. CASE u \in Updates'
  BY <1>1, <1>3 DEF UpdateAhead
<1>4. CASE u.id \in store'.removed
  BY <1>1, <1>4 DEF Dropped
<1>5. CASE u \in RowsOf(store')
  <2>1. Exact(u)' \/ Dropped(u)'
    <3>1. Exact(u) \/ Dropped(u)
      BY DEF UpdatesExact
    <3>2. u \in Rows
      BY <1>2 DEF CopiesSound
    <3> QED BY <1>2, <3>1, <3>2, ExactStays, DroppedStays
  <2>2. Dropped(u)' => Dropped(v)'
    BY <1>1, <1>2 DEF Dropped
  <2> QED BY <1>1, <1>2, <1>5, <2>1, <2>2
<1> QED BY <1>3, <1>4, <1>5 DEF Moves, UpdatesGetThrough, Reached

LEMMA SourcesStay ==
    ASSUME Variables, Moves, CopiesSound, Currency
    PROVE  SourcesCurrent' /\ UpdatesExact'
<1>1. ASSUME NEW u \in Updates' PROVE Exact(u)' \/ Dropped(u)'
  <2>1. u \in Updates /\ u \in Copies /\ u \in Rows
    BY DEF Moves, Copies, CopiesSound
  <2> QED BY <2>1, ExactStays, DroppedStays DEF Currency, UpdatesExact
<1>2. ASSUME NEW v \in Sources' PROVE Current(v)' \/ Dropped(v)' \/ Superseded(v)'
  <2>1. CASE v \in messages
    BY <2>1 DEF Moves, Current, Exact
  <2>2. CASE v \in Sources
    <3>1. v \in Copies /\ v \in Rows
      BY <2>2 DEF Copies, CopiesSound
    <3>2. CASE Exact(v)
      BY <3>1, <3>2, ExactStays DEF Current
    <3>3. CASE UpdateAhead(v)
      BY <3>1, <3>3, UpdateStays DEF Currency, Current, Superseded
    <3>4. CASE Dropped(v)
      BY <3>1, <3>4, DroppedStays
    <3>5. CASE Superseded(v)
      <4>1. PICK q \in RowsOf(store) : q.id = v.id /\ IsFinal(q) /\ Exact(q)
        BY <3>5 DEF Superseded
      <4>2. q.id \in store'.removed \/ q \in RowsOf(store')
        BY <4>1, FinalStays
      <4>3. q \in Copies /\ q.created = v.created
        BY <3>1, <4>1 DEF Copies, CopiesSound, Agree, SameEnvelope
      <4>4. Exact(q)' \/ Dropped(q)'
        BY <4>1, <4>3, ExactStays
      <4>5. Dropped(q)' => Dropped(v)'
        BY <4>1, <4>3 DEF Dropped
      <4>6. q.id \in store'.removed => Dropped(v)'
        BY <4>1 DEF Dropped
      <4> QED BY <4>1, <4>2, <4>4, <4>5, <4>6 DEF Superseded
    <3> QED BY <2>2, <3>2, <3>3, <3>4, <3>5 DEF Currency, SourcesCurrent, Current
  <2> QED BY <2>1, <2>2 DEF Moves
<1> QED BY <1>1, <1>2 DEF SourcesCurrent, UpdatesExact

LEMMA EntriesStay ==
    ASSUME Variables, Moves, CopiesSound, Currency
    PROVE  EntriesCurrent'
<1> SUFFICES ASSUME NEW e \in store'.entries, RefreshedAt(e.row.id)'
             PROVE  Current(e.row)'
  BY DEF EntriesCurrent
<1> DEFINE w == e.row
<1>1. StoreSound(store) /\ StoreSound(store') /\ Evolves(store, store', Sources \cup Updates)
  BY DEF Moves, StoreOK, StoreEffect
<1>2. w \in RowsOf(store')
  BY DEF RowsOf
<1>3. w \in Copies /\ w \in Rows /\ w \in Copies'
  <2>1. w \in Copies'
    BY <1>2 DEF Copies
  <2> QED BY <2>1 DEF Moves, CopiesSound
<1>4. ~Dropped(w)' /\ w.id \notin store'.removed
  <2>1. w.created > store'.cleared /\ w.id \notin store'.removed
    BY <1>1 DEF StoreSound
  <2>2. w.created \in Nat /\ store'.cleared \in Int
    BY <1>1, <1>3 DEF Rows, StoreSound, Stores, Never
  <2> QED BY <2>1, <2>2 DEF Dropped
\* A current copy of the entry stays current.
<1>5. ASSUME Current(w) PROVE Current(w)'
  <2>1. CASE Exact(w)
    BY <1>3, <1>4, <2>1, ExactStays DEF Current
  <2>2. CASE UpdateAhead(w)
    <3>1. CASE \E q \in RowsOf(store') : q.id = w.id /\ IsFinal(q) /\ Exact(q)'
      <4>1. PICK q \in RowsOf(store') : q.id = w.id /\ Exact(q)'
        BY <3>1
      <4>2. q = w
        BY <1>1, <4>1, LoadedRow
      <4> QED BY <4>1, <4>2 DEF Current
    <3> QED BY <1>3, <1>4, <2>2, <3>1, UpdateStays DEF Currency, Current
  <2> QED BY <1>5, <2>1, <2>2 DEF Current
<1> HIDE DEF w
<1>6. CASE RefreshedAt(w.id) /\ w.id \in LoadedIds(store)
  <2>1. PICK f \in store.entries : f.row.id = w.id
    BY <1>6 DEF LoadedIds
  <2>2. f.row \in Copies /\ Current(f.row)
    BY <1>6, <2>1 DEF Copies, RowsOf, Currency, EntriesCurrent
  <2>3. IsFinal(f.row) => w = f.row
    <3>1. Holds(store', f.row)
      BY <1>1, <1>4, <2>1 DEF Evolves
    <3>2. PICK g \in store'.entries : g.row.id = f.row.id /\ (IsFinal(f.row) => g.row = f.row)
      BY <3>1 DEF Holds
    <3>3. g.row = w
      BY <1>1, <2>1, <3>2 DEF StoreSound, w
    <3> QED BY <3>2, <3>3
  <2> DEFINE v == f.row
  <2>4. v \in Copies /\ v.id = w.id /\ Current(v) /\ (IsFinal(v) => w = v)
    BY <2>1, <2>2, <2>3
  <2> HIDE DEF v
  <2>5. Current(w)
    BY <1>3, <2>4, LaterIsCurrent
  <2> QED BY <1>5, <2>5 DEF w
<1>7. ASSUME NEW r \in Sources, r.id = w.id, IsFinal(r) => w = r PROVE Current(w)'
  <2>1. r \in Copies /\ r \in Rows /\ r.created = w.created
    BY <1>3, <1>7 DEF Copies, CopiesSound, Agree, SameEnvelope
  <2>2. CASE Current(r)
    BY <1>3, <1>5, <1>7, <2>1, <2>2, LaterIsCurrent
  <2>3. CASE Dropped(r)
    <3>1. Dropped(r)'
      BY <2>1, <2>3, DroppedStays
    <3> QED BY <1>4, <1>7, <2>1, <3>1 DEF Dropped
  <2>4. CASE Superseded(r)
    <3>1. PICK q \in RowsOf(store) : q.id = r.id /\ IsFinal(q) /\ Exact(q)
      BY <2>4 DEF Superseded
    <3>2. q \in RowsOf(store')
      BY <1>4, <1>7, <3>1, FinalStays
    <3>3. w = q
      BY <1>1, <1>7, <3>1, <3>2, LoadedRow DEF w
    <3> QED BY <1>5, <3>1, <3>3 DEF Current
  <2> QED BY <1>7, <2>2, <2>3, <2>4 DEF Currency, SourcesCurrent
<1> QED BY <1>6, <1>7 DEF Moves, Refreshes, w

\* What a step of the server sends is in its table.
LEMMA DatabaseFlow ==
    ASSUME Control, TableInv, DatabaseStep
    PROVE  /\ Messages \subseteq Messages' /\ Messages' \subseteq Messages \cup messages'
           /\ Updates \subseteq Updates' /\ Updates' \subseteq Updates \cup messages'
           /\ Sources' \subseteq Sources \cup messages'
           /\ Prefixed
<1>0. /\ Variables /\ RequestFields /\ me \in Addresses /\ partner \in Addresses
      /\ UNCHANGED <<store, sync, decrypting, older, buffered>>
      /\ AnswerOpening \/ opening' = opening
  BY DatabaseFrame, SessionAssumption DEF Control, link, syncing, incoming, paging
<1>1. /\ Messages \subseteq Messages' /\ Messages' \subseteq Messages \cup messages'
      /\ Updates \subseteq Updates' /\ Updates' \subseteq Updates \cup messages'
      /\ Prefixed
  <2>1. ASSUME NEW a \in Addresses, NEW b \in Addresses, NEW ids \in SUBSET Ids, OpenAndTell(a, b, ids)
        PROVE  /\ Messages' = Messages /\ Updates \subseteq Updates' /\ Updates' \subseteq Updates \cup messages'
               /\ Prefixed
    <3>1. /\ Open(a, b, ids) /\ Messages' = Messages /\ Updates \subseteq Updates' /\ Prefixed
          /\ Updates' \subseteq Updates \cup OpenedBy(a, b, ids)
      BY <1>0, <2>1, OpeningTells
    <3>2. OpenedBy(a, b, ids) \subseteq messages'
      BY <3>1, OpeningWrites
    <3> QED BY <3>1, <3>2
  <2>2. ASSUME NEW e \in Envelopes, Accept(e)
        PROVE  /\ Messages \subseteq Messages' /\ Messages' \subseteq Messages \cup messages' /\ Updates' = Updates
               /\ Prefixed
    <3> DEFINE row == AcceptedRow(e, NextSeq, clock)
    <3>1. /\ Messages \subseteq Messages' /\ Messages' \subseteq Messages \cup {row} /\ Updates' = Updates
          /\ messages' = messages \cup {row} /\ Prefixed
      BY <1>0, <2>2, AcceptingTells
    <3> QED BY <3>1
  <2>3. ASSUME PartnerClears \/ ClearHere
        PROVE  Messages' = Messages /\ Updates' = Updates /\ Prefixed
    BY <1>0, <2>3, ClearingTells DEF PartnerClears, ClearHere
  <2>4. ASSUME SweepExpired \/ Pass
        PROVE  Messages' = Messages /\ Updates' = Updates /\ Prefixed
    BY <1>0, <2>4 DEF SweepExpired, Pass, Messages, Updates, Prefixed
  <2>5. ASSUME NEW a \in Addresses, NEW b \in Addresses, OpenElsewhere(a, b)
        PROVE  /\ Messages' = Messages /\ Updates \subseteq Updates' /\ Updates' \subseteq Updates \cup messages'
               /\ Prefixed
    BY <2>1, <2>5, SomeoneOpens
  <2>6. ASSUME AnswerOpening
        PROVE  /\ Messages' = Messages /\ Updates \subseteq Updates' /\ Updates' \subseteq Updates \cup messages'
               /\ Prefixed
    <3>1. opening.ids \in SUBSET Ids /\ OpenAndTell(me, partner, opening.ids)
      BY <1>0, <2>6 DEF AnswerOpening, RequestFields
    <3> QED BY <1>0, <2>1, <3>1
  <2> QED BY <1>0, <2>2, <2>3, <2>4, <2>5, <2>6 DEF DatabaseStep, ServerStep
<1>2. OpeningRows' \subseteq OpeningRows \cup messages'
  <2>1. CASE AnswerOpening
    BY <2>1 DEF AnswerOpening, OpeningRows
  <2>2. CASE opening' = opening
    BY <2>2 DEF OpeningRows
  <2> QED BY <1>0, <2>1, <2>2
<1>3. PageRows' = PageRows /\ OlderRows' = OlderRows /\ FoundRows' = FoundRows /\ decrypting' = decrypting
  BY <1>0 DEF PageRows, OlderRows, FoundRows
<1> QED BY <1>1, <1>2, <1>3 DEF Sources

\* A step of the server brings no deleted row back.
LEMMA NoRowStays ==
    ASSUME Control, TableInv, CopiesSound, DatabaseStep, NEW v \in Copies, NoRow(v)
    PROVE  NoRow(v)'
<1>0. Variables /\ me \in Addresses /\ partner \in Addresses
  BY SessionAssumption DEF Control
<1>1. ASSUME NEW a \in Addresses, NEW b \in Addresses, NEW ids \in SUBSET Ids, Open(a, b, ids)
      PROVE  NoRow(v)'
  <2>1. /\ messages' = (messages \ Fresh(a, b, ids)) \cup OpenedBy(a, b, ids)
        /\ Fresh(a, b, ids) \subseteq messages
        /\ \A r \in Fresh(a, b, ids) : SameEnvelope(OpenedRow(r, clock), r)
    BY <1>1, OpeningWrites
  <2> QED BY <2>1 DEF NoRow, OpenedBy, SameEnvelope
<1>2. ASSUME NEW e \in Envelopes, Accept(e) PROVE NoRow(v)'
  <2> DEFINE row == AcceptedRow(e, NextSeq, clock)
  <2>1. row.id \notin posted /\ messages' = messages \cup {row}
    BY <1>0, <1>2, AcceptingTells
  <2>2. v.id \in posted
    BY DEF CopiesSound
  <2> QED BY <2>1, <2>2 DEF NoRow
<1>3. ASSUME PartnerClears \/ ClearHere \/ SweepExpired \/ Pass PROVE NoRow(v)'
  <2>1. messages' \subseteq messages
    BY <1>3 DEF PartnerClears, ClearHere, SweepExpired, Pass, Clear, Sweep, Tick
  <2> QED BY <2>1 DEF NoRow
<1>4. ASSUME NEW a \in Addresses, NEW b \in Addresses, OpenElsewhere(a, b) PROVE NoRow(v)'
  BY <1>1, <1>4, SomeoneOpens DEF OpenAndTell
<1>5. ASSUME AnswerOpening PROVE NoRow(v)'
  <2>1. opening.ids \in SUBSET Ids /\ Open(me, partner, opening.ids)
    BY <1>5 DEF AnswerOpening, OpenAndTell, Control, RequestFields
  <2> QED BY <1>0, <1>1, <2>1
<1> QED BY <1>0, <1>2, <1>3, <1>4, <1>5 DEF DatabaseStep, ServerStep

\* A copy stays exact, or the update that replaces it is on its way.
LEMMA ExactOnServer ==
    ASSUME Control, TableInv, CopiesSound, DatabaseStep, conn, clock' >= clock, clock' \in Nat, NEW v \in Copies, Exact(v)
    PROVE  Exact(v)' \/ (~IsFinal(v) /\ UpdateAhead(v)')
<1>0. /\ Variables /\ me \in Addresses /\ partner \in Addresses /\ messages \subseteq Rows /\ clock \in Nat
      /\ v \in Rows
  BY SessionAssumption DEF Control, TableInv, IInv, TypeOK, CopiesSound
<1>1. /\ UNCHANGED <<store, buffered, conn, stale>> /\ Prefixed
      /\ Sources' \subseteq Sources \cup messages' /\ Updates' \subseteq Updates \cup messages'
  BY DatabaseFrame, DatabaseFlow DEF link, incoming, observed
<1>2. Copies' \subseteq Copies \cup messages'
  BY <1>1 DEF Copies
<1>3. ASSUME NoRow(v)', Latest(v) PROVE Latest(v)'
  BY <1>2, <1>3 DEF NoRow, Latest
<1>4. ClearAhead(v) => ClearAhead(v)'
  BY <1>1 DEF ClearAhead, Prefixed
<1>5. CASE NoRow(v) \/ v.seq \in stale
  <2>1. NoRow(v) => NoRow(v)'
    BY NoRowStays
  <2>2. v.expires <= clock => v.expires <= clock'
    BY <1>0 DEF Rows
  <2>3. CASE v.seq \in stale
    BY <1>1, <2>3 DEF Exact
  <2>4. CASE NoRow(v) /\ v.expires <= clock /\ Latest(v)
    BY <1>3, <2>1, <2>2, <2>4 DEF Exact
  <2>5. CASE NoRow(v) /\ ClearAhead(v)
    BY <1>4, <2>1, <2>5 DEF Exact
  <2>6. CASE v \in messages
    BY <1>5, <2>3, <2>6 DEF NoRow
  <2> QED BY <2>3, <2>4, <2>5, <2>6 DEF Exact
<1>6. ASSUME v \in messages, v \notin messages' PROVE Exact(v)' \/ (~IsFinal(v) /\ UpdateAhead(v)')
  <2>0. \A r \in messages : r.id = v.id => r = v
    BY <1>6 DEF TableInv, IInv, RowsAreSound, KeysAreUnique
  <2>1. ASSUME NEW a \in Addresses, NEW b \in Addresses, NEW ids \in SUBSET Ids, OpenAndTell(a, b, ids)
        PROVE  ~IsFinal(v) /\ UpdateAhead(v)'
    <3>1. Open(a, b, ids) /\ OpenedBy(a, b, ids) \subseteq Updates'
      BY <1>0, <1>1, <2>1, OpeningTells
    <3>2. /\ messages' = (messages \ Fresh(a, b, ids)) \cup OpenedBy(a, b, ids)
          /\ \A r \in Fresh(a, b, ids) : ~IsFinal(r) /\ SameEnvelope(OpenedRow(r, clock), r)
      BY <3>1, OpeningWrites
    <3>3. v \in Fresh(a, b, ids)
      BY <1>6, <3>2
    <3>4. OpenedRow(v, clock) \in Updates' /\ OpenedRow(v, clock).id = v.id
      BY <3>1, <3>2, <3>3 DEF OpenedBy, SameEnvelope
    <3> QED BY <3>2, <3>3, <3>4 DEF UpdateAhead
  <2>2. ASSUME NEW e \in Envelopes, Accept(e) PROVE FALSE
    BY <1>0, <1>6, <2>2, AcceptingTells
  <2>3. ASSUME PartnerClears \/ ClearHere PROVE Exact(v)'
    <3>1. /\ messages' \subseteq messages /\ v.created <= clock
          /\ Tell(<<Clearance(clock)>>)
      BY <1>6, <2>3 DEF PartnerClears, ClearHere, Clear, Cleared
    <3>2. \E i \in DOMAIN stream' : stream'[i] = Clearance(clock)
      BY <1>0, <1>1, <3>1, ClearingTells
    <3>3. ClearAhead(v)'
      BY <3>1, <3>2 DEF ClearAhead, Clearance
    <3>4. NoRow(v)'
      BY <1>6, <2>0, <3>1 DEF NoRow
    <3> QED BY <3>3, <3>4 DEF Exact
  <2>4. ASSUME SweepExpired PROVE Exact(v)'
    <3>1. messages' = messages \ Expired(messages) /\ clock' = clock
      BY <2>4 DEF SweepExpired, Sweep
    <3>2. v.expires <= clock'
      BY <1>6, <3>1 DEF Expired
    <3>3. NoRow(v)'
      BY <1>6, <2>0, <3>1 DEF NoRow
    <3>4. Latest(v)
      BY <1>6 DEF CopiesSound, Latest
    <3> QED BY <1>3, <3>2, <3>3, <3>4 DEF Exact
  <2>5. ~Pass
    BY <1>6 DEF Pass, Tick
  <2>6. ASSUME NEW a \in Addresses, NEW b \in Addresses, OpenElsewhere(a, b) PROVE ~IsFinal(v) /\ UpdateAhead(v)'
    BY <2>1, <2>6, SomeoneOpens
  <2>7. ASSUME AnswerOpening PROVE ~IsFinal(v) /\ UpdateAhead(v)'
    <3>1. opening.ids \in SUBSET Ids /\ OpenAndTell(me, partner, opening.ids)
      BY <2>7 DEF AnswerOpening, Control, RequestFields
    <3> QED BY <1>0, <2>1, <3>1
  <2> QED BY <1>0, <2>2, <2>3, <2>4, <2>5, <2>6, <2>7 DEF DatabaseStep, ServerStep
<1>7. v \in messages' => Exact(v)'
  BY DEF Exact
<1> QED BY <1>5, <1>6, <1>7 DEF Exact

LEMMA CurrencyOnServer ==
    ASSUME Control, TableInv, CopiesSound, StoreOK, Currency, DatabaseStep, conn, clock' >= clock, clock' \in Nat
    PROVE  Currency'
<1>1. /\ UNCHANGED <<store, buffered, conn, stale, sync, syncedHere>>
      /\ Sources' \subseteq Sources \cup messages' /\ Updates \subseteq Updates' /\ Updates' \subseteq Updates \cup messages'
  BY DatabaseFrame, DatabaseFlow DEF link, incoming, observed, syncing
<1>2. \A v : (Dropped(v) => Dropped(v)') /\ (UpdateAhead(v) => UpdateAhead(v)')
  BY <1>1 DEF Dropped, UpdateAhead
<1>3. ASSUME NEW v \in Copies, Exact(v) PROVE Current(v)' /\ (IsFinal(v) => Exact(v)')
  BY <1>3, ExactOnServer DEF Current
<1>4. \A v \in messages' : Exact(v)'
  BY DEF Exact
<1>5. ASSUME NEW v \in Sources' PROVE Current(v)' \/ Dropped(v)' \/ Superseded(v)'
  <2>1. CASE v \in messages'
    BY <1>4, <2>1 DEF Current
  <2>2. CASE v \in Sources
    <3>1. v \in Copies
      BY <2>2 DEF Copies
    <3>2. CASE Superseded(v)
      <4>1. PICK q \in RowsOf(store) : q.id = v.id /\ IsFinal(q) /\ Exact(q)
        BY <3>2 DEF Superseded
      <4>2. q \in Copies
        BY DEF Copies
      <4>3. Exact(q)'
        BY <1>3, <4>1, <4>2
      <4>4. q \in RowsOf(store')
        BY <1>1
      <4> QED BY <4>1, <4>3, <4>4 DEF Superseded
    <3> QED BY <1>2, <1>3, <2>2, <3>1, <3>2 DEF Currency, SourcesCurrent, Current
  <2> QED BY <1>1, <2>1, <2>2
<1>6. ASSUME NEW u \in Updates' PROVE Exact(u)' \/ Dropped(u)'
  <2>1. CASE u \in messages'
    BY <1>4, <2>1
  <2>2. CASE u \in Updates
    <3>1. u \in Copies /\ IsFinal(u)
      BY <2>2 DEF Copies, CopiesSound
    <3> QED BY <1>2, <1>3, <2>2, <3>1 DEF Currency, UpdatesExact
  <2> QED BY <1>1, <2>1, <2>2
<1>7. ASSUME NEW e \in store'.entries, RefreshedAt(e.row.id)' PROVE Current(e.row)'
  <2>1. e \in store.entries /\ RefreshedAt(e.row.id)
    BY <1>1, <1>7 DEF RefreshedAt
  <2>2. e.row \in Copies /\ Current(e.row)
    BY <2>1 DEF Copies, RowsOf, Currency, EntriesCurrent
  <2> DEFINE w == e.row
  <2>3. w \in Copies /\ Current(w)
    BY <2>2
  <2> HIDE DEF w
  <2>4. Current(w)'
    BY <1>2, <1>3, <2>3 DEF Current
  <2> QED BY <2>4 DEF w
<1>8. BufferedStale'
  BY <1>1 DEF Currency, BufferedStale
<1> QED BY <1>5, <1>6, <1>7, <1>8 DEF Currency, SourcesCurrent, UpdatesExact, EntriesCurrent

\* Off the connection nothing is current but what is known to be stale.
Unplugged == ~syncedHere /\ sync.stage \in {"idle", "ask"} /\ Sources \cup Updates \subseteq {v \in Rows : v.seq \in stale}

LEMMA CurrencyUnplugged == Unplugged /\ BufferedStale => Currency
<1> SUFFICES ASSUME Unplugged, BufferedStale PROVE Currency
  OBVIOUS
<1>1. \A v \in Sources \cup Updates : Exact(v)
  BY DEF Unplugged, Exact
<1>2. EntriesCurrent
  BY DEF Unplugged, RefreshedAt, EntriesCurrent
<1> QED BY <1>1, <1>2 DEF Currency, SourcesCurrent, UpdatesExact, Current

\* The events of a stream are its first one and the rest.
LEMMA HeadOrTail ==
    ASSUME NEW T, NEW events \in Seq(T), events # <<>>, NEW i \in DOMAIN events
    PROVE  events[i] = Head(events) \/ \E j \in DOMAIN Tail(events) : Tail(events)[j] = events[i]
<1>1. /\ Len(events) \in Nat /\ Len(events) > 0 /\ i \in 1..Len(events) /\ DOMAIN events = 1..Len(events)
      /\ Head(events) = events[1]
  OBVIOUS
<1>2. CASE i = 1
  BY <1>1, <1>2
<1>3. CASE i > 1
  <2>1. /\ DOMAIN Tail(events) = 1..(Len(events) - 1)
        /\ Tail(events)[i - 1] = events[i]
    BY <1>1, <1>3
  <2>2. i - 1 \in 1..(Len(events) - 1)
    BY <1>1, <1>3
  <2> QED BY <2>1, <2>2
<1> QED BY <1>1, <1>2, <1>3

\* No event but those a step applies to the store is lost.
LEMMA EventsGetThrough ==
    ASSUME Control, StoreOK, CopiesSound, SessionStep, ~Disconnect, ~Connect
    PROVE  ClearsGetThrough /\ UpdatesGetThrough
<1>0. Variables
  BY DEF Control
<1>1. ASSUME stream' = stream, buffered' = buffered PROVE ClearsGetThrough /\ UpdatesGetThrough
  BY <1>1 DEF ClearsGetThrough, UpdatesGetThrough, Updates
<1>2. ASSUME stream # <<>>, stream' = Tail(stream), Head(stream).type # "conversation-cleared"
      PROVE  ClearsGetThrough
  <2> SUFFICES ASSUME NEW i \in DOMAIN stream, stream[i].type = "conversation-cleared"
               PROVE  \E j \in DOMAIN stream' : stream'[j] = stream[i]
    BY DEF ClearsGetThrough
  <2>1. stream[i] = Head(stream) \/ \E j \in DOMAIN Tail(stream) : Tail(stream)[j] = stream[i]
    BY <1>0, <1>2, HeadOrTail DEF Variables
  <2> QED BY <1>2, <2>1
<1>3. ASSUME BufferEvent PROVE ClearsGetThrough /\ UpdatesGetThrough
  <2>1. /\ stream # <<>> /\ Head(stream).type # "conversation-cleared"
        /\ stream' = Tail(stream) /\ buffered' = Append(buffered, Head(stream))
    BY <1>3 DEF BufferEvent
  <2>2. Head(stream) \in RowEvents
    BY <1>0, <2>1, OfTail DEF Variables, RowEvents, Clearances
  <2>3. /\ Of(stream, {"expiry-update"}) = Of(stream', {"expiry-update"})
               \cup (IF Head(stream).type \in {"expiry-update"} THEN {Head(stream).row} ELSE {})
        /\ Of(buffered', {"expiry-update"}) = Of(buffered, {"expiry-update"})
               \cup (IF Head(stream).type \in {"expiry-update"} THEN {Head(stream).row} ELSE {})
    BY <1>0, <2>1, <2>2, OfTail, OfAppend DEF Variables
  <2>4. Updates \subseteq Updates'
    BY <2>3 DEF Updates
  <2> QED BY <1>2, <2>1, <2>4 DEF UpdatesGetThrough
<1>4. ASSUME ReceiveMessage PROVE ClearsGetThrough /\ UpdatesGetThrough
  <2>1. /\ stream # <<>> /\ Head(stream).type = "message" /\ stream' = Tail(stream) /\ buffered' = buffered
    BY <1>4 DEF ReceiveMessage
  <2>2. Of(stream, {"expiry-update"}) = Of(stream', {"expiry-update"})
    <3>1. Head(stream).type \notin {"expiry-update"}
      BY <2>1
    <3>2. Of(stream, {"expiry-update"}) = Of(Tail(stream), {"expiry-update"})
            \cup (IF Head(stream).type \in {"expiry-update"} THEN {Head(stream).row} ELSE {})
      BY <1>0, <2>1, OfTail DEF Variables
    <3> QED BY <2>1, <3>1, <3>2
  <2> QED BY <1>2, <2>1, <2>2 DEF UpdatesGetThrough, Updates
<1>5. ASSUME ReceiveUpdate PROVE ClearsGetThrough /\ UpdatesGetThrough
  <2>1. /\ stream # <<>> /\ Head(stream).type = "expiry-update" /\ stream' = Tail(stream) /\ buffered' = buffered
        /\ store' = ApplyLifecycle(store, Head(stream).row)
    BY <1>5 DEF ReceiveUpdate, incoming
  <2>2. Of(stream, {"expiry-update"}) = Of(stream', {"expiry-update"}) \cup {Head(stream).row}
    BY <1>0, <2>1, OfTail DEF Variables
  <2>3. Head(stream).row \in Updates
    BY <2>2 DEF Updates
  <2>4. Reached(Head(stream).row)
    BY <2>1, <2>3, UpdateStep DEF Reached
  <2> QED BY <1>2, <2>1, <2>2, <2>4 DEF UpdatesGetThrough, Updates
<1>6. ASSUME ReceiveClear PROVE ClearsGetThrough /\ UpdatesGetThrough
  <2>1. /\ stream # <<>> /\ Head(stream).type = "conversation-cleared" /\ stream' = Tail(stream) /\ buffered' = buffered
        /\ store' = ClearThrough(store, Head(stream).at)
    BY <1>6 DEF ReceiveClear, incoming
  <2>2. Of(stream, {"expiry-update"}) = Of(stream', {"expiry-update"})
    <3>1. Head(stream).type \notin {"expiry-update"}
      BY <2>1
    <3>2. Of(stream, {"expiry-update"}) = Of(Tail(stream), {"expiry-update"})
            \cup (IF Head(stream).type \in {"expiry-update"} THEN {Head(stream).row} ELSE {})
      BY <1>0, <2>1, OfTail DEF Variables
    <3> QED BY <2>1, <3>1, <3>2
  <2>3. Head(stream).at \in Nat
    BY <1>0, <2>1, OfTail DEF Variables, RowEvents, Clearances
  <2>4. Applied(Head(stream))
    <3>1. StoreSound(store) /\ StoreSound(store') /\ store'.cleared >= Head(stream).at
      BY <2>1, <2>3, ClearKeeps DEF StoreOK
    <3> QED BY <2>3, <3>1 DEF Applied, StoreSound, Stores, Never
  <2>5. ClearsGetThrough
    <3> SUFFICES ASSUME NEW i \in DOMAIN stream
                 PROVE  (\E j \in DOMAIN stream' : stream'[j] = stream[i]) \/ Applied(stream[i])
      BY DEF ClearsGetThrough
    <3>1. stream[i] = Head(stream) \/ \E j \in DOMAIN Tail(stream) : Tail(stream)[j] = stream[i]
      BY <1>0, <2>1, HeadOrTail DEF Variables
    <3> QED BY <2>1, <2>4, <3>1
  <2> QED BY <2>1, <2>2, <2>5 DEF UpdatesGetThrough, Updates
<1>7. ASSUME DrainOne PROVE ClearsGetThrough /\ UpdatesGetThrough
  <2>1. /\ buffered # <<>> /\ stream' = stream /\ buffered' = Tail(buffered)
        /\ store' = BufferedApplied(store, Head(buffered))
    BY <1>7 DEF DrainOne
  <2>2. ClearsGetThrough
    BY <2>1 DEF ClearsGetThrough
  <2>3. /\ Of(buffered, {"expiry-update"}) = Of(buffered', {"expiry-update"})
               \cup (IF Head(buffered).type \in {"expiry-update"} THEN {Head(buffered).row} ELSE {})
        /\ Head(buffered) \in RowEvents
    BY <1>0, <2>1, OfTail DEF Variables
  <2>4. Head(buffered).type # "expiry-update" => Updates' = Updates
    BY <2>1, <2>3 DEF Updates
  <2>5. ASSUME Head(buffered).type = "expiry-update" PROVE UpdatesGetThrough
    <3>1. Head(buffered).row \in Updates
      BY <2>3, <2>5 DEF Updates
    <3>2. Reached(Head(buffered).row)
      BY <2>1, <2>5, <3>1, UpdateStep DEF BufferedApplied, Reached
    <3> QED BY <2>1, <2>3, <3>2 DEF UpdatesGetThrough, Updates
  <2> QED BY <2>2, <2>4, <2>5 DEF UpdatesGetThrough
<1>8. \/ stream' = stream /\ buffered' = buffered
      \/ BufferEvent \/ ReceiveMessage \/ ReceiveUpdate \/ ReceiveClear \/ DrainOne
  <2> USE DEF incoming
  <2>1. AnswerPage \/ AnswerLookup \/ AnswerOlder \/ AskOlder \/ Retry \/ RetryOpening => UNCHANGED <<stream, buffered>>
    BY DEF AnswerPage, AnswerLookup, AnswerOlder, AskOlder, Retry, RetryOpening
  <2>2. LoseAttention \/ RegainAttention \/ FailStep => UNCHANGED <<stream, buffered>>
    BY DEF LoseAttention, RegainAttention, Supersede, FailStep, SyncFails, OlderFails, OpeningFails, ClearFails
  <2>3. TakePage \/ TakeStates \/ DrainLookup \/ Synchronized \/ ClearAnswered \/ ExpiryTimer \/ TakeOlder \/ OpenPending
          \/ TakeOpening \/ (\E r \in decrypting : Decrypted(r)) => UNCHANGED <<stream, buffered>>
    BY DEF TakePage, TakeStates, DrainLookup, Synchronized, ClearAnswered, ExpiryTimer, TakeOlder, OpenPending,
           TakeOpening, Decrypted
  <2> QED BY <2>1, <2>2, <2>3 DEF SessionStep, LinkStep, ClientStep
<1> QED BY <1>1, <1>3, <1>4, <1>5, <1>6, <1>7, <1>8

\* Entries are refreshed by answers, and by what arrives.
LEMMA RefreshesWell ==
    ASSUME Control, StoreOK, CopiesSound, StoreEffect, SessionStep
    PROVE  Refreshes
<1>0. /\ StoreSound(store) /\ StoreSound(store') /\ SyncFields /\ OnlyWhileWatching /\ Arrivals
  BY DEF Control, StoreOK, StoreEffect
<1>1. ASSUME \A id \in LoadedIds(store') : RefreshedAt(id)' => RefreshedAt(id) PROVE Refreshes
  BY <1>0, <1>1 DEF Refreshes, Arrivals, LoadedIds
<1>2. ASSUME TakePage PROVE Refreshes
  <2>1. CASE LoadedIds(store') = {}
    BY <2>1 DEF Refreshes, LoadedIds
  <2>2. CASE LoadedIds(store') # {}
    <3>1. syncedHere' = syncedHere /\ (sync'.stage = "ask" \/ (sync'.stage = "look" /\ sync'.goal = "round" /\ sync'.refreshed = {}))
      BY <1>2, <2>2 DEF TakePage, AskServer, NextRound, RoundIds, Drain
    <3> QED BY <1>1, <3>1 DEF RefreshedAt
  <2> QED BY <2>1, <2>2
<1>3. ASSUME TakeStates PROVE Refreshes
  <2>1. /\ sync.stage = "states" /\ syncedHere' = syncedHere
        /\ store' = ApplyStates(store, sync.ids, sync.found, sync.time, sync.started)
    BY <1>3 DEF TakeStates, syncing
  <2>2. UpToDate(store', sync.ids, sync.found) /\ LoadedIds(store') \subseteq LoadedIds(store)
    <3>1. /\ sync.ids \in SUBSET Ids /\ sync.time \in Nat /\ sync.started \in Nat /\ sync.started <= sync.time
          /\ Agreed(RowsOf(store) \cup sync.found) /\ Distinct(sync.found)
      <4>1. RowsOf(store) \cup sync.found \in SUBSET Copies /\ Distinct(sync.found)
        BY <2>1 DEF Copies, Sources, FoundRows, CopiesSound
      <4>2. sync.ids \in SUBSET Ids /\ sync.time \in Nat /\ sync.started \in Nat /\ sync.started <= sync.time
        BY <1>0, <2>1 DEF SyncFields
      <4> QED BY <4>1, <4>2, CopiesAgree
    <3> DEFINE t == ApplyStates(store, sync.ids, sync.found, sync.time, sync.started)
    <3>2. UpToDate(t, sync.ids, sync.found) /\ LoadedIds(t) \subseteq LoadedIds(store)
      BY <1>0, <3>1, StatesKeep
    <3> HIDE DEF t
    <3>3. store' = t
      BY <2>1 DEF t
    <3> QED BY <3>2, <3>3
  <2>3. sync.found \subseteq Sources
    BY <2>1 DEF Sources, FoundRows
  <2>4. ASSUME NEW e \in store'.entries, RefreshedAt(e.row.id)'
        PROVE  RefreshedAt(e.row.id) \/ e.row.id \in sync.ids
    <3>1. e.row.id \in LoadedIds(store')
      BY DEF LoadedIds
    <3>2. \/ sync' = AfterFailure \/ sync' = Failed
          \/ sync.goal = "drain"
          \/ sync' = NextRound(LoadedIds(store'), sync.round + 1, sync.refreshed \cup sync.ids, sync.completed)
      BY <1>3 DEF TakeStates
    <3>3. CASE sync' = AfterFailure \/ sync' = Failed
      BY <2>1, <2>4, <3>3 DEF RefreshedAt, AfterFailure, Failed, StartSync, AskServer, Idle
    <3>4. CASE sync.goal = "drain"
      BY <2>1, <3>4 DEF RefreshedAt
    <3>5. CASE sync' = NextRound(LoadedIds(store'), sync.round + 1, sync.refreshed \cup sync.ids, sync.completed)
      <4>1. CASE sync'.stage = "drain"
        BY <2>1, <3>1, <3>5, <4>1 DEF RefreshedAt, NextRound, RoundIds
      <4>2. CASE sync'.stage # "drain"
        BY <2>1, <2>4, <3>5, <4>2 DEF RefreshedAt, NextRound, RoundIds, Drain
      <4> QED BY <4>1, <4>2
    <3> QED BY <3>2, <3>3, <3>4, <3>5
  <2>5. ASSUME NEW e \in store'.entries, RefreshedAt(e.row.id)'
        PROVE  \/ RefreshedAt(e.row.id) /\ e.row.id \in LoadedIds(store)
               \/ \E r \in Sources : r.id = e.row.id /\ (IsFinal(r) => e.row = r)
    <3>1. e.row.id \in LoadedIds(store)
      BY <2>2 DEF LoadedIds
    <3>2. CASE e.row.id \in sync.ids
      BY <2>2, <2>3, <3>2 DEF UpToDate
    <3> QED BY <2>4, <2>5, <3>1, <3>2
  <2> QED BY <2>5 DEF Refreshes
<1>4. ASSUME ~TakePage, ~TakeStates PROVE \A id : RefreshedAt(id)' => RefreshedAt(id)
  <2> USE DEF syncing
  <2>1. CASE UNCHANGED <<sync, syncedHere>>
    BY <2>1 DEF RefreshedAt
  <2>2. CASE Connect \/ Disconnect
    BY <2>2 DEF Connect, Disconnect, Supersede, RefreshedAt, AskServer, Idle
  <2>3. CASE LoseAttention \/ RegainAttention
    <3>1. LoseAttention => sync' = Idle /\ syncedHere' = syncedHere
      BY DEF LoseAttention
    <3>2. RegainAttention => /\ syncedHere' = syncedHere
                             /\ syncedHere \/ sync' \in {Idle, AskServer(checkpoint, None)}
      BY <1>0 DEF RegainAttention, OnlyWhileWatching
    <3> QED BY <2>3, <3>1, <3>2 DEF RefreshedAt, AskServer, Idle
  <2>4. CASE AnswerPage
    BY <2>4 DEF AnswerPage, RefreshedAt
  <2>5. CASE AnswerLookup
    BY <2>5 DEF AnswerLookup, RefreshedAt
  <2>6. CASE DrainLookup \/ Synchronized
    BY <2>6 DEF DrainLookup, Synchronized, RefreshedAt, Idle
  <2>7. CASE SyncFails \/ Retry
    BY <2>7 DEF SyncFails, Retry, AfterFailure, StartSync, AskServer, Failed, Idle, RefreshedAt
  <2>8. CASE \E r \in decrypting : Decrypted(r)
    BY <2>8 DEF Decrypted, StartSync, AskServer, Idle, RefreshedAt
  <2>9. AnswerOlder \/ AskOlder \/ RetryOpening \/ OlderFails \/ OpeningFails \/ ClearFails => UNCHANGED <<sync, syncedHere>>
    BY DEF AnswerOlder, AskOlder, RetryOpening, OlderFails, OpeningFails, ClearFails
  <2>10. DrainOne \/ BufferEvent \/ ReceiveMessage \/ ReceiveUpdate \/ ReceiveClear \/ ClearAnswered \/ ExpiryTimer
           \/ TakeOlder \/ OpenPending \/ TakeOpening => UNCHANGED <<sync, syncedHere>>
    BY DEF DrainOne, BufferEvent, ReceiveMessage, ReceiveUpdate, ReceiveClear, ClearAnswered, ExpiryTimer,
           TakeOlder, OpenPending, TakeOpening
  <2> QED BY <1>4, <2>1, <2>2, <2>3, <2>4, <2>5, <2>6, <2>7, <2>8, <2>9, <2>10
          DEF SessionStep, LinkStep, ClientStep, FailStep
<1> QED BY <1>1, <1>2, <1>3, <1>4

LEMMA SessionMoves ==
    ASSUME Control, TableInv, StoreOK, CopiesSound, SessionStep, ~Connect, ~Disconnect
    PROVE  Moves
<1>1. UNCHANGED <<messages, clock>>
  BY SessionKeepsDb DEF dbVars
<1>2. stale \subseteq stale'
  BY DEF observed, SessionStep, LinkStep, ClientStep, FailStep, LoseAttention, RegainAttention,
       AnswerPage, TakePage, AnswerLookup, TakeStates, DrainOne, DrainLookup, Synchronized,
       SyncFails, Retry, BufferEvent, ReceiveMessage, Decrypted, ReceiveUpdate, ReceiveClear, ClearAnswered,
       ClearFails, ExpiryTimer, AskOlder, AnswerOlder, TakeOlder, OlderFails, OpenPending, TakeOpening,
       OpeningFails, RetryOpening
<1>3. StoreEffect /\ Copies' \subseteq Copies /\ Flow
  BY SessionStore, SessionCopies, SessionFlow DEF Control
<1>4. ClearsGetThrough /\ UpdatesGetThrough /\ Refreshes
  BY <1>3, EventsGetThrough, RefreshesWell
<1> QED BY <1>1, <1>2, <1>3, <1>4 DEF Moves, Flow

\* A session off the connection is unplugged.
LEMMA OffIsCurrent == Control /\ CopiesSound /\ BufferedStale /\ ~conn => Currency
<1> SUFFICES ASSUME Control, CopiesSound, BufferedStale, ~conn PROVE Currency
  OBVIOUS
<1>1. /\ ~syncedHere /\ sync = Idle /\ older = Idle /\ opening = Idle /\ decrypting = {} /\ stream = <<>>
  BY DEF Control, OnlyWhileWatching
<1>2. \A types : \A v \in Of(buffered, types) : v.seq \in stale
  BY DEF BufferedStale, Of
<1>3. \A v \in Sources \cup Updates : v.seq \in stale /\ v \in Rows
  <2>1. /\ PageRows = {} /\ FoundRows = {} /\ OlderRows = {} /\ OpeningRows = {}
        /\ Messages = Of(buffered, {"message"}) /\ Updates = Of(buffered, {"expiry-update"})
    BY <1>1, OfNone DEF PageRows, FoundRows, OlderRows, OpeningRows, Messages, Updates, Idle
  <2>2. \A v \in Sources \cup Updates : v \in Rows
    BY DEF Copies, CopiesSound
  <2> QED BY <1>1, <1>2, <2>1, <2>2 DEF Sources
<1>4. Unplugged
  BY <1>1, <1>3 DEF Unplugged, Idle
<1> QED BY <1>4, CurrencyUnplugged

LEMMA CurrencyStep ==
    ASSUME Core, Core', Currency, [Next]_vars
    PROVE  Currency'
<1>0. TableInv /\ Control /\ StoreOK /\ CopiesSound /\ Control' /\ CopiesSound' /\ Variables /\ BufferedStale
  BY DEF Core, Control, Currency
<1>1. ASSUME ~conn', BufferedStale' PROVE Currency'
  <2>1. Control' /\ CopiesSound' /\ BufferedStale' /\ ~conn' => Currency'
    BY OffIsCurrent, PTL
  <2> QED BY <1>0, <1>1, <2>1
<1>2. CASE UNCHANGED vars
  <2>1. UNCHANGED <<messages, clock, conn, stream, store, syncedHere, sync, buffered, decrypting, older, opening, stale>>
    BY <1>2 DEF vars, dbVars, client, link, syncing, incoming, paging, openings, observed
  <2>2. UNCHANGED <<Sources, Updates, Copies>>
    BY <2>1 DEF Sources, PageRows, FoundRows, OlderRows, OpeningRows, Messages, Updates, Copies
  <2>3. \A v : /\ Exact(v)' = Exact(v) /\ UpdateAhead(v)' = UpdateAhead(v) /\ Dropped(v)' = Dropped(v)
               /\ Superseded(v)' = Superseded(v) /\ RefreshedAt(v)' = RefreshedAt(v)
    BY <2>1, <2>2 DEF Exact, NoRow, Latest, ClearAhead, UpdateAhead, Dropped, Superseded, RefreshedAt
  <2>4. SourcesCurrent' /\ UpdatesExact' /\ EntriesCurrent' /\ BufferedStale'
    BY <2>1, <2>2, <2>3 DEF Currency, SourcesCurrent, UpdatesExact, EntriesCurrent, BufferedStale, Current
  <2> QED BY <2>4 DEF Currency
<1>3. CASE Connect
  <2>1. /\ ~conn /\ ~syncedHere' /\ (sync' = Idle \/ sync' = AskServer(checkpoint, None))
        /\ older' = Idle /\ opening' = Idle /\ decrypting' = {} /\ stream' = <<>>
        /\ buffered' = buffered /\ stale' = stale /\ conn'
    BY <1>3 DEF Connect, Supersede, observed
  <2>2. \A types : \A v \in Of(buffered, types) : v.seq \in stale
    BY <1>0, <2>1 DEF BufferedStale, Of
  <2>3. \A v \in Sources' \cup Updates' : v.seq \in stale' /\ v \in Rows
    <3>1. /\ PageRows' = {} /\ FoundRows' = {} /\ OlderRows' = {} /\ OpeningRows' = {}
          /\ Messages' = Of(buffered, {"message"}) /\ Updates' = Of(buffered, {"expiry-update"})
      BY <2>1, OfNone DEF PageRows, FoundRows, OlderRows, OpeningRows, Messages, Updates, Idle, AskServer
    <3>2. \A v \in Sources' \cup Updates' : v \in Rows
      BY <1>0 DEF Copies, CopiesSound
    <3> QED BY <2>1, <2>2, <3>1, <3>2 DEF Sources
  <2>4. Unplugged'
    BY <2>1, <2>3 DEF Unplugged, Idle, AskServer
  <2>5. BufferedStale'
    BY <2>1 DEF BufferedStale
  <2>6. Unplugged' /\ BufferedStale' => Currency'
    BY CurrencyUnplugged, PTL
  <2> QED BY <2>4, <2>5, <2>6
<1>4. CASE Disconnect
  <2>1. /\ ~conn' /\ buffered' = buffered /\ stale' = stale \cup {buffered[i].row.seq : i \in DOMAIN buffered}
    BY <1>4 DEF Disconnect, Supersede
  <2>2. BufferedStale'
    BY <2>1 DEF BufferedStale
  <2> QED BY <1>1, <2>1, <2>2
<1>5. CASE SessionStep /\ ~Connect /\ ~Disconnect
  <2>1. Moves
    BY <1>0, <1>5, SessionMoves
  <2>2. SourcesCurrent' /\ UpdatesExact' /\ EntriesCurrent'
    BY <1>0, <2>1, SourcesStay, EntriesStay
  <2>3. conn' = conn /\ (~conn => buffered' = buffered)
    <3>1. ~conn => stream = <<>> /\ sync = Idle
      BY <1>0 DEF Control, OnlyWhileWatching
    <3> USE DEF link, incoming
    <3>2. BufferEvent \/ DrainOne => conn' = conn /\ conn
      BY <3>1 DEF BufferEvent, DrainOne, Idle
    <3>3. LoseAttention \/ RegainAttention \/ AnswerPage \/ AnswerLookup \/ AnswerOlder \/ AskOlder \/ Retry \/ RetryOpening \/ FailStep
            => UNCHANGED <<conn, buffered>>
      BY DEF LoseAttention, RegainAttention, Supersede, AnswerPage, AnswerLookup, AnswerOlder, AskOlder, Retry, RetryOpening,
             FailStep, SyncFails, OlderFails, OpeningFails, ClearFails
    <3>4. TakePage \/ TakeStates \/ DrainLookup \/ Synchronized \/ ReceiveMessage \/ ReceiveUpdate \/ ReceiveClear \/ ClearAnswered
            \/ ExpiryTimer \/ TakeOlder \/ OpenPending \/ TakeOpening \/ (\E r \in decrypting : Decrypted(r))
            => UNCHANGED <<conn, buffered>>
      BY DEF TakePage, TakeStates, DrainLookup, Synchronized, ReceiveMessage, ReceiveUpdate, ReceiveClear, ClearAnswered,
             ExpiryTimer, TakeOlder, OpenPending, TakeOpening, Decrypted
    <3> QED BY <1>5, <3>2, <3>3, <3>4 DEF SessionStep, LinkStep, ClientStep
  <2>4. BufferedStale'
    BY <1>0, <2>1, <2>3 DEF BufferedStale, Moves
  <2> QED BY <2>2, <2>4 DEF Currency
<1>6. CASE DatabaseStep
  <2>1. UNCHANGED <<conn, buffered, stale>>
    BY <1>6, DatabaseFrame DEF link, incoming, observed
  <2>2. CASE ~conn
    <3>1. BufferedStale'
      BY <1>0, <2>1 DEF BufferedStale
    <3> QED BY <1>1, <2>1, <2>2, <3>1
  <2>3. CASE conn
    <3>1. [DbNext]_dbVars /\ TypeOK /\ TypeOK'
      BY <1>0, TablesStep DEF Core, TableInv, IInv
    <3>2. clock' >= clock /\ clock' \in Nat
      BY <3>1, StepTime DEF TypeOK
    <3> QED BY <1>0, <1>6, <2>3, <3>2, CurrencyOnServer
  <2> QED BY <2>2, <2>3
<1> QED BY <1>2, <1>3, <1>4, <1>5, <1>6 DEF Next, DatabaseStep, SessionStep, AnswerStep, UserStep

LEMMA CurrencyInitially == Init => Currency
<1> SUFFICES ASSUME Init PROVE Currency
  OBVIOUS
<1>1. Core
  BY CoreInitially
<1>2. BufferedStale /\ ~conn
  BY DEF Init, BufferedStale
<1> QED BY <1>1, <1>2, OffIsCurrent DEF Core

LEMMA CurrencyHolds == Spec => [](Core /\ Currency)
<1>1. Init => Core /\ Currency
  BY CoreInitially, CurrencyInitially
<1>2. Core /\ Currency /\ [Next]_vars => Core' /\ Currency'
  BY CoreStep, CurrencyStep
<1> QED BY <1>1, <1>2, PTL DEF Spec

\* What a synchronized session has loaded is current.
LEMMA SynchronizedIsCurrent ==
    ASSUME Core, Currency, synced, NEW e \in store.entries
    PROVE  e.row \in Copies /\ (Exact(e.row) \/ UpdateAhead(e.row))
<1>1. syncedHere
  BY DEF Core, Control, OnlyWhileWatching
<1>2. Current(e.row)
  BY <1>1 DEF Currency, EntriesCurrent, RefreshedAt
<1>3. e.row \in Copies
  BY DEF Copies, RowsOf
<1> QED BY <1>2, <1>3 DEF Current

\* The updates a synchronized session has still to get are on its stream, as are
\* those of one with an empty buffer.
LEMMA UpdatesInFlight ==
    ASSUME Core, synced \/ buffered = <<>>, NEW u \in Updates
    PROVE  InFlight("expiry-update", u)
<1>1. buffered = <<>>
  BY DEF Core, Control, OnlyWhileWatching
<1>2. Updates = Of(stream, {"expiry-update"})
  BY <1>1, OfNone DEF Updates
<1> QED BY <1>2 DEF Of, InFlight

\* A synchronized session runs each message on the server's deadline, or the
\* update that corrects it is in flight, through every order of pages,
\* lookups, events, reconnects and focus changes.
THEOREM SessionDeadlines == Spec => []OtherDeadlinesAreAuthoritative
<1>1. ASSUME Core, Currency, synced, NEW e \in store.entries, e.row.seq \notin stale PROVE Authoritative(e)
  <2> SUFFICES ASSUME NEW r \in messages, e.row.seq = r.seq, e.row # r
               PROVE  InFlight("expiry-update", r)
    BY DEF Authoritative
  <2> DEFINE w == e.row
  <2>1. w \in Copies /\ (Exact(w) \/ UpdateAhead(w))
    BY <1>1, SynchronizedIsCurrent
  <2>2. r \in Copies /\ r.id = w.id
    <3>1. r \in Copies
      BY DEF Copies
    <3> QED BY <1>1, <2>1, <3>1 DEF Core, CopiesSound, Agree
  <2>3. ~Exact(w)
    BY <1>1, <2>2 DEF Exact, NoRow, Core, TableInv, IInv, RowsAreSound, KeysAreUnique
  <2>4. PICK u \in Updates : u.id = w.id
    BY <2>1, <2>3 DEF UpdateAhead
  <2>5. u.seq = w.seq
    <3>1. u \in Copies
      BY DEF Copies
    <3> QED BY <1>1, <2>1, <2>4, <3>1 DEF Core, CopiesSound, Agree
  <2>6. InFlight("expiry-update", u)
    BY <1>1, UpdatesInFlight
  <2> QED BY <2>5, <2>6 DEF InFlight
<1>2. Core /\ Currency => OtherDeadlinesAreAuthoritative
  BY <1>1 DEF OtherDeadlinesAreAuthoritative
<1> QED BY <1>2, CurrencyHolds, PTL

\* No message stays on a synchronized session's screen after the server
\* cleared or swept it, unless the news is on its way.
THEOREM SessionShowsNoGhosts == Spec => []NoGhosts
<1>1. ASSUME Core, Currency, synced, NEW e \in Displayed(store, clock), e.row.seq \notin stale
      PROVE  \/ \E r \in messages : r.seq = e.row.seq
             \/ InFlight("expiry-update", e.row)
             \/ \E i \in DOMAIN stream : stream[i].type = "conversation-cleared"
  <2> DEFINE w == e.row
  <2>1. e \in store.entries /\ HasServerTime(store) /\ clock + store.lead < w.expires
    BY DEF Displayed, ClientNow
  <2>2. w \in Copies /\ (Exact(w) \/ UpdateAhead(w))
    BY <1>1, <2>1, SynchronizedIsCurrent
  <2>3. store.lead \in Nat /\ clock \in Nat /\ w.expires \in Nat
    BY <1>1, <2>1, <2>2 DEF Core, StoreOK, StoreSound, Stores, HasServerTime, TableInv, IInv, TypeOK, CopiesSound, Rows
  <2>4. ~(w.expires <= clock)
    BY <2>1, <2>3
  <2>5. CASE Exact(w)
    BY <1>1, <2>4, <2>5 DEF Exact, ClearAhead
  <2>6. CASE UpdateAhead(w)
    <3>1. PICK u \in Updates : u.id = w.id
      BY <2>6 DEF UpdateAhead
    <3>2. u.seq = w.seq
      <4>1. u \in Copies
        BY DEF Copies
      <4> QED BY <1>1, <2>2, <3>1, <4>1 DEF Core, CopiesSound, Agree
    <3>3. InFlight("expiry-update", u)
      BY <1>1, UpdatesInFlight
    <3> QED BY <3>2, <3>3 DEF InFlight
  <2> QED BY <2>2, <2>5, <2>6
<1>2. Core /\ Currency => NoGhosts
  BY <1>1 DEF NoGhosts
<1> QED BY <1>2, CurrencyHolds, PTL

-----------------------------------------------------------------------------
(* Answers about single messages.                                            *)

\* A live row of an accepted message was live before.
LEMMA PostedWere ==
    ASSUME Control, TableInv, TableInv', CopiesSound, DatabaseStep, NEW r \in Conversation', r.id \in posted
    PROVE  \E q \in Conversation : q.seq = r.seq /\ q.id = r.id /\ q.recipient = r.recipient
<1>0. /\ [DbNext]_dbVars /\ Variables /\ r \in LiveBetween(messages', me, partner, clock')
      /\ r \in messages' /\ highWater \in Nat /\ messages \subseteq Rows
  BY TablesStep DEF Conversation, LiveBetween, Next, DatabaseStep, AnswerStep, UserStep, Control, TableInv, IInv, TypeOK
<1>1. r.seq <= highWater
  <2>1. CASE \E e \in Envelopes : Accept(e)
    <3>1. PICK e \in Envelopes : Accept(e)
      BY <2>1
    <3> DEFINE row == AcceptedRow(e, NextSeq, clock)
    <3>2. row.id \notin posted /\ messages' = messages \cup {row}
      BY <1>0, <3>1, AcceptingTells
    <3>3. r \in messages
      BY <1>0, <3>2
    <3> QED BY <3>3 DEF TableInv, IInv, RowsAreSound, KeysAreUnique
  <2>2. CASE ~\E e \in Envelopes : Accept(e)
    <3>1. ASSUME NEW a \in Addresses, NEW b \in Addresses, OpenElsewhere(a, b) PROVE highWater' = highWater
      BY <3>1 DEF OpenElsewhere, OpenAndTell, Open
    <3>2. highWater' = highWater
      BY <2>2, <3>1, SessionAssumption DEF DatabaseStep, ServerStep, PartnerClears, SweepExpired, Pass, Clear, Sweep, Tick,
         AnswerOpening, OpenAndTell, Open, ClearHere
    <3> QED BY <1>0, <3>2 DEF TableInv, IInv, RowsAreSound, KeysAreUnique
  <2> QED BY <2>1, <2>2
<1> QED BY <1>0, <1>1, LiveRowsWere DEF Conversation

LEMMA LoadedArePosted == CopiesSound => LoadedIds(store) \subseteq posted
BY DEF CopiesSound, LoadedIds, Copies, RowsOf

LEMMA AnswersOnServer ==
    ASSUME Control, TableInv, TableInv', CopiesSound, AnswersComplete, DatabaseStep
    PROVE  AnswersComplete'
<1>1. /\ UNCHANGED sync /\ (AnswerOpening \/ opening' = opening) /\ posted \subseteq posted'
  BY DatabaseFrame DEF syncing, Accept
<1>2. ASSUME NEW r \in Conversation', r.id \in posted
      PROVE  \E q \in Conversation : q.id = r.id /\ q.recipient = r.recipient
  BY <1>2, PostedWere
<1>3. sync'.stage = "states" => \A r \in Conversation' : r.id \in sync'.ids => r.id \in IdsOf(sync'.found)
  BY <1>1, <1>2 DEF AnswersComplete
<1>4. CASE opening' = opening
  <2>1. opening'.stage = "answered" =>
          \A r \in Conversation' : r.recipient = me /\ r.id \in opening'.ids => r.id \in IdsOf(opening'.found)
    BY <1>2, <1>4 DEF AnswersComplete
  <2> QED BY <1>1, <1>3, <1>4, <2>1 DEF AnswersComplete
<1>5. CASE AnswerOpening
  <2>1. /\ opening.stage = "sent" /\ opening'.ids = opening.ids /\ opening'.stage = "answered"
        /\ opening'.found = {r \in messages' : r.id \in IdsOf(Available(me, partner, opening.ids))}
        /\ opening.ids \subseteq posted
    BY <1>5 DEF AnswerOpening, AnswersComplete
  <2>2. ASSUME NEW r \in Conversation', r.recipient = me, r.id \in opening.ids
        PROVE  r.id \in IdsOf(opening'.found)
    <3>1. PICK q \in Conversation : q.id = r.id /\ q.recipient = me
      BY <1>2, <2>1, <2>2
    <3>2. q \in Available(me, partner, opening.ids)
      BY <2>2, <3>1, SessionAssumption DEF Conversation, LiveBetween, Between, Available
    <3>3. r \in opening'.found
      BY <2>1, <3>1, <3>2 DEF IdsOf, Conversation, LiveBetween
    <3> QED BY <3>3 DEF IdsOf
  <2> QED BY <1>1, <1>3, <2>1, <2>2 DEF AnswersComplete
<1> QED BY <1>1, <1>4, <1>5

LEMMA AnswersInSession ==
    ASSUME Control, StoreOK, CopiesSound, CopiesSound', AnswersComplete, SessionStep
    PROVE  AnswersComplete'
<1> USE DEF syncing, openings
<1>0. /\ UNCHANGED <<messages, clock, posted>>
      /\ Conversation' = Conversation
      /\ LoadedIds(store) \subseteq posted /\ LoadedIds(store') \subseteq posted
  <2>1. UNCHANGED <<messages, clock, posted>>
    BY SessionKeepsDb DEF dbVars
  <2>2. CopiesSound' => (LoadedIds(store) \subseteq posted)'
    BY LoadedArePosted, PTL
  <2> QED BY <2>1, <2>2, LoadedArePosted DEF Conversation
<1>1. PendingIds(store) \subseteq posted
  BY <1>0, LoadedAreIds DEF StoreOK
<1>2. /\ sync'.stage \in {"look", "states"} => sync'.ids \subseteq posted
      /\ sync'.stage = "states" => \A r \in Conversation : r.id \in sync'.ids => r.id \in IdsOf(sync'.found)
  <2>1. CASE sync' = sync
    BY <2>1 DEF AnswersComplete
  <2>2. CASE AnswerLookup
    <3>1. /\ sync.stage = "look" /\ sync'.ids = sync.ids
          /\ sync'.found = {r \in Conversation : r.id \in sync.ids}
      BY <2>2 DEF AnswerLookup, Conversation
    <3> QED BY <3>1 DEF AnswersComplete, IdsOf
  <2>3. CASE DrainLookup
    BY <1>0, <2>3 DEF DrainLookup
  <2>4. ASSUME NEW round, NEW refreshed, NEW completed, sync' = NextRound(LoadedIds(store'), round, refreshed, completed)
        PROVE  sync'.stage # "states" /\ (sync'.stage = "look" => sync'.ids \subseteq posted)
    BY <1>0, <2>4 DEF NextRound, RoundIds, Drain
  <2>5. CASE TakePage
    BY <2>4, <2>5 DEF TakePage, AskServer
  <2>6. CASE TakeStates
    BY <2>4, <2>6 DEF TakeStates, AfterFailure, StartSync, AskServer, Idle, Failed, Drain
  <2>7. CASE Connect \/ Disconnect \/ LoseAttention \/ RegainAttention
    <3>1. sync' \in {Idle, AskServer(checkpoint, None), Drain(None)}
      BY <2>7 DEF Connect, Disconnect, LoseAttention, RegainAttention, Control, Variables
    <3> QED BY <3>1 DEF AskServer, Idle, Drain
  <2>8. CASE AnswerPage \/ Synchronized \/ SyncFails \/ Retry
    <3>1. AnswerPage => sync'.stage = "page"
      BY DEF AnswerPage
    <3>2. Synchronized \/ SyncFails \/ Retry => sync' \in {Idle, Failed, AskServer(checkpoint, None)}
      BY DEF Synchronized, SyncFails, Retry, AfterFailure, StartSync
    <3> QED BY <2>8, <3>1, <3>2 DEF AskServer, Idle, Failed
  <2>9. CASE \E r \in decrypting : Decrypted(r)
    <3>1. sync' = sync \/ sync' = StartSync
      BY <2>9 DEF Decrypted
    <3> QED BY <2>1, <3>1 DEF StartSync, AskServer, Idle
  <2>10. AnswerOlder \/ AskOlder \/ RetryOpening \/ OlderFails \/ OpeningFails \/ ClearFails => sync' = sync
    BY DEF AnswerOlder, AskOlder, RetryOpening, OlderFails, OpeningFails, ClearFails
  <2>11. DrainOne \/ BufferEvent \/ ReceiveMessage \/ ReceiveUpdate \/ ReceiveClear \/ ClearAnswered \/ ExpiryTimer
           \/ TakeOlder \/ OpenPending \/ TakeOpening => sync' = sync
    BY DEF DrainOne, BufferEvent, ReceiveMessage, ReceiveUpdate, ReceiveClear, ClearAnswered, ExpiryTimer,
           TakeOlder, OpenPending, TakeOpening
  <2> QED BY <2>1, <2>2, <2>3, <2>5, <2>6, <2>7, <2>8, <2>9, <2>10, <2>11
          DEF SessionStep, LinkStep, ClientStep, FailStep
<1>3. /\ opening'.stage # "idle" => opening'.ids \subseteq posted
      /\ opening'.stage = "answered" =>
           \A r \in Conversation : r.recipient = me /\ r.id \in opening'.ids => r.id \in IdsOf(opening'.found)
  <2>1. CASE opening' = opening
    BY <2>1 DEF AnswersComplete
  <2>2. CASE opening' = Idle
    BY <2>2 DEF Idle
  <2>3. CASE OpenPending
    <3>1. opening' = opening \/ opening' = [stage |-> "sent", ids |-> PendingIds(store), started |-> clock]
      BY <2>3 DEF OpenPending
    <3> QED BY <1>1, <2>1, <3>1
  <2>4. LinkStep => opening' = Idle
    BY DEF LinkStep, Connect, Disconnect, LoseAttention, RegainAttention, Supersede
  <2>5. FailStep \/ AskOlder \/ Retry \/ RetryOpening => opening' = Idle \/ opening' = opening
    BY DEF AskOlder, Retry, RetryOpening, FailStep, SyncFails, OlderFails, OpeningFails, ClearFails
  <2>6. AnswerPage \/ AnswerLookup \/ AnswerOlder => opening' = opening
    BY DEF AnswerPage, AnswerLookup, AnswerOlder
  <2>7. ClientStep => OpenPending \/ opening' = Idle \/ opening' = opening
    BY DEF ClientStep, TakePage, TakeStates, DrainOne, DrainLookup, Synchronized, BufferEvent, ReceiveMessage,
           ReceiveUpdate, ReceiveClear, Decrypted, ClearAnswered, ExpiryTimer, TakeOlder, TakeOpening
  <2> QED BY <2>1, <2>2, <2>3, <2>4, <2>5, <2>6, <2>7 DEF SessionStep
<1> QED BY <1>0, <1>2, <1>3 DEF AnswersComplete

LEMMA AnswersStep ==
    ASSUME Core, Core', AnswersComplete, [Next]_vars
    PROVE  AnswersComplete'
<1>0. TableInv /\ TableInv' /\ Control /\ StoreOK /\ CopiesSound /\ CopiesSound'
  BY DEF Core
<1>1. CASE UNCHANGED vars
  <2>1. UNCHANGED <<messages, clock, posted, sync, opening>>
    BY <1>1 DEF vars, dbVars, client, syncing, openings
  <2> QED BY <2>1 DEF AnswersComplete, Conversation
<1>2. CASE SessionStep
  BY <1>0, <1>2, AnswersInSession
<1>3. CASE DatabaseStep
  BY <1>0, <1>3, AnswersOnServer
<1> QED BY <1>1, <1>2, <1>3 DEF Next, DatabaseStep, SessionStep, AnswerStep, UserStep

\* A client that sweeps takes what is past its deadline on the clock, by that
\* clock; out of sync only by a final deadline.
LEMMA SweptForCause ==
    ASSUME Core, Currency, NEW s, StoreSound(s), RowsOf(s) \subseteq RowsOf(store), LoadedIds(s) \subseteq LoadedIds(store),
           s.lead = store.lead, s.removed = store.removed, NEW synchronized \in BOOLEAN,
           store' = SweepStore(s, ClientNow(store, clock), synchronized),
           synchronized => buffered = <<>> /\ (syncedHere \/ sync.stage = "drain"),
           NEW r \in messages, r.id \in store'.removed \ store.removed
    PROVE  \/ ClientNow(store', clock) >= r.expires
           \/ synchronized /\ (InFlight("expiry-update", r) \/ r.seq \in stale)
<1>0. TableInv /\ CopiesSound /\ StoreSound(store)
  BY DEF Core, StoreOK
<1> DEFINE now == ClientNow(store, clock)
           t == SweepStore(s, now, synchronized)
<1>1. /\ t.lead = s.lead /\ t.removed \subseteq s.removed \cup LoadedIds(s)
      /\ \A e \in s.entries : e.row.id \in t.removed =>
           HasServerTime(s) /\ now >= e.row.expires /\ (synchronized \/ IsFinal(e.row))
  <2> HIDE DEF now
  <2> QED BY SweepKeeps
<1>2. store' = t
  OBVIOUS
<1> HIDE DEF t
<1>3. PICK e \in s.entries : e.row.id = r.id
  BY <1>1, <1>2 DEF LoadedIds
<1> DEFINE w == e.row
<1>4. /\ w.id = r.id /\ now >= w.expires /\ (synchronized \/ IsFinal(w))
      /\ ClientNow(store', clock) = now
  BY <1>1, <1>2, <1>3 DEF ClientNow
<1>5. w \in RowsOf(store) /\ w \in Copies /\ r \in Copies
  BY DEF RowsOf, Copies
<1>6. \E f \in store.entries : f.row = w
  <2>1. PICK f \in store.entries : f.row.id = w.id
    BY <1>3 DEF LoadedIds
  <2>2. f.row = w
    BY <1>0, <1>5, <2>1, LoadedRow
  <2> QED BY <2>2
<1> HIDE DEF w, now
<1>7. CASE w = r
  BY <1>4, <1>7
<1>8. IsFinal(w) => w = r
  BY <1>0, <1>4, <1>5 DEF CopiesSound
<1>9. CASE synchronized
  <2>1. Current(w)
    <3>1. PICK f \in store.entries : f.row = w
      BY <1>6
    <3>2. RefreshedAt(f.row.id)
      BY <1>9 DEF RefreshedAt
    <3> QED BY <3>1, <3>2 DEF Currency, EntriesCurrent
  <2>2. Exact(w) => w = r \/ r.seq \in stale
    <3>1. ~NoRow(w)
      BY <1>4 DEF NoRow
    <3>2. w.seq = r.seq
      BY <1>0, <1>4, <1>5 DEF CopiesSound, Agree
    <3>3. w \in messages => w = r
      BY <1>0, <1>4 DEF TableInv, IInv, RowsAreSound, KeysAreUnique
    <3> QED BY <3>1, <3>2, <3>3 DEF Exact
  <2>3. UpdateAhead(w) => InFlight("expiry-update", r)
    <3> SUFFICES ASSUME UpdateAhead(w) PROVE InFlight("expiry-update", r)
      OBVIOUS
    <3>1. PICK u \in Updates : u.id = w.id
      BY DEF UpdateAhead
    <3>2. u.seq = r.seq
      <4>1. u \in Copies
        BY DEF Copies
      <4> QED BY <1>0, <1>4, <1>5, <3>1, <4>1 DEF CopiesSound, Agree
    <3>3. InFlight("expiry-update", u)
      BY <1>9, UpdatesInFlight
    <3> QED BY <3>2, <3>3 DEF InFlight
  <2> QED BY <1>7, <1>9, <2>1, <2>2, <2>3 DEF Current
<1> QED BY <1>4, <1>7, <1>8, <1>9

\* An available message is removed for good by a clear, by its deadline on the
\* client's conservative clock or, in a synchronized session, by an older
\* deadline while the news of its opening is on its way.
THEOREM SessionRemovesForCause == Spec => RemovedForCause
<1> DEFINE Cause(r) == \/ r.created <= store'.cleared
                       \/ ClientNow(store', clock) >= r.expires
                       \/ synced' /\ (InFlight("expiry-update", r) \/ r.seq \in stale)
<1>1. ASSUME Core, Core', Currency, AnswersComplete, [Next]_vars,
             NEW r \in Conversation, r.id \in store'.removed \ store.removed
      PROVE  Cause(r)
  <2>0. /\ TableInv /\ CopiesSound /\ StoreSound(store) /\ StoreOK /\ StoreSound(store') /\ Control
        /\ Variables /\ SyncFields /\ RequestFields /\ OnlyWhileWatching
        /\ r \in messages /\ r \in Copies /\ r.created \in Nat
        /\ store.cleared \in Int /\ store'.cleared \in Int
    <3>1. /\ TableInv /\ CopiesSound /\ StoreOK /\ Control /\ StoreOK'
      BY <1>1 DEF Core
    <3>2. r \in messages /\ r \in Copies
      BY DEF Conversation, LiveBetween, Copies
    <3> QED BY <3>1, <3>2 DEF StoreOK, StoreSound, Stores, Never, Control, CopiesSound, Rows
  <2>1. ASSUME NEW rows \in SUBSET Sources, Distinct(rows), store' = Add(store, rows) PROVE Cause(r)
    <3>1. /\ store'.cleared = store.cleared
          /\ \A i \in store'.removed : i \in store.removed \/ \E q \in rows : q.id = i /\ q.created <= store.cleared
      BY <2>0, <2>1, AddStep
    <3>2. PICK q \in rows : q.id = r.id /\ q.created <= store.cleared
      BY <1>1, <3>1
    <3>3. q.created = r.created
      <4>1. q \in Copies
        BY DEF Copies
      <4> QED BY <2>0, <3>2, <4>1 DEF CopiesSound, Agree, SameEnvelope
    <3> QED BY <3>1, <3>2, <3>3
  <2>2. ASSUME NEW at \in Nat, store' = ClearThrough(store, at) PROVE Cause(r)
    <3>1. /\ \A e \in store.entries : e.row.id \in store'.removed => e.row.created <= store'.cleared
          /\ store'.removed \subseteq store.removed \cup LoadedIds(store)
      BY <2>0, <2>2, ClearKeeps
    <3>2. PICK e \in store.entries : e.row.id = r.id
      BY <1>1, <3>1 DEF LoadedIds
    <3>3. e.row.created = r.created
      <4>1. e.row \in Copies
        BY DEF Copies, RowsOf
      <4> QED BY <2>0, <3>2, <4>1 DEF CopiesSound, Agree, SameEnvelope
    <3> QED BY <1>1, <3>1, <3>2, <3>3
  <2>3. CASE TakePage
    <3>1. store' = Add(store, sync.rows) /\ Distinct(sync.rows) /\ sync.rows \in SUBSET Sources
      BY <2>0, <2>3 DEF TakePage, CopiesSound, PageRows, Sources
    <3> QED BY <2>1, <3>1
  <2>4. CASE TakeOlder
    <3>1. store' = Add(store, older.rows) /\ Distinct(older.rows) /\ older.rows \in SUBSET Sources
      BY <2>0, <2>4 DEF TakeOlder, CopiesSound, OlderRows, Sources
    <3> QED BY <2>1, <3>1
  <2>5. CASE DrainOne
    <3>1. buffered # <<>> /\ store' = BufferedApplied(store, Head(buffered))
      BY <2>5 DEF DrainOne
    <3>2. /\ Head(buffered) \in RowEvents
          /\ \A types : Head(buffered).type \in types => Head(buffered).row \in Of(buffered, types)
      BY <2>0, <3>1, OfTail DEF Variables
    <3>3. CASE Head(buffered).type = "message"
      <4>1. {Head(buffered).row} \in SUBSET Sources /\ Distinct({Head(buffered).row})
        BY <3>2, <3>3 DEF Sources, Messages, Distinct
      <4> QED BY <2>1, <3>1, <3>3, <4>1 DEF BufferedApplied
    <3>4. CASE Head(buffered).type = "expiry-update"
      <4>1. Head(buffered).row \in Updates
        BY <3>2, <3>4 DEF Updates
      <4>2. store'.removed = store.removed
        BY <2>0, <3>1, <3>4, <4>1, UpdateStep DEF BufferedApplied
      <4> QED BY <1>1, <4>2
    <3> QED BY <3>2, <3>3, <3>4 DEF RowEvents
  <2>6. CASE \E d \in decrypting : Decrypted(d)
    <3>1. PICK d \in decrypting : Decrypted(d)
      BY <2>6
    <3>2. synced /\ store' = Add(store, {d})
      BY <1>1, <3>1 DEF Decrypted
    <3>3. {d} \in SUBSET Sources /\ Distinct({d})
      BY DEF Sources, Distinct
    <3> QED BY <2>1, <3>2, <3>3
  <2>7. CASE ReceiveClear
    <3>1. stream # <<>> /\ store' = ClearThrough(store, Head(stream).at) /\ Head(stream).type = "conversation-cleared"
      BY <2>7 DEF ReceiveClear
    <3>2. Head(stream).at \in Nat
      BY <2>0, <3>1, OfTail DEF Variables, RowEvents, Clearances
    <3> QED BY <2>2, <3>1, <3>2
  <2>8. CASE ClearAnswered
    BY <2>0, <2>2, <2>8 DEF ClearAnswered, Variables
  <2>9. CASE ReceiveUpdate
    <3>1. stream # <<>> /\ store' = ApplyLifecycle(store, Head(stream).row) /\ Head(stream).type = "expiry-update"
      BY <2>9 DEF ReceiveUpdate
    <3>2. Head(stream).row \in Updates
      BY <2>0, <3>1, OfTail DEF Variables, Updates
    <3>3. store'.removed = store.removed
      BY <2>0, <3>1, <3>2, UpdateStep
    <3> QED BY <1>1, <3>3
  <2>10. CASE TakeStates
    <3>1. /\ sync.stage = "states" /\ store' = ApplyStates(store, sync.ids, sync.found, sync.time, sync.started)
      BY <2>10 DEF TakeStates
    <3>2. /\ sync.ids \in SUBSET Ids /\ sync.time \in Nat /\ sync.started \in Nat /\ sync.started <= sync.time
          /\ Agreed(RowsOf(store) \cup sync.found) /\ Distinct(sync.found)
      <4>1. RowsOf(store) \cup sync.found \in SUBSET Copies /\ Distinct(sync.found)
        BY <2>0, <3>1 DEF Copies, Sources, FoundRows, CopiesSound
      <4>2. sync.ids \in SUBSET Ids /\ sync.time \in Nat /\ sync.started \in Nat /\ sync.started <= sync.time
        BY <2>0, <3>1 DEF SyncFields
      <4> QED BY <2>0, <4>1, <4>2, CopiesAgree
    <3> DEFINE t == ApplyStates(store, sync.ids, sync.found, sync.time, sync.started)
    <3>3. t.removed \subseteq store.removed \cup {i \in sync.ids : i \notin IdsOf(sync.found)}
      BY <2>0, <3>2, StatesKeep
    <3> HIDE DEF t
    <3>4. store' = t
      BY <3>1 DEF t
    <3>5. r.id \in sync.ids => r.id \in IdsOf(sync.found)
      BY <1>1, <3>1 DEF AnswersComplete
    <3> QED BY <1>1, <3>3, <3>4, <3>5
  <2>11. CASE TakeOpening
    <3>1. /\ opening.stage = "answered"
          /\ store' = ConfirmOpening(store, opening.ids, opening.found, opening.time, opening.started)
      BY <1>1, <2>11 DEF TakeOpening
    <3>2. /\ opening.ids \in SUBSET Ids /\ opening.time \in Nat /\ opening.started \in Nat
          /\ opening.started <= opening.time /\ Agreed(RowsOf(store) \cup opening.found)
          /\ \A q \in opening.found : IsFinal(q)
      <4>1. RowsOf(store) \cup opening.found \in SUBSET Copies /\ \A q \in opening.found : IsFinal(q)
        BY <2>0, <3>1 DEF Copies, Sources, OpeningRows, CopiesSound
      <4>2. opening.ids \in SUBSET Ids /\ opening.time \in Nat /\ opening.started \in Nat /\ opening.started <= opening.time
        BY <2>0, <3>1 DEF RequestFields
      <4> QED BY <2>0, <4>1, <4>2, CopiesAgree
    <3> DEFINE t == ConfirmOpening(store, opening.ids, opening.found, opening.time, opening.started)
    <3>3. RemovedUnlisted(store, t, opening.ids, opening.found)
      BY <2>0, <3>2, ConfirmKeeps
    <3> HIDE DEF t
    <3>4. store' = t
      BY <3>1 DEF t
    <3>5. PICK e \in store.entries : e.row.id = r.id /\ e.row.recipient = me
      BY <1>1, <3>3, <3>4 DEF RemovedUnlisted
    <3>6. r.recipient = me
      <4>1. e.row \in Copies
        BY DEF Copies, RowsOf
      <4> QED BY <2>0, <3>5, <4>1 DEF CopiesSound, Agree, SameEnvelope
    <3>7. r.id \in opening.ids => r.id \in IdsOf(opening.found)
      BY <1>1, <3>1, <3>6 DEF AnswersComplete
    <3> QED BY <1>1, <3>3, <3>4, <3>7 DEF RemovedUnlisted
  <2>12. CASE RegainAttention
    <3> DEFINE mid == CancelOpening(store)
    <3>1. /\ StoreSound(mid) /\ Evolves(store, mid, {}) /\ LoadedIds(mid) = LoadedIds(store)
          /\ mid.removed = store.removed /\ mid.lead = store.lead
      BY <2>0, MoveKeeps DEF CancelOpening
    <3>2. store' = SweepStore(mid, ClientNow(store, clock), FALSE)
      BY <2>12 DEF RegainAttention, Supersede
    <3> HIDE DEF mid
    <3>3. RowsOf(mid) \subseteq RowsOf(store)
      BY <3>1, EvolvedRows
    <3> QED BY <1>1, <2>0, <3>1, <3>2, <3>3, SweptForCause
  <2>13. CASE Synchronized
    <3>1. /\ store' = SweepStore(store, ClientNow(store, clock), TRUE) /\ buffered = <<>> /\ sync.stage = "drain" /\ synced'
      BY <2>13 DEF Synchronized
    <3> QED BY <1>1, <2>0, <3>1, SweptForCause
  <2>14. CASE ExpiryTimer
    <3>1. /\ store' = SweepStore(store, ClientNow(store, clock), synced) /\ synced' = synced
      BY <2>14 DEF ExpiryTimer, syncing
    <3>2. synced => buffered = <<>> /\ syncedHere
      BY <2>0 DEF OnlyWhileWatching
    <3> QED BY <1>1, <2>0, <3>1, <3>2, SweptForCause DEF Variables
  <2>15. ASSUME NEW ids, NEW from \in {"pending", "requested", "failed"}, NEW to \in {"pending", "requested", "failed"},
                store' = Move(store, ids, from, to)
         PROVE  FALSE
    BY <1>1, <2>0, <2>15, MoveKeeps
  <2>16. ~Connect /\ ~Disconnect /\ ~LoseAttention
    BY <2>15 DEF Connect, Disconnect, LoseAttention, Supersede, CancelOpening
  <2>17. ~OpenPending /\ ~OpeningFails /\ ~RetryOpening
    BY <1>1, <2>15 DEF OpenPending, OpeningFails, RetryOpening, TakePending, FailOpening, RetryFailed
  <2>18. store' # store
    BY <1>1
  <2>19. ~UNCHANGED vars /\ ~DatabaseStep
    BY <2>18, DatabaseFrame DEF vars, client
  <2>20. /\ ~AnswerPage /\ ~AnswerLookup /\ ~AnswerOlder /\ ~DrainLookup /\ ~BufferEvent /\ ~ReceiveMessage
         /\ ~AskOlder /\ ~Retry /\ ~SyncFails /\ ~OlderFails /\ ~ClearFails
    BY <2>18 DEF AnswerPage, AnswerLookup, AnswerOlder, DrainLookup, BufferEvent, ReceiveMessage,
                 AskOlder, Retry, SyncFails, OlderFails, ClearFails
  <2> HIDE DEF Cause
  <2> QED BY <1>1, <2>3, <2>4, <2>5, <2>6, <2>7, <2>8, <2>9, <2>10, <2>11, <2>12, <2>13, <2>14, <2>16, <2>17, <2>19, <2>20
          DEF Next, DatabaseStep, AnswerStep, UserStep, LinkStep, ClientStep, FailStep
<1>2. Init => AnswersComplete
  BY DEF Init, AnswersComplete, Idle
<1>3. Core /\ Core' /\ AnswersComplete /\ [Next]_vars => AnswersComplete'
  BY AnswersStep
<1>4. Core /\ Core' /\ Currency /\ AnswersComplete /\ [Next]_vars =>
        [\A r \in LiveBetween(messages, me, partner, clock) : r.id \in store'.removed \ store.removed =>
             \/ r.created <= store'.cleared
             \/ ClientNow(store', clock) >= r.expires
             \/ synced' /\ (InFlight("expiry-update", r) \/ r.seq \in stale)]_vars
  BY <1>1 DEF Conversation
<1> QED BY <1>2, <1>3, <1>4, CurrencyHolds, PTL DEF Spec, RemovedForCause

-----------------------------------------------------------------------------
(* Coverage.                                                                 *)

\* A row the session has had it has or has removed.
LEMMA HadStays ==
    ASSUME Control, StoreOK, CopiesSound, SessionStep, NEW r, Had(r)
    PROVE  Had(r)'
<1>1. Evolves(store, store', Sources \cup Updates)
  BY SessionStore DEF StoreEffect
<1>2. CASE r.id \in store.removed
  BY <1>1, <1>2 DEF Evolves, Had
<1>3. ASSUME NEW e \in store.entries, e.row.id = r.id PROVE Had(r)'
  <2>1. e.row.id \in store'.removed \/ Holds(store', e.row)
    BY <1>1 DEF Evolves
  <2> QED BY <1>3, <2>1 DEF Holds, Had, LoadedIds
<1> QED BY <1>2, <1>3 DEF Had, LoadedIds

\* A page that joins the store leaves the session with its rows.
LEMMA HadOnceAdded ==
    ASSUME StoreOK, CopiesSound, NEW rows \in SUBSET Sources, Distinct(rows), store' = Add(store, rows),
           NEW r, r.id \in IdsOf(rows)
    PROVE  Had(r)'
<1>1. PICK v \in rows : v.id = r.id
  BY DEF IdsOf
<1>2. v.id \in store'.removed \/ Holds(store', v)
  BY AddStep
<1> QED BY <1>1, <1>2 DEF Holds, Had, LoadedIds

\* Events come to the store; only a synchronized session decrypts one first.
LEMMA AheadStays ==
    ASSUME Control, StoreOK, CopiesSound, SessionStep, ~Connect, ~Disconnect, NEW r, Ahead(r)
    PROVE  Ahead(r)' \/ Had(r)' \/ (synced /\ Deciphered(r)')
<1>0. Variables
  BY DEF Control
<1>1. PICK v \in Messages : v.id = r.id
  BY DEF Ahead
<1>2. CASE v \in Messages'
  BY <1>1, <1>2 DEF Ahead
<1>3. ASSUME UNCHANGED <<stream, buffered>> PROVE v \in Messages'
  BY <1>1, <1>3 DEF Messages
<1>4. CASE BufferEvent
  <2>1. /\ stream # <<>> /\ Head(stream).type # "conversation-cleared"
        /\ stream' = Tail(stream) /\ buffered' = Append(buffered, Head(stream))
    BY <1>4 DEF BufferEvent
  <2>2. Head(stream) \in RowEvents
    BY <1>0, <2>1, OfTail DEF Variables, RowEvents, Clearances
  <2>3. /\ Of(stream, {"message"}) = Of(stream', {"message"})
               \cup (IF Head(stream).type \in {"message"} THEN {Head(stream).row} ELSE {})
        /\ Of(buffered', {"message"}) = Of(buffered, {"message"})
               \cup (IF Head(stream).type \in {"message"} THEN {Head(stream).row} ELSE {})
    BY <1>0, <2>1, <2>2, OfTail, OfAppend DEF Variables
  <2>4. v \in Messages'
    BY <1>1, <2>3 DEF Messages
  <2> QED BY <1>2, <2>4
<1>5. CASE ReceiveMessage
  <2>1. /\ stream # <<>> /\ synced /\ Head(stream).type = "message" /\ stream' = Tail(stream) /\ buffered' = buffered
        /\ decrypting' = decrypting \cup {Head(stream).row}
    BY <1>5 DEF ReceiveMessage
  <2>2. Of(stream, {"message"}) = Of(Tail(stream), {"message"})
               \cup (IF Head(stream).type \in {"message"} THEN {Head(stream).row} ELSE {})
    BY <1>0, <2>1, OfTail DEF Variables
  <2>3. v \in Messages' \/ v \in decrypting'
    BY <1>1, <2>1, <2>2 DEF Messages
  <2> QED BY <1>1, <1>2, <2>1, <2>3 DEF Deciphered
<1>6. CASE ReceiveUpdate \/ ReceiveClear
  <2>1. /\ stream # <<>> /\ Head(stream).type # "message" /\ stream' = Tail(stream) /\ buffered' = buffered
    BY <1>6 DEF ReceiveUpdate, ReceiveClear, incoming
  <2>2. Of(stream, {"message"}) = Of(Tail(stream), {"message"})
               \cup (IF Head(stream).type \in {"message"} THEN {Head(stream).row} ELSE {})
    BY <1>0, <2>1, OfTail DEF Variables
  <2>3. v \in Messages'
    BY <1>1, <2>1, <2>2 DEF Messages
  <2> QED BY <1>2, <2>3
<1>7. CASE DrainOne
  <2>1. /\ buffered # <<>> /\ buffered' = Tail(buffered) /\ stream' = stream
        /\ store' = BufferedApplied(store, Head(buffered))
    BY <1>7 DEF DrainOne
  <2>2. Of(buffered, {"message"}) = Of(Tail(buffered), {"message"})
               \cup (IF Head(buffered).type \in {"message"} THEN {Head(buffered).row} ELSE {})
    BY <1>0, <2>1, OfTail DEF Variables
  <2>3. CASE v \notin Messages'
    <3>1. v = Head(buffered).row /\ Head(buffered).type = "message"
      BY <1>1, <2>1, <2>2, <2>3 DEF Messages
    <3>2. {v} \in SUBSET Sources /\ Distinct({v}) /\ store' = Add(store, {v}) /\ r.id \in IdsOf({v})
      BY <1>1, <2>1, <3>1 DEF Sources, Distinct, BufferedApplied, IdsOf
    <3> QED BY <3>2, HadOnceAdded
  <2> QED BY <1>2, <2>3
<1>8. LinkStep \/ AnswerPage \/ AnswerLookup \/ AnswerOlder \/ AskOlder \/ Retry \/ RetryOpening \/ FailStep
        => UNCHANGED <<stream, buffered>>
  BY DEF LinkStep, LoseAttention, RegainAttention, Supersede, AnswerPage, AnswerLookup, AnswerOlder, AskOlder, Retry,
         RetryOpening, FailStep, SyncFails, OlderFails, OpeningFails, ClearFails, incoming
<1>9. TakePage \/ TakeStates \/ DrainLookup \/ Synchronized \/ ClearAnswered \/ ExpiryTimer \/ TakeOlder \/ OpenPending
        \/ TakeOpening \/ (\E d \in decrypting : Decrypted(d)) => UNCHANGED <<stream, buffered>>
  BY DEF TakePage, TakeStates, DrainLookup, Synchronized, ClearAnswered, ExpiryTimer, TakeOlder, OpenPending,
         TakeOpening, Decrypted, incoming
<1> QED BY <1>2, <1>3, <1>4, <1>5, <1>6, <1>7, <1>8, <1>9 DEF SessionStep, ClientStep

\* What is being decrypted on a synchronized stream joins the store, unless a
\* focus change forgets it.
LEMMA DecipheredStays ==
    ASSUME Control, StoreOK, CopiesSound, SessionStep, syncedHere, syncedHere', NEW r \in messages
    PROVE  /\ r.seq \in forgotten => r.seq \in forgotten'
           /\ Deciphered(r) => Deciphered(r)' \/ Had(r)' \/ r.seq \in forgotten'
<1>1. ~Connect /\ ~Disconnect
  BY DEF Connect, Disconnect
<1>2. r.seq \in forgotten => r.seq \in forgotten'
  BY <1>1 DEF observed, SessionStep, LinkStep, ClientStep, FailStep, LoseAttention, RegainAttention,
       AnswerPage, TakePage, AnswerLookup, TakeStates, DrainOne, DrainLookup, Synchronized,
       SyncFails, Retry, BufferEvent, ReceiveMessage, Decrypted, ReceiveUpdate, ReceiveClear, ClearAnswered,
       ClearFails, ExpiryTimer, AskOlder, AnswerOlder, TakeOlder, OlderFails, OpenPending, TakeOpening,
       OpeningFails, RetryOpening
<1>3. ASSUME NEW v \in decrypting, v.id = r.id
      PROVE  Deciphered(r)' \/ Had(r)' \/ r.seq \in forgotten'
  <2>1. synced /\ attentive
    BY DEF Control, OnlyWhileWatching
  <2>2. v.seq = r.seq
    BY <1>3 DEF CopiesSound, Copies, Sources, Agree
  <2>3. CASE v \in decrypting'
    BY <1>3, <2>3 DEF Deciphered
  <2>4. CASE LoseAttention
    BY <1>3, <2>2, <2>4 DEF LoseAttention
  <2>5. ASSUME NEW d \in decrypting, Decrypted(d) PROVE v \in decrypting' \/ Had(r)'
    <3>1. decrypting' = decrypting \ {d} /\ store' = Add(store, {d})
      BY <2>1, <2>5 DEF Decrypted
    <3>2. CASE v = d
      <4>1. {d} \in SUBSET Sources /\ Distinct({d}) /\ r.id \in IdsOf({d})
        BY <1>3, <3>2 DEF Sources, Distinct, IdsOf
      <4> QED BY <3>1, <4>1, HadOnceAdded
    <3> QED BY <3>1, <3>2
  <2>6. ~RegainAttention
    BY <2>1 DEF RegainAttention
  <2>7. CASE AnswerPage \/ AnswerLookup \/ AnswerOlder \/ AskOlder \/ Retry \/ RetryOpening \/ FailStep
    BY <1>3, <2>7 DEF AnswerPage, AnswerLookup, AnswerOlder, AskOlder, Retry,
           RetryOpening, FailStep, SyncFails, OlderFails, OpeningFails, ClearFails, incoming, Deciphered
  <2>8. CASE TakePage \/ TakeStates \/ DrainLookup \/ Synchronized \/ ClearAnswered \/ ExpiryTimer \/ TakeOlder \/ OpenPending
          \/ TakeOpening \/ DrainOne \/ BufferEvent \/ ReceiveMessage \/ ReceiveUpdate \/ ReceiveClear
    <3>1. decrypting \subseteq decrypting'
      BY <2>8 DEF TakePage, TakeStates, DrainLookup, Synchronized, ClearAnswered, ExpiryTimer, TakeOlder, OpenPending,
           TakeOpening, DrainOne, BufferEvent, ReceiveMessage, ReceiveUpdate, ReceiveClear, incoming
    <3> QED BY <2>3, <3>1
  <2> QED BY <1>1, <2>3, <2>4, <2>5, <2>6, <2>7, <2>8 DEF SessionStep, ClientStep, LinkStep
<1> QED BY <1>2, <1>3 DEF Deciphered

\* What the session could reach back to it still does, or it has the row.
LEMMA ReachStays ==
    ASSUME Control, StoreOK, CopiesSound, TableInv, SessionStep, ~TakePage, NEW r \in Conversation, Covered(r)
    PROVE  /\ InReach(r)' => InReach(r) \/ Had(r)'
           /\ CoveredByOlder(r)' \/ AnswerOlder
<1>1. CASE TakeOlder
  <2>1. /\ older.stage = "page" /\ store' = Add(store, older.rows) /\ older' = Idle
        /\ olderCursor' = (IF older.rows = {} THEN None ELSE MinSeqOf(older.rows))
        /\ hasMore' = (Cardinality(older.rows) = PageSize)
    BY <1>1 DEF TakeOlder
  <2>2. older.rows \in SUBSET Sources /\ Distinct(older.rows)
    BY <2>1 DEF Sources, OlderRows, CopiesSound
  <2>3. CoveredByOlder(r)'
    BY <2>1 DEF CoveredByOlder, Idle
  <2>4. PageSize # 0 /\ Cardinality({}) = 0
    BY SessionAssumption, FS_EmptySet
  <2>5. ASSUME InReach(r)', ~(r.seq >= olderCursor) PROVE Had(r)'
    <3>1. PageReaches(older.rows, r)
      BY <2>1, <2>4, <2>5 DEF PageReaches, InReach
    <3>2. r.id \in IdsOf(older.rows) \/ ~(r.seq < olderCursor)
      BY <2>1, <3>1 DEF Covered, CoveredByOlder
    <3>3. r.seq \in Nat /\ olderCursor \in Nat
      BY <2>1 DEF Control, RequestFields, Conversation, LiveBetween, TableInv, IInv, TypeOK, Rows
    <3>4. r.id \in IdsOf(older.rows)
      BY <2>5, <3>2, <3>3
    <3> QED BY <2>1, <2>2, <3>4, HadOnceAdded
  <2> QED BY <2>3, <2>5 DEF InReach
<1>2. CASE ~TakeOlder
  <2> USE DEF CoveredByOlder, paging, Idle
  <2>1. UNCHANGED <<hasMore, olderCursor>>
    <3>1. LinkStep \/ AnswerPage \/ AnswerLookup \/ AnswerOlder \/ AskOlder \/ Retry \/ RetryOpening \/ FailStep
            => UNCHANGED <<hasMore, olderCursor>>
      BY DEF LinkStep, Connect, Disconnect, LoseAttention, RegainAttention, Supersede, AnswerPage, AnswerLookup,
             AnswerOlder, AskOlder, Retry, RetryOpening, FailStep, SyncFails, OlderFails, OpeningFails, ClearFails
    <3>2. TakeStates \/ DrainLookup \/ Synchronized \/ ClearAnswered \/ ExpiryTimer \/ OpenPending \/ TakeOpening
            \/ DrainOne \/ BufferEvent \/ ReceiveMessage \/ ReceiveUpdate \/ ReceiveClear
            \/ (\E d \in decrypting : Decrypted(d)) => UNCHANGED <<hasMore, olderCursor>>
      BY DEF TakeStates, DrainLookup, Synchronized, ClearAnswered, ExpiryTimer, OpenPending,
             TakeOpening, DrainOne, BufferEvent, ReceiveMessage, ReceiveUpdate, ReceiveClear, Decrypted
    <3> QED BY <1>2, <3>1, <3>2 DEF SessionStep, ClientStep
  <2>2. AnswerOlder \/ older' = older \/ older'.stage # "page"
    <3>1. LinkStep \/ OlderFails => older' = Idle
      BY DEF LinkStep, Connect, Disconnect, LoseAttention, RegainAttention, Supersede, OlderFails
    <3>2. AskOlder => older'.stage # "page"
      BY DEF AskOlder
    <3>3. AnswerPage \/ AnswerLookup \/ Retry \/ RetryOpening \/ SyncFails \/ OpeningFails \/ ClearFails
            => older' = older
      BY DEF AnswerPage, AnswerLookup, Retry, RetryOpening, SyncFails, OpeningFails, ClearFails
    <3>4. TakeStates \/ DrainLookup \/ Synchronized \/ ClearAnswered \/ ExpiryTimer \/ OpenPending \/ TakeOpening
            \/ DrainOne \/ BufferEvent \/ ReceiveMessage \/ ReceiveUpdate \/ ReceiveClear
            \/ (\E d \in decrypting : Decrypted(d)) => older' = older
      BY DEF TakeStates, DrainLookup, Synchronized, ClearAnswered, ExpiryTimer, OpenPending,
             TakeOpening, DrainOne, BufferEvent, ReceiveMessage, ReceiveUpdate, ReceiveClear, Decrypted
    <3> QED BY <1>2, <3>1, <3>2, <3>3, <3>4 DEF SessionStep, ClientStep, FailStep
  <2>3. CoveredByOlder(r)' \/ AnswerOlder
    BY <2>1, <2>2 DEF Covered
  <2> QED BY <2>1, <2>3 DEF InReach
<1> QED BY <1>1, <1>2

\* The server's answers reach as far as they should.
LEMMA PagesCover ==
    ASSUME Control, TableInv, CopiesSound, SessionStep, NEW r \in Conversation, Covered(r)
    PROVE  /\ AnswerOlder => CoveredByOlder(r)'
           /\ AnswerPage => CoveredSoon(r)'
<1>0. /\ Variables /\ SyncFields /\ RequestFields /\ highWater \in Nat /\ r.seq \in Nat /\ r.seq <= highWater
      /\ r \in LiveBetween(messages, me, partner, clock)
  BY DEF Control, Conversation, LiveBetween, TableInv, IInv, TypeOK, RowsAreSound, KeysAreUnique, Rows
<1>1. ASSUME AnswerOlder PROVE CoveredByOlder(r)'
  <2> DEFINE rows == HistoryRows(messages, me, partner, olderCursor, PageSize, clock)
  <2>1. /\ older.stage = "ask" /\ older' = [stage |-> "page", rows |-> rows] /\ olderCursor' = olderCursor
    BY <1>1 DEF AnswerOlder
  <2>2. olderCursor \in Nat /\ PageSize \in Nat \ {0}
    BY <1>0, <2>1, SessionAssumption DEF RequestFields
  <2>3. r.seq < olderCursor /\ PageReaches(rows, r) => r \in rows
    BY <1>0, <2>2, PageOfHistory DEF PageReaches
  <2> HIDE DEF rows
  <2> QED BY <2>1, <2>3 DEF CoveredByOlder, IdsOf, PageReaches
<1>2. ASSUME AnswerPage, sync.from = None PROVE CoveredSoon(r)'
  <2> DEFINE rows == HistoryRows(messages, me, partner, highWater + 1, PageSize, clock)
  <2>1. sync' = [stage |-> "page", first |-> TRUE, rows |-> rows, upper |-> highWater, next |-> None]
    BY <1>2 DEF AnswerPage
  <2>2. highWater + 1 \in Nat /\ PageSize \in Nat \ {0}
    BY <1>0, SessionAssumption
  <2>3. r.seq < highWater + 1 /\ PageReaches(rows, r) => r \in rows
    BY <1>0, <2>2, PageOfHistory DEF PageReaches
  <2> HIDE DEF rows
  <2>4. PageReaches(rows, r) => r.id \in IdsOf(rows)
    BY <1>0, <2>3 DEF IdsOf
  <2>5. CoveredByPage(r)'
    BY <2>1, <2>4 DEF CoveredByPage, PageReaches
  <2>6. AheadFrom(r, sync.upper)'
    BY <1>0, <2>1 DEF AheadFrom
  <2> QED BY <2>1, <2>5, <2>6 DEF CoveredSoon
<1>3. ASSUME AnswerPage, sync.from # None PROVE CoveredSoon(r)'
  <2> DEFINE bound == IF sync.bound = None THEN highWater ELSE sync.bound
             rows  == RecoveryFetch(messages, me, partner, sync.from, bound, RecoveryLimit, clock)
             page  == FirstRows(rows, RecoveryLimit)
             next  == IF Cardinality(rows) <= RecoveryLimit THEN None ELSE MaxSeqOf(page)
  <2>1. /\ sync' = [stage |-> "page", first |-> FALSE, rows |-> page, upper |-> bound, next |-> next]
        /\ sync.stage = "ask" /\ UNCHANGED <<stream, buffered, store, hasMore, olderCursor>>
    BY <1>3 DEF AnswerPage, incoming, paging
  <2>2. sync.from \in Nat /\ bound \in Nat /\ RecoveryLimit \in Nat \ {0}
    BY <1>0, <1>3, <2>1, SessionAssumption DEF SyncFields, Number
  <2>3. /\ Cardinality(rows) <= RecoveryLimit => (sync.from < r.seq /\ r.seq <= bound => r \in page)
        /\ Cardinality(rows) > RecoveryLimit => /\ MaxSeqOf(page) \in Nat
                                                /\ sync.from < r.seq /\ r.seq <= MaxSeqOf(page) => r \in page
        /\ Cardinality(rows) <= RecoveryLimit \/ Cardinality(rows) > RecoveryLimit
    <3> HIDE DEF bound
    <3>1. Cardinality(rows) \in Nat /\ RecoveryLimit \in Nat
      <4>1. rows \in SUBSET messages
        BY DEF RecoveryFetch, FirstRows, LiveBetween
      <4> HIDE DEF rows
      <4> QED BY <2>2, <4>1, FS_Subset, FS_CardinalityType DEF TableInv
    <3>2. /\ Cardinality(rows) <= RecoveryLimit =>
                    \A q \in LiveBetween(messages, me, partner, clock) : sync.from < q.seq /\ q.seq <= bound => q \in page
          /\ Cardinality(rows) > RecoveryLimit =>
                    /\ MaxSeqOf(page) \in Nat
                    /\ sync.from < MaxSeqOf(page) /\ MaxSeqOf(page) < bound
                    /\ \A q \in LiveBetween(messages, me, partner, clock) :
                          sync.from < q.seq /\ q.seq <= MaxSeqOf(page) => q \in page
      BY <2>2, PageOfRecovery
    <3> HIDE DEF rows, page
    <3> QED BY <1>0, <3>1, <3>2
  <2> HIDE DEF rows, page
  <2>4. Had(r)' = Had(r) /\ InReach(r)' = InReach(r) /\ Ahead(r)' = Ahead(r)
    BY <2>1 DEF Had, InReach, Ahead, Messages
  <2>5. /\ InReach(r) /\ r.seq <= sync.from => Had(r)
        /\ sync.bound # None /\ r.seq > sync.bound => Had(r) \/ Ahead(r)
    BY <1>3, <2>1 DEF Covered, CoveredSoon, CoveredTo, AheadFrom
  <2>6. AheadFrom(r, sync.upper)'
    <3>1. sync'.upper = bound
      BY <2>1
    <3>2. r.seq > bound => Had(r) \/ Ahead(r)
      BY <1>0, <2>5
    <3> QED BY <2>4, <3>1, <3>2 DEF AheadFrom
  <2>7. CoveredByPage(r)'
    <3>1. sync'.first = FALSE /\ sync'.rows = page /\ sync'.upper = bound /\ sync'.next = next
      BY <2>1
    <3>2. InReach(r) /\ r.seq <= (IF next = None THEN bound ELSE next) => Had(r) \/ r.id \in IdsOf(page)
      BY <1>0, <2>2, <2>3, <2>5 DEF IdsOf, None
    <3> HIDE DEF bound, next
    <3> QED BY <2>4, <3>1, <3>2 DEF CoveredByPage
  <2> QED BY <2>1, <2>6, <2>7 DEF CoveredSoon
<1> QED BY <1>1, <1>2, <1>3

\* A page of the synchronization joins the store.
LEMMA CoveredByTaking ==
    ASSUME Control, StoreOK, TableInv, CopiesSound, TakePage, NEW r \in Conversation, Covered(r)
    PROVE  Covered(r)'
<1>0. /\ SessionStep /\ SyncFields /\ RequestFields /\ Variables /\ OnlyWhileWatching /\ r.seq \in Nat
      /\ r \in messages /\ ~Connect /\ ~Disconnect
  BY DEF SessionStep, ClientStep, Control, Conversation, LiveBetween, TableInv, IInv, TypeOK, Rows,
         TakePage, Connect, Disconnect, link
<1>1. /\ sync.stage = "page" /\ store' = Add(store, sync.rows) /\ checkpoint' = Baseline
      /\ UNCHANGED <<stream, buffered, decrypting, older, syncedHere, forgotten, synced>>
      /\ sync.first => /\ olderCursor' = IF sync.rows = {} THEN None ELSE MinSeqOf(sync.rows)
                       /\ hasMore' = (Cardinality(sync.rows) = PageSize)
      /\ ~sync.first => UNCHANGED <<olderCursor, hasMore>>
  BY DEF TakePage, incoming, observed
<1>2. ~synced /\ (sync.first <=> checkpoint = None) /\ sync.first \in BOOLEAN /\ sync.upper \in Nat /\ sync.next \in Number
      /\ (sync.first => sync.next = None /\ ~syncedHere /\ older = Idle)
  BY <1>0, <1>1 DEF OnlyWhileWatching, SyncFields, RequestFields, Idle, Number
<1>3. Had(r) => Had(r)'
  BY <1>0, HadStays
<1>4. r.id \in IdsOf(sync.rows) => Had(r)'
  <2>1. sync.rows \in SUBSET Sources /\ Distinct(sync.rows)
    BY <1>1 DEF Sources, PageRows, CopiesSound
  <2> QED BY <1>1, <2>1, HadOnceAdded
<1>5. Ahead(r) => Ahead(r)' \/ Had(r)'
  BY <1>0, <1>2, AheadStays
<1>6. CoveredByPage(r) /\ AheadFrom(r, sync.upper)
  BY <1>1 DEF Covered, CoveredSoon
<1>7. CASE sync.first
  <2>1. PageSize # 0 /\ Cardinality({}) = 0
    BY SessionAssumption, FS_EmptySet
  <2>2. InReach(r)' /\ r.seq <= sync.upper => Had(r)'
    BY <1>1, <1>4, <1>6, <1>7, <2>1 DEF CoveredByPage, PageReaches, InReach
  <2>3. r.seq > sync.upper => Ahead(r)' \/ Had(r)'
    BY <1>2, <1>3, <1>5, <1>6 DEF AheadFrom, None
  <2>4. checkpoint' = sync.upper
    BY <1>1, <1>7 DEF Baseline
  <2>5. /\ sync'.stage \in {"look", "drain"} /\ sync'.completed = sync.upper
    BY <1>2, <1>7 DEF TakePage, NextRound, Drain
  <2>6. CoveredLive(r)'
    BY <1>1, <1>2, <1>7, <2>2, <2>4 DEF CoveredLive, CoveredTo
  <2>7. CoveredSoon(r)'
    BY <2>2, <2>3, <2>5 DEF CoveredSoon, CoveredTo, AheadFrom
  <2>8. CoveredByOlder(r)'
    BY <1>1, <1>2, <1>7 DEF CoveredByOlder, Idle
  <2> QED BY <2>6, <2>7, <2>8 DEF Covered
<1>8. CASE ~sync.first
  <2>1. InReach(r)' = InReach(r) /\ checkpoint' = checkpoint
    BY <1>1, <1>8 DEF InReach, Baseline
  <2>2. CoveredLive(r)'
    <3>1. CoveredTo(r, checkpoint)'
      BY <1>3, <2>1 DEF Covered, CoveredLive, CoveredTo
    <3>2. syncedHere' /\ Deciphered(r) => Deciphered(r)' \/ Had(r)' \/ r.seq \in forgotten'
      BY <1>1 DEF Deciphered
    <3>3. syncedHere' /\ InReach(r)' => Had(r)' \/ Ahead(r)' \/ Deciphered(r)' \/ r.seq \in forgotten'
      BY <1>1, <1>3, <1>5, <2>1, <3>2 DEF Covered, CoveredLive
    <3> QED BY <3>1, <3>3 DEF CoveredLive
  <2>3. InReach(r)' /\ r.seq <= (IF sync.next = None THEN sync.upper ELSE sync.next) => Had(r)'
    BY <1>3, <1>4, <1>6, <1>8, <2>1 DEF CoveredByPage
  <2>4. r.seq > sync.upper => Ahead(r)' \/ Had(r)'
    BY <1>2, <1>3, <1>5, <1>6 DEF AheadFrom, None
  <2>5. CoveredSoon(r)'
    <3>1. CASE sync.next = None
      <4>1. /\ sync'.stage \in {"look", "drain"} /\ sync'.completed = sync.upper
        BY <3>1 DEF TakePage, NextRound, Drain
      <4> QED BY <2>3, <2>4, <3>1, <4>1 DEF CoveredSoon, CoveredTo, AheadFrom
    <3>2. CASE sync.next # None
      <4>1. sync' = AskServer(sync.next, sync.upper)
        BY <3>2 DEF TakePage
      <4> QED BY <2>3, <2>4, <3>2, <4>1 DEF CoveredSoon, CoveredTo, AheadFrom, AskServer
    <3> QED BY <3>1, <3>2
  <2>6. CoveredByOlder(r)'
    BY <1>1, <1>8 DEF CoveredByOlder, Covered
  <2> QED BY <2>2, <2>5, <2>6 DEF Covered
<1> QED BY <1>2, <1>7, <1>8

\* The synchronization under way, in the steps that leave its pages alone.
LEMMA SoonStays ==
    ASSUME Control, StoreOK, TableInv, CopiesSound, SessionStep, ~TakePage, ~AnswerPage, NEW r \in Conversation, Covered(r)
    PROVE  CoveredSoon(r)'
<1>0. /\ Variables /\ SyncFields /\ OnlyWhileWatching
      /\ CoveredLive(r) /\ CoveredSoon(r)
      /\ Had(r) => Had(r)'
      /\ InReach(r)' => InReach(r) \/ Had(r)'
  BY HadStays, ReachStays DEF Control, Covered
<1> USE DEF CoveredTo, AheadFrom
<1>1. \A n : CoveredTo(r, n) => (n # None /\ InReach(r)' /\ r.seq <= n => Had(r)')
  BY <1>0
<1>2. ASSUME sync' = Idle \/ sync' = Failed \/ sync' = AskServer(checkpoint, None) \/ sync' = Drain(None)
      PROVE  CoveredSoon(r)'
  <2>1. CASE sync' = AskServer(checkpoint, None)
    BY <1>0, <1>1, <2>1 DEF CoveredSoon, CoveredLive, AskServer
  <2>2. CASE sync' = Drain(None)
    BY <2>2 DEF CoveredSoon, Drain
  <2>3. CASE sync' = Idle \/ sync' = Failed
    BY <2>3 DEF CoveredSoon, Idle, Failed
  <2> QED BY <1>2, <2>1, <2>2, <2>3
<1>3. CASE LinkStep \/ Synchronized \/ Retry \/ SyncFails
  <2>1. sync' \in {Idle, Failed, AskServer(checkpoint, None), Drain(None)}
    BY <1>3 DEF LinkStep, Connect, Disconnect, LoseAttention, RegainAttention, Variables, Control,
                Synchronized, Retry, SyncFails, AfterFailure, StartSync
  <2> QED BY <1>2, <2>1
<1>4. CASE ~LinkStep
  <2>0. ~Connect /\ ~Disconnect
    BY <1>4 DEF LinkStep
  <2>1. sync # Idle /\ Ahead(r) => Ahead(r)' \/ Had(r)'
    BY <1>0, <2>0, AheadStays DEF OnlyWhileWatching
  <2>2. ASSUME sync' = sync PROVE CoveredSoon(r)'
    <3>1. CASE sync = Idle
      BY <1>2, <2>2, <3>1
    <3>2. CASE sync # Idle
      <4>1. sync.stage = "page" => CoveredByPage(r)'
        BY <1>0, <2>2 DEF CoveredSoon, CoveredByPage
      <4>2. sync.stage = "page" => AheadFrom(r, sync.upper)'
        BY <1>0, <2>1, <2>2, <3>2 DEF CoveredSoon
      <4>3. sync.stage = "ask" => CoveredTo(r, sync.from)' /\ AheadFrom(r, sync.bound)'
        BY <1>0, <2>1, <2>2, <3>2 DEF CoveredSoon
      <4>4. sync.stage \in {"look", "states", "drain"} => CoveredTo(r, sync.completed)' /\ AheadFrom(r, sync.completed)'
        BY <1>0, <2>1, <2>2, <3>2 DEF CoveredSoon
      <4> QED BY <2>2, <4>1, <4>2, <4>3, <4>4 DEF CoveredSoon
    <3> QED BY <3>1, <3>2
  <2>3. ASSUME sync.stage \in {"look", "states", "drain"}, sync'.stage \in {"look", "states", "drain"},
               sync'.completed = sync.completed
        PROVE  CoveredSoon(r)'
    <3>1. sync # Idle
      BY <2>3 DEF Idle
    <3> QED BY <1>0, <2>1, <2>3, <3>1 DEF CoveredSoon
  <2>4. CASE AnswerLookup
    BY <2>3, <2>4 DEF AnswerLookup
  <2>5. CASE DrainLookup
    BY <2>3, <2>5 DEF DrainLookup
  <2>6. CASE TakeStates
    <3> DEFINE next == NextRound(LoadedIds(store'), sync.round + 1, sync.refreshed \cup sync.ids, sync.completed)
    <3>1. next.stage \in {"look", "drain"} /\ next.completed = sync.completed
      BY DEF NextRound, Drain
    <3>2. /\ sync.stage = "states"
          /\ sync' \in {Idle, Failed, AskServer(checkpoint, None), Drain(sync.completed), next}
      BY <2>6 DEF TakeStates, AfterFailure, StartSync
    <3> HIDE DEF next
    <3> QED BY <1>2, <2>3, <3>1, <3>2 DEF Drain
  <2>7. CASE \E d \in decrypting : Decrypted(d)
    <3>1. sync' \in {sync, Idle, AskServer(checkpoint, None)}
      BY <2>7 DEF Decrypted, StartSync
    <3> QED BY <1>2, <2>2, <3>1
  <2>8. AnswerOlder \/ AskOlder \/ RetryOpening \/ OlderFails \/ OpeningFails \/ ClearFails => sync' = sync
    BY DEF AnswerOlder, AskOlder, RetryOpening, OlderFails, OpeningFails, ClearFails, syncing
  <2>9. DrainOne \/ BufferEvent \/ ReceiveMessage \/ ReceiveUpdate \/ ReceiveClear \/ ClearAnswered \/ ExpiryTimer
           \/ TakeOlder \/ OpenPending \/ TakeOpening => sync' = sync
    BY DEF DrainOne, BufferEvent, ReceiveMessage, ReceiveUpdate, ReceiveClear, ClearAnswered, ExpiryTimer,
           TakeOlder, OpenPending, TakeOpening, syncing
  <2> QED BY <1>3, <1>4, <2>2, <2>4, <2>5, <2>6, <2>7, <2>8, <2>9 DEF SessionStep, ClientStep, FailStep
<1> QED BY <1>3, <1>4

\* What the session has received it keeps; it becomes synchronized only with
\* everything up to the bound of its pages and the events since.
LEMMA LiveStays ==
    ASSUME Control, StoreOK, TableInv, CopiesSound, SessionStep, ~TakePage, NEW r \in Conversation, Covered(r)
    PROVE  CoveredLive(r)'
<1>0. /\ SyncFields /\ OnlyWhileWatching /\ r \in messages /\ r.seq \in Nat
      /\ CoveredLive(r) /\ CoveredSoon(r)
      /\ Had(r) => Had(r)'
      /\ InReach(r)' => InReach(r) \/ Had(r)'
  BY HadStays, ReachStays DEF Control, Covered, Conversation, LiveBetween, TableInv, IInv, TypeOK, Rows
<1>1. CASE Synchronized
  <2>1. /\ sync.stage = "drain"
        /\ checkpoint' = (IF sync.completed = None THEN checkpoint ELSE sync.completed)
        /\ UNCHANGED <<stream, buffered, decrypting, forgotten>>
    BY <1>1 DEF Synchronized, incoming, observed
  <2>2. /\ sync.completed \in Number /\ (sync.completed = None => syncedHere)
    BY <1>0, <2>1 DEF SyncFields
  <2>3. /\ Ahead(r)' = Ahead(r) /\ Deciphered(r)' = Deciphered(r) /\ forgotten' = forgotten
    BY <2>1 DEF Ahead, Deciphered, Messages
  <2>4. CASE sync.completed = None
    BY <1>0, <2>1, <2>2, <2>3, <2>4 DEF CoveredLive, CoveredTo
  <2>5. CASE sync.completed # None
    <3>1. /\ InReach(r) /\ r.seq <= sync.completed => Had(r)
          /\ r.seq > sync.completed => Had(r) \/ Ahead(r)
      BY <1>0, <2>1, <2>5 DEF CoveredSoon, CoveredTo, AheadFrom
    <3>2. r.seq <= sync.completed \/ r.seq > sync.completed
      <4>1. sync.completed \in Int
        BY <2>2, <2>5 DEF Number
      <4> QED BY <1>0, <4>1
    <3> QED BY <1>0, <2>1, <2>3, <2>5, <3>1, <3>2 DEF CoveredLive, CoveredTo
  <2> QED BY <2>4, <2>5
<1>2. CASE ~Synchronized
  <2>1. checkpoint' = checkpoint /\ (syncedHere' => syncedHere)
    <3> USE DEF syncing
    <3>1. AnswerPage \/ AnswerLookup \/ AnswerOlder \/ AskOlder \/ Retry \/ RetryOpening \/ FailStep
            => checkpoint' = checkpoint /\ syncedHere' = syncedHere
      BY DEF AnswerPage, AnswerLookup, AnswerOlder, AskOlder, Retry, RetryOpening, FailStep, SyncFails, OlderFails,
             OpeningFails, ClearFails
    <3>4. Connect \/ Disconnect => checkpoint' = checkpoint /\ ~syncedHere'
      BY DEF Connect, Disconnect, Supersede
    <3>5. LoseAttention \/ RegainAttention => checkpoint' = checkpoint /\ syncedHere' = syncedHere
      BY DEF LoseAttention, RegainAttention, Supersede
    <3>2. TakeStates \/ DrainLookup \/ ClearAnswered \/ ExpiryTimer \/ OpenPending \/ TakeOpening \/ TakeOlder
            \/ DrainOne \/ BufferEvent \/ ReceiveMessage \/ ReceiveUpdate \/ ReceiveClear
            => checkpoint' = checkpoint /\ syncedHere' = syncedHere
      BY DEF TakeStates, DrainLookup, ClearAnswered, ExpiryTimer, OpenPending, TakeOlder,
             TakeOpening, DrainOne, BufferEvent, ReceiveMessage, ReceiveUpdate, ReceiveClear
    <3>3. (\E d \in decrypting : Decrypted(d)) => checkpoint' = checkpoint /\ (syncedHere' => syncedHere)
      BY DEF Decrypted
    <3> QED BY <1>2, <3>1, <3>2, <3>3, <3>4, <3>5 DEF SessionStep, LinkStep, ClientStep
  <2>2. CoveredTo(r, checkpoint)'
    BY <1>0, <2>1 DEF CoveredLive, CoveredTo
  <2>3. ASSUME syncedHere', InReach(r)' PROVE Had(r)' \/ Ahead(r)' \/ Deciphered(r)' \/ r.seq \in forgotten'
    <3>1. syncedHere /\ ~Connect /\ ~Disconnect
      BY <2>1, <2>3 DEF Connect, Disconnect
    <3>2. Ahead(r) => Ahead(r)' \/ Had(r)' \/ Deciphered(r)'
      BY <3>1, AheadStays
    <3>3. /\ r.seq \in forgotten => r.seq \in forgotten'
          /\ Deciphered(r) => Deciphered(r)' \/ Had(r)' \/ r.seq \in forgotten'
      BY <1>0, <2>3, <3>1, DecipheredStays
    <3> QED BY <1>0, <2>3, <3>1, <3>2, <3>3 DEF CoveredLive
  <2> QED BY <2>2, <2>3 DEF CoveredLive
<1> QED BY <1>1, <1>2

\* What coverage says of a row it says of its number and id.
LEMMA CoverageOfVersion ==
    ASSUME NEW r, NEW q, r.seq = q.seq, r.id = q.id, Covered(q)
    PROVE  Covered(r)
<1>1. /\ InReach(r) = InReach(q) /\ Had(r) = Had(q) /\ Ahead(r) = Ahead(q) /\ Deciphered(r) = Deciphered(q)
      /\ \A rows : PageReaches(rows, r) = PageReaches(rows, q)
  BY DEF InReach, Had, Ahead, Deciphered, PageReaches
<1>2. CoveredLive(r)
  BY <1>1 DEF Covered, CoveredLive, CoveredTo
<1>3. CoveredSoon(r)
  <2>1. sync.stage = "page" => CoveredByPage(r)
    BY <1>1 DEF Covered, CoveredSoon, CoveredByPage
  <2> QED BY <1>1, <2>1 DEF Covered, CoveredSoon, CoveredTo, AheadFrom
<1>4. CoveredByOlder(r)
  BY <1>1 DEF Covered, CoveredByOlder
<1> QED BY <1>2, <1>3, <1>4 DEF Covered

\* Only an acceptance adds a number, and an open stream tells of it.
LEMMA NewRowsAreTold ==
    ASSUME Control, TableInv, DatabaseStep, conn, NEW r \in messages', ~(r.seq <= highWater)
    PROVE  Ahead(r)'
<1>0. /\ Variables /\ highWater \in Nat /\ me \in Addresses /\ partner \in Addresses
      /\ \A q \in messages : q.seq <= highWater
  BY SessionAssumption DEF Control, TableInv, IInv, TypeOK, RowsAreSound, KeysAreUnique
<1>1. ASSUME NEW e \in Envelopes, Accept(e) PROVE Ahead(r)'
  <2> DEFINE row == AcceptedRow(e, NextSeq, clock)
  <2>1. row \in Messages' /\ messages' = messages \cup {row}
    BY <1>0, <1>1, AcceptingTells
  <2> HIDE DEF row
  <2>2. r = row
    BY <1>0, <2>1
  <2> QED BY <2>1, <2>2 DEF Ahead
<1>2. ASSUME NEW a, NEW b, NEW ids, Open(a, b, ids) PROVE FALSE
  <2>1. PICK q \in messages : r = q \/ r = OpenedRow(q, clock)
    BY <1>2 DEF Open, NewlyOpened, Available
  <2>2. r.seq = q.seq
    BY <2>1 DEF OpenedRow, TableInv, IInv, TypeOK, Rows
  <2> QED BY <1>0, <2>2
<1>3. ASSUME NEW a, NEW b, OpenElsewhere(a, b) PROVE FALSE
  BY <1>2, <1>3 DEF OpenElsewhere, OpenAndTell
<1>4. ~AnswerOpening
  BY <1>2 DEF AnswerOpening, OpenAndTell
<1>5. ~PartnerClears /\ ~ClearHere /\ ~SweepExpired /\ ~Pass
  BY <1>0 DEF PartnerClears, ClearHere, Clear, SweepExpired, Sweep, Pass, Tick
<1> QED BY <1>1, <1>3, <1>4, <1>5 DEF DatabaseStep, ServerStep

LEMMA CoverageOnServer ==
    ASSUME Core, Core', Coverage, DatabaseStep
    PROVE  Coverage'
<1>0. /\ TableInv /\ TableInv' /\ Control /\ CopiesSound /\ highWater \in Nat /\ [DbNext]_dbVars
      /\ SyncFields /\ Variables /\ OnlyWhileWatching /\ RequestFields
  BY TablesStep DEF Core, Control, TableInv, IInv, TypeOK, Next, DatabaseStep, AnswerStep, UserStep
<1>1. UNCHANGED <<store, sync, checkpoint, syncedHere, decrypting, older, hasMore, olderCursor, forgotten, conn>>
  BY DatabaseFrame DEF link, syncing, incoming, paging, observed
<1>2. \A r : /\ InReach(r)' = InReach(r) /\ Had(r)' = Had(r) /\ Deciphered(r)' = Deciphered(r)
             /\ Ahead(r) => Ahead(r)'
             /\ \A rows : PageReaches(rows, r)' = PageReaches(rows, r)
  BY <1>0, <1>1, DatabaseFlow DEF InReach, Had, Deciphered, Ahead, PageReaches
<1>3. ASSUME NEW r \in Conversation' PROVE Covered(r)'
  <2>0. r \in LiveBetween(messages', me, partner, clock') /\ r \in messages' /\ r.seq \in Nat
    BY <1>0 DEF Conversation, LiveBetween, TableInv, IInv, TypeOK, Rows
  <2>1. CASE r.seq <= highWater
    <3>1. PICK q \in Conversation : q.seq = r.seq /\ q.id = r.id
      BY <1>0, <2>0, <2>1, LiveRowsWere DEF Conversation
    <3>2. Covered(q)
      BY DEF Coverage
    <3>3. Covered(r)
      BY <3>1, <3>2, CoverageOfVersion
    <3>4. CoveredLive(r)'
      BY <1>1, <1>2, <3>3 DEF Covered, CoveredLive, CoveredTo
    <3>5. CoveredSoon(r)'
      <4>1. sync.stage = "page" => CoveredByPage(r)'
        BY <1>1, <1>2, <3>3 DEF Covered, CoveredSoon, CoveredByPage
      <4> QED BY <1>1, <1>2, <3>3, <4>1 DEF Covered, CoveredSoon, CoveredTo, AheadFrom
    <3>6. CoveredByOlder(r)'
      BY <1>1, <1>2, <3>3 DEF Covered, CoveredByOlder
    <3> QED BY <3>4, <3>5, <3>6 DEF Covered
  <2>2. CASE ~(r.seq <= highWater)
    <3>1. conn => Ahead(r)'
      BY <1>0, <2>0, <2>2, NewRowsAreTold
    <3>2. \A n \in Number : ~(n # None /\ r.seq <= n)
      BY <1>0, <2>0, <2>2 DEF Number
    <3>3. checkpoint \in Number
      BY <1>0 DEF Variables
    <3>4. CoveredLive(r)'
      BY <1>0, <1>1, <3>1, <3>2, <3>3 DEF CoveredLive, CoveredTo, OnlyWhileWatching
    <3>5. ASSUME sync = Idle PROVE CoveredSoon(r)'
      <4>1. sync'.stage = "idle"
        BY <1>1, <3>5 DEF Idle
      <4> QED BY <4>1 DEF CoveredSoon
    <3>6. ASSUME sync # Idle PROVE CoveredSoon(r)'
      <4>1. Ahead(r)'
        BY <1>0, <3>1, <3>6 DEF OnlyWhileWatching
      <4>2. sync.stage = "page" => CoveredByPage(r)'
        <5>1. sync.stage = "page" => sync.upper \in Number /\ sync.upper # None /\ sync.next \in Number
          BY <1>0 DEF SyncFields, Number, None
        <5> QED BY <1>1, <3>2, <5>1 DEF CoveredByPage
      <4>3. sync.stage = "ask" => sync.from \in Number
        BY <1>0 DEF SyncFields
      <4>4. sync.stage \in {"look", "states", "drain"} => sync.completed \in Number
        BY <1>0 DEF SyncFields
      <4>6. sync.stage = "ask" => CoveredTo(r, sync.from)' /\ AheadFrom(r, sync.bound)'
        BY <1>1, <3>2, <4>1, <4>3 DEF CoveredTo, AheadFrom
      <4>7. sync.stage = "page" => AheadFrom(r, sync.upper)'
        BY <4>1 DEF AheadFrom
      <4>8. sync.stage \in {"look", "states", "drain"} => CoveredTo(r, sync.completed)' /\ AheadFrom(r, sync.completed)'
        BY <1>1, <3>2, <4>1, <4>4 DEF CoveredTo, AheadFrom
      <4>9. sync'.stage = sync.stage
        BY <1>1
      <4> QED BY <4>2, <4>6, <4>7, <4>8, <4>9 DEF CoveredSoon
    <3>7. CoveredByOlder(r)'
      <4>1. older.stage = "page" => ~(r.seq < olderCursor)
        BY <1>0, <2>0, <2>2 DEF RequestFields
      <4> QED BY <1>1, <4>1 DEF CoveredByOlder
    <3> QED BY <3>4, <3>5, <3>6, <3>7 DEF Covered
  <2> QED BY <2>1, <2>2
<1> QED BY <1>3 DEF Coverage

\* A synchronized session misses no live message in the range it loaded: it
\* has it, has removed it, is decrypting it or has its event in flight, unless
\* a focus change cut its decryption short.
THEOREM SessionMissesNothingElse == Spec => []NothingElseMissing
<1>1. ASSUME Core, Core', Coverage, [Next]_vars PROVE Coverage'
  <2>0. TableInv /\ TableInv' /\ Control /\ StoreOK /\ CopiesSound
    BY <1>1 DEF Core
  <2>1. CASE UNCHANGED vars
    <3>1. UNCHANGED <<messages, clock, store, stream, buffered, decrypting, sync, syncedHere, checkpoint, older,
                      hasMore, olderCursor, forgotten>>
      BY <2>1 DEF vars, dbVars, client, syncing, incoming, paging, observed
    <3>2. /\ Conversation' = Conversation
          /\ \A r : /\ InReach(r)' = InReach(r) /\ Had(r)' = Had(r) /\ Ahead(r)' = Ahead(r)
                    /\ Deciphered(r)' = Deciphered(r)
                    /\ \A rows : PageReaches(rows, r)' = PageReaches(rows, r)
      BY <3>1 DEF Conversation, InReach, Had, Ahead, Deciphered, Messages, PageReaches
    <3>3. \A r : Covered(r)' = Covered(r)
      BY <3>1, <3>2 DEF Covered, CoveredLive, CoveredSoon, CoveredByPage, CoveredByOlder, CoveredTo, AheadFrom
    <3> QED BY <1>1, <3>2, <3>3 DEF Coverage
  <2>2. CASE SessionStep
    <3>1. Conversation' = Conversation
      BY <2>2, SessionKeepsDb DEF Conversation, dbVars
    <3>2. ASSUME NEW r \in Conversation PROVE Covered(r)'
      <4>1. Covered(r)
        BY <1>1 DEF Coverage
      <4>2. CASE TakePage
        BY <2>0, <4>1, <4>2, CoveredByTaking
      <4>3. CASE ~TakePage
        <5>1. CoveredByOlder(r)' /\ (AnswerPage => CoveredSoon(r)')
          BY <2>0, <2>2, <4>1, <4>3, ReachStays, PagesCover
        <5>2. CoveredSoon(r)'
          BY <2>0, <2>2, <4>1, <4>3, <5>1, SoonStays
        <5>3. CoveredLive(r)'
          BY <2>0, <2>2, <4>1, <4>3, LiveStays
        <5> QED BY <5>1, <5>2, <5>3 DEF Covered
      <4> QED BY <4>2, <4>3
    <3> QED BY <3>1, <3>2 DEF Coverage
  <2>3. CASE DatabaseStep
    BY <1>1, <2>3, CoverageOnServer
  <2> QED BY <1>1, <2>1, <2>2, <2>3 DEF Next, DatabaseStep, SessionStep, AnswerStep, UserStep
<1>2. Init => Coverage
  BY DEF Init, DbInit, Coverage, Conversation, LiveBetween
<1>3. Core /\ Coverage => NothingElseMissing
  <2> SUFFICES ASSUME Core, Coverage, synced, NEW r \in InRange
               PROVE  HasOrAwaits(r) \/ r.seq \in forgotten
    BY DEF NothingElseMissing
  <2>1. /\ r \in Conversation /\ InReach(r) /\ r \in messages
        /\ syncedHere /\ buffered = <<>> /\ CopiesSound
    BY DEF InRange, Conversation, InReach, LiveBetween, Core, Control, OnlyWhileWatching
  <2>2. Had(r) \/ Ahead(r) \/ Deciphered(r) \/ r.seq \in forgotten
    BY <2>1 DEF Coverage, Covered, CoveredLive
  <2>3. ASSUME NEW v \in Sources, v.id = r.id PROVE v.seq = r.seq
    BY <2>1, <2>3 DEF CopiesSound, Copies, Agree
  <2>4. ASSUME Ahead(r) PROVE InFlight("message", r)
    <3>1. PICK v \in Messages : v.id = r.id
      BY <2>4 DEF Ahead
    <3>2. v.seq = r.seq
      BY <2>3, <3>1 DEF Sources
    <3>3. v \in Of(stream, {"message"})
      BY <2>1, OfNone DEF Messages
    <3> QED BY <3>2, <3>3 DEF Of, InFlight
  <2>5. Deciphered(r) => \E d \in decrypting : d.seq = r.seq
    BY <2>3 DEF Deciphered, Sources
  <2> QED BY <2>2, <2>4, <2>5 DEF Had, HasOrAwaits
<1>4. Spec => []Coverage
  <2>1. Core /\ Core' /\ Coverage /\ [Next]_vars => Coverage'
    BY <1>1
  <2> QED BY <1>2, <2>1, CoreHolds, PTL DEF Spec
<1> QED BY <1>3, <1>4, CoreHolds, PTL
=============================================================================
