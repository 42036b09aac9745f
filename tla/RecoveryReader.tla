--------------------------- MODULE RecoveryReader ---------------------------
(***************************************************************************)
(* How a browser reads one conversation page by page while the database    *)
(* goes on changing: the newest history page and its recovery checkpoint,  *)
(* older pages before a cursor, and, after every reconnect, the recovery   *)
(* of what was accepted since the checkpoint.  Both ends are modelled: the *)
(* queries of src/server/db.ts and the cursor handling of                  *)
(* src/client/lib/conversation-session.ts.                                 *)
(*                                                                         *)
(*   phase        "new" before the first page; "recovering" between two    *)
(*                pages of one recovery; else "idle"                       *)
(*   got          the acceptance numbers of all rows received              *)
(*   olderCursor  next_before_seq of the oldest page                       *)
(*   hasMore      whether the oldest page was full                         *)
(*   checkpoint   recoveryCursor: the upper bound of what was recovered    *)
(*   lower/upper  the continuation cursor of a recovery under way          *)
(*                                                                         *)
(* A cursor is a signed token naming two identities and a sequence number. *)
(* Here it is the number: what the signature protects is not modelled.     *)
(***************************************************************************)
EXTENDS ChatDatabase

CONSTANTS
    me, partner,    \* whose conversation is read
    PageSize,       \* rows in a history page
    RecoveryLimit   \* rows in a recovery page

ASSUME ReaderAssumption ==
    /\ me \in Addresses /\ partner \in Addresses /\ me # partner
    /\ PageSize \in Nat \ {0} /\ RecoveryLimit \in Nat \ {0}

VARIABLES phase, got, olderCursor, hasMore, checkpoint, lower, upper

readerVars == <<phase, got, olderCursor, hasMore, checkpoint, lower, upper>>
recoveryVars == <<dbVars, readerVars>>

NoCursor == 0   \* next_before_seq of an empty page

ReaderInit ==
    /\ DbInit
    /\ phase = "new" /\ got = {} /\ olderCursor = NoCursor /\ hasMore = FALSE
    /\ checkpoint = 0 /\ lower = 0 /\ upper = 0

Seqs(rows) == {r.seq : r \in rows}

-----------------------------------------------------------------------------
(* History pages *)

\* A page of the newest rows before `before`.
LoadPage(before) ==
    LET rows == HistoryRows(messages, me, partner, before, PageSize, clock)
    IN  /\ got' = got \cup Seqs(rows)
        /\ olderCursor' = IF rows = {} THEN NoCursor ELSE MinSeqOf(rows)
        /\ hasMore' = (Cardinality(rows) = PageSize)

\* mutant: off by one
CheckpointAhead == highWater + 1

\* recovery_sequence, read in the transaction of the page.
InitialCheckpoint == highWater

\* The initial page of synchronize.
LoadNewest ==
    /\ phase = "new"
    /\ LoadPage(highWater + 1)
    /\ checkpoint' = InitialCheckpoint
    /\ phase' = "idle"
    /\ UNCHANGED <<lower, upper, dbVars>>

\* fetchOlder, while synchronized.
LoadOlder ==
    /\ phase = "idle" /\ hasMore /\ olderCursor # NoCursor
    /\ LoadPage(olderCursor)
    /\ UNCHANGED <<phase, checkpoint, lower, upper, dbVars>>

-----------------------------------------------------------------------------
(* Recovery pages *)

\* mutant: a recovery is taken to fit in one page
AlwaysExhausted(rows) == TRUE

\* LIMIT 101 of a page of 100.
Exhausted(rows) == Cardinality(rows) <= RecoveryLimit

\* mutant: the continuation starts after the row that only showed there is more
ContinueAfterFetched(rows) == MaxSeqOf(rows)

ContinueAfter(rows) == MaxSeqOf(FirstRows(rows, RecoveryLimit))

\* One page of the interval (from, bound]: its rows, and either the new
\* checkpoint or the cursor of the next page.
ReadPage(from, bound) ==
    LET rows == RecoveryFetch(messages, me, partner, from, bound, RecoveryLimit, clock)
    IN  /\ got' = got \cup Seqs(FirstRows(rows, RecoveryLimit))
        /\ IF Exhausted(rows)
           THEN /\ phase' = "idle"
                /\ checkpoint' = bound
                /\ UNCHANGED <<lower, upper>>
           ELSE /\ phase' = "recovering"
                /\ lower' = ContinueAfter(rows)
                /\ upper' = bound
                /\ UNCHANGED checkpoint
        /\ UNCHANGED <<olderCursor, hasMore, dbVars>>

\* recover({ after }): the server takes its high-water mark as the bound.
BeginRecovery ==
    /\ phase = "idle"
    /\ ReadPage(checkpoint, highWater)

\* recover({ cursor }): the bound travels in the cursor.
ContinueRecovery ==
    /\ phase = "recovering"
    /\ ReadPage(lower, upper)

\* A failed or superseded recovery keeps the old checkpoint.
AbandonRecovery ==
    /\ phase = "recovering"
    /\ phase' = "idle"
    /\ UNCHANGED <<got, olderCursor, hasMore, checkpoint, lower, upper, dbVars>>

-----------------------------------------------------------------------------

\* What the database does meanwhile.  Registering and reporting attention
\* change no message; opening ids that are not available changes nothing.
ServerStep ==
    /\ \/ Tick
       \/ Sweep
       \/ \E e \in Envelopes : Create(e)
       \/ \E a, b \in Addresses : \E ids \in SUBSET {r.id : r \in Available(a, b, Ids)} : Open(a, b, ids)
       \/ \E a, b \in Addresses : a # b /\ Clear(a, b)
       \/ \E a \in Addresses : DeleteRegistration(a)
    /\ UNCHANGED readerVars

ReaderStep ==
    \/ LoadNewest \/ LoadOlder
    \/ BeginRecovery \/ ContinueRecovery \/ AbandonRecovery

ReaderNext == ServerStep \/ ReaderStep

ReaderSpec == ReaderInit /\ [][ReaderNext]_recoveryVars

-----------------------------------------------------------------------------

\* Below the newest recovered row and not beyond the oldest loaded page.
InReach(r) ==
    /\ r.seq <= checkpoint \/ (phase = "recovering" /\ r.seq <= lower)
    /\ ~hasMore \/ r.seq >= olderCursor

\* No row is skipped: whatever was accepted, opened, cleared or swept between
\* the pages, each live row within the range already read has been received.
NothingSkipped ==
    phase # "new" =>
        \A r \in LiveBetween(messages, me, partner, clock) : InReach(r) => r.seq \in got

\* A recovery never asks for the same page twice ("Invalid recovery
\* continuation" cannot come of a healthy server): whatever happened since its
\* last page, the next continuation starts further on, and below the bound
\* fixed when the recovery began.
RecoveryAdvances ==
    LET rows == RecoveryFetch(messages, me, partner, lower, upper, RecoveryLimit, clock)
    IN  phase = "recovering" /\ ~Exhausted(rows)
          => lower < ContinueAfter(rows) /\ ContinueAfter(rows) < upper
=============================================================================
