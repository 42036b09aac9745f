--------------------------- MODULE ChallengeStore ---------------------------
(***************************************************************************)
(* ChallengeStore of src/server/challenge.ts: the challenges the server    *)
(* has issued for sessions (authStore) and for registrations (regStore),   *)
(* held in memory in two maps that must stay in step.                      *)
(*                                                                         *)
(*   entries         Map nonce -> entry, in insertion order                *)
(*   subjectToNonce  Map subject -> nonce; NoNonce where it has no key     *)
(*                                                                         *)
(* A nonce is 16 random bytes, never seen before; only the order in which  *)
(* nonces were inserted matters, so the n-th nonce issued is the number n. *)
(* issued counts them, and granted remembers which were consumed.          *)
(***************************************************************************)
EXTENDS Integers, FiniteSets

CONSTANTS
    Subjects,    \* an address, or an address with its public key
    Origins,     \* page origins challenges are issued for
    MaxEntries,  \* the hard limit, DEFAULT_MAX_ENTRIES
    Ttl,         \* DEFAULT_CHALLENGE_TTL_MS
    MaxTime,     \* bound on clock
    MaxIssued    \* bound on issued

ASSUME ChallengeAssumption ==
    /\ MaxEntries \in Nat \ {0} /\ Ttl \in Nat /\ MaxTime \in Nat /\ MaxIssued \in Nat

VARIABLES clock, entries, subjectToNonce, issued, granted

vars == <<clock, entries, subjectToNonce, issued, granted>>

NoNonce == 0

Entries == [nonce : Nat \ {0}, subject : Subjects, origin : Origins, expires : Nat]

Init ==
    /\ clock = 0
    /\ entries = {}
    /\ subjectToNonce = [s \in Subjects |-> NoNonce]
    /\ issued = 0
    /\ granted = {}

-----------------------------------------------------------------------------

Expired(e) == e.expires <= clock

\* mutant: the newest entry is evicted
EvictedNewest(s) ==
    {e \in entries : /\ subjectToNonce[s] = NoNonce
                     /\ Cardinality(entries) >= MaxEntries
                     /\ \A f \in entries : f.nonce <= e.nonce}

\* mutant: nothing is evicted
NoEvictionAtLimit(s) == {}

\* What a full store gives up for a new subject: its first key, the oldest.
Evicted(s) ==
    {e \in entries : /\ subjectToNonce[s] = NoNonce
                     /\ Cardinality(entries) >= MaxEntries
                     /\ \A f \in entries : e.nonce <= f.nonce}

\* The entry a subject's new challenge replaces.
Replaced(s) == {e \in entries : e.nonce = subjectToNonce[s]}

\* mutant: eviction forgets the second map
WithoutStale(gone, s, n) == [subjectToNonce EXCEPT ![s] = n]

\* subjectToNonce after entries `gone` left and s was given nonce n.
Without(gone, s, n) ==
    [t \in Subjects |-> IF t = s THEN n
                        ELSE IF \E e \in gone : e.subject = t THEN NoNonce
                        ELSE subjectToNonce[t]]

\* issue
Issue(s, o) ==
    LET n    == issued + 1
        gone == Replaced(s) \cup Evicted(s)
    IN  /\ issued < MaxIssued
        /\ issued' = n
        /\ entries' = (entries \ gone)
                        \cup {[nonce |-> n, subject |-> s, origin |-> o, expires |-> clock + Ttl]}
        /\ subjectToNonce' = Without(gone, s, n)
        /\ UNCHANGED <<clock, granted>>

Forget(gone) ==
    /\ entries' = entries \ gone
    /\ subjectToNonce' = [t \in Subjects |-> IF \E e \in gone : e.subject = t
                                             THEN NoNonce ELSE subjectToNonce[t]]

\* consume of a nonce whose time is over: forgotten, and refused.
ConsumeExpired(e) ==
    /\ Expired(e)
    /\ Forget({e})
    /\ UNCHANGED <<clock, issued, granted>>

\* mutant: a challenge is read without being removed
KeepUsed(e) == UNCHANGED <<entries, subjectToNonce>>

\* A challenge leaves both maps as it is handed out.
Use(e) == Forget({e})

\* consume by the exact subject and origin.  Any other subject or origin is
\* refused and changes nothing, which is no step of this module.
Consume(e, s, o) ==
    /\ ~Expired(e)
    /\ e.subject = s /\ e.origin = o
    /\ Use(e)
    /\ granted' = granted \cup {e.nonce}
    /\ UNCHANGED <<clock, issued>>

\* cleanup, on the 60-second timer
Cleanup ==
    /\ Forget({e \in entries : Expired(e)})
    /\ UNCHANGED <<clock, issued, granted>>

\* A restart loses the maps; nonces stay unique.
Restart ==
    /\ entries' = {}
    /\ subjectToNonce' = [s \in Subjects |-> NoNonce]
    /\ UNCHANGED <<clock, issued, granted>>

Tick ==
    /\ clock < MaxTime
    /\ clock' = clock + 1
    /\ UNCHANGED <<entries, subjectToNonce, issued, granted>>

Next ==
    \/ \E s \in Subjects, o \in Origins : Issue(s, o)
    \/ \E e \in entries : ConsumeExpired(e)
    \/ \E e \in entries, s \in Subjects, o \in Origins : Consume(e, s, o)
    \/ Cleanup
    \/ Restart
    \/ Tick

Spec == Init /\ [][Next]_vars

-----------------------------------------------------------------------------

TypeOK ==
    /\ clock \in 0..MaxTime
    /\ entries \subseteq Entries
    /\ subjectToNonce \in [Subjects -> 0..MaxIssued]
    /\ issued \in 0..MaxIssued
    /\ granted \subseteq 1..MaxIssued

\* The two maps are inverse to each other whatever the order of issues,
\* evictions, uses and cleanups: no subject points at a challenge that is
\* gone, and only a subject's latest challenge can be consumed.
MapsAgree ==
    /\ \A e \in entries : subjectToNonce[e.subject] = e.nonce
    /\ \A s \in Subjects : subjectToNonce[s] # NoNonce
          => \E e \in entries : e.subject = s /\ e.nonce = subjectToNonce[s]

\* The hard limit is never passed, although issue checks it only for subjects
\* without a challenge (the test `oldNonce` in issue).
WithinLimit == Cardinality(entries) <= MaxEntries

\* A consumed challenge is gone for good: no order of issues, consumptions and
\* cleanups leaves it to be handed out again.
SingleUse == \A e \in entries : e.nonce \notin granted

\* An unexpired challenge is lost only to its own use, to its own subject's
\* next challenge, to a restart or, as the oldest, to a new subject at the
\* limit.
LostOnlyByRule ==
    [][\A e \in entries \ entries' :
          \/ Expired(e)
          \/ e.nonce \in granted'
          \/ entries' = {}
          \/ \E f \in entries' \ entries : f.subject = e.subject
          \/ /\ Cardinality(entries) = MaxEntries
             /\ \A f \in entries : e.nonce <= f.nonce]_vars
=============================================================================
