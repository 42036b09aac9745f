--------------------------- MODULE MCMessageServer ---------------------------
(* Two identities, one envelope each way, two requests in flight. *)
EXTENDS MessageServer, TLC

CONSTANTS alice, bob, m1, m2

MCEnvelopes ==
    {[id |-> m1, sender |-> alice, recipient |-> bob, ttl |-> 1],
     [id |-> m2, sender |-> bob, recipient |-> alice, ttl |-> 1]}

\* The two envelopes differ only in who writes to whom, and the slots in nothing.
Exchange ==
    Permutations(Slots) \cup
    {[x \in {alice, bob, m1, m2} |->
        CASE x = alice -> bob [] x = bob -> alice [] x = m1 -> m2 [] x = m2 -> m1]}
=============================================================================
