--------------------------- MODULE MCChatDatabase ---------------------------
(* Two identities with one envelope each way, and two push endpoints. *)
EXTENDS ChatDatabase, TLC

CONSTANTS alice, bob, m1, m2, p1, p2

MCEnvelopes ==
    {[id |-> m1, sender |-> alice, recipient |-> bob, ttl |-> 1],
     [id |-> m2, sender |-> bob, recipient |-> alice, ttl |-> 1]}

\* The identities differ only in who writes which envelope, the endpoints not
\* at all.
Exchanged == [x \in {alice, bob, m1, m2} |->
    CASE x = alice -> bob [] x = bob -> alice [] x = m1 -> m2 [] x = m2 -> m1]
Kept == [x \in {alice, bob, m1, m2} |-> x]

Symmetric == {f @@ g : f \in {Exchanged, Kept}, g \in Permutations({p1, p2})}
=============================================================================
