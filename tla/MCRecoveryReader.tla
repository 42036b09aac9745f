-------------------------- MODULE MCRecoveryReader --------------------------
(* A conversation of two and a third identity whose messages leave gaps in  *)
(* the acceptance numbers.                                                  *)
EXTENDS RecoveryReader

CONSTANTS carol, m1, m2, m3, m4

MCEnvelopes ==
    {[id |-> m1, sender |-> me, recipient |-> partner, ttl |-> 1],
     [id |-> m2, sender |-> partner, recipient |-> me, ttl |-> 1],
     [id |-> m3, sender |-> me, recipient |-> partner, ttl |-> 1],
     [id |-> m4, sender |-> carol, recipient |-> me, ttl |-> 1]}
=============================================================================
