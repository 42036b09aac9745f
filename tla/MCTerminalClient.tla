-------------------------- MODULE MCTerminalClient --------------------------
(* One message each way, and a second incoming one. *)
EXTENDS TerminalClient

CONSTANTS m1, m2, m3

MCEnvelopes ==
    {[id |-> m1, sender |-> me, recipient |-> partner, ttl |-> 2],
     [id |-> m2, sender |-> partner, recipient |-> me, ttl |-> 1],
     [id |-> m3, sender |-> partner, recipient |-> me, ttl |-> 2]}

\* Nothing here depends on the registrations, sessions, subscriptions and
\* activity of the database.
MCView == <<clock, messages, highWater, posted, link, terminal>>
=============================================================================
