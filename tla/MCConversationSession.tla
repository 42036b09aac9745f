------------------------ MODULE MCConversationSession ------------------------
(* One message each way. *)
EXTENDS ConversationSession

CONSTANTS m1, m2

MCEnvelopes ==
    {[id |-> m1, sender |-> me, recipient |-> partner, ttl |-> 2],
     [id |-> m2, sender |-> partner, recipient |-> me, ttl |-> 1]}

\* Only incoming messages.
MCIncoming ==
    {[id |-> m1, sender |-> partner, recipient |-> me, ttl |-> 1],
     [id |-> m2, sender |-> partner, recipient |-> me, ttl |-> 1]}

\* Nothing here depends on the registrations, sessions, subscriptions and
\* activity of the database.
MCView == <<clock, messages, highWater, posted, stream, client, observed>>
=============================================================================
