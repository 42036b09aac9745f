------------------------------ MODULE EventLink ------------------------------
(***************************************************************************)
(* What the event connection of the browser promises to the rest of the    *)
(* program: one thing at a time.  It is paused, waits out a delay, asks    *)
(* for a token, dials, is open or is closed for good, and it holds a       *)
(* socket exactly while it dials or is open.  LiveConnection implements it.*)
(***************************************************************************)
CONSTANT Sockets  \* every socket the connection may ever create

VARIABLES phase,   \* what the connection is doing
          sockets  \* the sockets the browser holds for it

linkVars == <<phase, sockets>>

Phases == {"paused", "waiting", "asking", "dialing", "open", "closed"}

LinkInit == phase \in {"paused", "asking"} /\ sockets = {}

\* Into a phase without a socket, whatever was held is let go.
Drop(from, to) ==
    /\ phase \in from /\ phase' \in to
    /\ sockets' = {}

Pause  == Drop(Phases \ {"closed"}, {"paused"})
Resume == Drop({"paused"}, {"waiting", "asking"})
Ask    == Drop({"waiting"}, {"asking"})
Fail   == Drop({"asking", "dialing", "open"}, {"waiting"})
Close  == Drop(Phases \ {"closed"}, {"closed"})

Dial ==
    /\ phase = "asking" /\ phase' = "dialing"
    /\ \E s \in Sockets : sockets' = {s}

Open ==
    /\ phase = "dialing" /\ phase' = "open"
    /\ UNCHANGED sockets

LinkNext == Pause \/ Resume \/ Ask \/ Fail \/ Close \/ Dial \/ Open

LinkSpec == LinkInit /\ [][LinkNext]_linkVars
=============================================================================
