--------------------------- MODULE LiveConnection ---------------------------
(***************************************************************************)
(* The event connection of a browser tab (client/lib/sse-connection.ts)    *)
(* and the attention reports sent for it (client/hooks/useSSE.ts), against *)
(* the server's registry of streams and another device of the same         *)
(* identity.  The tab calls out for tokens, dials, and reports; answers    *)
(* come when they come or fail, and the window changes at any time.        *)
(*                                                                         *)
(*   visible, focused       the window                                     *)
(*   suspended, closed      SseConnection.suspended, closed                *)
(*   mint                   `minting`, and whether `generation` changed    *)
(*                          since the request was sent                     *)
(*   timer, retryIn         what is left of `timer` and until `retryAt`    *)
(*   backoff                backoffMs                                      *)
(*   es, opened             es, the token standing for the socket; opened  *)
(*   sockets                the sockets the tab created and did not close  *)
(*   dials                  stream requests on their way to the server     *)
(*   streamToken, sequence, reported, settling, dialedAttention            *)
(*                          the attention state of useSSE                  *)
(*   reports                attention reports in flight                    *)
(*   others                 streams of the other device                    *)
(*   moves, failures        count what is bounded                          *)
(***************************************************************************)
EXTENDS EventStreams

CONSTANTS
    me, myIp,      \* the identity and the client IP of the tab
    MaxBackoff,    \* MAX_BACKOFF_MS, in units of INITIAL_BACKOFF_MS
    MaxMoves,      \* bound on changes of the window
    MaxFailures,   \* bound on failures of the network, restarts and refusals by a cap
    MaxOthers,     \* bound on streams of the other device
    MaxReports     \* bound on the reports of one stream

ASSUME LinkAssumption ==
    /\ me \in Addresses /\ myIp \in Ips
    /\ MaxBackoff \in Nat \ {0} /\ MaxReports \in Nat
    /\ MaxMoves \in Nat /\ MaxFailures \in Nat /\ MaxOthers \in Nat

VARIABLES visible, focused, suspended, closed, mint, timer, retryIn, backoff, es, opened, sockets, dials,
          streamToken, sequence, reported, settling, dialedAttention, reports, moves, failures, others

window    == <<visible, focused, moves>>
link      == <<suspended, closed, mint, timer, retryIn, backoff, es, opened, sockets>>
attention == <<streamToken, sequence, reported, settling, dialedAttention>>
vars == <<registryVars, window, link, attention, dials, reports, failures, others>>

NoTimer  == -1
NoStream == 0

Init ==
    /\ RegistryInit
    /\ visible \in BOOLEAN /\ focused \in BOOLEAN
    /\ suspended = ~visible /\ closed = FALSE
    /\ mint = IF visible THEN "current" ELSE "none"
    /\ timer = NoTimer /\ retryIn = 0 /\ backoff = 1
    /\ es = NoStream /\ opened = FALSE /\ sockets = {} /\ dials = {}
    /\ streamToken = NoStream /\ sequence = 0 /\ reported = "unknown"
    /\ settling = TRUE /\ dialedAttention = FALSE
    /\ reports = {}
    /\ moves = 0 /\ failures = 0 /\ others = {}

Attentive == visible /\ focused
AsReport(b) == IF b THEN "attentive" ELSE "inattentive"

Fails == failures < MaxFailures /\ failures' = failures + 1

-----------------------------------------------------------------------------
(* SseConnection *)

\* connect, where nothing is closed or suspended: a request in flight, even
\* one of an earlier generation, is enough.
Asking == IF mint = "none" THEN "current" ELSE mint

\* onDisconnect of useSSE
Disconnected ==
    /\ streamToken' = IF opened THEN NoStream ELSE streamToken
    /\ reported' = IF opened THEN "unknown" ELSE reported

\* es?.close()
SocketsClosed == sockets \ {es}

\* setActive(true)
Activate ==
    /\ suspended' = FALSE
    /\ IF retryIn > 0 THEN timer' = retryIn /\ mint' = mint
                      ELSE timer' = timer /\ mint' = Asking
    /\ UNCHANGED <<closed, retryIn, backoff, es, opened, sockets, streamToken, reported>>

\* setActive(false)
Deactivate ==
    /\ suspended' = TRUE
    /\ mint' = IF mint = "none" THEN "none" ELSE "outdated"
    /\ timer' = NoTimer
    /\ sockets' = SocketsClosed
    /\ es' = NoStream /\ opened' = FALSE
    /\ Disconnected
    /\ UNCHANGED <<closed, retryIn, backoff>>

\* update, the listener of useSSE.
ChangeWindow(v, f) ==
    /\ ~closed
    /\ moves < MaxMoves /\ moves' = moves + 1
    /\ <<v, f>> # <<visible, focused>>
    /\ visible' = v /\ focused' = f
    /\ CASE v /\ suspended  -> Activate
         [] ~v /\ ~suspended -> Deactivate
         [] v = ~suspended   -> UNCHANGED <<link, streamToken, reported>>
    /\ settling' = TRUE
    /\ UNCHANGED <<registryVars, sequence, dialedAttention, dials, reports, failures, others>>

\* The effect's cleanup: a new session token, or the tab goes.
Close ==
    /\ ~closed
    /\ moves < MaxMoves /\ moves' = moves + 1
    /\ closed' = TRUE
    /\ timer' = NoTimer
    /\ sockets' = SocketsClosed
    /\ es' = NoStream
    /\ streamToken' = NoStream /\ settling' = FALSE
    /\ UNCHANGED <<registryVars, visible, focused, suspended, mint, retryIn, backoff, opened,
                   sequence, reported, dialedAttention, dials, reports, failures, others>>

\* scheduleReconnect
ScheduleReconnect ==
    IF closed \/ timer # NoTimer THEN UNCHANGED <<timer, retryIn, backoff>>
    ELSE /\ retryIn' = backoff
         /\ timer' = IF suspended THEN NoTimer ELSE backoff
         /\ backoff' = IF backoff * 2 > MaxBackoff THEN MaxBackoff ELSE backoff * 2

TimerFires ==
    /\ timer = 0
    /\ timer' = NoTimer
    /\ mint' = Asking
    /\ UNCHANGED <<registryVars, window, suspended, closed, retryIn, backoff, es, opened, sockets,
                   attention, dials, reports, failures, others>>

\* openEventSource: the socket that es held, if any, is not closed.
OpenEventSource(s) ==
    /\ es' = s /\ opened' = FALSE
    /\ sockets' = sockets \cup {s}
    /\ dials' = dials \cup {[stream |-> s, attentive |-> Attentive]}
    /\ dialedAttention' = Attentive

\* mutant: a token answered after the window was hidden is dialed
MayDialAnyway == ~closed

\* The answer is still wanted.
MayDial == ~closed /\ ~suspended

\* mutant: an answer of an earlier generation is thrown away, no more
NotAskedAgain == "none"

\* ... and asked for again, if it is of an earlier generation.
AskedAgain == IF MayDial /\ mint = "outdated" THEN "current" ELSE "none"

\* The token request is answered.  An answer of an earlier generation is
\* thrown away.
MintAnswered ==
    /\ mint # "none"
    /\ Mint(me)
    /\ mint' = AskedAgain
    /\ IF MayDial /\ mint = "current"
       THEN OpenEventSource(minted + 1)
       ELSE UNCHANGED <<es, opened, sockets, dials, dialedAttention>>
    /\ UNCHANGED <<window, suspended, closed, timer, retryIn, backoff, streamToken, sequence, reported,
                   settling, reports, failures, others>>

MintFails ==
    /\ mint # "none"
    /\ Fails
    /\ mint' = "none"
    /\ ScheduleReconnect
    /\ UNCHANGED <<registryVars, window, suspended, closed, es, opened, sockets, attention, dials, reports, others>>

\* The open event; one of a socket that es no longer holds is ignored.
SocketOpens ==
    /\ ~opened
    /\ \E l \in liveStreams : l.stream = es /\ l.stream \in sockets
    /\ opened' = TRUE
    /\ backoff' = 1 /\ retryIn' = 0 /\ timer' = NoTimer
    /\ streamToken' = es /\ sequence' = 0
    /\ reported' = AsReport(dialedAttention)
    /\ settling' = TRUE
    /\ UNCHANGED <<registryVars, window, suspended, closed, mint, es, sockets, dialedAttention, dials,
                   reports, failures, others>>

\* onerror: the stream ended, or the server or the network refused it.
SocketFails ==
    /\ es # NoStream
    /\ \A d \in dials : d.stream # es
    /\ \A l \in liveStreams : l.stream # es
    /\ sockets' = SocketsClosed
    /\ es' = NoStream /\ opened' = FALSE
    /\ Disconnected
    /\ ScheduleReconnect
    /\ UNCHANGED <<registryVars, window, suspended, closed, mint, sequence, settling, dialedAttention,
                   dials, reports, failures, others>>

-----------------------------------------------------------------------------
(* Attention reports of useSSE *)

\* sendAttention
Send(attentive) ==
    /\ sequence < MaxReports
    /\ reported' = AsReport(attentive)
    /\ sequence' = sequence + 1
    /\ reports' = reports \cup {[stream |-> streamToken, attentive |-> attentive,
                                 sequence |-> sequence + 1, stage |-> "sent"]}

\* The 300 ms after the last change of the window are over.
SettleFires ==
    /\ settling
    /\ settling' = FALSE
    /\ IF streamToken # NoStream /\ AsReport(Attentive) # reported
       THEN Send(Attentive)
       ELSE UNCHANGED <<reported, sequence, reports>>
    /\ UNCHANGED <<registryVars, window, link, streamToken, dialedAttention, dials, failures, others>>

\* The 20-second interval.
Heartbeat ==
    /\ ~closed
    /\ streamToken # NoStream
    /\ Attentive \/ AsReport(Attentive) # reported
    /\ Send(Attentive)
    /\ UNCHANGED <<registryVars, window, link, streamToken, settling, dialedAttention, dials, failures, others>>

\* The report reaches the server; its answer may be lost, and is a failure
\* where the server knows no such stream.
ReportArrives(r) ==
    /\ r.stage = "sent"
    /\ \/ /\ Report(r.stream, r.attentive, r.sequence)
          /\ \/ reports' = reports \ {r} /\ UNCHANGED failures
             \/ Fails /\ reports' = (reports \ {r}) \cup {[r EXCEPT !.stage = "failed"]}
       \/ /\ \A l \in liveStreams : l.stream # r.stream
          /\ reports' = (reports \ {r}) \cup {[r EXCEPT !.stage = "failed"]}
          /\ UNCHANGED <<registryVars, failures>>
    /\ UNCHANGED <<window, link, attention, dials, others>>

ReportLost(r) ==
    /\ r.stage = "sent"
    /\ Fails
    /\ reports' = (reports \ {r}) \cup {[r EXCEPT !.stage = "failed"]}
    /\ UNCHANGED <<registryVars, window, link, attention, dials, others>>

\* What the server knows after a report failed.
ReportedAfterFailure(r) ==
    IF streamToken = r.stream /\ reported = AsReport(r.attentive) THEN "unknown" ELSE reported

ReportFails(r) ==
    /\ r.stage = "failed"
    /\ reports' = reports \ {r}
    /\ reported' = ReportedAfterFailure(r)
    /\ UNCHANGED <<registryVars, window, link, streamToken, sequence, settling, dialedAttention, dials,
                   failures, others>>

-----------------------------------------------------------------------------
(* The server, the network and the other device *)

ClientSide == <<window, link, attention>>

DialArrives(d) ==
    /\ \E t \in tokens : t.token = d.stream /\ Admit(t, myIp, IF d.attentive THEN "true" ELSE "false")
    /\ dials' = dials \ {d}
    /\ UNCHANGED <<ClientSide, reports, failures, others>>

\* handleSSE refuses a token that expired on the way, and drops it.
DialExpired(d) ==
    /\ \A t \in tokens : t.token = d.stream => t.life = Dead
    /\ DropExpired({t \in tokens : t.token = d.stream})
    /\ dials' = dials \ {d}
    /\ UNCHANGED <<ClientSide, reports, failures, others>>

\* handleSSE refuses for want of room.
DialRefused(d) ==
    /\ \E t \in tokens : t.token = d.stream /\ t.life # Dead
    /\ ~HasRoom(me, myIp)
    /\ Fails
    /\ dials' = dials \ {d}
    /\ UNCHANGED <<registryVars, ClientSide, reports, others>>

\* A request the tab gave up may never arrive; others fail with the network.
DialLost(d) ==
    /\ IF d.stream \in sockets THEN Fails ELSE UNCHANGED failures
    /\ dials' = dials \ {d}
    /\ UNCHANGED <<registryVars, ClientSide, reports, others>>

\* The tab closed the socket: its cancel, or a heartbeat, ends the stream.
\* The other device leaves when it likes.
StreamEnds(l) ==
    /\ l.stream \notin sockets
    /\ Cleanup(l)
    /\ UNCHANGED <<ClientSide, dials, reports, failures, others>>

\* The network drops a stream the tab holds.
StreamDrops(l) ==
    /\ l.stream \in sockets
    /\ Fails
    /\ Cleanup(l)
    /\ UNCHANGED <<ClientSide, dials, reports, others>>

\* An event is published while streams nobody reads any more are registered.
EnqueueFails(gone) ==
    /\ \A c \in gone : c.stream \notin sockets
    /\ PublishFails(me, gone)
    /\ UNCHANGED <<ClientSide, dials, reports, failures, others>>

OtherConnects(ip, attentive) ==
    /\ Cardinality(others) < MaxOthers /\ others' = others \cup {minted + 1}
    /\ MintAndAdmit(me, ip, attentive)
    /\ UNCHANGED <<ClientSide, dials, reports, failures>>

PruneTokens ==
    /\ \E t \in tokens : t.life = Dead
    /\ DropExpired(tokens)
    /\ UNCHANGED <<ClientSide, dials, reports, failures, others>>

\* Requests on their way fail with the process.
RestartServer ==
    /\ Fails
    /\ RegistryRestart
    /\ dials' = {}
    /\ reports' = {[r EXCEPT !.stage = "failed"] : r \in reports}
    /\ UNCHANGED <<ClientSide, others>>

\* A dial on its way for longer than a token lives is a failure of the network.
Tick ==
    /\ RegistryTick
    /\ IF \E d \in dials, t \in tokens : d.stream = t.token /\ d.stream \in sockets /\ t.life = 0
       THEN Fails ELSE UNCHANGED failures
    /\ timer' = IF timer > 0 THEN timer - 1 ELSE timer
    /\ retryIn' = IF retryIn > 0 THEN retryIn - 1 ELSE 0
    /\ UNCHANGED <<window, suspended, closed, mint, backoff, es, opened, sockets, attention, dials,
                   reports, others>>

Next ==
    \/ \E v, f \in BOOLEAN : ChangeWindow(v, f)
    \/ Close
    \/ TimerFires
    \/ MintAnswered
    \/ MintFails
    \/ SocketOpens
    \/ SocketFails
    \/ SettleFires
    \/ Heartbeat
    \/ \E r \in reports : ReportArrives(r) \/ ReportLost(r) \/ ReportFails(r)
    \/ \E d \in dials : DialArrives(d) \/ DialExpired(d) \/ DialRefused(d) \/ DialLost(d)
    \/ \E l \in liveStreams : StreamEnds(l) \/ StreamDrops(l)
    \/ \E gone \in SUBSET clients : EnqueueFails(gone)
    \/ \E ip \in Ips, p \in AttentiveParams : OtherConnects(ip, p)
    \/ PruneTokens
    \/ RestartServer
    \/ Tick

\* Timers fire and time passes, every request is answered or fails, and a
\* closed socket's stream is noticed (handleSSE's heartbeat).  Nothing is
\* assumed of the window, of failures or of the other device.
Fairness ==
    /\ WF_vars(TimerFires) /\ WF_vars(Tick)
    /\ WF_vars(MintAnswered \/ MintFails)
    /\ WF_vars(SocketOpens) /\ WF_vars(SocketFails)
    /\ WF_vars(\E d \in dials :
            d.stream = es /\ (DialArrives(d) \/ DialExpired(d) \/ DialRefused(d) \/ DialLost(d)))
    /\ WF_vars(\E l \in liveStreams : l.stream \notin others /\ StreamEnds(l))

Spec == Init /\ [][Next]_vars /\ Fairness

-----------------------------------------------------------------------------

\* What the connection is doing; "lost" is doing nothing, with nothing to
\* wait for.
Phase ==
    IF closed THEN "closed"
    ELSE IF suspended THEN "paused"
    ELSE IF timer # NoTimer THEN "waiting"
    ELSE IF mint # "none" THEN "asking"
    ELSE IF es = NoStream THEN "lost"
    ELSE IF opened THEN "open" ELSE "dialing"

Link == INSTANCE EventLink WITH Sockets <- 1..MaxMinted, phase <- Phase, sockets <- sockets

\* SseConnection does one thing at a time, whatever order the window, token
\* answers, timers and socket events come in: no socket is leaked behind
\* `es`, none is held while waiting, paused or closed, and it never has
\* nothing to wait for.
LinkSpec == Link!LinkSpec

\* What useSSE believes it told the server is what the server believes, once
\* nothing is in flight, and it is the truth once the window has settled:
\* reports may be lost, overtake each other or be answered in vain.
AttentionAgrees ==
    (streamToken # NoStream /\ reported # "unknown") =>
        /\ (\A r \in reports : r.stream # streamToken) =>
              \A c \in clients : c.stream = streamToken => AsReport(c.suppressPush) = reported
        /\ ~settling => reported = AsReport(Attentive)

\* A visible tab gets its stream: failures, refusals, focus changes and
\* expired tokens all end in another attempt (connect and scheduleReconnect).
Reconnects == visible ~> (opened \/ ~visible \/ closed)
=============================================================================
