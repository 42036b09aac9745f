---------------------------- MODULE EventStreams ----------------------------
(***************************************************************************)
(* The server's live streams: the single-use tokens and the stream         *)
(* endpoint (routes/events.ts) and the registry of clients (sse.ts).  No   *)
(* handler here awaits between its checks and its writes.                  *)
(*                                                                         *)
(*   tokens       SseTokenStore.tokens                                     *)
(*   clients      `clients` of sse.ts, keyed by the stream's token         *)
(*   ipCount      connectionsPerIp, zero where the map has no key          *)
(*   liveStreams  liveStreams of events.ts: streams not cleaned up, with   *)
(*                the IP their cleanup closes over                         *)
(*   minted       tokens minted so far                                     *)
(*                                                                         *)
(* A token is 16 random bytes; the n-th one is the number n.  Time is kept *)
(* as what is left of a token's life and as the age of the last attention  *)
(* report, neither followed past the point where the code stops caring.    *)
(***************************************************************************)
EXTENDS Integers, FiniteSets

CONSTANTS
    Addresses,
    Ips,
    MaxPerAddress,  \* MAX_SSE_CONNECTIONS_PER_ADDRESS
    MaxPerIp,       \* MAX_SSE_CONNECTIONS_PER_IP
    TokenTtl,       \* SSE_TOKEN_TTL_MS
    AttentionTtl,   \* ATTENTION_TTL_MS
    MaxMinted       \* bound on minted

ASSUME StreamsAssumption ==
    /\ MaxPerAddress \in Nat \ {0} /\ MaxPerIp \in Nat \ {0}
    /\ TokenTtl \in Nat /\ AttentionTtl \in Nat /\ MaxMinted \in Nat

VARIABLES tokens, clients, ipCount, liveStreams, minted

registryVars == <<tokens, clients, ipCount, liveStreams, minted>>

Dead == -1  \* the life of an expired token

\* The `attentive` parameter of a stream's URL; terminals send none.
AttentiveParams == {"true", "false", "none"}

Tokens == [token : Nat \ {0}, address : Addresses, life : Dead..TokenTtl]
Clients == [stream : Nat \ {0}, address : Addresses, ip : Ips, suppressPush : BOOLEAN,
            tracksAttention : BOOLEAN, age : 0..AttentionTtl, sequence : Nat]
Streams == [stream : Nat \ {0}, address : Addresses, ip : Ips]

RegistryInit ==
    /\ tokens = {}
    /\ clients = {}
    /\ ipCount = [ip \in Ips |-> 0]
    /\ liveStreams = {}
    /\ minted = 0

-----------------------------------------------------------------------------

\* mint, the end of handleGetSSEToken.
Mint(a) ==
    /\ minted < MaxMinted
    /\ minted' = minted + 1
    /\ tokens' = tokens \cup {[token |-> minted + 1, address |-> a, life |-> TokenTtl]}
    /\ UNCHANGED <<clients, ipCount, liveStreams>>

\* lookup of an expired token drops it; the timer's prune drops all of them.
DropExpired(which) ==
    /\ tokens' = tokens \ {t \in which : t.life = Dead}
    /\ UNCHANGED <<clients, ipCount, liveStreams, minted>>

ConnectionsOf(a) == Cardinality({c \in clients : c.address = a})

\* addClient
Client(s, a, ip, attentive) ==
    [stream |-> s, address |-> a, ip |-> ip, suppressPush |-> attentive # "false",
     tracksAttention |-> attentive # "none", age |-> 0, sequence |-> 0]

\* Both caps; a stream over one of them is refused and keeps its token.
HasRoom(a, ip) == ConnectionsOf(a) < MaxPerAddress /\ ipCount[ip] < MaxPerIp

\* handleSSE once the token's address is known, and the stream's start.
Start(s, a, ip, attentive) ==
    /\ HasRoom(a, ip)
    /\ clients' = clients \cup {Client(s, a, ip, attentive)}
    /\ ipCount' = [ipCount EXCEPT ![ip] = @ + 1]
    /\ liveStreams' = liveStreams \cup {[stream |-> s, address |-> a, ip |-> ip]}

\* handleSSE with a live token.
Admit(t, ip, attentive) ==
    /\ t \in tokens
    /\ t.life # Dead
    /\ Start(t.token, t.address, ip, attentive)
    /\ tokens' = tokens \ {t}
    /\ UNCHANGED minted

\* handleGetSSEToken and handleSSE of one other device, in one go.
MintAndAdmit(a, ip, attentive) ==
    /\ minted < MaxMinted
    /\ minted' = minted + 1
    /\ Start(minted + 1, a, ip, attentive)
    /\ UNCHANGED tokens

\* releaseIp for every client removed.
Released(gone) == [ip \in Ips |-> ipCount[ip] - Cardinality({c \in gone : c.ip = ip})]

\* publish, of which the enqueue fails for the clients `gone`: they leave the
\* registry, while the stream's own cleanup is still to come.
PublishFails(a, gone) ==
    /\ gone # {} /\ \A c \in gone : c.address = a
    /\ clients' = clients \ gone
    /\ ipCount' = Released(gone)
    /\ UNCHANGED <<tokens, liveStreams, minted>>

\* mutant: the stream gives its place back even if its client is gone
ReleasedAgain(l, gone) == [ipCount EXCEPT ![l.ip] = IF @ > 0 THEN @ - 1 ELSE 0]

\* What a cleanup gives back: nothing, if publish removed the client before.
ReleasedBy(l, gone) == Released(gone)

\* cleanup of a stream: its cancel, or a heartbeat that cannot be enqueued.
\* A second call finds it done.
Cleanup(l) ==
    LET gone == {c \in clients : c.stream = l.stream}
    IN  /\ l \in liveStreams
        /\ clients' = clients \ gone
        /\ ipCount' = ReleasedBy(l, gone)
        /\ liveStreams' = liveStreams \ {l}
        /\ UNCHANGED <<tokens, minted>>

\* mutant: the last report to arrive wins
UpdatedByArrival(c, attentive, sequence) ==
    [c EXCEPT !.sequence = sequence, !.suppressPush = attentive, !.age = 0]

\* updateClientAttention: a report older than the last one is ignored.
Updated(c, attentive, sequence) ==
    IF sequence <= c.sequence THEN c
    ELSE [c EXCEPT !.sequence = sequence, !.suppressPush = attentive, !.age = 0]

\* handleSSEAttention of a stream it finds; otherwise it answers 404.
Report(s, attentive, sequence) ==
    /\ \E l \in liveStreams : l.stream = s
    /\ clients' = {IF c.stream = s THEN Updated(c, attentive, sequence) ELSE c : c \in clients}
    /\ UNCHANGED <<tokens, ipCount, liveStreams, minted>>

\* pushSuppressingConnectionCount is not zero: pushNotify stays silent.
SuppressesPush(a) ==
    \E c \in clients : c.address = a /\ c.suppressPush /\ (~c.tracksAttention \/ c.age < AttentionTtl)

Older(c) == [c EXCEPT !.age = IF @ < AttentionTtl THEN @ + 1 ELSE @]

RegistryTick ==
    /\ tokens' = {[t EXCEPT !.life = IF @ = Dead THEN Dead ELSE @ - 1] : t \in tokens}
    /\ clients' = {Older(c) : c \in clients}
    /\ UNCHANGED <<ipCount, liveStreams, minted>>

\* Everything here is in memory.
RegistryRestart ==
    /\ tokens' = {} /\ clients' = {} /\ liveStreams' = {}
    /\ ipCount' = [ip \in Ips |-> 0]
    /\ UNCHANGED minted

RegistryNext ==
    \/ \E a \in Addresses : Mint(a)
    \/ \E which \in SUBSET tokens : DropExpired(which)
    \/ \E t \in tokens, ip \in Ips, p \in AttentiveParams : Admit(t, ip, p)
    \/ \E a \in Addresses, ip \in Ips, p \in AttentiveParams : MintAndAdmit(a, ip, p)
    \/ \E a \in Addresses, gone \in SUBSET clients : PublishFails(a, gone)
    \/ \E l \in liveStreams : Cleanup(l)
    \/ \E s \in 1..minted, attentive \in BOOLEAN, n \in Nat : Report(s, attentive, n)
    \/ RegistryTick
    \/ RegistryRestart

\* The registry on its own, whatever its callers do.
RegistrySpec == RegistryInit /\ [][RegistryNext]_registryVars

-----------------------------------------------------------------------------

RegistryTypeOK ==
    /\ tokens \subseteq Tokens
    /\ clients \subseteq Clients
    /\ ipCount \in [Ips -> Nat]
    /\ liveStreams \subseteq Streams
    /\ minted \in 0..MaxMinted

\* connectionsPerIp of src/server/sse.ts counts exactly the registered
\* clients, although a failed publish and the stream's own cleanup may both
\* remove one: no address is locked out by a count that never returns to
\* zero, and neither cap is passed.
CountsAreExact ==
    /\ \A ip \in Ips : ipCount[ip] = Cardinality({c \in clients : c.ip = ip})
    /\ \A ip \in Ips : ipCount[ip] <= MaxPerIp
    /\ \A a \in Addresses : ConnectionsOf(a) <= MaxPerAddress

\* A token opens one stream: no token is left of a stream that was admitted,
\* and every registered client belongs to one stream that is still to be
\* cleaned up, of the same address.
TokensOpenOneStream ==
    /\ \A t \in tokens : \A l \in liveStreams : t.token # l.stream
    /\ \A c \in clients : [stream |-> c.stream, address |-> c.address, ip |-> c.ip] \in liveStreams
    /\ \A c, d \in clients : c.stream = d.stream => c = d
=============================================================================
