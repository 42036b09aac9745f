------------------------- MODULE LiveConnectionProofs -------------------------
(* The registry of streams for whoever calls it, and the event connection   *)
(* of the browser with it: the connection does one thing at a time, the     *)
(* counts stay exact, and both sides agree on who is watching, for every    *)
(* cap, lifetime and bound.                                                 *)
EXTENDS LiveConnection, FiniteSetTheorems, TLAPS

-----------------------------------------------------------------------------
(* The inductive invariant: besides the properties, the registry is finite *)
(* (so that its members can be counted), every number is of a token that   *)
(* was minted, and no two tokens share one.                                *)

OnlyMinted == /\ \A t \in tokens : t.token <= minted
              /\ \A l \in liveStreams : l.stream <= minted

OneTokenPerNumber == \A t, u \in tokens : t.token = u.token => t = u

RegistryInv == /\ RegistryTypeOK /\ IsFiniteSet(clients) /\ CountsAreExact
               /\ TokensOpenOneStream /\ OnlyMinted /\ OneTokenPerNumber

At(S, ip) == {c \in S : c.ip = ip}
Of(S, a)  == {c \in S : c.address = a}

\* Sets that a one-to-one function maps onto each other are equally large.
LEMMA SameSize ==
    ASSUME NEW S, IsFiniteSet(S), NEW T, NEW f \in [S -> T],
           \A x, y \in S : f[x] = f[y] => x = y, \A z \in T : \E x \in S : f[x] = z
    PROVE  IsFiniteSet(T) /\ Cardinality(T) = Cardinality(S)
<1>1. f \in Bijection(S, T)
  BY DEF Bijection, Injection, IsInjective, Surjection
<1>2. ExistsBijection(S, T)
  BY <1>1 DEF ExistsBijection
<1> QED
  BY <1>2, FS_Bijection

LEMMA RegistryInitially == RegistryInit => RegistryInv
<1> SUFFICES ASSUME RegistryInit PROVE RegistryInv
  OBVIOUS
<1>1. RegistryTypeOK
  BY StreamsAssumption DEF RegistryInit, RegistryTypeOK
<1>2. IsFiniteSet(clients) /\ CountsAreExact
  <2>1. IsFiniteSet({}) /\ Cardinality({}) = 0
    BY FS_EmptySet
  <2>2. /\ \A ip \in Ips : {c \in clients : c.ip = ip} = {}
        /\ \A a \in Addresses : {c \in clients : c.address = a} = {}
    BY DEF RegistryInit
  <2> QED
    BY <2>1, <2>2, StreamsAssumption DEF RegistryInit, CountsAreExact, ConnectionsOf
<1>3. TokensOpenOneStream /\ OnlyMinted /\ OneTokenPerNumber
  BY DEF RegistryInit, TokensOpenOneStream, OnlyMinted, OneTokenPerNumber
<1> QED
  BY <1>1, <1>2, <1>3 DEF RegistryInv

-----------------------------------------------------------------------------
(* One lemma per way the registry changes. *)

\* addClient: the caps were checked before, and the stream is new.
LEMMA StartKeeps ==
    ASSUME RegistryInv, NEW s \in 1..MaxMinted, NEW a \in Addresses, NEW ip \in Ips,
           NEW p \in AttentiveParams, Start(s, a, ip, p),
           \A l \in liveStreams : l.stream # s
    PROVE  /\ clients' \subseteq Clients /\ ipCount' \in [Ips -> Nat] /\ liveStreams' \subseteq Streams
           /\ IsFiniteSet(clients') /\ CountsAreExact'
           /\ \A c \in clients' :
                 [stream |-> c.stream, address |-> c.address, ip |-> c.ip] \in liveStreams'
           /\ \A c, d \in clients' : c.stream = d.stream => c = d
<1> USE DEF RegistryInv
<1> DEFINE new == Client(s, a, ip, p)
<1>1. /\ new.stream = s /\ new.address = a /\ new.ip = ip /\ new \in Clients
  BY StreamsAssumption DEF Client, Clients, AttentiveParams
<1>2. /\ clients' = clients \cup {new} /\ ipCount' = [ipCount EXCEPT ![ip] = @ + 1]
      /\ liveStreams' = liveStreams \cup {[stream |-> s, address |-> a, ip |-> ip]}
      /\ Cardinality(Of(clients, a)) < MaxPerAddress /\ ipCount[ip] < MaxPerIp
  BY DEF Start, HasRoom, ConnectionsOf, Of
<1>3. \A c \in clients : c.stream # s
  BY DEF TokensOpenOneStream
<1> HIDE DEF new
<1>4. clients' \subseteq Clients /\ liveStreams' \subseteq Streams
  BY <1>1, <1>2 DEF RegistryTypeOK, Streams
<1>5. ipCount' \in [Ips -> Nat]
  BY <1>2 DEF RegistryTypeOK
<1>6. IsFiniteSet(clients')
  BY <1>2, FS_AddElement
<1>7. CountsAreExact'
  <2>1. ASSUME NEW i \in Ips
        PROVE  ipCount'[i] = Cardinality(At(clients', i)) /\ ipCount'[i] <= MaxPerIp
    <3>1. IsFiniteSet(At(clients, i)) /\ new \notin At(clients, i)
      BY <1>1, <1>3, FS_Subset DEF At
    <3>2. ipCount[i] \in Nat /\ ipCount[i] = Cardinality(At(clients, i)) /\ ipCount[i] <= MaxPerIp
      BY DEF CountsAreExact, At, RegistryTypeOK
    <3>3. CASE i = ip
      <4>1. At(clients', i) = At(clients, i) \cup {new}
        BY <1>1, <1>2, <3>3 DEF At
      <4>2. Cardinality(At(clients', i)) = ipCount[i] + 1
        BY <3>1, <3>2, <4>1, FS_AddElement
      <4> QED
        BY <1>2, <3>2, <3>3, <4>2, StreamsAssumption DEF RegistryTypeOK
    <3>4. CASE i # ip
      <4>1. At(clients', i) = At(clients, i)
        BY <1>1, <1>2, <3>4 DEF At
      <4> QED
        BY <1>2, <3>2, <3>4, <4>1 DEF RegistryTypeOK
    <3> QED
      BY <3>3, <3>4
  <2>2. ASSUME NEW b \in Addresses PROVE Cardinality(Of(clients', b)) <= MaxPerAddress
    <3>1. IsFiniteSet(Of(clients, b)) /\ Cardinality(Of(clients, b)) <= MaxPerAddress
      BY FS_Subset DEF CountsAreExact, ConnectionsOf, Of
    <3>2. CASE b = a
      <4>1. Of(clients', b) = Of(clients, b) \cup {new}
        BY <1>1, <1>2, <3>2 DEF Of
      <4>2. Cardinality(Of(clients, b)) \in Nat
        BY <3>1, FS_CardinalityType
      <4>3. \/ Cardinality(Of(clients', b)) = Cardinality(Of(clients, b))
            \/ Cardinality(Of(clients', b)) = Cardinality(Of(clients, b)) + 1
        BY <3>1, <4>1, FS_AddElement
      <4> QED
        BY <1>2, <3>1, <3>2, <4>2, <4>3, StreamsAssumption
    <3>3. CASE b # a
      <4>1. Of(clients', b) = Of(clients, b)
        BY <1>1, <1>2, <3>3 DEF Of
      <4> QED
        BY <3>1, <4>1
    <3> QED
      BY <3>2, <3>3
  <2> QED
    BY <2>1, <2>2 DEF CountsAreExact, ConnectionsOf, At, Of
<1>8. \A c \in clients' : [stream |-> c.stream, address |-> c.address, ip |-> c.ip] \in liveStreams'
  BY <1>1, <1>2 DEF TokensOpenOneStream
<1>9. \A c, d \in clients' : c.stream = d.stream => c = d
  BY <1>1, <1>2, <1>3 DEF TokensOpenOneStream
<1> QED
  BY <1>4, <1>5, <1>6, <1>7, <1>8, <1>9

\* removeClient of every client in `gone`, each counted out once.
LEMMA RemoveKeeps ==
    ASSUME RegistryInv, NEW gone \in SUBSET clients,
           clients' = clients \ gone, ipCount' = Released(gone)
    PROVE  /\ clients' \subseteq Clients /\ ipCount' \in [Ips -> Nat]
           /\ IsFiniteSet(clients') /\ CountsAreExact'
<1> USE DEF RegistryInv
<1>1. clients' \subseteq Clients
  BY DEF RegistryTypeOK
<1>2. IsFiniteSet(clients')
  BY FS_Difference
<1>3. ASSUME NEW i \in Ips
      PROVE  /\ ipCount'[i] = Cardinality(At(clients', i)) /\ ipCount'[i] \in Nat
             /\ ipCount'[i] <= MaxPerIp
  <2>1. IsFiniteSet(At(clients, i)) /\ At(gone, i) \subseteq At(clients, i)
    BY FS_Subset DEF At
  <2>2. At(clients', i) = At(clients, i) \ At(gone, i)
    BY DEF At
  <2>3. At(clients, i) \cap At(gone, i) = At(gone, i)
    BY <2>1
  <2>4. Cardinality(At(clients', i)) = Cardinality(At(clients, i)) - Cardinality(At(gone, i))
    BY <2>1, <2>2, <2>3, FS_Difference
  <2>5. ipCount[i] = Cardinality(At(clients, i)) /\ ipCount[i] <= MaxPerIp
    BY DEF CountsAreExact, At
  <2>6. ipCount'[i] = Cardinality(At(clients', i))
    BY <2>4, <2>5 DEF Released, At
  <2>7. IsFiniteSet(At(clients', i))
    BY <2>1, <2>2, FS_Difference
  <2>8. Cardinality(At(clients', i)) <= Cardinality(At(clients, i))
    BY <2>1, <2>2, FS_Subset
  <2>9. Cardinality(At(clients', i)) \in Nat /\ Cardinality(At(clients, i)) \in Nat
    BY <2>1, <2>7, FS_CardinalityType
  <2> QED
    BY <2>5, <2>6, <2>8, <2>9, StreamsAssumption
<1>4. ASSUME NEW b \in Addresses PROVE Cardinality(Of(clients', b)) <= MaxPerAddress
  <2>1. /\ IsFiniteSet(Of(clients, b)) /\ Of(clients', b) \subseteq Of(clients, b)
        /\ Cardinality(Of(clients, b)) <= MaxPerAddress
    BY FS_Subset DEF Of, CountsAreExact, ConnectionsOf
  <2>2. /\ IsFiniteSet(Of(clients', b))
        /\ Cardinality(Of(clients', b)) <= Cardinality(Of(clients, b))
    BY <2>1, FS_Subset
  <2>3. Cardinality(Of(clients', b)) \in Nat /\ Cardinality(Of(clients, b)) \in Nat
    BY <2>1, <2>2, FS_CardinalityType
  <2> QED
    BY <2>1, <2>2, <2>3, StreamsAssumption
<1>5. ipCount' \in [Ips -> Nat]
  BY <1>3 DEF Released
<1>6. CountsAreExact'
  BY <1>3, <1>4 DEF CountsAreExact, ConnectionsOf, At, Of
<1> QED
  BY <1>1, <1>2, <1>5, <1>6

\* What a client is told changes, and its age; whose it is does not.
LEMMA RenewKeeps ==
    ASSUME RegistryInv, NEW f \in [clients -> Clients],
           \A c \in clients : /\ f[c].stream = c.stream /\ f[c].address = c.address
                              /\ f[c].ip = c.ip,
           clients' = {f[c] : c \in clients}, ipCount' = ipCount, liveStreams' = liveStreams
    PROVE  /\ clients' \subseteq Clients /\ IsFiniteSet(clients') /\ CountsAreExact'
           /\ \A c \in clients' :
                 [stream |-> c.stream, address |-> c.address, ip |-> c.ip] \in liveStreams'
           /\ \A c, d \in clients' : c.stream = d.stream => c = d
<1> USE DEF RegistryInv
<1>1. clients' \subseteq Clients
  OBVIOUS
<1>2. \A c, d \in clients : f[c] = f[d] => c = d
  BY DEF TokensOpenOneStream
<1>3. IsFiniteSet(clients')
  <2>1. f \in [clients -> clients']
    OBVIOUS
  <2>2. \A z \in clients' : \E x \in clients : f[x] = z
    OBVIOUS
  <2> QED
    BY <1>2, <2>1, <2>2, SameSize
<1>4. ASSUME NEW i \in Ips PROVE Cardinality(At(clients', i)) = Cardinality(At(clients, i))
  <2> DEFINE g == [c \in At(clients, i) |-> f[c]]
  <2>1. IsFiniteSet(At(clients, i))
    BY FS_Subset DEF At
  <2>2. g \in [At(clients, i) -> At(clients', i)]
    BY DEF At
  <2>3. \A x, y \in At(clients, i) : g[x] = g[y] => x = y
    BY <1>2 DEF At
  <2>4. \A z \in At(clients', i) : \E x \in At(clients, i) : g[x] = z
    BY DEF At
  <2> QED
    BY <2>1, <2>2, <2>3, <2>4, SameSize
<1>5. ASSUME NEW b \in Addresses PROVE Cardinality(Of(clients', b)) = Cardinality(Of(clients, b))
  <2> DEFINE g == [c \in Of(clients, b) |-> f[c]]
  <2>1. IsFiniteSet(Of(clients, b))
    BY FS_Subset DEF Of
  <2>2. g \in [Of(clients, b) -> Of(clients', b)]
    BY DEF Of
  <2>3. \A x, y \in Of(clients, b) : g[x] = g[y] => x = y
    BY <1>2 DEF Of
  <2>4. \A z \in Of(clients', b) : \E x \in Of(clients, b) : g[x] = z
    BY DEF Of
  <2> QED
    BY <2>1, <2>2, <2>3, <2>4, SameSize
<1>6. CountsAreExact'
  BY <1>4, <1>5 DEF CountsAreExact, ConnectionsOf, At, Of
<1>7. ASSUME NEW c \in clients'
      PROVE  [stream |-> c.stream, address |-> c.address, ip |-> c.ip] \in liveStreams'
  <2>1. PICK b \in clients : c = f[b]
    OBVIOUS
  <2>2. c.stream = b.stream /\ c.address = b.address /\ c.ip = b.ip
    BY <2>1
  <2>3. [stream |-> b.stream, address |-> b.address, ip |-> b.ip] \in liveStreams
    BY DEF TokensOpenOneStream
  <2> QED
    BY <2>2, <2>3
<1>8. \A c, d \in clients' : c.stream = d.stream => c = d
  BY DEF TokensOpenOneStream
<1> QED
  BY <1>1, <1>3, <1>6, <1>7, <1>8

-----------------------------------------------------------------------------
(* One lemma per operation. *)

LEMMA MintKeeps == ASSUME RegistryInv, NEW a \in Addresses, Mint(a) PROVE RegistryInv'
<1> USE DEF RegistryInv
<1> DEFINE new == [token |-> minted + 1, address |-> a, life |-> TokenTtl]
<1>1. /\ tokens' = tokens \cup {new} /\ minted' = minted + 1 /\ minted < MaxMinted
      /\ clients' = clients /\ ipCount' = ipCount /\ liveStreams' = liveStreams
  BY DEF Mint
<1>2. minted \in Nat /\ minted + 1 \in 1..MaxMinted /\ new \in Tokens /\ new.token = minted + 1
  BY <1>1, StreamsAssumption DEF RegistryTypeOK, Tokens, Dead
<1>3. /\ \A t \in tokens : t.token \in Nat /\ t.token <= minted
      /\ \A l \in liveStreams : l.stream \in Nat /\ l.stream <= minted
  BY DEF RegistryTypeOK, OnlyMinted, Tokens, Streams
<1> HIDE DEF new
<1>4. RegistryTypeOK'
  BY <1>1, <1>2 DEF RegistryTypeOK
<1>5. CountsAreExact' /\ IsFiniteSet(clients')
  BY <1>1 DEF CountsAreExact, ConnectionsOf
<1>6. TokensOpenOneStream'
  BY <1>1, <1>2, <1>3 DEF TokensOpenOneStream
<1>7. OnlyMinted' /\ OneTokenPerNumber'
  BY <1>1, <1>2, <1>3 DEF OnlyMinted, OneTokenPerNumber
<1> QED
  BY <1>4, <1>5, <1>6, <1>7

LEMMA DropExpiredKeeps == ASSUME RegistryInv, NEW which, DropExpired(which) PROVE RegistryInv'
<1> USE DEF RegistryInv
<1>1. /\ tokens' \subseteq tokens /\ minted' = minted
      /\ clients' = clients /\ ipCount' = ipCount /\ liveStreams' = liveStreams
  BY DEF DropExpired
<1>2. RegistryTypeOK' /\ CountsAreExact' /\ IsFiniteSet(clients')
  BY <1>1 DEF RegistryTypeOK, CountsAreExact, ConnectionsOf
<1>3. TokensOpenOneStream' /\ OnlyMinted' /\ OneTokenPerNumber'
  BY <1>1 DEF TokensOpenOneStream, OnlyMinted, OneTokenPerNumber
<1> QED
  BY <1>2, <1>3

\* The token that opened the stream is deleted with it, and no other has its
\* number.
LEMMA AdmitKeeps ==
    ASSUME RegistryInv, NEW t \in tokens, NEW ip \in Ips, NEW p \in AttentiveParams, Admit(t, ip, p)
    PROVE  RegistryInv'
<1> USE DEF RegistryInv
<1>1. /\ Start(t.token, t.address, ip, p) /\ tokens' = tokens \ {t} /\ minted' = minted
      /\ liveStreams' = liveStreams \cup {[stream |-> t.token, address |-> t.address, ip |-> ip]}
  BY DEF Admit, Start
<1>2. t.token \in 1..minted /\ t.token \in 1..MaxMinted /\ t.address \in Addresses
  BY StreamsAssumption DEF RegistryTypeOK, OnlyMinted, Tokens
<1>3. \A l \in liveStreams : l.stream # t.token
  BY DEF TokensOpenOneStream
<1>4. /\ clients' \subseteq Clients /\ ipCount' \in [Ips -> Nat] /\ liveStreams' \subseteq Streams
      /\ IsFiniteSet(clients') /\ CountsAreExact'
      /\ \A c \in clients' :
            [stream |-> c.stream, address |-> c.address, ip |-> c.ip] \in liveStreams'
      /\ \A c, d \in clients' : c.stream = d.stream => c = d
  BY <1>1, <1>2, <1>3, StartKeeps
<1>5. RegistryTypeOK'
  BY <1>1, <1>4 DEF RegistryTypeOK
<1>6. \A u \in tokens' : \A l \in liveStreams' : u.token # l.stream
  BY <1>1 DEF TokensOpenOneStream, OneTokenPerNumber
<1>7. OnlyMinted' /\ OneTokenPerNumber'
  BY <1>1, <1>2 DEF OnlyMinted, OneTokenPerNumber
<1> QED
  BY <1>4, <1>5, <1>6, <1>7 DEF TokensOpenOneStream

LEMMA MintAndAdmitKeeps ==
    ASSUME RegistryInv, NEW a \in Addresses, NEW ip \in Ips, NEW p \in AttentiveParams,
           MintAndAdmit(a, ip, p)
    PROVE  RegistryInv'
<1> USE DEF RegistryInv
<1> DEFINE n == minted + 1
<1>1. /\ Start(n, a, ip, p) /\ tokens' = tokens /\ minted' = n /\ minted < MaxMinted
      /\ liveStreams' = liveStreams \cup {[stream |-> n, address |-> a, ip |-> ip]}
  BY DEF MintAndAdmit, Start
<1>2. minted \in Nat /\ n \in Nat /\ n \in 1..MaxMinted /\ n > minted
  BY <1>1, StreamsAssumption DEF RegistryTypeOK
<1>3. /\ \A t \in tokens : t.token \in Nat /\ t.token <= minted
      /\ \A l \in liveStreams : l.stream \in Nat /\ l.stream <= minted
  BY DEF RegistryTypeOK, OnlyMinted, Tokens, Streams
<1> HIDE DEF n
<1>4. /\ \A l \in liveStreams : l.stream # n
      /\ \A t \in tokens : t.token # n
  BY <1>2, <1>3
<1>5. /\ clients' \subseteq Clients /\ ipCount' \in [Ips -> Nat] /\ liveStreams' \subseteq Streams
      /\ IsFiniteSet(clients') /\ CountsAreExact'
      /\ \A c \in clients' :
            [stream |-> c.stream, address |-> c.address, ip |-> c.ip] \in liveStreams'
      /\ \A c, d \in clients' : c.stream = d.stream => c = d
  BY <1>1, <1>2, <1>4, StartKeeps
<1>6. RegistryTypeOK'
  BY <1>1, <1>2, <1>5 DEF RegistryTypeOK
<1>7. \A u \in tokens' : \A l \in liveStreams' : u.token # l.stream
  BY <1>1, <1>4 DEF TokensOpenOneStream
<1>8. OnlyMinted' /\ OneTokenPerNumber'
  BY <1>1, <1>2, <1>3 DEF OnlyMinted, OneTokenPerNumber
<1> QED
  BY <1>5, <1>6, <1>7, <1>8 DEF TokensOpenOneStream

LEMMA PublishFailsKeeps ==
    ASSUME RegistryInv, NEW a, NEW gone \in SUBSET clients, PublishFails(a, gone)
    PROVE  RegistryInv'
<1> USE DEF RegistryInv
<1>1. /\ clients' = clients \ gone /\ ipCount' = Released(gone)
      /\ tokens' = tokens /\ liveStreams' = liveStreams /\ minted' = minted
  BY DEF PublishFails
<1>2. /\ clients' \subseteq Clients /\ ipCount' \in [Ips -> Nat]
      /\ IsFiniteSet(clients') /\ CountsAreExact'
  BY <1>1, RemoveKeeps
<1>3. RegistryTypeOK'
  BY <1>1, <1>2 DEF RegistryTypeOK
<1>4. TokensOpenOneStream' /\ OnlyMinted' /\ OneTokenPerNumber'
  BY <1>1 DEF TokensOpenOneStream, OnlyMinted, OneTokenPerNumber
<1> QED
  BY <1>2, <1>3, <1>4

\* A cleanup takes the stream and whatever client is left of it, none after a
\* failed publish.
LEMMA CleanupKeeps ==
    ASSUME RegistryInv, NEW l \in liveStreams, Cleanup(l)
    PROVE  RegistryInv'
<1> USE DEF RegistryInv
<1> DEFINE gone == {c \in clients : c.stream = l.stream}
<1>1. /\ clients' = clients \ gone /\ ipCount' = Released(gone)
      /\ tokens' = tokens /\ liveStreams' = liveStreams \ {l} /\ minted' = minted
  BY DEF Cleanup, ReleasedBy
<1>2. /\ clients' \subseteq Clients /\ ipCount' \in [Ips -> Nat]
      /\ IsFiniteSet(clients') /\ CountsAreExact'
  <2> gone \in SUBSET clients
    OBVIOUS
  <2> HIDE DEF gone
  <2> QED
    BY <1>1, RemoveKeeps
<1>3. RegistryTypeOK'
  BY <1>1, <1>2 DEF RegistryTypeOK
<1>4. ASSUME NEW c \in clients'
      PROVE  [stream |-> c.stream, address |-> c.address, ip |-> c.ip] \in liveStreams'
  <2>1. c \in clients /\ c.stream # l.stream
    BY <1>1
  <2> DEFINE m == [stream |-> c.stream, address |-> c.address, ip |-> c.ip]
  <2>2. m \in liveStreams /\ m.stream = c.stream
    BY <2>1 DEF TokensOpenOneStream
  <2> HIDE DEF m
  <2>3. m \in liveStreams'
    BY <1>1, <2>1, <2>2
  <2> QED
    BY <2>3 DEF m
<1>5. TokensOpenOneStream' /\ OnlyMinted' /\ OneTokenPerNumber'
  BY <1>1, <1>4 DEF TokensOpenOneStream, OnlyMinted, OneTokenPerNumber
<1> QED
  BY <1>2, <1>3, <1>5

LEMMA ReportKeeps ==
    ASSUME RegistryInv, NEW s, NEW attentive \in BOOLEAN, NEW n \in Nat, Report(s, attentive, n)
    PROVE  RegistryInv'
<1> USE DEF RegistryInv
<1> DEFINE f == [c \in clients |-> IF c.stream = s THEN Updated(c, attentive, n) ELSE c]
<1>1. /\ clients' = {f[c] : c \in clients} /\ ipCount' = ipCount /\ liveStreams' = liveStreams
      /\ tokens' = tokens /\ minted' = minted
  BY DEF Report
<1>2. ASSUME NEW c \in clients
      PROVE  /\ f[c] \in Clients
             /\ f[c].stream = c.stream /\ f[c].address = c.address /\ f[c].ip = c.ip
  <2>1. c \in Clients
    BY DEF RegistryTypeOK
  <2> DEFINE u == [c EXCEPT !.sequence = n, !.suppressPush = attentive, !.age = 0]
  <2>2. 0 \in 0..AttentionTtl
    BY StreamsAssumption
  <2>3. u \in Clients
    BY <2>1, <2>2, Zenon DEF Clients
  <2>4. u.stream = c.stream /\ u.address = c.address /\ u.ip = c.ip
    BY <2>1 DEF Clients
  <2>5. f[c] \in {u, c}
    BY Zenon DEF Updated
  <2> HIDE DEF u, f
  <2> QED
    BY <2>1, <2>3, <2>4, <2>5
<1>3. f \in [clients -> Clients]
  BY <1>2
<1> HIDE DEF f
<1>4. /\ clients' \subseteq Clients /\ IsFiniteSet(clients') /\ CountsAreExact'
      /\ \A c \in clients' :
            [stream |-> c.stream, address |-> c.address, ip |-> c.ip] \in liveStreams'
      /\ \A c, d \in clients' : c.stream = d.stream => c = d
  BY <1>1, <1>2, <1>3, RenewKeeps
<1>5. RegistryTypeOK'
  BY <1>1, <1>4 DEF RegistryTypeOK
<1>6. TokensOpenOneStream' /\ OnlyMinted' /\ OneTokenPerNumber'
  BY <1>1, <1>4 DEF TokensOpenOneStream, OnlyMinted, OneTokenPerNumber
<1> QED
  BY <1>4, <1>5, <1>6

LEMMA RegistryTickKeeps == ASSUME RegistryInv, RegistryTick PROVE RegistryInv'
<1> USE DEF RegistryInv
<1> DEFINE f == [c \in clients |-> Older(c)]
<1>1. /\ clients' = {f[c] : c \in clients} /\ ipCount' = ipCount /\ liveStreams' = liveStreams
      /\ minted' = minted
      /\ tokens' = {[t EXCEPT !.life = IF @ = Dead THEN Dead ELSE @ - 1] : t \in tokens}
  BY DEF RegistryTick
<1>2. ASSUME NEW c \in clients
      PROVE  /\ f[c] \in Clients
             /\ f[c].stream = c.stream /\ f[c].address = c.address /\ f[c].ip = c.ip
  <2>1. c \in Clients
    BY DEF RegistryTypeOK
  <2>2. c.age \in Nat /\ (IF c.age < AttentionTtl THEN c.age + 1 ELSE c.age) \in 0..AttentionTtl
    BY <2>1, StreamsAssumption DEF Clients
  <2> QED
    BY <2>1, <2>2 DEF Older, Clients
<1>3. f \in [clients -> Clients]
  BY <1>2
<1> HIDE DEF f
<1>4. /\ clients' \subseteq Clients /\ IsFiniteSet(clients') /\ CountsAreExact'
      /\ \A c \in clients' :
            [stream |-> c.stream, address |-> c.address, ip |-> c.ip] \in liveStreams'
      /\ \A c, d \in clients' : c.stream = d.stream => c = d
  BY <1>1, <1>2, <1>3, RenewKeeps
<1>5. ASSUME NEW t \in tokens
      PROVE  LET u == [t EXCEPT !.life = IF @ = Dead THEN Dead ELSE @ - 1]
             IN  u \in Tokens /\ u.token = t.token
  <2>1. t \in Tokens
    BY DEF RegistryTypeOK
  <2>2. (IF t.life = Dead THEN Dead ELSE t.life - 1) \in Dead..TokenTtl
    BY <2>1, StreamsAssumption DEF Tokens, Dead
  <2> QED
    BY <2>1, <2>2 DEF Tokens
<1>6. RegistryTypeOK'
  BY <1>1, <1>4, <1>5 DEF RegistryTypeOK
<1>7. \A u \in tokens' : \E t \in tokens : u.token = t.token
                             /\ u = [t EXCEPT !.life = IF @ = Dead THEN Dead ELSE @ - 1]
  BY <1>1, <1>5
<1>8. TokensOpenOneStream'
  BY <1>1, <1>4, <1>7 DEF TokensOpenOneStream
<1>9. OnlyMinted' /\ OneTokenPerNumber'
  BY <1>1, <1>7 DEF OnlyMinted, OneTokenPerNumber
<1> QED
  BY <1>4, <1>6, <1>8, <1>9

LEMMA RegistryRestartKeeps == ASSUME RegistryInv, RegistryRestart PROVE RegistryInv'
<1> USE DEF RegistryInv
<1>1. RegistryTypeOK'
  BY StreamsAssumption DEF RegistryRestart, RegistryTypeOK
<1>2. IsFiniteSet(clients') /\ CountsAreExact'
  <2>1. IsFiniteSet({}) /\ Cardinality({}) = 0
    BY FS_EmptySet
  <2>2. /\ clients' = {}
        /\ \A ip \in Ips : {c \in clients' : c.ip = ip} = {}
        /\ \A a \in Addresses : {c \in clients' : c.address = a} = {}
    BY DEF RegistryRestart
  <2> QED
    BY <2>1, <2>2, StreamsAssumption DEF RegistryRestart, CountsAreExact, ConnectionsOf
<1>3. TokensOpenOneStream' /\ OnlyMinted' /\ OneTokenPerNumber'
  BY DEF RegistryRestart, TokensOpenOneStream, OnlyMinted, OneTokenPerNumber
<1> QED
  BY <1>1, <1>2, <1>3

LEMMA RegistryStep == RegistryInv /\ [RegistryNext]_registryVars => RegistryInv'
<1> SUFFICES ASSUME RegistryInv, [RegistryNext]_registryVars PROVE RegistryInv'
  OBVIOUS
<1>1. ASSUME NEW a \in Addresses, Mint(a) PROVE RegistryInv'
  BY <1>1, MintKeeps
<1>2. ASSUME NEW which \in SUBSET tokens, DropExpired(which) PROVE RegistryInv'
  BY <1>2, DropExpiredKeeps
<1>3. ASSUME NEW t \in tokens, NEW ip \in Ips, NEW p \in AttentiveParams, Admit(t, ip, p)
      PROVE  RegistryInv'
  BY <1>3, AdmitKeeps
<1>4. ASSUME NEW a \in Addresses, NEW ip \in Ips, NEW p \in AttentiveParams, MintAndAdmit(a, ip, p)
      PROVE  RegistryInv'
  BY <1>4, MintAndAdmitKeeps
<1>5. ASSUME NEW a \in Addresses, NEW gone \in SUBSET clients, PublishFails(a, gone)
      PROVE  RegistryInv'
  BY <1>5, PublishFailsKeeps
<1>6. ASSUME NEW l \in liveStreams, Cleanup(l) PROVE RegistryInv'
  BY <1>6, CleanupKeeps
<1>7. ASSUME NEW s \in 1..minted, NEW attentive \in BOOLEAN, NEW n \in Nat, Report(s, attentive, n)
      PROVE  RegistryInv'
  BY <1>7, ReportKeeps
<1>8. CASE RegistryTick
  BY <1>8, RegistryTickKeeps
<1>9. CASE RegistryRestart
  BY <1>9, RegistryRestartKeeps
<1>10. CASE UNCHANGED registryVars
  BY <1>10 DEF registryVars, RegistryInv, RegistryTypeOK, CountsAreExact, ConnectionsOf,
               TokensOpenOneStream, OnlyMinted, OneTokenPerNumber
<1> QED
  BY <1>1, <1>2, <1>3, <1>4, <1>5, <1>6, <1>7, <1>8, <1>9, <1>10 DEF RegistryNext

-----------------------------------------------------------------------------

\* The inductive invariant holds throughout, whatever the registry's callers
\* do.
THEOREM RegistryInvariant == RegistrySpec => []RegistryInv
BY RegistryInitially, RegistryStep, PTL DEF RegistrySpec

\* The registry's variables keep their types.
THEOREM RegistryTypeCorrect == RegistrySpec => []RegistryTypeOK
<1>1. RegistryInv => RegistryTypeOK
  BY DEF RegistryInv
<1> QED
  BY RegistryInvariant, <1>1, PTL

\* The counts of sse.ts never drift from the registry, and the caps hold:
\* however failed publishes, cleanups and restarts interleave, a place in a
\* cap is given back exactly once.
THEOREM CountsCorrect == RegistrySpec => []CountsAreExact
<1>1. RegistryInv => CountsAreExact
  BY DEF RegistryInv
<1> QED
  BY RegistryInvariant, <1>1, PTL

\* A single-use token opens one stream, and every registered client has one
\* that is still to be cleaned up.
THEOREM TokensCorrect == RegistrySpec => []TokensOpenOneStream
<1>1. RegistryInv => TokensOpenOneStream
  BY DEF RegistryInv
<1> QED
  BY RegistryInvariant, <1>1, PTL

-----------------------------------------------------------------------------
(* What the connection does reaches the registry by its own operations     *)
(* only.                                                                   *)

ReportsTyped == /\ sequence \in Nat
                /\ \A r \in reports : r.sequence \in Nat /\ r.attentive \in BOOLEAN

LEMMA ReportsInitially == Init => ReportsTyped
BY DEF Init, ReportsTyped

LEMMA ReportsKeep ==
    ASSUME ReportsTyped, visible \in BOOLEAN, focused \in BOOLEAN, [Next]_vars
    PROVE  ReportsTyped'
<1>1. CASE SocketOpens
  BY <1>1 DEF SocketOpens, ReportsTyped
<1>2. ASSUME NEW attentive \in BOOLEAN, Send(attentive) PROVE ReportsTyped'
  <2> DEFINE new == [stream |-> streamToken, attentive |-> attentive,
                     sequence |-> sequence + 1, stage |-> "sent"]
  <2>1. sequence' \in Nat /\ reports' = reports \cup {new}
    BY <1>2 DEF Send, ReportsTyped
  <2>2. new.sequence \in Nat /\ new.attentive \in BOOLEAN
    BY DEF ReportsTyped
  <2> HIDE DEF new
  <2> QED
    BY <2>1, <2>2 DEF ReportsTyped
<1>3. Attentive \in BOOLEAN
  BY DEF Attentive
<1>4. CASE SettleFires
  BY <1>2, <1>3, <1>4 DEF SettleFires, ReportsTyped
<1>5. CASE Heartbeat
  BY <1>2, <1>3, <1>5 DEF Heartbeat
<1>6. ASSUME NEW r \in reports, ReportArrives(r) \/ ReportLost(r) \/ ReportFails(r)
      PROVE  ReportsTyped'
  <2> DEFINE failed == [r EXCEPT !.stage = "failed"]
  <2>1. failed.sequence = r.sequence /\ failed.attentive = r.attentive
    OBVIOUS
  <2>2. sequence' = sequence /\ reports' \subseteq reports \cup {failed}
    BY <1>6 DEF ReportArrives, ReportLost, ReportFails, attention
  <2> HIDE DEF failed
  <2> QED
    BY <2>1, <2>2 DEF ReportsTyped
<1>7. CASE RestartServer
  <2>1. sequence' = sequence /\ reports' = {[r EXCEPT !.stage = "failed"] : r \in reports}
    BY <1>7 DEF RestartServer, ClientSide, attention
  <2>2. ASSUME NEW r \in reports
        PROVE  LET f == [r EXCEPT !.stage = "failed"]
               IN  f.sequence = r.sequence /\ f.attentive = r.attentive
    OBVIOUS
  <2> QED
    BY <2>1, <2>2 DEF ReportsTyped
<1>8. CASE UNCHANGED <<sequence, reports>>
  BY <1>8 DEF ReportsTyped
<1> QED
  <2>1. \/ SocketOpens \/ SettleFires \/ Heartbeat \/ RestartServer
        \/ \E r \in reports : ReportArrives(r) \/ ReportLost(r) \/ ReportFails(r)
        \/ UNCHANGED <<sequence, reports>>
    BY DEF Next, vars, ChangeWindow, Close, TimerFires, MintAnswered, MintFails, SocketFails,
           DialArrives, DialExpired, DialRefused, DialLost, StreamEnds, StreamDrops, EnqueueFails,
           OtherConnects, PruneTokens, Tick, ClientSide, attention
  <2> QED
    BY <1>1, <1>4, <1>5, <1>6, <1>7, <1>8, <2>1

LEMMA StepsOfTheRegistry ==
    ASSUME RegistryInv, ReportsTyped, [Next]_vars
    PROVE  [RegistryNext]_registryVars
<1> USE LinkAssumption
<1>1. CASE MintAnswered
  BY <1>1 DEF MintAnswered, RegistryNext
<1>2. ASSUME NEW r \in reports, ReportArrives(r) PROVE [RegistryNext]_registryVars
  <2>1. CASE Report(r.stream, r.attentive, r.sequence)
    <3>1. r.stream \in 1..minted
      BY <2>1 DEF Report, RegistryInv, RegistryTypeOK, OnlyMinted, Streams
    <3>2. r.attentive \in BOOLEAN /\ r.sequence \in Nat
      BY DEF ReportsTyped
    <3> QED
      BY <2>1, <3>1, <3>2 DEF RegistryNext
  <2> QED
    BY <1>2, <2>1 DEF ReportArrives
<1>3. ASSUME NEW d \in dials, DialArrives(d) PROVE [RegistryNext]_registryVars
  <2>1. PICK t \in tokens : Admit(t, myIp, IF d.attentive THEN "true" ELSE "false")
    BY <1>3 DEF DialArrives
  <2>2. (IF d.attentive THEN "true" ELSE "false") \in AttentiveParams
    BY DEF AttentiveParams
  <2> QED
    BY <2>1, <2>2 DEF RegistryNext
<1>4. ASSUME NEW d \in dials, DialExpired(d) PROVE [RegistryNext]_registryVars
  BY <1>4 DEF DialExpired, RegistryNext
<1>5. ASSUME NEW l \in liveStreams, StreamEnds(l) \/ StreamDrops(l) PROVE [RegistryNext]_registryVars
  BY <1>5 DEF StreamEnds, StreamDrops, RegistryNext
<1>6. ASSUME NEW gone \in SUBSET clients, EnqueueFails(gone) PROVE [RegistryNext]_registryVars
  BY <1>6 DEF EnqueueFails, RegistryNext
<1>7. ASSUME NEW ip \in Ips, NEW p \in AttentiveParams, OtherConnects(ip, p)
      PROVE  [RegistryNext]_registryVars
  BY <1>7 DEF OtherConnects, RegistryNext
<1>8. CASE PruneTokens
  BY <1>8 DEF PruneTokens, RegistryNext
<1>9. CASE RestartServer \/ Tick
  BY <1>9 DEF RestartServer, Tick, RegistryNext
<1>10. \/ MintAnswered \/ PruneTokens \/ RestartServer \/ Tick
       \/ \E r \in reports : ReportArrives(r)
       \/ \E d \in dials : DialArrives(d) \/ DialExpired(d)
       \/ \E l \in liveStreams : StreamEnds(l) \/ StreamDrops(l)
       \/ \E gone \in SUBSET clients : EnqueueFails(gone)
       \/ \E ip \in Ips, p \in AttentiveParams : OtherConnects(ip, p)
       \/ UNCHANGED registryVars
  BY DEF Next, vars, ChangeWindow, Close, TimerFires, MintFails, SocketOpens, SocketFails,
         SettleFires, Heartbeat, ReportLost, ReportFails, DialRefused, DialLost
<1> QED
  BY <1>1, <1>2, <1>3, <1>4, <1>5, <1>6, <1>7, <1>8, <1>9, <1>10

-----------------------------------------------------------------------------
(* The inductive invariant of the connection.  A timer, a token request    *)
(* and a socket exclude each other, and there is one of them whenever the  *)
(* connection is active.  That a request in flight leaves no retry time,   *)
(* and a timer exactly the retry time, is why neither can be joined by the *)
(* other when a hidden window is shown again.                              *)

Flags == /\ visible \in BOOLEAN /\ focused \in BOOLEAN
         /\ suspended \in BOOLEAN /\ closed \in BOOLEAN /\ opened \in BOOLEAN

LinkTyped == /\ mint \in {"none", "current", "outdated"}
             /\ timer \in Nat \cup {NoTimer} /\ retryIn \in Nat /\ backoff \in Nat
             /\ es \in 0..MaxMinted

OneSocket == sockets = IF es = NoStream THEN {} ELSE {es}

AtRest == closed \/ suspended => es = NoStream /\ timer = NoTimer

OneThingAtATime ==
    /\ timer # NoTimer => es = NoStream /\ mint = "none" /\ timer = retryIn
    /\ mint # "none" => es = NoStream /\ retryIn = 0

NeverIdle == closed \/ suspended \/ timer # NoTimer \/ mint # "none" \/ es # NoStream

LinkInv == Flags /\ LinkTyped /\ OneSocket /\ AtRest /\ OneThingAtATime /\ NeverIdle

USE DEF NoTimer, NoStream

\* The phase is that of the one thing the connection does.
PhaseIsExact ==
    /\ closed => Phase = "closed"
    /\ ~closed /\ suspended => Phase = "paused"
    /\ LinkInv /\ ~closed /\ ~suspended /\ timer # NoTimer => Phase = "waiting"
    /\ LinkInv /\ ~closed /\ ~suspended /\ mint # "none" => Phase = "asking"
    /\ LinkInv /\ ~closed /\ ~suspended /\ es # NoStream =>
          Phase = IF opened THEN "open" ELSE "dialing"

LEMMA PhaseOf == PhaseIsExact
BY DEF PhaseIsExact, Phase, LinkInv, OneThingAtATime

LEMMA PhaseOfNext == PhaseIsExact'
BY PhaseOf, PTL

LEMMA LinkInitially == Init => LinkInv /\ Link!LinkInit
<1> SUFFICES ASSUME Init PROVE LinkInv /\ Link!LinkInit
  OBVIOUS
<1>1. Flags /\ LinkTyped
  <2>1. Flags
    BY Zenon DEF Init, Flags
  <2>2. mint \in {"none", "current", "outdated"}
    BY DEF Init
  <2>3. timer \in Nat \cup {NoTimer} /\ retryIn \in Nat /\ backoff \in Nat /\ es \in 0..MaxMinted
    BY StreamsAssumption DEF Init
  <2> QED
    BY <2>1, <2>2, <2>3 DEF LinkTyped
<1>2. OneSocket /\ AtRest /\ OneThingAtATime /\ NeverIdle
  BY DEF Init, OneSocket, AtRest, OneThingAtATime, NeverIdle
<1>3. LinkInv
  BY <1>1, <1>2 DEF LinkInv
<1>4. Phase \in {"paused", "asking"} /\ sockets = {}
  BY <1>3, PhaseOf DEF PhaseIsExact, Init
<1> QED
  BY <1>3, <1>4 DEF Link!LinkInit

-----------------------------------------------------------------------------
(* Every step keeps the invariant and is a step of the link, or none of    *)
(* its business.                                                           *)

\* A step that leaves the connection and what it holds alone.
LEMMA LinkAlone ==
    ASSUME LinkInv, visible' \in BOOLEAN, focused' \in BOOLEAN, UNCHANGED link
    PROVE  LinkInv' /\ UNCHANGED Link!linkVars
BY DEF link, LinkInv, Flags, LinkTyped, OneSocket, AtRest, OneThingAtATime, NeverIdle, Phase, Link!linkVars

\* setActive(true) connects, or waits for what is left of the backoff.
LEMMA ActivateKeeps ==
    ASSUME LinkInv, visible' \in BOOLEAN, focused' \in BOOLEAN, ~closed, suspended, Activate
    PROVE  LinkInv' /\ Link!Resume
<1> USE DEF LinkInv
<1>1. /\ suspended' = FALSE /\ closed' = closed /\ retryIn' = retryIn /\ backoff' = backoff
      /\ es' = es /\ opened' = opened /\ sockets' = sockets
      /\ timer = NoTimer /\ es = NoStream /\ sockets = {}
  BY DEF Activate, AtRest, OneSocket
<1>0. Flags'
  BY <1>1, Zenon DEF Flags
<1>2. CASE retryIn > 0
  <2>1. timer' = retryIn /\ mint' = "none" /\ retryIn \in Nat /\ retryIn > 0
    BY <1>2 DEF Activate, OneThingAtATime, LinkTyped
  <2>2. LinkInv'
    BY <1>0, <1>1, <2>1 DEF LinkTyped, OneSocket, AtRest, OneThingAtATime, NeverIdle
  <2>3. Phase = "paused" /\ Phase' = "waiting"
    BY <1>1, <2>1, <2>2, PhaseOf, PhaseOfNext DEF PhaseIsExact
  <2> QED
    BY <1>1, <2>2, <2>3 DEF Link!Resume, Link!Drop
<1>3. CASE ~(retryIn > 0)
  <2>1. timer' = NoTimer /\ mint' \in {"current", "outdated"} /\ retryIn = 0
    BY <1>1, <1>3 DEF Activate, Asking, LinkTyped
  <2>2. LinkInv'
    BY <1>0, <1>1, <2>1 DEF LinkTyped, OneSocket, AtRest, OneThingAtATime, NeverIdle
  <2>3. Phase = "paused" /\ Phase' = "asking"
    BY <1>1, <2>1, <2>2, PhaseOf, PhaseOfNext DEF PhaseIsExact
  <2> QED
    BY <1>1, <2>2, <2>3 DEF Link!Resume, Link!Drop
<1> QED
  BY <1>2, <1>3

\* setActive(false) lets go of timer and socket.
LEMMA DeactivateKeeps ==
    ASSUME LinkInv, visible' \in BOOLEAN, focused' \in BOOLEAN, ~closed, ~suspended, Deactivate
    PROVE  LinkInv' /\ Link!Pause
<1> USE DEF LinkInv
<1>1. /\ suspended' = TRUE /\ closed' = closed /\ retryIn' = retryIn /\ backoff' = backoff
      /\ timer' = NoTimer /\ es' = NoStream /\ opened' = FALSE /\ sockets' = {}
      /\ mint' = IF mint = "none" THEN "none" ELSE "outdated"
  BY DEF Deactivate, SocketsClosed, OneSocket
<1>0. Flags'
  BY <1>1, Zenon DEF Flags
<1>2. LinkInv'
  BY <1>0, <1>1, StreamsAssumption DEF LinkTyped, OneSocket, AtRest, OneThingAtATime, NeverIdle
<1>3. Phase \in Link!Phases \ {"closed"}
  BY PhaseOf DEF PhaseIsExact, NeverIdle, Link!Phases
<1>4. Phase' = "paused"
  BY <1>1, PhaseOfNext DEF PhaseIsExact
<1> QED
  BY <1>1, <1>2, <1>3, <1>4 DEF Link!Pause, Link!Drop

LEMMA ChangeWindowKeeps ==
    ASSUME LinkInv, NEW v \in BOOLEAN, NEW f \in BOOLEAN, ChangeWindow(v, f)
    PROVE  LinkInv' /\ [Link!LinkNext]_Link!linkVars
<1>1. ~closed /\ visible' = v /\ focused' = f
  BY DEF ChangeWindow
<1>2. CASE v /\ suspended
  <2>1. Activate
    BY <1>2 DEF ChangeWindow
  <2> QED
    BY <1>1, <1>2, <2>1, ActivateKeeps DEF Link!LinkNext
<1>3. CASE ~v /\ ~suspended
  <2>1. Deactivate
    BY <1>3 DEF ChangeWindow
  <2> QED
    BY <1>1, <1>3, <2>1, DeactivateKeeps DEF Link!LinkNext
<1>4. CASE v = ~suspended
  <2>1. UNCHANGED link
    BY <1>4 DEF ChangeWindow
  <2> QED
    BY <1>1, <2>1, LinkAlone
<1> QED
  BY <1>2, <1>3, <1>4 DEF LinkInv, Flags

LEMMA CloseKeeps ==
    ASSUME LinkInv, Close
    PROVE  LinkInv' /\ Link!Close
<1> USE DEF LinkInv
<1>1. /\ ~closed /\ closed' = TRUE /\ timer' = NoTimer /\ es' = NoStream /\ sockets' = {}
      /\ suspended' = suspended /\ mint' = mint /\ retryIn' = retryIn /\ backoff' = backoff
      /\ opened' = opened /\ visible' = visible /\ focused' = focused
  BY DEF Close, SocketsClosed, OneSocket
<1>2. Flags'
  BY <1>1, Zenon DEF Flags
<1>3. LinkInv'
  BY <1>1, <1>2, StreamsAssumption DEF LinkTyped, OneSocket, AtRest, OneThingAtATime, NeverIdle
<1>4. Phase \in Link!Phases \ {"closed"} /\ Phase' = "closed"
  BY <1>1, PhaseOf, PhaseOfNext DEF PhaseIsExact, NeverIdle, Link!Phases
<1> QED
  BY <1>1, <1>3, <1>4 DEF Link!Close, Link!Drop

\* The timer is the retry time, so that none is left of it when it fires.
LEMMA TimerFiresKeeps ==
    ASSUME LinkInv, TimerFires
    PROVE  LinkInv' /\ Link!Ask
<1> USE DEF LinkInv
<1>1. /\ ~closed /\ ~suspended /\ timer # NoTimer /\ es = NoStream /\ mint = "none"
      /\ retryIn = 0 /\ sockets = {}
  BY DEF TimerFires, AtRest, OneThingAtATime, OneSocket
<1>2. /\ timer' = NoTimer /\ mint' = "current" /\ sockets' = sockets /\ es' = es
      /\ closed' = closed /\ suspended' = suspended /\ retryIn' = retryIn /\ backoff' = backoff
      /\ opened' = opened /\ visible' = visible /\ focused' = focused
  BY <1>1 DEF TimerFires, Asking, window
<1>3. Flags'
  BY <1>2, Zenon DEF Flags
<1>4. LinkInv'
  BY <1>1, <1>2, <1>3 DEF LinkTyped, OneSocket, AtRest, OneThingAtATime, NeverIdle
<1>5. Phase = "waiting" /\ Phase' = "asking"
  BY <1>1, <1>2, <1>4, PhaseOf, PhaseOfNext DEF PhaseIsExact
<1> QED
  BY <1>1, <1>2, <1>4, <1>5 DEF Link!Ask, Link!Drop

\* A token dialed, asked for again, or not wanted any more.
LEMMA MintAnsweredKeeps ==
    ASSUME LinkInv, RegistryTypeOK, MintAnswered
    PROVE  LinkInv' /\ [Link!LinkNext]_Link!linkVars
<1> USE DEF LinkInv
<1>1. /\ mint # "none" /\ es = NoStream /\ retryIn = 0 /\ timer = NoTimer /\ sockets = {}
      /\ minted + 1 \in 1..MaxMinted
  BY StreamsAssumption DEF MintAnswered, Mint, OneThingAtATime, OneSocket, RegistryTypeOK
<1>2. /\ timer' = timer /\ retryIn' = retryIn /\ backoff' = backoff /\ mint' = AskedAgain
      /\ closed' = closed /\ suspended' = suspended /\ visible' = visible /\ focused' = focused
  BY DEF MintAnswered, window
<1>3. CASE MayDial /\ mint = "current"
  <2>1. /\ ~closed /\ ~suspended /\ mint' = "none" /\ es' = minted + 1 /\ opened' = FALSE
        /\ sockets' = {minted + 1}
    BY <1>1, <1>2, <1>3 DEF MintAnswered, OpenEventSource, AskedAgain, MayDial
  <2>2. Flags'
    BY <1>2, <2>1, Zenon DEF Flags
  <2>3. minted + 1 \in 0..MaxMinted /\ minted + 1 # 0
    BY <1>1, StreamsAssumption
  <2>4. LinkInv'
    BY <1>1, <1>2, <2>1, <2>2, <2>3 DEF LinkTyped, OneSocket, AtRest, OneThingAtATime, NeverIdle
  <2>5. Phase = "asking"
    BY <1>1, <2>1, PhaseOf DEF PhaseIsExact
  <2>6. Phase' = "dialing"
    BY <1>2, <2>1, <2>3, <2>4, PhaseOfNext DEF PhaseIsExact
  <2>7. Link!Dial
    BY <1>1, <2>1, <2>5, <2>6 DEF Link!Dial
  <2> QED
    BY <2>4, <2>7 DEF Link!LinkNext
<1>4. CASE MayDial /\ mint = "outdated"
  <2>1. /\ ~closed /\ ~suspended /\ mint' = "current" /\ es' = es /\ opened' = opened
        /\ sockets' = sockets
    BY <1>2, <1>4 DEF MintAnswered, AskedAgain, MayDial
  <2>2. Flags'
    BY <1>2, <2>1, Zenon DEF Flags
  <2>3. LinkInv'
    BY <1>1, <1>2, <2>1, <2>2 DEF LinkTyped, OneSocket, AtRest, OneThingAtATime, NeverIdle
  <2>4. Phase = "asking" /\ Phase' = "asking"
    BY <1>1, <1>2, <2>1, <2>3, PhaseOf, PhaseOfNext DEF PhaseIsExact
  <2> QED
    BY <2>1, <2>3, <2>4 DEF Link!linkVars
<1>5. CASE ~MayDial
  <2>1. /\ closed \/ suspended
        /\ mint' = "none" /\ es' = es /\ opened' = opened /\ sockets' = sockets
    BY <1>5 DEF MintAnswered, AskedAgain, MayDial
  <2>2. Flags'
    BY <1>2, <2>1, Zenon DEF Flags
  <2>3. LinkInv'
    BY <1>1, <1>2, <2>1, <2>2 DEF LinkTyped, OneSocket, AtRest, OneThingAtATime, NeverIdle
  <2>4. Phase' = Phase
    BY <1>2, <2>1, Zenon DEF Phase
  <2> QED
    BY <2>1, <2>3, <2>4 DEF Link!linkVars
<1> QED
  BY <1>1, <1>3, <1>4, <1>5 DEF LinkTyped

\* scheduleReconnect, where no timer is set.
LEMMA ScheduleReconnectIs ==
    ASSUME timer = NoTimer, backoff \in Nat, ScheduleReconnect
    PROVE  /\ closed => timer' = timer /\ retryIn' = retryIn /\ backoff' = backoff
           /\ ~closed => /\ retryIn' = backoff /\ backoff' \in Nat
                         /\ timer' = IF suspended THEN NoTimer ELSE backoff
BY LinkAssumption DEF ScheduleReconnect

\* A failure schedules the next attempt, unless the window is hidden or the
\* session over.
LEMMA MintFailsKeeps ==
    ASSUME LinkInv, MintFails
    PROVE  LinkInv' /\ [Link!LinkNext]_Link!linkVars
<1> USE DEF LinkInv
<1>1. /\ mint # "none" /\ es = NoStream /\ retryIn = 0 /\ timer = NoTimer /\ sockets = {}
      /\ backoff \in Nat
  BY DEF MintFails, OneThingAtATime, OneSocket, LinkTyped
<1>2. /\ mint' = "none" /\ closed' = closed /\ suspended' = suspended /\ es' = es
      /\ opened' = opened /\ sockets' = sockets /\ visible' = visible /\ focused' = focused
  BY DEF MintFails, window
<1>3. Flags'
  BY <1>2, Zenon DEF Flags
<1>4. /\ closed => timer' = timer /\ retryIn' = retryIn /\ backoff' = backoff
      /\ ~closed => /\ retryIn' = backoff /\ backoff' \in Nat
                    /\ timer' = IF suspended THEN NoTimer ELSE backoff
  BY <1>1, ScheduleReconnectIs DEF MintFails
<1>5. LinkInv'
  BY <1>1, <1>2, <1>3, <1>4 DEF LinkTyped, OneSocket, AtRest, OneThingAtATime, NeverIdle
<1>6. CASE closed \/ suspended
  <2>1. Phase' = Phase
    BY <1>2, <1>6, Zenon DEF Phase
  <2> QED
    BY <1>2, <1>5, <2>1 DEF Link!linkVars
<1>7. CASE ~closed /\ ~suspended
  <2>1. timer' = backoff
    BY <1>4, <1>7
  <2>2. Phase = "asking" /\ Phase' = "waiting"
    BY <1>1, <1>2, <1>5, <1>7, <2>1, PhaseOf, PhaseOfNext DEF PhaseIsExact
  <2> QED
    BY <1>1, <1>2, <1>5, <2>2 DEF Link!LinkNext, Link!Fail, Link!Drop
<1> QED
  BY <1>6, <1>7

LEMMA SocketOpensKeeps ==
    ASSUME LinkInv, SocketOpens
    PROVE  LinkInv' /\ Link!Open
<1> USE DEF LinkInv
<1>1. /\ ~opened /\ es # NoStream /\ ~closed /\ ~suspended /\ timer = NoTimer /\ mint = "none"
  BY DEF SocketOpens, AtRest, OneThingAtATime, OneSocket
<1>2. /\ opened' = TRUE /\ backoff' = 1 /\ retryIn' = 0 /\ timer' = NoTimer
      /\ mint' = mint /\ closed' = closed /\ suspended' = suspended /\ es' = es
      /\ sockets' = sockets /\ visible' = visible /\ focused' = focused
  BY DEF SocketOpens, window
<1>3. Flags'
  BY <1>2, Zenon DEF Flags
<1>4. LinkInv'
  BY <1>1, <1>2, <1>3 DEF LinkTyped, OneSocket, AtRest, OneThingAtATime, NeverIdle
<1>5. Phase = "dialing" /\ Phase' = "open"
  BY <1>1, <1>2, <1>4, PhaseOf, PhaseOfNext DEF PhaseIsExact
<1> QED
  BY <1>2, <1>4, <1>5 DEF Link!Open

LEMMA SocketFailsKeeps ==
    ASSUME LinkInv, SocketFails
    PROVE  LinkInv' /\ Link!Fail
<1> USE DEF LinkInv
<1>1. /\ es # NoStream /\ ~closed /\ ~suspended /\ timer = NoTimer /\ mint = "none"
      /\ backoff \in Nat /\ sockets = {es}
  BY DEF SocketFails, AtRest, OneThingAtATime, OneSocket, LinkTyped
<1>2. /\ opened' = FALSE /\ es' = NoStream /\ sockets' = {}
      /\ mint' = mint /\ closed' = closed /\ suspended' = suspended
      /\ visible' = visible /\ focused' = focused
  BY <1>1 DEF SocketFails, SocketsClosed, window
<1>3. /\ retryIn' = backoff /\ backoff' \in Nat /\ timer' = backoff
  BY <1>1, ScheduleReconnectIs DEF SocketFails
<1>4. Flags'
  BY <1>2, Zenon DEF Flags
<1>5. LinkInv'
  BY <1>1, <1>2, <1>3, <1>4, StreamsAssumption
     DEF LinkTyped, OneSocket, AtRest, OneThingAtATime, NeverIdle
<1>6. Phase \in {"dialing", "open"} /\ Phase' = "waiting"
  BY <1>1, <1>2, <1>3, <1>5, PhaseOf, PhaseOfNext DEF PhaseIsExact
<1> QED
  BY <1>2, <1>5, <1>6 DEF Link!Fail, Link!Drop

\* Timer and retry time run down together.
LEMMA TickKeeps ==
    ASSUME LinkInv, Tick
    PROVE  LinkInv' /\ UNCHANGED Link!linkVars
<1> USE DEF LinkInv
<1>1. /\ mint' = mint /\ closed' = closed /\ suspended' = suspended /\ es' = es /\ backoff' = backoff
      /\ opened' = opened /\ sockets' = sockets /\ visible' = visible /\ focused' = focused
      /\ timer' = IF timer > 0 THEN timer - 1 ELSE timer
      /\ retryIn' = IF retryIn > 0 THEN retryIn - 1 ELSE 0
  BY DEF Tick, window
<1>2. Flags'
  BY <1>1, Zenon DEF Flags
<1>3. LinkInv'
  BY <1>1, <1>2 DEF LinkTyped, OneSocket, AtRest, OneThingAtATime, NeverIdle
<1>4. timer' = NoTimer <=> timer = NoTimer
  BY <1>1 DEF LinkTyped
<1>5. Phase' = Phase
  BY <1>1, <1>4, Zenon DEF Phase
<1> QED
  BY <1>1, <1>3, <1>5 DEF Link!linkVars

LEMMA LinkStep ==
    ASSUME LinkInv, RegistryTypeOK, [Next]_vars
    PROVE  LinkInv' /\ [Link!LinkNext]_Link!linkVars
<1>1. ASSUME NEW v \in BOOLEAN, NEW f \in BOOLEAN, ChangeWindow(v, f)
      PROVE  LinkInv' /\ [Link!LinkNext]_Link!linkVars
  BY <1>1, ChangeWindowKeeps
<1>2. CASE Close
  BY <1>2, CloseKeeps DEF Link!LinkNext
<1>3. CASE TimerFires
  BY <1>3, TimerFiresKeeps DEF Link!LinkNext
<1>4. CASE MintAnswered
  BY <1>4, MintAnsweredKeeps
<1>5. CASE MintFails
  BY <1>5, MintFailsKeeps
<1>6. CASE SocketOpens
  BY <1>6, SocketOpensKeeps DEF Link!LinkNext
<1>7. CASE SocketFails
  BY <1>7, SocketFailsKeeps DEF Link!LinkNext
<1>8. CASE Tick
  BY <1>8, TickKeeps
<1>9. CASE UNCHANGED <<window, link>>
  <2>1. visible' \in BOOLEAN /\ focused' \in BOOLEAN /\ UNCHANGED link
    BY <1>9 DEF window, LinkInv, Flags
  <2> QED
    BY <2>1, LinkAlone
<1>10. \/ \E v, f \in BOOLEAN : ChangeWindow(v, f)
       \/ Close \/ TimerFires \/ MintAnswered \/ MintFails \/ SocketOpens \/ SocketFails \/ Tick
       \/ UNCHANGED <<window, link>>
  BY DEF Next, vars, SettleFires, Heartbeat, ReportArrives, ReportLost, ReportFails, DialArrives,
         DialExpired, DialRefused, DialLost, StreamEnds, StreamDrops, EnqueueFails, OtherConnects,
         PruneTokens, RestartServer, ClientSide
<1> QED
  BY <1>1, <1>2, <1>3, <1>4, <1>5, <1>6, <1>7, <1>8, <1>9, <1>10

-----------------------------------------------------------------------------

ConnectionInv == RegistryInv /\ ReportsTyped /\ LinkInv

LEMMA ConnectionInitially == Init => ConnectionInv /\ Link!LinkInit
BY RegistryInitially, ReportsInitially, LinkInitially DEF ConnectionInv, Init

LEMMA ConnectionStep ==
    ConnectionInv /\ [Next]_vars => ConnectionInv' /\ [Link!LinkNext]_Link!linkVars
<1> SUFFICES ASSUME ConnectionInv, [Next]_vars
             PROVE  ConnectionInv' /\ [Link!LinkNext]_Link!linkVars
  OBVIOUS
<1>1. RegistryInv'
  BY StepsOfTheRegistry, RegistryStep DEF ConnectionInv
<1>2. ReportsTyped'
  BY ReportsKeep DEF ConnectionInv, LinkInv, Flags
<1>3. LinkInv' /\ [Link!LinkNext]_Link!linkVars
  BY LinkStep DEF ConnectionInv, RegistryInv
<1> QED
  BY <1>1, <1>2, <1>3 DEF ConnectionInv

\* The tab, the other device, the network and the server never drive the
\* counts of sse.ts away from the registered clients, nor past a cap.
THEOREM CountsStayExact == Spec => []CountsAreExact
<1>1. ConnectionInv => CountsAreExact
  BY DEF ConnectionInv, RegistryInv
<1> QED
  BY <1>1, ConnectionInitially, ConnectionStep, PTL DEF Spec

\* SseConnection implements the link that does one thing at a time: no
\* socket is leaked, and while it is active it is never without a timer, a
\* request or a socket.
THEOREM LinkImplemented == Spec => LinkSpec
BY ConnectionInitially, ConnectionStep, PTL DEF Spec, LinkSpec, Link!LinkSpec

-----------------------------------------------------------------------------
(* What useSSE believes of the server.  The socket's stream is the one the *)
(* reports are about; until it opens nothing was reported, and the client  *)
(* registered for it says what the dial said.  From then on the report     *)
(* with the highest sequence carries `reported`: it is on its way, failed  *)
(* unnoticed, or was the last the client took.                             *)

\* Numbers seen anywhere were minted.
NumbersMinted ==
    /\ es \in 0..minted
    /\ \A d \in dials : d.stream \in 0..minted /\ d.attentive \in BOOLEAN
    /\ \A r \in reports : r.stream \in 0..minted

StreamHeld ==
    streamToken # NoStream => /\ opened /\ streamToken = es
                              /\ \A t \in tokens : t.token # streamToken

DialStands ==
    (~opened /\ es # NoStream) =>
        /\ dialedAttention \in BOOLEAN
        /\ \A c \in clients : c.stream = es => c.sequence = 0 /\ c.suppressPush = dialedAttention
        /\ \A d \in dials : d.stream = es => d.attentive = dialedAttention
        /\ \A r \in reports : r.stream # es

\* What the client of the stream, and the reports of it, have to do with the
\* last one sent.
ClientFollows(c) ==
    /\ c.sequence <= sequence
    /\ (reported # "unknown" /\ c.sequence = sequence) => AsReport(c.suppressPush) = reported
    /\ reported # "unknown" =>
          \/ c.sequence = sequence
          \/ \E r \in reports : r.stream = streamToken /\ r.sequence = sequence

ReportFollows(r) ==
    /\ r.sequence <= sequence
    /\ (reported # "unknown" /\ r.sequence = sequence) => AsReport(r.attentive) = reported

LastReportStands ==
    streamToken # NoStream =>
        /\ \A c \in clients : c.stream = streamToken => ClientFollows(c)
        /\ \A r \in reports : r.stream = streamToken => ReportFollows(r)

Settled == (streamToken # NoStream /\ reported # "unknown" /\ ~settling) => reported = AsReport(Attentive)

AttentionInv == NumbersMinted /\ StreamHeld /\ DialStands /\ LastReportStands /\ Settled

LEMMA AttentionFollows == AttentionInv => AttentionAgrees
BY DEF AttentionInv, LastReportStands, ClientFollows, Settled, AttentionAgrees

LEMMA AttentionInitially == Init => AttentionInv
BY DEF Init, RegistryInit, AttentionInv, NumbersMinted, StreamHeld, DialStands, LastReportStands, Settled

\* What the server drops, or lets age, takes nothing from what holds of the
\* clients that stay.
LEMMA QuietKeeps ==
    ASSUME AttentionInv, UNCHANGED <<visible, focused, attention, es, opened, reports, minted>>,
           dials' \subseteq dials,
           \A t \in tokens' : \E u \in tokens : u.token = t.token,
           \A c \in clients' : \E b \in clients :
               b.stream = c.stream /\ b.sequence = c.sequence /\ b.suppressPush = c.suppressPush
    PROVE  AttentionInv'
<1> USE DEF AttentionInv, attention
<1>1. NumbersMinted' /\ StreamHeld' /\ Settled'
  BY DEF NumbersMinted, StreamHeld, Settled, Attentive
<1>2. DialStands'
  BY DEF DialStands
<1>3. LastReportStands'
  <2> SUFFICES ASSUME streamToken # NoStream PROVE LastReportStands'
    BY DEF LastReportStands
  <2>1. ASSUME NEW c \in clients', c.stream = streamToken PROVE ClientFollows(c)'
    <3>1. PICK b \in clients :
              b.stream = c.stream /\ b.sequence = c.sequence /\ b.suppressPush = c.suppressPush
      OBVIOUS
    <3>2. ClientFollows(b)
      BY <2>1, <3>1 DEF LastReportStands
    <3> QED
      BY <3>1, <3>2 DEF ClientFollows
  <2>2. ASSUME NEW r \in reports', r.stream = streamToken PROVE ReportFollows(r)'
    BY <2>2 DEF LastReportStands, ReportFollows
  <2> QED
    BY <2>1, <2>2 DEF LastReportStands
<1> QED
  BY <1>1, <1>2, <1>3

\* Letting go of the socket, or keeping it while the window changes.
LEMMA WindowKeeps ==
    ASSUME ConnectionInv, AttentionInv,
           UNCHANGED <<registryVars, dials, reports, dialedAttention, sequence>>,
           \/ es' = NoStream /\ streamToken' = NoStream
           \/ UNCHANGED <<es, opened, streamToken, reported>> /\ settling'
    PROVE  AttentionInv'
<1> USE DEF AttentionInv, registryVars
<1>1. CASE es' = NoStream /\ streamToken' = NoStream
  <2>1. NumbersMinted'
    BY <1>1, StreamsAssumption DEF NumbersMinted, ConnectionInv, RegistryInv, RegistryTypeOK
  <2> QED
    BY <1>1, <2>1 DEF StreamHeld, DialStands, LastReportStands, Settled
<1>2. CASE UNCHANGED <<es, opened, streamToken, reported>> /\ settling'
  BY <1>2 DEF NumbersMinted, StreamHeld, DialStands, LastReportStands, ClientFollows, ReportFollows, Settled
<1> QED
  BY <1>1, <1>2

LEMMA LettingGoKeeps ==
    ASSUME ConnectionInv, AttentionInv,
           (\E v, f \in BOOLEAN : ChangeWindow(v, f)) \/ Close \/ SocketFails
    PROVE  AttentionInv'
<1>1. ~opened => streamToken = NoStream
  BY DEF AttentionInv, StreamHeld
<1>2. CASE \E v, f \in BOOLEAN : ChangeWindow(v, f)
  <2>1. PICK v \in BOOLEAN, f \in BOOLEAN : ChangeWindow(v, f)
    BY <1>2
  <2>2. UNCHANGED <<registryVars, dials, reports, dialedAttention, sequence>> /\ settling' = TRUE
    BY <2>1 DEF ChangeWindow
  <2>3. \/ es' = NoStream /\ streamToken' = NoStream
        \/ UNCHANGED <<es, opened, streamToken, reported>>
    <3>1. v \in BOOLEAN /\ suspended \in BOOLEAN
      BY DEF ConnectionInv, LinkInv, Flags
    <3>2. Activate \/ Deactivate \/ UNCHANGED <<link, streamToken, reported>>
      BY <2>1, <3>1 DEF ChangeWindow
    <3> QED
      BY <1>1, <3>2 DEF Activate, Deactivate, Disconnected, link
  <2> QED
    BY <2>2, <2>3, WindowKeeps
<1>3. CASE Close
  <2>1. /\ UNCHANGED <<registryVars, dials, reports, dialedAttention, sequence>>
        /\ es' = NoStream /\ streamToken' = NoStream
    BY <1>3 DEF Close
  <2> QED
    BY <2>1, WindowKeeps
<1>4. CASE SocketFails
  <2>1. /\ UNCHANGED <<registryVars, dials, reports, dialedAttention, sequence>>
        /\ es' = NoStream /\ streamToken' = NoStream
    BY <1>1, <1>4 DEF SocketFails, Disconnected
  <2> QED
    BY <2>1, WindowKeeps
<1> QED
  BY <1>2, <1>3, <1>4

\* A client's stream, and a report's, is older than the next token.
LEMMA ClientsAreMinted ==
    ASSUME RegistryInv, NEW c \in clients
    PROVE  c.stream \in 1..minted
<1>1. \E l \in liveStreams : l.stream = c.stream
  BY DEF RegistryInv, TokensOpenOneStream
<1> QED
  BY <1>1 DEF RegistryInv, RegistryTypeOK, OnlyMinted, Streams

\* The new socket's number is one nobody used.
LEMMA DialKeeps ==
    ASSUME ConnectionInv, AttentionInv, MintAnswered
    PROVE  AttentionInv'
<1> USE DEF AttentionInv
<1> DEFINE n == minted + 1
<1>1. /\ minted \in Nat /\ minted' = n /\ clients' = clients /\ reports' = reports
      /\ es = NoStream /\ streamToken = NoStream /\ streamToken' = streamToken
  BY StreamsAssumption
     DEF MintAnswered, Mint, ConnectionInv, RegistryInv, RegistryTypeOK, LinkInv, OneThingAtATime,
         StreamHeld
<1>2. StreamHeld' /\ LastReportStands' /\ Settled'
  BY <1>1 DEF StreamHeld, LastReportStands, Settled
<1>3. Attentive \in BOOLEAN
  BY DEF Attentive
<1>4. \A c \in clients : c.stream < n
  BY <1>1, ClientsAreMinted DEF ConnectionInv
<1>5. /\ \A r \in reports : r.stream \in 0..minted /\ r.stream < n
      /\ \A d \in dials : d.stream \in 0..minted /\ d.stream < n /\ d.attentive \in BOOLEAN
  BY <1>1 DEF NumbersMinted
<1>6. CASE UNCHANGED <<es, dials>>
  <2>1. NumbersMinted'
    BY <1>1, <1>5, <1>6 DEF NumbersMinted
  <2> QED
    BY <1>1, <1>2, <1>6, <2>1 DEF DialStands
<1>7. CASE OpenEventSource(n)
  <2> DEFINE new == [stream |-> n, attentive |-> Attentive]
  <2>1. /\ es' = n /\ dialedAttention' = Attentive /\ dials' = dials \cup {new}
        /\ new.stream = n /\ new.attentive = Attentive
    BY <1>7 DEF OpenEventSource
  <2> HIDE DEF new
  <2>2. NumbersMinted'
    <3>1. /\ n \in 0..n
          /\ \A d \in dials' : d.stream \in 0..n /\ d.attentive \in BOOLEAN
          /\ \A r \in reports : r.stream \in 0..n
      BY <1>1, <1>3, <1>5, <2>1
    <3> QED
      BY <1>1, <2>1, <3>1 DEF NumbersMinted
  <2>3. /\ \A c \in clients : c.stream # n
        /\ \A r \in reports : r.stream # n
        /\ \A d \in dials' : d.stream = n => d = new
    BY <1>1, <1>4, <1>5, <2>1, ClientsAreMinted DEF ConnectionInv
  <2>4. DialStands'
    BY <1>1, <1>3, <2>1, <2>3 DEF DialStands
  <2> QED
    BY <1>2, <2>2, <2>4
<1> QED
  BY <1>6, <1>7 DEF MintAnswered

\* The open event: the server has a client for the socket only if the dial
\* created it, and nobody reported on it since.
LEMMA OpenKeeps ==
    ASSUME ConnectionInv, AttentionInv, SocketOpens
    PROVE  AttentionInv'
<1> USE DEF AttentionInv
<1>1. /\ ~opened /\ opened' = TRUE /\ streamToken' = es /\ sequence' = 0 /\ settling' = TRUE
      /\ reported' = AsReport(dialedAttention) /\ es' = es
      /\ UNCHANGED <<registryVars, window, dials, reports, dialedAttention>>
      /\ \E l \in liveStreams : l.stream = es
  BY DEF SocketOpens
<1>2. NumbersMinted' /\ DialStands' /\ Settled'
  BY <1>1 DEF NumbersMinted, DialStands, Settled, registryVars
<1>3. StreamHeld'
  BY <1>1 DEF StreamHeld, ConnectionInv, RegistryInv, TokensOpenOneStream, registryVars
<1>4. LastReportStands'
  <2> SUFFICES ASSUME es # NoStream PROVE LastReportStands'
    BY <1>1 DEF LastReportStands
  <2>1. /\ \A c \in clients : c.stream = es => c.sequence = 0 /\ c.suppressPush = dialedAttention
        /\ \A r \in reports : r.stream # es
    BY <1>1 DEF DialStands
  <2>2. clients' = clients /\ reports' = reports
    BY <1>1 DEF registryVars
  <2> QED
    BY <1>1, <2>1, <2>2 DEF LastReportStands, ClientFollows
<1> QED
  BY <1>2, <1>3, <1>4

\* A report is the last one from the moment it is sent.
LEMMA SendKeeps ==
    ASSUME ConnectionInv, AttentionInv, streamToken # NoStream, Send(Attentive),
           UNCHANGED <<registryVars, window, es, opened, dials, streamToken, dialedAttention>>
    PROVE  AttentionInv'
<1> USE DEF AttentionInv
<1> DEFINE new == [stream |-> streamToken, attentive |-> Attentive,
                   sequence |-> sequence + 1, stage |-> "sent"]
<1>1. /\ reported' = AsReport(Attentive) /\ sequence' = sequence + 1 /\ reports' = reports \cup {new}
      /\ new.stream = streamToken /\ new.attentive = Attentive /\ new.sequence = sequence + 1
      /\ sequence \in Nat
  BY DEF Send, ConnectionInv, ReportsTyped
<1> HIDE DEF new
<1>2. opened /\ streamToken = es
  BY DEF StreamHeld
<1>3. NumbersMinted' /\ DialStands' /\ StreamHeld'
  BY <1>1, <1>2 DEF NumbersMinted, DialStands, StreamHeld, registryVars
<1>4. Attentive' = Attentive
  BY DEF Attentive, window
<1>5. Settled'
  BY <1>1, <1>4 DEF Settled
<1>6. LastReportStands'
  <2>1. ASSUME NEW c \in clients, c.stream = streamToken PROVE ClientFollows(c)'
    <3>1. c.sequence <= sequence /\ c.sequence \in Nat
      BY <2>1 DEF LastReportStands, ClientFollows, ConnectionInv, RegistryInv, RegistryTypeOK, Clients
    <3>2. /\ c.sequence <= sequence + 1 /\ c.sequence # sequence + 1
      BY <1>1, <3>1
    <3> QED
      BY <1>1, <3>2 DEF ClientFollows
  <2>2. ASSUME NEW r \in reports', r.stream = streamToken PROVE ReportFollows(r)'
    <3>1. CASE r = new
      BY <1>1, <3>1 DEF ReportFollows
    <3>2. CASE r \in reports
      <4>1. r.sequence <= sequence /\ r.sequence \in Nat
        BY <2>2, <3>2 DEF LastReportStands, ReportFollows, ConnectionInv, ReportsTyped
      <4>2. /\ r.sequence <= sequence + 1 /\ r.sequence # sequence + 1
        BY <1>1, <4>1
      <4> QED
        BY <1>1, <4>2 DEF ReportFollows
    <3> QED
      BY <1>1, <3>1, <3>2
  <2> QED
    BY <2>1, <2>2 DEF LastReportStands, registryVars
<1> QED
  BY <1>3, <1>5, <1>6

LEMMA SendingKeeps ==
    ASSUME ConnectionInv, AttentionInv, SettleFires \/ Heartbeat
    PROVE  AttentionInv'
<1>1. UNCHANGED <<registryVars, window, es, opened, dials, streamToken, dialedAttention>>
  BY DEF SettleFires, Heartbeat, link
<1>2. CASE streamToken # NoStream /\ Send(Attentive)
  BY <1>1, <1>2, SendKeeps
<1>3. CASE /\ ~(streamToken # NoStream /\ AsReport(Attentive) # reported)
           /\ UNCHANGED <<reported, sequence, reports>>
  <2>1. NumbersMinted' /\ DialStands' /\ StreamHeld' /\ LastReportStands'
    BY <1>1, <1>3 DEF AttentionInv, NumbersMinted, DialStands, StreamHeld, LastReportStands,
                      ClientFollows, ReportFollows, registryVars
  <2>2. Settled'
    BY <1>1, <1>3 DEF Settled, Attentive, window
  <2> QED
    BY <2>1, <2>2 DEF AttentionInv
<1> QED
  BY <1>2, <1>3 DEF SettleFires, Heartbeat

\* A report that arrives, late, twice or in vain, leaves the client behind the
\* last one or at it: an older sequence is ignored.
LEMMA ArrivalKeeps ==
    ASSUME ConnectionInv, AttentionInv, NEW r \in reports, NEW failed,
           failed.stream = r.stream, failed.sequence = r.sequence, failed.attentive = r.attentive,
           \/ reports' = reports \ {r}
           \/ reports' = (reports \ {r}) \cup {failed},
           Report(r.stream, r.attentive, r.sequence),
           UNCHANGED <<window, es, opened, dials, attention>>
    PROVE  AttentionInv'
<1> USE DEF AttentionInv
<1>1. /\ clients' = {IF c.stream = r.stream THEN Updated(c, r.attentive, r.sequence) ELSE c : c \in clients}
      /\ tokens' = tokens /\ minted' = minted
      /\ UNCHANGED <<streamToken, sequence, reported, settling, dialedAttention, visible, focused>>
      /\ \A q \in reports' : q \in reports \/ q = failed
  BY DEF Report, attention, window
<1>2. NumbersMinted' /\ StreamHeld' /\ Settled'
  BY <1>1 DEF NumbersMinted, StreamHeld, Settled, Attentive
<1>3. ASSUME NEW c \in clients
      PROVE  LET u == Updated(c, r.attentive, r.sequence)
             IN  /\ u.stream = c.stream
                 /\ r.sequence <= c.sequence => u = c
                 /\ ~(r.sequence <= c.sequence) => u.sequence = r.sequence /\ u.suppressPush = r.attentive
  <2>1. c \in Clients
    BY DEF ConnectionInv, RegistryInv, RegistryTypeOK
  <2> QED
    BY <2>1 DEF Updated, Clients
<1>4. DialStands'
  <2> SUFFICES ASSUME ~opened, es # NoStream PROVE DialStands'
    BY DEF DialStands
  <2>1. r.stream # es
    BY DEF DialStands
  <2>2. \A c \in clients' : c.stream = es => c \in clients
    BY <1>1, <1>3, <2>1
  <2> QED
    BY <1>1, <2>1, <2>2 DEF DialStands
<1>5. LastReportStands'
  <2> SUFFICES ASSUME streamToken # NoStream PROVE LastReportStands'
    BY <1>1 DEF LastReportStands
  <2>1. ASSUME NEW q \in reports', q.stream = streamToken PROVE ReportFollows(q)'
    <3>1. ReportFollows(q)
      <4>1. CASE q \in reports
        BY <2>1, <4>1 DEF LastReportStands
      <4>2. CASE q = failed
        BY <2>1, <4>2 DEF LastReportStands, ReportFollows
      <4> QED
        BY <1>1, <4>1, <4>2
    <3> QED
      BY <1>1, <3>1 DEF ReportFollows
  <2>2. ASSUME NEW d \in clients', d.stream = streamToken PROVE ClientFollows(d)'
    <3>1. PICK c \in clients : d = IF c.stream = r.stream THEN Updated(c, r.attentive, r.sequence) ELSE c
      BY <1>1
    <3>2. c.stream = streamToken /\ ClientFollows(c)
      BY <1>3, <2>2, <3>1 DEF LastReportStands
    <3>3. CASE r.stream # streamToken
      <4>1. d = c
        BY <3>1, <3>2, <3>3
      <4>2. \A q \in reports : q.stream = streamToken => q \in reports'
        BY <3>3
      <4> QED
        BY <1>1, <3>2, <4>1, <4>2 DEF ClientFollows
    <3>4. CASE r.stream = streamToken
      <4>1. ReportFollows(r) /\ r.sequence \in Nat /\ c.sequence \in Nat /\ sequence \in Nat
        BY <3>4 DEF LastReportStands, ConnectionInv, ReportsTyped, RegistryInv, RegistryTypeOK, Clients
      <4>2. d.sequence = sequence \/ (\E q \in reports : q # r /\ q.stream = streamToken /\ q.sequence = sequence)
            \/ reported = "unknown"
        BY <1>3, <3>1, <3>2, <3>4, <4>1 DEF ClientFollows, ReportFollows
      <4>3. \A q \in reports : q # r => q \in reports'
        OBVIOUS
      <4>4. d.sequence <= sequence
        BY <1>3, <3>1, <3>2, <3>4, <4>1 DEF ClientFollows, ReportFollows
      <4>5. (reported # "unknown" /\ d.sequence = sequence) => AsReport(d.suppressPush) = reported
        BY <1>3, <3>1, <3>2, <3>4, <4>1 DEF ClientFollows, ReportFollows
      <4> QED
        BY <1>1, <4>2, <4>3, <4>4, <4>5 DEF ClientFollows
    <3> QED
      BY <3>3, <3>4
  <2> QED
    BY <1>1, <2>1, <2>2 DEF LastReportStands
<1> QED
  BY <1>2, <1>4, <1>5

\* A report that failed on its way is still one in flight.
LEMMA LosingKeeps ==
    ASSUME AttentionInv, NEW f \in [reports -> {q : q \in reports'}],
           \A q \in reports : /\ f[q].stream = q.stream /\ f[q].sequence = q.sequence
                              /\ f[q].attentive = q.attentive,
           \A q \in reports' : \E p \in reports : q = f[p],
           clients' \subseteq clients, tokens' \subseteq tokens, dials' \subseteq dials,
           UNCHANGED <<minted, window, es, opened, attention>>
    PROVE  AttentionInv'
<1> USE DEF AttentionInv, attention, window
<1>1. NumbersMinted' /\ StreamHeld' /\ Settled'
  BY DEF NumbersMinted, StreamHeld, Settled, Attentive
<1>2. DialStands'
  BY DEF DialStands
<1>3. LastReportStands'
  <2> SUFFICES ASSUME streamToken # NoStream PROVE LastReportStands'
    BY DEF LastReportStands
  <2>1. ASSUME NEW q \in reports', q.stream = streamToken PROVE ReportFollows(q)'
    <3>1. PICK p \in reports : q = f[p]
      OBVIOUS
    <3>2. ReportFollows(p)
      BY <2>1, <3>1 DEF LastReportStands
    <3> QED
      BY <3>1, <3>2 DEF ReportFollows
  <2>2. ASSUME NEW c \in clients', c.stream = streamToken PROVE ClientFollows(c)'
    <3>1. ClientFollows(c)
      BY <2>2 DEF LastReportStands
    <3>2. ASSUME NEW p \in reports, p.stream = streamToken, p.sequence = sequence
          PROVE  \E q \in reports' : q.stream = streamToken /\ q.sequence = sequence
      <4>1. f[p] \in reports' /\ f[p].stream = streamToken /\ f[p].sequence = sequence
        BY <3>2
      <4> QED
        BY <4>1
    <3> QED
      BY <3>1, <3>2 DEF ClientFollows
  <2> QED
    BY <2>1, <2>2 DEF LastReportStands
<1> QED
  BY <1>1, <1>2, <1>3

\* The failure of the last report is noticed by forgetting what was reported.
LEMMA NoticingKeeps ==
    ASSUME ConnectionInv, AttentionInv, NEW r \in reports, ReportFails(r)
    PROVE  AttentionInv'
<1> USE DEF AttentionInv
<1>1. /\ reports' = reports \ {r} /\ reported' = ReportedAfterFailure(r)
      /\ UNCHANGED <<registryVars, visible, focused, es, opened, streamToken, sequence, settling,
                     dialedAttention, dials>>
  BY DEF ReportFails, window, link
<1>2. reported' \in {reported, "unknown"}
  BY <1>1 DEF ReportedAfterFailure
<1>3. NumbersMinted' /\ StreamHeld' /\ DialStands' /\ Settled'
  BY <1>1, <1>2 DEF NumbersMinted, StreamHeld, DialStands, Settled, Attentive, registryVars
<1>4. LastReportStands'
  <2> SUFFICES ASSUME streamToken # NoStream PROVE LastReportStands'
    BY <1>1 DEF LastReportStands
  <2>1. ASSUME NEW q \in reports', q.stream = streamToken PROVE ReportFollows(q)'
    <3>1. ReportFollows(q)
      BY <1>1, <2>1 DEF LastReportStands
    <3> QED
      BY <1>1, <1>2, <3>1 DEF ReportFollows
  <2>2. ASSUME NEW c \in clients', c.stream = streamToken PROVE ClientFollows(c)'
    <3>1. ClientFollows(c)
      BY <1>1, <2>2 DEF LastReportStands, registryVars
    <3>2. ASSUME reported' # "unknown", NEW q \in reports, q.stream = streamToken, q.sequence = sequence
          PROVE  q \in reports'
      <4>1. AsReport(q.attentive) = reported
        BY <1>2, <3>2 DEF LastReportStands, ReportFollows
      <4>2. q # r
        BY <1>1, <3>2, <4>1 DEF ReportedAfterFailure
      <4> QED
        BY <1>1, <4>2
    <3> QED
      BY <1>1, <1>2, <3>1, <3>2 DEF ClientFollows
  <2> QED
    BY <1>1, <2>1, <2>2 DEF LastReportStands
<1> QED
  BY <1>3, <1>4

\* A client that starts is one of the socket still dialing, as dialed, or of
\* no socket of the tab.
LEMMA StartsKeep ==
    ASSUME ConnectionInv, AttentionInv, NEW new, clients' = clients \cup {new},
           new.stream # streamToken \/ streamToken = NoStream,
           (~opened /\ es # NoStream /\ new.stream = es) =>
               new.sequence = 0 /\ new.suppressPush = dialedAttention,
           minted' \in Nat, minted' >= minted,
           tokens' \subseteq tokens, dials' \subseteq dials,
           UNCHANGED <<visible, focused, es, opened, attention, reports>>
    PROVE  AttentionInv'
<1> USE DEF AttentionInv, attention
<1>1. \A n \in 0..minted : n \in 0..minted'
  BY DEF ConnectionInv, RegistryInv, RegistryTypeOK
<1>2. NumbersMinted'
  BY <1>1 DEF NumbersMinted
<1>3. StreamHeld' /\ Settled' /\ DialStands'
  BY DEF StreamHeld, Settled, DialStands, Attentive
<1>4. LastReportStands'
  BY DEF LastReportStands, ClientFollows, ReportFollows
<1> QED
  BY <1>2, <1>3, <1>4

LEMMA DialArrivesKeeps ==
    ASSUME ConnectionInv, AttentionInv, NEW d \in dials, DialArrives(d)
    PROVE  AttentionInv'
<1>1. PICK t \in tokens : t.token = d.stream /\ Admit(t, myIp, IF d.attentive THEN "true" ELSE "false")
  BY DEF DialArrives
<1> DEFINE new == Client(t.token, t.address, myIp, IF d.attentive THEN "true" ELSE "false")
<1>2. /\ clients' = clients \cup {new} /\ new.stream = d.stream /\ new.sequence = 0
      /\ new.suppressPush = d.attentive
      /\ minted' = minted /\ tokens' \subseteq tokens /\ dials' \subseteq dials
      /\ UNCHANGED <<visible, focused, es, opened, attention, reports>>
  <2>1. d.attentive \in BOOLEAN
    BY DEF AttentionInv, NumbersMinted
  <2>2. clients' = clients \cup {new} /\ tokens' \subseteq tokens /\ minted' = minted
    BY <1>1 DEF Admit, Start
  <2>3. new.stream = d.stream /\ new.sequence = 0 /\ new.suppressPush = d.attentive
    BY <1>1, <2>1 DEF Client
  <2> HIDE DEF new
  <2> QED
    BY <2>2, <2>3 DEF DialArrives, ClientSide, window, link, attention
<1> HIDE DEF new
<1>3. new.stream # streamToken \/ streamToken = NoStream
  BY <1>1, <1>2 DEF AttentionInv, StreamHeld
<1>4. (~opened /\ es # NoStream /\ new.stream = es) => new.suppressPush = dialedAttention
  BY <1>2 DEF AttentionInv, DialStands
<1>5. minted' \in Nat /\ minted' >= minted
  BY <1>2 DEF ConnectionInv, RegistryInv, RegistryTypeOK
<1> QED
  BY <1>2, <1>3, <1>4, <1>5, StartsKeep

LEMMA OtherConnectsKeeps ==
    ASSUME ConnectionInv, AttentionInv, NEW ip \in Ips, NEW p \in AttentiveParams, OtherConnects(ip, p)
    PROVE  AttentionInv'
<1> DEFINE new == Client(minted + 1, me, ip, p)
<1>1. /\ clients' = clients \cup {new} /\ minted' = minted + 1 /\ tokens' = tokens /\ dials' = dials
      /\ UNCHANGED <<visible, focused, es, opened, attention, reports>>
      /\ new.stream = minted + 1
  BY DEF OtherConnects, MintAndAdmit, Start, Client, ClientSide, window, link, attention
<1> HIDE DEF new
<1>2. minted \in Nat /\ es \in 0..minted /\ minted' \in Nat /\ minted' >= minted
  BY <1>1 DEF AttentionInv, NumbersMinted, ConnectionInv, RegistryInv, RegistryTypeOK
<1>3. new.stream # es /\ (new.stream # streamToken \/ streamToken = NoStream)
  BY <1>1, <1>2 DEF AttentionInv, StreamHeld
<1> QED
  BY <1>1, <1>2, <1>3, StartsKeep

LEMMA ReportsKeepAttention ==
    ASSUME ConnectionInv, AttentionInv, NEW r \in reports,
           ReportArrives(r) \/ ReportLost(r) \/ ReportFails(r)
    PROVE  AttentionInv'
<1> DEFINE failed == [r EXCEPT !.stage = "failed"]
           f == [q \in reports |-> IF q = r THEN failed ELSE q]
<1>1. failed.stream = r.stream /\ failed.sequence = r.sequence /\ failed.attentive = r.attentive
  OBVIOUS
<1>2. CASE /\ Report(r.stream, r.attentive, r.sequence)
           /\ reports' = reports \ {r} \/ reports' = (reports \ {r}) \cup {failed}
           /\ UNCHANGED <<window, es, opened, dials, attention>>
  <2> HIDE DEF failed
  <2> QED
    BY <1>1, <1>2, ArrivalKeeps
<1>3. CASE /\ reports' = (reports \ {r}) \cup {failed}
           /\ UNCHANGED <<registryVars, window, es, opened, dials, attention>>
  <2> HIDE DEF failed
  <2>1. f \in [reports -> {q : q \in reports'}]
    BY <1>3
  <2>2. \A q \in reports : f[q].stream = q.stream /\ f[q].sequence = q.sequence /\ f[q].attentive = q.attentive
    BY <1>1
  <2>3. \A q \in reports' : \E p \in reports : q = f[p]
    BY <1>3
  <2>4. clients' \subseteq clients /\ tokens' \subseteq tokens /\ dials' \subseteq dials /\ minted' = minted
    BY <1>3 DEF registryVars
  <2> HIDE DEF f
  <2> QED
    BY <1>3, <2>1, <2>2, <2>3, <2>4, LosingKeeps
<1>4. CASE ReportFails(r)
  BY <1>4, NoticingKeeps
<1> QED
  BY <1>2, <1>3, <1>4 DEF ReportArrives, ReportLost, link

LEMMA RestartKeepsAttention ==
    ASSUME AttentionInv, RestartServer
    PROVE  AttentionInv'
<1> DEFINE f == [q \in reports |-> [q EXCEPT !.stage = "failed"]]
<1>1. /\ clients' \subseteq clients /\ tokens' \subseteq tokens /\ dials' \subseteq dials
      /\ reports' = {[q EXCEPT !.stage = "failed"] : q \in reports}
      /\ UNCHANGED <<minted, window, es, opened, attention>>
  BY DEF RestartServer, RegistryRestart, ClientSide, link
<1>2. f \in [reports -> {q : q \in reports'}] /\ \A q \in reports' : \E p \in reports : q = f[p]
  BY <1>1
<1>3. ASSUME NEW q \in reports
      PROVE  f[q].stream = q.stream /\ f[q].sequence = q.sequence /\ f[q].attentive = q.attentive
  <2>1. f[q] = [q EXCEPT !.stage = "failed"]
    OBVIOUS
  <2> HIDE DEF f
  <2> QED
    BY <2>1
<1> HIDE DEF f
<1> QED
  BY <1>1, <1>2, <1>3, LosingKeeps

LEMMA TickKeepsAttention ==
    ASSUME ConnectionInv, AttentionInv, Tick
    PROVE  AttentionInv'
<1>1. /\ UNCHANGED <<visible, focused, attention, es, opened, reports, minted, dials>>
      /\ tokens' = {[t EXCEPT !.life = IF @ = Dead THEN Dead ELSE @ - 1] : t \in tokens}
      /\ clients' = {Older(c) : c \in clients}
  BY DEF Tick, RegistryTick, window
<1>2. \A t \in tokens' : \E u \in tokens : u.token = t.token
  <2>1. \A u \in tokens : [u EXCEPT !.life = IF @ = Dead THEN Dead ELSE @ - 1].token = u.token
    BY DEF ConnectionInv, RegistryInv, RegistryTypeOK, Tokens
  <2> QED
    BY <1>1, <2>1
<1>3. \A c \in clients' : \E b \in clients :
          b.stream = c.stream /\ b.sequence = c.sequence /\ b.suppressPush = c.suppressPush
  <2>1. \A b \in clients : /\ Older(b).stream = b.stream /\ Older(b).sequence = b.sequence
                           /\ Older(b).suppressPush = b.suppressPush
    BY DEF Older, ConnectionInv, RegistryInv, RegistryTypeOK, Clients
  <2> QED
    BY <1>1, <2>1
<1> QED
  BY <1>1, <1>2, <1>3, QuietKeeps

LEMMA AttentionStep == ConnectionInv /\ AttentionInv /\ [Next]_vars => AttentionInv'
<1> SUFFICES ASSUME ConnectionInv, AttentionInv, [Next]_vars PROVE AttentionInv'
  OBVIOUS
<1>1. CASE (\E v, f \in BOOLEAN : ChangeWindow(v, f)) \/ Close \/ SocketFails
  BY <1>1, LettingGoKeeps
<1>2. CASE MintAnswered
  BY <1>2, DialKeeps
<1>3. CASE SocketOpens
  BY <1>3, OpenKeeps
<1>4. CASE SettleFires \/ Heartbeat
  BY <1>4, SendingKeeps
<1>5. CASE \E r \in reports : ReportArrives(r) \/ ReportLost(r) \/ ReportFails(r)
  BY <1>5, ReportsKeepAttention
<1>6. CASE \E d \in dials : DialArrives(d)
  BY <1>6, DialArrivesKeeps
<1>7. CASE \E ip \in Ips, p \in AttentiveParams : OtherConnects(ip, p)
  BY <1>7, OtherConnectsKeeps
<1>8. CASE RestartServer
  BY <1>8, RestartKeepsAttention
<1>9. CASE Tick
  BY <1>9, TickKeepsAttention
<1>10. CASE /\ UNCHANGED <<visible, focused, attention, es, opened, reports, minted>>
            /\ dials' \subseteq dials /\ tokens' \subseteq tokens /\ clients' \subseteq clients
  BY <1>10, QuietKeeps
<1>11. ASSUME \/ TimerFires \/ MintFails \/ PruneTokens \/ UNCHANGED vars
              \/ \E d \in dials : DialExpired(d) \/ DialRefused(d) \/ DialLost(d)
              \/ \E l \in liveStreams : StreamEnds(l) \/ StreamDrops(l)
              \/ \E gone \in SUBSET clients : EnqueueFails(gone)
       PROVE  /\ UNCHANGED <<visible, focused, attention, es, opened, reports, minted>>
              /\ dials' \subseteq dials /\ tokens' \subseteq tokens /\ clients' \subseteq clients
  BY <1>11 DEF TimerFires, MintFails, PruneTokens, DialExpired, DialRefused, DialLost, StreamEnds,
               StreamDrops, EnqueueFails, DropExpired, Cleanup, PublishFails, ClientSide, window, link,
               attention, registryVars, vars
<1> QED
  BY <1>1, <1>2, <1>3, <1>4, <1>5, <1>6, <1>7, <1>8, <1>9, <1>10, <1>11 DEF Next

\* What useSSE believes it told the server is what the server believes once
\* nothing is in flight, and the truth once the window has settled: whatever
\* reports are lost, overtaken, answered in vain or sent across a restart.
THEOREM AttentionIsKnown == Spec => []AttentionAgrees
<1>1. ConnectionInv /\ AttentionInv /\ [Next]_vars => (ConnectionInv /\ AttentionInv)'
  BY ConnectionStep, AttentionStep
<1>2. Init => ConnectionInv /\ AttentionInv
  BY ConnectionInitially, AttentionInitially
<1>3. ConnectionInv /\ AttentionInv => AttentionAgrees
  BY AttentionFollows
<1> QED
  BY <1>1, <1>2, <1>3, PTL DEF Spec
=============================================================================
