---------------------------- MODULE BrowserProofs ----------------------------
(* Whose session a browser tab holds, for every set of keys and every      *)
(* number of imports, burns, logins and failures (BrowserIdentity); and    *)
(* who is woken through the browser, for every number of operations, late  *)
(* works, endpoints and VAPID keys (PushAlerts).                           *)
EXTENDS BrowserIdentity, PushAlerts, TLAPS

-----------------------------------------------------------------------------
(* Identity and session.  The inductive invariant: the session, the one in *)
(* storage and the logins that still count are all of the identity on      *)
(* screen; or, from the local part of a burn to useSession's effect, all   *)
(* of another.                                                             *)

Stages == {"push", "revoke", "prepare", "login"}

BurnStages == {"address", "session", "prepare"}

Typed ==
    /\ owner \in Seq(Keys)
    /\ identity \in Keys /\ storedKey = identity
    /\ stored \in [key : Keys \cup {Nobody}, token : Nat]
    /\ stored # NoSession => stored.token \in DOMAIN owner /\ owner[stored.token] = stored.key
    /\ token \in Nat /\ (token # NoToken => token \in DOMAIN owner)
    /\ effectDue \in BOOLEAN
    /\ logins \subseteq [key : Keys, current : BOOLEAN]
    /\ \A b \in burns : b \in [click : {b.click}, stage : BurnStages, key : Keys, token : Nat]

\* Of the imports in flight only that of `wanted` may still change anything.
ImportsInv ==
    /\ imports \subseteq [key : Keys, stage : Stages, revoke : Nat, latest : BOOLEAN]
    /\ \A i \in imports : i.latest => i.key = wanted

\* The stored session is the one in use, unless a burn forgot a dead one.
StoredInUse ==
    token # NoToken => \/ stored = [key |-> identity, token |-> token]
                       \/ /\ stored = NoSession /\ token \in dead
                          /\ \E b \in burns : b.stage = "session"

Owned ==
    /\ token # NoToken => owner[token] = identity
    /\ \A l \in logins : l.current => l.key = identity
    /\ stored = NoSession \/ stored.key = identity
    /\ StoredInUse

Behind ==
    /\ effectDue
    /\ token # NoToken => owner[token] # identity
    /\ \A l \in logins : l.current => l.key # identity
    /\ stored = NoSession \/ stored.key # identity

IdentityInv == Typed /\ ImportsInv /\ (Owned \/ Behind)

LEMMA IdentityInitially == Init => IdentityInv
<1> SUFFICES ASSUME Init PROVE IdentityInv
  OBVIOUS
<1>1. Typed
  <2>1. /\ owner \in Seq(Keys) /\ stored \in [key : Keys \cup {Nobody}, token : Nat]
        /\ stored # NoSession => stored.token \in DOMAIN owner /\ owner[stored.token] = stored.key
    <3>1. CASE owner = <<>> /\ stored = NoSession
      BY <3>1 DEF NoSession, NoToken
    <3>2. CASE owner = <<first>> /\ stored = [key |-> first, token |-> 1]
      <4>1. first \in Keys
        BY IdentityAssumption
      <4>2. owner \in Seq(Keys) /\ 1 \in DOMAIN owner /\ owner[1] = first
        BY <3>2, <4>1
      <4>3. stored \in [key : Keys \cup {Nobody}, token : Nat]
        BY <3>2, <4>1
      <4>4. stored.token = 1 /\ stored.key = first
        BY <3>2
      <4> QED
        BY <4>2, <4>3, <4>4
    <3> QED
      BY <3>1, <3>2 DEF Init
  <2>2. identity \in Keys /\ storedKey = identity /\ token = NoToken /\ NoToken \in Nat
    BY IdentityAssumption DEF Init, NoToken
  <2>3. effectDue = TRUE /\ logins = {} /\ burns = {}
    BY DEF Init
  <2> QED
    BY <2>1, <2>2, <2>3 DEF Typed
<1>2. ImportsInv
  BY DEF Init, ImportsInv
<1>3. Owned
  BY DEF Init, Owned, StoredInUse, NoSession
<1> QED
  BY <1>1, <1>2, <1>3 DEF IdentityInv

-----------------------------------------------------------------------------
(* Lemmas on what the actions share.                                       *)

LEMMA OutdatedIs ==
    ASSUME Typed
    PROVE  Outdated \subseteq [key : Keys, current : BOOLEAN] /\ \A l \in Outdated : ~l.current
BY DEF Typed, Outdated

\* A session created is the last one, and those before stay whose they are.
LEMMA LoginIs ==
    ASSUME Typed, NEW k \in Keys, Login(k)
    PROVE  /\ owner' \in Seq(Keys) /\ NewToken \in Nat \ {0} /\ NewToken \in DOMAIN owner'
           /\ owner'[NewToken] = k
           /\ \A t \in DOMAIN owner : t \in DOMAIN owner' /\ owner'[t] = owner[t]
<1>1. owner \in Seq(Keys) /\ owner' = Append(owner, k) /\ Len(owner) \in Nat
  BY DEF Typed, Login
<1>2. DOMAIN owner = 1..Len(owner) /\ DOMAIN owner' = 1..(Len(owner) + 1)
  BY <1>1
<1>3. owner' \in Seq(Keys) /\ owner'[Len(owner) + 1] = k
  BY <1>1
<1>4. \A t \in 1..Len(owner) : owner'[t] = owner[t]
  BY <1>1
<1> QED
  BY <1>1, <1>2, <1>3, <1>4 DEF NewToken

\* Sessions may be created or die, and old logins fail, without a change to
\* whose the one in use is.
LEMMA AloneKeeps ==
    ASSUME Typed, Owned \/ Behind, owner' \in Seq(Keys),
           \A t \in DOMAIN owner : t \in DOMAIN owner' /\ owner'[t] = owner[t],
           dead \subseteq dead', logins' \subseteq logins,
           UNCHANGED <<identity, storedKey, stored, token, effectDue, burns>>
    PROVE  Typed' /\ (Owned \/ Behind)'
<1>1. Typed'
  BY DEF Typed
<1>2. CASE Owned
  <2>1. Owned'
    BY <1>2 DEF Typed, Owned, StoredInUse
  <2> QED
    BY <1>1, <2>1
<1>3. CASE Behind
  <2>1. Behind'
    BY <1>3 DEF Typed, Behind
  <2> QED
    BY <1>1, <2>1
<1> QED
  BY <1>2, <1>3

LEMMA ClearedKeeps ==
    ASSUME Typed, Owned \/ Behind, ClearSession, UNCHANGED <<owner, identity, storedKey, effectDue, burns>>
    PROVE  Typed' /\ (Owned \/ Behind)'
<1>1. /\ logins' \subseteq [key : Keys, current : BOOLEAN] /\ \A l \in logins' : ~l.current
      /\ stored' = NoSession /\ token' = NoToken
  BY OutdatedIs DEF ClearSession
<1>2. Typed'
  BY <1>1 DEF Typed, NoSession, NoToken
<1>3. Owned'
  BY <1>1 DEF Owned, StoredInUse
<1> QED
  BY <1>2, <1>3

-----------------------------------------------------------------------------
(* The actions.                                                            *)

LEMMA EffectKeeps ==
    ASSUME Typed, Owned \/ Behind, IdentityEffect
    PROVE  Typed' /\ (Owned \/ Behind)'
<1>1. /\ effectDue' = FALSE /\ UNCHANGED <<owner, identity, storedKey, dead, burns>>
      /\ logins' \subseteq [key : Keys, current : BOOLEAN] /\ \A l \in logins' : ~l.current
      /\ \/ stored.key = identity /\ token' = stored.token /\ stored' = stored
         \/ stored' = NoSession /\ token' = NoToken
  BY OutdatedIs DEF IdentityEffect, server, tasks
<1>2. CASE stored.key = identity /\ token' = stored.token /\ stored' = stored
  <2>1. Typed'
    <3>1. token' \in Nat /\ (token' # NoToken => token' \in DOMAIN owner)
      BY <1>2 DEF Typed, NoSession, NoToken
    <3> QED
      BY <1>1, <1>2, <3>1 DEF Typed
  <2>2. token' # NoToken => stored = [key |-> identity, token |-> token'] /\ owner[token'] = identity
    BY <1>2 DEF Typed, NoSession, NoToken
  <2>3. Owned'
    BY <1>1, <1>2, <2>2 DEF Owned, StoredInUse
  <2> QED
    BY <2>1, <2>3
<1>3. CASE stored' = NoSession /\ token' = NoToken
  <2>1. Typed'
    BY <1>1, <1>3 DEF Typed, NoSession, NoToken
  <2>2. Owned'
    BY <1>1, <1>3 DEF Owned, StoredInUse
  <2> QED
    BY <2>1, <2>2
<1> QED
  BY <1>1, <1>2, <1>3

LEMMA StartLoginKeeps ==
    ASSUME Typed, Owned \/ Behind, StartLogin
    PROVE  Typed' /\ (Owned \/ Behind)'
<1> DEFINE new == [key |-> identity, current |-> TRUE]
<1>1. /\ ~effectDue /\ logins' = logins \cup {new}
      /\ new \in [key : Keys, current : BOOLEAN] /\ new.key = identity
      /\ UNCHANGED <<owner, dead, identity, storedKey, stored, token, effectDue, burns>>
  BY DEF StartLogin, server, who, tasks, Typed
<1> HIDE DEF new
<1>2. Typed'
  BY <1>1 DEF Typed
<1>3. Owned'
  BY <1>1 DEF Behind, Owned, StoredInUse
<1> QED
  BY <1>2, <1>3

\* A session for k, in use and stored.
LEMMA CommittedKeeps ==
    ASSUME Typed, NEW k \in Keys, Login(k), identity' \in Keys, storedKey' = identity', effectDue' \in BOOLEAN,
           burns' = burns, logins' \subseteq [key : Keys, current : BOOLEAN],
           stored' = [key |-> k, token |-> NewToken], token' = NewToken
    PROVE  Typed'
<1>1. stored'.token = NewToken /\ stored'.key = k
  OBVIOUS
<1>2. stored' \in [key : Keys \cup {Nobody}, token : Nat]
  BY LoginIs
<1> QED
  BY <1>1, <1>2, LoginIs DEF Typed

LEMMA FinishLoginKeeps ==
    ASSUME Typed, Owned \/ Behind, NEW l \in logins, FinishLogin(l)
    PROVE  Typed' /\ (Owned \/ Behind)'
<1>1. l.key \in Keys
  BY DEF Typed
<1>2. /\ Login(l.key) /\ logins' = logins \ {l}
      /\ UNCHANGED <<identity, storedKey, effectDue, dead, burns>>
  BY DEF FinishLogin, who, tasks
<1>3. CASE ~Current(l)
  BY <1>1, <1>2, <1>3, LoginIs, AloneKeeps DEF FinishLogin
<1>4. CASE Current(l)
  <2>1. stored' = [key |-> l.key, token |-> NewToken] /\ token' = NewToken
    BY <1>4 DEF FinishLogin
  <2>2. Typed'
    BY <1>1, <1>2, <2>1, CommittedKeeps DEF Typed
  <2>3. owner'[token'] = l.key /\ stored'.key = l.key
    BY <1>1, <1>2, <2>1, LoginIs
  <2>4. CASE Owned
    <3>1. l.key = identity
      BY <1>4, <2>4 DEF Owned, Current
    <3>2. Owned'
      BY <1>2, <2>1, <2>3, <2>4, <3>1 DEF Owned, StoredInUse
    <3> QED
      BY <2>2, <3>2
  <2>5. CASE Behind
    <3>1. l.key # identity
      BY <1>4, <2>5 DEF Behind, Current
    <3>2. Behind'
      BY <1>2, <2>3, <2>5, <3>1 DEF Behind
    <3> QED
      BY <2>2, <3>2
  <2> QED
    BY <2>4, <2>5
<1> QED
  BY <1>3, <1>4

\* An import that comes to its end brings its key, its session and the end of
\* every login before it.
LEMMA CommitKeeps ==
    ASSUME Typed, Owned \/ Behind, NEW i \in imports, i.key \in Keys, Commit(i)
    PROVE  Typed' /\ (Owned \/ Behind)'
<1>1. Login(i.key) /\ dead' = dead /\ burns' = burns
  BY DEF Commit
<1>2. CASE ~MayCommit(i)
  <2>1. UNCHANGED <<who, session>>
    BY <1>2 DEF Commit
  <2> QED
    BY <1>1, <2>1, LoginIs, AloneKeeps DEF who, session
<1>3. CASE MayCommit(i)
  <2>1. /\ storedKey' = i.key /\ identity' = i.key /\ effectDue' = (effectDue \/ identity # i.key)
        /\ logins' = Outdated
        /\ stored' = [key |-> i.key, token |-> NewToken] /\ token' = NewToken
    BY <1>3 DEF Commit
  <2>2. effectDue' \in BOOLEAN
    BY <2>1
  <2>3. Typed'
    BY <1>1, <2>1, <2>2, OutdatedIs, CommittedKeeps
  <2>4. Owned'
    BY <1>1, <2>1, OutdatedIs, LoginIs DEF Owned, StoredInUse
  <2> QED
    BY <2>3, <2>4
<1> QED
  BY <1>2, <1>3

LEMMA BurnKeeps ==
    ASSUME Typed, Owned \/ Behind, Burn
    PROVE  Typed' /\ (Owned \/ Behind)'
<1> DEFINE new == [click |-> changes', stage |-> "address", key |-> identity, token |-> stored.token]
<1>1. /\ ~effectDue /\ burns' = burns \cup {new}
      /\ UNCHANGED <<owner, dead, identity, storedKey, stored, token, effectDue, logins>>
  BY DEF Burn, MayBurn, server, who, session
<1>2. new \in [click : {new.click}, stage : BurnStages, key : Keys, token : Nat]
  BY DEF Typed, BurnStages
<1> HIDE DEF new
<1>3. Typed'
  BY <1>1, <1>2 DEF Typed
<1>4. Owned'
  BY <1>1 DEF Behind, Owned, StoredInUse
<1> QED
  BY <1>3, <1>4

\* The server's part of a burn: either every session of the key is dead, or
\* the stored one stays as it is, unless it was dead already.
LEMMA BurnAddressKeeps ==
    ASSUME Typed, Owned \/ Behind, NEW b \in burns, BurnAddress(b)
    PROVE  Typed' /\ (Owned \/ Behind)'
<1> DEFINE next == [b EXCEPT !.stage = "session"]
<1>1. /\ b.stage = "address" /\ burns' = (burns \ {b}) \cup {next}
      /\ UNCHANGED <<owner, identity, storedKey, token, effectDue, logins>>
      /\ dead \subseteq dead'
      /\ \/ stored' = stored
         \/ ~Live(b.token) /\ stored.token = b.token /\ stored' = NoSession
  BY DEF BurnAddress, who, Matches
<1>2. b \in [click : {b.click}, stage : BurnStages, key : Keys, token : Nat]
  BY DEF Typed
<1>3. /\ next \in [click : {next.click}, stage : BurnStages, key : Keys, token : Nat]
      /\ next.stage = "session"
  BY <1>2 DEF BurnStages
<1> HIDE DEF next
<1>4. \E c \in burns' : c.stage = "session"
  BY <1>1, <1>3
<1>5. Typed'
  BY <1>1, <1>3 DEF Typed, NoSession, NoToken
<1>6. CASE Owned
  <2>1. CASE stored' = stored
    BY <1>1, <1>4, <1>5, <1>6, <2>1 DEF Owned, StoredInUse
  <2>2. CASE ~Live(b.token) /\ stored.token = b.token /\ stored' = NoSession
    <3>1. token # NoToken => token \in dead
      BY <1>6, <2>2 DEF Owned, StoredInUse, Live, Typed
    <3> QED
      BY <1>1, <1>4, <1>5, <1>6, <2>2, <3>1 DEF Owned, StoredInUse
  <2> QED
    BY <1>1, <2>1, <2>2
<1>7. CASE Behind
  <2>1. Behind'
    BY <1>1, <1>7 DEF Behind
  <2> QED
    BY <1>5, <2>1
<1> QED
  BY <1>6, <1>7

\* The local part: the old identity's session stays in use until the effect,
\* and no session or login is of the new one.
LEMMA ReplaceKeeps ==
    ASSUME Typed, Owned \/ Behind, NEW done \in SUBSET burns, NEW click, NEW g \in Generated,
           Replace(done, click, g)
    PROVE  Typed' /\ (Owned \/ Behind)'
<1> DEFINE new == [click |-> click, stage |-> "prepare", key |-> g, token |-> NoToken]
<1>1. /\ storedKey' = g /\ identity' = g /\ stored' = NoSession /\ effectDue' = TRUE
      /\ burns' = (burns \ done) \cup {new}
      /\ UNCHANGED <<owner, token, logins>>
  BY DEF Replace
<1>2. g \in Keys /\ new \in [click : {new.click}, stage : BurnStages, key : Keys, token : Nat]
  BY IdentityAssumption DEF BurnStages, NoToken
<1> HIDE DEF new
<1>3. Typed'
  BY <1>1, <1>2 DEF Typed, NoSession, NoToken
<1>4. (token # NoToken => owner[token] # g) /\ \A l \in logins : l.key # g
  BY DEF Replace, Fresh, Typed
<1>5. Behind'
  BY <1>1, <1>4 DEF Behind
<1> QED
  BY <1>3, <1>5

LEMMA BurnPrepareKeeps ==
    ASSUME Typed, Owned \/ Behind, NEW b \in burns, BurnPrepare(b)
    PROVE  Typed' /\ (Owned \/ Behind)'
<1>1. /\ b.stage = "prepare" /\ burns' = burns \ {b} /\ dead' = dead
      /\ UNCHANGED <<owner, identity, storedKey, stored, token, effectDue, logins>>
  BY DEF BurnPrepare, Prepare, server, session
<1>2. Typed'
  BY <1>1 DEF Typed
<1>3. CASE Owned
  <2>1. Owned'
    BY <1>1, <1>3 DEF Owned, StoredInUse
  <2> QED
    BY <1>2, <2>1
<1>4. CASE Behind
  <2>1. Behind'
    BY <1>1, <1>4 DEF Behind
  <2> QED
    BY <1>2, <2>1
<1> QED
  BY <1>3, <1>4

-----------------------------------------------------------------------------
(* Every step.                                                             *)

LEMMA SessionStep ==
    ASSUME IdentityInv, [Next]_vars
    PROVE  Typed' /\ (Owned \/ Behind)'
<1> USE DEF IdentityInv
<1>1. CASE IdentityEffect
  BY <1>1, EffectKeeps
<1>2. CASE StartLogin
  BY <1>2, StartLoginKeeps
<1>3. ASSUME NEW l \in logins, FinishLogin(l) PROVE Typed' /\ (Owned \/ Behind)'
  BY <1>3, FinishLoginKeeps
<1>4. ASSUME NEW i \in imports, Commit(i) PROVE Typed' /\ (Owned \/ Behind)'
  BY <1>4, CommitKeeps DEF ImportsInv
<1>5. CASE Burn
  BY <1>5, BurnKeeps
<1>6. ASSUME NEW b \in burns, BurnAddress(b) PROVE Typed' /\ (Owned \/ Behind)'
  BY <1>6, BurnAddressKeeps
<1>7. ASSUME NEW g \in Generated, BurnAtOnce(g) \/ \E b \in burns : BurnLocally(b, g)
      PROVE  Typed' /\ (Owned \/ Behind)'
  <2>1. CASE BurnAtOnce(g)
    BY <2>1, ReplaceKeeps DEF BurnAtOnce
  <2>2. ASSUME NEW b \in burns, BurnLocally(b, g) PROVE Typed' /\ (Owned \/ Behind)'
    <3>1. {b} \in SUBSET burns /\ Replace({b}, b.click, g)
      BY <2>2 DEF BurnLocally
    <3> QED
      BY <3>1, ReplaceKeeps
  <2> QED
    BY <1>7, <2>1, <2>2
<1>8. ASSUME NEW b \in burns, BurnPrepare(b) PROVE Typed' /\ (Owned \/ Behind)'
  BY <1>8, BurnPrepareKeeps
<1>9. CASE ClearSession /\ UNCHANGED <<owner, identity, storedKey, effectDue, burns>>
  BY <1>9, ClearedKeeps
<1>10. CASE /\ UNCHANGED <<owner, identity, storedKey, stored, token, effectDue, burns>>
            /\ dead \subseteq dead' /\ logins' \subseteq logins
  <2>1. owner' \in Seq(Keys) /\ \A t \in DOMAIN owner : t \in DOMAIN owner' /\ owner'[t] = owner[t]
    BY <1>10 DEF Typed
  <2> QED
    BY <1>10, <2>1, AloneKeeps
<1>11. ASSUME \/ \E t \in requests : FinishRequest(t)
              \/ \E i \in imports : AfterRevoke(i) \/ FailImport(i)
       PROVE  /\ UNCHANGED <<owner, identity, storedKey, effectDue, burns>> /\ dead \subseteq dead'
              /\ ClearSession \/ UNCHANGED <<stored, token, logins>>
  BY <1>11 DEF FinishRequest, AfterRevoke, FailImport, server, who, session
<1>12. ASSUME \/ StartRequest \/ FinishInit \/ UNCHANGED vars
              \/ \E t \in DOMAIN owner : Expire(t)
              \/ \E l \in logins : FailLogin(l)
              \/ \E k \in Keys \ Generated : Import(k)
              \/ \E i \in imports : AfterPush(i) \/ AfterPrepare(i)
       PROVE  /\ UNCHANGED <<owner, identity, storedKey, stored, token, effectDue, burns>>
              /\ dead \subseteq dead' /\ logins' \subseteq logins
  BY <1>12 DEF StartRequest, FinishInit, Expire, FailLogin, Import, AfterPush, AfterPrepare, Prepare,
               server, who, session, tasks, vars
<1> QED
  BY <1>1, <1>2, <1>3, <1>4, <1>5, <1>6, <1>7, <1>8, <1>9, <1>10, <1>11, <1>12 DEF Next, ImportSteps

\* An import moves on as the import it is.
LEMMA ProceedKeeps ==
    ASSUME ImportsInv, NEW i \in imports, NEW to, Proceed(i, to) \/ Leave(i), wanted' = wanted,
           to \in [key : Keys, stage : Stages, revoke : Nat, latest : BOOLEAN],
           to.key = i.key, to.latest = i.latest
    PROVE  ImportsInv'
BY DEF ImportsInv, Proceed, Leave

LEMMA ImportsStep ==
    ASSUME IdentityInv, [Next]_vars
    PROVE  ImportsInv'
<1> USE DEF IdentityInv
<1>1. ASSUME NEW k \in Keys \ Generated, Import(k) PROVE ImportsInv'
  <2> DEFINE new == [key |-> k, stage |-> "push", revoke |-> NoToken, latest |-> TRUE]
             overtaken == {[i EXCEPT !.latest = FALSE] : i \in imports}
             Imports == [key : Keys, stage : Stages, revoke : Nat, latest : BOOLEAN]
  <2>1. imports' = overtaken \cup {new} /\ wanted' = k
    BY <1>1 DEF Import
  <2>2. new \in Imports /\ new.key = k
    BY <1>1 DEF Stages, NoToken
  <2>3. overtaken \subseteq Imports /\ \A i \in overtaken : ~i.latest
    BY DEF ImportsInv
  <2> HIDE DEF new, overtaken
  <2> QED
    BY <2>1, <2>2, <2>3 DEF ImportsInv
<1>2. ASSUME NEW i \in imports, ImportSteps(i) PROVE ImportsInv'
  <2>1. i \in [key : Keys, stage : Stages, revoke : Nat, latest : BOOLEAN]
    BY DEF ImportsInv
  <2>2. wanted' = wanted
    BY <1>2 DEF ImportSteps, AfterPush, AfterRevoke, AfterPrepare, Commit, FailImport
  <2>3. CASE AfterPush(i)
    <3> DEFINE to == [i EXCEPT !.stage = "revoke", !.revoke = token]
    <3>1. /\ to \in [key : Keys, stage : Stages, revoke : Nat, latest : BOOLEAN]
          /\ to.key = i.key /\ to.latest = i.latest
      BY <2>1 DEF Stages, Typed
    <3>2. Proceed(i, to) \/ Leave(i)
      BY <2>3 DEF AfterPush
    <3> HIDE DEF to
    <3> QED
      BY <2>2, <3>1, <3>2, ProceedKeeps
  <2>4. ASSUME NEW s \in Stages, Proceed(i, [i EXCEPT !.stage = s]) \/ Leave(i) PROVE ImportsInv'
    <3> DEFINE to == [i EXCEPT !.stage = s]
    <3>1. /\ to \in [key : Keys, stage : Stages, revoke : Nat, latest : BOOLEAN]
          /\ to.key = i.key /\ to.latest = i.latest
      BY <2>1
    <3>2. Proceed(i, to) \/ Leave(i)
      BY <2>4
    <3> HIDE DEF to
    <3> QED
      BY <2>2, <3>1, <3>2, ProceedKeeps
  <2>5. CASE AfterRevoke(i)
    BY <2>4, <2>5 DEF AfterRevoke, Stages
  <2>6. CASE AfterPrepare(i)
    BY <2>4, <2>6 DEF AfterPrepare, Stages
  <2>7. CASE Commit(i) \/ FailImport(i)
    BY <2>4, <2>7 DEF Commit, FailImport, Stages
  <2> QED
    BY <1>2, <2>3, <2>5, <2>6, <2>7 DEF ImportSteps
<1>3. CASE UNCHANGED <<imports, wanted>>
  BY <1>3 DEF ImportsInv
<1>4. ASSUME \/ IdentityEffect \/ StartLogin \/ StartRequest \/ FinishInit \/ UNCHANGED vars
             \/ \E l \in logins : FinishLogin(l) \/ FailLogin(l)
             \/ \E t \in DOMAIN owner : Expire(t)
             \/ \E t \in requests : FinishRequest(t)
             \/ Burn \/ \E b \in burns : BurnAddress(b) \/ BurnPrepare(b)
             \/ \E g \in Generated : BurnAtOnce(g) \/ \E b \in burns : BurnLocally(b, g)
      PROVE  UNCHANGED <<imports, wanted>>
  BY <1>4 DEF IdentityEffect, StartLogin, StartRequest, FinishInit, FinishLogin, FailLogin, Expire,
              FinishRequest, Burn, BurnAddress, BurnPrepare, BurnLocally, BurnAtOnce, Replace, tasks, vars
<1> QED
  BY <1>1, <1>2, <1>3, <1>4 DEF Next

LEMMA IdentityStep == IdentityInv /\ [Next]_vars => IdentityInv'
BY SessionStep, ImportsStep DEF IdentityInv

-----------------------------------------------------------------------------

\* The session in use is one of the identity on screen, and the stored one is
\* the same (sessionEpoch of useSession, clearTokenIfMatches of session.ts):
\* however logins, imports, burns and answers 401 of earlier identities end.
THEOREM SessionStaysOwn == Spec => []SessionIsOwn
<1>1. IdentityInv => SessionIsOwn
  BY DEF IdentityInv, Owned, Behind, StoredInUse, SessionIsOwn
<1> QED
  BY <1>1, IdentityInitially, IdentityStep, PTL DEF Spec

\* Only the latest import reaches the screen (latestAttempt of
\* createIdentityTransition), however many overlap.
THEOREM LatestImportCommits == Spec => LatestImportWins
<1>1. IdentityInv /\ [Next]_vars
          => [identity' # identity => identity' \in {wanted} \cup Generated]_vars
  <2> SUFFICES ASSUME IdentityInv, Next, identity' # identity
               PROVE  identity' \in {wanted} \cup Generated
    OBVIOUS
  <2>1. ASSUME NEW i \in imports, Commit(i) PROVE identity' = wanted
    BY <2>1 DEF Commit, MayCommit, IdentityInv, ImportsInv, who
  <2>2. ASSUME NEW g \in Generated, BurnAtOnce(g) \/ \E b \in burns : BurnLocally(b, g)
        PROVE  identity' = g
    BY <2>2 DEF BurnAtOnce, BurnLocally, Replace
  <2>3. ASSUME \/ IdentityEffect \/ StartLogin \/ StartRequest \/ FinishInit
               \/ \E l \in logins : FinishLogin(l) \/ FailLogin(l)
               \/ \E t \in DOMAIN owner : Expire(t)
               \/ \E t \in requests : FinishRequest(t)
               \/ \E k \in Keys \ Generated : Import(k)
               \/ \E i \in imports : AfterPush(i) \/ AfterRevoke(i) \/ AfterPrepare(i) \/ FailImport(i)
               \/ Burn \/ \E b \in burns : BurnAddress(b) \/ BurnPrepare(b)
        PROVE  identity' = identity
    BY <2>3 DEF IdentityEffect, StartLogin, StartRequest, FinishInit, FinishLogin, FailLogin, Expire,
                FinishRequest, Import, AfterPush, AfterRevoke, AfterPrepare, FailImport, Burn,
                BurnAddress, BurnPrepare, who
  <2> QED
    BY <2>1, <2>2, <2>3 DEF Next, ImportSteps
<1> QED
  BY <1>1, IdentityInitially, IdentityStep, PTL DEF Spec, LatestImportWins

\* A live session of the identity on screen ends by a step of the latest
\* import or not at all: not by a late 401 of another session, a burn, an
\* overtaken login, or an overtaken import that fails (clearTokenIfMatches of
\* session.ts, latestAttempt of createIdentityTransition).
THEOREM LiveSessionStays == Spec => LiveSessionKept
<1> DEFINE Given == token # NoToken /\ Live(token) /\ owner[token] = identity /\ token' = NoToken
<1>1. ASSUME IdentityInv, Next, Given, \A i \in imports \ imports' : ~i.latest
      PROVE  token \in dead'
  <2>1. Owned /\ stored = [key |-> identity, token |-> token]
    BY <1>1 DEF IdentityInv, Owned, Behind, StoredInUse, Live
  <2>2. stored.key = identity /\ stored.token = token /\ token # NoToken /\ Live(token) /\ token' = NoToken
    BY <1>1, <2>1
  <2> HIDE DEF Given
  <2>3. ~IdentityEffect
    BY <2>2 DEF IdentityEffect
  <2>4. \A t \in requests : ~FinishRequest(t)
    BY <2>2 DEF FinishRequest, Matches, session
  <2>5. ASSUME NEW k \in Keys, Login(k) PROVE NewToken # NoToken
    BY <1>1, <2>5, LoginIs DEF IdentityInv, NoToken
  <2>6. \A l \in logins : ~FinishLogin(l)
    <3>1. SUFFICES ASSUME NEW l \in logins, FinishLogin(l) PROVE FALSE
      OBVIOUS
    <3>2. token' = NewToken
      BY <2>2, <3>1 DEF FinishLogin
    <3>3. l.key \in Keys /\ Login(l.key)
      BY <1>1, <3>1 DEF FinishLogin, IdentityInv, Typed
    <3> QED
      BY <2>2, <2>5, <3>2, <3>3
  <2>7. \A i \in imports : ~ImportSteps(i)
    <3>1. SUFFICES ASSUME NEW i \in imports, ImportSteps(i) PROVE FALSE
      OBVIOUS
    <3>2. i \in [key : Keys, stage : Stages, revoke : Nat, latest : BOOLEAN]
      BY <1>1 DEF IdentityInv, ImportsInv
    <3>3. token' # token
      BY <2>2
    <3>4. CASE AfterPush(i) \/ AfterPrepare(i)
      BY <3>3, <3>4 DEF AfterPush, AfterPrepare, session
    <3>5. CASE AfterRevoke(i)
      <4>1. i.latest /\ i.stage = "revoke" /\ Proceed(i, [i EXCEPT !.stage = "prepare"])
        BY <3>3, <3>5 DEF AfterRevoke, session
      <4>2. [i EXCEPT !.stage = "prepare"].stage = "prepare"
        BY <3>2
      <4>3. i \notin imports'
        BY <4>1, <4>2 DEF Proceed
      <4> QED
        BY <1>1, <4>1, <4>3
    <3>6. CASE Commit(i)
      <4>1. token' = NewToken /\ Login(i.key)
        BY <3>3, <3>6 DEF Commit, session
      <4> QED
        BY <2>2, <2>5, <3>2, <4>1
    <3>7. CASE FailImport(i)
      <4>1. i.latest /\ Leave(i)
        BY <3>3, <3>7 DEF FailImport, ClearsSession, session
      <4> QED
        BY <1>1, <4>1 DEF Leave
    <3> QED
      BY <3>1, <3>4, <3>5, <3>6, <3>7 DEF ImportSteps
  <2>8. ASSUME \/ StartLogin \/ StartRequest \/ FinishInit
               \/ \E l \in logins : FailLogin(l)
               \/ \E t \in DOMAIN owner : Expire(t)
               \/ \E k \in Keys \ Generated : Import(k)
               \/ Burn \/ \E b \in burns : BurnAddress(b) \/ BurnPrepare(b)
               \/ \E g \in Generated : BurnAtOnce(g) \/ \E b \in burns : BurnLocally(b, g)
        PROVE  token' = token
    BY <2>8 DEF StartLogin, StartRequest, FinishInit, FailLogin, Expire, Import, Burn, BurnAddress,
                BurnPrepare, BurnLocally, BurnAtOnce, Replace, session
  <2> QED
    BY <1>1, <2>2, <2>3, <2>4, <2>6, <2>7, <2>8 DEF Next
<1>2. IdentityInv /\ [Next]_vars => [Given => token \in dead' \/ \E i \in imports \ imports' : i.latest]_vars
  BY <1>1
<1> QED
  BY <1>2, IdentityInitially, IdentityStep, PTL DEF Spec, LiveSessionKept

-----------------------------------------------------------------------------
(* Push subscriptions.  The inductive invariant *)

Kinds == {"reconcile", "enable", "disable"}
Places == {"look", "key", "get", "remove", "subscribe", "upload", "drop", "delete"}

Operations == [kind : Kinds, who : Addresses, epoch : Nat, token : BOOLEAN]

Works == [op : Operations, at : Places, sub : Nat, key : Nat,
          stored : BOOLEAN, alone : BOOLEAN, late : BOOLEAN]

PlacesOf(kind) ==
    IF kind = "reconcile" THEN {"look", "key", "upload", "remove"}
    ELSE IF kind = "enable" THEN {"key", "get", "remove", "subscribe", "upload", "drop"}
    ELSE {"get", "delete", "remove"}

\* The browser and the server.
HeldTyped ==
    /\ key \in Nat /\ sub \in Nat
    /\ madeWith \in Seq(Nat) /\ rows \in Seq(Addresses \cup {NoOne})
    /\ Len(madeWith) = Len(rows) /\ sub <= Len(rows)
    /\ \A e \in DOMAIN madeWith : madeWith[e] <= key
    /\ reportsKey \in BOOLEAN /\ subscribed \in BOOLEAN /\ strayed \in BOOLEAN

\* The operations asked for and begun.
AskedTyped ==
    /\ epoch \in Nat
    /\ prompts \subseteq [who : Addresses, epoch : Nat]
    /\ onScreen \in Addresses \cup {NoOne}
    /\ queue \in Seq(Operations)
    /\ works \subseteq Works
    /\ \A w \in works : /\ w.at \in PlacesOf(w.op.kind) /\ w.key <= key
                        /\ w.alone => w.op.kind = "reconcile"

\* An operation or a prompt of this epoch is of who is on screen; alerts may
\* be disabled for others.
OfItsEpoch(kind, p) == p.epoch <= epoch /\ (kind # "disable" /\ p.epoch = epoch => p.who = onScreen)

AllOfTheirEpoch ==
    /\ \A p \in prompts : OfItsEpoch("enable", p)
    /\ \A i \in DOMAIN queue : OfItsEpoch(queue[i].kind, queue[i])
    /\ \A w \in works : OfItsEpoch(w.op.kind, w.op)

\* A start-up check is queued by a change of identity: all that was asked for
\* before is of an earlier one.
ChecksAreLater ==
    \A i \in DOMAIN queue : queue[i].kind = "reconcile" =>
        /\ \A j \in 1..i-1 : queue[j].epoch < queue[i].epoch
        /\ \A w \in works : w.op.epoch < queue[i].epoch

\* ... and while one of an earlier identity is waiting, nothing shows as on.
OldChecksWait ==
    \A i \in DOMAIN queue :
        queue[i].kind = "reconcile" /\ queue[i].epoch # epoch => strayed \/ ~subscribed

\* One operation has its turn; one that began alone is still alone.
Turns ==
    /\ \A v, w \in works : ~v.late /\ ~w.late => v = w
    /\ \A w \in works : w.alone /\ ~w.late => works = {w}

\* The operation whose turn it is: it may save a row for its identity; what
\* it looked at is still what the browser holds; nothing shows as on while
\* alerts are being disabled, or a check of an earlier identity runs.
MaySave(w) ==
    /\ w.op.kind = "enable" => w.op.who \notin stopped
    /\ w.op.kind = "reconcile" /\ w.at \in {"key", "upload"} => w.op.who \notin stopped

HoldsIt(w) ==
    /\ w.op.kind = "reconcile" /\ w.at \in {"key", "upload", "remove"} /\ (w.alone \/ ~strayed)
       => sub = w.sub /\ sub # NoSub
    /\ w.op.kind = "enable" /\ w.at \in {"upload", "drop"} /\ ~strayed
       => sub = w.sub /\ sub # NoSub

ShowsOff(w) ==
    /\ w.op.kind = "disable" => ~subscribed /\ (w.stored => w.op.who \notin optIn)
    /\ w.op.kind = "reconcile" /\ w.op.epoch # epoch => strayed \/ ~subscribed

TurnKept == \A w \in works : ~w.late => MaySave(w) /\ HoldsIt(w) /\ ShowsOff(w)

\* Who stopped has no opt-in; the subscription held is not of such an identity.
StoppedOut ==
    /\ stopped \subseteq Addresses /\ optIn \subseteq Addresses
    /\ stopped \cap optIn = {}
    /\ ~strayed /\ sub # NoSub => rows[sub] \notin stopped

AlertsInv ==
    /\ HeldTyped /\ AskedTyped /\ AllOfTheirEpoch /\ ChecksAreLater /\ OldChecksWait
    /\ Turns /\ TurnKept /\ StoppedOut /\ SubscribedIsReal

LEMMA AlertsInitially == PushInit => AlertsInv
<1> SUFFICES ASSUME PushInit PROVE AlertsInv
  OBVIOUS
<1> USE PushAssumption DEF PushInit
<1>1. HeldTyped
  <2>1. /\ madeWith \in Seq(Nat) /\ rows \in Seq(Addresses \cup {NoOne})
        /\ Len(madeWith) = 0 /\ Len(rows) = 0 /\ DOMAIN madeWith = {}
    OBVIOUS
  <2>2. key \in Nat /\ sub \in Nat /\ sub <= Len(rows) /\ Len(madeWith) = Len(rows)
    BY <2>1 DEF NoSub
  <2>3. reportsKey \in BOOLEAN /\ subscribed \in BOOLEAN /\ strayed \in BOOLEAN
    OBVIOUS
  <2> QED
    BY <2>1, <2>2, <2>3 DEF HeldTyped
<1>2. AskedTyped
  BY DEF AskedTyped
<1>3. AllOfTheirEpoch /\ ChecksAreLater /\ OldChecksWait /\ Turns /\ TurnKept
  BY DEF AllOfTheirEpoch, ChecksAreLater, OldChecksWait, Turns, TurnKept
<1>4. StoppedOut /\ SubscribedIsReal
  BY DEF StoppedOut, SubscribedIsReal
<1> QED
  BY <1>1, <1>2, <1>3, <1>4 DEF AlertsInv

-----------------------------------------------------------------------------
(* A step of an operation *)

\* A work is over, or goes on as n.
Moved(w, n) ==
    /\ n \in Works
    /\ n.op = w.op /\ n.late = w.late /\ n.alone = w.alone /\ n.stored = w.stored
    /\ n.at \in PlacesOf(w.op.kind) /\ n.key <= key

Moves(w) ==
    \/ works' = works \ {w}
    \/ \E n \in Works : Moved(w, n) /\ works' = (works \ {w}) \cup {n}

\* What a step leaves alone.
LEMMA StepKeepsPage ==
    ASSUME NEW w \in works, Step(w)
    PROVE  /\ onScreen' = onScreen /\ epoch' = epoch /\ prompts' = prompts
           /\ queue' = queue /\ asked' = asked /\ key' = key /\ reportsKey' = reportsKey
BY DEF Step, Look, JudgeKey, RemoveLeftover, UploadAgain, FetchKey, GetExisting, RemoveOther, Subscribe,
       Upload, FailUpload, Drop, GetSubscription, DeleteRow, RemoveSubscription, Fail,
       browser, serverVars, page

LEMMA StepMoves ==
    ASSUME AlertsInv, NEW w \in works, Step(w)
    PROVE  Moves(w)
<1> USE DEF Moves, Moved, Goes, Over, Ends, Works, PlacesOf, Places
<1>0. /\ w \in Works /\ w.at \in PlacesOf(w.op.kind) /\ w.key <= key
      /\ sub \in Nat /\ key \in Nat
  BY DEF AlertsInv, AskedTyped, HeldTyped
<1>1. ASSUME Look(w) PROVE Moves(w)
  BY <1>0, <1>1 DEF Look
<1>2. ASSUME JudgeKey(w) PROVE Moves(w)
  BY <1>0, <1>2 DEF JudgeKey
<1>3. ASSUME RemoveLeftover(w) \/ UploadAgain(w) PROVE Moves(w)
  BY <1>3 DEF RemoveLeftover, UploadAgain
<1>4. ASSUME FetchKey(w) PROVE Moves(w)
  <2> DEFINE n == [w EXCEPT !.key = key, !.at = "get"]
  <2>0. w.op.kind = "enable"
    BY <1>4 DEF FetchKey
  <2>1. Moved(w, n)
    <3>1. n \in Works /\ n.at = "get" /\ n.key = key
      BY <1>0
    <3>2. n.op = w.op /\ n.late = w.late /\ n.alone = w.alone /\ n.stored = w.stored
      BY <1>0
    <3> QED
      BY <1>0, <2>0, <3>1, <3>2
  <2>2. works' = (works \ {w}) \cup {n}
    BY <1>4 DEF FetchKey
  <2> QED
    BY <2>1, <2>2
<1>5. ASSUME GetExisting(w) PROVE Moves(w)
  BY <1>0, <1>5 DEF GetExisting
<1>6. ASSUME RemoveOther(w) PROVE Moves(w)
  BY <1>0, <1>6 DEF RemoveOther
<1>7. ASSUME Subscribe(w) PROVE Moves(w)
  <2>1. sub' \in Nat
    BY <1>0, <1>7 DEF Subscribe, AlertsInv, HeldTyped
  <2> QED
    BY <1>0, <1>7, <2>1 DEF Subscribe
<1>8. ASSUME Upload(w) \/ Drop(w) \/ RemoveSubscription(w) \/ Fail(w) PROVE Moves(w)
  BY <1>8 DEF Upload, Drop, RemoveSubscription, Fail
<1>9. ASSUME FailUpload(w) PROVE Moves(w)
  BY <1>0, <1>9 DEF FailUpload
<1>10. ASSUME GetSubscription(w) PROVE Moves(w)
  BY <1>0, <1>10 DEF GetSubscription
<1>11. ASSUME DeleteRow(w) PROVE Moves(w)
  BY <1>0, <1>11 DEF DeleteRow
<1> QED
  BY <1>1, <1>2, <1>3, <1>4, <1>5, <1>6, <1>7, <1>8, <1>9, <1>10, <1>11 DEF Step

\* A row is saved or forgotten, or an endpoint is made.
LEMMA StepKeepsTypes ==
    ASSUME AlertsInv, NEW w \in works, Step(w)
    PROVE  HeldTyped'
<1>0. /\ w \in Works /\ HeldTyped /\ w.key <= key /\ w.key \in Nat /\ w.op.who \in Addresses
      /\ w.late \in BOOLEAN
  BY DEF AlertsInv, AskedTyped, Works, Operations
<1>1. key' = key /\ reportsKey' = reportsKey
  BY StepKeepsPage
<1>2. ASSUME NEW e \in Nat PROVE /\ Saved(e, w.op.who) \in Seq(Addresses \cup {NoOne})
                                 /\ Len(Saved(e, w.op.who)) = Len(rows)
                                 /\ Unsaved(e, w.op.who) \in Seq(Addresses \cup {NoOne})
                                 /\ Len(Unsaved(e, w.op.who)) = Len(rows)
  <2> DEFINE Owners == Addresses \cup {NoOne}
  <2>1. rows \in Seq(Owners) /\ w.op.who \in Owners /\ NoOne \in Owners
    BY <1>0 DEF HeldTyped
  <2>2. ASSUME NEW a \in Owners PROVE [rows EXCEPT ![e] = a] \in Seq(Owners) /\ Len([rows EXCEPT ![e] = a]) = Len(rows)
    <3> HIDE DEF Owners
    <3>1. CASE e \in 1..Len(rows)
      BY <2>1, <3>1
    <3>2. CASE e \notin DOMAIN rows
      <4>1. [rows EXCEPT ![e] = a] = rows
        BY <2>1, <3>2
      <4> QED
        BY <2>1, <4>1
    <3> QED
      BY <2>1, <3>1, <3>2
  <2> QED
    BY <2>1, <2>2 DEF Saved, Unsaved
<1>3. subscribed' \in BOOLEAN /\ strayed' \in BOOLEAN
  <2>1. ASSUME Look(w) \/ RemoveLeftover(w) \/ UploadAgain(w) PROVE subscribed' \in BOOLEAN /\ strayed' \in BOOLEAN
    BY <1>0, <2>1 DEF Look, RemoveLeftover, UploadAgain, Ends, Shows, Strays, HeldTyped
  <2>2. ASSUME JudgeKey(w) \/ FetchKey(w) \/ GetExisting(w) \/ Subscribe(w) \/ Upload(w) \/ FailUpload(w)
        PROVE subscribed' \in BOOLEAN /\ strayed' \in BOOLEAN
    BY <1>0, <2>2 DEF JudgeKey, FetchKey, GetExisting, Subscribe, Upload, FailUpload, Shows, Strays, HeldTyped
  <2>3. ASSUME RemoveOther(w) \/ Drop(w) \/ GetSubscription(w) \/ DeleteRow(w) \/ RemoveSubscription(w) \/ Fail(w)
        PROVE subscribed' \in BOOLEAN /\ strayed' \in BOOLEAN
    BY <1>0, <2>3 DEF RemoveOther, Drop, GetSubscription, DeleteRow, RemoveSubscription, Fail,
                      Undoes, Strays, HeldTyped
  <2> QED
    BY <2>1, <2>2, <2>3 DEF Step
<1>4. CASE UNCHANGED <<madeWith, rows>> /\ sub' \in {sub, NoSub}
  BY <1>0, <1>1, <1>3, <1>4 DEF HeldTyped, NoSub
<1>5. CASE UNCHANGED <<madeWith, sub>> /\ \E e \in Nat : rows' \in {rows, Saved(e, w.op.who), Unsaved(e, w.op.who)}
  BY <1>0, <1>1, <1>2, <1>3, <1>5 DEF HeldTyped
<1>6. CASE /\ madeWith' = Append(madeWith, w.key) /\ rows' = Append(rows, NoOne)
           /\ sub' = Len(madeWith')
  BY <1>0, <1>1, <1>3, <1>6 DEF HeldTyped
<1>7. w.sub \in Nat
  BY <1>0 DEF Works
<1>8. ASSUME Look(w) \/ JudgeKey(w) \/ FetchKey(w) \/ GetExisting(w) \/ GetSubscription(w)
      PROVE UNCHANGED <<madeWith, rows>> /\ sub' \in {sub, NoSub}
  BY <1>8 DEF Look, JudgeKey, FetchKey, GetExisting, GetSubscription, browser, serverVars
<1>9. ASSUME RemoveLeftover(w) \/ RemoveOther(w) \/ Drop(w) \/ RemoveSubscription(w)
      PROVE UNCHANGED <<madeWith, rows>> /\ sub' \in {sub, NoSub}
  BY <1>9 DEF RemoveLeftover, RemoveOther, Drop, RemoveSubscription, Removes, serverVars
<1>10. ASSUME UploadAgain(w) \/ Upload(w) \/ FailUpload(w) \/ DeleteRow(w) \/ Fail(w)
       PROVE  UNCHANGED <<madeWith, sub>> /\ \E e \in Nat : rows' \in {rows, Saved(e, w.op.who), Unsaved(e, w.op.who)}
  <2>1. rows' \in {rows, Saved(w.sub, w.op.who), Unsaved(w.sub, w.op.who)}
    BY <1>10 DEF UploadAgain, Upload, FailUpload, DeleteRow, Fail
  <2>2. UNCHANGED <<madeWith, sub>>
    BY <1>10 DEF UploadAgain, Upload, FailUpload, DeleteRow, Fail, browser
  <2> QED
    BY <1>7, <2>1, <2>2
<1>11. ASSUME Subscribe(w) PROVE HeldTyped'
  <2>1. CASE sub = NoSub
    BY <1>6, <1>11, <2>1 DEF Subscribe
  <2>2. CASE sub # NoSub
    BY <1>4, <1>11, <2>2 DEF Subscribe
  <2> QED
    BY <2>1, <2>2
<1> QED
  BY <1>4, <1>5, <1>8, <1>9, <1>10, <1>11 DEF Step

\* A late work strays, and changes nothing of what was told.
LEMMA LateStrays ==
    ASSUME AlertsInv, NEW w \in works, Step(w), w.late
    PROVE  strayed' /\ UNCHANGED <<stopped, optIn, subscribed>>
<1>1. ASSUME Look(w) \/ RemoveLeftover(w) \/ UploadAgain(w)
      PROVE  strayed' /\ UNCHANGED <<stopped, optIn, subscribed>>
  BY <1>1 DEF Look, RemoveLeftover, UploadAgain, Ends, Shows, Strays, browser
<1>2. ASSUME JudgeKey(w) \/ FetchKey(w) \/ GetExisting(w) \/ Subscribe(w) \/ FailUpload(w) \/ DeleteRow(w) \/ Fail(w)
      PROVE  strayed' /\ UNCHANGED <<stopped, optIn, subscribed>>
  BY <1>2 DEF JudgeKey, FetchKey, GetExisting, Subscribe, FailUpload, DeleteRow, Fail, Strays, browser
<1>3. ASSUME Upload(w) PROVE strayed' /\ UNCHANGED <<stopped, optIn, subscribed>>
  BY <1>3 DEF Upload, Shows, Strays, StoreOptIn
<1>4. ASSUME RemoveOther(w) \/ Drop(w) \/ GetSubscription(w) \/ RemoveSubscription(w)
      PROVE  strayed' /\ UNCHANGED <<stopped, optIn, subscribed>>
  BY <1>4 DEF RemoveOther, Drop, GetSubscription, RemoveSubscription, Undoes, Strays, Stops, browser
<1> QED
  BY <1>1, <1>2, <1>3, <1>4 DEF Step

\* What an operation of an earlier identity does is not shown, and does not
\* count as setting things right.
LEMMA OldStepIsHidden ==
    ASSUME AlertsInv, NEW w \in works, Step(w), w.op.epoch # epoch, strayed \/ ~subscribed
    PROVE  strayed' \/ ~subscribed'
<1>1. ASSUME Look(w) \/ RemoveLeftover(w) \/ UploadAgain(w) PROVE strayed' \/ ~subscribed'
  BY <1>1 DEF Look, RemoveLeftover, UploadAgain, Ends, Shows, Strays
<1>2. ASSUME JudgeKey(w) \/ FetchKey(w) \/ GetExisting(w) \/ Subscribe(w) \/ FailUpload(w) \/ DeleteRow(w) \/ Fail(w)
      PROVE  strayed' \/ ~subscribed'
  BY <1>2 DEF JudgeKey, FetchKey, GetExisting, Subscribe, FailUpload, DeleteRow, Fail, Strays
<1>3. ASSUME Upload(w) PROVE strayed' \/ ~subscribed'
  BY <1>3 DEF Upload, Strays
<1>4. ASSUME RemoveOther(w) \/ Drop(w) \/ GetSubscription(w) \/ RemoveSubscription(w)
      PROVE  strayed' \/ ~subscribed'
  BY <1>4 DEF RemoveOther, Drop, GetSubscription, RemoveSubscription, Undoes, Strays
<1> QED
  BY <1>1, <1>2, <1>3, <1>4 DEF Step

LEMMA StepKeepsOrder ==
    ASSUME AlertsInv, NEW w \in works, Step(w)
    PROVE  AskedTyped' /\ AllOfTheirEpoch' /\ ChecksAreLater' /\ OldChecksWait' /\ Turns'
<1>1. /\ onScreen' = onScreen /\ epoch' = epoch /\ prompts' = prompts
      /\ queue' = queue /\ key' = key
  BY StepKeepsPage
<1>2. \A v \in works' : \E u \in works :
          /\ v.op = u.op /\ v.late = u.late /\ v.alone = u.alone
          /\ v \in Works /\ v.at \in PlacesOf(v.op.kind) /\ v.key <= key
          /\ v = u \/ u = w
  BY StepMoves DEF Moves, Moved, AlertsInv, AskedTyped
<1>3. AskedTyped'
  BY <1>1, <1>2 DEF AlertsInv, AskedTyped
<1>4. AllOfTheirEpoch'
  BY <1>1, <1>2 DEF AlertsInv, AllOfTheirEpoch, OfItsEpoch
<1>5. ChecksAreLater'
  BY <1>1, <1>2 DEF AlertsInv, ChecksAreLater
<1>6. OldChecksWait'
  <2> SUFFICES ASSUME NEW i \in DOMAIN queue, queue[i].kind = "reconcile", queue[i].epoch # epoch
               PROVE  strayed' \/ ~subscribed'
    BY <1>1 DEF OldChecksWait
  <2>1. w.op.epoch < queue[i].epoch /\ queue[i].epoch <= epoch
    BY DEF AlertsInv, ChecksAreLater, AllOfTheirEpoch, OfItsEpoch
  <2>2. w.op.epoch \in Nat /\ queue[i].epoch \in Nat /\ epoch \in Nat
    <3>1. queue[i] \in Operations /\ w.op \in Operations /\ epoch \in Nat
      BY DEF AlertsInv, AskedTyped, Works
    <3> QED
      BY <3>1 DEF Operations
  <2>3. strayed \/ ~subscribed
    BY DEF AlertsInv, OldChecksWait
  <2> QED
    BY <2>1, <2>2, <2>3, OldStepIsHidden
<1>7. Turns'
  <2>1. CASE works' = works \ {w}
    BY <2>1 DEF AlertsInv, Turns
  <2>2. ASSUME NEW n \in Works, Moved(w, n), works' = (works \ {w}) \cup {n} PROVE Turns'
    <3>1. n.late = w.late /\ n.alone = w.alone
      BY <2>2 DEF Moved
    <3>2. ASSUME NEW u \in works', NEW v \in works', ~u.late, ~v.late PROVE u = v
      BY <2>2, <3>1, <3>2 DEF AlertsInv, Turns
    <3>3. ASSUME NEW v \in works', v.alone, ~v.late PROVE works' = {v}
      <4>1. CASE v = n
        BY <2>2, <3>1, <3>3, <4>1 DEF AlertsInv, Turns
      <4>2. CASE v # n
        BY <2>2, <3>3, <4>2 DEF AlertsInv, Turns
      <4> QED
        BY <4>1, <4>2
    <3> QED
      BY <3>2, <3>3 DEF Turns
  <2> QED
    BY <2>1, <2>2, StepMoves DEF Moves
<1> QED
  BY <1>3, <1>4, <1>5, <1>6, <1>7

LEMMA LateStepKeeps ==
    ASSUME AlertsInv, NEW w \in works, Step(w), w.late
    PROVE  TurnKept' /\ StoppedOut' /\ SubscribedIsReal'
<1>1. strayed' /\ UNCHANGED <<stopped, optIn, subscribed>>
  BY LateStrays
<1>2. StoppedOut' /\ SubscribedIsReal'
  BY <1>1 DEF AlertsInv, StoppedOut, SubscribedIsReal
<1>3. ASSUME NEW v \in works', ~v.late PROVE (MaySave(v) /\ HoldsIt(v) /\ ShowsOff(v))'
  <2>1. v \in works /\ v # w
    BY <1>3, StepMoves DEF Moves, Moved
  <2>2. ~v.alone
    BY <1>3, <2>1 DEF AlertsInv, Turns
  <2>3. MaySave(v) /\ ShowsOff(v)
    BY <1>3, <2>1 DEF AlertsInv, TurnKept
  <2>4. MaySave(v)'
    BY <1>1, <2>3 DEF MaySave
  <2>5. HoldsIt(v)'
    BY <1>1, <2>2 DEF HoldsIt
  <2>6. ShowsOff(v)'
    BY <1>1, <2>3 DEF ShowsOff
  <2> QED
    BY <2>4, <2>5, <2>6
<1> QED
  BY <1>2, <1>3 DEF TurnKept

-----------------------------------------------------------------------------
(* A step of the operation whose turn it is *)

\* What is known before it.
LEMMA AtTurn ==
    ASSUME AlertsInv, NEW w \in works, ~w.late
    PROVE  /\ w \in Works /\ w.op \in Operations /\ w.op.who \in Addresses
           /\ w.at \in PlacesOf(w.op.kind)
           /\ w.op.kind # "disable" /\ w.op.epoch = epoch => w.op.who = onScreen
           /\ MaySave(w) /\ HoldsIt(w) /\ ShowsOff(w)
           /\ \A v \in works \ {w} : v.late
           /\ stopped \subseteq Addresses /\ optIn \subseteq Addresses /\ stopped \cap optIn = {}
           /\ ~strayed /\ sub # NoSub => rows[sub] \notin stopped
           /\ strayed \in BOOLEAN /\ subscribed \in BOOLEAN
           /\ sub # NoSub => sub \in DOMAIN rows
           /\ SubscribedIsReal
<1>1. w \in Works /\ w.at \in PlacesOf(w.op.kind)
  BY DEF AlertsInv, AskedTyped
<1>2. w.op \in Operations /\ w.op.who \in Addresses
  BY <1>1 DEF Works, Operations
<1>3. /\ MaySave(w) /\ HoldsIt(w) /\ ShowsOff(w) /\ SubscribedIsReal
      /\ \A v \in works \ {w} : v.late
  BY DEF AlertsInv, TurnKept, Turns
<1>4. w.op.kind # "disable" /\ w.op.epoch = epoch => w.op.who = onScreen
  BY DEF AlertsInv, AllOfTheirEpoch, OfItsEpoch
<1>5. /\ stopped \subseteq Addresses /\ optIn \subseteq Addresses /\ stopped \cap optIn = {}
      /\ ~strayed /\ sub # NoSub => rows[sub] \notin stopped
  BY DEF AlertsInv, StoppedOut
<1>6. strayed \in BOOLEAN /\ subscribed \in BOOLEAN /\ (sub # NoSub => sub \in DOMAIN rows)
  BY DEF AlertsInv, HeldTyped, NoSub
<1> QED
  BY <1>1, <1>2, <1>3, <1>4, <1>5, <1>6

LEMMA TurnIsOver ==
    ASSUME AlertsInv, NEW w \in works, ~w.late, Over(w)
    PROVE  TurnKept'
BY AtTurn DEF Over, TurnKept

LEMMA TurnGoesOn ==
    ASSUME AlertsInv, NEW w \in works, ~w.late, NEW n, Goes(w, n),
           (MaySave(n) /\ HoldsIt(n) /\ ShowsOff(n))'
    PROVE  TurnKept'
<1>1. \A v \in works \ {w} : v.late
  BY AtTurn
<1>2. works' = (works \ {w}) \cup {n}
  BY DEF Goes
<1>3. ASSUME NEW v \in works', ~v.late PROVE v = n
  BY <1>1, <1>2, <1>3
<1> QED
  BY <1>3 DEF TurnKept

\* A row that is saved for the subscription held.
LEMMA SavedIsHeld ==
    ASSUME NEW a, sub \in DOMAIN rows
    PROVE  Saved(sub, a)[sub] = a
BY DEF Saved

\* A start-up check that ends without a subscription.
LEMMA CheckEndsOff ==
    ASSUME AlertsInv, NEW w \in works, ~w.late, w.op.kind = "reconcile",
           Ends(w, FALSE), sub' = NoSub, UNCHANGED <<stopped, optIn, rows>>
    PROVE  TurnKept' /\ StoppedOut' /\ SubscribedIsReal'
<1>1. TurnKept'
  BY TurnIsOver DEF Ends
<1>2. StoppedOut'
  BY AtTurn DEF StoppedOut
<1>3. ~strayed' => ~subscribed'
  <2>1. CASE w.op.epoch = epoch
    BY <2>1 DEF Ends, Shows
  <2>2. CASE w.op.epoch # epoch
    BY <2>2, AtTurn DEF Ends, ShowsOff
  <2> QED
    BY <2>1, <2>2
<1> QED
  BY <1>1, <1>2, <1>3 DEF SubscribedIsReal

LEMMA CheckKeeps ==
    ASSUME AlertsInv, NEW w \in works, ~w.late,
           Look(w) \/ JudgeKey(w) \/ RemoveLeftover(w) \/ UploadAgain(w)
    PROVE  TurnKept' /\ StoppedOut' /\ SubscribedIsReal'
<1>0. epoch' = epoch /\ onScreen' = onScreen /\ key' = key
  BY StepKeepsPage DEF Step
<1>1. ASSUME Look(w), sub = NoSub PROVE TurnKept' /\ StoppedOut' /\ SubscribedIsReal'
  BY <1>1, CheckEndsOff DEF Look, browser, serverVars
<1>2. ASSUME Look(w), sub # NoSub PROVE TurnKept' /\ StoppedOut' /\ SubscribedIsReal'
  <2>0. PICK n : n = [w EXCEPT !.sub = sub, !.at = IF IsOptedIn(w.op.who) THEN "key" ELSE "remove"]
    OBVIOUS
  <2>1. /\ UNCHANGED <<sub, rows, madeWith, stopped, optIn, subscribed>> /\ strayed' = strayed
        /\ w.op.kind = "reconcile" /\ Goes(w, n)
    BY <1>2, <2>0, AtTurn DEF Look, Strays, browser, serverVars
  <2>2. /\ n.op = w.op /\ n.sub = sub /\ n.stored = w.stored
        /\ n.at = "key" => w.op.who \in optIn
        /\ n.at # "upload"
    BY <2>0, AtTurn DEF Works, IsOptedIn
  <2>3. MaySave(n)'
    BY <2>1, <2>2, AtTurn DEF MaySave
  <2>4. HoldsIt(n)'
    BY <1>2, <2>1, <2>2 DEF HoldsIt
  <2>5. ShowsOff(n)'
    BY <1>0, <2>1, <2>2, AtTurn DEF ShowsOff
  <2>6. TurnKept'
    BY <2>1, <2>3, <2>4, <2>5, TurnGoesOn
  <2>7. StoppedOut' /\ SubscribedIsReal'
    BY <1>0, <2>1, AtTurn DEF StoppedOut, SubscribedIsReal
  <2> QED
    BY <2>6, <2>7
<1>3. ASSUME JudgeKey(w) PROVE TurnKept' /\ StoppedOut' /\ SubscribedIsReal'
  <2>0. PICK n : n = [w EXCEPT !.at = IF MatchesKey(w.sub, key) THEN "upload" ELSE "remove"]
    OBVIOUS
  <2>1. /\ UNCHANGED <<sub, rows, madeWith, stopped, optIn, subscribed>> /\ strayed' = strayed
        /\ w.op.kind = "reconcile" /\ w.at = "key" /\ Goes(w, n)
    BY <1>3, <2>0, AtTurn DEF JudgeKey, Strays, browser, serverVars
  <2>2. n.op = w.op /\ n.sub = w.sub /\ n.alone = w.alone /\ n.stored = w.stored
    BY <2>0, AtTurn DEF Works
  <2>3. MaySave(n)'
    BY <2>1, <2>2, AtTurn DEF MaySave
  <2>4. HoldsIt(n)'
    BY <2>1, <2>2, AtTurn DEF HoldsIt
  <2>5. ShowsOff(n)'
    BY <1>0, <2>1, <2>2, AtTurn DEF ShowsOff
  <2>6. TurnKept'
    BY <2>1, <2>3, <2>4, <2>5, TurnGoesOn
  <2>7. StoppedOut' /\ SubscribedIsReal'
    BY <1>0, <2>1, AtTurn DEF StoppedOut, SubscribedIsReal
  <2> QED
    BY <2>6, <2>7
<1>4. ASSUME RemoveLeftover(w) PROVE TurnKept' /\ StoppedOut' /\ SubscribedIsReal'
  BY <1>4, CheckEndsOff DEF RemoveLeftover, Removes, serverVars
<1>5. ASSUME UploadAgain(w) PROVE TurnKept' /\ StoppedOut' /\ SubscribedIsReal'
  <2>1. /\ UNCHANGED <<sub, madeWith, stopped, optIn>> /\ rows' = Saved(w.sub, w.op.who)
        /\ w.op.kind = "reconcile" /\ w.at = "upload" /\ Ends(w, TRUE)
    BY <1>5 DEF UploadAgain, browser
  <2>2. TurnKept'
    BY <2>1, TurnIsOver DEF Ends
  <2>3. ASSUME ~strayed'
        PROVE  sub # NoSub /\ rows'[sub] = w.op.who /\ w.op.who \notin stopped
    <3>1. ~strayed \/ w.alone
      BY <2>1, <2>3 DEF Ends
    <3>2. sub = w.sub /\ sub # NoSub
      BY <2>1, <3>1, AtTurn DEF HoldsIt
    <3> QED
      BY <2>1, <3>2, AtTurn, SavedIsHeld DEF MaySave
  <2>4. StoppedOut'
    BY <2>1, <2>3, AtTurn DEF StoppedOut
  <2>5. ASSUME ~strayed', subscribed' PROVE w.op.epoch = epoch
    BY <2>1, <2>5, AtTurn DEF Ends, ShowsOff
  <2>6. SubscribedIsReal'
    BY <1>0, <2>1, <2>3, <2>5, AtTurn DEF SubscribedIsReal
  <2> QED
    BY <2>2, <2>4, <2>6
<1> QED
  BY <1>1, <1>2, <1>3, <1>4, <1>5

LEMMA EnableKeeps ==
    ASSUME AlertsInv, NEW w \in works, ~w.late,
           \/ FetchKey(w) \/ GetExisting(w) \/ RemoveOther(w) \/ Subscribe(w)
           \/ Upload(w) \/ FailUpload(w) \/ Drop(w)
    PROVE  TurnKept' /\ StoppedOut' /\ SubscribedIsReal'
<1>0. epoch' = epoch /\ onScreen' = onScreen /\ key' = key
  BY StepKeepsPage DEF Step
<1>1. w.op.kind = "enable" /\ w.op.who \notin stopped /\ stopped' = stopped
  BY AtTurn DEF FetchKey, GetExisting, RemoveOther, Subscribe, Upload, FailUpload, Drop, MaySave
<1>2. ASSUME NEW n, Goes(w, n), n.op = w.op,
             n.at \in {"upload", "drop"} /\ ~strayed' => sub' = n.sub /\ sub' # NoSub
      PROVE  TurnKept'
  <2>1. MaySave(n)' /\ HoldsIt(n)' /\ ShowsOff(n)'
    BY <1>1, <1>2 DEF MaySave, HoldsIt, ShowsOff
  <2> QED
    BY <1>2, <2>1, TurnGoesOn
<1>3. ASSUME FetchKey(w) \/ GetExisting(w) PROVE TurnKept' /\ StoppedOut' /\ SubscribedIsReal'
  <2>1. PICK n : Goes(w, n) /\ n.op = w.op /\ n.at \notin {"upload", "drop"}
    <3>1. CASE FetchKey(w)
      <4>1. [w EXCEPT !.key = key, !.at = "get"].op = w.op /\ [w EXCEPT !.key = key, !.at = "get"].at = "get"
        BY AtTurn DEF Works
      <4> QED
        BY <3>1, <4>1 DEF FetchKey
    <3>2. CASE GetExisting(w)
      <4>1. [w EXCEPT !.sub = sub, !.at = "remove"].op = w.op /\ [w EXCEPT !.at = "subscribe"].op = w.op
        BY AtTurn DEF Works
      <4>2. /\ [w EXCEPT !.sub = sub, !.at = "remove"].at = "remove"
            /\ [w EXCEPT !.at = "subscribe"].at = "subscribe"
        BY AtTurn DEF Works
      <4> QED
        BY <3>2, <4>1, <4>2 DEF GetExisting
    <3> QED
      BY <1>3, <3>1, <3>2
  <2>2. TurnKept'
    BY <1>2, <2>1
  <2>3. /\ UNCHANGED <<sub, rows, madeWith, optIn, subscribed>>
        /\ ~strayed' => ~strayed
    BY <1>3 DEF FetchKey, GetExisting, Strays, browser, serverVars
  <2> QED
    BY <1>0, <1>1, <2>2, <2>3, AtTurn DEF StoppedOut, SubscribedIsReal
<1>4. ASSUME RemoveOther(w) \/ Drop(w) PROVE TurnKept' /\ StoppedOut' /\ SubscribedIsReal'
  <2>1. /\ sub' = NoSub /\ optIn' = optIn /\ subscribed' = subscribed
        /\ ~strayed' => ~subscribed
    BY <1>4 DEF RemoveOther, Drop, Removes, Undoes
  <2>2. CASE RemoveOther(w)
    <3>1. PICK n : n = [w EXCEPT !.at = "subscribe"]
      OBVIOUS
    <3>2. Goes(w, n) /\ n.op = w.op /\ n.at = "subscribe"
      BY <2>2, <3>1, AtTurn DEF RemoveOther, Works
    <3> QED
      BY <1>1, <1>2, <2>1, <3>2, AtTurn DEF StoppedOut, SubscribedIsReal
  <2>3. CASE Drop(w)
    BY <1>1, <2>1, <2>3, TurnIsOver, AtTurn DEF Drop, StoppedOut, SubscribedIsReal
  <2> QED
    BY <1>4, <2>2, <2>3
<1>5. ASSUME Subscribe(w) PROVE TurnKept' /\ StoppedOut' /\ SubscribedIsReal'
  <2>1. PICK n : n = [w EXCEPT !.sub = sub', !.at = "upload"]
    OBVIOUS
  <2>2. n.op = w.op /\ n.sub = sub' /\ Goes(w, n)
    BY <1>5, <2>1, AtTurn DEF Subscribe, Works
  <2>3. /\ optIn' = optIn /\ subscribed' = subscribed
        /\ ~strayed' => ~strayed
    BY <1>5 DEF Subscribe, Strays
  <2>4. CASE sub # NoSub
    BY <1>0, <1>1, <1>2, <1>5, <2>2, <2>3, <2>4, AtTurn DEF Subscribe, StoppedOut, SubscribedIsReal
  <2>5. CASE sub = NoSub
    <3>1. /\ madeWith' = Append(madeWith, w.key) /\ rows' = Append(rows, NoOne) /\ sub' = Len(madeWith')
      BY <1>5, <2>5 DEF Subscribe
    <3>2. /\ madeWith \in Seq(Nat) /\ rows \in Seq(Addresses \cup {NoOne}) /\ Len(madeWith) = Len(rows)
          /\ w.key \in Nat
      BY AtTurn DEF AlertsInv, HeldTyped, Works
    <3>3. sub' # NoSub /\ rows'[sub'] = NoOne
      BY <3>1, <3>2 DEF NoSub
    <3>4. NoOne \notin stopped
      BY AtTurn, PushAssumption
    <3>5. StoppedOut'
      BY <1>1, <2>3, <3>3, <3>4, AtTurn DEF StoppedOut
    <3>6. SubscribedIsReal'
      BY <2>3, <2>5, AtTurn DEF SubscribedIsReal
    <3> QED
      BY <1>2, <2>2, <3>3, <3>5, <3>6
  <2> QED
    BY <2>4, <2>5
<1>6. ASSUME Upload(w) \/ FailUpload(w), ~strayed'
      PROVE  /\ sub = w.sub /\ sub # NoSub /\ w.op.who = onScreen /\ ~strayed
             /\ Saved(w.sub, w.op.who)[sub] = w.op.who
  <2>1. ~strayed /\ w.op.epoch = epoch /\ w.at = "upload"
    BY <1>1, <1>6 DEF Upload, FailUpload, Strays
  <2>2. sub = w.sub /\ sub # NoSub
    BY <1>1, <2>1, AtTurn DEF HoldsIt
  <2> QED
    BY <1>1, <2>1, <2>2, AtTurn, SavedIsHeld
<1>7. ASSUME Upload(w) PROVE TurnKept' /\ StoppedOut' /\ SubscribedIsReal'
  <2>1. /\ UNCHANGED <<sub, madeWith>> /\ rows' = Saved(w.sub, w.op.who) /\ Over(w)
        /\ optIn' \in {optIn, optIn \cup {w.op.who}}
    BY <1>7 DEF Upload, StoreOptIn
  <2>2. TurnKept'
    BY <2>1, TurnIsOver
  <2>3. StoppedOut'
    BY <1>1, <1>6, <1>7, <2>1, AtTurn DEF StoppedOut
  <2>4. SubscribedIsReal'
    BY <1>0, <1>6, <1>7, <2>1 DEF SubscribedIsReal
  <2> QED
    BY <2>2, <2>3, <2>4
<1>8. ASSUME FailUpload(w) PROVE TurnKept' /\ StoppedOut' /\ SubscribedIsReal'
  <2>1. /\ UNCHANGED <<sub, madeWith, optIn, subscribed>>
        /\ rows' \in {rows, Saved(w.sub, w.op.who)}
    BY <1>8 DEF FailUpload, browser
  <2>2. PICK n : n = [w EXCEPT !.at = "drop"]
    OBVIOUS
  <2>3. n.op = w.op /\ n.sub = w.sub /\ Goes(w, n)
    BY <1>8, <2>2, AtTurn DEF FailUpload, Works
  <2>4. TurnKept'
    BY <1>2, <1>6, <1>8, <2>1, <2>3
  <2>5. StoppedOut'
    BY <1>1, <1>6, <1>8, <2>1, AtTurn DEF StoppedOut
  <2>6. SubscribedIsReal'
    BY <1>0, <1>6, <1>8, <2>1, AtTurn DEF SubscribedIsReal
  <2> QED
    BY <2>4, <2>5, <2>6
<1> QED
  BY <1>3, <1>4, <1>5, <1>7, <1>8

LEMMA DisableKeeps ==
    ASSUME AlertsInv, NEW w \in works, ~w.late,
           GetSubscription(w) \/ DeleteRow(w) \/ RemoveSubscription(w)
    PROVE  TurnKept' /\ StoppedOut' /\ SubscribedIsReal'
<1>1. /\ w.op.kind = "disable" /\ ~subscribed /\ (w.stored => w.op.who \notin optIn)
      /\ UNCHANGED <<optIn, subscribed>> /\ (~strayed' => ~strayed)
  BY AtTurn DEF GetSubscription, DeleteRow, RemoveSubscription, ShowsOff, Strays, browser
<1>2. SubscribedIsReal'
  BY <1>1 DEF SubscribedIsReal
<1>3. ASSUME NEW n, Goes(w, n), n.op = w.op, n.stored = w.stored PROVE TurnKept'
  <2>1. MaySave(n)' /\ HoldsIt(n)' /\ ShowsOff(n)'
    BY <1>1, <1>3 DEF MaySave, HoldsIt, ShowsOff
  <2> QED
    BY <1>3, <2>1, TurnGoesOn
<1>4. ASSUME Stops(w), sub' = NoSub PROVE StoppedOut'
  BY <1>1, <1>4, AtTurn DEF Stops, StoppedOut
<1>5. ASSUME GetSubscription(w), sub = NoSub PROVE TurnKept' /\ StoppedOut'
  BY <1>4, <1>5, TurnIsOver DEF GetSubscription, browser
<1>6. ASSUME GetSubscription(w), sub # NoSub PROVE TurnKept' /\ StoppedOut'
  <2>1. PICK n : n = [w EXCEPT !.sub = sub, !.at = IF w.op.token THEN "delete" ELSE "remove"]
    OBVIOUS
  <2>2. n.op = w.op /\ n.stored = w.stored /\ Goes(w, n)
    BY <1>6, <2>1, AtTurn DEF GetSubscription, Works
  <2>3. UNCHANGED <<sub, rows, stopped>>
    BY <1>6 DEF GetSubscription, browser, serverVars
  <2> QED
    BY <1>1, <1>3, <2>2, <2>3, AtTurn DEF StoppedOut
<1>7. ASSUME DeleteRow(w) PROVE TurnKept' /\ StoppedOut'
  <2>1. PICK n : n = [w EXCEPT !.at = "remove"]
    OBVIOUS
  <2>2. n.op = w.op /\ n.stored = w.stored /\ Goes(w, n)
    BY <1>7, <2>1, AtTurn DEF DeleteRow, Works
  <2>3. UNCHANGED <<sub, stopped>> /\ rows' \in {rows, Unsaved(w.sub, w.op.who)}
    BY <1>7 DEF DeleteRow, browser
  <2>4. sub # NoSub => rows'[sub] \in {rows[sub], NoOne}
    BY <2>3, AtTurn DEF Unsaved
  <2>5. NoOne \notin stopped
    BY AtTurn, PushAssumption
  <2>6. StoppedOut'
    BY <1>1, <2>3, <2>4, <2>5, AtTurn DEF StoppedOut
  <2> QED
    BY <1>3, <2>2, <2>6
<1>8. ASSUME RemoveSubscription(w) PROVE TurnKept' /\ StoppedOut'
  BY <1>4, <1>8, TurnIsOver DEF RemoveSubscription, Removes
<1> QED
  BY <1>2, <1>5, <1>6, <1>7, <1>8

\* Of the uploads only that of a start-up check ends in Fail.
LEMMA FailKeeps ==
    ASSUME AlertsInv, NEW w \in works, ~w.late, Fail(w)
    PROVE  TurnKept' /\ StoppedOut' /\ SubscribedIsReal'
<1>0. epoch' = epoch /\ onScreen' = onScreen /\ key' = key
  BY StepKeepsPage DEF Step
<1>1. /\ UNCHANGED <<sub, madeWith, optIn, stopped, subscribed>> /\ Over(w)
      /\ ~strayed' => ~strayed
  BY DEF Fail, Strays, browser
<1>2. TurnKept'
  BY <1>1, TurnIsOver
<1>3. CASE rows' = rows
  BY <1>0, <1>1, <1>2, <1>3, AtTurn DEF StoppedOut, SubscribedIsReal
<1>4. CASE rows' # rows
  <2>1. w.at = "upload" /\ w.op.kind = "reconcile" /\ rows' = Saved(w.sub, w.op.who)
    BY <1>4, AtTurn DEF Fail, PlacesOf
  <2>2. ASSUME ~strayed' PROVE sub # NoSub /\ rows'[sub] = w.op.who /\ w.op.who \notin stopped
    <3>1. sub = w.sub /\ sub # NoSub /\ w.op.who \notin stopped
      BY <1>1, <2>1, <2>2, AtTurn DEF HoldsIt, MaySave
    <3> QED
      BY <2>1, <3>1, AtTurn, SavedIsHeld
  <2>3. ~strayed' /\ subscribed' => w.op.who = onScreen
    BY <1>1, <2>1, AtTurn DEF ShowsOff
  <2> QED
    BY <1>0, <1>1, <1>2, <2>2, <2>3, AtTurn DEF StoppedOut, SubscribedIsReal
<1> QED
  BY <1>3, <1>4

LEMMA StepKeepsAlerts ==
    ASSUME AlertsInv, NEW w \in works, Step(w)
    PROVE  AlertsInv'
<1>1. HeldTyped' /\ AskedTyped' /\ AllOfTheirEpoch' /\ ChecksAreLater' /\ OldChecksWait' /\ Turns'
  BY StepKeepsTypes, StepKeepsOrder
<1>2. CASE w.late
  BY <1>1, <1>2, LateStepKeeps DEF AlertsInv
<1>3. CASE ~w.late
  <2>1. TurnKept' /\ StoppedOut' /\ SubscribedIsReal'
    BY <1>3, CheckKeeps, EnableKeeps, DisableKeeps, FailKeeps DEF Step
  <2> QED
    BY <1>1, <2>1 DEF AlertsInv
<1> QED
  BY <1>2, <1>3

-----------------------------------------------------------------------------
(* The other actions *)

\* What the page shows and the works stay, of the same identity.
LEMMA TurnUntouched ==
    ASSUME AlertsInv,
           UNCHANGED <<works, epoch, sub, subscribed, optIn, stopped, strayed>>
    PROVE  TurnKept' /\ Turns'
BY DEF AlertsInv, TurnKept, Turns, MaySave, HoldsIt, ShowsOff

\* Another identity starts: what was asked for and begun is of earlier ones.
LEMMA StartKeeps ==
    ASSUME AlertsInv, NEW a \in Addresses \cup {NoOne}, Start(a)
    PROVE  AlertsInv'
<1>1. /\ epoch' = epoch + 1 /\ onScreen' = a /\ subscribed' = FALSE
      /\ UNCHANGED <<madeWith, sub, reportsKey, optIn, key, rows, sends, prompts, works, stopped, strayed>>
  BY DEF Start, browser, serverVars
<1>2. /\ epoch \in Nat /\ queue \in Seq(Operations) /\ works \subseteq Works
      /\ prompts \subseteq [who : Addresses, epoch : Nat]
  BY DEF AlertsInv, AskedTyped
<1>3. /\ \A p \in prompts : p.epoch \in Nat /\ p.epoch < epoch'
      /\ \A i \in DOMAIN queue : queue[i].epoch \in Nat /\ queue[i].epoch < epoch'
      /\ \A w \in works : w.op.epoch \in Nat /\ w.op.epoch < epoch'
  <2>1. \A p \in prompts : p.epoch \in Nat
    BY <1>2
  <2>2. \A i \in DOMAIN queue : queue[i] \in Operations
    BY <1>2
  <2>3. \A w \in works : w.op \in Operations
    BY <1>2 DEF Works
  <2> QED
    BY <1>1, <1>2, <2>1, <2>2, <2>3 DEF Operations, AlertsInv, AllOfTheirEpoch, OfItsEpoch
<1>4. HeldTyped' /\ StoppedOut' /\ SubscribedIsReal' /\ Turns'
  BY <1>1 DEF AlertsInv, HeldTyped, StoppedOut, SubscribedIsReal, Turns
<1>5. TurnKept'
  BY <1>1 DEF AlertsInv, TurnKept, MaySave, HoldsIt, ShowsOff
<1>6. OldChecksWait'
  BY <1>1 DEF OldChecksWait
<1>7. CASE a = NoOne
  <2>1. queue' = queue
    BY <1>7 DEF Start
  <2>2. AskedTyped' /\ AllOfTheirEpoch' /\ ChecksAreLater'
    BY <1>1, <1>2, <1>3, <2>1 DEF AlertsInv, AskedTyped, AllOfTheirEpoch, OfItsEpoch, ChecksAreLater
  <2> QED
    BY <1>4, <1>5, <1>6, <2>2 DEF AlertsInv
<1>8. CASE a # NoOne
  <2> DEFINE op == Operation("reconcile", a, epoch + 1, TRUE)
  <2>1. queue' = Append(queue, op)
    BY <1>1, <1>8 DEF Start, Ask
  <2>2. op \in Operations /\ op.kind = "reconcile" /\ op.who = a /\ op.epoch = epoch + 1
    BY <1>2, <1>8 DEF Operation, Operations, Kinds
  <2> HIDE DEF op
  <2>3. /\ queue' \in Seq(Operations) /\ Len(queue') = Len(queue) + 1
        /\ \A i \in DOMAIN queue' : \/ (i \in DOMAIN queue /\ queue'[i] = queue[i])
                                 \/ (i = Len(queue) + 1 /\ queue'[i] = op)
        /\ \A i \in DOMAIN queue : queue'[i] = queue[i]
        /\ DOMAIN queue = 1..Len(queue) /\ DOMAIN queue' = 1..(Len(queue) + 1) /\ Len(queue) \in Nat
    BY <1>2, <2>1, <2>2
  <2>4. AskedTyped'
    BY <1>1, <1>2, <2>3 DEF AlertsInv, AskedTyped
  <2>5. AllOfTheirEpoch'
    BY <1>1, <1>2, <1>3, <2>2, <2>3 DEF AllOfTheirEpoch, OfItsEpoch
  <2>6. ChecksAreLater'
    <3> SUFFICES ASSUME NEW i \in DOMAIN queue', queue'[i].kind = "reconcile"
                 PROVE  /\ \A j \in 1..i-1 : queue'[j].epoch < queue'[i].epoch
                        /\ \A w \in works' : w.op.epoch < queue'[i].epoch
      BY DEF ChecksAreLater
    <3>1. CASE i \in DOMAIN queue
      <4>1. \A j \in 1..i-1 : j \in DOMAIN queue
        BY <2>3, <3>1
      <4> QED
        BY <1>1, <2>3, <3>1, <4>1 DEF AlertsInv, ChecksAreLater
    <3>2. CASE i = Len(queue) + 1 /\ queue'[i] = op
      <4>1. \A j \in 1..i-1 : j \in DOMAIN queue
        BY <2>3, <3>2
      <4> QED
        BY <1>1, <1>3, <2>2, <2>3, <3>2, <4>1
    <3> QED
      BY <2>3, <3>1, <3>2
  <2> QED
    BY <1>4, <1>5, <1>6, <2>4, <2>5, <2>6 DEF AlertsInv
<1> QED
  BY <1>7, <1>8

\* A click asks for an operation of a known identity, behind the others.
LEMMA AskKeeps ==
    ASSUME AlertsInv, NEW kind \in {"enable", "disable"}, NEW p \in [who : Addresses, epoch : Nat],
           NEW hasToken \in BOOLEAN, OfItsEpoch(kind, p),
           Ask(kind, p.who, p.epoch, hasToken), prompts' \subseteq prompts,
           UNCHANGED <<browser, serverVars, onScreen, epoch, subscribed, works, stopped, strayed>>
    PROVE  AlertsInv'
<1> DEFINE op == Operation(kind, p.who, p.epoch, hasToken)
<1>1. /\ queue' = Append(queue, op)
      /\ UNCHANGED <<madeWith, sub, reportsKey, optIn, key, rows, onScreen, epoch, subscribed, works, stopped, strayed>>
  BY DEF Ask, browser, serverVars
<1>2. op \in Operations /\ op.kind = kind /\ op.kind # "reconcile" /\ op.who = p.who /\ op.epoch = p.epoch
  BY DEF Operation, Operations, Kinds
<1>3. queue \in Seq(Operations)
  BY DEF AlertsInv, AskedTyped
<1> HIDE DEF op
<1>4. /\ queue' \in Seq(Operations)
      /\ \A i \in DOMAIN queue' : \/ (i \in DOMAIN queue /\ queue'[i] = queue[i])
                                 \/ (i = Len(queue) + 1 /\ queue'[i] = op)
      /\ DOMAIN queue = 1..Len(queue) /\ Len(queue) \in Nat
  BY <1>1, <1>2, <1>3
<1>5. HeldTyped' /\ StoppedOut' /\ SubscribedIsReal'
  BY <1>1 DEF AlertsInv, HeldTyped, StoppedOut, SubscribedIsReal
<1>6. TurnKept' /\ Turns'
  BY <1>1, TurnUntouched
<1>7. AskedTyped'
  BY <1>1, <1>4 DEF AlertsInv, AskedTyped
<1>8. AllOfTheirEpoch'
  BY <1>1, <1>2, <1>4 DEF AlertsInv, AllOfTheirEpoch, OfItsEpoch
<1>9. ASSUME NEW i \in DOMAIN queue', queue'[i].kind = "reconcile"
      PROVE  /\ i \in DOMAIN queue /\ queue'[i] = queue[i]
             /\ \A j \in 1..i-1 : queue'[j] = queue[j]
  <2>1. i \in DOMAIN queue /\ queue'[i] = queue[i]
    BY <1>2, <1>4, <1>9
  <2>2. \A j \in 1..i-1 : queue'[j] = queue[j]
    BY <1>1, <1>2, <1>3, <1>4, <2>1
  <2> QED
    BY <2>1, <2>2
<1>10. ChecksAreLater'
  BY <1>1, <1>9 DEF AlertsInv, ChecksAreLater
<1>11. OldChecksWait'
  BY <1>1, <1>9 DEF AlertsInv, OldChecksWait
<1> QED
  BY <1>5, <1>6, <1>7, <1>8, <1>10, <1>11 DEF AlertsInv

LEMMA PromptKeeps ==
    ASSUME AlertsInv, ClickEnable \/ \E p \in prompts : Deny(p)
    PROVE  AlertsInv'
<1>1. UNCHANGED <<madeWith, sub, reportsKey, optIn, key, rows, onScreen, epoch, queue, subscribed, works, stopped, strayed>>
  BY DEF ClickEnable, Deny, browser, serverVars
<1>2. prompts' \subseteq prompts \cup {[who |-> onScreen, epoch |-> epoch]} /\ (onScreen = NoOne => prompts' \subseteq prompts)
  BY DEF ClickEnable, Deny
<1>3. AskedTyped'
  BY <1>1, <1>2 DEF AlertsInv, AskedTyped
<1>4. AllOfTheirEpoch'
  BY <1>1, <1>2 DEF AlertsInv, AskedTyped, AllOfTheirEpoch, OfItsEpoch
<1>5. HeldTyped' /\ StoppedOut' /\ SubscribedIsReal' /\ ChecksAreLater' /\ OldChecksWait'
  BY <1>1 DEF AlertsInv, HeldTyped, StoppedOut, SubscribedIsReal, ChecksAreLater, OldChecksWait
<1>6. TurnKept' /\ Turns'
  BY <1>1, TurnUntouched
<1> QED
  BY <1>3, <1>4, <1>5, <1>6 DEF AlertsInv

LEMMA ServerKeeps ==
    ASSUME AlertsInv, (\E a \in Addresses : Notify(a)) \/ (\E e \in sends : Answer(e)) \/ RotateKey
    PROVE  AlertsInv'
<1>1. UNCHANGED <<madeWith, sub, reportsKey, optIn, onScreen, epoch, prompts, queue, subscribed, works, stopped, strayed>>
  BY DEF Notify, Answer, RotateKey, browser, page
<1>2. key \in Nat /\ key' \in Nat /\ key <= key'
  BY DEF Notify, Answer, RotateKey, AlertsInv, HeldTyped
<1>3. rows' = rows \/ \E e : DeadStatus(e) /\ rows' = [rows EXCEPT ![e] = NoOne] /\ key' = key
  BY DEF Notify, Answer, RotateKey
<1>4. HeldTyped
  BY DEF AlertsInv
<1>5. /\ rows' \in Seq(Addresses \cup {NoOne}) /\ Len(rows') = Len(rows)
      /\ sub # NoSub => rows'[sub] \in {rows[sub], NoOne}
  <2>1. CASE rows' = rows
    BY <1>4, <2>1 DEF HeldTyped
  <2>2. ASSUME NEW e, rows' = [rows EXCEPT ![e] = NoOne]
        PROVE  /\ rows' \in Seq(Addresses \cup {NoOne}) /\ Len(rows') = Len(rows)
               /\ sub # NoSub => rows'[sub] \in {rows[sub], NoOne}
    <3> DEFINE Owners == Addresses \cup {NoOne}
    <3>1. rows \in Seq(Owners) /\ NoOne \in Owners /\ (sub # NoSub => sub \in DOMAIN rows)
      BY <1>4 DEF HeldTyped, NoSub
    <3> HIDE DEF Owners
    <3>2. CASE e \in 1..Len(rows)
      BY <2>2, <3>1, <3>2 DEF Owners
    <3>3. CASE e \notin DOMAIN rows
      <4>1. rows' = rows
        BY <2>2, <3>1, <3>3
      <4> QED
        BY <3>1, <4>1 DEF Owners
    <3> QED
      BY <3>1, <3>2, <3>3
  <2> QED
    BY <1>3, <2>1, <2>2
<1>6. HeldTyped'
  <2>1. \A e \in DOMAIN madeWith : madeWith[e] \in Nat
    BY <1>4 DEF HeldTyped
  <2> QED
    BY <1>1, <1>2, <1>5, <2>1, <1>4 DEF HeldTyped
<1>7. AskedTyped'
  <2>1. \A w \in works : w.key \in Nat
    BY DEF AlertsInv, AskedTyped, Works
  <2> QED
    BY <1>1, <1>2, <2>1 DEF AlertsInv, AskedTyped
<1>8. AllOfTheirEpoch' /\ ChecksAreLater' /\ OldChecksWait'
  BY <1>1 DEF AlertsInv, AllOfTheirEpoch, OfItsEpoch, ChecksAreLater, OldChecksWait
<1>9. TurnKept' /\ Turns'
  BY <1>1, TurnUntouched
<1>10. StoppedOut'
  BY <1>1, <1>5, PushAssumption DEF AlertsInv, StoppedOut
<1>11. SubscribedIsReal'
  <2> SUFFICES ASSUME ~strayed, subscribed, madeWith[sub] = key' PROVE sub # NoSub /\ rows'[sub] = onScreen
    BY <1>1 DEF AlertsInv, SubscribedIsReal
  <2>1. sub # NoSub /\ sub \in DOMAIN madeWith
    BY <1>4 DEF AlertsInv, SubscribedIsReal, HeldTyped, NoSub
  <2>2. madeWith[sub] = key
    <3>1. madeWith[sub] <= key /\ madeWith[sub] \in Nat
      BY <1>4, <2>1 DEF HeldTyped
    <3> QED
      BY <1>2, <3>1
  <2>3. rows[sub] = onScreen
    BY <2>2 DEF AlertsInv, SubscribedIsReal
  <2>4. ASSUME NEW e, DeadStatus(e), rows' = [rows EXCEPT ![e] = NoOne] PROVE rows'[sub] = rows[sub]
    <3>1. e # sub
      BY <2>2, <2>4 DEF DeadStatus, Alive
    <3> QED
      BY <2>4, <3>1, <2>1, <1>4 DEF HeldTyped
  <2>5. rows'[sub] = rows[sub]
    BY <1>3, <2>4
  <2> QED
    BY <2>1, <2>3, <2>5
<1> QED
  BY <1>6, <1>7, <1>8, <1>9, <1>10, <1>11 DEF AlertsInv

\* withTimeout rejects: the work is late, and the next one gets its turn.
LEMMA TimeoutKeeps ==
    ASSUME AlertsInv, NEW w \in works, Timeout(w)
    PROVE  AlertsInv'
<1>1. PICK n : n = [w EXCEPT !.late = TRUE]
  OBVIOUS
<1>2. works' = (works \ {w}) \cup {n}
  BY <1>1 DEF Timeout
<1>3. UNCHANGED <<madeWith, sub, reportsKey, optIn, key, rows, onScreen, epoch, prompts, queue, subscribed, stopped, strayed>>
  BY DEF Timeout, browser, serverVars, page
<1>4. n \in Works /\ n.op = w.op /\ n.at = w.at /\ n.key = w.key /\ n.alone = w.alone /\ n.late
  BY <1>1 DEF AlertsInv, AskedTyped, Works
<1>5. HeldTyped' /\ StoppedOut' /\ SubscribedIsReal' /\ OldChecksWait'
  BY <1>3 DEF AlertsInv, HeldTyped, StoppedOut, SubscribedIsReal, OldChecksWait
<1>6. AskedTyped'
  BY <1>2, <1>3, <1>4 DEF AlertsInv, AskedTyped
<1>7. AllOfTheirEpoch'
  BY <1>2, <1>3, <1>4 DEF AlertsInv, AllOfTheirEpoch, OfItsEpoch
<1>8. ChecksAreLater'
  BY <1>2, <1>3, <1>4 DEF AlertsInv, ChecksAreLater
<1>9. ~w.late
  BY DEF Timeout
<1>10. \A v \in works' : v.late
  BY <1>2, <1>4, <1>9 DEF AlertsInv, Turns
<1>11. Turns' /\ TurnKept'
  BY <1>10 DEF Turns, TurnKept
<1> QED
  BY <1>5, <1>6, <1>7, <1>8, <1>11 DEF AlertsInv

LEMMA RunKeeps ==
    ASSUME AlertsInv, Run
    PROVE  AlertsInv'
<1> DEFINE op == queue[1]
<1>1. /\ queue \in Seq(Operations) /\ queue # <<>> /\ MyTurn
      /\ Head(queue) = op /\ op \in Operations /\ 1 \in DOMAIN queue
  BY DEF AlertsInv, AskedTyped, Run
<1>2. /\ queue' = Tail(queue)
      /\ UNCHANGED <<madeWith, sub, reportsKey, key, rows, onScreen, epoch, prompts, strayed>>
      /\ stopped' = IF op.kind = "enable" THEN stopped \ {op.who} ELSE stopped
  BY <1>1 DEF Run, serverVars
<1>3. PICK n :
        /\ n.op = op /\ n.at = FirstStage(op.kind) /\ n.late = FALSE /\ n.key = 0 /\ n.sub = NoSub
        /\ n.stored \in BOOLEAN /\ n.alone \in BOOLEAN /\ (n.alone => op.kind = "reconcile" /\ works = {})
        /\ n = [op |-> n.op, at |-> n.at, sub |-> n.sub, key |-> n.key, stored |-> n.stored,
                alone |-> n.alone, late |-> n.late]
        /\ works' = works \cup {n}
        /\ IF op.kind = "disable" THEN StoreOptIn(optIn \ {op.who}, n.stored) /\ subscribed' = FALSE
                                  ELSE UNCHANGED <<optIn, subscribed>>
  <2>1. PICK st \in BOOLEAN :
          /\ IF op.kind = "disable" THEN StoreOptIn(optIn \ {op.who}, st) /\ subscribed' = FALSE
                                    ELSE UNCHANGED <<optIn, subscribed>>
          /\ works' = works \cup {[op |-> op, at |-> FirstStage(op.kind), sub |-> NoSub, key |-> 0, stored |-> st,
                                   alone |-> op.kind = "reconcile" /\ works = {}, late |-> FALSE]}
    BY <1>1 DEF Run
  <2> WITNESS [op |-> op, at |-> FirstStage(op.kind), sub |-> NoSub, key |-> 0, stored |-> st,
               alone |-> op.kind = "reconcile" /\ works = {}, late |-> FALSE]
  <2> HIDE DEF op
  <2> QED
    BY <2>1
<1>4. op.who \in Addresses /\ op.kind \in Kinds /\ op.epoch \in Nat
  BY <1>1 DEF Operations
<1>5. n \in Works /\ n.at \in PlacesOf(n.op.kind) /\ n.key <= key /\ (n.alone => n.op.kind = "reconcile")
  <2>1. FirstStage(op.kind) \in PlacesOf(op.kind) /\ FirstStage(op.kind) \in Places
    BY <1>4 DEF FirstStage, PlacesOf, Places, Kinds
  <2>2. n.alone \in BOOLEAN /\ n.key \in Nat /\ n.sub \in Nat /\ n.late \in BOOLEAN
    <3>1. n.key = 0 /\ n.sub = 0 /\ n.late = FALSE /\ n.alone \in BOOLEAN
      BY <1>3, Zenon DEF NoSub
    <3>2. n.key \in Nat /\ n.sub \in Nat
      BY <3>1
    <3>3. n.alone \in BOOLEAN /\ n.late \in BOOLEAN
      BY <3>1, Zenon
    <3> QED
      BY <3>2, <3>3
  <2>3. n \in Works
    <3> HIDE DEF op
    <3> QED
      BY <1>1, <1>3, <2>1, <2>2 DEF Works
  <2>4. key \in Nat
    BY DEF AlertsInv, HeldTyped
  <2> QED
    BY <1>3, <2>1, <2>3, <2>4
<1>6. /\ queue' \in Seq(Operations)
      /\ \A i \in DOMAIN queue' : i \in Nat \ {0} /\ i + 1 \in DOMAIN queue /\ queue'[i] = queue[i + 1]
  BY <1>1, <1>2
<1>7. OfItsEpoch(op.kind, op)
  BY <1>1 DEF AlertsInv, AllOfTheirEpoch
<1>8. /\ optIn' \subseteq optIn /\ stopped' \subseteq stopped /\ subscribed' \in BOOLEAN
      /\ subscribed' => subscribed
  <2>1. subscribed \in BOOLEAN
    BY DEF AlertsInv, HeldTyped
  <2> QED
    BY <1>2, <1>3, <2>1 DEF StoreOptIn
<1> HIDE DEF op
<1>9. HeldTyped' /\ StoppedOut' /\ SubscribedIsReal'
  BY <1>2, <1>8 DEF AlertsInv, HeldTyped, StoppedOut, SubscribedIsReal
<1>10. AskedTyped'
  BY <1>2, <1>3, <1>5, <1>6 DEF AlertsInv, AskedTyped
<1>11. AllOfTheirEpoch'
  BY <1>2, <1>3, <1>6, <1>7 DEF AlertsInv, AllOfTheirEpoch, OfItsEpoch
<1>12. ChecksAreLater'
  <2> SUFFICES ASSUME NEW i \in DOMAIN queue', queue'[i].kind = "reconcile"
               PROVE  /\ \A j \in 1..i-1 : queue'[j].epoch < queue'[i].epoch
                      /\ \A w \in works' : w.op.epoch < queue'[i].epoch
    BY DEF ChecksAreLater
  <2>1. i \in Nat \ {0} /\ i + 1 \in DOMAIN queue /\ queue'[i] = queue[i + 1]
    BY <1>6
  <2>2. /\ \A j \in 1..i : queue[j].epoch < queue[i + 1].epoch
        /\ \A w \in works : w.op.epoch < queue[i + 1].epoch
    BY <2>1 DEF AlertsInv, ChecksAreLater
  <2>3. \A j \in 1..i-1 : queue'[j] = queue[j + 1] /\ j + 1 \in 1..i
    <3>1. DOMAIN queue' = 1..Len(queue')
      BY <1>6
    <3> QED
      BY <1>6, <2>1, <3>1
  <2>4. op.epoch < queue[i + 1].epoch
    BY <2>1, <2>2 DEF op
  <2> QED
    BY <1>3, <2>1, <2>2, <2>3, <2>4
<1>13. OldChecksWait'
  BY <1>2, <1>6, <1>8 DEF AlertsInv, OldChecksWait
<1>14. \A w \in works : w.late
  BY <1>1 DEF MyTurn
<1>15. Turns'
  BY <1>3, <1>14 DEF Turns
<1>16. (MaySave(n) /\ HoldsIt(n) /\ ShowsOff(n))'
  <2>1. MaySave(n)'
    BY <1>2, <1>3 DEF MaySave, FirstStage
  <2>2. HoldsIt(n)'
    BY <1>3 DEF HoldsIt, FirstStage
  <2>3. ShowsOff(n)'
    <3>1. ASSUME op.kind = "disable" PROVE ~subscribed' /\ (n.stored => op.who \notin optIn')
      BY <1>3, <3>1 DEF StoreOptIn
    <3>2. ASSUME op.kind = "reconcile", op.epoch # epoch PROVE strayed \/ ~subscribed
      BY <1>1, <3>2 DEF AlertsInv, OldChecksWait, op
    <3> QED
      BY <1>2, <1>3, <1>8, <3>1, <3>2 DEF ShowsOff
  <2> QED
    BY <2>1, <2>2, <2>3
<1>17. TurnKept'
  BY <1>3, <1>14, <1>16 DEF TurnKept
<1> QED
  BY <1>9, <1>10, <1>11, <1>12, <1>13, <1>15, <1>17 DEF AlertsInv

LEMMA AlertsKept == AlertsInv /\ [PushNext]_pushVars => AlertsInv'
<1> SUFFICES ASSUME AlertsInv, [PushNext]_pushVars PROVE AlertsInv'
  OBVIOUS
<1>1. ASSUME NEW a \in Addresses \cup {NoOne}, Start(a) PROVE AlertsInv'
  BY <1>1, StartKeeps
<1>2. ASSUME ClickEnable \/ \E p \in prompts : Deny(p) PROVE AlertsInv'
  BY <1>2, PromptKeeps
<1>3. ASSUME NEW p \in prompts, Grant(p) PROVE AlertsInv'
  <2>1. p \in [who : Addresses, epoch : Nat] /\ OfItsEpoch("enable", p)
    BY DEF AlertsInv, AskedTyped, AllOfTheirEpoch
  <2>2. Ask("enable", p.who, p.epoch, TRUE) /\ prompts' \subseteq prompts
    BY <1>3 DEF Grant
  <2>3. UNCHANGED <<browser, serverVars, onScreen, epoch, subscribed, works, stopped, strayed>>
    BY <1>3 DEF Grant
  <2> QED
    BY <2>1, <2>2, <2>3, AskKeeps
<1>4. ASSUME NEW a \in Addresses, Disable(a) PROVE AlertsInv'
  <2>1. PICK p : p = [who |-> a, epoch |-> epoch]
    OBVIOUS
  <2>2. p \in [who : Addresses, epoch : Nat] /\ OfItsEpoch("disable", p) /\ p.who = a /\ p.epoch = epoch
    BY <2>1 DEF AlertsInv, AskedTyped, OfItsEpoch
  <2>3. Ask("disable", p.who, p.epoch, onScreen # NoOne) /\ prompts' \subseteq prompts
    BY <1>4, <2>2 DEF Disable
  <2>4. UNCHANGED <<browser, serverVars, onScreen, epoch, subscribed, works, stopped, strayed>>
    BY <1>4 DEF Disable
  <2>5. (onScreen # NoOne) \in BOOLEAN
    OBVIOUS
  <2> QED
    BY <2>2, <2>3, <2>4, <2>5, AskKeeps
<1>5. ASSUME Run PROVE AlertsInv'
  BY <1>5, RunKeeps
<1>6. ASSUME NEW w \in works, Timeout(w) \/ Step(w) PROVE AlertsInv'
  BY <1>6, TimeoutKeeps, StepKeepsAlerts
<1>7. ASSUME (\E a \in Addresses : Notify(a)) \/ (\E e \in sends : Answer(e)) \/ RotateKey PROVE AlertsInv'
  BY <1>7, ServerKeeps
<1>8. CASE UNCHANGED pushVars
  BY <1>8 DEF pushVars, browser, serverVars, page, AlertsInv, HeldTyped, AskedTyped, AllOfTheirEpoch, OfItsEpoch,
              ChecksAreLater, OldChecksWait, Turns, TurnKept, MaySave, HoldsIt, ShowsOff, StoppedOut, SubscribedIsReal
<1> QED
  BY <1>1, <1>2, <1>3, <1>4, <1>5, <1>6, <1>7, <1>8 DEF PushNext

THEOREM AlertsAreKept == PushSpec => []AlertsInv
BY AlertsInitially, AlertsKept, PTL DEF PushSpec

\* Who was told that its alerts have stopped is not woken through this browser
\* (unsubscribe), unless a work went on after its timeout.
THEOREM StoppedStaysStopped == PushSpec => []AlertsStopped
<1>1. AlertsInv => AlertsStopped
  <2> SUFFICES ASSUME AlertsInv, ~strayed, NEW e \in DOMAIN rows, rows[e] \in stopped PROVE ~Alive(e)
    BY DEF AlertsStopped
  <2>1. DOMAIN rows = 1..Len(rows)
    BY DEF AlertsInv, HeldTyped
  <2> QED
    BY <2>1 DEF AlertsInv, StoppedOut, Alive, NoSub
<1> QED
  BY <1>1, AlertsAreKept, PTL

\* "On" on screen means a subscription, and a row of who is on screen
\* (usePushSubscription).
THEOREM OnIsReal == PushSpec => []SubscribedIsReal
<1>1. AlertsInv => SubscribedIsReal
  BY DEF AlertsInv
<1> QED
  BY <1>1, AlertsAreKept, PTL
=============================================================================
