--------------------------- MODULE BrowserIdentity ---------------------------
(***************************************************************************)
(* Who a browser tab is: the key and session in its localStorage           *)
(* (keypair-storage.ts, session.ts), the state of useIdentity, useSession  *)
(* and App, and the three things that change them across awaits: logging   *)
(* in, importing another key (identity-transition.ts), and burning the     *)
(* identity (useIdentity's logout).  The server is who is registered and   *)
(* which sessions are live.                                                *)
(*                                                                         *)
(*   registered, owner, dead   server: registrations; whose each token is; *)
(*                             tokens that are no session any more         *)
(*   storedKey, stored         localStorage: the key; the session          *)
(*   identity, isRegistered    state of useIdentity                        *)
(*   token, loading, error     state of useSession                         *)
(*   transitioning             state of App                                *)
(*   effectDue     the identity changed and useSession's effect is to run  *)
(*   preparing     the first prepareIdentity after the page loaded         *)
(*   logins        logins in flight, current while sessionEpoch is theirs  *)
(*   imports       identity transitions in flight                          *)
(*   burns         the logouts in flight, one for each click on Burn       *)
(*   requests      tokens of other requests in flight                      *)
(*   wanted        the key of the latest import                            *)
(*   failures, changes         count what is bounded                       *)
(*                                                                         *)
(* One tab: a second one would write the same localStorage.                *)
(***************************************************************************)
EXTENDS Integers, Sequences

CONSTANTS
    Keys,         \* identities: the first, those to import, those generated
    Generated,    \* ... of which generateKeypair makes these
    first,        \* the key found in storage
    MaxTokens,    \* bound on sessions created
    MaxFailures,  \* bound on failed requests
    MaxChanges    \* bound on imports, burns and expired sessions

ASSUME IdentityAssumption ==
    /\ first \in Keys \ Generated /\ Generated \subseteq Keys
    /\ MaxTokens \in Nat /\ MaxFailures \in Nat /\ MaxChanges \in Nat

VARIABLES registered, owner, dead, storedKey, stored, identity, isRegistered, token, loading, error,
          transitioning, effectDue, preparing, logins, imports, burns, requests, wanted, failures, changes

server  == <<registered, owner, dead>>
who     == <<storedKey, identity, isRegistered, effectDue>>
session == <<stored, token, loading, error, logins>>
tasks   == <<preparing, imports, burns, transitioning, requests, wanted>>
bounds  == <<failures, changes>>
vars    == <<server, who, session, tasks, bounds>>

NoToken == 0
Nobody == "nobody"
NoSession == [key |-> Nobody, token |-> NoToken]

\* The page loads with a key, whose registration is unknown, and perhaps with
\* a session that may be over.
Init ==
    /\ registered \in SUBSET {first}
    /\ \/ owner = <<>> /\ dead = {} /\ stored = NoSession
       \/ owner = <<first>> /\ dead \in SUBSET {1} /\ stored = [key |-> first, token |-> 1]
    /\ storedKey = first
    /\ identity = first /\ isRegistered = FALSE /\ effectDue = TRUE
    /\ token = NoToken /\ loading = FALSE /\ error = FALSE
    /\ transitioning = FALSE /\ preparing = TRUE
    /\ logins = {} /\ imports = {} /\ burns = {}
    /\ requests = {} /\ wanted = first
    /\ failures = 0 /\ changes = 0

Live(t) == t \in DOMAIN owner /\ t \notin dead
Fails == failures < MaxFailures /\ failures' = failures + 1
Succeeds == UNCHANGED failures
Change == changes < MaxChanges /\ changes' = changes + 1

\* createSession of the server, the end of a login.
NewToken == Len(owner) + 1
Login(k) == NewToken <= MaxTokens /\ owner' = Append(owner, k)

\* sessionEpoch++
Outdated == {[l EXCEPT !.current = FALSE] : l \in logins}

\* logout of useSession, called clearSession by the transition.
ClearSession ==
    /\ logins' = Outdated
    /\ stored' = NoSession /\ token' = NoToken /\ error' = FALSE /\ loading' = FALSE

-----------------------------------------------------------------------------
(* useSession *)

\* The effect on identity.address; getToken forgets a session of another.
IdentityEffect ==
    /\ effectDue
    /\ effectDue' = FALSE
    /\ logins' = Outdated
    /\ IF stored.key = identity
       THEN token' = stored.token /\ UNCHANGED stored
       ELSE token' = NoToken /\ stored' = NoSession
    /\ error' = FALSE
    /\ UNCHANGED <<server, storedKey, identity, isRegistered, loading, tasks, bounds>>

\* login, called by App's effect, also after a failure, or by the Retry button.
StartLogin ==
    /\ token = NoToken /\ ~loading /\ ~transitioning /\ ~effectDue
    /\ isRegistered
    /\ loading' = TRUE /\ error' = FALSE
    /\ logins' = logins \cup {[key |-> identity, current |-> TRUE]}
    /\ UNCHANGED <<server, who, stored, token, tasks, bounds>>

\* mutant: the epoch is not compared
AlwaysCurrent(l) == TRUE

\* epoch === sessionEpoch.current
Current(l) == l.current

FinishLogin(l) ==
    /\ Login(l.key)
    /\ logins' = logins \ {l}
    /\ IF Current(l)
       THEN /\ stored' = [key |-> l.key, token |-> NewToken] /\ token' = NewToken
            /\ error' = FALSE /\ loading' = FALSE
       ELSE UNCHANGED <<stored, token, error, loading>>
    /\ UNCHANGED <<registered, dead, who, tasks, bounds>>

FailLogin(l) ==
    /\ Fails
    /\ logins' = logins \ {l}
    /\ IF Current(l) THEN error' = TRUE /\ loading' = FALSE ELSE UNCHANGED <<error, loading>>
    /\ UNCHANGED <<server, who, stored, token, tasks, changes>>

-----------------------------------------------------------------------------
(* Requests made with a session, and its end *)

StartRequest ==
    /\ token # NoToken
    /\ requests' = requests \cup {token}
    /\ UNCHANGED <<server, who, session, preparing, imports, burns, transitioning, wanted, bounds>>

\* The session expires, or is revoked elsewhere.
Expire(t) ==
    /\ Live(t) /\ Change
    /\ dead' = dead \cup {t}
    /\ UNCHANGED <<registered, owner, who, session, tasks, failures>>

\* mutant: any 401 ends the session
MatchesAny(t) == stored # NoSession

\* clearTokenIfMatches
Matches(t) == stored.token = t

\* The answer; onError of api.ts and App's auth:expired listener on a 401.
FinishRequest(t) ==
    /\ requests' = requests \ {t}
    /\ IF ~Live(t) /\ Matches(t) THEN ClearSession ELSE UNCHANGED session
    /\ UNCHANGED <<server, who, preparing, imports, burns, transitioning, wanted, bounds>>

-----------------------------------------------------------------------------
(* useIdentity's init *)

\* prepareIdentity: registers k unless it is.
Prepare(k) == registered' = registered \cup {k} /\ UNCHANGED <<owner, dead>>

FinishInit ==
    /\ preparing /\ preparing' = FALSE
    /\ \/ Prepare(first) /\ Succeeds /\ isRegistered' = TRUE
       \/ Fails /\ isRegistered' = FALSE /\ UNCHANGED server
    /\ UNCHANGED <<storedKey, identity, effectDue, session, imports, burns, transitioning, requests, wanted, changes>>

-----------------------------------------------------------------------------
(* createIdentityTransition *)

\* Settings are only shown to a session, once init is over.  The transition
\* itself may be called again at any of its awaits.
Import(k) ==
    /\ (token # NoToken /\ ~preparing) \/ transitioning
    /\ Change
    /\ imports' = {[i EXCEPT !.latest = FALSE] : i \in imports}
                    \cup {[key |-> k, stage |-> "push", revoke |-> NoToken, latest |-> TRUE]}
    /\ wanted' = k
    /\ transitioning' = TRUE
    /\ UNCHANGED <<server, who, session, preparing, burns, requests, failures>>

Proceed(i, to) == imports' = (imports \ {i}) \cup {to}
Leave(i) == imports' = imports \ {i}

\* unsubscribePush is over, well or badly; revokeSession takes the token of now.
AfterPush(i) ==
    /\ i.stage = "push"
    /\ IF i.latest THEN Proceed(i, [i EXCEPT !.stage = "revoke", !.revoke = token]) ELSE Leave(i)
    /\ UNCHANGED <<server, who, session, preparing, burns, transitioning, requests, wanted, bounds>>

\* revokeSession is over, well or badly.
AfterRevoke(i) ==
    /\ i.stage = "revoke"
    /\ \/ dead' = dead \cup ({i.revoke} \ {NoToken}) /\ Succeeds
       \/ dead' = dead /\ Fails
    /\ IF i.latest
       THEN Proceed(i, [i EXCEPT !.stage = "prepare"]) /\ ClearSession
       ELSE Leave(i) /\ UNCHANGED session
    /\ UNCHANGED <<registered, owner, who, preparing, burns, transitioning, requests, wanted, changes>>

AfterPrepare(i) ==
    /\ i.stage = "prepare"
    /\ Prepare(i.key)
    /\ IF i.latest THEN Proceed(i, [i EXCEPT !.stage = "login"]) ELSE Leave(i)
    /\ UNCHANGED <<who, session, preparing, burns, transitioning, requests, wanted, bounds>>

\* mutant: the latest attempt is not asked for after the login
CommitAny(i) == TRUE

\* attempt === latestAttempt after the login
MayCommit(i) == i.latest

\* commitIdentity and commitSession, after the second clearSession.
Commit(i) ==
    /\ i.stage = "login"
    /\ Login(i.key)
    /\ Leave(i)
    /\ IF MayCommit(i)
       THEN /\ storedKey' = i.key /\ identity' = i.key /\ isRegistered' = TRUE
            /\ effectDue' = (effectDue \/ identity # i.key)
            /\ logins' = Outdated
            /\ stored' = [key |-> i.key, token |-> NewToken] /\ token' = NewToken
            /\ error' = FALSE /\ loading' = FALSE
       ELSE UNCHANGED <<who, session>>
    /\ transitioning' = (transitioning /\ ~i.latest)
    /\ UNCHANGED <<registered, dead, preparing, burns, requests, wanted, bounds>>

\* mutant: any failed transition clears the session
ClearsAnyway(i) == TRUE

\* attempt === latestAttempt in the catch of a transition
ClearsSession(i) == i.latest

\* mutant: a failed transition leaves the page switching
StillSwitching(i) == transitioning

\* The finally of a transition.
SwitchingAfter(i) == transitioning /\ ~i.latest

\* prepareIdentity or createSession throws: the old identity stays.
FailImport(i) ==
    /\ i.stage \in {"prepare", "login"}
    /\ Fails
    /\ Leave(i)
    /\ IF ClearsSession(i) THEN ClearSession ELSE UNCHANGED session
    /\ transitioning' = SwitchingAfter(i)
    /\ UNCHANGED <<server, who, preparing, burns, requests, wanted, changes>>

-----------------------------------------------------------------------------
(* logout of useIdentity: Burn *)

\* Settings, and with them the button, stay as they are while a burn is under
\* way: it may be clicked again, before or after the new identity is there.
MayBurn == token # NoToken /\ ~preparing /\ ~transitioning /\ ~effectDue

\* generateKeypair makes a key of which there is no trace yet.
Fresh(g) ==
    /\ g # identity /\ g \notin registered
    /\ \A t \in DOMAIN owner : owner[t] # g
    /\ \A l \in logins : l.key # g
    /\ \A b \in burns : b.key # g

\* The click, with a session in storage for the identity on screen.
Burn ==
    /\ MayBurn /\ stored.key = identity
    /\ Change
    /\ burns' = burns \cup {[click |-> changes', stage |-> "address", key |-> identity, token |-> stored.token]}
    /\ UNCHANGED <<server, who, session, preparing, imports, transitioning, requests, wanted, failures>>

\* handleDeleteAddress, if the session is live and the request arrives.  Its
\* 401 clears the storage, but is no auth:expired event.
BurnAddress(b) ==
    /\ b.stage = "address"
    /\ burns' = (burns \ {b}) \cup {[b EXCEPT !.stage = "session"]}
    /\ \/ /\ Live(b.token)
          /\ registered' = registered \ {b.key}
          /\ dead' = dead \cup {t \in DOMAIN owner : owner[t] = b.key}
          /\ Succeeds /\ UNCHANGED stored
       \/ /\ Live(b.token)
          /\ Fails /\ UNCHANGED <<registered, dead, stored>>
       \/ /\ ~Live(b.token)
          /\ stored' = IF Matches(b.token) THEN NoSession ELSE stored
          /\ Succeeds /\ UNCHANGED <<registered, dead>>
    /\ UNCHANGED <<owner, who, token, loading, error, logins, preparing, imports, transitioning,
                   requests, wanted, changes>>

\* The local part, up to the next await, whoever is on screen by now.
Replace(done, click, g) ==
    /\ Fresh(g)
    /\ storedKey' = g /\ stored' = NoSession
    /\ identity' = g /\ isRegistered' = FALSE /\ effectDue' = TRUE
    /\ burns' = (burns \ done) \cup {[click |-> click, stage |-> "prepare", key |-> g, token |-> NoToken]}
    /\ UNCHANGED <<registered, owner, token, loading, error, logins,
                   preparing, imports, transitioning, requests, wanted>>

\* deleteSession is over.
BurnLocally(b, g) ==
    /\ b.stage = "session"
    /\ \/ dead' = dead \cup {b.token} /\ Succeeds
       \/ dead' = dead /\ Fails
    /\ Replace({b}, b.click, g)
    /\ UNCHANGED changes

\* The click without a session in storage: the server is not told.
BurnAtOnce(g) ==
    /\ MayBurn /\ stored.key # identity
    /\ Change
    /\ Replace({}, changes', g)
    /\ UNCHANGED <<dead, failures>>

BurnPrepare(b) ==
    /\ b.stage = "prepare"
    /\ burns' = burns \ {b}
    /\ \/ Prepare(b.key) /\ Succeeds /\ isRegistered' = TRUE
       \/ Fails /\ UNCHANGED <<server, isRegistered>>
    /\ UNCHANGED <<storedKey, identity, effectDue, session, preparing, imports, transitioning,
                   requests, wanted, changes>>

-----------------------------------------------------------------------------

ImportSteps(i) == AfterPush(i) \/ AfterRevoke(i) \/ AfterPrepare(i) \/ Commit(i) \/ FailImport(i)

Next ==
    \/ IdentityEffect
    \/ StartLogin
    \/ \E l \in logins : FinishLogin(l) \/ FailLogin(l)
    \/ StartRequest
    \/ \E t \in DOMAIN owner : Expire(t)
    \/ \E t \in requests : FinishRequest(t)
    \/ FinishInit
    \/ \E k \in Keys \ Generated : Import(k)
    \/ \E i \in imports : ImportSteps(i)
    \/ Burn
    \/ \E b \in burns : BurnAddress(b) \/ BurnPrepare(b)
    \/ \E b \in burns, g \in Generated : BurnLocally(b, g)
    \/ \E g \in Generated : BurnAtOnce(g)

\* Effects run and requests are answered or fail.  A request that finds out
\* about a dead session comes by itself: the attention heartbeat is one.
Fairness ==
    /\ WF_vars(IdentityEffect) /\ WF_vars(StartLogin)
    /\ WF_vars(\E l \in logins : FinishLogin(l) \/ FailLogin(l))
    /\ WF_vars(StartRequest) /\ WF_vars(\E t \in requests : t = token /\ FinishRequest(t))
    /\ WF_vars(FinishInit) /\ WF_vars(\E i \in imports : ImportSteps(i))
    /\ WF_vars(\E b \in burns : BurnAddress(b) \/ BurnPrepare(b) \/ \E g \in Generated : BurnLocally(b, g))

Spec == Init /\ [][Next]_vars /\ Fairness

-----------------------------------------------------------------------------

\* The session in use is one of the identity on screen, and the stored one is
\* the same: a login of an earlier identity, an answer 401 of an earlier
\* session and overlapping imports leave no other (sessionEpoch of useSession
\* and clearTokenIfMatches of session.ts).
SessionIsOwn ==
    ~effectDue /\ token # NoToken =>
        /\ owner[token] = identity
        /\ \/ stored = [key |-> identity, token |-> token]
           \/ stored = NoSession /\ \E b \in burns : b.stage = "session"

\* An imported key appears on screen only if it is that of the latest import,
\* in whatever order the steps of several come to an end (latestAttempt of
\* createIdentityTransition).
LatestImportWins == [][identity' # identity => identity' \in {wanted} \cup Generated]_vars

\* A live session of the identity on screen is given up only by a step of the
\* latest import: a late 401 of another session does not sign the user out
\* (clearTokenIfMatches, session.ts:38), nor does a burn, a login, or an import
\* that was overtaken and fails when the newer one is in use already
\* (identity-transition.ts:47).
LiveSessionKept ==
    [][token # NoToken /\ Live(token) /\ owner[token] = identity /\ token' = NoToken
          => token \in dead' \/ \E i \in imports \ imports' : i.latest]_vars

\* A login was left behind by an identity change without resetting `loading`:
\* no effect will log in again.
Forgotten == loading /\ \A l \in logins : ~l.current

\* A registered identity gets its session, whatever fails or expires on the
\* way, but for the exception above (App's effect, FailImport's reset).
SignsIn == isRegistered ~> (token # NoToken \/ ~isRegistered \/ Forgotten)
=============================================================================
