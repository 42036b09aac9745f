------------------------------- MODULE SignIn -------------------------------
(***************************************************************************)
(* The routes that end in a session (routes/auth.ts) or a registration     *)
(* (routes/register.ts), on top of their two challenge stores.  Both take  *)
(* a challenge out of the store, wait for the signature check, and only    *)
(* then write: requests with the same challenge interleave.                *)
(*                                                                         *)
(*   entries, subjectToNonce, issued, granted     authStore                *)
(*   regEntries, regSubjects, regIssued, regGranted   regStore             *)
(*   signed     challenges their identity has signed                       *)
(*   verifying  requests that wait for verifySig                           *)
(*   sessions   sessions ever created                                      *)
(*   keys       registrations ever written                                 *)
(*                                                                         *)
(* An identity has one public key (normalizeAddressBoundPubkey refuses any *)
(* other), so the subject of a registration is its address, too.           *)
(***************************************************************************)
EXTENDS ChallengeStore

CONSTANTS MaxRegIssued,  \* MaxIssued of regStore
          MaxVerifying,  \* bound on the requests that wait
          MaxGranted     \* bound on sessions and on registrations

ASSUME SignInAssumption == MaxRegIssued \in Nat

VARIABLES regEntries, regSubjects, regIssued, regGranted, signed, verifying, sessions, keys

regVars  == <<regEntries, regSubjects, regIssued, regGranted>>
authVars == <<entries, subjectToNonce, issued, granted>>
signVars == <<signed, verifying, sessions, keys>>
allVars  == <<vars, regVars, signVars>>

Reg == INSTANCE ChallengeStore WITH
    entries <- regEntries, subjectToNonce <- regSubjects, issued <- regIssued, granted <- regGranted,
    MaxIssued <- MaxRegIssued

\* What a challenge says and what its signature covers.
Text(store, e) == [store |-> store, nonce |-> e.nonce, address |-> e.subject, origin |-> e.origin]

SignInInit ==
    /\ Init
    /\ Reg!Init
    /\ signed = {} /\ verifying = {} /\ sessions = {} /\ keys = {}

\* handleAuthChallenge from the parsed body on.
HandleAuthChallenge(a, o) == Issue(a, o) /\ UNCHANGED <<regVars, signVars>>

\* handleRegisterChallenge from the parsed body on.
HandleRegisterChallenge(a, o) == Reg!Issue(a, o) /\ UNCHANGED <<authVars, signVars>>

\* The identity signs a challenge it asked for, for the page it is on.
Sign(text) ==
    /\ text \notin signed
    /\ signed' = signed \cup {text}
    /\ UNCHANGED <<vars, regVars, verifying, sessions, keys>>

\* A signature is good for the text it was made for, and anybody can send a
\* bad one.
Await(text, valid) ==
    /\ Cardinality(verifying) < MaxVerifying
    /\ valid => text \in signed
    /\ verifying' = verifying \cup {[text |-> text, valid |-> valid]}
    /\ UNCHANGED <<signed, sessions, keys>>

\* handleAuthSession up to the await of verifySig.
HandleAuthSession(e, a, o, valid) ==
    /\ Consume(e, a, o)
    /\ Await([store |-> "session", nonce |-> e.nonce, address |-> a, origin |-> o], valid)
    /\ UNCHANGED regVars

\* handleRegister up to the await of verifySig.
HandleRegister(e, a, o, valid) ==
    /\ Reg!Consume(e, a, o)
    /\ Await([store |-> "registration", nonce |-> e.nonce, address |-> a, origin |-> o], valid)
    /\ UNCHANGED authVars

\* consume of an expired challenge by one of the two.
HandleExpired ==
    \/ \E e \in entries : ConsumeExpired(e) /\ UNCHANGED <<regVars, signVars>>
    \/ \E e \in regEntries : Reg!ConsumeExpired(e) /\ UNCHANGED <<authVars, signVars>>

Accepted(request) == request.valid

\* createSession and the response of handleAuthSession.
FinishSession(request) ==
    /\ request.text.store = "session" /\ Accepted(request)
    /\ Cardinality(sessions) < MaxGranted
    /\ sessions' = sessions \cup {[token |-> Cardinality(sessions) + 1, text |-> request.text]}
    /\ verifying' = verifying \ {request}
    /\ UNCHANGED <<vars, regVars, signed, keys>>

\* registerPubkey and the response of handleRegister.
FinishRegister(request) ==
    /\ request.text.store = "registration" /\ Accepted(request)
    /\ Cardinality(keys) < MaxGranted
    /\ keys' = keys \cup {[write |-> Cardinality(keys) + 1, text |-> request.text]}
    /\ verifying' = verifying \ {request}
    /\ UNCHANGED <<vars, regVars, signed, sessions>>

\* 401, the challenge is spent all the same.
Refuse(request) ==
    /\ ~Accepted(request)
    /\ verifying' = verifying \ {request}
    /\ UNCHANGED <<vars, regVars, signed, sessions, keys>>

\* The 60-second timer cleans up both stores.
CleanupBoth ==
    /\ Cleanup /\ Reg!Forget({e \in regEntries : Reg!Expired(e)})
    /\ UNCHANGED <<regIssued, regGranted, signVars>>

RestartBoth ==
    /\ Restart
    /\ regEntries' = {} /\ regSubjects' = [s \in Subjects |-> NoNonce]
    /\ verifying' = {}
    /\ UNCHANGED <<regIssued, regGranted, signed, sessions, keys>>

Pass == Tick /\ UNCHANGED <<regVars, signVars>>

SignInNext ==
    \/ \E a \in Subjects, o \in Origins : HandleAuthChallenge(a, o) \/ HandleRegisterChallenge(a, o)
    \/ \E e \in entries : Sign(Text("session", e))
    \/ \E e \in regEntries : Sign(Text("registration", e))
    \/ \E e \in entries, a \in Subjects, o \in Origins, valid \in BOOLEAN : HandleAuthSession(e, a, o, valid)
    \/ \E e \in regEntries, a \in Subjects, o \in Origins, valid \in BOOLEAN : HandleRegister(e, a, o, valid)
    \/ HandleExpired
    \/ \E request \in verifying : FinishSession(request) \/ FinishRegister(request) \/ Refuse(request)
    \/ CleanupBoth
    \/ RestartBoth
    \/ Pass

SignInSpec == SignInInit /\ [][SignInNext]_allVars

-----------------------------------------------------------------------------

\* Every session and every registration answers to a signature its identity
\* made, over a challenge of that store, of that address and of the origin of
\* the request, and no signature opens two: two requests with one signature
\* may wait for verifySig at the same time (handleAuthSession,
\* handleRegister).
GrantsAreEarned ==
    /\ \A s \in sessions : s.text \in signed /\ s.text.store = "session"
    /\ \A k \in keys : k.text \in signed /\ k.text.store = "registration"
    /\ \A s, t \in sessions \cup {[token |-> k.write, text |-> k.text] : k \in keys} :
          s.text = t.text => s = t
=============================================================================
