----------------------------- MODULE PushAlerts -----------------------------
(***************************************************************************)
(* Wake-ups of a closed browser: the push subscription a browser holds and *)
(* the opt-ins in its storage (usePushSubscription.ts), the server's rows  *)
(* and its sends (routes/push.ts, push.ts), and the push service, which    *)
(* knows the one live endpoint of the browser.                             *)
(*                                                                         *)
(*   madeWith         the VAPID key of each endpoint ever made             *)
(*   sub              the browser's subscription: its endpoint or NoSub    *)
(*   reportsKey       whether the browser tells a subscription's key       *)
(*   optIn            addresses with a stored opt-in                       *)
(*   key, rows        server: its VAPID key; the owner of each endpoint    *)
(*   sends            endpoints a wake-up is on its way to                 *)
(*   onScreen, epoch  the identity on screen; counts its changes           *)
(*   subscribed       what the page shows                                  *)
(*   prompts          permission prompts not answered yet                  *)
(*   queue            operations to run, one after the other               *)
(*   works            operations started: the one whose turn it is, and    *)
(*                    late ones, whose timeout rejected them while their   *)
(*                    work goes on                                         *)
(*   asked            counts operations                                    *)
(*   stopped          history: addresses that were told their alerts have  *)
(*                    stopped, and did not enable them again               *)
(*   strayed          history: a late work went on, an Enable went on      *)
(*                    after its identity had left the screen, or a second  *)
(*                    Enable undid the first, and no start-up check has    *)
(*                    set things right since                               *)
(*                                                                         *)
(* A request may fail before or after the server handled it.               *)
(***************************************************************************)
EXTENDS Integers, Sequences, FiniteSets

CONSTANTS
    Addresses,   \* identities used in this browser
    MaxKeys,     \* bound on VAPID keys of the server
    MaxSubs,     \* bound on subscriptions made
    MaxEpochs,   \* bound on changes of onScreen
    MaxAsked,    \* bound on operations
    MaxLate      \* bound on late works at a time

NoOne == "nobody"

ASSUME PushAssumption ==
    /\ NoOne \notin Addresses
    /\ MaxKeys \in Nat /\ MaxSubs \in Nat /\ MaxEpochs \in Nat /\ MaxAsked \in Nat /\ MaxLate \in Nat

VARIABLES madeWith, sub, reportsKey, optIn, key, rows, sends,
          onScreen, epoch, subscribed, prompts, queue, works, asked, stopped, strayed

browser    == <<madeWith, sub, reportsKey, optIn>>
serverVars == <<key, rows, sends>>
page       == <<onScreen, epoch, prompts, queue, asked>>
pushVars   == <<browser, serverVars, page, subscribed, works, stopped, strayed>>

NoSub == 0

PushInit ==
    /\ madeWith = <<>> /\ sub = NoSub /\ optIn = {}
    /\ reportsKey \in BOOLEAN
    /\ key = 1 /\ rows = <<>> /\ sends = {}
    /\ onScreen = NoOne /\ epoch = 0 /\ prompts = {}
    /\ queue = <<>> /\ asked = 0
    /\ subscribed = FALSE /\ works = {} /\ stopped = {} /\ strayed = FALSE

-----------------------------------------------------------------------------
(* The page: identities start, buttons are clicked *)

Operation(kind, a, e, hasToken) == [kind |-> kind, who |-> a, epoch |-> e, token |-> hasToken]

\* run: behind what was asked for before
Ask(kind, a, e, hasToken) ==
    /\ asked < MaxAsked /\ asked' = asked + 1
    /\ queue' = Append(queue, Operation(kind, a, e, hasToken))

\* The effect on token and address; a is NoOne while there is no session.
Start(a) ==
    /\ epoch < MaxEpochs /\ epoch' = epoch + 1
    /\ onScreen' = a /\ subscribed' = FALSE
    /\ IF a = NoOne THEN UNCHANGED <<queue, asked>> ELSE Ask("reconcile", a, epoch', TRUE)
    /\ UNCHANGED <<browser, serverVars, prompts, works, stopped, strayed>>

\* subscribe, by the switch; the permission is asked for before queueing.
ClickEnable ==
    /\ onScreen # NoOne /\ ~subscribed
    /\ prompts' = prompts \cup {[who |-> onScreen, epoch |-> epoch]}
    /\ UNCHANGED <<browser, serverVars, onScreen, epoch, queue, asked, subscribed, works, stopped, strayed>>

Grant(p) ==
    /\ prompts' = prompts \ {p}
    /\ Ask("enable", p.who, p.epoch, TRUE)
    /\ UNCHANGED <<browser, serverVars, onScreen, epoch, subscribed, works, stopped, strayed>>

Deny(p) ==
    /\ prompts' = prompts \ {p}
    /\ UNCHANGED <<browser, serverVars, onScreen, epoch, queue, asked, subscribed, works, stopped, strayed>>

\* unsubscribe: the button, the import of another identity, and Burn.  An
\* import that overtakes another may find an address without a session.
Disable(a) ==
    /\ onScreen \in {a, NoOne}
    /\ Ask("disable", a, epoch, onScreen # NoOne)
    /\ UNCHANGED <<browser, serverVars, onScreen, epoch, prompts, subscribed, works, stopped, strayed>>

-----------------------------------------------------------------------------
(* Running the operations *)

\* mutant: operations are not queued
AnyTime == TRUE

\* the previous operation is over or was rejected
MyTurn == \A w \in works : w.late

FirstStage(kind) == CASE kind = "reconcile" -> "look" [] kind = "enable" -> "key" [] OTHER -> "get"

\* A write to the storage may be lost (setOptedIn).
StoreOptIn(new, stored) == optIn' = IF stored THEN new ELSE optIn

\* The operation at the head starts; what it does before its first await.
Run ==
    /\ queue # <<>> /\ MyTurn
    /\ LET op == Head(queue) IN
        /\ queue' = Tail(queue)
        /\ \E stored \in BOOLEAN :
            /\ IF op.kind = "disable"
               THEN StoreOptIn(optIn \ {op.who}, stored) /\ subscribed' = FALSE
               ELSE stored /\ UNCHANGED <<optIn, subscribed>>
            /\ works' = works \cup {[op |-> op, at |-> FirstStage(op.kind), sub |-> NoSub,
                                     key |-> 0, stored |-> stored, alone |-> op.kind = "reconcile" /\ works = {}, late |-> FALSE]}
        /\ stopped' = IF op.kind = "enable" THEN stopped \ {op.who} ELSE stopped
    /\ UNCHANGED <<madeWith, sub, reportsKey, serverVars, onScreen, epoch, prompts, asked, strayed>>

\* withTimeout rejects; nothing aborts the work.
Timeout(w) ==
    /\ ~w.late /\ Cardinality({v \in works : v.late}) < MaxLate
    /\ works' = (works \ {w}) \cup {[w EXCEPT !.late = TRUE]}
    /\ UNCHANGED <<browser, serverVars, page, subscribed, stopped, strayed>>

\* A work goes on at another stage; is over; what the page shows then.
Goes(w, next) == works' = (works \ {w}) \cup {next}
Over(w) == works' = works \ {w}
Strays(w) == strayed' = (strayed \/ w.late \/ (w.op.kind = "enable" /\ w.op.epoch # epoch))
\* ... also if a second Enable takes away what the first one made
Undoes(w) == strayed' = (strayed \/ w.late \/ w.op.epoch # epoch \/ subscribed)
Shows(w, on) == subscribed' = IF w.late THEN subscribed ELSE on

\* A start-up check ends well; it sets things right if it ran by itself.
Ends(w, on) ==
    /\ Over(w)
    /\ IF w.op.epoch = epoch THEN Shows(w, on) ELSE UNCHANGED subscribed
    /\ strayed' = (w.late \/ (strayed /\ ~(w.alone /\ w.op.epoch = epoch)))

\* removeBrowserSubscription; PushSubscription.unsubscribe
Removes(e) == sub = e /\ sub' = NoSub
\* savePushSubscription and deletePushSubscription by its owner
Saved(e, a) == [rows EXCEPT ![e] = a]
Unsaved(e, a) == IF rows[e] = a THEN [rows EXCEPT ![e] = NoOne] ELSE rows

\* matchesKey
MatchesKey(e, k) == reportsKey => madeWith[e] = k

-----------------------------------------------------------------------------
(* reconcile *)

\* mutant: whatever the browser holds is uploaded
UploadAnyway(a) == TRUE

\* isOptedIn
IsOptedIn(a) == a \in optIn

Look(w) ==
    /\ w.op.kind = "reconcile" /\ w.at = "look"
    /\ IF sub = NoSub
       THEN Ends(w, FALSE)
       ELSE /\ Goes(w, [w EXCEPT !.sub = sub, !.at = IF IsOptedIn(w.op.who) THEN "key" ELSE "remove"])
            /\ Strays(w) /\ UNCHANGED subscribed
    /\ UNCHANGED <<browser, serverVars, page, stopped>>

JudgeKey(w) ==
    /\ w.op.kind = "reconcile" /\ w.at = "key"
    /\ Goes(w, [w EXCEPT !.at = IF MatchesKey(w.sub, key) THEN "upload" ELSE "remove"])
    /\ Strays(w)
    /\ UNCHANGED <<browser, serverVars, page, subscribed, stopped>>

RemoveLeftover(w) ==
    /\ w.op.kind = "reconcile" /\ w.at = "remove"
    /\ Removes(w.sub)
    /\ Ends(w, FALSE)
    /\ UNCHANGED <<madeWith, reportsKey, optIn, serverVars, page, stopped>>

UploadAgain(w) ==
    /\ w.op.kind = "reconcile" /\ w.at = "upload"
    /\ rows' = Saved(w.sub, w.op.who)
    /\ Ends(w, TRUE)
    /\ UNCHANGED <<browser, key, sends, page, stopped>>

-----------------------------------------------------------------------------
(* enable *)

FetchKey(w) ==
    /\ w.op.kind = "enable" /\ w.at = "key"
    /\ Goes(w, [w EXCEPT !.key = key, !.at = "get"])
    /\ Strays(w)
    /\ UNCHANGED <<browser, serverVars, page, subscribed, stopped>>

GetExisting(w) ==
    /\ w.op.kind = "enable" /\ w.at = "get"
    /\ Goes(w, IF sub # NoSub /\ ~MatchesKey(sub, w.key)
               THEN [w EXCEPT !.sub = sub, !.at = "remove"]
               ELSE [w EXCEPT !.at = "subscribe"])
    /\ Strays(w)
    /\ UNCHANGED <<browser, serverVars, page, subscribed, stopped>>

RemoveOther(w) ==
    /\ w.op.kind = "enable" /\ w.at = "remove"
    /\ Removes(w.sub)
    /\ Goes(w, [w EXCEPT !.at = "subscribe"])
    /\ Undoes(w)
    /\ UNCHANGED <<madeWith, reportsKey, optIn, serverVars, page, subscribed, stopped>>

\* PushManager.subscribe keeps a subscription made with the same key, and
\* fails for one made with another.
Subscribe(w) ==
    /\ w.op.kind = "enable" /\ w.at = "subscribe"
    /\ IF sub = NoSub
       THEN /\ Len(madeWith) < MaxSubs
            /\ madeWith' = Append(madeWith, w.key) /\ rows' = Append(rows, NoOne)
            /\ sub' = Len(madeWith')
       ELSE madeWith[sub] = w.key /\ UNCHANGED <<madeWith, rows, sub>>
    /\ Goes(w, [w EXCEPT !.sub = sub', !.at = "upload"])
    /\ Strays(w)
    /\ UNCHANGED <<reportsKey, optIn, key, sends, page, subscribed, stopped>>

Upload(w) ==
    /\ w.op.kind = "enable" /\ w.at = "upload"
    /\ rows' = Saved(w.sub, w.op.who)
    /\ Over(w) /\ Shows(w, TRUE) /\ Strays(w)
    /\ \E stored \in BOOLEAN : StoreOptIn(optIn \cup {w.op.who}, stored /\ ~w.late)
    /\ UNCHANGED <<madeWith, sub, reportsKey, key, sends, page, stopped>>

\* subscribePush throws, whether or not the row was saved.
FailUpload(w) ==
    /\ w.op.kind = "enable" /\ w.at = "upload"
    /\ rows' \in {rows, Saved(w.sub, w.op.who)}
    /\ Goes(w, [w EXCEPT !.at = "drop"])
    /\ Strays(w)
    /\ UNCHANGED <<browser, key, sends, page, subscribed, stopped>>

Drop(w) ==
    /\ w.op.kind = "enable" /\ w.at = "drop"
    /\ Removes(w.sub)
    /\ Over(w) /\ Undoes(w)
    /\ UNCHANGED <<madeWith, reportsKey, optIn, serverVars, page, subscribed, stopped>>

-----------------------------------------------------------------------------
(* unsubscribe *)

\* It resolves true; what counts is that the opt-out was stored.
Stops(w) == stopped' = IF w.stored /\ ~w.late THEN stopped \cup {w.op.who} ELSE stopped

GetSubscription(w) ==
    /\ w.op.kind = "disable" /\ w.at = "get"
    /\ IF sub = NoSub
       THEN Over(w) /\ Stops(w)
       ELSE /\ Goes(w, [w EXCEPT !.sub = sub, !.at = IF w.op.token THEN "delete" ELSE "remove"])
            /\ UNCHANGED stopped
    /\ Strays(w)
    /\ UNCHANGED <<browser, serverVars, page, subscribed>>

\* unsubscribePush, whose failure is ignored
DeleteRow(w) ==
    /\ w.op.kind = "disable" /\ w.at = "delete"
    /\ rows' \in {rows, Unsaved(w.sub, w.op.who)}
    /\ Goes(w, [w EXCEPT !.at = "remove"])
    /\ Strays(w)
    /\ UNCHANGED <<browser, key, sends, page, subscribed, stopped>>

RemoveSubscription(w) ==
    /\ w.op.kind = "disable" /\ w.at = "remove"
    /\ Removes(w.sub)
    /\ Over(w) /\ Stops(w) /\ Strays(w)
    /\ UNCHANGED <<madeWith, reportsKey, optIn, serverVars, page, subscribed>>

\* Any await throws, but for those whose failure is handled above.
Fail(w) ==
    /\ ~(w.op.kind = "enable" /\ w.at = "upload") /\ w.at # "delete"
    /\ rows' \in IF w.at = "upload" THEN {rows, Saved(w.sub, w.op.who)} ELSE {rows}
    /\ Over(w) /\ Strays(w)
    /\ UNCHANGED <<browser, key, sends, page, subscribed, stopped>>

Step(w) ==
    \/ Look(w) \/ JudgeKey(w) \/ RemoveLeftover(w) \/ UploadAgain(w)
    \/ FetchKey(w) \/ GetExisting(w) \/ RemoveOther(w) \/ Subscribe(w)
    \/ Upload(w) \/ FailUpload(w) \/ Drop(w)
    \/ GetSubscription(w) \/ DeleteRow(w) \/ RemoveSubscription(w)
    \/ Fail(w)

-----------------------------------------------------------------------------
(* The server's sends and the push service *)

\* The push service delivers to it.
Alive(e) == e = sub /\ madeWith[e] = key

\* pushNotify of an address nobody is looking at; one at a time
Notify(a) ==
    /\ sends = {}
    /\ sends' = sends \cup {e \in DOMAIN rows : rows[e] = a}
    /\ UNCHANGED <<browser, key, rows, page, subscribed, works, stopped, strayed>>

\* 401, 403, 404 or 410
DeadStatus(e) == ~Alive(e)

\* The answer of the push service; a failure of another kind changes nothing.
Answer(e) ==
    /\ sends' = sends \ {e}
    /\ rows' \in {rows} \cup (IF DeadStatus(e) THEN {[rows EXCEPT ![e] = NoOne]} ELSE {})
    /\ UNCHANGED <<browser, key, page, subscribed, works, stopped, strayed>>

\* The server restarts with other VAPID keys.
RotateKey ==
    /\ key < MaxKeys /\ key' = key + 1
    /\ sends' = {}
    /\ UNCHANGED <<browser, rows, page, subscribed, works, stopped, strayed>>

PushNext ==
    \/ \E a \in Addresses \cup {NoOne} : Start(a)
    \/ ClickEnable
    \/ \E p \in prompts : Grant(p) \/ Deny(p)
    \/ \E a \in Addresses : Disable(a)
    \/ Run
    \/ \E w \in works : Timeout(w) \/ Step(w)
    \/ \E a \in Addresses : Notify(a)
    \/ \E e \in sends : Answer(e)
    \/ RotateKey

PushSpec == PushInit /\ [][PushNext]_pushVars

-----------------------------------------------------------------------------

\* An identity that was told its alerts have stopped (unsubscribe resolved
\* true) is not woken through this browser until it enables them again: not
\* through a subscription left over by another identity, not through a failed
\* request, not by an Enable that was running.  A late work may break this; the
\* next start-up check that ends well sets it right (the rule at
\* usePushSubscription.ts:6-11).
AlertsStopped ==
    ~strayed => \A e \in DOMAIN rows : rows[e] \in stopped => ~Alive(e)

\* "On" on screen is true: the browser holds a subscription, and the server
\* sends this identity's wake-ups to it, unless the server's key is another
\* now.  The start-up check does not remove what an Enable click creates.
SubscribedIsReal ==
    ~strayed /\ subscribed =>
        /\ sub # NoSub
        /\ madeWith[sub] = key => rows[sub] = onScreen
=============================================================================
