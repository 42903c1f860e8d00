-------------------------- MODULE SessionLifecycle --------------------------
(***************************************************************************)
(* How WhatsappService keeps one WhatsApp Web session alive: the startup,  *)
(* login and recovery starts of the browser, the events the library raises *)
(* from the page, the heartbeat, the ready watchdog, the settle delay, and *)
(* the login and logout a caller may ask for.                              *)
(*                                                                         *)
(* One action is the code between two awaits. The browser with its page is *)
(* one variable: client.initialize() first launches it, then injects into  *)
(* it; client.destroy() closes it, which rejects what was injecting but    *)
(* not what was still launching. An initialize that timed out is over.     *)
(* Heartbeat and watchdog are configured (their intervals are not 0).      *)
(* Login and logout run one at a time: one that is queued starts when the  *)
(* running one is over. One life of the process is modelled.               *)
(***************************************************************************)
EXTENDS Integers, FiniteSets

CONSTANTS
    LoginLoops,       \* the initializeWithRetries of logins; the startup has its own
    NoStart,          \* null, where no start is named
    InitMaxAttempts,  \* WHATSAPP_INIT_MAX_ATTEMPTS
    PublisherEnabled, \* RabbitMQ is configured: without it no pass ever runs
    ReconcileMaxFailures, \* WHATSAPP_RECONCILE_MAX_FAILURES, taken not to be 0
    BackoffMax,       \* WHATSAPP_RECONCILE_BACKOFF_MAX_MS, in scan intervals
    \* What the environment may do:
    Timely,           \* a start fails before its page shows anything, and settles before the page
                      \* is ready or a logout gives up on it; the watchdog outlasts a page that
                      \* still gets somewhere; a frame error or a failed probe is heard of while
                      \* the page it is about is still the one thought ready
    \* Bounds of the model:
    MaxRestarts,      \* restarts in a row for passes that failed
    MaxFaults         \* failed starts, dead pages, disconnects, refused sessions, late frame errors

Loops == {"startup"} \cup LoginLoops
Starts == Loops \cup {"recovery"}

ASSUME StartsAssumption ==
    /\ IsFiniteSet(LoginLoops)
    /\ LoginLoops \cap {"startup", "recovery"} = {} /\ NoStart \notin Starts
ASSUME LimitsAssumption ==
    /\ InitMaxAttempts \in Nat \ {0} /\ Timely \in BOOLEAN /\ PublisherEnabled \in BOOLEAN
    /\ ReconcileMaxFailures \in Nat \ {0} /\ BackoffMax \in Nat \ {0}
    /\ MaxRestarts \in Nat /\ MaxFaults \in Nat

VARIABLES
    faults,
    \* the browser and its page, the starts whose page was closed under them, and whether some
    \* send that found the session settled is still running
    page, doomed, sending,
    \* the pass that is running, the ladder of passes that failed in a row, and what is left of
    \* reconcileBackoffUntil, in scan intervals
    reconciling, reconcileFailures, reconcileRestarts, pause,
    \* WhatsappService: status, currentQr # null, loggedOut, reinitializing, starting, settled
    status, qr, loggedOut, reinitializing, starting, settled,
    \* its timers, and a heartbeat awaiting getState with the `ready` it read before
    heartbeat, watchdog, settleTimer, reconcileTimer, beat,
    \* each start: the await it is at, and its attempt
    stage, attempt,
    \* the session operation running, and the start a logout waits for
    op, awaited

ladderVars == <<reconcileFailures, reconcileRestarts, pause>>
useVars   == <<sending, reconciling, ladderVars>>
pageVars  == <<page, doomed, useVars>>
stateVars == <<status, qr, settled>>
lateTimers == <<settleTimer, reconcileTimer>>
timerVars == <<heartbeat, watchdog, lateTimers>>
startVars == <<reinitializing, starting, stage, attempt>>
opVars    == <<loggedOut, op, awaited>>
vars == <<faults, pageVars, stateVars, timerVars, beat, startVars, opVars>>

Statuses == {"initializing", "qr", "authenticated", "ready", "disconnected", "logged_out"}
Pages == {"closed", "loading", "scan", "linked", "ready", "dead"}
Awaits == {"off", "launching", "injecting", "destroying", "sleeping"}
Ops == {"none", "login", "wait", "unlink", "close", "remove"}

Init ==
    /\ faults = 0 /\ page = "closed" /\ doomed = {} /\ sending = FALSE
    /\ reconciling = FALSE /\ reconcileFailures = 0 /\ reconcileRestarts = 0 /\ pause = 0
    /\ status = "initializing" /\ qr = FALSE /\ loggedOut = FALSE /\ settled = FALSE
    /\ heartbeat = TRUE /\ watchdog = TRUE /\ settleTimer = FALSE
    /\ reconcileTimer = FALSE /\ beat = "none"
    /\ reinitializing = FALSE /\ starting = "startup"
    /\ stage = [s \in Starts |-> IF s = "startup" THEN "launching" ELSE "off"]
    /\ attempt = [s \in Starts |-> 1]
    /\ op = "none" /\ awaited = NoStart

Fault == faults < MaxFaults /\ faults' = faults + 1
InFlight == {s \in Starts : stage[s] # "off"}
Calm == Timely => InFlight = {}
\* A start that failed leaves a page that shows nothing more.
Showing == Timely => \A s \in InFlight : stage[s] = "injecting"

----------------------------------------------------------------------------
(* Starts of the browser *)

\* Mutant: the start stays the one in flight after it settled.
settlesUntracked(s) ==
    /\ stage' = [stage EXCEPT ![s] = "off"]
    /\ UNCHANGED starting
\* track: a start is the one in flight until it settles, unless a later one took its place.
settles(s) ==
    /\ stage' = [stage EXCEPT ![s] = "off"]
    /\ starting' = IF starting = s THEN NoStart ELSE starting

\* client.destroy(): what injects into the page will fail, what still launches will not.
destroyClient ==
    /\ Timely => beat # "ready"
    /\ page' = "closed"
    /\ doomed' = doomed \cup {s \in Starts : stage[s] = "injecting"}

Launch(s) ==
    /\ stage[s] = "launching"
    /\ stage' = [stage EXCEPT ![s] = "injecting"]
    /\ page' = "loading"
    /\ doomed' = doomed \ {s}
    /\ UNCHANGED <<faults, useVars, stateVars, timerVars, beat, reinitializing, starting, attempt,
                   opVars>>

\* client.initialize() rejects: by itself, or because its page was closed.
Rejected(s) ==
    /\ stage[s] = "injecting"
    /\ Timely => page \in {"closed", "loading"}
    /\ IF s \in doomed THEN UNCHANGED faults ELSE Fault
    /\ doomed' = doomed \ {s}

LoopResolves(s) ==
    /\ stage[s] = "injecting" /\ s \notin doomed
    /\ settles(s)
    /\ UNCHANGED <<faults, pageVars, stateVars, timerVars, beat, reinitializing, attempt, opVars>>

\* Mutant: off by one.
OneMoreAttempt(s) == attempt[s] > InitMaxAttempts
OutOfAttempts(s) == attempt[s] >= InitMaxAttempts

\* The startup that is out of attempts only logs it, a login says so in the status.
LoopRejected(s) ==
    /\ Rejected(s)
    /\ IF OutOfAttempts(s)
       THEN /\ settles(s)
            /\ status' = IF s = "startup" THEN status ELSE "disconnected"
       ELSE /\ stage' = [stage EXCEPT ![s] = "destroying"]
            /\ UNCHANGED <<starting, status>>
    /\ UNCHANGED <<page, useVars, qr, settled, timerVars, beat, reinitializing, attempt, opVars>>

LoopDestroys(s) ==
    /\ stage[s] = "destroying"
    /\ stage' = [stage EXCEPT ![s] = "sleeping"]
    /\ destroyClient
    /\ UNCHANGED <<faults, useVars, stateVars, timerVars, beat, reinitializing, starting, attempt,
                   opVars>>

LoopTriesAgain(s) ==
    /\ stage[s] = "sleeping"
    /\ attempt' = [attempt EXCEPT ![s] = @ + 1]
    /\ IF loggedOut THEN settles(s)
       ELSE stage' = [stage EXCEPT ![s] = "launching"] /\ UNCHANGED starting
    /\ UNCHANGED <<faults, pageVars, stateVars, timerVars, beat, reinitializing, opVars>>

\* recoverFromFrameError, as far as its first await.
recoverFromFrameError ==
    IF loggedOut THEN UNCHANGED <<status, startVars>>
    ELSE /\ status' = "disconnected"
         /\ IF reinitializing THEN UNCHANGED startVars
            ELSE /\ reinitializing' = TRUE
                 /\ stage' = [stage EXCEPT !["recovery"] = "destroying"]
                 /\ starting' = "recovery"
                 /\ UNCHANGED attempt

\* Mutant: the watchdog is left to the events of the new page.
RearmNothing == UNCHANGED watchdog
Rearm == watchdog' = TRUE

\* runRecovery goes on whether or not the session was logged out meanwhile.
RecoveryDestroys ==
    /\ stage["recovery"] = "destroying"
    /\ stage' = [stage EXCEPT !["recovery"] = "launching"]
    /\ destroyClient
    /\ status' = "initializing"
    /\ Rearm
    /\ UNCHANGED <<faults, useVars, qr, settled, heartbeat, lateTimers, beat, reinitializing,
                   starting, attempt, opVars>>

RecoveryResolves ==
    /\ stage["recovery"] = "injecting" /\ "recovery" \notin doomed
    /\ settles("recovery")
    /\ reinitializing' = FALSE
    /\ UNCHANGED <<faults, pageVars, stateVars, timerVars, beat, attempt, opVars>>

\* Mutant: only a recovery that succeeds gives way to the next one.
KeepsReinitializing == UNCHANGED reinitializing
ResetsReinitializing == reinitializing' = FALSE

RecoveryRejected ==
    /\ Rejected("recovery")
    /\ status' = "disconnected"
    /\ settles("recovery")
    /\ ResetsReinitializing
    /\ UNCHANGED <<page, useVars, qr, settled, timerVars, beat, attempt, opVars>>

----------------------------------------------------------------------------
(* Events of the library *)

QrEvent ==
    /\ page \in {"loading", "scan"} /\ Showing
    /\ page' = "scan"
    /\ IF loggedOut THEN UNCHANGED <<status, qr, watchdog>>
       ELSE status' = "qr" /\ qr' = TRUE /\ watchdog' = FALSE
    /\ UNCHANGED <<faults, doomed, useVars, settled, heartbeat, lateTimers, beat, startVars, opVars>>

\* Mutant: the code that was scanned is still on offer.
LeavesQr == UNCHANGED qr
DropsQr == qr' = FALSE

AuthenticatedEvent ==
    /\ page \in {"loading", "scan"} /\ Showing
    /\ page' = "linked"
    /\ IF loggedOut THEN UNCHANGED <<status, qr, watchdog>>
       ELSE status' = "authenticated" /\ DropsQr /\ watchdog' = TRUE
    /\ UNCHANGED <<faults, doomed, useVars, settled, heartbeat, lateTimers, beat, startVars, opVars>>

\* The stored session is refused, and the library closes its browser. The one handler that does
\* not ask whether the session was logged out.
AuthFailureEvent ==
    /\ Fault
    /\ page = "loading" /\ Showing
    /\ page' = "closed"
    /\ status' = "disconnected"
    /\ UNCHANGED <<doomed, useVars, qr, settled, timerVars, beat, startVars, opVars>>

\* Mutant: the chats stay open through the delay.
settleLater == settleTimer' = TRUE /\ UNCHANGED settled
scheduleSettledStart == settleTimer' = TRUE /\ settled' = FALSE

\* `ready` may fire again for the same load; each time the settle delay starts over.
ReadyEvent ==
    /\ page \in {"linked", "ready"} /\ Calm
    /\ page' = "ready"
    /\ IF loggedOut THEN UNCHANGED <<stateVars, timerVars>>
       ELSE /\ status' = "ready" /\ qr' = FALSE
            /\ watchdog' = FALSE /\ heartbeat' = TRUE
            /\ scheduleSettledStart
            /\ UNCHANGED reconcileTimer
    /\ UNCHANGED <<faults, doomed, useVars, beat, startVars, opVars>>

DisconnectedEvent ==
    /\ Fault
    /\ page \in {"linked", "ready"} /\ Calm
    /\ page' = "loading"
    /\ settled' = IF loggedOut THEN settled ELSE FALSE
    /\ recoverFromFrameError
    /\ UNCHANGED <<doomed, useVars, qr, timerVars, beat, opVars>>

\* The page crashes or loses its connection, and says nothing.
PageDies ==
    /\ Fault
    /\ page \in {"loading", "scan", "linked", "ready"} /\ Calm
    /\ page' = "dead"
    /\ UNCHANGED <<doomed, useVars, stateVars, timerVars, beat, startVars, opVars>>

\* A send begins: only on a session that is ready and has settled.
SendBegins ==
    /\ status = "ready" /\ settled /\ ~sending
    /\ sending' = TRUE
    /\ UNCHANGED <<faults, page, doomed, reconciling, ladderVars, stateVars, timerVars, beat,
                   startVars, opVars>>

SendEnds ==
    /\ sending
    /\ sending' = FALSE
    /\ UNCHANGED <<faults, page, doomed, reconciling, ladderVars, stateVars, timerVars, beat,
                   startVars, opVars>>

\* Heard of while the page it is about is still the one thought ready, or perhaps long after.
FrameErrorHeard == Fault /\ (Timely => page = "dead" /\ status = "ready")

\* One of the sends meets a frame error.
SendFrameError ==
    /\ FrameErrorHeard
    /\ sending /\ sending' \in BOOLEAN
    /\ recoverFromFrameError
    /\ UNCHANGED <<page, doomed, reconciling, ladderVars, qr, settled, timerVars, beat, opVars>>

----------------------------------------------------------------------------
(* Reconcile passes *)

\* Mutant, and most of canReconcile: a pass that is due runs, paused or not.
Runnable(settledNow) ==
    /\ PublisherEnabled /\ ~reconciling /\ ~reinitializing
    /\ status = "ready" /\ settledNow
canReconcile(settledNow) == Runnable(settledNow) /\ pause = 0

\* Mutant: only the pass after the settle delay is started, not the timer.
startNothing == UNCHANGED reconcileTimer
\* The timer outlives reloads and recoveries; only logout clears it.
startReconcile == reconcileTimer' = (reconcileTimer \/ PublisherEnabled)

ReconcileFires ==
    /\ reconcileTimer /\ canReconcile(settled)
    /\ reconciling' = TRUE
    /\ UNCHANGED <<faults, page, doomed, sending, ladderVars, stateVars, timerVars, beat, startVars,
                   opVars>>

\* Another scan interval of the pause is over.
IntervalPasses ==
    /\ pause > 0
    /\ pause' = pause - 1
    /\ UNCHANGED <<faults, page, doomed, sending, reconciling, reconcileFailures, reconcileRestarts,
                   stateVars, timerVars, beat, startVars, opVars>>

\* A pass that ends well clears the whole ladder, whatever became of the session meanwhile.
PassSucceeds ==
    /\ reconciling /\ reconciling' = FALSE
    /\ reconcileFailures' = 0 /\ reconcileRestarts' = 0 /\ pause' = 0
    /\ UNCHANGED <<faults, page, doomed, sending, stateVars, timerVars, beat, startVars, opVars>>

nextReconcileBackoff ==
    IF 2 ^ reconcileRestarts < BackoffMax THEN 2 ^ reconcileRestarts ELSE BackoffMax

\* handleReconcileFailure for an error of the pass's own.
PassFails ==
    /\ reconciling /\ reconciling' = FALSE
    /\ IF reconcileFailures + 1 < ReconcileMaxFailures
       THEN /\ reconcileFailures' = reconcileFailures + 1
            /\ UNCHANGED <<reconcileRestarts, pause, status, startVars>>
       ELSE /\ reconcileRestarts < MaxRestarts /\ (Timely => status = "ready")
            /\ reconcileFailures' = 0
            /\ reconcileRestarts' = reconcileRestarts + 1
            /\ pause' = nextReconcileBackoff
            /\ recoverFromFrameError
    /\ UNCHANGED <<faults, page, doomed, sending, qr, settled, timerVars, beat, opVars>>

\* A frame error leaves the ladder where it is.
PassFrameError ==
    /\ FrameErrorHeard
    /\ reconciling /\ reconciling' = FALSE
    /\ recoverFromFrameError
    /\ UNCHANGED <<page, doomed, sending, ladderVars, qr, settled, timerVars, beat, opVars>>

----------------------------------------------------------------------------
(* Timers *)

HeartbeatFires ==
    /\ heartbeat /\ beat = "none"
    /\ ~reinitializing /\ ~loggedOut /\ status # "qr"
    /\ beat' = IF status = "ready" THEN "ready" ELSE "waiting"
    /\ UNCHANGED <<faults, pageVars, stateVars, timerVars, startVars, opVars>>

\* getState answers CONNECTED, or does not: only what was ready before the call is recovered.
HeartbeatReturns ==
    /\ beat # "none"
    /\ beat' = "none"
    /\ \/ page \in {"loading", "scan", "linked", "ready"} /\ UNCHANGED <<status, startVars, faults>>
       \/ /\ IF page = "ready" THEN Fault ELSE UNCHANGED faults
          /\ IF beat = "ready" THEN recoverFromFrameError ELSE UNCHANGED <<status, startVars>>
    /\ UNCHANGED <<pageVars, qr, settled, timerVars, opVars>>

\* The watchdog is spent even when it finds a recovery running.
WatchdogFires ==
    /\ watchdog /\ (Timely => InFlight = {} /\ page \in {"closed", "dead"})
    /\ watchdog' = FALSE
    /\ IF status \in {"ready", "qr"} \/ reinitializing THEN UNCHANGED <<status, startVars>>
       ELSE recoverFromFrameError
    /\ UNCHANGED <<faults, pageVars, qr, settled, heartbeat, lateTimers, beat, opVars>>

SettleTimerFires ==
    /\ settleTimer
    /\ settleTimer' = FALSE
    /\ IF status = "ready" /\ ~loggedOut
       THEN settled' = TRUE /\ startReconcile /\ reconciling' = (reconciling \/ canReconcile(TRUE))
       ELSE UNCHANGED <<settled, reconcileTimer, reconciling>>
    /\ UNCHANGED <<faults, page, doomed, sending, ladderVars, status, qr, heartbeat, watchdog, beat,
                   startVars, opVars>>

----------------------------------------------------------------------------
(* Login and logout *)

Idle == loggedOut \/ (status = "disconnected" /\ ~reinitializing /\ starting = NoStart)

Login ==
    /\ op = "none"
    /\ op' = "login"
    /\ IF Idle
       THEN /\ \E s \in LoginLoops :
                  /\ stage[s] = "off"
                  /\ stage' = [stage EXCEPT ![s] = "launching"]
                  /\ attempt' = [attempt EXCEPT ![s] = 1]
                  /\ starting' = s
            /\ loggedOut' = FALSE /\ status' = "initializing"
            /\ heartbeat' = TRUE /\ watchdog' = TRUE
       ELSE UNCHANGED <<stage, attempt, starting, loggedOut, status, heartbeat, watchdog>>
    /\ UNCHANGED <<faults, pageVars, qr, settled, lateTimers, beat, reinitializing, awaited>>

\* A QR, a ready or a failed session, or the end of the wait.
LoginReturns ==
    /\ op = "login"
    /\ op' = "none"
    /\ UNCHANGED <<faults, pageVars, stateVars, timerVars, beat, startVars, loggedOut, awaited>>

\* The second is a mutant: only the reconcile timers are stopped.
stopReconcile == settled' = FALSE /\ settleTimer' = FALSE /\ reconcileTimer' = FALSE
stopReconcileOnly == stopReconcile /\ UNCHANGED <<heartbeat, watchdog>>
stopTimers == stopReconcile /\ heartbeat' = FALSE /\ watchdog' = FALSE

Logout ==
    /\ op = "none" /\ ~loggedOut
    /\ loggedOut' = TRUE
    /\ stopTimers
    /\ awaited' = starting
    /\ op' = IF starting # NoStart THEN "wait" ELSE "unlink"
    /\ UNCHANGED <<faults, pageVars, status, qr, beat, startVars>>

\* The start settled, or logout gave up on it after the time one initialize may take. Only a
\* recovery's initialize, or what a loop does between two of them, can last longer.
LogoutWaited ==
    /\ op = "wait"
    /\ \/ stage[awaited] = "off" /\ UNCHANGED faults
       \/ /\ ~Timely /\ Fault
          /\ awaited = "recovery" \/ stage[awaited] \in {"destroying", "sleeping"}
    /\ op' = "unlink" /\ awaited' = NoStart
    /\ UNCHANGED <<pageVars, stateVars, timerVars, beat, startVars, loggedOut>>

\* client.logout(), bounded, when the device is linked: it fails or leaves a page to log in.
LogoutUnlinks ==
    /\ op = "unlink"
    /\ op' = "close"
    /\ page' \in IF status \in {"ready", "authenticated"} /\ page \in {"linked", "ready"}
                 THEN {page, "loading"} ELSE {page}
    /\ UNCHANGED <<faults, doomed, useVars, stateVars, timerVars, beat, startVars, loggedOut, awaited>>

LogoutCloses ==
    /\ op = "close"
    /\ op' = "remove"
    /\ destroyClient
    /\ stopTimers
    /\ UNCHANGED <<faults, useVars, status, qr, beat, startVars, loggedOut, awaited>>

LogoutDone ==
    /\ op = "remove"
    /\ op' = "none"
    /\ status' = "logged_out" /\ qr' = FALSE
    /\ UNCHANGED <<faults, pageVars, settled, timerVars, beat, startVars, loggedOut, awaited>>

----------------------------------------------------------------------------
StartStep ==
    \/ \E s \in Starts : Launch(s)
    \/ \E s \in Loops : LoopResolves(s) \/ LoopRejected(s) \/ LoopDestroys(s) \/ LoopTriesAgain(s)
    \/ RecoveryDestroys \/ RecoveryResolves \/ RecoveryRejected

PageStep == QrEvent \/ AuthenticatedEvent \/ ReadyEvent

PassStep == PassSucceeds \/ PassFails \/ PassFrameError

LogoutStep == LogoutWaited \/ LogoutUnlinks \/ LogoutCloses \/ LogoutDone

Next ==
    \/ StartStep \/ PageStep \/ LogoutStep
    \/ AuthFailureEvent \/ DisconnectedEvent \/ PageDies
    \/ SendBegins \/ SendEnds \/ SendFrameError
    \/ ReconcileFires \/ IntervalPasses \/ PassStep
    \/ HeartbeatFires \/ HeartbeatReturns \/ WatchdogFires \/ SettleTimerFires
    \/ Login \/ LoginReturns \/ Logout

Spec == Init /\ [][Next]_vars

\* Page calls return, a loading page shows a QR or links, a linked one gets ready, and timers
\* that are set go off. Nothing is assumed of the callers or of what fails.
FairSpec ==
    /\ Spec
    /\ WF_vars(StartStep)
    /\ WF_vars(page \in {"loading", "linked"} /\ PageStep)
    /\ WF_vars(LogoutStep)
    /\ WF_vars(HeartbeatFires) /\ WF_vars(HeartbeatReturns) /\ WF_vars(WatchdogFires)
    /\ WF_vars(SettleTimerFires) /\ WF_vars(ReconcileFires) /\ WF_vars(IntervalPasses)
    /\ WF_vars(PassStep)

----------------------------------------------------------------------------
(* Properties *)

\* Every variable has its type.
TypeOK ==
    /\ faults \in Nat /\ page \in Pages /\ doomed \subseteq Starts /\ sending \in BOOLEAN
    /\ reconciling \in BOOLEAN /\ reconcileFailures \in 0 .. ReconcileMaxFailures - 1
    /\ reconcileRestarts \in 0 .. MaxRestarts /\ pause \in 0 .. BackoffMax
    /\ status \in Statuses /\ qr \in BOOLEAN /\ loggedOut \in BOOLEAN
    /\ reinitializing \in BOOLEAN /\ starting \in Starts \cup {NoStart} /\ settled \in BOOLEAN
    /\ heartbeat \in BOOLEAN /\ watchdog \in BOOLEAN /\ settleTimer \in BOOLEAN
    /\ reconcileTimer \in BOOLEAN
    /\ beat \in {"none", "ready", "waiting"}
    /\ stage \in [Starts -> Awaits] /\ attempt \in [Starts -> 1 .. InitMaxAttempts]
    /\ op \in Ops /\ awaited \in Starts \cup {NoStart}

\* The flags that login, logout and recovery decide by tell the truth: reinitializing is set
\* exactly while a recovery runs, and `starting` names only a start that has not settled, so
\* neither a finished start nor a failed recovery can block the next one.
FlagsMatchStarts ==
    /\ reinitializing <=> stage["recovery"] # "off"
    /\ starting # NoStart => stage[starting] # "off"

\* GET /qr has a code "while authentication is pending" and none once the device is linked or
\* logged out.
NoQrOnceLinked == qr => status \notin {"authenticated", "ready", "logged_out"}

\* A send or a pass may touch chats (ready and settled) only when no settle delay is running
\* and the session is not being logged out or recovered.
SettledMeansQuiet ==
    settled /\ status = "ready" => ~settleTimer /\ ~loggedOut /\ ~reinitializing

\* A session that is neither ready, nor waiting for a scan, nor logged out has something left
\* that will act on it (a start, a recovery or the watchdog); a ready one has the heartbeat.
NeverAbandoned ==
    ~loggedOut => /\ status \notin {"ready", "qr"} => InFlight # {} \/ watchdog
                  /\ status = "ready" => heartbeat

\* "The service then stays logged out - no recovery, no restart - until login() is called".
StaysLoggedOut ==
    loggedOut /\ op = "none" =>
        /\ status = "logged_out" /\ page = "closed" /\ InFlight = {}
        /\ ~heartbeat /\ ~watchdog /\ ~settleTimer /\ ~reconcileTimer

\* A code on offer counts as serving: nothing looks at the page until it is scanned.
Serving == (status = "ready" /\ page = "ready") \/ status = "qr"

\* A session that broke comes back, as far as a new code to scan if need be, unless it is
\* logged out: no failed start, lost page, refused session or login in between leaves it stuck.
ComesBack == ~Serving /\ ~loggedOut ~> Serving \/ loggedOut

\* No pass runs in the pause after a restart, however soon the new session settles and even if
\* a logout and a login come in between: "each escalation also pauses scanning for twice as
\* long as the last", so that a permanent fault does not restart the session every few passes.
PauseHolds == pause > 0 => ~reconciling /\ reconcileRestarts > 0

\* The safety net comes back: a session that is not logged out gets to another pass, or as far
\* as a code to scan, whatever restart, pause, reload or login is in between.
ScansResume == ~loggedOut ~> reconciling \/ status = "qr" \/ loggedOut
=============================================================================
