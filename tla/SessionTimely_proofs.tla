------------------------ MODULE SessionTimely_proofs ------------------------
(***************************************************************************)
(* Proofs about SessionLifecycle in an environment that keeps its order    *)
(* (Timely): what the ready, settled and logged-out session promise then,  *)
(* for any number of login loops, attempts, restarts and faults. The run   *)
(* Session checks the same properties on a small instance; SessionLogout   *)
(* shows what becomes of a logout without the order. The flags of a logout *)
(* come first: they need no order.                                         *)
(***************************************************************************)
EXTENDS SessionLifecycle_proofs

USE DEF vars, ladderVars, useVars, pageVars, stateVars, lateTimers, timerVars, startVars, opVars

----------------------------------------------------------------------------
(* The flags of logout, in any order of events *)

\* Only a logout or a login changes loggedOut, and each takes the timers along with it; a settle
\* delay that runs has closed the chats.
LogoutFlags ==
    /\ loggedOut => ~heartbeat /\ ~settleTimer /\ ~reconcileTimer /\ ~settled /\ op # "login"
    /\ ~loggedOut => heartbeat /\ op \in {"none", "login"}
    /\ settleTimer => ~settled

LEMMA LogoutFlagsStep ==
    ASSUME LogoutFlags, FlagTypes, [Next]_vars
    PROVE  LogoutFlags'
<1> USE DEF LogoutFlags, FlagTypes
<1>1. CASE StartStep
  BY <1>1
  DEF StartStep, Launch, LoopResolves, LoopRejected, LoopDestroys, LoopTriesAgain,
      RecoveryDestroys, RecoveryResolves, RecoveryRejected
<1>2. CASE QrEvent \/ AuthenticatedEvent \/ AuthFailureEvent \/ PageDies
  BY <1>2 DEF QrEvent, AuthenticatedEvent, AuthFailureEvent, PageDies
<1>3. CASE ReadyEvent
  BY <1>3 DEF ReadyEvent, scheduleSettledStart
<1>4. CASE DisconnectedEvent
  BY <1>4 DEF DisconnectedEvent
<1>5. CASE SendFrameError \/ PassFails \/ PassFrameError
  BY <1>5 DEF SendFrameError, PassFails, PassFrameError
<1>6. CASE SendBegins \/ SendEnds \/ ReconcileFires \/ IntervalPasses \/ PassSucceeds
  BY <1>6 DEF SendBegins, SendEnds, ReconcileFires, IntervalPasses, PassSucceeds
<1>7. CASE HeartbeatFires \/ HeartbeatReturns \/ WatchdogFires
  BY <1>7 DEF HeartbeatFires, HeartbeatReturns, WatchdogFires
<1>8. CASE SettleTimerFires
  BY <1>8 DEF SettleTimerFires, startReconcile
<1>9. CASE Login \/ LoginReturns
  BY <1>9 DEF Login, Idle, LoginReturns
<1>10. CASE Logout
  BY <1>10 DEF Logout, stopTimers, stopReconcile
<1>11. CASE LogoutWaited \/ LogoutUnlinks \/ LogoutDone
  BY <1>11 DEF LogoutWaited, LogoutUnlinks, LogoutDone
<1>12. CASE LogoutCloses
  BY <1>12 DEF LogoutCloses, stopTimers, stopReconcile
<1>13. CASE UNCHANGED vars
  BY <1>13
<1> QED
  BY <1>1, <1>2, <1>3, <1>4, <1>5, <1>6, <1>7, <1>8, <1>9, <1>10, <1>11, <1>12, <1>13
  DEF Next, PageStep, PassStep, LogoutStep

\* A logout closes the chats and stops the heartbeat, the settle delay and the scan timer, and
\* nothing that was under way sets one of them again before the next login, in whatever order
\* starts end, events come and calls are made.
THEOREM LogoutStopsTimers == Spec => []LogoutFlags
<1>1. Init => LogoutFlags /\ FlagTypes
  BY DEF Init, LogoutFlags, FlagTypes
<1>2. LogoutFlags /\ FlagTypes /\ [Next]_vars => (LogoutFlags /\ FlagTypes)'
  BY LogoutFlagsStep, FlagTypesStep
<1> QED
  BY <1>1, <1>2, PTL DEF Spec

----------------------------------------------------------------------------
(* The order of a timely environment *)

\* No start is under way.
Quiet == \A s \in Starts : stage[s] = "off"

LEMMA QuietMeansNoneInFlight == Quiet <=> InFlight = {}
  BY DEF Quiet, InFlight

\* The one start that is under way is the one `starting` names.
SingleStart == \A s \in Starts : stage[s] # "off" => starting = s

\* A session thought ready has no start under way, and its page was ready last.
ReadyHolds ==
    status = "ready" => Quiet /\ (~loggedOut => page \in {"ready", "dead"})

\* A code on offer is the one the page shows, and what still starts is past its failures.
CodeHolds ==
    status = "qr" /\ ~loggedOut =>
        /\ page \in {"scan", "dead"}
        /\ \A s \in Starts : stage[s] \in {"off", "injecting"}

\* What the heartbeat took for ready is still that, or a recovery has just begun.
BeatHolds ==
    beat = "ready" =>
        /\ ~loggedOut => status = "ready" \/ stage["recovery"] = "destroying"
        /\ loggedOut => op \in {"wait", "unlink", "close"}

\* Whatever is not ready and shows no code has the watchdog, or a recovery about to set it.
Watched ==
    ~loggedOut /\ status \notin {"ready", "qr"} => watchdog \/ stage["recovery"] = "destroying"

\* A logout has waited for the only start, and what it then closed stays closed.
LogoutHolds ==
    loggedOut =>
        /\ IF op = "wait"
           THEN awaited \in Starts /\ \A s \in Starts : stage[s] # "off" => s = awaited
           ELSE Quiet
        /\ op \in {"remove", "none"} => page = "closed" /\ ~watchdog
        /\ op = "none" => status = "logged_out"

OrderlyInv ==
    /\ SingleStart /\ ReadyHolds /\ CodeHolds /\ BeatHolds /\ Watched /\ LogoutHolds

\* What the steps below take from the invariants that hold in any order.
Basics == StartInv /\ FlagTypes /\ LogoutFlags

LEMMA OrderlyStep ==
    ASSUME Timely, OrderlyInv, Basics, OtherTypes, [Next]_vars
    PROVE  OrderlyInv'
<1> "recovery" \in Starts /\ NoStart \notin Starts /\ \A s \in Loops : s \in Starts \ {"recovery"}
  BY StartsAssumption DEF Starts, Loops
<1> USE QuietMeansNoneInFlight
    DEF OrderlyInv, SingleStart, ReadyHolds, CodeHolds, BeatHolds, Watched, LogoutHolds, Quiet,
        Basics, StartInv, FlagsMatchStarts, FlagTypes, LogoutFlags
<1>1. ASSUME NEW s \in Starts, Launch(s) PROVE OrderlyInv'
  BY <1>1 DEF Launch
<1>2. ASSUME NEW s \in Loops, LoopResolves(s) PROVE OrderlyInv'
  BY <1>2 DEF LoopResolves, settles
<1>3. ASSUME NEW s \in Loops, LoopRejected(s) PROVE OrderlyInv'
  BY <1>3 DEF LoopRejected, Rejected, settles
<1>4. ASSUME NEW s \in Loops, LoopDestroys(s) PROVE OrderlyInv'
  BY <1>4 DEF LoopDestroys, destroyClient
<1>5. ASSUME NEW s \in Loops, LoopTriesAgain(s) PROVE OrderlyInv'
  BY <1>5 DEF LoopTriesAgain, settles
<1>6. CASE RecoveryDestroys
  BY <1>6 DEF RecoveryDestroys, destroyClient, Rearm
<1>7. CASE RecoveryResolves
  BY <1>7 DEF RecoveryResolves, settles
<1>8. CASE RecoveryRejected
  BY <1>8 DEF RecoveryRejected, Rejected, settles
<1>9. CASE QrEvent
  BY <1>9 DEF QrEvent, Showing, InFlight
<1>10. CASE AuthenticatedEvent
  BY <1>10 DEF AuthenticatedEvent, Showing, InFlight
<1>11. CASE ReadyEvent
  BY <1>11 DEF ReadyEvent, Calm
<1>12. CASE AuthFailureEvent
  BY <1>12 DEF AuthFailureEvent, Showing, InFlight
<1>13. CASE DisconnectedEvent
  BY <1>13 DEF DisconnectedEvent, Calm, recoverFromFrameError
<1>14. CASE PageDies
  BY <1>14 DEF PageDies, Calm
<1>15. CASE SendBegins \/ SendEnds \/ ReconcileFires \/ IntervalPasses \/ PassSucceeds
  BY <1>15 DEF SendBegins, SendEnds, ReconcileFires, IntervalPasses, PassSucceeds
<1>16. CASE SendFrameError
  BY <1>16 DEF SendFrameError, FrameErrorHeard, recoverFromFrameError
<1>17. CASE PassFails
  BY <1>17 DEF PassFails, recoverFromFrameError
<1>18. CASE PassFrameError
  BY <1>18 DEF PassFrameError, FrameErrorHeard, recoverFromFrameError
<1>19. CASE HeartbeatFires
  BY <1>19 DEF HeartbeatFires
<1>20. CASE HeartbeatReturns
  BY <1>20 DEF HeartbeatReturns, recoverFromFrameError
<1>21. CASE WatchdogFires
  BY <1>21 DEF WatchdogFires, recoverFromFrameError
<1>22. CASE SettleTimerFires
  BY <1>22 DEF SettleTimerFires
<1>23. CASE Login
  BY <1>23 DEF Login, Idle, Loops
<1>24. CASE LoginReturns
  BY <1>24 DEF LoginReturns
<1>25. CASE Logout
  BY <1>25 DEF Logout, stopTimers, stopReconcile
<1>26. CASE LogoutWaited
  BY <1>26 DEF LogoutWaited
<1>27. CASE LogoutUnlinks
  BY <1>27 DEF LogoutUnlinks
<1>28. CASE LogoutCloses
  BY <1>28 DEF LogoutCloses, destroyClient, stopTimers, stopReconcile
<1>29. CASE LogoutDone
  BY <1>29 DEF LogoutDone
<1>30. CASE UNCHANGED vars
  BY <1>30
<1> QED
  BY <1>1, <1>2, <1>3, <1>4, <1>5, <1>6, <1>7, <1>8, <1>9, <1>10, <1>11, <1>12, <1>13,
     <1>14, <1>15, <1>16, <1>17, <1>18, <1>19, <1>20, <1>21, <1>22, <1>23, <1>24,
     <1>25, <1>26, <1>27, <1>28, <1>29, <1>30
  DEF Next, StartStep, PageStep, PassStep, LogoutStep

LEMMA SessionIsOrderly == ASSUME Timely PROVE Spec => [](OrderlyInv /\ Basics)
<1>1. Init => OrderlyInv /\ Basics /\ OtherTypes
  <2> SUFFICES ASSUME Init PROVE OrderlyInv /\ Basics /\ OtherTypes
    OBVIOUS
  <2> "startup" \in Starts /\ NoStart \notin Starts
    BY StartsAssumption DEF Starts, Loops
  <2>1. SingleStart /\ ReadyHolds /\ CodeHolds /\ BeatHolds /\ Watched /\ LogoutHolds
    BY DEF Init, SingleStart, ReadyHolds, CodeHolds, BeatHolds, Watched, LogoutHolds
  <2>2. StartInv
    BY StartsAssumption DEF Init, StartInv, FlagsMatchStarts, Starts, Loops, Awaits
  <2>3. FlagTypes /\ LogoutFlags
    BY DEF Init, FlagTypes, LogoutFlags
  <2>4. OtherTypes
    BY DEF Init, OtherTypes, Pages, Statuses, Ops
  <2> QED
    BY <2>1, <2>2, <2>3, <2>4 DEF OrderlyInv, Basics
<1>2. OrderlyInv /\ Basics /\ OtherTypes /\ [Next]_vars => (OrderlyInv /\ Basics /\ OtherTypes)'
  BY OrderlyStep, StepMoves, StartInvStep, FlagTypesStep, OtherTypesStep, LogoutFlagsStep DEF Basics
<1> QED
  BY <1>1, <1>2, PTL DEF Spec

----------------------------------------------------------------------------
(* What a caller may rely on *)

\* Sends and passes find the chats open only on a session that is not settling, logging out or
\* recovering: while it is ready no start is under way, and a settle delay or a logout has
\* closed them.
THEOREM SettledSessionIsQuiet == ASSUME Timely PROVE Spec => []SettledMeansQuiet
<1>1. ASSUME OrderlyInv, Basics PROVE SettledMeansQuiet
  <2>1. status = "ready" => stage["recovery"] = "off"
    BY <1>1 DEF OrderlyInv, ReadyHolds, Quiet, Starts
  <2>2. reinitializing <=> stage["recovery"] # "off"
    BY <1>1 DEF Basics, StartInv, FlagsMatchStarts
  <2> QED
    BY <1>1, <2>1, <2>2 DEF SettledMeansQuiet, Basics, LogoutFlags
<1> QED
  BY <1>1, SessionIsOrderly, PTL

\* Whatever starts, faults and calls come in between, a session that is not logged out is being
\* started or recovered, or is watched, or beats.
THEOREM SessionIsNeverAbandoned == ASSUME Timely PROVE Spec => []NeverAbandoned
<1>1. ASSUME OrderlyInv, Basics PROVE NeverAbandoned
  <2>1. stage["recovery"] = "destroying" => InFlight # {}
    BY DEF InFlight, Starts
  <2> QED
    BY <1>1, <2>1 DEF NeverAbandoned, OrderlyInv, Watched, Basics, LogoutFlags
<1> QED
  BY <1>1, SessionIsOrderly, PTL

\* A logout that is done leaves no page, no start and no timer behind, so that nothing but a
\* login opens the session again.
THEOREM LogoutIsFinal == ASSUME Timely PROVE Spec => []StaysLoggedOut
<1>1. ASSUME OrderlyInv, Basics PROVE StaysLoggedOut
  BY <1>1, QuietMeansNoneInFlight DEF StaysLoggedOut, OrderlyInv, LogoutHolds, Basics, LogoutFlags
<1> QED
  BY <1>1, SessionIsOrderly, PTL
=============================================================================
