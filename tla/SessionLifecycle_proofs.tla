---------------------- MODULE SessionLifecycle_proofs ----------------------
(***************************************************************************)
(* Proofs about SessionLifecycle that hold whatever the environment does,  *)
(* in the order the code promises or not (Timely), for any number of       *)
(* login loops, attempts, restarts and faults.                             *)
(***************************************************************************)
EXTENDS SessionLifecycle, FiniteSetTheorems, TLAPS

USE DEF vars, ladderVars, useVars, pageVars, stateVars, lateTimers, timerVars, startVars, opVars

----------------------------------------------------------------------------
(* The flags of the starts *)

\* What a step does to the starts: one of them gets to another await, settles or begins.
Advances(s) ==
    /\ s \in Starts /\ stage[s] # "off"
    /\ \E a \in Awaits \ {"off"} : stage' = [stage EXCEPT ![s] = a]
    /\ UNCHANGED <<reinitializing, starting>>
SettlesLoop(s) == s \in Loops /\ settles(s) /\ UNCHANGED reinitializing
SettlesRecovery == settles("recovery") /\ reinitializing' = FALSE
BeginsLoop(s) ==
    /\ s \in Loops /\ stage[s] = "off"
    /\ stage' = [stage EXCEPT ![s] = "launching"] /\ starting' = s
    /\ UNCHANGED reinitializing
BeginsRecovery ==
    /\ stage' = [stage EXCEPT !["recovery"] = "destroying"] /\ starting' = "recovery"
    /\ reinitializing' = TRUE

StartMoves ==
    \/ \E s \in Starts : Advances(s) \/ SettlesLoop(s) \/ BeginsLoop(s)
    \/ SettlesRecovery \/ BeginsRecovery
    \/ UNCHANGED <<stage, starting, reinitializing>>

LEMMA RecoverMoves ==
    ASSUME recoverFromFrameError
    PROVE  BeginsRecovery \/ UNCHANGED <<stage, starting, reinitializing>>
  BY DEF recoverFromFrameError, BeginsRecovery

LEMMA StepMoves ==
    ASSUME [Next]_vars
    PROVE  StartMoves
<1> "recovery" \in Starts /\ \A s \in Loops : s \in Starts
  BY DEF Starts
<1>1. ASSUME NEW s \in Starts, Launch(s) PROVE StartMoves
  BY <1>1 DEF Launch, StartMoves, Advances, Awaits
<1>2. ASSUME NEW s \in Loops, LoopResolves(s) PROVE StartMoves
  BY <1>2 DEF LoopResolves, StartMoves, SettlesLoop
<1>3. ASSUME NEW s \in Loops, LoopRejected(s) PROVE StartMoves
  BY <1>3 DEF LoopRejected, Rejected, StartMoves, SettlesLoop, Advances, Awaits
<1>4. ASSUME NEW s \in Loops, LoopDestroys(s) PROVE StartMoves
  BY <1>4 DEF LoopDestroys, StartMoves, Advances, Awaits
<1>5. ASSUME NEW s \in Loops, LoopTriesAgain(s) PROVE StartMoves
  BY <1>5 DEF LoopTriesAgain, StartMoves, SettlesLoop, Advances, Awaits
<1>6. CASE RecoveryDestroys
  BY <1>6 DEF RecoveryDestroys, StartMoves, Advances, Awaits
<1>7. CASE RecoveryResolves \/ RecoveryRejected
  BY <1>7 DEF RecoveryResolves, RecoveryRejected, ResetsReinitializing, StartMoves, SettlesRecovery
<1>8. CASE Login
  BY <1>8 DEF Login, StartMoves, BeginsLoop, Loops
<1>9. CASE DisconnectedEvent \/ SendFrameError \/ PassFails \/ PassFrameError
  BY <1>9, RecoverMoves
  DEF DisconnectedEvent, SendFrameError, PassFails, PassFrameError, StartMoves
<1>10. CASE HeartbeatReturns \/ WatchdogFires
  BY <1>10, RecoverMoves DEF HeartbeatReturns, WatchdogFires, StartMoves
<1>11. CASE QrEvent \/ AuthenticatedEvent \/ ReadyEvent \/ AuthFailureEvent \/ PageDies
  BY <1>11 DEF QrEvent, AuthenticatedEvent, ReadyEvent, AuthFailureEvent, PageDies, StartMoves
<1>12. CASE SendBegins \/ SendEnds \/ ReconcileFires \/ IntervalPasses \/ PassSucceeds
  BY <1>12 DEF SendBegins, SendEnds, ReconcileFires, IntervalPasses, PassSucceeds, StartMoves
<1>13. CASE HeartbeatFires \/ SettleTimerFires
  BY <1>13 DEF HeartbeatFires, SettleTimerFires, StartMoves
<1>14. CASE LoginReturns \/ Logout \/ LogoutStep
  BY <1>14
  DEF LoginReturns, Logout, LogoutStep, LogoutWaited, LogoutUnlinks, LogoutCloses, LogoutDone,
      StartMoves
<1>15. CASE UNCHANGED vars
  BY <1>15 DEF StartMoves
<1> QED
  BY <1>1, <1>2, <1>3, <1>4, <1>5, <1>6, <1>7, <1>8, <1>9, <1>10, <1>11, <1>12, <1>13, <1>14, <1>15
  DEF Next, StartStep, PageStep, PassStep

\* One start, and nothing of it left set once it is over.
StartInv ==
    /\ stage \in [Starts -> Awaits]
    /\ starting \in Starts \cup {NoStart}
    /\ reinitializing \in BOOLEAN
    /\ FlagsMatchStarts

LEMMA StartInvStep ==
    ASSUME StartInv, StartMoves
    PROVE  StartInv'
<1> "recovery" \in Starts /\ NoStart \notin Starts /\ \A s \in Loops : s \in Starts \ {"recovery"}
  BY StartsAssumption DEF Starts, Loops
<1> "off" \in Awaits /\ "launching" \in Awaits /\ "destroying" \in Awaits
  BY DEF Awaits
<1> USE DEF StartInv, FlagsMatchStarts
<1>1. ASSUME NEW s \in Starts, Advances(s) PROVE StartInv'
  BY <1>1 DEF Advances
<1>2. ASSUME NEW s \in Starts, SettlesLoop(s) PROVE StartInv'
  BY <1>2 DEF SettlesLoop, settles
<1>3. ASSUME NEW s \in Starts, BeginsLoop(s) PROVE StartInv'
  BY <1>3 DEF BeginsLoop
<1>4. CASE SettlesRecovery
  BY <1>4 DEF SettlesRecovery, settles
<1>5. CASE BeginsRecovery
  BY <1>5 DEF BeginsRecovery
<1>6. CASE UNCHANGED <<stage, starting, reinitializing>>
  BY <1>6
<1> QED
  BY <1>1, <1>2, <1>3, <1>4, <1>5, <1>6 DEF StartMoves

LEMMA StartsAreSafe == Spec => []StartInv
<1>1. Init => StartInv
  BY StartsAssumption DEF Init, StartInv, FlagsMatchStarts, Starts, Loops, Awaits
<1>2. StartInv /\ [Next]_vars => StartInv'
  BY StepMoves, StartInvStep
<1> QED
  BY <1>1, <1>2, PTL DEF Spec

\* The flags that login, logout and recovery decide by tell the truth, whatever order starts,
\* events, timers, late errors and calls come in: no start that is over blocks the next one.
THEOREM FlagsTellTruth == Spec => []FlagsMatchStarts
<1>1. StartInv => FlagsMatchStarts
  BY DEF StartInv
<1> QED
  BY <1>1, StartsAreSafe, PTL

----------------------------------------------------------------------------
(* The code on offer *)

\* recoverFromFrameError sets no status but disconnected.
LEMMA RecoverStatus ==
    ASSUME recoverFromFrameError
    PROVE  status' \in {status, "disconnected"}
  BY DEF recoverFromFrameError

\* What a step does to the status and the code.
StatusMoves ==
    \/ status' \in {status, "disconnected", "initializing", "qr"} /\ qr' = qr
    \/ status' = "qr" /\ qr' = TRUE
    \/ qr' = FALSE

LEMMA StepStatus ==
    ASSUME [Next]_vars
    PROVE  StatusMoves
<1> USE DEF StatusMoves
<1>1. CASE StartStep
  BY <1>1
  DEF StartStep, Launch, LoopResolves, LoopRejected, LoopDestroys, LoopTriesAgain,
      RecoveryDestroys, RecoveryResolves, RecoveryRejected
<1>2. CASE PageStep \/ AuthFailureEvent \/ PageDies
  BY <1>2
  DEF PageStep, QrEvent, AuthenticatedEvent, DropsQr, ReadyEvent, AuthFailureEvent, PageDies
<1>3. CASE DisconnectedEvent \/ SendFrameError \/ PassFails \/ PassFrameError
  BY <1>3, RecoverStatus DEF DisconnectedEvent, SendFrameError, PassFails, PassFrameError
<1>4. CASE HeartbeatReturns \/ WatchdogFires
  BY <1>4, RecoverStatus DEF HeartbeatReturns, WatchdogFires
<1>5. CASE SendBegins \/ SendEnds \/ ReconcileFires \/ IntervalPasses \/ PassSucceeds
  BY <1>5 DEF SendBegins, SendEnds, ReconcileFires, IntervalPasses, PassSucceeds
<1>6. CASE HeartbeatFires \/ SettleTimerFires
  BY <1>6 DEF HeartbeatFires, SettleTimerFires
<1>7. CASE Login \/ LoginReturns \/ Logout \/ LogoutStep
  BY <1>7
  DEF Login, LoginReturns, Logout, LogoutStep, LogoutWaited, LogoutUnlinks, LogoutCloses, LogoutDone
<1>8. CASE UNCHANGED vars
  BY <1>8
<1> QED
  BY <1>1, <1>2, <1>3, <1>4, <1>5, <1>6, <1>7, <1>8 DEF Next, PassStep

\* No code is on offer for a session that is linked or logged out, stale answers or not.
THEOREM NoCodeOnceLinked == Spec => []NoQrOnceLinked
<1>1. Init => NoQrOnceLinked
  BY DEF Init, NoQrOnceLinked
<1>2. NoQrOnceLinked /\ [Next]_vars => NoQrOnceLinked'
  BY StepStatus DEF StatusMoves, NoQrOnceLinked
<1> QED
  BY <1>1, <1>2, PTL DEF Spec

----------------------------------------------------------------------------
(* The pause after a restart *)

\* A power of two is a number: it counts the subsets of a set of n.
LEMMA PowerOfTwo == \A n \in Nat : 2 ^ n \in Nat
<1> SUFFICES ASSUME NEW n \in Nat PROVE 2 ^ n \in Nat
  OBVIOUS
<1>1. IsFiniteSet(1 .. n) /\ Cardinality(1 .. n) = n
  BY FS_Interval
<1>2. IsFiniteSet(SUBSET (1 .. n)) /\ Cardinality(SUBSET (1 .. n)) = 2 ^ n
  BY <1>1, FS_SUBSET
<1> QED
  BY <1>2, FS_CardinalityType

LadderTypes ==
    /\ reconcileFailures \in 0 .. ReconcileMaxFailures - 1
    /\ reconcileRestarts \in 0 .. MaxRestarts
    /\ pause \in 0 .. BackoffMax
LadderInv == reconciling \in BOOLEAN /\ LadderTypes /\ PauseHolds

\* What a step does to the pass and the ladder.
LadderMoves ==
    \/ UNCHANGED <<reconciling, ladderVars>>
    \/ pause = 0 /\ reconciling' = TRUE /\ UNCHANGED ladderVars
    \/ reconciling' = FALSE /\ UNCHANGED ladderVars
    \/ IntervalPasses \/ PassSucceeds \/ PassFails

LEMMA StepLadder ==
    ASSUME [Next]_vars, reconciling \in BOOLEAN
    PROVE  LadderMoves
<1> USE DEF LadderMoves
<1>1. CASE StartStep
  BY <1>1
  DEF StartStep, Launch, LoopResolves, LoopRejected, LoopDestroys, LoopTriesAgain, destroyClient,
      RecoveryDestroys, RecoveryResolves, RecoveryRejected
<1>2. CASE PageStep \/ AuthFailureEvent \/ PageDies \/ DisconnectedEvent
  BY <1>2
  DEF PageStep, QrEvent, AuthenticatedEvent, ReadyEvent, AuthFailureEvent, PageDies, DisconnectedEvent
<1>3. CASE SendBegins \/ SendEnds \/ SendFrameError
  BY <1>3 DEF SendBegins, SendEnds, SendFrameError
<1>4. CASE ReconcileFires
  BY <1>4 DEF ReconcileFires, canReconcile
<1>5. CASE PassFrameError
  BY <1>5 DEF PassFrameError
<1>6. CASE HeartbeatFires \/ HeartbeatReturns \/ WatchdogFires
  BY <1>6 DEF HeartbeatFires, HeartbeatReturns, WatchdogFires
<1>7. CASE SettleTimerFires
  <2>1. UNCHANGED ladderVars
    BY <1>7 DEF SettleTimerFires
  <2>2. reconciling' = reconciling \/ (reconciling' = TRUE /\ pause = 0)
    <3>1. CASE reconciling' = reconciling
      BY <3>1
    <3>2. CASE reconciling' = (reconciling \/ canReconcile(TRUE))
      BY <3>2 DEF canReconcile
    <3> QED
      BY <1>7, <3>1, <3>2 DEF SettleTimerFires
  <2> QED
    BY <2>1, <2>2
<1>8. CASE Login \/ LoginReturns \/ Logout \/ LogoutStep
  BY <1>8
  DEF Login, LoginReturns, Logout, LogoutStep, LogoutWaited, LogoutUnlinks, LogoutCloses,
      destroyClient, LogoutDone
<1>9. CASE UNCHANGED vars
  BY <1>9
<1> QED
  BY <1>1, <1>2, <1>3, <1>4, <1>5, <1>6, <1>7, <1>8, <1>9 DEF Next, PassStep

LEMMA LadderStep ==
    ASSUME LadderInv, LadderMoves
    PROVE  LadderInv'
<1> SUFFICES LadderTypes' /\ reconciling' \in BOOLEAN /\ PauseHolds'
  BY DEF LadderInv
<1>1. CASE UNCHANGED <<reconciling, ladderVars>>
  BY <1>1 DEF LadderInv, LadderTypes, PauseHolds
<1>2. CASE UNCHANGED ladderVars /\ (reconciling' = FALSE \/ (reconciling' = TRUE /\ pause = 0))
  <2>1. LadderTypes' /\ reconciling' \in BOOLEAN
    BY <1>2 DEF LadderInv, LadderTypes
  <2>2. pause = 0 => ~(pause > 0)
    OBVIOUS
  <2> QED
    BY <1>2, <2>1, <2>2 DEF LadderInv, PauseHolds
<1>3. CASE IntervalPasses
  <2>1. LadderTypes' /\ (pause' > 0 => pause > 0)
    <3>1. /\ pause > 0 /\ pause' = pause - 1
          /\ UNCHANGED <<reconcileFailures, reconcileRestarts>>
      BY <1>3 DEF IntervalPasses
    <3>2. LadderTypes
      BY DEF LadderInv
    <3> QED
      BY <3>1, <3>2, LimitsAssumption DEF LadderTypes
  <2>2. reconciling' = reconciling /\ reconcileRestarts' = reconcileRestarts
    BY <1>3 DEF IntervalPasses
  <2> QED
    BY <2>1, <2>2 DEF LadderInv, PauseHolds
<1>4. CASE PassSucceeds
  <2>1. LadderTypes' /\ ~(pause' > 0)
    BY <1>4, LimitsAssumption DEF PassSucceeds, LadderTypes
  <2> QED
    BY <1>4, <2>1 DEF PassSucceeds, PauseHolds
<1>5. CASE PassFails
  <2>1. reconciling' = FALSE
    BY <1>5 DEF PassFails
  <2>2. CASE UNCHANGED <<reconcileRestarts, pause>>
             /\ reconcileFailures' = reconcileFailures + 1
             /\ reconcileFailures + 1 < ReconcileMaxFailures
    <3>1. LadderTypes'
      BY <2>2, LimitsAssumption DEF LadderInv, LadderTypes
    <3> QED
      BY <2>1, <2>2, <3>1 DEF LadderInv, PauseHolds
  <2>3. CASE /\ reconcileRestarts < MaxRestarts /\ reconcileFailures' = 0
             /\ reconcileRestarts' = reconcileRestarts + 1 /\ pause' = nextReconcileBackoff
    <3>1. 2 ^ reconcileRestarts \in Nat
      BY PowerOfTwo DEF LadderInv, LadderTypes
    <3>2. nextReconcileBackoff \in 0 .. BackoffMax
      BY <3>1, LimitsAssumption DEF nextReconcileBackoff
    <3>3. LadderTypes' /\ reconcileRestarts' > 0
      BY <2>3, <3>2, LimitsAssumption DEF LadderInv, LadderTypes
    <3> QED
      BY <2>1, <3>3 DEF PauseHolds
  <2> QED
    BY <1>5, <2>2, <2>3 DEF PassFails
<1> QED
  BY <1>1, <1>2, <1>3, <1>4, <1>5 DEF LadderMoves

LEMMA LadderIsSafe == Spec => []LadderInv
<1>1. Init => LadderInv
  <2> SUFFICES ASSUME Init PROVE LadderInv
    OBVIOUS
  <2>1. LadderTypes /\ ~(pause > 0)
    BY LimitsAssumption DEF Init, LadderTypes
  <2> QED
    BY <2>1 DEF Init, LadderInv, PauseHolds
<1>2. LadderInv /\ [Next]_vars => LadderInv'
  BY StepLadder, LadderStep DEF LadderInv
<1> QED
  BY <1>1, <1>2, PTL DEF Spec

\* No pass runs during the pause after a restart, whatever the new session does and whoever
\* logs out and in meanwhile.
THEOREM PauseIsKept == Spec => []PauseHolds
<1>1. LadderInv => PauseHolds
  BY DEF LadderInv
<1> QED
  BY <1>1, LadderIsSafe, PTL
----------------------------------------------------------------------------
(* Types *)

\* A loop that is between two attempts has another one left.
AttemptInv ==
    /\ attempt \in [Starts -> 1 .. InitMaxAttempts]
    /\ \A s \in Loops : stage[s] \in {"destroying", "sleeping"} => attempt[s] < InitMaxAttempts

LEMMA AttemptStep ==
    ASSUME AttemptInv, StartInv, [Next]_vars
    PROVE  AttemptInv'
<1> "recovery" \notin Loops /\ \A s \in Loops : s \in Starts
  BY StartsAssumption DEF Starts, Loops
<1> USE DEF AttemptInv, StartInv
<1>1. ASSUME NEW s \in Starts, Launch(s) PROVE AttemptInv'
  BY <1>1 DEF Launch
<1>2. ASSUME NEW s \in Loops, LoopResolves(s) PROVE AttemptInv'
  BY <1>2 DEF LoopResolves, settles
<1>3. ASSUME NEW s \in Loops, LoopRejected(s) PROVE AttemptInv'
  <2>1. attempt' = attempt /\ stage \in [Starts -> Awaits]
    BY <1>3 DEF LoopRejected
  <2>2. CASE OutOfAttempts(s)
    BY <1>3, <2>1, <2>2 DEF LoopRejected, settles
  <2>3. CASE ~OutOfAttempts(s)
    <3>1. attempt[s] < InitMaxAttempts
      BY <2>3, LimitsAssumption DEF OutOfAttempts
    <3> QED
      BY <1>3, <2>1, <2>3, <3>1 DEF LoopRejected
  <2> QED
    BY <2>2, <2>3
<1>4. ASSUME NEW s \in Loops, LoopDestroys(s) PROVE AttemptInv'
  BY <1>4 DEF LoopDestroys
<1>5. ASSUME NEW s \in Loops, LoopTriesAgain(s) PROVE AttemptInv'
  <2>1. attempt[s] + 1 \in 1 .. InitMaxAttempts
    BY <1>5, LimitsAssumption DEF LoopTriesAgain
  <2>2. attempt' \in [Starts -> 1 .. InitMaxAttempts]
        /\ \A q \in Starts \ {s} : attempt'[q] = attempt[q]
    BY <1>5, <2>1 DEF LoopTriesAgain
  <2>3. stage'[s] \in {"off", "launching"} /\ \A q \in Starts \ {s} : stage'[q] = stage[q]
    BY <1>5 DEF LoopTriesAgain, settles
  <2> QED
    BY <2>2, <2>3
<1>6. CASE RecoveryDestroys \/ RecoveryResolves \/ RecoveryRejected
  BY <1>6 DEF RecoveryDestroys, RecoveryResolves, RecoveryRejected, settles
<1>7. CASE Login
  <2>1. CASE UNCHANGED <<stage, attempt>>
    BY <2>1
  <2>2. ASSUME NEW s \in LoginLoops, stage' = [stage EXCEPT ![s] = "launching"],
               attempt' = [attempt EXCEPT ![s] = 1]
        PROVE  AttemptInv'
    <3>1. s \in Loops /\ s \in Starts
      BY <2>2 DEF Loops, Starts
    <3>2. 1 \in 1 .. InitMaxAttempts
      BY LimitsAssumption
    <3>3. attempt' \in [Starts -> 1 .. InitMaxAttempts]
          /\ \A q \in Starts \ {s} : attempt'[q] = attempt[q]
      BY <2>2, <3>1, <3>2
    <3>4. stage'[s] = "launching" /\ \A q \in Starts \ {s} : stage'[q] = stage[q]
      BY <2>2, <3>1
    <3> QED
      BY <3>3, <3>4
  <2> QED
    BY <1>7, <2>1, <2>2 DEF Login
<1>8. ASSUME UNCHANGED attempt,
             stage' = stage \/ stage' = [stage EXCEPT !["recovery"] = "destroying"]
      PROVE  AttemptInv'
  BY <1>8
<1>9. CASE recoverFromFrameError
  BY <1>8, <1>9 DEF recoverFromFrameError
<1>10. CASE UNCHANGED <<stage, attempt>>
  BY <1>8, <1>10
<1> QED
  BY <1>1, <1>2, <1>3, <1>4, <1>5, <1>6, <1>7, <1>9, <1>10
  DEF Next, StartStep, PageStep, PassStep, LogoutStep, QrEvent, AuthenticatedEvent, ReadyEvent,
      AuthFailureEvent, DisconnectedEvent, PageDies, SendBegins, SendEnds, SendFrameError,
      ReconcileFires, IntervalPasses, PassSucceeds, PassFails, PassFrameError, HeartbeatFires,
      HeartbeatReturns, WatchdogFires, SettleTimerFires, LoginReturns, Logout, LogoutWaited,
      LogoutUnlinks, LogoutCloses, LogoutDone
\* The variables that no invariant above is about: the flags, and the others.
FlagTypes ==
    /\ sending \in BOOLEAN /\ qr \in BOOLEAN /\ loggedOut \in BOOLEAN /\ settled \in BOOLEAN
    /\ heartbeat \in BOOLEAN /\ watchdog \in BOOLEAN /\ settleTimer \in BOOLEAN
    /\ reconcileTimer \in BOOLEAN
OtherTypes ==
    /\ faults \in Nat /\ page \in Pages /\ doomed \subseteq Starts /\ status \in Statuses
    /\ beat \in {"none", "ready", "waiting"} /\ op \in Ops /\ awaited \in Starts \cup {NoStart}

LEMMA FaultCounts ==
    ASSUME faults \in Nat, Fault
    PROVE  faults' \in Nat
BY DEF Fault

LEMMA FlagTypesStep ==
    ASSUME FlagTypes, [Next]_vars
    PROVE  FlagTypes'
<1> USE DEF FlagTypes
<1>1. ASSUME NEW s \in Starts, Launch(s) PROVE FlagTypes'
  BY <1>1 DEF Launch
<1>2. ASSUME NEW s \in Loops, LoopResolves(s) PROVE FlagTypes'
  BY <1>2 DEF LoopResolves
<1>3. ASSUME NEW s \in Loops, LoopRejected(s) PROVE FlagTypes'
  BY <1>3 DEF LoopRejected
<1>4. ASSUME NEW s \in Loops, LoopDestroys(s) PROVE FlagTypes'
  BY <1>4 DEF LoopDestroys
<1>5. ASSUME NEW s \in Loops, LoopTriesAgain(s) PROVE FlagTypes'
  BY <1>5 DEF LoopTriesAgain
<1>6. CASE RecoveryDestroys
  BY <1>6 DEF RecoveryDestroys, Rearm
<1>7. CASE RecoveryResolves
  BY <1>7 DEF RecoveryResolves
<1>8. CASE RecoveryRejected
  BY <1>8 DEF RecoveryRejected
<1>9. CASE QrEvent
  BY <1>9 DEF QrEvent
<1>10. CASE AuthenticatedEvent
  BY <1>10 DEF AuthenticatedEvent, DropsQr
<1>11. CASE ReadyEvent
  BY <1>11 DEF ReadyEvent, scheduleSettledStart
<1>12. CASE AuthFailureEvent
  BY <1>12 DEF AuthFailureEvent
<1>13. CASE DisconnectedEvent
  BY <1>13 DEF DisconnectedEvent
<1>14. CASE PageDies
  BY <1>14 DEF PageDies
<1>15. CASE SendBegins
  BY <1>15 DEF SendBegins
<1>16. CASE SendEnds
  BY <1>16 DEF SendEnds
<1>17. CASE SendFrameError
  BY <1>17 DEF SendFrameError
<1>18. CASE ReconcileFires
  BY <1>18 DEF ReconcileFires
<1>19. CASE IntervalPasses
  BY <1>19 DEF IntervalPasses
<1>20. CASE PassSucceeds
  BY <1>20 DEF PassSucceeds
<1>21. CASE PassFails
  BY <1>21 DEF PassFails
<1>22. CASE PassFrameError
  BY <1>22 DEF PassFrameError
<1>23. CASE HeartbeatFires
  BY <1>23 DEF HeartbeatFires
<1>24. CASE HeartbeatReturns
  BY <1>24 DEF HeartbeatReturns
<1>25. CASE WatchdogFires
  BY <1>25 DEF WatchdogFires
<1>26. CASE SettleTimerFires
  BY <1>26 DEF SettleTimerFires, startReconcile
<1>27. CASE Login
  BY <1>27 DEF Login
<1>28. CASE LoginReturns
  BY <1>28 DEF LoginReturns
<1>29. CASE Logout
  BY <1>29 DEF Logout, stopTimers, stopReconcile
<1>30. CASE LogoutWaited
  BY <1>30 DEF LogoutWaited
<1>31. CASE LogoutUnlinks
  BY <1>31 DEF LogoutUnlinks
<1>32. CASE LogoutCloses
  BY <1>32 DEF LogoutCloses, stopTimers, stopReconcile
<1>33. CASE LogoutDone
  BY <1>33 DEF LogoutDone
<1>34. CASE UNCHANGED vars
  BY <1>34
<1> QED
  BY <1>1, <1>2, <1>3, <1>4, <1>5, <1>6, <1>7, <1>8, <1>9, <1>10, <1>11, <1>12, <1>13,
     <1>14, <1>15, <1>16, <1>17, <1>18, <1>19, <1>20, <1>21, <1>22, <1>23, <1>24,
     <1>25, <1>26, <1>27, <1>28, <1>29, <1>30, <1>31, <1>32, <1>33, <1>34
  DEF Next, StartStep, PageStep, PassStep, LogoutStep

LEMMA OtherTypesStep ==
    ASSUME OtherTypes, StartInv, [Next]_vars
    PROVE  OtherTypes'
<1> "recovery" \in Starts /\ \A s \in Loops : s \in Starts
  BY DEF Starts
<1> USE DEF OtherTypes
<1>1. ASSUME NEW s \in Starts, Launch(s) PROVE OtherTypes'
  BY <1>1 DEF Launch, Pages
<1>2. ASSUME NEW s \in Loops, LoopResolves(s) PROVE OtherTypes'
  BY <1>2 DEF LoopResolves
<1>3. ASSUME NEW s \in Loops, LoopRejected(s) PROVE OtherTypes'
  BY FaultCounts, <1>3 DEF LoopRejected, Rejected, Statuses
<1>4. ASSUME NEW s \in Loops, LoopDestroys(s) PROVE OtherTypes'
  BY <1>4 DEF LoopDestroys, destroyClient, Pages
<1>5. ASSUME NEW s \in Loops, LoopTriesAgain(s) PROVE OtherTypes'
  BY <1>5 DEF LoopTriesAgain
<1>6. CASE RecoveryDestroys
  BY <1>6 DEF RecoveryDestroys, destroyClient, Pages, Statuses
<1>7. CASE RecoveryResolves
  BY <1>7 DEF RecoveryResolves
<1>8. CASE RecoveryRejected
  BY FaultCounts, <1>8 DEF RecoveryRejected, Rejected, Statuses
<1>9. CASE QrEvent
  BY <1>9 DEF QrEvent, Pages, Statuses
<1>10. CASE AuthenticatedEvent
  BY <1>10 DEF AuthenticatedEvent, Pages, Statuses
<1>11. CASE ReadyEvent
  BY <1>11 DEF ReadyEvent, Pages, Statuses
<1>12. CASE AuthFailureEvent
  BY FaultCounts, <1>12 DEF AuthFailureEvent, Pages, Statuses
<1>13. CASE DisconnectedEvent
  BY FaultCounts, <1>13 DEF DisconnectedEvent, recoverFromFrameError, Pages, Statuses
<1>14. CASE PageDies
  BY FaultCounts, <1>14 DEF PageDies, Pages
<1>15. CASE SendBegins \/ SendEnds
  BY <1>15 DEF SendBegins, SendEnds
<1>16. CASE SendFrameError
  BY FaultCounts, <1>16 DEF SendFrameError, FrameErrorHeard, recoverFromFrameError, Statuses
<1>17. CASE ReconcileFires \/ IntervalPasses \/ PassSucceeds
  BY <1>17 DEF ReconcileFires, IntervalPasses, PassSucceeds
<1>18. CASE PassFails
  BY <1>18 DEF PassFails, recoverFromFrameError, Statuses
<1>19. CASE PassFrameError
  BY FaultCounts, <1>19 DEF PassFrameError, FrameErrorHeard, recoverFromFrameError, Statuses
<1>20. CASE HeartbeatFires
  BY <1>20 DEF HeartbeatFires
<1>21. CASE HeartbeatReturns
  BY FaultCounts, <1>21 DEF HeartbeatReturns, recoverFromFrameError, Statuses
<1>22. CASE WatchdogFires
  BY <1>22 DEF WatchdogFires, recoverFromFrameError, Statuses
<1>23. CASE SettleTimerFires
  BY <1>23 DEF SettleTimerFires
<1>24. CASE Login
  BY <1>24 DEF Login, Statuses, Ops
<1>25. CASE LoginReturns
  BY <1>25 DEF LoginReturns, Ops
<1>26. CASE Logout
  BY <1>26 DEF Logout, StartInv, Ops
<1>27. CASE LogoutWaited
  BY FaultCounts, <1>27 DEF LogoutWaited, Ops
<1>28. CASE LogoutUnlinks
  BY <1>28 DEF LogoutUnlinks, Pages, Ops
<1>29. CASE LogoutCloses
  BY <1>29 DEF LogoutCloses, destroyClient, Pages, Ops
<1>30. CASE LogoutDone
  BY <1>30 DEF LogoutDone, Statuses, Ops
<1>31. CASE UNCHANGED vars
  BY <1>31
<1> QED
  BY <1>1, <1>2, <1>3, <1>4, <1>5, <1>6, <1>7, <1>8, <1>9, <1>10, <1>11, <1>12, <1>13,
     <1>14, <1>15, <1>16, <1>17, <1>18, <1>19, <1>20, <1>21, <1>22, <1>23, <1>24,
     <1>25, <1>26, <1>27, <1>28, <1>29, <1>30, <1>31
  DEF Next, StartStep, PageStep, PassStep, LogoutStep

\* Every reachable state of the session is well typed: attempts, failures, restarts and pauses
\* stay within what the settings allow.
THEOREM TypeCorrect == Spec => []TypeOK
<1>1. ASSUME Init PROVE AttemptInv /\ OtherTypes /\ FlagTypes
  <2>1. attempt \in [Starts -> 1 .. InitMaxAttempts]
        /\ \A s \in Starts : attempt[s] = 1
    BY <1>1, LimitsAssumption DEF Init
  <2>2. \A s \in Starts : stage[s] \in {"off", "launching"}
    BY <1>1 DEF Init
  <2>3. AttemptInv
    BY <2>1, <2>2 DEF AttemptInv, Loops, Starts
  <2>4. OtherTypes
    BY <1>1 DEF Init, OtherTypes, Pages, Statuses, Ops
  <2>5. FlagTypes
    BY <1>1 DEF Init, FlagTypes
  <2> QED
    BY <2>3, <2>4, <2>5
<1>2. StartInv /\ AttemptInv /\ [Next]_vars => AttemptInv'
  BY AttemptStep
<1>3. StartInv /\ OtherTypes /\ [Next]_vars => OtherTypes'
  BY OtherTypesStep
<1>4. FlagTypes /\ [Next]_vars => FlagTypes'
  BY FlagTypesStep
<1>5. ASSUME StartInv, AttemptInv, OtherTypes, FlagTypes, LadderInv PROVE TypeOK
  BY <1>5 DEF TypeOK, StartInv, AttemptInv, OtherTypes, FlagTypes, LadderInv, LadderTypes
<1> QED
  BY <1>1, <1>2, <1>3, <1>4, <1>5, StartsAreSafe, LadderIsSafe, PTL DEF Spec
=============================================================================
