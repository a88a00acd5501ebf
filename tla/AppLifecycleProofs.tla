------------------------- MODULE AppLifecycleProofs -------------------------
(***************************************************************************)
(* Proofs about AppLifecycle: what a shutdown may not do, for any number   *)
(* of runs, attempts at the witness table and failures.                    *)
(***************************************************************************)
EXTENDS AppLifecycle, TLAPS

AppStep == [AppNext]_<<vars, appVars>>

\* The steps of a process, by what they touch.
LEMMA StepsOfProcess ==
  ASSUME AppStep
  PROVE  \/ exit = "none" /\ UNCHANGED <<mode, usesIpfs, onDynamoDb>>
              /\ \/ StartSteps \/ TableSteps \/ OtherCreatesTable
                 \/ AnchorOnce \/ SchedulerRuns
                 \/ SubscriptionFails \/ Subscribe \/ HandleMessage \/ MessageHandled
                 \/ ShutdownSignal \/ ShutdownSteps \/ Killed
         \/ UNCHANGED <<vars, appVars>>
  BY DEF AppStep, AppNext, Step

-----------------------------------------------------------------------------
(* No run is cut off.                                                      *)

\* The inductive invariant.  The loop is only begun when the process is up, the
\* shutdown only follows then, and it goes on to close the subscription when the
\* loop is over.
QuietInv ==
    /\ hasCallback \in BOOLEAN /\ calledBack \in BOOLEAN
    /\ stopped \in BOOLEAN /\ aborted \in BOOLEAN /\ stopping \in Nat
    /\ phase # "up" => loop = "none"
    /\ stopped => loop \in {"none", "completed"} /\ phase = "up"
    /\ shutdown # "none" => phase = "up" /\ (aborted \/ loop \in Closed)
    /\ shutdown = "ipfs" => stopped
    /\ pubsub = "closed" => shutdown = "ipfs"
    /\ exit = "clean" => loop \notin {"running", "waiting"} /\ phase # "anchoring"

LEMMA QuietInit == AppInit => QuietInv
  <1>1. AppInit => stopping \in Nat
    BY DEF AppInit, Init
  <1> QED
    BY <1>1, Zenon DEF AppInit, Init, QuietInv

LEMMA CompletionIsQuiet ==
  ASSUME QuietInv, Complete
  PROVE  /\ loop' = "completed" /\ stopping' \in Nat
         /\ stopped' \in BOOLEAN /\ calledBack' \in BOOLEAN
  <1>1. /\ loop' = "completed" /\ stopping' = 0
        /\ calledBack' = hasCallback /\ stopped' = (stopping > 0)
    BY DEF Complete
  <1>2. (stopping > 0) \in BOOLEAN
    BY DEF QuietInv
  <1> QED
    BY <1>1, <1>2 DEF QuietInv

\* A loop that goes on has not been stopped, and one that is aborted does not go on.
LEMMA LoopTurns ==
  ASSUME QuietInv, TimerFires \/ TaskReturns \/ TaskFails
  PROVE  /\ loop \in {"waiting", "running"} /\ UNCHANGED <<hasCallback, aborted>>
         /\ stopped' \in BOOLEAN /\ calledBack' \in BOOLEAN /\ stopping' \in Nat
         /\ \/ loop' = "completed"
            \/ ~aborted /\ loop' \in {"running", "waiting", "exited"} /\ ~stopped' /\ ~calledBack'
  <1>1. loop \in {"waiting", "running"} /\ UNCHANGED <<hasCallback, aborted>>
    BY DEF TimerFires, TaskReturns, TaskFails
  <1>2. \/ Complete
        \/ \E state \in {"running", "waiting", "exited"} : ~aborted /\ Continue(state)
    BY DEF TimerFires, BeginRun, TaskReturns, LoopEnds, TaskFails
  <1>3. CASE Complete
    BY <1>1, <1>3, CompletionIsQuiet
  <1>4. ASSUME NEW state \in {"running", "waiting", "exited"}, Continue(state)
        PROVE  loop' = state /\ ~stopped' /\ ~calledBack' /\ stopping' = stopping
    BY <1>4 DEF Continue
  <1>5. ASSUME NEW state, Continue(state)
        PROVE  stopped' \in BOOLEAN /\ calledBack' \in BOOLEAN
    BY <1>5 DEF Continue
  <1> QED
    BY <1>1, <1>2, <1>3, <1>4, <1>5 DEF QuietInv

LEMMA QuietStep ==
  ASSUME QuietInv, AppStep
  PROVE  QuietInv'
  <1> USE DEF QuietInv, Closed
  <1>1. CASE exit = "none" /\ StartSteps
    <2>1. CASE StartScheduler
      <3>1. /\ phase = "mode" /\ phase' = "up" /\ BeginRun
            /\ UNCHANGED <<hasCallback, aborted, shutdown, pubsub, exit>>
        BY <2>1 DEF StartScheduler, Start
      <3>2. CASE Continue("running")
        <4>1. stopped' = FALSE /\ calledBack' = FALSE /\ loop' = "running" /\ stopping' = stopping
          BY <3>2 DEF Continue
        <4> QED
          BY <1>1, <3>1, <4>1
      <3>3. CASE Complete
        BY <1>1, <3>1, <3>3, CompletionIsQuiet
      <3> QED
        BY <3>1, <3>2, <3>3 DEF BeginRun
    <2>2. CASE Connect \/ InitIpfs \/ InitWitness
      BY <1>1, <2>2 DEF Connect, InitIpfs, InitWitness, Crash, vars
    <2>3. CASE StartServer \/ StartAnchor \/ StartPubsubResponder
      BY <1>1, <2>3 DEF StartServer, StartAnchor, StartPubsubResponder, Starting, vars
    <2> QED
      BY <1>1, <2>1, <2>2, <2>3 DEF StartSteps
  <1>2. CASE exit = "none" /\ (TableSteps \/ OtherCreatesTable)
    BY <1>2
    DEF TableSteps, DescribeTable, CreateTable, UpdateTimeToLive, TryAgain,
        OtherCreatesTable, AttemptEnds, AttemptFails, vars
  <1>3. CASE exit = "none" /\ AnchorOnce
    BY <1>3 DEF AnchorOnce, vars
  <1>4. CASE exit = "none" /\ SchedulerRuns
    <2>1. /\ UNCHANGED <<phase, pubsub, shutdown>>
          /\ exit' = IF calledBack' THEN "clean" ELSE IF loop' = "exited" THEN "failed" ELSE exit
      BY <1>4 DEF SchedulerRuns
    <2> QED
      BY <1>4, <2>1, LoopTurns DEF SchedulerRuns
  <1>5. CASE exit = "none"
              /\ (SubscriptionFails \/ Subscribe \/ HandleMessage \/ MessageHandled)
    BY <1>5 DEF SubscriptionFails, Subscribe, HandleMessage, MessageHandled, Crash, vars
  <1>6. CASE exit = "none" /\ ShutdownSignal
    <2>1. /\ phase = "up" /\ shutdown = "none" /\ shutdown' = "schedulers"
          /\ UNCHANGED <<hasCallback, calledBack, loop, phase, pubsub, exit>>
      BY <1>6 DEF ShutdownSignal, Stop
    <2>2. CASE loop \in {"none", "completed"} /\ stopped' = TRUE /\ UNCHANGED <<aborted, stopping>>
      BY <1>6, <2>1, <2>2
    <2>3. CASE loop \notin Closed /\ stopping' = stopping + 1 /\ aborted' = TRUE /\ UNCHANGED stopped
      BY <1>6, <2>1, <2>3
    <2> QED
      BY <1>6, <2>2, <2>3 DEF ShutdownSignal, Stop
  <1>7. CASE exit = "none" /\ ShutdownSteps
    BY <1>7 DEF ShutdownSteps, SchedulersStopped, StopIpfs, Unsubscribe, Crash, vars
  <1>8. CASE exit = "none" /\ Killed
    BY <1>8 DEF Killed, vars
  <1>9. CASE UNCHANGED <<vars, appVars>>
    BY <1>9 DEF vars, appVars
  <1> QED
    BY <1>1, <1>2, <1>3, <1>4, <1>5, <1>6, <1>7, <1>8, <1>9, StepsOfProcess

LEMMA QuietHolds == AppSpec => []QuietInv
  BY QuietInit, QuietStep, PTL DEF AppSpec, AppStep

\* NothingIsCutOff: when a stop() has resolved, IPFS is closed or the process exits
\* with 0, nothing runs and no timer is set.
THEOREM NoRunIsCutOff == AppSpec => []NothingIsCutOff
  <1>1. QuietInv => NothingIsCutOff
    BY DEF QuietInv, NothingIsCutOff
  <1> QED
    BY <1>1, QuietHolds, PTL

-----------------------------------------------------------------------------
(* A shutdown is no failure.                                               *)

\* The creation of the witness table goes on after start() only if an attempt failed:
\* either something went wrong or another process has created the table.  With the
\* table there, only another error sends createTable on to create it.
FailureInv ==
    /\ errors \in Nat
    /\ phase \in {"connect", "ipfs"} => creation = "none"
    /\ shutdown # "none" => phase = "up"
    /\ phase # "witness" /\ creation \notin {"none", "done"} => tableExists \/ errors > 0
    /\ phase # "witness" /\ creation = "create" => errors > 0
    /\ AbortIsNoFailure

LEMMA FailureInit == AppInit => FailureInv
  BY DEF AppInit, Init, FailureInv, AbortIsNoFailure

LEMMA FailureStep ==
  ASSUME QuietInv, FailureInv, AppStep
  PROVE  FailureInv'
  <1> USE DEF FailureInv, AbortIsNoFailure
  <1>1. ASSUME Err PROVE errors' \in Nat /\ errors' > 0
    BY <1>1 DEF Err
  <1>2. CASE exit = "none" /\ StartSteps
    <2>1. CASE Connect \/ InitIpfs
      BY <1>1, <1>2, <2>1 DEF Connect, InitIpfs, Crash
    <2>2. CASE InitWitness
      BY <1>2, <2>2 DEF InitWitness
    <2>3. CASE StartServer \/ StartAnchor \/ StartPubsubResponder \/ StartScheduler
      BY <1>2, <2>3
      DEF StartServer, StartAnchor, StartPubsubResponder, StartScheduler, Starting
    <2> QED
      BY <1>2, <2>1, <2>2, <2>3 DEF StartSteps
  <1>3. CASE exit = "none" /\ (TableSteps \/ OtherCreatesTable)
    <2>1. CASE DescribeTable
      BY <1>1, <1>3, <2>1 DEF DescribeTable, AttemptEnds
    <2>2. CASE CreateTable
      BY <1>1, <1>3, <2>2 DEF CreateTable, AttemptFails, AttemptEnds
    <2>3. CASE UpdateTimeToLive
      BY <1>1, <1>3, <2>3 DEF UpdateTimeToLive, AttemptFails, AttemptEnds
    <2>4. CASE TryAgain \/ OtherCreatesTable
      BY <1>3, <2>4 DEF TryAgain, OtherCreatesTable
    <2> QED
      BY <1>3, <2>1, <2>2, <2>3, <2>4 DEF TableSteps
  <1>4. CASE exit = "none" /\ AnchorOnce
    BY <1>4 DEF AnchorOnce
  <1>5. CASE exit = "none" /\ SchedulerRuns
    <2>1. shutdown # "none" => loop' = "completed"
      BY <1>5, LoopTurns DEF SchedulerRuns, QuietInv, Closed
    <2>2. /\ UNCHANGED <<phase, tableExists, creation, shutdown, errors>>
          /\ exit' = IF calledBack' THEN "clean" ELSE IF loop' = "exited" THEN "failed" ELSE exit
      BY <1>5 DEF SchedulerRuns
    <2> QED
      BY <1>5, <2>1, <2>2
  <1>6. CASE exit = "none"
              /\ (SubscriptionFails \/ Subscribe \/ HandleMessage \/ MessageHandled)
    BY <1>1, <1>6 DEF SubscriptionFails, Subscribe, HandleMessage, MessageHandled, Crash
  <1>7. CASE exit = "none" /\ (ShutdownSignal \/ ShutdownSteps \/ Killed)
    BY <1>1, <1>7
    DEF ShutdownSignal, ShutdownSteps, SchedulersStopped, StopIpfs, Unsubscribe, Crash, Killed
  <1>8. CASE UNCHANGED <<vars, appVars>>
    BY <1>8 DEF appVars
  <1> QED
    BY <1>2, <1>3, <1>4, <1>5, <1>6, <1>7, <1>8, StepsOfProcess

\* AbortIsNoFailure: the error that an aborted run ends with never makes the process
\* exit as if anchoring had failed.
THEOREM ShutdownIsNoFailure == AppSpec => []AbortIsNoFailure
  <1>1. FailureInv => AbortIsNoFailure
    BY DEF FailureInv
  <1> QED
    BY <1>1, FailureInit, FailureStep, QuietHolds, PTL DEF AppSpec, AppStep

-----------------------------------------------------------------------------
(* The scheduler apart from the process that uses it.                      *)

\* A stop() that waits has aborted the loop and waits for one that will get to see it;
\* once a stop() has resolved there is no loop, until a start() begins one.
StopsAreKept ==
    /\ stopping \in Nat /\ loop \in Closed \cup {"running", "waiting"}
    /\ stopping > 0 => aborted /\ loop \in {"running", "waiting"}
    /\ stopped => loop \in {"none", "completed"}

LEMMA StopsStayKept ==
  ASSUME StopsAreKept, [SchedulerNext]_vars
  PROVE  StopsAreKept'
  <1>1. ASSUME Complete
        PROVE  StopsAreKept'
    <2>1. stopping' = 0 /\ loop' = "completed"
      BY <1>1 DEF Complete
    <2> QED
      BY <2>1 DEF Closed, StopsAreKept
  <1>2. ASSUME NEW state, Continue(state), state \in {"running", "waiting", "exited"},
               stopping = 0 \/ state # "exited", UNCHANGED aborted
        PROVE  StopsAreKept'
    BY <1>2 DEF Continue, Closed, StopsAreKept
  <1>3. CASE Start \/ TimerFires
    BY <1>1, <1>2, <1>3 DEF Start, TimerFires, BeginRun
  <1>4. CASE TaskReturns
    BY <1>1, <1>2, <1>4 DEF TaskReturns
  <1>5. CASE TaskFails
    <2>1. aborted \/ stopping = 0
      BY DEF StopsAreKept
    <2> QED
      BY <1>1, <1>2, <1>5, <2>1 DEF TaskFails
  <1>6. CASE Stop
    BY <1>6 DEF Stop, Closed, StopsAreKept
  <1>7. CASE UNCHANGED vars
    BY <1>7 DEF vars, StopsAreKept
  <1> QED
    BY <1>3, <1>4, <1>5, <1>6, <1>7 DEF SchedulerNext

\* However often and whenever start() and stop() are called: no call of stop() is left
\* waiting for a loop that is over, and none resolves while a run or a timer is on.
THEOREM StopsAreAnswered == SchedulerSpec => []StopsAreKept
  <1>1. Init => StopsAreKept
    BY DEF Init, Closed, StopsAreKept
  <1> QED
    BY <1>1, StopsStayKept, PTL DEF SchedulerSpec

\* Whichever way the loop comes back to the task after the abort, it completes.
LEMMA AbortedRunsNoMore == SchedulerSpec => NoRunAfterAbort
  <1>1. [SchedulerNext]_vars => [aborted => runs' = runs]_vars
    BY DEF SchedulerNext, Start, TimerFires, BeginRun, TaskReturns, TaskFails, Stop
  <1> QED
    BY <1>1, PTL DEF SchedulerSpec, NoRunAfterAbort

\* A process in any mode uses the scheduler as any holder of it may: each step of the
\* application is a step of the scheduler or leaves it alone.
THEOREM AppImplementsScheduler == AppSpec => SchedulerSpec
  <1>1. AppInit => Init
    BY DEF AppInit
  <1>2. AppStep => [SchedulerNext]_vars
    <2> SUFFICES ASSUME AppStep PROVE SchedulerNext \/ UNCHANGED vars
      OBVIOUS
    <2>1. CASE StartScheduler \/ SchedulerRuns \/ ShutdownSignal
      BY <2>1 DEF StartScheduler, SchedulerRuns, ShutdownSignal, SchedulerNext
    <2>2. CASE StartSteps /\ ~StartScheduler
      BY <2>2
      DEF StartSteps, Connect, InitIpfs, InitWitness, StartServer, StartAnchor,
          StartPubsubResponder, Starting
    <2>3. CASE TableSteps \/ OtherCreatesTable \/ AnchorOnce \/ Killed
      BY <2>3
      DEF TableSteps, DescribeTable, CreateTable, UpdateTimeToLive, TryAgain,
          OtherCreatesTable, AnchorOnce, Killed
    <2>4. CASE SubscriptionFails \/ Subscribe \/ HandleMessage \/ MessageHandled
                 \/ ShutdownSteps
      BY <2>4
      DEF SubscriptionFails, Subscribe, HandleMessage, MessageHandled, ShutdownSteps,
          SchedulersStopped, Unsubscribe
    <2> QED
      BY <2>1, <2>2, <2>3, <2>4, StepsOfProcess
  <1> QED
    BY <1>1, <1>2, PTL DEF AppSpec, AppStep, SchedulerSpec

\* NoRunAfterAbort: neither a timer that was set nor a later start() begins a run.
THEOREM AbortEndsRuns == AppSpec => NoRunAfterAbort
  BY AppImplementsScheduler, AbortedRunsNoMore, PTL
=============================================================================
