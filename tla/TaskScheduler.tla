---------------------------- MODULE TaskScheduler ----------------------------
(***************************************************************************)
(* TaskSchedulerService, the loop that runs emitAnchorEventIfReady or      *)
(* anchorRequests: one run, then the interval, then the next, until stop() *)
(* is called, the task fails (the process exits), or, if there is a        *)
(* cbAfterNoOp, a run has nothing to do.  A stop() may come at any point   *)
(* of the loop.  The application that calls start and stop is AppLifecycle. *)
(***************************************************************************)
EXTENDS Integers

CONSTANT MaxRuns  \* bound: runs of the task

ASSUME RunsAssumption == MaxRuns \in Nat

VARIABLES
    hasCallback,  \* cbAfterNoOp is given
    scheduled,    \* _scheduledTask$ is set
    loop,         \* state of the subscription
    aborted,      \* _controller has aborted, for good
    stopping,     \* calls of stop() that wait for the loop to complete
    stopped,      \* a stop() has resolved since the last start()
    outcome,      \* of the last run since start(): its result, or "failed"
    calledBack,   \* the loop has completed and called cbAfterNoOp
    runs          \* runs begun so far

vars == <<hasCallback, scheduled, loop, aborted, stopping, stopped, outcome,
          calledBack, runs>>

Closed == {"none", "completed", "exited"}

Init ==
    /\ hasCallback \in BOOLEAN
    /\ scheduled = FALSE /\ loop = "none"
    /\ aborted = FALSE /\ stopping = 0 /\ stopped = FALSE
    /\ outcome = "none" /\ calledBack = FALSE
    /\ runs = 0

Continue(state) ==
    /\ loop' = state
    /\ scheduled' = TRUE /\ stopped' = FALSE /\ calledBack' = FALSE
    /\ UNCHANGED stopping

\* A mutant: the calls of stop() are not told of the end of the loop.
CompleteUntold ==
    /\ loop' = "completed"
    /\ calledBack' = hasCallback
    /\ UNCHANGED <<scheduled, stopping, stopped>>

\* The first subscriber calls cbAfterNoOp, those of the stop() calls forget the
\* task and resolve.
Complete ==
    /\ loop' = "completed"
    /\ calledBack' = hasCallback
    /\ scheduled' = (stopping = 0) /\ stopped' = (stopping > 0)
    /\ stopping' = 0

\* A mutant: the signal is looked at only after a run.
RunTask == Continue("running") /\ runs' = runs + 1

\* defer: a run of the task or, once aborted, the end of the loop.
BeginRun ==
    \/ ~aborted /\ runs < MaxRuns /\ Continue("running") /\ runs' = runs + 1
    \/ aborted /\ Complete /\ runs' = runs

Start ==
    /\ ~scheduled
    /\ BeginRun
    /\ outcome' = "none"
    /\ UNCHANGED <<hasCallback, aborted>>

TimerFires ==
    /\ loop = "waiting"
    /\ BeginRun
    /\ UNCHANGED <<hasCallback, aborted, outcome>>

\* expand: the loop ends when aborted, or after a no-op if there is a callback.
LoopEnds(result) == aborted \/ (hasCallback /\ ~result)

TaskReturns ==
    /\ loop = "running"
    /\ \E result \in BOOLEAN :
         /\ outcome' = IF result THEN "true" ELSE "false"
         /\ IF LoopEnds(result) THEN Complete ELSE Continue("waiting")
    /\ UNCHANGED <<hasCallback, aborted, runs>>

\* catchError: the loop completes if aborted, otherwise the process exits.
TaskFails ==
    /\ loop = "running"
    /\ outcome' = "failed"
    /\ IF aborted THEN Complete ELSE Continue("exited")
    /\ UNCHANGED <<hasCallback, aborted, runs>>

Stop ==
    /\ \/ /\ loop \in {"none", "completed"}
          /\ stopped' = TRUE
          /\ UNCHANGED <<aborted, stopping>>
       \/ /\ loop \notin Closed
          /\ stopping' = stopping + 1
          /\ aborted' = TRUE
          /\ UNCHANGED stopped
    /\ UNCHANGED <<hasCallback, scheduled, loop, outcome, calledBack, runs>>

\* The service alone: whoever holds it calls start and stop at any time.
SchedulerNext == Start \/ TimerFires \/ TaskReturns \/ TaskFails \/ Stop
SchedulerSpec == Init /\ [][SchedulerNext]_vars

-----------------------------------------------------------------------------

\* After the abort no run begins, neither the one a timer was set for nor that of
\* a later start().
NoRunAfterAbort == [][aborted => runs' = runs]_vars
=============================================================================
