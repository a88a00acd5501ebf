---------------------------- MODULE AppLifecycle ----------------------------
(***************************************************************************)
(* One process of CeramicAnchorApp, from main() to its exit: start() opens *)
(* what the mode needs and starts its loop, its subscription or its single *)
(* run; a signal shuts continual anchoring and the pubsub responder down   *)
(* and kills the others.  The loop is TaskScheduler, whose task is          *)
(* anchorRequests or emitAnchorEventIfReady.                               *)
(*                                                                         *)
(* In the modes with an HTTP server the handler of multiprocess kills the  *)
(* server's workers and nothing else, so the process this module describes *)
(* goes on; workers are processes of the same kind.                        *)
(***************************************************************************)
EXTENDS TaskScheduler

CONSTANTS
    Retries,    \* WITNESS_TABLE_CREATION_RETRIES
    MaxErrors   \* bound: failures of IPFS, DynamoDB, the database and the queue

ASSUME ErrorsAssumption == MaxErrors \in Nat /\ Retries \in Nat \ {0}

VARIABLES
    mode,        \* config.mode
    usesIpfs,    \* CeramicAnchorApp.usesIpfs
    onDynamoDb,  \* witnesses are kept in DynamoDB, not in memory
    phase,       \* how far start() has come
    pubsub,      \* the subscription to the topic
    answering,   \* a query is being answered by handleMessage
    tableExists, \* the witness table, which other processes may create
    creation,    \* where createTable stands
    retries,     \* attempts createTable has left
    shutdown,    \* what the signal handler waits for
    exit,        \* of the process
    errors       \* failures so far, those of the task not counted

appVars == <<mode, usesIpfs, onDynamoDb, phase, pubsub, answering, tableExists,
             creation, retries, shutdown, exit, errors>>

AppMode == {"server", "anchor", "bundled", "scheduler", "continual-anchoring",
            "pubsub-responder"}

\* The modes that install handlers for SIGINT, SIGTERM and SIGQUIT.
Graceful == {"continual-anchoring", "pubsub-responder"}

\* In server mode IPFS is used if config.anchorControllerEnabled.
AppInit ==
    /\ Init
    /\ mode \in AppMode /\ onDynamoDb \in BOOLEAN
    /\ usesIpfs \in (IF mode = "server" THEN BOOLEAN ELSE {mode # "scheduler"})
    /\ hasCallback => mode = "continual-anchoring"
    /\ phase = "connect" /\ pubsub = "none" /\ answering = FALSE
    /\ tableExists \in BOOLEAN /\ creation = "none" /\ retries = Retries
    /\ shutdown = "none" /\ exit = "none" /\ errors = 0

Err == errors < MaxErrors /\ errors' = errors + 1

\* An error nobody catches, or a start() that rejects: the process exits with 1.
Crash == exit' = "failed" /\ Err

Starting == phase' = "up" /\ UNCHANGED <<vars, pubsub, answering, tableExists,
                                         creation, retries, shutdown, exit, errors>>

-----------------------------------------------------------------------------

Connect ==
    /\ phase = "connect"
    /\ \/ phase' = (IF usesIpfs THEN "ipfs" ELSE "witness") /\ UNCHANGED <<exit, errors>>
       \/ Crash /\ UNCHANGED phase
    /\ UNCHANGED <<vars, pubsub, answering, tableExists, creation, retries, shutdown>>

\* IpfsService.init: the responder does not wait for its subscription, the other
\* modes subscribe once and for all.
InitIpfs ==
    /\ phase = "ipfs"
    /\ \/ /\ phase' = "witness"
          /\ pubsub' = IF mode = "pubsub-responder" THEN "subscribing" ELSE "subscribed"
          /\ UNCHANGED <<exit, errors>>
       \/ Crash /\ UNCHANGED <<phase, pubsub>>
    /\ UNCHANGED <<vars, answering, tableExists, creation, retries, shutdown>>

InitWitness ==
    /\ phase = "witness" /\ creation = "none"
    /\ IF onDynamoDb
         THEN creation' = "describe" /\ UNCHANGED phase
         ELSE phase' = "mode" /\ UNCHANGED creation
    /\ UNCHANGED <<vars, pubsub, answering, tableExists, retries, shutdown, exit, errors>>

\* init() waits for the first attempt only: the others follow on their own.
AttemptEnds(state) ==
    /\ creation' = state
    /\ phase' = IF phase = "witness" THEN "mode" ELSE phase

\* A mutant: the last attempt gives up in silence.
GiveUp ==
    /\ retries' = retries - 1
    /\ AttemptEnds(IF retries > 1 THEN "wait" ELSE "given up") /\ UNCHANGED exit

AttemptFails ==
    /\ retries' = retries - 1
    /\ IF retries > 1
         THEN AttemptEnds("wait") /\ UNCHANGED exit
         ELSE exit' = "failed" /\ UNCHANGED <<creation, phase>>

\* The error of describeTable, whatever it is, leads to createTable.
DescribeTable ==
    /\ creation = "describe"
    /\ \/ tableExists /\ AttemptEnds("done") /\ UNCHANGED errors
       \/ ~tableExists /\ creation' = "create" /\ UNCHANGED <<phase, errors>>
       \/ tableExists /\ Err /\ creation' = "create" /\ UNCHANGED phase
    /\ UNCHANGED <<vars, pubsub, answering, tableExists, retries, shutdown, exit>>

\* createTable fails for a table that another process has created meanwhile.
CreateTable ==
    /\ creation = "create"
    /\ \/ /\ ~tableExists
          /\ tableExists' = TRUE /\ creation' = "ttl"
          /\ UNCHANGED <<phase, retries, exit, errors>>
       \/ ~tableExists /\ Err /\ AttemptFails /\ UNCHANGED tableExists
       \/ tableExists /\ AttemptFails /\ UNCHANGED <<tableExists, errors>>
    /\ UNCHANGED <<vars, pubsub, answering, shutdown>>

UpdateTimeToLive ==
    /\ creation = "ttl"
    /\ \/ AttemptEnds("done") /\ UNCHANGED <<retries, exit, errors>>
       \/ Err /\ AttemptFails
    /\ UNCHANGED <<vars, pubsub, answering, tableExists, shutdown>>

TryAgain ==
    /\ creation = "wait" /\ creation' = "describe"
    /\ UNCHANGED <<vars, phase, pubsub, answering, tableExists, retries, shutdown,
                   exit, errors>>

OtherCreatesTable ==
    /\ ~tableExists /\ tableExists' = TRUE
    /\ UNCHANGED <<vars, phase, pubsub, answering, creation, retries, shutdown, exit, errors>>

-----------------------------------------------------------------------------

\* The end of start(), by mode.
StartServer == phase = "mode" /\ mode = "server" /\ Starting

StartAnchor ==
    /\ phase = "mode" /\ mode = "anchor"
    /\ phase' = "anchoring"
    /\ UNCHANGED <<vars, pubsub, answering, tableExists, creation, retries, shutdown,
                   exit, errors>>

StartPubsubResponder == phase = "mode" /\ mode = "pubsub-responder" /\ Starting

StartScheduler ==
    /\ phase = "mode" /\ mode \in {"bundled", "scheduler", "continual-anchoring"}
    /\ Start
    /\ phase' = "up"
    /\ UNCHANGED <<pubsub, answering, tableExists, creation, retries, shutdown, exit, errors>>

\* _startAnchorAndGarbageCollection: the process ends with its one run.
AnchorOnce ==
    /\ phase = "anchoring"
    /\ exit' \in {"clean", "failed"}
    /\ phase' = "up"
    /\ UNCHANGED <<vars, pubsub, answering, tableExists, creation, retries, shutdown, errors>>

\* cbAfterNoOp exits the process, and so does a failure of the task.
SchedulerRuns ==
    /\ TimerFires \/ TaskReturns \/ TaskFails
    /\ exit' = IF calledBack' THEN "clean" ELSE IF loop' = "exited" THEN "failed" ELSE exit
    /\ UNCHANGED <<phase, pubsub, answering, tableExists, creation, retries, shutdown, errors>>

-----------------------------------------------------------------------------

\* A mutant: nothing subscribes again.
CloseOnError ==
    /\ mode = "pubsub-responder" /\ pubsub \in {"subscribing", "subscribed"}
    /\ Err /\ pubsub' = "lost"
    /\ UNCHANGED <<vars, phase, answering, tableExists, creation, retries, shutdown, exit>>

\* An error of the subscription, or of subscribing: retry after a delay.
SubscriptionFails ==
    /\ mode = "pubsub-responder" /\ pubsub \in {"subscribing", "subscribed"}
    /\ Err /\ pubsub' = "delay"
    /\ UNCHANGED <<vars, phase, answering, tableExists, creation, retries, shutdown, exit>>

Subscribe ==
    /\ \/ pubsub = "delay" /\ pubsub' = "subscribing"
       \/ pubsub = "subscribing" /\ pubsub' = "subscribed"
    /\ UNCHANGED <<vars, phase, answering, tableExists, creation, retries, shutdown,
                   exit, errors>>

HandleMessage ==
    /\ mode = "pubsub-responder" /\ pubsub = "subscribed"
    /\ ~answering /\ answering' = TRUE
    /\ UNCHANGED <<vars, phase, pubsub, tableExists, creation, retries, shutdown, exit, errors>>

\* Nobody waits for handleMessage: when it fails the rejection ends the process.
MessageHandled ==
    /\ answering /\ answering' = FALSE
    /\ Crash \/ UNCHANGED <<exit, errors>>
    /\ UNCHANGED <<vars, phase, pubsub, tableExists, creation, retries, shutdown>>

-----------------------------------------------------------------------------

\* What follows the stop of the schedulers: ipfsService.stop().
StopIpfs == shutdown' = "ipfs" /\ pubsub' = "closed"

\* A mutant: the IPFS service is stopped while the schedulers are.
StopAll ==
    /\ phase = "up" /\ mode \in Graceful /\ shutdown = "none"
    /\ Stop /\ StopIpfs
    /\ UNCHANGED <<phase, answering, tableExists, creation, retries, exit, errors>>

\* A mutant: the task is aborted, and the scheduler does not know of it.
AbortTask ==
    /\ phase = "up" /\ mode \in Graceful /\ shutdown = "none"
    /\ shutdown' = "schedulers"
    /\ UNCHANGED <<vars, phase, pubsub, answering, tableExists, creation, retries, exit, errors>>

\* shutdownSignalHandler: the task's signal and the scheduler's are aborted at
\* once; later signals change nothing.
ShutdownSignal ==
    /\ phase = "up" /\ mode \in Graceful /\ shutdown = "none"
    /\ Stop
    /\ shutdown' = "schedulers"
    /\ UNCHANGED <<phase, pubsub, answering, tableExists, creation, retries, exit, errors>>

\* app.stop() goes on when both schedulers have stopped.
SchedulersStopped ==
    /\ shutdown = "schedulers" /\ stopped
    /\ StopIpfs
    /\ UNCHANGED <<vars, phase, answering, tableExists, creation, retries, exit, errors>>

Unsubscribe ==
    /\ shutdown = "ipfs"
    /\ \/ exit' = "clean" /\ UNCHANGED errors
       \/ Crash
    /\ UNCHANGED <<vars, phase, pubsub, answering, tableExists, creation, retries, shutdown>>

\* A signal nobody handles.
Killed ==
    /\ phase # "up" \/ mode = "scheduler"
    /\ exit' = "killed"
    /\ UNCHANGED <<vars, phase, pubsub, answering, tableExists, creation, retries,
                   shutdown, errors>>

StartSteps ==
    \/ Connect \/ InitIpfs \/ InitWitness
    \/ StartServer \/ StartAnchor \/ StartPubsubResponder \/ StartScheduler
TableSteps == DescribeTable \/ CreateTable \/ UpdateTimeToLive \/ TryAgain
ShutdownSteps == SchedulersStopped \/ Unsubscribe

\* No step follows the exit.
Step(A) == exit = "none" /\ A /\ UNCHANGED <<mode, usesIpfs, onDynamoDb>>

AppNext ==
    Step(\/ StartSteps \/ TableSteps \/ OtherCreatesTable
         \/ AnchorOnce \/ SchedulerRuns
         \/ SubscriptionFails \/ Subscribe \/ HandleMessage \/ MessageHandled
         \/ ShutdownSignal \/ ShutdownSteps \/ Killed)

\* Promises settle and timers fire; signals and failures come or do not.
AppSpec ==
    /\ AppInit /\ [][AppNext]_<<vars, appVars>>
    /\ WF_<<vars, appVars>>(Step(StartSteps))
    /\ WF_<<vars, appVars>>(Step(TableSteps))
    /\ WF_<<vars, appVars>>(Step(AnchorOnce))
    /\ WF_<<vars, appVars>>(Step(SchedulerRuns))
    /\ WF_<<vars, appVars>>(Step(Subscribe))
    /\ WF_<<vars, appVars>>(Step(ShutdownSteps))

-----------------------------------------------------------------------------

\* No run is cut in two by a shutdown, by cbAfterNoOp or by the end of the anchor
\* mode: once a stop() has resolved nothing runs and no timer is set, so IPFS may be
\* closed and the process exit.
NothingIsCutOff ==
    stopped \/ pubsub = "closed" \/ exit = "clean"
        => /\ loop \notin {"running", "waiting"}
           /\ phase # "anchoring"

\* The shutdown aborts the run that is going on, and the error this causes never
\* makes the process exit as if anchoring had failed: something else has.
AbortIsNoFailure == shutdown # "none" /\ exit = "failed" => errors > 0

\* A shutdown comes to an end, wherever it meets the loop, the subscription and
\* the creation of the witness table.
ShutdownEnds == shutdown # "none" ~> exit # "none"

\* The responder is subscribed again after every error, until it is shut down.
ResponderListens ==
    pubsub \in {"subscribing", "delay"} ~> pubsub \in {"subscribed", "closed"} \/ exit # "none"

\* start() does not wait for the table after a failed attempt: a process that goes
\* on comes to have one.
WitnessTableSettles == creation # "none" ~> creation = "done" \/ exit # "none"
=============================================================================
