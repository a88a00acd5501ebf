--------------------------- MODULE AnchorPipeline ---------------------------
(***************************************************************************)
(* The anchoring pipeline scheduled through the database (no SQS queues):  *)
(* the API server that stores requests (RequestService), the scheduler     *)
(* that marks batches READY and emits anchor events, and the anchor        *)
(* workers (AnchorService).  They share the `request` and `anchor` tables, *)
(* the advisory lock around the Ethereum transaction, the chain and the    *)
(* store of Merkle CAR files.                                              *)
(*                                                                         *)
(* One action is one statement or transaction on the database, or one call *)
(* to a service; between two of them any other process may run.            *)
(***************************************************************************)
EXTENDS AnchorStore

CONSTANTS
    Workers,         \* anchor worker processes
    NoWorker,        \* the advisory lock is free
    MaxStreamLimit,  \* 2^merkleDepthLimit, 0 is no limit
    MinStreamLimit,  \* minStreamCount
    EventDriven,     \* workers start on an anchor event, or else on their own timer
    MaxFaults        \* bound: failures and crashes in a behaviour

ASSUME WorkerAssumption == NoWorker \notin Workers

ASSUME LimitAssumption ==
    /\ MaxStreamLimit \in Nat /\ MinStreamLimit \in Nat /\ MaxFaults \in Nat
    /\ EventDriven \in BOOLEAN

VARIABLES
    call,       \* [Requests -> CallStep], the POST that stores the request
    victims,    \* [Requests -> SUBSET Requests], ids its markReplaced selected
    scheduler,  \* step of emitAnchorEventIfReady
    event,      \* an anchor event has been emitted and not consumed
    pc,         \* [Workers -> WorkerStep]
    batch,      \* [Workers -> SUBSET Requests], the requests of this run
    mutex,      \* holder of pg_try_advisory_xact_lock
    faults      \* failures so far

apiVars == <<call, victims>>
schedulerVars == <<scheduler, event>>
workerVars == <<pc, batch, mutex>>
vars == <<table, apiVars, schedulerVars, workerVars, evidence, faults>>

CallStep == {"none", "stored", "replacing", "done"}
SchedulerStep == {"idle", "noneReady", "someReady", "emitting"}
\* The steps of a run, in order; those of Anchoring are inside the try block
\* of _anchorRequests, so that a failure there reverts the batch.
Anchoring == {"locking", "sending", "storing", "persisting", "summarising"}
WorkerStep == {"idle", "marking", "selecting", "claiming", "loading", "reverting"}
                \cup Anchoring

Init ==
    /\ TableInit
    /\ call = [r \in Requests |-> "none"]
    /\ victims = [r \in Requests |-> {}]
    /\ scheduler = "idle" /\ event = FALSE
    /\ pc = [w \in Workers |-> "idle"]
    /\ batch = [w \in Workers |-> {}]
    /\ mutex = NoWorker
    /\ EvidenceInit
    /\ faults = 0

Fault == faults < MaxFaults /\ faults' = faults + 1

-----------------------------------------------------------------------------
(* RequestService.create without a validation queue.                       *)

CreateRequest(r) ==
    /\ InsertRequest(r)
    /\ call' = [call EXCEPT ![r] = "stored"]
    /\ UNCHANGED <<victims, schedulerVars, workerVars, evidence, faults>>

\* markReplaced runs as one UPDATE under READ COMMITTED: the subquery reads its
\* snapshot first, the rows are overwritten afterwards.
SelectReplaced(r) ==
    /\ call[r] = "stored"
    /\ \E S \in ReplaceableSets(r) : victims' = [victims EXCEPT ![r] = S]
    /\ call' = [call EXCEPT ![r] = "replacing"]
    /\ UNCHANGED <<table, schedulerVars, workerVars, evidence, faults>>

ReplaceOlder(r) ==
    /\ call[r] = "replacing"
    /\ MarkReplaced(victims[r])
    /\ victims' = [victims EXCEPT ![r] = {}]
    /\ call' = [call EXCEPT ![r] = "done"]
    /\ UNCHANGED <<schedulerVars, workerVars, evidence, faults>>

\* The server dies, or the statement fails: the client gets an error, and its
\* retry finds the row stored and stops there.
CreateFails(r) ==
    /\ call[r] \in {"stored", "replacing"}
    /\ Fault
    /\ call' = [call EXCEPT ![r] = "done"]
    /\ victims' = [victims EXCEPT ![r] = {}]
    /\ UNCHANGED <<table, schedulerVars, workerVars, evidence>>

-----------------------------------------------------------------------------
(* emitAnchorEventIfReady, run again and again by the scheduler process.   *)

CountReady ==
    /\ EventDriven
    /\ scheduler = "idle"
    /\ scheduler' = IF WithStatus("READY") = {} THEN "noneReady" ELSE "someReady"
    /\ UNCHANGED <<table, apiVars, event, workerVars, evidence, faults>>

MarkReady ==
    /\ scheduler = "noneReady"
    /\ scheduler' = IF RequestsToMarkReady(MaxStreamLimit, MinStreamLimit) = {}
                      THEN "idle" ELSE "emitting"
    /\ FindAndMarkReady(MaxStreamLimit, MinStreamLimit)
    /\ UNCHANGED <<apiVars, event, workerVars, evidence, faults>>

RetryReady ==
    /\ scheduler = "someReady"
    /\ scheduler' = IF ReadyExpired THEN "emitting" ELSE "idle"
    /\ UpdateExpiringReadyRequests
    /\ UNCHANGED <<apiVars, event, workerVars, evidence, faults>>

EmitAnchorEvent ==
    /\ scheduler = "emitting"
    /\ event' = TRUE
    /\ scheduler' = "idle"
    /\ UNCHANGED <<table, apiVars, workerVars, evidence, faults>>

\* The event is not emitted (the error is swallowed), or the process dies.
SchedulerFails ==
    /\ scheduler # "idle"
    /\ Fault
    /\ scheduler' = "idle"
    /\ UNCHANGED <<table, apiVars, event, workerVars, evidence>>

-----------------------------------------------------------------------------
(* anchorRequests in a worker.                                             *)

Goto(w, step) == pc' = [pc EXCEPT ![w] = step]

\* The worker starts, and counts the READY requests.
StartAnchoring(w) ==
    /\ pc[w] = "idle"
    /\ EventDriven => event
    /\ event' = FALSE
    /\ Goto(w, IF WithStatus("READY") = {} THEN "marking" ELSE "selecting")
    /\ UNCHANGED <<table, apiVars, scheduler, batch, mutex, evidence, faults>>

\* It asks for twice as many streams as a batch holds.
WorkerMarksReady(w) ==
    /\ pc[w] = "marking"
    /\ FindAndMarkReady(MaxStreamLimit * 2, MinStreamLimit)
    /\ Goto(w, "selecting")
    /\ UNCHANGED <<apiVars, schedulerVars, batch, mutex, evidence, faults>>

\* batchProcessing is one UPDATE under READ COMMITTED: its subquery reads the
\* ids first, the rows are overwritten afterwards whatever became of them.
SelectBatch(w) ==
    /\ pc[w] = "selecting"
    /\ \E S \in ReadyBatches(MaxStreamLimit) :
         /\ batch' = [batch EXCEPT ![w] = S]
         /\ Goto(w, IF S = {} THEN "idle" ELSE "claiming")
    /\ UNCHANGED <<table, apiVars, schedulerVars, mutex, evidence, faults>>

ClaimBatch(w) ==
    /\ pc[w] = "claiming"
    /\ MarkProcessing(batch[w])
    /\ Goto(w, "loading")
    /\ UNCHANGED <<apiVars, schedulerVars, batch, mutex, evidence, faults>>

\* _buildMerkleTree: the factory refuses more leaves than merkleDepthLimit allows.
TreeFits(S) == MaxStreamLimit = 0 \/ Cardinality(S) <= MaxStreamLimit

\* _findCandidates: one candidate per request.  Candidates that have an anchor
\* already are marked and counted, and stay in the list the tree is built from.
\* The try block begins with the tree.
FindCandidates(w) ==
    /\ pc[w] = "loading"
    /\ Goto(w, IF TreeFits(batch[w]) THEN "locking" ELSE "reverting")
    /\ UNCHANGED <<table, apiVars, schedulerVars, batch, mutex, evidence, faults>>

AcquireMutex(w) ==
    /\ pc[w] = "locking"
    /\ mutex = NoWorker
    /\ mutex' = w
    /\ Goto(w, "sending")
    /\ UNCHANGED <<table, apiVars, schedulerVars, batch, evidence, faults>>

\* sendTransaction confirms the root, and the lock's transaction ends.
SendTransaction(w) ==
    /\ pc[w] = "sending"
    /\ chain' = chain \cup {batch[w]}
    /\ mutex' = NoWorker
    /\ Goto(w, "storing")
    /\ UNCHANGED <<table, apiVars, schedulerVars, batch, cars, anchors, faults>>

\* A mutant: an error of the CAR store is swallowed, as that of the witness store.
StoreCarFileOrNot(w) ==
    /\ pc[w] = "storing"
    /\ cars' \in {cars, cars \cup {batch[w]}}
    /\ Goto(w, "persisting")
    /\ UNCHANGED <<table, apiVars, schedulerVars, batch, mutex, chain, anchors, faults>>

StoreCarFile(w) ==
    /\ pc[w] = "storing"
    /\ cars' = cars \cup {batch[w]}
    /\ Goto(w, "persisting")
    /\ UNCHANGED <<table, apiVars, schedulerVars, batch, mutex, chain, anchors, faults>>

PersistAnchorResult(w) ==
    /\ pc[w] = "persisting"
    /\ CreateAnchors(batch[w])
    /\ UpdateRequests(batch[w], "COMPLETED")
    /\ Goto(w, "summarising")
    /\ UNCHANGED <<apiVars, schedulerVars, batch, mutex, chain, cars, faults>>

LogAnchorSummary(w) ==
    /\ pc[w] = "summarising"
    /\ Goto(w, "idle")
    /\ batch' = [batch EXCEPT ![w] = {}]
    /\ UNCHANGED <<table, apiVars, schedulerVars, mutex, evidence, faults>>

\* A step of the try block throws.  A transaction reported as failed may have
\* been mined, and a CAR may have been stored.
AnchoringFails(w) ==
    /\ pc[w] \in Anchoring
    /\ Fault
    /\ chain' \in {chain} \cup {chain \cup {batch[w]} : s \in {"sending"} \cap {pc[w]}}
    /\ cars' \in {cars} \cup {cars \cup {batch[w]} : s \in {"storing"} \cap {pc[w]}}
    /\ mutex' = IF mutex = w THEN NoWorker ELSE mutex
    /\ Goto(w, "reverting")
    /\ UNCHANGED <<table, apiVars, schedulerVars, batch, anchors>>

\* A mutant: a failed batch gets a status that no query retries.
MarkFailed(w) ==
    /\ pc[w] = "reverting"
    /\ UpdateRequests(batch[w], "FAILED")
    /\ Goto(w, "idle")
    /\ batch' = [batch EXCEPT ![w] = {}]
    /\ UNCHANGED <<apiVars, schedulerVars, mutex, evidence, faults>>

\* The catch block: whatever their status is by now.
RevertToPending(w) ==
    /\ pc[w] = "reverting"
    /\ UpdateRequests(batch[w], "PENDING")
    /\ Goto(w, "idle")
    /\ batch' = [batch EXCEPT ![w] = {}]
    /\ UNCHANGED <<apiVars, schedulerVars, mutex, evidence, faults>>

\* The process dies, or a statement outside the try block fails and ends the
\* run.  PostgreSQL releases the lock; a transaction in flight may be mined.
WorkerDies(w) ==
    /\ pc[w] # "idle"
    /\ Fault
    /\ chain' \in {chain} \cup {chain \cup {batch[w]} : s \in {"sending"} \cap {pc[w]}}
    /\ cars' \in {cars} \cup {cars \cup {batch[w]} : s \in {"storing"} \cap {pc[w]}}
    /\ mutex' = IF mutex = w THEN NoWorker ELSE mutex
    /\ Goto(w, "idle")
    /\ batch' = [batch EXCEPT ![w] = {}]
    /\ UNCHANGED <<table, apiVars, schedulerVars, anchors>>

-----------------------------------------------------------------------------

ApiStep(r) ==
    \/ CreateRequest(r) \/ SelectReplaced(r) \/ ReplaceOlder(r) \/ CreateFails(r)

SchedulerRuns == CountReady \/ MarkReady \/ RetryReady \/ EmitAnchorEvent

WorkerRuns(w) ==
    \/ WorkerMarksReady(w) \/ SelectBatch(w) \/ ClaimBatch(w)
    \/ FindCandidates(w) \/ AcquireMutex(w)
    \/ SendTransaction(w) \/ StoreCarFile(w) \/ PersistAnchorResult(w)
    \/ LogAnchorSummary(w) \/ RevertToPending(w)

\* With a minimum of one stream every stream is enough for a batch, and the
\* deadline decides nothing: it is then left out of the state.
ClockTicks ==
    Tick /\ UNCHANGED <<apiVars, schedulerVars, workerVars, evidence, faults>>
AnchoringDeadlinePasses ==
    /\ MinStreamLimit > 1
    /\ DeadlinePasses
    /\ UNCHANGED <<apiVars, schedulerVars, workerVars, evidence, faults>>

Next ==
    \/ \E r \in Requests : ApiStep(r)
    \/ SchedulerRuns
    \/ SchedulerFails
    \/ \E w \in Workers :
         StartAnchoring(w) \/ WorkerRuns(w) \/ AnchoringFails(w) \/ WorkerDies(w)
    \/ ClockTicks
    \/ AnchoringDeadlinePasses

SafetySpec == Init /\ [][Next]_vars

\* Processes that are up keep running, a stopped worker is started again by its
\* timer or by an event, and time passes.  Nothing makes a client send, and
\* nothing makes a failure happen.
Fairness ==
    /\ WF_vars(SchedulerRuns)
    /\ \A w \in Workers : WF_vars(WorkerRuns(w)) /\ WF_vars(StartAnchoring(w))
    /\ WF_vars(ClockTicks) /\ WF_vars(AnchoringDeadlinePasses)
    /\ WF_vars(\E r \in Requests : SelectReplaced(r) \/ ReplaceOlder(r))

Spec == SafetySpec /\ Fairness

-----------------------------------------------------------------------------
(* Properties.                                                             *)

\* Every variable stays in its domain; in particular no request ever gets the
\* status FAILED, which no query would retry.
TypeOK ==
    /\ TableTypeOK
    /\ call \in [Requests -> CallStep]
    /\ victims \in [Requests -> SUBSET Requests]
    /\ scheduler \in SchedulerStep
    /\ event \in BOOLEAN
    /\ pc \in [Workers -> WorkerStep]
    /\ batch \in [Workers -> SUBSET Requests]
    /\ mutex \in Workers \cup {NoWorker}
    /\ chain \subseteq SUBSET Requests
    /\ cars \subseteq SUBSET Requests
    /\ anchors \in [Requests -> SUBSET Requests]
    /\ faults \in 0..MaxFaults

\* A request that is newer than every other stored one of its stream and origin is
\* never REPLACED, however markReplaced, its stale subquery, the workers and their
\* reverts interleave.  (Of two newest with one timestamp both may be.)
Rivals(r) == {p \in Rows : OriginOf[p] = OriginOf[r] /\ StreamOf[p] = StreamOf[r]}
NewestIsKept ==
    \A r \in Rows :
        (\A p \in Rivals(r) \ {r} : TimestampOf[p] < TimestampOf[r])
            => status[r] # "REPLACED"

\* Every stored request leads to a completed one of the same stream and origin
\* that is at least as new: itself, or one that replaced it.
Covered(r) ==
    \E p \in Rivals(r) : status[p] = "COMPLETED" /\ TimestampOf[p] >= TimestampOf[r]
EveryRequestIsCovered ==
    \A r \in Requests : status[r] # "NONE" ~> Covered(r)

\* From some point on nothing is left to do: every request is settled for good.
EventuallySettled ==
    <>[](\A r \in Requests : status[r] \in {"NONE", "COMPLETED", "REPLACED"})

-----------------------------------------------------------------------------
(* What the comments and log lines of the code say of it.                  *)

\* anchor-service.ts:319: a failed run moves PROCESSING requests back to PENDING.
OnlyProcessingReverts ==
    [][\A r \in Requests :
         status'[r] = "PENDING" /\ status[r] # "PENDING"
           => status[r] \in {"NONE", "PROCESSING"}]_status
=============================================================================
