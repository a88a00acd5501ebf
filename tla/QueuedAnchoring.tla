--------------------------- MODULE QueuedAnchoring ---------------------------
(***************************************************************************)
(* Anchoring scheduled through SQS (queue.sqsQueueUrl is set).  The API    *)
(* server stores a request and sends it to the validation queue; a         *)
(* validator and a batcher outside this repository mark requests REPLACED  *)
(* and put batches of request ids into the batch queue; anchor workers     *)
(* take one batch message each, anchor it, and ack or nack the message.    *)
(*                                                                         *)
(* SQS delivers at least once: a message that is neither acked nor nacked  *)
(* before its visibility timeout is delivered again, to any worker, while  *)
(* the first may still be at it.                                           *)
(***************************************************************************)
EXTENDS AnchorStore

CONSTANTS
    Workers,   \* continual anchoring processes
    NoWorker,  \* the advisory lock is free, a message was never received
    Batches,   \* messages that may ever be put into the batch queue
    NoBatch,   \* a worker has no message
    MaxFaults  \* bound: failures, crashes and workers that outlive the timeout

ASSUME QueueAssumption ==
    NoWorker \notin Workers /\ NoBatch \notin Batches /\ MaxFaults \in Nat

VARIABLES
    call,       \* [Requests -> CallStep], the POST that stores the request
    validation, \* requests whose message reached the validation queue
    message,    \* [Batches -> MessageState]
    rids,       \* [Batches -> SUBSET Requests], the body of the message
    holder,     \* [Batches -> Workers \cup {NoWorker}], has the latest receipt handle
    pc,         \* [Workers -> WorkerStep]
    msg,        \* [Workers -> Batches \cup {NoBatch}], the message being handled
    batch,      \* [Workers -> SUBSET Requests], the requests being anchored
    mutex,      \* holder of pg_try_advisory_xact_lock
    faults      \* failures so far

apiVars == <<call, validation>>
queueVars == <<message, rids, holder>>
workerVars == <<pc, msg, batch, mutex>>
vars == <<table, evidence, apiVars, queueVars, workerVars, faults>>

CallStep == {"none", "stored", "done"}
MessageState == {"none", "visible", "inFlight", "deleted"}
\* The steps of the try block of anchorNextQueuedBatch, and its catch block.
Handling == {"loading", "locking", "sending", "storing", "persisting", "acking"}
WorkerStep == {"idle", "nacking"} \cup Handling

Init ==
    /\ TableInit
    /\ EvidenceInit
    /\ call = [r \in Requests |-> "none"]
    /\ validation = {}
    /\ message = [b \in Batches |-> "none"]
    /\ rids = [b \in Batches |-> {}]
    /\ holder = [b \in Batches |-> NoWorker]
    /\ pc = [w \in Workers |-> "idle"]
    /\ msg = [w \in Workers |-> NoBatch]
    /\ batch = [w \in Workers |-> {}]
    /\ mutex = NoWorker
    /\ faults = 0

Fault == faults < MaxFaults /\ faults' = faults + 1

-----------------------------------------------------------------------------
(* RequestService.create with a validation queue.                          *)

CreateRequest(r) ==
    /\ InsertRequest(r)
    /\ call' = [call EXCEPT ![r] = "stored"]
    /\ UNCHANGED <<evidence, validation, queueVars, workerVars, faults>>

SendToValidation(r) ==
    /\ call[r] = "stored"
    /\ validation' = validation \cup {r}
    /\ call' = [call EXCEPT ![r] = "done"]
    /\ UNCHANGED <<table, evidence, queueVars, workerVars, faults>>

\* SQS refuses the message, or took it and the answer is lost, or the server dies.
\* The client's retry finds the row and sends nothing.
SendFails(r) ==
    /\ call[r] = "stored"
    /\ Fault
    /\ validation' \in {validation, validation \cup {r}}
    /\ call' = [call EXCEPT ![r] = "done"]
    /\ UNCHANGED <<table, evidence, queueVars, workerVars>>

-----------------------------------------------------------------------------
(* The validator, the batcher and SQS: outside this repository.            *)

\* A validated request gives way to a newer one of its stream and origin.
ReplaceOlder(r) ==
    /\ r \in validation
    /\ status[r] = "PENDING"
    /\ \E p \in validation :
         /\ OriginOf[p] = OriginOf[r] /\ StreamOf[p] = StreamOf[r]
         /\ TimestampOf[p] > TimestampOf[r]
    /\ MarkReplaced({r})
    /\ UNCHANGED <<evidence, apiVars, queueVars, workerVars, faults>>

\* Validation messages are delivered at least once too: batches may overlap.
SendBatch(b) ==
    /\ message[b] = "none"
    /\ \E S \in (SUBSET validation) \ {{}} : rids' = [rids EXCEPT ![b] = S]
    /\ message' = [message EXCEPT ![b] = "visible"]
    /\ UNCHANGED <<table, evidence, apiVars, holder, workerVars, faults>>

HolderIsBusy(b) == \E w \in Workers : holder[b] = w /\ msg[w] = b

\* maxTimeToHoldMessageSec pass after the worker that had the message is gone.
MessageReturns(b) ==
    /\ message[b] = "inFlight"
    /\ ~HolderIsBusy(b)
    /\ message' = [message EXCEPT ![b] = "visible"]
    /\ UNCHANGED <<table, evidence, apiVars, rids, holder, workerVars, faults>>

\* They pass while the worker is still at it.
HolderIsTooSlow(b) ==
    /\ message[b] = "inFlight"
    /\ HolderIsBusy(b)
    /\ Fault
    /\ message' = [message EXCEPT ![b] = "visible"]
    /\ UNCHANGED <<table, evidence, apiVars, rids, holder, workerVars>>

-----------------------------------------------------------------------------
(* anchorNextQueuedBatch in a worker.                                      *)

Goto(w, step) == pc' = [pc EXCEPT ![w] = step]
ToIdle(w) ==
    /\ Goto(w, "idle")
    /\ msg' = [msg EXCEPT ![w] = NoBatch]
    /\ batch' = [batch EXCEPT ![w] = {}]

ReceiveMessage(w) ==
    /\ pc[w] = "idle"
    /\ \E b \in Batches :
         /\ message[b] = "visible"
         /\ message' = [message EXCEPT ![b] = "inFlight"]
         /\ holder' = [holder EXCEPT ![b] = w]
         /\ msg' = [msg EXCEPT ![w] = b]
    /\ Goto(w, "loading")
    /\ UNCHANGED <<table, evidence, apiVars, rids, batch, mutex, faults>>

\* findByIds, then those that are REPLACED by now are left out.  Those that are
\* COMPLETED already, by an earlier delivery or in another batch, are not.
LoadBatch(w) ==
    /\ pc[w] = "loading"
    /\ LET S == rids[msg[w]] \ WithStatus("REPLACED")
       IN  /\ batch' = [batch EXCEPT ![w] = S]
           /\ Goto(w, IF S = {} THEN "acking" ELSE "locking")
    /\ UNCHANGED <<table, evidence, apiVars, queueVars, msg, mutex, faults>>

AcquireMutex(w) ==
    /\ pc[w] = "locking"
    /\ mutex = NoWorker
    /\ mutex' = w
    /\ Goto(w, "sending")
    /\ UNCHANGED <<table, evidence, apiVars, queueVars, msg, batch, faults>>

SendTransaction(w) ==
    /\ pc[w] = "sending"
    /\ chain' = chain \cup {batch[w]}
    /\ mutex' = NoWorker
    /\ Goto(w, "storing")
    /\ UNCHANGED <<table, cars, anchors, apiVars, queueVars, msg, batch, faults>>

\* A mutant: an error of the CAR store is swallowed, as that of the witness store.
StoreCarFileOrNot(w) ==
    /\ pc[w] = "storing"
    /\ cars' \in {cars, cars \cup {batch[w]}}
    /\ Goto(w, "persisting")
    /\ UNCHANGED <<table, chain, anchors, apiVars, queueVars, msg, batch, mutex, faults>>

StoreCarFile(w) ==
    /\ pc[w] = "storing"
    /\ cars' = cars \cup {batch[w]}
    /\ Goto(w, "persisting")
    /\ UNCHANGED <<table, chain, anchors, apiVars, queueVars, msg, batch, mutex, faults>>

PersistAnchorResult(w) ==
    /\ pc[w] = "persisting"
    /\ CreateAnchors(batch[w])
    /\ UpdateRequests(batch[w], "COMPLETED")
    /\ Goto(w, "acking")
    /\ UNCHANGED <<chain, cars, apiVars, queueVars, msg, batch, mutex, faults>>

\* A mutant: the message is left to its visibility timeout.
ForgetAck(w) ==
    /\ pc[w] = "acking"
    /\ ToIdle(w)
    /\ UNCHANGED <<table, evidence, apiVars, queueVars, mutex, faults>>

\* A receipt handle that is not the latest may still delete the message or not.
Ack(w) ==
    /\ pc[w] = "acking"
    /\ message' \in {[message EXCEPT ![msg[w]] = "deleted"]}
                      \cup {m \in {message} : holder[msg[w]] # w}
    /\ ToIdle(w)
    /\ UNCHANGED <<table, evidence, apiVars, rids, holder, mutex, faults>>

\* What a failed or interrupted step of the try block may have done: the
\* transaction may be mined, the CAR stored, the message deleted.
Interrupt(w) ==
    /\ Fault
    /\ chain' \in {chain} \cup {chain \cup {batch[w]} : s \in {"sending"} \cap {pc[w]}}
    /\ cars' \in {cars} \cup {cars \cup {batch[w]} : s \in {"storing"} \cap {pc[w]}}
    /\ message' \in {message} \cup
         {[message EXCEPT ![msg[w]] = "deleted"] : s \in {"acking"} \cap {pc[w]}}
    /\ mutex' = IF mutex = w THEN NoWorker ELSE mutex
    /\ UNCHANGED <<table, anchors, apiVars, rids, holder>>

\* A mutant: a failed batch is reverted as without a queue.
RevertBatch(w) ==
    /\ pc[w] \in Handling
    /\ Fault
    /\ UpdateRequests(batch[w], "PENDING")
    /\ Goto(w, "nacking")
    /\ mutex' = IF mutex = w THEN NoWorker ELSE mutex
    /\ UNCHANGED <<evidence, apiVars, queueVars, msg, batch>>

\* A mutant: a failed batch gets a status that no query retries.
MarkFailed(w) ==
    /\ pc[w] \in Handling
    /\ Fault
    /\ UpdateRequests(batch[w], "FAILED")
    /\ Goto(w, "nacking")
    /\ mutex' = IF mutex = w THEN NoWorker ELSE mutex
    /\ UNCHANGED <<evidence, apiVars, queueVars, msg, batch>>

\* An error, or the abort signal before the anchoring.  Statuses are left alone.
HandlingFails(w) ==
    /\ pc[w] \in Handling
    /\ Interrupt(w)
    /\ Goto(w, "nacking")
    /\ UNCHANGED <<msg, batch>>

\* A mutant: a message that failed is removed.
AckFailed(w) ==
    /\ pc[w] = "nacking"
    /\ message' = [message EXCEPT ![msg[w]] = "deleted"]
    /\ ToIdle(w)
    /\ UNCHANGED <<table, evidence, apiVars, rids, holder, mutex, faults>>

\* A receipt handle that is not the latest may still return the message or not.
Nack(w) ==
    /\ pc[w] = "nacking"
    /\ message' \in
         {IF message[msg[w]] = "inFlight"
            THEN [message EXCEPT ![msg[w]] = "visible"] ELSE message}
         \cup {m \in {message} : holder[msg[w]] # w}
    /\ ToIdle(w)
    /\ UNCHANGED <<table, evidence, apiVars, rids, holder, mutex, faults>>

\* The process dies, or the nack fails, or the batch cannot be fetched from S3
\* (outside the try block): the message stays in flight.
WorkerDies(w) ==
    /\ pc[w] # "idle"
    /\ Interrupt(w)
    /\ ToIdle(w)

WorkerRuns(w) ==
    \/ LoadBatch(w) \/ AcquireMutex(w) \/ SendTransaction(w) \/ StoreCarFile(w)
    \/ PersistAnchorResult(w) \/ Ack(w) \/ Nack(w)

-----------------------------------------------------------------------------

Next ==
    \/ \E r \in Requests :
         CreateRequest(r) \/ SendToValidation(r) \/ SendFails(r) \/ ReplaceOlder(r)
    \/ \E b \in Batches : SendBatch(b) \/ MessageReturns(b) \/ HolderIsTooSlow(b)
    \/ \E w \in Workers :
         ReceiveMessage(w) \/ WorkerRuns(w) \/ HandlingFails(w) \/ WorkerDies(w)

SafetySpec == Init /\ [][Next]_vars

\* Workers poll and run on (the scheduler starts the task again, the deployment
\* the process), and SQS returns a message nobody handles.  Nothing makes clients
\* send, the batcher batch, or anything fail.
Fairness ==
    /\ \A w \in Workers : WF_vars(WorkerRuns(w)) /\ WF_vars(ReceiveMessage(w))
    /\ \A b \in Batches : WF_vars(MessageReturns(b))

Spec == SafetySpec /\ Fairness

-----------------------------------------------------------------------------
(* Properties.                                                             *)

\* Every variable stays in its domain; in particular a failed batch leaves no
\* request FAILED.
TypeOK ==
    /\ TableTypeOK
    /\ chain \subseteq SUBSET Requests
    /\ cars \subseteq SUBSET Requests
    /\ anchors \in [Requests -> SUBSET Requests]
    /\ call \in [Requests -> CallStep]
    /\ validation \subseteq Requests
    /\ message \in [Batches -> MessageState]
    /\ rids \in [Batches -> SUBSET Requests]
    /\ holder \in [Batches -> Workers \cup {NoWorker}]
    /\ pc \in [Workers -> WorkerStep]
    /\ msg \in [Workers -> Batches \cup {NoBatch}]
    /\ batch \in [Workers -> SUBSET Requests]
    /\ mutex \in Workers \cup {NoWorker}
    /\ faults \in 0..MaxFaults

\* A message leaves the queue for good only when each of its requests is settled:
\* no crash, late worker, stale receipt handle or lost answer loses a request.
DeletedAreSettled ==
    \A b \in Batches : message[b] = "deleted" =>
        \A r \in rids[b] : status[r] \in {"COMPLETED", "REPLACED"}

\* A request that was reported COMPLETED stays so, whatever becomes of the later
\* deliveries of its batch and of other batches that hold it.
CompletedIsFinal ==
    [][\A r \in WithStatus("COMPLETED") : status'[r] = "COMPLETED"]_status

\* Every batch message is eventually deleted: it is not redelivered for ever.
BatchesDrain ==
    \A b \in Batches : message[b] = "visible" ~> message[b] = "deleted"
=============================================================================
