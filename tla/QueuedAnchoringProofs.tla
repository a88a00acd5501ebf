------------------------ MODULE QueuedAnchoringProofs ------------------------
(***************************************************************************)
(* Proofs about QueuedAnchoring for every set of requests, workers and     *)
(* messages, and every number of redeliveries, failures and crashes.       *)
(***************************************************************************)
EXTENDS QueuedAnchoring, AnchorStoreProofs

-----------------------------------------------------------------------------
(* Type correctness.                                                       *)

\* The inductive part of the type invariant: a worker at work has a message that
\* was sent.
HasMessage ==
    \A w \in Workers : pc[w] # "idle" => msg[w] \in Batches /\ message[msg[w]] # "none"

TypeInv == TypeOK /\ HasMessage

LEMMA TypeInit == Init => TypeInv
  <1> SUFFICES ASSUME Init PROVE TypeInv
    OBVIOUS
  <1>1. TableTypeOK
    BY OldestAgeIsNat DEF Init, TableInit, TableTypeOK, Status
  <1>2. faults \in 0..MaxFaults
    BY QueueAssumption DEF Init
  <1> QED
    BY <1>1, <1>2
    DEF Init, EvidenceInit, TypeInv, TypeOK, HasMessage, CallStep, MessageState, WorkerStep

\* The API server and the validator.
LEMMA RequestType ==
  ASSUME TypeInv, NEW r \in Requests,
         CreateRequest(r) \/ SendToValidation(r) \/ SendFails(r) \/ ReplaceOlder(r)
  PROVE  TypeInv'
  <1> USE DEF TypeInv, TypeOK, HasMessage, CallStep
  <1>1. CASE CreateRequest(r)
    BY <1>1, InsertRequestType DEF CreateRequest, queueVars, workerVars, evidence
  <1>2. CASE SendToValidation(r)
    BY <1>2 DEF SendToValidation, table, TableTypeOK, queueVars, workerVars, evidence
  <1>3. CASE SendFails(r)
    BY <1>3, QueueAssumption
    DEF SendFails, Fault, table, TableTypeOK, queueVars, workerVars, evidence
  <1>4. CASE ReplaceOlder(r)
    <2>1. TableTypeOK'
      BY <1>4, MarkType DEF ReplaceOlder
    <2> QED
      BY <1>4, <2>1 DEF ReplaceOlder, apiVars, queueVars, workerVars, evidence
  <1> QED
    BY <1>1, <1>2, <1>3, <1>4

\* The batcher and SQS.
LEMMA MessageType ==
  ASSUME TypeInv, NEW b \in Batches, SendBatch(b) \/ MessageReturns(b) \/ HolderIsTooSlow(b)
  PROVE  TypeInv'
  <1> USE DEF TypeInv, TypeOK, HasMessage, MessageState, table, TableTypeOK, apiVars,
              workerVars, evidence
  <1>1. CASE SendBatch(b)
    BY <1>1 DEF SendBatch
  <1>2. CASE MessageReturns(b)
    BY <1>2 DEF MessageReturns
  <1>3. CASE HolderIsTooSlow(b)
    BY <1>3, QueueAssumption DEF HolderIsTooSlow, Fault
  <1> QED
    BY <1>1, <1>2, <1>3

\* A worker, and its failures.
LEMMA WorkerType ==
  ASSUME TypeInv, NEW w \in Workers,
         ReceiveMessage(w) \/ WorkerRuns(w) \/ HandlingFails(w) \/ WorkerDies(w)
  PROVE  TypeInv'
  <1> USE DEF TypeInv, TypeOK, HasMessage, WorkerStep, Handling, Goto
  <1>1. CASE ReceiveMessage(w)
    BY <1>1 DEF ReceiveMessage, MessageState, table, TableTypeOK, apiVars, evidence
  <1>2. CASE LoadBatch(w)
    BY <1>2 DEF LoadBatch, table, TableTypeOK, apiVars, queueVars, evidence
  <1>3. CASE AcquireMutex(w) \/ SendTransaction(w) \/ StoreCarFile(w)
    BY <1>3
    DEF AcquireMutex, SendTransaction, StoreCarFile, table, TableTypeOK, apiVars,
        queueVars, evidence
  <1>4. CASE PersistAnchorResult(w)
    <2>1. TableTypeOK'
      BY <1>4, UpdateRequestsType DEF PersistAnchorResult, Status
    <2>2. anchors' \in [Requests -> SUBSET Requests]
      BY <1>4 DEF PersistAnchorResult, CreateAnchors
    <2> QED
      BY <1>4, <2>1, <2>2 DEF PersistAnchorResult, apiVars, queueVars
  <1>5. CASE Ack(w) \/ Nack(w)
    BY <1>5
    DEF Ack, Nack, ToIdle, MessageState, table, TableTypeOK, apiVars, evidence
  <1>6. CASE HandlingFails(w) \/ WorkerDies(w)
    <2>1. Interrupt(w)
      BY <1>6 DEF HandlingFails, WorkerDies
    <2>2. chain' \subseteq SUBSET Requests /\ cars' \subseteq SUBSET Requests
      BY <2>1 DEF Interrupt
    <2>3. faults' \in 0..MaxFaults
      BY <2>1, QueueAssumption DEF Interrupt, Fault
    <2>4. /\ message' \in [Batches -> MessageState]
          /\ \A b \in Batches : message[b] # "none" => message'[b] # "none"
      BY <2>1 DEF Interrupt, MessageState
    <2> QED
      BY <1>6, <2>1, <2>2, <2>3, <2>4
      DEF HandlingFails, WorkerDies, Interrupt, ToIdle, table, TableTypeOK, apiVars
  <1> QED
    BY <1>1, <1>2, <1>3, <1>4, <1>5, <1>6 DEF WorkerRuns

LEMMA TypeStep ==
  ASSUME TypeInv, [Next]_vars
  PROVE  TypeInv'
  <1>1. CASE Next
    BY <1>1, RequestType, MessageType, WorkerType DEF Next
  <1>2. CASE UNCHANGED vars
    BY <1>2
    DEF TypeInv, TypeOK, HasMessage, vars, table, TableTypeOK, apiVars, queueVars,
        workerVars, evidence
  <1> QED
    BY <1>1, <1>2

LEMMA TypeHolds == SafetySpec => []TypeInv
  BY TypeInit, TypeStep, PTL DEF SafetySpec

\* TypeOK: every variable stays in its domain in every behaviour of the queue, and
\* no request becomes FAILED.
THEOREM TypeCorrect == SafetySpec => []TypeOK
  BY TypeHolds, PTL DEF TypeInv

-----------------------------------------------------------------------------
(* What a step does to the statuses, the messages and the batches.         *)

\* The three writes of a status: an insert, a replacement, a result.
StatusIsWritten ==
    \/ UNCHANGED status
    \/ \E r \in Requests : status[r] = "NONE" /\ SetStatus({r}, "PENDING")
    \/ \E r \in Requests : status[r] = "PENDING" /\ SetStatus({r}, "REPLACED")
    \/ \E w \in Workers : PersistAnchorResult(w) /\ SetStatus(batch[w], "COMPLETED")

LEMMA StatusWrites ==
  ASSUME [Next]_vars
  PROVE  StatusIsWritten
  <1>1. ASSUME NEW r \in Requests,
               CreateRequest(r) \/ SendToValidation(r) \/ SendFails(r) \/ ReplaceOlder(r)
        PROVE  StatusIsWritten
    BY <1>1
    DEF StatusIsWritten, CreateRequest, InsertRequest, SendToValidation, SendFails,
        ReplaceOlder, MarkReplaced, table
  <1>2. ASSUME NEW b \in Batches, SendBatch(b) \/ MessageReturns(b) \/ HolderIsTooSlow(b)
        PROVE  StatusIsWritten
    BY <1>2 DEF StatusIsWritten, SendBatch, MessageReturns, HolderIsTooSlow, table
  <1>3. ASSUME NEW w \in Workers,
               ReceiveMessage(w) \/ WorkerRuns(w) \/ HandlingFails(w) \/ WorkerDies(w)
        PROVE  StatusIsWritten
    BY <1>3
    DEF StatusIsWritten, ReceiveMessage, WorkerRuns, LoadBatch, AcquireMutex,
        SendTransaction, StoreCarFile, PersistAnchorResult, UpdateRequests, Ack, Nack,
        HandlingFails, WorkerDies, Interrupt, table
  <1>4. CASE UNCHANGED vars
    BY <1>4 DEF StatusIsWritten, vars, table
  <1> QED
    BY <1>1, <1>2, <1>3, <1>4 DEF Next

Settled(r) == status[r] \in {"COMPLETED", "REPLACED"}

\* A settled request stays settled, a COMPLETED one COMPLETED, a row a row.
LEMMA StatusesAdvance ==
  ASSUME [Next]_vars, NEW r \in Requests
  PROVE  /\ Settled(r) => Settled(r)'
         /\ status[r] = "COMPLETED" => status'[r] = "COMPLETED"
         /\ status[r] # "NONE" => status'[r] # "NONE"
  BY StatusWrites DEF StatusIsWritten, SetStatus, Settled

\* The body of a message does not change once it is sent.
LEMMA MessagesStay ==
  ASSUME TypeInv, [Next]_vars, NEW b \in Batches, message[b] # "none"
  PROVE  rids'[b] = rids[b] /\ message'[b] # "none"
  <1> USE DEF TypeInv, TypeOK
  <1>1. ASSUME NEW r \in Requests,
               CreateRequest(r) \/ SendToValidation(r) \/ SendFails(r) \/ ReplaceOlder(r)
        PROVE  UNCHANGED <<rids, message>>
    BY <1>1
    DEF CreateRequest, SendToValidation, SendFails, ReplaceOlder, queueVars
  <1>2. ASSUME NEW c \in Batches, SendBatch(c) \/ MessageReturns(c) \/ HolderIsTooSlow(c)
        PROVE  rids'[b] = rids[b] /\ message'[b] # "none"
    BY <1>2 DEF SendBatch, MessageReturns, HolderIsTooSlow
  <1>3. ASSUME NEW w \in Workers,
               ReceiveMessage(w) \/ WorkerRuns(w) \/ HandlingFails(w) \/ WorkerDies(w)
        PROVE  rids'[b] = rids[b] /\ message'[b] # "none"
    BY <1>3
    DEF ReceiveMessage, WorkerRuns, LoadBatch, AcquireMutex, SendTransaction,
        StoreCarFile, PersistAnchorResult, Ack, Nack, HandlingFails, WorkerDies,
        Interrupt, queueVars
  <1>4. CASE UNCHANGED vars
    BY <1>4 DEF vars, queueVars
  <1> QED
    BY <1>1, <1>2, <1>3, <1>4 DEF Next

\* A worker is moved by its own steps only.
LEMMA OthersWait ==
  ASSUME TypeInv, [Next]_vars, NEW w \in Workers,
         ~(ReceiveMessage(w) \/ WorkerRuns(w) \/ HandlingFails(w) \/ WorkerDies(w))
  PROVE  pc'[w] = pc[w] /\ msg'[w] = msg[w] /\ batch'[w] = batch[w]
  <1> USE DEF TypeInv, TypeOK
  <1>1. ASSUME NEW r \in Requests,
               CreateRequest(r) \/ SendToValidation(r) \/ SendFails(r) \/ ReplaceOlder(r)
        PROVE  UNCHANGED <<pc, msg, batch>>
    BY <1>1
    DEF CreateRequest, SendToValidation, SendFails, ReplaceOlder, workerVars
  <1>2. ASSUME NEW c \in Batches, SendBatch(c) \/ MessageReturns(c) \/ HolderIsTooSlow(c)
        PROVE  UNCHANGED <<pc, msg, batch>>
    BY <1>2 DEF SendBatch, MessageReturns, HolderIsTooSlow, workerVars
  <1>3. ASSUME NEW v \in Workers, v # w,
               ReceiveMessage(v) \/ WorkerRuns(v) \/ HandlingFails(v) \/ WorkerDies(v)
        PROVE  pc'[w] = pc[w] /\ msg'[w] = msg[w] /\ batch'[w] = batch[w]
    BY <1>3
    DEF ReceiveMessage, WorkerRuns, LoadBatch, AcquireMutex, SendTransaction,
        StoreCarFile, PersistAnchorResult, Ack, Nack, HandlingFails, WorkerDies,
        ToIdle, Goto
  <1>4. CASE UNCHANGED vars
    BY <1>4 DEF vars, workerVars
  <1> QED
    BY <1>1, <1>2, <1>3, <1>4 DEF Next

\* CompletedIsFinal: nothing takes COMPLETED back, whatever other deliveries of the
\* batch, batches that overlap it, and late workers do.
THEOREM CompletedForGood == SafetySpec => CompletedIsFinal
  <1>1. [Next]_vars
          => [\A r \in WithStatus("COMPLETED") : status'[r] = "COMPLETED"]_status
    BY StatusesAdvance DEF WithStatus
  <1> QED
    BY <1>1, PTL DEF SafetySpec, CompletedIsFinal

-----------------------------------------------------------------------------
(* Evidence before status.                                                 *)

\* What a worker has published so far is told by its step.
Published(w) ==
    /\ pc[w] \in {"storing", "persisting"} => batch[w] \in chain
    /\ pc[w] = "persisting" => batch[w] \in cars
EvidenceInv == (\A w \in Workers : Published(w)) /\ RowsAreProven

\* Nothing is ever taken off the chain or out of the CAR store, and anchor rows are
\* written by _persistAnchorResult alone.
LEMMA EvidenceGrows ==
  ASSUME [Next]_vars
  PROVE  /\ chain \subseteq chain' /\ cars \subseteq cars'
         /\ UNCHANGED anchors \/ \E w \in Workers : PersistAnchorResult(w)
  <1>1. ASSUME NEW r \in Requests,
               CreateRequest(r) \/ SendToValidation(r) \/ SendFails(r) \/ ReplaceOlder(r)
        PROVE  UNCHANGED evidence
    BY <1>1 DEF CreateRequest, SendToValidation, SendFails, ReplaceOlder
  <1>2. ASSUME NEW b \in Batches, SendBatch(b) \/ MessageReturns(b) \/ HolderIsTooSlow(b)
        PROVE  UNCHANGED evidence
    BY <1>2 DEF SendBatch, MessageReturns, HolderIsTooSlow
  <1>3. ASSUME NEW w \in Workers,
               ReceiveMessage(w) \/ WorkerRuns(w) \/ HandlingFails(w) \/ WorkerDies(w)
        PROVE  /\ chain \subseteq chain' /\ cars \subseteq cars'
               /\ UNCHANGED anchors \/ PersistAnchorResult(w)
    BY <1>3
    DEF ReceiveMessage, WorkerRuns, LoadBatch, AcquireMutex, SendTransaction,
        StoreCarFile, PersistAnchorResult, Ack, Nack, HandlingFails, WorkerDies,
        Interrupt, evidence
  <1>4. CASE UNCHANGED vars
    BY <1>4 DEF vars, evidence
  <1> QED
    BY <1>1, <1>2, <1>3, <1>4 DEF Next, evidence

LEMMA EvidenceStep ==
  ASSUME TypeInv, EvidenceInv, [Next]_vars
  PROVE  EvidenceInv'
  <1>1. ASSUME NEW w \in Workers PROVE Published(w)'
    <2>1. CASE ReceiveMessage(w) \/ WorkerRuns(w) \/ HandlingFails(w) \/ WorkerDies(w)
      BY <2>1
      DEF TypeInv, TypeOK, EvidenceInv, Published, ReceiveMessage, WorkerRuns, LoadBatch,
          AcquireMutex, SendTransaction, StoreCarFile, PersistAnchorResult, Ack, Nack,
          HandlingFails, WorkerDies, ToIdle, Goto, evidence
    <2>2. CASE ~(ReceiveMessage(w) \/ WorkerRuns(w) \/ HandlingFails(w) \/ WorkerDies(w))
      BY <2>2, OthersWait, EvidenceGrows DEF EvidenceInv, Published
    <2> QED
      BY <2>1, <2>2
  <1>2. CASE \E w \in Workers : PersistAnchorResult(w)
    BY <1>1, <1>2, BatchIsProven DEF EvidenceInv, Published, PersistAnchorResult
  <1>3. CASE ~\E w \in Workers : PersistAnchorResult(w)
    <2>1. UNCHANGED anchors
      BY <1>3, EvidenceGrows
    <2>2. \A r \in Requests : status'[r] = "COMPLETED" => status[r] = "COMPLETED"
      BY <1>3, StatusWrites DEF StatusIsWritten, SetStatus
    <2>3. RowsAreProven'
      BY <2>1, <2>2, EvidenceGrows, RowsStayProven DEF EvidenceInv
    <2> QED
      BY <1>1, <2>3 DEF EvidenceInv
  <1> QED
    BY <1>2, <1>3

LEMMA EvidenceHolds == SafetySpec => []EvidenceInv
  <1>1. Init => EvidenceInv
    BY RowsProvenAtStart DEF Init, EvidenceInv, Published
  <1> QED
    BY <1>1, EvidenceStep, TypeHolds, PTL DEF SafetySpec

\* CompletedIsProven: no redelivery, late worker, overlapping batch, failure or
\* crash leaves a COMPLETED request without a proof that can be fetched and verified.
THEOREM CompletedAreProven == SafetySpec => []CompletedIsProven
  <1>1. EvidenceInv => CompletedIsProven
    BY ProvenRowsSuffice DEF EvidenceInv
  <1> QED
    BY <1>1, EvidenceHolds, PTL

-----------------------------------------------------------------------------
(* No message is deleted before its requests are settled.                  *)

\* What a worker owes its message: a request it has left out of its batch, and every
\* request once it is about to ack, is settled.
RestIsSettled(w) ==
    /\ pc[w] \in {"locking", "sending", "storing", "persisting"} =>
         \A r \in rids[msg[w]] : r \in batch[w] \/ Settled(r)
    /\ pc[w] = "acking" => \A r \in rids[msg[w]] : Settled(r)
DeliveryInv == (\A w \in Workers : RestIsSettled(w)) /\ DeletedAreSettled

\* A message is deleted by a worker that is acking, when it is acking it.
LEMMA DeletesWhenAcking ==
  ASSUME TypeInv, [Next]_vars, NEW b \in Batches, message'[b] = "deleted"
  PROVE  message[b] = "deleted" \/ \E w \in Workers : pc[w] = "acking" /\ msg[w] = b
  <1> USE DEF TypeInv, TypeOK
  <1>1. ASSUME NEW r \in Requests,
               CreateRequest(r) \/ SendToValidation(r) \/ SendFails(r) \/ ReplaceOlder(r)
        PROVE  UNCHANGED message
    BY <1>1 DEF CreateRequest, SendToValidation, SendFails, ReplaceOlder, queueVars
  <1>2. ASSUME NEW c \in Batches, SendBatch(c) \/ MessageReturns(c) \/ HolderIsTooSlow(c)
        PROVE  message[b] = "deleted"
    BY <1>2 DEF SendBatch, MessageReturns, HolderIsTooSlow
  <1>3. ASSUME NEW w \in Workers,
               ReceiveMessage(w) \/ WorkerRuns(w) \/ HandlingFails(w) \/ WorkerDies(w)
        PROVE  message[b] = "deleted" \/ (pc[w] = "acking" /\ msg[w] = b)
    BY <1>3
    DEF ReceiveMessage, WorkerRuns, LoadBatch, AcquireMutex, SendTransaction,
        StoreCarFile, PersistAnchorResult, Ack, Nack, HandlingFails, WorkerDies,
        Interrupt, queueVars
  <1>4. CASE UNCHANGED vars
    BY <1>4 DEF vars, queueVars
  <1> QED
    BY <1>1, <1>2, <1>3, <1>4 DEF Next

LEMMA DeliveryStep ==
  ASSUME TypeInv, DeliveryInv, [Next]_vars
  PROVE  DeliveryInv'
  <1>1. ASSUME NEW r \in Requests, Settled(r) PROVE Settled(r)'
    BY <1>1, StatusesAdvance
  <1>2. rids \in [Batches -> SUBSET Requests]
    BY DEF TypeInv, TypeOK
  <1>3. ASSUME NEW w \in Workers, pc[w] # "idle"
        PROVE  /\ msg[w] \in Batches /\ rids[msg[w]] \subseteq Requests
               /\ rids'[msg[w]] = rids[msg[w]]
    BY <1>2, <1>3, MessagesStay DEF TypeInv, HasMessage
  <1>4. ASSUME NEW w \in Workers PROVE RestIsSettled(w)'
    <2>1. CASE ~(ReceiveMessage(w) \/ WorkerRuns(w) \/ HandlingFails(w) \/ WorkerDies(w))
      BY <1>1, <1>3, <2>1, OthersWait DEF DeliveryInv, RestIsSettled
    <2>2. CASE LoadBatch(w)
      BY <1>3, <2>2
      DEF LoadBatch, Goto, RestIsSettled, Settled, WithStatus, TypeInv, TypeOK, table,
          queueVars
    <2>3. CASE AcquireMutex(w) \/ SendTransaction(w) \/ StoreCarFile(w)
      <3>1. /\ pc[w] \in {"locking", "sending", "storing"}
            /\ pc'[w] \in {"sending", "storing", "persisting"}
            /\ msg'[w] = msg[w] /\ batch'[w] = batch[w]
        BY <2>3 DEF AcquireMutex, SendTransaction, StoreCarFile, Goto, TypeInv, TypeOK
      <3> QED
        BY <1>1, <1>3, <3>1 DEF DeliveryInv, RestIsSettled
    <2>4. CASE PersistAnchorResult(w)
      <3>1. pc[w] = "persisting" /\ pc'[w] = "acking" /\ msg'[w] = msg[w]
        BY <2>4 DEF PersistAnchorResult, Goto, TypeInv, TypeOK
      <3>2. ASSUME NEW r \in Requests, r \in batch[w] PROVE Settled(r)'
        BY <2>4, <3>2 DEF PersistAnchorResult, UpdateRequests, SetStatus, Settled
      <3> QED
        BY <1>1, <1>3, <3>1, <3>2 DEF DeliveryInv, RestIsSettled
    <2>5. CASE \/ ReceiveMessage(w) \/ Ack(w) \/ Nack(w)
               \/ HandlingFails(w) \/ WorkerDies(w)
      <3>1. pc'[w] \in {"loading", "idle", "nacking"}
        BY <2>5
        DEF ReceiveMessage, Ack, Nack, HandlingFails, WorkerDies, ToIdle, Goto, TypeInv,
            TypeOK
      <3> QED
        BY <3>1 DEF RestIsSettled
    <2> QED
      BY <2>1, <2>2, <2>3, <2>4, <2>5 DEF WorkerRuns
  <1>5. ASSUME NEW b \in Batches, message'[b] = "deleted", NEW r \in rids'[b]
        PROVE  Settled(r)'
    <2>1. message[b] # "none"
      BY <1>5, DeletesWhenAcking DEF TypeInv, HasMessage
    <2>2. r \in rids[b] /\ r \in Requests
      BY <1>2, <1>5, <2>1, MessagesStay
    <2>3. Settled(r)
      BY <1>5, <2>2, DeletesWhenAcking
      DEF DeliveryInv, DeletedAreSettled, RestIsSettled, Settled
    <2> QED
      BY <1>1, <2>2, <2>3
  <1> QED
    BY <1>4, <1>5 DEF DeliveryInv, DeletedAreSettled, Settled

\* DeletedAreSettled: a message leaves the queue for good only when each of its
\* requests is COMPLETED or REPLACED, whoever held it, crashed or was too slow.
THEOREM NoRequestIsLost == SafetySpec => []DeletedAreSettled
  <1>1. Init => DeliveryInv
    BY DEF Init, DeliveryInv, RestIsSettled, DeletedAreSettled
  <1>2. DeliveryInv => DeletedAreSettled
    BY DEF DeliveryInv
  <1> QED
    BY <1>1, <1>2, DeliveryStep, TypeHolds, PTL DEF SafetySpec

-----------------------------------------------------------------------------
(* The queue implements the ledger.                                        *)

\* What is sent to a queue, and what a worker anchors, are stored requests.
OnlyRows ==
    /\ \A r \in Requests : call[r] = "stored" => r \in Rows
    /\ validation \subseteq Rows
    /\ \A b \in Batches : rids[b] \subseteq Rows
    /\ \A w \in Workers : batch[w] \subseteq Rows

LEMMA RowsStay ==
  ASSUME [Next]_vars
  PROVE  Rows \subseteq Rows'
  BY StatusesAdvance DEF Rows

LEMMA OnlyRowsStep ==
  ASSUME TypeInv, OnlyRows, [Next]_vars
  PROVE  OnlyRows'
  <1>1. Rows \subseteq Rows'
    BY RowsStay
  <1>2. ASSUME UNCHANGED <<apiVars, rids, batch>> PROVE OnlyRows'
    BY <1>1, <1>2 DEF OnlyRows, apiVars
  <1>3. ASSUME NEW r \in Requests, CreateRequest(r) PROVE OnlyRows'
    <2>1. r \in Rows'
      BY <1>3 DEF CreateRequest, InsertRequest, SetStatus, Rows
    <2> QED
      BY <1>1, <1>3, <2>1
      DEF CreateRequest, OnlyRows, TypeInv, TypeOK, queueVars, workerVars
  <1>4. ASSUME NEW r \in Requests, SendToValidation(r) \/ SendFails(r) PROVE OnlyRows'
    BY <1>1, <1>4
    DEF SendToValidation, SendFails, OnlyRows, TypeInv, TypeOK, queueVars, workerVars
  <1>5. ASSUME NEW r \in Requests, ReplaceOlder(r) PROVE OnlyRows'
    BY <1>2, <1>5 DEF ReplaceOlder, queueVars, workerVars
  <1>6. ASSUME NEW b \in Batches, SendBatch(b) PROVE OnlyRows'
    BY <1>1, <1>6 DEF SendBatch, OnlyRows, TypeInv, TypeOK, apiVars, workerVars
  <1>7. ASSUME NEW b \in Batches, MessageReturns(b) \/ HolderIsTooSlow(b) PROVE OnlyRows'
    BY <1>2, <1>7 DEF MessageReturns, HolderIsTooSlow, workerVars
  <1>8. ASSUME NEW w \in Workers,
               \/ ReceiveMessage(w) \/ AcquireMutex(w) \/ SendTransaction(w)
               \/ StoreCarFile(w) \/ PersistAnchorResult(w) \/ HandlingFails(w)
        PROVE  OnlyRows'
    BY <1>2, <1>8
    DEF ReceiveMessage, AcquireMutex, SendTransaction, StoreCarFile,
        PersistAnchorResult, HandlingFails, Interrupt, queueVars
  <1>9. ASSUME NEW w \in Workers, LoadBatch(w) PROVE OnlyRows'
    <2>1. rids[msg[w]] \subseteq Rows
      BY <1>9 DEF LoadBatch, OnlyRows, TypeInv, HasMessage
    <2> QED
      BY <1>1, <1>9, <2>1 DEF LoadBatch, OnlyRows, TypeInv, TypeOK, apiVars, queueVars
  <1>10. ASSUME NEW w \in Workers, Ack(w) \/ Nack(w) \/ WorkerDies(w) PROVE OnlyRows'
    BY <1>1, <1>10
    DEF Ack, Nack, WorkerDies, Interrupt, ToIdle, OnlyRows, TypeInv, TypeOK, apiVars
  <1>11. CASE UNCHANGED vars
    BY <1>2, <1>11 DEF vars, queueVars, workerVars
  <1> QED
    BY <1>3, <1>4, <1>5, <1>6, <1>7, <1>8, <1>9, <1>10, <1>11 DEF Next, WorkerRuns

\* A step of a worker publishes its batch, issues receipts for it, or stutters.
LEMMA WorkerStepsMap ==
  ASSUME TypeInv, EvidenceInv, OnlyRows, NEW w \in Workers,
         ReceiveMessage(w) \/ WorkerRuns(w) \/ HandlingFails(w) \/ WorkerDies(w)
  PROVE  [Ledger!LedgerNext]_(Ledger!ledger)
  <1>1. batch[w] \in SUBSET Rows
    BY DEF OnlyRows
  <1>2. CASE PersistAnchorResult(w)
    <2>1. batch[w] \in chain \cap cars
      BY <1>2 DEF EvidenceInv, Published, PersistAnchorResult
    <2>2. UNCHANGED Rows
      BY <1>1, <1>2, RowsUnchanged DEF PersistAnchorResult, UpdateRequests, Status
    <2> QED
      BY <1>1, <1>2, <2>1, <2>2, PersistingMaps DEF PersistAnchorResult
  <1>3. CASE ~PersistAnchorResult(w)
    <2>1. /\ UNCHANGED <<status, anchors>>
          /\ chain' = chain \/ chain' = chain \cup {batch[w]}
          /\ cars' = cars \/ cars' = cars \cup {batch[w]}
      BY <1>3
      DEF ReceiveMessage, WorkerRuns, LoadBatch, AcquireMutex, SendTransaction,
          StoreCarFile, Ack, Nack, HandlingFails, WorkerDies, Interrupt, evidence, table
    <2>2. UNCHANGED Rows
      BY <2>1 DEF Rows
    <2> QED
      BY <1>1, <2>1, <2>2, PublishingMaps
  <1> QED
    BY <1>2, <1>3

\* Any other step submits a request or stutters.
LEMMA OutsideStepsMap ==
  ASSUME TypeInv, OnlyRows,
         \/ \E r \in Requests :
              CreateRequest(r) \/ SendToValidation(r) \/ SendFails(r) \/ ReplaceOlder(r)
         \/ \E b \in Batches : SendBatch(b) \/ MessageReturns(b) \/ HolderIsTooSlow(b)
         \/ UNCHANGED vars
  PROVE  [Ledger!LedgerNext]_(Ledger!ledger)
  <1>1. ASSUME UNCHANGED <<status, evidence>> PROVE [Ledger!LedgerNext]_(Ledger!ledger)
    BY <1>1, OtherStepsMap DEF Rows
  <1>2. ASSUME NEW r \in Requests, CreateRequest(r)
        PROVE  [Ledger!LedgerNext]_(Ledger!ledger)
    BY <1>2, OtherStepsMap DEF CreateRequest
  <1>3. ASSUME NEW r \in Requests, ReplaceOlder(r)
        PROVE  [Ledger!LedgerNext]_(Ledger!ledger)
    <2>1. {r} \in SUBSET Rows
      BY <1>3 DEF ReplaceOlder, OnlyRows
    <2>2. UNCHANGED Rows
      BY <1>3, <2>1, RowsUnchanged DEF ReplaceOlder, MarkReplaced, Status
    <2> QED
      BY <1>3, <2>2, OtherStepsMap DEF ReplaceOlder
  <1>4. ASSUME NEW r \in Requests, SendToValidation(r) \/ SendFails(r)
        PROVE  [Ledger!LedgerNext]_(Ledger!ledger)
    BY <1>1, <1>4 DEF SendToValidation, SendFails, table
  <1>5. ASSUME NEW b \in Batches, SendBatch(b) \/ MessageReturns(b) \/ HolderIsTooSlow(b)
        PROVE  [Ledger!LedgerNext]_(Ledger!ledger)
    BY <1>1, <1>5 DEF SendBatch, MessageReturns, HolderIsTooSlow, table
  <1>6. CASE UNCHANGED vars
    BY <1>1, <1>6 DEF vars, table
  <1> QED
    BY <1>2, <1>3, <1>4, <1>5, <1>6

\* ImplementsLedger: every behaviour of the queue is one of the ledger.
THEOREM QueueImplementsLedger == SafetySpec => ImplementsLedger
  <1>1. Init => Ledger!LedgerInit /\ OnlyRows
    BY DEF Init, EvidenceInit, TableInit, Ledger!LedgerInit, OnlyRows, Rows
  <1>2. TypeInv /\ EvidenceInv /\ OnlyRows /\ [Next]_vars
          => [Ledger!LedgerNext]_(Ledger!ledger)
    BY WorkerStepsMap, OutsideStepsMap DEF Next
  <1> QED
    BY <1>1, <1>2, OnlyRowsStep, TypeHolds, EvidenceHolds, PTL
    DEF SafetySpec, ImplementsLedger, Ledger!LedgerSpec
=============================================================================
