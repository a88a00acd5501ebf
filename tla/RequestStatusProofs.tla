------------------------ MODULE RequestStatusProofs ------------------------
(***************************************************************************)
(* Proofs about AnchorPipeline and its readers, for every set of requests  *)
(* and workers, every limit and timeout, any lag of the replica and every  *)
(* number of failures.  The first part is about the pipeline alone         *)
(* (SafetySpec); the second about RequestStatus: what anyone was ever told *)
(* of an anchor stays true.                                                *)
(***************************************************************************)
EXTENDS RequestStatus, AnchorStoreProofs

(***************************************************************************)
(*                              The pipeline                               *)
(***************************************************************************)

-----------------------------------------------------------------------------
(* Type correctness.                                                       *)

\* What a request's POST, the scheduler, a worker or the clock does to the types.
LEMMA ApiType ==
  ASSUME TypeOK, NEW r \in Requests, ApiStep(r)
  PROVE  TypeOK'
  <1>1. CASE CreateRequest(r)
    BY <1>1, InsertRequestType
    DEF TypeOK, CreateRequest, CallStep, schedulerVars, workerVars, evidence
  <1>2. CASE SelectReplaced(r)
    <2>1. ASSUME NEW S \in ReplaceableSets(r) PROVE S \subseteq Requests
      BY DEF ReplaceableSets, Competitors, WithStatus
    <2>2. victims' \in [Requests -> SUBSET Requests]
      BY <1>2, <2>1 DEF TypeOK, SelectReplaced
    <2> QED
      BY <1>2, <2>2
      DEF TypeOK, SelectReplaced, CallStep, table, TableTypeOK, schedulerVars,
          workerVars, evidence
  <1>3. CASE ReplaceOlder(r)
    <2>1. TableTypeOK'
      BY <1>3, MarkType DEF TypeOK, ReplaceOlder
    <2> QED
      BY <1>3, <2>1
      DEF TypeOK, ReplaceOlder, CallStep, schedulerVars, workerVars, evidence
  <1>4. CASE CreateFails(r)
    BY <1>4, LimitAssumption
    DEF TypeOK, CreateFails, Fault, CallStep, table, TableTypeOK, schedulerVars,
        workerVars, evidence
  <1> QED
    BY <1>1, <1>2, <1>3, <1>4 DEF ApiStep

LEMMA SchedulerType ==
  ASSUME TypeOK, SchedulerRuns \/ SchedulerFails
  PROVE  TypeOK'
  <1>1. CASE CountReady
    BY <1>1
    DEF TypeOK, CountReady, SchedulerStep, table, TableTypeOK, apiVars, workerVars,
        evidence
  <1>2. CASE MarkReady
    <2>1. TableTypeOK'
      BY <1>2, UpdateRequestsType DEF TypeOK, MarkReady, FindAndMarkReady, Status
    <2> QED
      BY <1>2, <2>1
      DEF TypeOK, MarkReady, SchedulerStep, apiVars, workerVars, evidence
  <1>3. CASE RetryReady
    <2>1. TableTypeOK'
      BY <1>3, UpdateRequestsType
      DEF TypeOK, RetryReady, UpdateExpiringReadyRequests, Status
    <2> QED
      BY <1>3, <2>1
      DEF TypeOK, RetryReady, SchedulerStep, apiVars, workerVars, evidence
  <1>4. CASE EmitAnchorEvent
    BY <1>4
    DEF TypeOK, EmitAnchorEvent, SchedulerStep, table, TableTypeOK, apiVars,
        workerVars, evidence
  <1>5. CASE SchedulerFails
    BY <1>5, LimitAssumption
    DEF TypeOK, SchedulerFails, Fault, SchedulerStep, table, TableTypeOK, apiVars,
        workerVars, evidence
  <1> QED
    BY <1>1, <1>2, <1>3, <1>4, <1>5 DEF SchedulerRuns

\* The steps of a worker, and its failures.
LEMMA WorkerType ==
  ASSUME TypeOK, NEW w \in Workers,
         StartAnchoring(w) \/ WorkerRuns(w) \/ AnchoringFails(w) \/ WorkerDies(w)
  PROVE  TypeOK'
  <1> USE DEF WorkerStep, Anchoring
  <1>1. CASE StartAnchoring(w)
    BY <1>1
    DEF TypeOK, StartAnchoring, Goto, table, TableTypeOK, apiVars, evidence
  <1>2. CASE WorkerMarksReady(w)
    <2>1. TableTypeOK'
      BY <1>2, UpdateRequestsType
      DEF TypeOK, WorkerMarksReady, FindAndMarkReady, Status
    <2> QED
      BY <1>2, <2>1
      DEF TypeOK, WorkerMarksReady, Goto, apiVars, schedulerVars, evidence
  <1>3. CASE SelectBatch(w)
    <2>1. ASSUME NEW S \in ReadyBatches(MaxStreamLimit) PROVE S \subseteq Requests
      BY DEF ReadyBatches, WithStatus
    <2> QED
      BY <1>3, <2>1
      DEF TypeOK, SelectBatch, Goto, table, TableTypeOK, apiVars, schedulerVars,
          evidence
  <1>4. CASE ClaimBatch(w)
    <2>1. TableTypeOK'
      BY <1>4, MarkType DEF TypeOK, ClaimBatch
    <2> QED
      BY <1>4, <2>1 DEF TypeOK, ClaimBatch, Goto, apiVars, schedulerVars, evidence
  <1>5. CASE FindCandidates(w) \/ AcquireMutex(w) \/ LogAnchorSummary(w)
    BY <1>5
    DEF TypeOK, FindCandidates, AcquireMutex, LogAnchorSummary, Goto, table,
        TableTypeOK, apiVars, schedulerVars, evidence
  <1>6. CASE SendTransaction(w) \/ StoreCarFile(w)
    BY <1>6
    DEF TypeOK, SendTransaction, StoreCarFile, Goto, table, TableTypeOK, apiVars,
        schedulerVars
  <1>7. CASE PersistAnchorResult(w)
    <2>1. TableTypeOK'
      BY <1>7, UpdateRequestsType DEF TypeOK, PersistAnchorResult, Status
    <2>2. anchors' \in [Requests -> SUBSET Requests]
      BY <1>7 DEF TypeOK, PersistAnchorResult, CreateAnchors
    <2> QED
      BY <1>7, <2>1, <2>2 DEF TypeOK, PersistAnchorResult, Goto, apiVars, schedulerVars
  <1>8. CASE RevertToPending(w)
    <2>1. TableTypeOK'
      BY <1>8, UpdateRequestsType DEF TypeOK, RevertToPending, Status
    <2> QED
      BY <1>8, <2>1 DEF TypeOK, RevertToPending, Goto, apiVars, schedulerVars, evidence
  <1>9. CASE AnchoringFails(w) \/ WorkerDies(w)
    <2>1. chain' \subseteq SUBSET Requests /\ cars' \subseteq SUBSET Requests
      BY <1>9 DEF TypeOK, AnchoringFails, WorkerDies
    <2>2. faults' \in 0..MaxFaults
      BY <1>9, LimitAssumption DEF TypeOK, AnchoringFails, WorkerDies, Fault
    <2> QED
      BY <1>9, <2>1, <2>2
      DEF TypeOK, AnchoringFails, WorkerDies, Goto, table, TableTypeOK, apiVars,
          schedulerVars
  <1> QED
    BY <1>1, <1>2, <1>3, <1>4, <1>5, <1>6, <1>7, <1>8, <1>9 DEF WorkerRuns

LEMMA TimeType ==
  ASSUME TypeOK, ClockTicks \/ AnchoringDeadlinePasses
  PROVE  TypeOK'
  <1>1. TableTypeOK'
    BY ClockType DEF TypeOK, ClockTicks, AnchoringDeadlinePasses
  <1> QED
    BY <1>1
    DEF TypeOK, ClockTicks, AnchoringDeadlinePasses, apiVars, schedulerVars, workerVars,
        evidence

LEMMA TypeInit == Init => TypeOK
  <1> SUFFICES ASSUME Init PROVE TypeOK
    OBVIOUS
  <1>1. TableTypeOK
    BY OldestAgeIsNat DEF Init, EvidenceInit, TableInit, TableTypeOK, Status
  <1>2. faults \in 0..MaxFaults
    BY LimitAssumption DEF Init, EvidenceInit
  <1> QED
    BY <1>1, <1>2 DEF Init, EvidenceInit, TypeOK, CallStep, SchedulerStep, WorkerStep

LEMMA TypeStep ==
  ASSUME TypeOK, [Next]_vars
  PROVE  TypeOK'
  <1>1. CASE Next
    BY <1>1, ApiType, SchedulerType, WorkerType, TimeType DEF Next
  <1>2. CASE UNCHANGED vars
    BY <1>2
    DEF TypeOK, vars, table, TableTypeOK, apiVars, schedulerVars, workerVars, evidence
  <1> QED
    BY <1>1, <1>2

\* Every variable stays in its domain in every behaviour of the pipeline.
THEOREM TypeCorrect == SafetySpec => []TypeOK
  BY TypeInit, TypeStep, PTL DEF SafetySpec

-----------------------------------------------------------------------------
(* Rows are never deleted, and a status is given only to rows.             *)

\* Each statement of a step leaves every row a row.
LEMMA RowsStay ==
  ASSUME TypeOK, [Next]_vars
  PROVE  Rows \subseteq Rows'
  <1>1. CASE UNCHANGED status
    BY <1>1 DEF Rows
  <1>2. ASSUME NEW S, NEW st \in Status \ {"NONE"}, SetStatus(S, st)
        PROVE  Rows \subseteq Rows'
    BY <1>2, SetStatusKeepsRows
  <1> DEFINE WritesOnlyStatuses ==
               \/ UNCHANGED status
               \/ \E S \in SUBSET Requests, st \in Status \ {"NONE"} : SetStatus(S, st)
  <1>3. WritesOnlyStatuses
    <2>1. ASSUME NEW r \in Requests, ApiStep(r) PROVE WritesOnlyStatuses
      BY <2>1
      DEF ApiStep, CreateRequest, InsertRequest, SelectReplaced, ReplaceOlder,
          MarkReplaced, CreateFails, TypeOK, Status, table
    <2>2. ASSUME SchedulerRuns \/ SchedulerFails PROVE WritesOnlyStatuses
      BY <2>2
      DEF SchedulerRuns, SchedulerFails, CountReady, MarkReady, RetryReady,
          EmitAnchorEvent, FindAndMarkReady, UpdateExpiringReadyRequests, UpdateRequests,
          RequestsToMarkReady, RequestsToAnchor, WithStatus, Status, table
    <2>3. ASSUME NEW w \in Workers,
                 StartAnchoring(w) \/ WorkerRuns(w) \/ AnchoringFails(w) \/ WorkerDies(w)
          PROVE  WritesOnlyStatuses
      BY <2>3
      DEF StartAnchoring, WorkerRuns, AnchoringFails, WorkerDies, WorkerMarksReady,
          FindAndMarkReady, SelectBatch, ClaimBatch, MarkProcessing, FindCandidates,
          AcquireMutex, SendTransaction, StoreCarFile, PersistAnchorResult,
          LogAnchorSummary, RevertToPending, UpdateRequests, RequestsToMarkReady,
          RequestsToAnchor, TypeOK, Status, table
    <2>4. ASSUME ClockTicks \/ AnchoringDeadlinePasses PROVE WritesOnlyStatuses
      BY <2>4 DEF ClockTicks, AnchoringDeadlinePasses, Tick, DeadlinePasses
    <2>5. ASSUME UNCHANGED vars PROVE WritesOnlyStatuses
      BY <2>5 DEF vars, table
    <2> QED
      BY <2>1, <2>2, <2>3, <2>4, <2>5 DEF Next
  <1> QED
    BY <1>1, <1>2, <1>3

-----------------------------------------------------------------------------
(* Evidence before status.                                                 *)

\* The strengthening of CompletedIsProven: what a worker has published so far is
\* told by its step, and every anchor row, COMPLETED or reverted, is proven.
Published(w) ==
    /\ pc[w] \in {"storing", "persisting", "summarising"} => batch[w] \in chain
    /\ pc[w] \in {"persisting", "summarising"} => batch[w] \in cars
EvidenceInv == (\A w \in Workers : Published(w)) /\ RowsAreProven

\* A step that leaves the evidence and the workers alone and completes nothing.
LEMMA EvidenceUntouched ==
  ASSUME TypeOK, EvidenceInv, UNCHANGED <<workerVars, evidence>>,
         \/ UNCHANGED status
         \/ \E S, st : st # "COMPLETED" /\ SetStatus(S, st)
  PROVE  EvidenceInv'
  <1>1. ASSUME NEW r \in Requests, status'[r] = "COMPLETED"
        PROVE  status[r] = "COMPLETED"
    BY <1>1 DEF SetStatus
  <1>2. RowsAreProven'
    BY <1>1, RowsStayProven DEF EvidenceInv, evidence
  <1>3. ASSUME NEW w \in Workers PROVE Published(w)'
    BY <1>3 DEF EvidenceInv, Published, evidence, workerVars
  <1> QED
    BY <1>2, <1>3 DEF EvidenceInv

LEMMA EvidenceWorkerStep ==
  ASSUME TypeOK, EvidenceInv, NEW w \in Workers,
         StartAnchoring(w) \/ WorkerRuns(w) \/ AnchoringFails(w) \/ WorkerDies(w)
  PROVE  EvidenceInv'
  <1>1. chain \subseteq chain' /\ cars \subseteq cars'
    BY DEF StartAnchoring, WorkerRuns, WorkerMarksReady, SelectBatch, ClaimBatch,
        FindCandidates, AcquireMutex, SendTransaction, StoreCarFile, PersistAnchorResult,
        LogAnchorSummary, RevertToPending, AnchoringFails, WorkerDies, evidence
  <1>2. ASSUME NEW v \in Workers PROVE Published(v)'
    <2>1. CASE v # w
      <3>1. pc'[v] = pc[v] /\ batch'[v] = batch[v]
        BY <2>1
        DEF TypeOK, StartAnchoring, WorkerRuns, WorkerMarksReady, SelectBatch,
            ClaimBatch, FindCandidates, AcquireMutex, SendTransaction, StoreCarFile,
            PersistAnchorResult, LogAnchorSummary, RevertToPending, AnchoringFails,
            WorkerDies, Goto, workerVars
      <3> QED
        BY <1>1, <3>1 DEF EvidenceInv, Published
    <2>2. CASE v = w
      BY <2>2
      DEF EvidenceInv, Published, TypeOK, StartAnchoring, WorkerRuns, WorkerMarksReady,
          SelectBatch, ClaimBatch, FindCandidates, AcquireMutex, SendTransaction,
          StoreCarFile, PersistAnchorResult, LogAnchorSummary, RevertToPending,
          AnchoringFails, WorkerDies, Goto, evidence
    <2> QED
      BY <2>1, <2>2
  <1>3. CASE PersistAnchorResult(w)
    <2>1. batch[w] \in chain \cap cars
      BY <1>3 DEF EvidenceInv, Published, PersistAnchorResult
    <2> QED
      BY <1>2, <1>3, <2>1, BatchIsProven DEF EvidenceInv, PersistAnchorResult
  <1>4. CASE ~PersistAnchorResult(w)
    <2>1. UNCHANGED anchors
      BY <1>4
      DEF StartAnchoring, WorkerRuns, WorkerMarksReady, SelectBatch, ClaimBatch,
          FindCandidates, AcquireMutex, SendTransaction, StoreCarFile, LogAnchorSummary,
          RevertToPending, AnchoringFails, WorkerDies, evidence
    <2>2. ASSUME NEW r \in Requests, status'[r] = "COMPLETED"
          PROVE  status[r] = "COMPLETED"
      BY <1>4, <2>2
      DEF StartAnchoring, WorkerRuns, WorkerMarksReady, FindAndMarkReady, SelectBatch,
          ClaimBatch, MarkProcessing, FindCandidates, AcquireMutex, SendTransaction,
          StoreCarFile, LogAnchorSummary, RevertToPending, AnchoringFails, WorkerDies,
          UpdateRequests, SetStatus, table
    <2> QED
      BY <1>1, <1>2, <2>1, <2>2, RowsStayProven DEF EvidenceInv
  <1> QED
    BY <1>3, <1>4

LEMMA EvidenceStart == Init => EvidenceInv
  BY RowsProvenAtStart DEF Init, EvidenceInv, Published

LEMMA EvidenceStep ==
  ASSUME TypeOK, EvidenceInv, [Next]_vars
  PROVE  EvidenceInv'
  <1>1. ASSUME NEW r \in Requests, ApiStep(r) PROVE EvidenceInv'
    <2>1. UNCHANGED <<workerVars, evidence>>
      BY <1>1 DEF ApiStep, CreateRequest, SelectReplaced, ReplaceOlder, CreateFails
    <2>2. UNCHANGED status \/ \E S, st : st # "COMPLETED" /\ SetStatus(S, st)
      BY <1>1
      DEF ApiStep, CreateRequest, InsertRequest, SelectReplaced, ReplaceOlder,
          MarkReplaced, CreateFails, table
    <2> QED
      BY <2>1, <2>2, EvidenceUntouched
  <1>2. ASSUME SchedulerRuns \/ SchedulerFails PROVE EvidenceInv'
    <2>1. UNCHANGED <<workerVars, evidence>>
      BY <1>2
      DEF SchedulerRuns, SchedulerFails, CountReady, MarkReady, RetryReady,
          EmitAnchorEvent
    <2>2. UNCHANGED status \/ \E S, st : st # "COMPLETED" /\ SetStatus(S, st)
      BY <1>2
      DEF SchedulerRuns, SchedulerFails, CountReady, MarkReady, RetryReady,
          EmitAnchorEvent, FindAndMarkReady, UpdateExpiringReadyRequests,
          UpdateRequests, table
    <2> QED
      BY <2>1, <2>2, EvidenceUntouched
  <1>3. ASSUME NEW w \in Workers,
               StartAnchoring(w) \/ WorkerRuns(w) \/ AnchoringFails(w) \/ WorkerDies(w)
        PROVE  EvidenceInv'
    BY <1>3, EvidenceWorkerStep
  <1>4. CASE ClockTicks \/ AnchoringDeadlinePasses \/ UNCHANGED vars
    BY <1>4, EvidenceUntouched
    DEF ClockTicks, AnchoringDeadlinePasses, Tick, DeadlinePasses, vars, table
  <1> QED
    BY <1>1, <1>2, <1>3, <1>4 DEF Next

\* The strengthening holds in every behaviour.
LEMMA EvidenceHolds == SafetySpec => []EvidenceInv
  BY EvidenceStart, EvidenceStep, TypeCorrect, PTL DEF SafetySpec

\* CompletedIsProven, in every behaviour of the pipeline: no failure, crash, double
\* claim or revert leaves a COMPLETED request without a proof that can be fetched
\* and verified.
THEOREM CompletedAreProven == SafetySpec => []CompletedIsProven
  <1>1. EvidenceInv => CompletedIsProven
    BY ProvenRowsSuffice DEF EvidenceInv
  <1> QED
    BY <1>1, EvidenceHolds, PTL

-----------------------------------------------------------------------------
(* The batches.                                                            *)

\* A batch is what the LIMIT of batchProcessing lets through, until it is dropped.
LEMMA BatchIsSelected ==
  ASSUME TypeOK, [Next]_vars, NEW v \in Workers
  PROVE  batch'[v] = batch[v] \/ batch'[v] = {} \/ batch'[v] \in ReadyBatches(MaxStreamLimit)
  <1>1. ASSUME NEW w \in Workers, SelectBatch(w)
        PROVE  batch'[v] = batch[v] \/ batch'[v] \in ReadyBatches(MaxStreamLimit)
    BY <1>1 DEF SelectBatch, TypeOK
  <1>2. ASSUME NEW w \in Workers,
               LogAnchorSummary(w) \/ RevertToPending(w) \/ WorkerDies(w)
        PROVE  batch'[v] = batch[v] \/ batch'[v] = {}
    BY <1>2 DEF LogAnchorSummary, RevertToPending, WorkerDies, TypeOK
  <1>3. ASSUME NEW w \in Workers,
               \/ StartAnchoring(w) \/ WorkerMarksReady(w) \/ ClaimBatch(w)
               \/ FindCandidates(w) \/ AcquireMutex(w) \/ SendTransaction(w)
               \/ StoreCarFile(w) \/ PersistAnchorResult(w) \/ AnchoringFails(w)
        PROVE  UNCHANGED batch
    BY <1>3
    DEF StartAnchoring, WorkerMarksReady, ClaimBatch, FindCandidates, AcquireMutex,
        SendTransaction, StoreCarFile, PersistAnchorResult, AnchoringFails
  <1>4. ASSUME \/ \E r \in Requests : ApiStep(r)
               \/ SchedulerRuns \/ SchedulerFails
               \/ ClockTicks \/ AnchoringDeadlinePasses \/ UNCHANGED vars
        PROVE  UNCHANGED batch
    BY <1>4
    DEF ApiStep, CreateRequest, SelectReplaced, ReplaceOlder, CreateFails,
        SchedulerRuns, CountReady, MarkReady, RetryReady, EmitAnchorEvent,
        SchedulerFails, ClockTicks, AnchoringDeadlinePasses, vars, workerVars
  <1> QED
    BY <1>1, <1>2, <1>3, <1>4 DEF Next, WorkerRuns

-----------------------------------------------------------------------------
(* The newest request of a stream is kept.                                 *)

\* There is another stored request of the stream and origin that is not older.
Superseded(r) == \E p \in Rivals(r) : p # r /\ TimestampOf[p] >= TimestampOf[r]

\* What a POST has selected to replace is superseded already.
RivalInv ==
    /\ \A c \in Requests : \A r \in victims[c] : Superseded(r)
    /\ \A r \in Requests : status[r] = "REPLACED" => Superseded(r)

\* The subquery of markReplaced leaves out a request not older than all it selects.
LEMMA ReplaceableAreSuperseded ==
  ASSUME TypeOK, NEW c \in Requests, NEW S \in ReplaceableSets(c), NEW r \in S
  PROVE  Superseded(r)
  <1>1. PICK n \in Competitors(c) :
          /\ \A p \in Competitors(c) : TimestampOf[p] <= TimestampOf[n]
          /\ r \in Competitors(c) \ {n}
    BY DEF ReplaceableSets
  <1>2. n \in Requests /\ r \in Requests /\ n # r
    BY <1>1 DEF Competitors, WithStatus
  <1>3. n \in Rivals(r)
    BY <1>1 DEF Competitors, WithStatus, Rivals, Rows
  <1>4. TimestampOf[n] >= TimestampOf[r]
    BY <1>1, <1>2, TimestampAssumption
  <1> QED
    BY <1>2, <1>3, <1>4 DEF Superseded

\* A superseded request stays superseded.
LEMMA SupersededForGood ==
  ASSUME TypeOK, [Next]_vars, NEW r, Superseded(r)
  PROVE  Superseded(r)'
  <1>1. Rivals(r) \subseteq Rivals(r)'
    BY RowsStay DEF Rivals
  <1> QED
    BY <1>1 DEF Superseded

\* NewestIsKept: the one newest request of a stream and origin is never dropped, however
\* many POSTs, batches and reverts interleave with markReplaced, whatever timestamps the
\* other requests have.
THEOREM NewestAreKept == SafetySpec => []NewestIsKept
  <1>1. Init => RivalInv
    BY DEF Init, EvidenceInit, TableInit, RivalInv
  <1>2. TypeOK /\ RivalInv /\ [Next]_vars => RivalInv'
    <2> SUFFICES ASSUME TypeOK, RivalInv, [Next]_vars PROVE RivalInv'
      OBVIOUS
    <2>1. ASSUME NEW r, Superseded(r) PROVE Superseded(r)'
      BY <2>1, SupersededForGood
    <2> DEFINE KeepsVictims == \A c \in Requests : victims'[c] \subseteq victims[c]
               ReplacesNone ==
                 \A r \in Requests : status'[r] = "REPLACED" => status[r] = "REPLACED"
    <2>2. ASSUME KeepsVictims, ReplacesNone PROVE RivalInv'
      BY <2>1, <2>2 DEF RivalInv
    <2>3. ASSUME NEW c \in Requests, SelectReplaced(c) PROVE RivalInv'
      <3>1. ReplacesNone
        BY <2>3 DEF SelectReplaced, table
      <3>2. PICK S \in ReplaceableSets(c) : victims' = [victims EXCEPT ![c] = S]
        BY <2>3 DEF SelectReplaced
      <3>3. ASSUME NEW d \in Requests, NEW r \in victims'[d] PROVE Superseded(r)
        <4>1. CASE d = c
          BY <3>2, <4>1, ReplaceableAreSuperseded DEF TypeOK
        <4>2. CASE d # c
          BY <3>2, <4>2 DEF TypeOK, RivalInv
        <4> QED
          BY <4>1, <4>2
      <3> QED
        BY <2>1, <3>1, <3>3 DEF RivalInv
    <2>4. ASSUME NEW c \in Requests, ReplaceOlder(c) PROVE RivalInv'
      <3>1. KeepsVictims
        BY <2>4 DEF ReplaceOlder, TypeOK
      <3>2. ASSUME NEW r \in Requests, status'[r] = "REPLACED" PROVE Superseded(r)
        BY <2>4, <3>2 DEF ReplaceOlder, MarkReplaced, SetStatus, RivalInv
      <3> QED
        BY <2>1, <3>1, <3>2 DEF RivalInv
    <2>5. ASSUME NEW c \in Requests, CreateRequest(c) \/ CreateFails(c) PROVE RivalInv'
      BY <2>2, <2>5
      DEF CreateRequest, InsertRequest, SetStatus, CreateFails, TypeOK, table
    <2>6. ASSUME SchedulerRuns \/ SchedulerFails PROVE RivalInv'
      BY <2>2, <2>6
      DEF SchedulerRuns, SchedulerFails, CountReady, MarkReady, RetryReady,
          EmitAnchorEvent, FindAndMarkReady, UpdateExpiringReadyRequests,
          UpdateRequests, SetStatus, table, apiVars
    <2>7. ASSUME NEW w \in Workers,
                 StartAnchoring(w) \/ WorkerRuns(w) \/ AnchoringFails(w) \/ WorkerDies(w)
          PROVE  RivalInv'
      <3>1. KeepsVictims
        BY <2>7
        DEF StartAnchoring, WorkerRuns, AnchoringFails, WorkerDies, WorkerMarksReady,
            SelectBatch, ClaimBatch, FindCandidates, AcquireMutex, SendTransaction,
            StoreCarFile, PersistAnchorResult, LogAnchorSummary, RevertToPending, apiVars
      <3>2. ReplacesNone
        BY <2>7
        DEF StartAnchoring, WorkerRuns, AnchoringFails, WorkerDies, WorkerMarksReady,
            FindAndMarkReady, SelectBatch, ClaimBatch, MarkProcessing, FindCandidates,
            AcquireMutex, SendTransaction, StoreCarFile, PersistAnchorResult,
            LogAnchorSummary, RevertToPending, UpdateRequests, SetStatus, table
      <3> QED
        BY <2>2, <3>1, <3>2
    <2>8. CASE ClockTicks \/ AnchoringDeadlinePasses \/ UNCHANGED vars
      BY <2>2, <2>8
      DEF ClockTicks, AnchoringDeadlinePasses, Tick, DeadlinePasses, vars, table, apiVars
    <2> QED
      BY <2>3, <2>4, <2>5, <2>6, <2>7, <2>8 DEF Next, ApiStep
  <1>3. TypeOK /\ RivalInv => NewestIsKept
    <2> SUFFICES ASSUME RivalInv, NEW r \in Rows, status[r] = "REPLACED"
                 PROVE  \E p \in Rivals(r) \ {r} : ~(TimestampOf[p] < TimestampOf[r])
      BY DEF NewestIsKept
    <2>1. PICK p \in Rivals(r) : p # r /\ TimestampOf[p] >= TimestampOf[r]
      BY DEF RivalInv, Superseded, Rows
    <2>2. TimestampOf[p] \in Int /\ TimestampOf[r] \in Int
      BY TimestampAssumption DEF Rivals, Rows
    <2> QED
      BY <2>1, <2>2
  <1> QED
    BY <1>1, <1>2, <1>3, TypeCorrect, PTL DEF SafetySpec

-----------------------------------------------------------------------------
(* The pipeline implements the ledger.                                     *)

\* Batches and the victims of a POST are made of stored requests.
OnlyRows ==
    /\ \A w \in Workers : batch[w] \subseteq Rows
    /\ \A c \in Requests : victims[c] \subseteq Rows

LEMMA OnlyRowsStep ==
  ASSUME TypeOK, OnlyRows, [Next]_vars
  PROVE  OnlyRows'
  <1>1. Rows \subseteq Rows'
    BY RowsStay
  <1>2. ASSUME NEW v \in Workers PROVE batch'[v] \subseteq Rows
    BY BatchIsSelected DEF OnlyRows, ReadyBatches, WithStatus, Rows
  <1>3. ASSUME NEW c \in Requests PROVE victims'[c] \subseteq Rows
    <2>1. ASSUME NEW r \in Requests, SelectReplaced(r) PROVE victims'[c] \subseteq Rows
      BY <2>1
      DEF SelectReplaced, ReplaceableSets, Competitors, WithStatus, Rows, OnlyRows, TypeOK
    <2>2. ASSUME NEW r \in Requests, CreateRequest(r) \/ ReplaceOlder(r) \/ CreateFails(r)
          PROVE  victims'[c] \subseteq Rows
      BY <2>2 DEF CreateRequest, ReplaceOlder, CreateFails, OnlyRows, TypeOK
    <2>3. ASSUME NEW w \in Workers,
                 StartAnchoring(w) \/ WorkerRuns(w) \/ AnchoringFails(w) \/ WorkerDies(w)
          PROVE  UNCHANGED victims
      BY <2>3
      DEF StartAnchoring, WorkerRuns, AnchoringFails, WorkerDies, WorkerMarksReady,
          SelectBatch, ClaimBatch, FindCandidates, AcquireMutex, SendTransaction,
          StoreCarFile, PersistAnchorResult, LogAnchorSummary, RevertToPending, apiVars
    <2>4. ASSUME \/ SchedulerRuns \/ SchedulerFails
                 \/ ClockTicks \/ AnchoringDeadlinePasses \/ UNCHANGED vars
          PROVE  UNCHANGED victims
      BY <2>4
      DEF SchedulerRuns, CountReady, MarkReady, RetryReady, EmitAnchorEvent,
          SchedulerFails, ClockTicks, AnchoringDeadlinePasses, vars, apiVars
    <2> QED
      BY <2>1, <2>2, <2>3, <2>4 DEF Next, ApiStep, OnlyRows
  <1> QED
    BY <1>1, <1>2, <1>3 DEF OnlyRows

\* A step of a worker publishes its batch, issues receipts for it, or stutters.
LEMMA WorkerStepsMap ==
  ASSUME TypeOK, EvidenceInv, OnlyRows, NEW w \in Workers,
         StartAnchoring(w) \/ WorkerRuns(w) \/ AnchoringFails(w) \/ WorkerDies(w)
  PROVE  [Ledger!LedgerNext]_(Ledger!ledger)
  <1>1. UNCHANGED Rows
    <2>1. CASE UNCHANGED status
      BY <2>1 DEF Rows
    <2>2. CASE ~UNCHANGED status
      <3>1. \E S \in SUBSET Rows, st \in Status \ {"NONE"} : SetStatus(S, st)
        BY <2>2
        DEF StartAnchoring, WorkerRuns, AnchoringFails, WorkerDies, WorkerMarksReady,
            FindAndMarkReady, SelectBatch, ClaimBatch, MarkProcessing, FindCandidates,
            AcquireMutex, SendTransaction, StoreCarFile, PersistAnchorResult,
            LogAnchorSummary, RevertToPending, UpdateRequests, RequestsToMarkReady,
            RequestsToAnchor, OnlyRows, Rows, Status, table
      <3> QED
        BY <3>1, RowsUnchanged
    <2> QED
      BY <2>1, <2>2
  <1>2. batch[w] \in SUBSET Rows
    BY DEF OnlyRows
  <1>3. CASE PersistAnchorResult(w)
    <2>1. batch[w] \in chain \cap cars
      BY <1>3 DEF EvidenceInv, Published, PersistAnchorResult
    <2> QED
      BY <1>1, <1>2, <1>3, <2>1, PersistingMaps DEF PersistAnchorResult
  <1>4. CASE ~PersistAnchorResult(w)
    <2>1. UNCHANGED anchors
      BY <1>4
      DEF StartAnchoring, WorkerRuns, WorkerMarksReady, SelectBatch, ClaimBatch,
          FindCandidates, AcquireMutex, SendTransaction, StoreCarFile, LogAnchorSummary,
          RevertToPending, AnchoringFails, WorkerDies, evidence
    <2>2. /\ chain' = chain \/ chain' = chain \cup {batch[w]}
          /\ cars' = cars \/ cars' = cars \cup {batch[w]}
      BY <1>4
      DEF StartAnchoring, WorkerRuns, WorkerMarksReady, SelectBatch, ClaimBatch,
          FindCandidates, AcquireMutex, SendTransaction, StoreCarFile, LogAnchorSummary,
          RevertToPending, AnchoringFails, WorkerDies, evidence
    <2> QED
      BY <1>1, <1>2, <2>1, <2>2, PublishingMaps
  <1> QED
    BY <1>3, <1>4

\* Every step of the pipeline is one of the ledger.
LEMMA PipelineStepMaps ==
  ASSUME TypeOK, EvidenceInv, OnlyRows, [Next]_vars
  PROVE  [Ledger!LedgerNext]_(Ledger!ledger)
  <1>1. ASSUME UNCHANGED evidence, UNCHANGED status
        PROVE  [Ledger!LedgerNext]_(Ledger!ledger)
    BY <1>1, OtherStepsMap DEF Rows
  <1>2. ASSUME NEW r \in Requests, ApiStep(r)
        PROVE  [Ledger!LedgerNext]_(Ledger!ledger)
    <2>1. CASE CreateRequest(r)
      BY <2>1, OtherStepsMap DEF CreateRequest
    <2>2. CASE ReplaceOlder(r)
      <3>1. SetStatus(victims[r], "REPLACED") /\ victims[r] \in SUBSET Rows
        BY <2>2 DEF ReplaceOlder, MarkReplaced, OnlyRows
      <3> QED
        BY <2>2, <3>1, RowsUnchanged, OtherStepsMap DEF ReplaceOlder, Status
    <2>3. CASE SelectReplaced(r) \/ CreateFails(r)
      BY <1>1, <2>3 DEF SelectReplaced, CreateFails, table
    <2> QED
      BY <1>2, <2>1, <2>2, <2>3 DEF ApiStep
  <1>3. ASSUME SchedulerRuns \/ SchedulerFails
        PROVE  [Ledger!LedgerNext]_(Ledger!ledger)
    <2>1. UNCHANGED evidence
      BY <1>3
      DEF SchedulerRuns, SchedulerFails, CountReady, MarkReady, RetryReady,
          EmitAnchorEvent
    <2>2. \/ UNCHANGED status
          \/ \E S \in SUBSET Rows : SetStatus(S, "READY")
      BY <1>3
      DEF SchedulerRuns, SchedulerFails, CountReady, MarkReady, RetryReady,
          EmitAnchorEvent, FindAndMarkReady, UpdateExpiringReadyRequests,
          UpdateRequests, RequestsToMarkReady, RequestsToAnchor, WithStatus, Rows,
          table
    <2> QED
      BY <1>1, <2>1, <2>2, RowsUnchanged, OtherStepsMap DEF Status
  <1>4. CASE \E w \in Workers :
               StartAnchoring(w) \/ WorkerRuns(w) \/ AnchoringFails(w) \/ WorkerDies(w)
    BY <1>4, WorkerStepsMap
  <1>5. CASE ClockTicks \/ AnchoringDeadlinePasses \/ UNCHANGED vars
    BY <1>1, <1>5
    DEF ClockTicks, AnchoringDeadlinePasses, Tick, DeadlinePasses, vars, table
  <1> QED
    BY <1>2, <1>3, <1>4, <1>5 DEF Next

LEMMA OnlyRowsInit == Init => Ledger!LedgerInit /\ OnlyRows
  BY DEF Init, EvidenceInit, TableInit, Ledger!LedgerInit, OnlyRows, Rows

\* ImplementsLedger: every behaviour of the pipeline is one of the ledger.
THEOREM PipelineImplementsLedger == SafetySpec => ImplementsLedger
  BY OnlyRowsInit, OnlyRowsStep, PipelineStepMaps, TypeCorrect, EvidenceHolds, PTL
  DEF SafetySpec, ImplementsLedger, Ledger!LedgerSpec

(***************************************************************************)
(*                               The readers                               *)
(***************************************************************************)

-----------------------------------------------------------------------------
(* What the readers see of the pipeline.                                   *)

\* An anchor row is final.
LEMMA AnchorsStay ==
  ASSUME TypeOK, [Next]_vars, NEW r \in Requests, anchors[r] # {}
  PROVE  anchors'[r] = anchors[r]
  <1>1. ASSUME NEW p \in Requests, ApiStep(p) PROVE UNCHANGED anchors
    BY <1>1 DEF ApiStep, CreateRequest, SelectReplaced, ReplaceOlder, CreateFails, evidence
  <1>2. ASSUME SchedulerRuns \/ SchedulerFails PROVE UNCHANGED anchors
    BY <1>2
    DEF SchedulerRuns, SchedulerFails, CountReady, MarkReady, RetryReady,
        EmitAnchorEvent, evidence
  <1>3. ASSUME NEW w \in Workers, PersistAnchorResult(w) \/ WorkerRuns(w)
                 \/ StartAnchoring(w) \/ AnchoringFails(w) \/ WorkerDies(w)
        PROVE  UNCHANGED anchors \/ CreateAnchors(batch[w])
    BY <1>3
    DEF StartAnchoring, WorkerRuns, AnchoringFails, WorkerDies, WorkerMarksReady,
        SelectBatch, ClaimBatch, FindCandidates, AcquireMutex, SendTransaction,
        StoreCarFile, PersistAnchorResult, LogAnchorSummary, RevertToPending, evidence
  <1>4. CASE ClockTicks \/ AnchoringDeadlinePasses \/ UNCHANGED vars
    BY <1>4 DEF ClockTicks, AnchoringDeadlinePasses, vars, evidence
  <1> QED
    BY <1>1, <1>2, <1>3, <1>4 DEF Next, CreateAnchors

\* A step of the readers leaves the pipeline alone, but for the fault it may count.
LEMMA ReadersOnlyRead ==
  ASSUME [StatusNext]_statusVars
  PROVE  \/ [Next]_vars
         \/ /\ Fault
            /\ UNCHANGED <<table, apiVars, schedulerVars, workerVars, evidence>>
  <1>1. CASE Anchor
    BY <1>1
    DEF Anchor, StoreCarAndWitnesses, PersistAndDate, AnswerPost, OtherStep, Next,
        ApiStep, WorkerRuns
  <1>2. ASSUME NEW r \in Polled, AskReplica(r) PROVE [Next]_vars
    BY <1>2 DEF AskReplica, Reading
  <1>3. CASE ReaderRuns
    BY <1>3
    DEF ReaderRuns, AskMain, FindAnchor, GetWitness, RetrieveCar, RespondWithTip, Reading
  <1>4. CASE RetrieveCarFails
    BY <1>4 DEF RetrieveCarFails
  <1>5. ASSUME NEW s, HandleQuery(s) PROVE [Next]_vars
    BY <1>5 DEF HandleQuery, Reading
  <1>6. CASE ReplicaCatchesUp \/ UNCHANGED statusVars
    BY <1>6 DEF ReplicaCatchesUp, statusVars
  <1> QED
    BY <1>1, <1>2, <1>3, <1>4, <1>5, <1>6 DEF StatusNext

LEMMA PipelineGoesOn ==
  ASSUME TypeOK, EvidenceInv, [StatusNext]_statusVars
  PROVE  /\ TypeOK' /\ EvidenceInv'
         /\ \A r \in Requests : anchors[r] # {} => anchors'[r] = anchors[r]
  <1>1. CASE [Next]_vars
    BY <1>1, TypeStep, EvidenceStep, AnchorsStay
  <1>2. CASE /\ Fault
             /\ UNCHANGED <<table, apiVars, schedulerVars, workerVars, evidence>>
    <2>1. faults' \in 0..MaxFaults
      BY <1>2, LimitAssumption DEF Fault, TypeOK
    <2>2. TypeOK'
      BY <1>2, <2>1
      DEF TypeOK, table, TableTypeOK, apiVars, schedulerVars, workerVars, evidence
    <2>3. EvidenceInv'
      BY <1>2, EvidenceUntouched DEF table
    <2> QED
      BY <1>2, <2>2, <2>3 DEF evidence
  <1> QED
    BY <1>1, <1>2, ReadersOnlyRead

-----------------------------------------------------------------------------
(* The replica.                                                            *)

\* Rows of the request table in which nothing is COMPLETED without an anchor row.
Anchored(row) == \A r \in Polled : row[r] = "COMPLETED" => anchors[r] # {}

\* The replica is read beside the main database, so an anchor row is there for
\* every COMPLETED it shows or is going to show.
ReplicaInv ==
    /\ Anchored(replica)
    /\ wal \in Seq([Polled -> Status])
    /\ \A i \in 1..Len(wal) : Anchored(wal[i])

LEMMA ReplicaStep ==
  ASSUME TypeOK, EvidenceInv, ReplicaInv, [StatusNext]_statusVars
  PROVE  ReplicaInv'
  <1>1. \A r \in Polled : anchors[r] # {} => anchors'[r] # {}
    BY PipelineGoesOn, ReplicaAssumption
  <1>2. ASSUME NEW row, Anchored(row)
        PROVE  \A r \in Polled : row[r] = "COMPLETED" => anchors'[r] # {}
    BY <1>1, <1>2 DEF Anchored
  <1>3. /\ Row' \in [Polled -> Status]
        /\ \A r \in Polled : Row'[r] = "COMPLETED" => anchors'[r] # {}
    BY PipelineGoesOn, ReplicaAssumption DEF Row, TypeOK, TableTypeOK, EvidenceInv, RowsAreProven,
           RowIsProven
  <1>4. CASE UNCHANGED replicaVars
    BY <1>2, <1>4 DEF replicaVars, ReplicaInv, Anchored
  <1>5. CASE Ship
    <2>1. CASE wal' = Append(wal, Row') /\ replica' = replica
      <3>1. wal' \in Seq([Polled -> Status])
        BY <1>3, <2>1 DEF ReplicaInv
      <3>2. ASSUME NEW i \in 1..Len(wal')
            PROVE  \A r \in Polled : wal'[i][r] = "COMPLETED" => anchors'[r] # {}
        <4>1. wal'[i] = Row' \/ (i \in 1..Len(wal) /\ wal'[i] = wal[i])
          BY <1>3, <2>1 DEF ReplicaInv
        <4> QED
          BY <1>2, <1>3, <4>1 DEF ReplicaInv
      <3> QED
        BY <1>2, <2>1, <3>1, <3>2 DEF ReplicaInv, Anchored
    <2>2. CASE /\ Len(wal) >= MaxLag
               /\ wal' = Append(Tail(wal), Row') /\ replica' = Head(wal)
      <3>1. Len(wal) > 0
        BY <2>2, ReplicaAssumption DEF ReplicaInv
      <3>2. Tail(wal) \in Seq([Polled -> Status]) /\ Len(Tail(wal)) = Len(wal) - 1
        BY <3>1 DEF ReplicaInv
      <3>3. wal' \in Seq([Polled -> Status])
        BY <1>3, <2>2, <3>2
      <3>4. ASSUME NEW i \in 1..Len(wal')
            PROVE  \A r \in Polled : wal'[i][r] = "COMPLETED" => anchors'[r] # {}
        <4>1. CASE i \in 1..Len(Tail(wal))
          <5>1. wal'[i] = Tail(wal)[i]
            BY <1>3, <2>2, <3>2, <4>1
          <5>2. i + 1 \in 1..Len(wal) /\ Tail(wal)[i] = wal[i + 1]
            BY <3>1, <3>2, <4>1 DEF ReplicaInv
          <5>3. Anchored(wal[i + 1])
            BY <5>2 DEF ReplicaInv
          <5> QED
            BY <1>2, <5>1, <5>2, <5>3
        <4>2. CASE i = Len(Tail(wal)) + 1
          <5>1. wal'[i] = Row'
            BY <1>3, <2>2, <3>2, <4>2
          <5> QED
            BY <1>3, <5>1
        <4>3. Len(wal') = Len(Tail(wal)) + 1 /\ Len(Tail(wal)) \in Nat
          BY <1>3, <2>2, <3>2
        <4> QED
          BY <4>1, <4>2, <4>3
      <3>5. replica' = wal[1] /\ 1 \in 1..Len(wal)
        BY <2>2, <3>1 DEF ReplicaInv
      <3> QED
        BY <1>2, <3>3, <3>4, <3>5 DEF ReplicaInv, Anchored
    <2> QED
      BY <1>4, <1>5, <2>1, <2>2, ReplicaAssumption DEF Ship, ReplicaInv
  <1>6. CASE ReplicaCatchesUp
    <2>1. wal' = Tail(wal) /\ replica' = wal[1] /\ Len(wal) > 0
      BY <1>6 DEF ReplicaCatchesUp, ReplicaInv
    <2>2. wal' \in Seq([Polled -> Status]) /\ Len(wal') = Len(wal) - 1
      BY <2>1 DEF ReplicaInv
    <2>3. ASSUME NEW i \in 1..Len(wal')
          PROVE  \A r \in Polled : wal'[i][r] = "COMPLETED" => anchors'[r] # {}
      <3>1. i + 1 \in 1..Len(wal) /\ wal'[i] = wal[i + 1]
        BY <2>1, <2>2 DEF ReplicaInv
      <3>2. Anchored(wal[i + 1])
        BY <3>1 DEF ReplicaInv
      <3> QED
        BY <1>2, <3>1, <3>2
    <2>4. Anchored(wal[1])
      BY <2>1 DEF ReplicaInv
    <2> QED
      BY <1>2, <2>1, <2>2, <2>3, <2>4 DEF ReplicaInv, Anchored
  <1>7. \/ UNCHANGED replicaVars \/ Ship \/ ReplicaCatchesUp
    BY DEF StatusNext, Anchor, AskReplica, ReaderRuns, AskMain, FindAnchor, GetWitness,
           RetrieveCar, RespondWithTip, RetrieveCarFails, HandleQuery, Reading, statusVars
  <1> QED
    BY <1>4, <1>5, <1>6, <1>7

-----------------------------------------------------------------------------
(* The answers.                                                            *)

\* The row a reader has gone on with is the anchor row of the request it answers
\* about, and the anchors that were told are those of the anchor table.
ReaderInv ==
    /\ told \in [Requests -> SUBSET SUBSET Requests]
    /\ \A r \in Requests : \A A \in told[r] : A # {} /\ anchors[r] = A
    /\ step \in {"main", "anchor", "witness", "car"} => query \in Polled
    /\ step = "anchor" => anchors[query] # {}
    /\ step \in {"witness", "car"} => found # {} /\ anchors[query] = found

\* A reader that presents a status it read from a row where COMPLETED is backed.
LEMMA PresentIsBacked ==
  ASSUME ReaderInv, NEW r \in Polled, NEW st, NEW stored, Present(r, st, stored),
         st = "COMPLETED" => anchors[r] # {}, UNCHANGED anchors
  PROVE  ReaderInv'
  BY ReplicaAssumption DEF Present, GoOn, Answer, NotCompleted, ReaderInv

LEMMA ReaderStepKeeps ==
  ASSUME TypeOK, EvidenceInv, ReplicaInv, ReaderInv, [StatusNext]_statusVars
  PROVE  ReaderInv'
  <1>1. \A r \in Requests : anchors[r] # {} => anchors'[r] = anchors[r]
    BY PipelineGoesOn
  <1>2. anchors \in [Requests -> SUBSET Requests] /\ Polled \subseteq Requests
    BY ReplicaAssumption DEF TypeOK
  <1>3. ASSUME UNCHANGED <<query, step, found, told>> PROVE ReaderInv'
    BY <1>1, <1>2, <1>3 DEF ReaderInv
  <1>4. ASSUME Reading PROVE UNCHANGED anchors
    BY <1>4 DEF Reading, vars, evidence
  <1>5. ASSUME NEW r \in Polled, AskReplica(r) PROVE ReaderInv'
    <2>1. CASE Present(r, replica[r], TRUE)
      BY <1>4, <1>5, <2>1, PresentIsBacked DEF AskReplica, ReplicaInv, Anchored
    <2>2. CASE GoOn(r, "main", status[r] # "NONE", {})
      BY <1>4, <1>5, <2>2 DEF AskReplica, GoOn, ReaderInv
    <2> QED
      BY <1>5, <2>1, <2>2 DEF AskReplica
  <1>6. CASE AskMain
    <2>1. CASE Answer(query, "NOT_FOUND")
      BY <1>4, <1>6, <2>1 DEF AskMain, Answer, ReaderInv
    <2>2. CASE Present(query, status[query], known)
      <3>1. query \in Polled /\ (status[query] = "COMPLETED" => anchors[query] # {})
        BY <1>2, <1>6 DEF AskMain, ReaderInv, EvidenceInv, RowsAreProven, RowIsProven
      <3> QED
        BY <1>4, <1>6, <2>2, <3>1, PresentIsBacked DEF AskMain
    <2> QED
      BY <1>6, <2>1, <2>2 DEF AskMain
  <1>7. CASE FindAnchor
    BY <1>2, <1>4, <1>7 DEF FindAnchor, GoOn, AnswerWithAnchor, ReaderInv
  <1>8. ASSUME step \in {"witness", "car"}, UNCHANGED anchors, NEW answer,
               AnswerWithAnchor(query, answer, found)
        PROVE  ReaderInv'
    BY <1>2, <1>8 DEF AnswerWithAnchor, ReaderInv
  <1>9. CASE GetWitness
    <2>1. CASE GoOn(query, "car", known, found)
      BY <1>4, <1>9, <2>1 DEF GetWitness, GoOn, ReaderInv
    <2> QED
      BY <1>4, <1>8, <1>9, <2>1 DEF GetWitness
  <1>10. CASE RetrieveCar \/ RetrieveCarFails
    <2>1. UNCHANGED anchors
      BY <1>10 DEF RetrieveCar, RetrieveCarFails, vars, evidence
    <2> QED
      BY <1>8, <1>10, <2>1 DEF RetrieveCar, RetrieveCarFails
  <1>11. ASSUME NEW s, HandleQuery(s) PROVE ReaderInv'
    BY <1>4, <1>11 DEF HandleQuery, GoOn, ReaderInv
  <1>12. CASE RespondWithTip
    <2>1. UNCHANGED anchors
      BY <1>4, <1>12 DEF RespondWithTip
    <2>2. CASE UNCHANGED told
      BY <1>12, <2>1, <2>2 DEF RespondWithTip, ReaderInv
    <2>3. CASE told' = [told EXCEPT ![query] = @ \cup ({anchors[query]} \ {{}})]
      <3>1. ASSUME NEW r \in Requests
            PROVE  told'[r] = told[r] \/ told'[r] = told[r] \cup ({anchors[r]} \ {{}})
        BY <2>3 DEF ReaderInv
      <3>2. told' \in [Requests -> SUBSET SUBSET Requests]
        <4>1. CASE query \in Requests
          <5>1. {anchors[query]} \ {{}} \in SUBSET SUBSET Requests
            BY <1>2, <4>1
          <5>2. told[query] \cup ({anchors[query]} \ {{}}) \in SUBSET SUBSET Requests
            BY <4>1, <5>1 DEF ReaderInv
          <5> QED
            BY <2>3, <5>2 DEF ReaderInv
        <4>2. CASE query \notin Requests
          BY <2>3, <4>2 DEF ReaderInv
        <4> QED
          BY <4>1, <4>2
      <3>3. \A r \in Requests : \A A \in told'[r] : A # {} /\ anchors'[r] = A
        BY <2>1, <3>1 DEF ReaderInv
      <3> QED
        BY <1>12, <3>2, <3>3 DEF RespondWithTip, ReaderInv
    <2> QED
      BY <1>12, <2>2, <2>3 DEF RespondWithTip
  <1>13. CASE Anchor \/ ReplicaCatchesUp \/ UNCHANGED statusVars
    BY <1>3, <1>13 DEF Anchor, AnswerPost, ReplicaCatchesUp, readerVars, statusVars
  <1> QED
    BY <1>5, <1>6, <1>7, <1>9, <1>10, <1>11, <1>12, <1>13 DEF StatusNext, ReaderRuns

-----------------------------------------------------------------------------
(* Type correctness.                                                       *)

LEMMA ReplicaType ==
  ASSUME TypeOK, EvidenceInv, ReplicaInv, StatusTypeOK, [StatusNext]_statusVars
  PROVE  /\ replica' \in [Polled -> Status]
         /\ wal' \in Seq([Polled -> Status]) /\ Len(wal') <= MaxLag
  <1> USE DEF StatusTypeOK
  <1>1. wal' \in Seq([Polled -> Status])
    BY ReplicaStep DEF ReplicaInv
  <1>2. Row' \in [Polled -> Status]
    BY PipelineGoesOn, ReplicaAssumption DEF Row, TypeOK, TableTypeOK
  <1>3. CASE UNCHANGED replicaVars
    BY <1>3 DEF replicaVars
  <1>4. CASE Ship
    <2>1. CASE Len(wal) < MaxLag /\ wal' = Append(wal, Row') /\ replica' = replica
      BY <1>1, <1>2, <2>1, ReplicaAssumption
    <2>2. CASE ~(Len(wal) < MaxLag) /\ wal' = Append(Tail(wal), Row') /\ replica' = Head(wal)
      <3>1. Len(wal) > 0
        BY <2>2, ReplicaAssumption
      <3>2. Tail(wal) \in Seq([Polled -> Status]) /\ Len(Tail(wal)) = Len(wal) - 1
        BY <3>1
      <3>3. Len(wal') = Len(wal)
        BY <1>2, <2>2, <3>2
      <3>4. Head(wal) \in [Polled -> Status]
        BY <3>1
      <3> QED
        BY <1>1, <2>2, <3>3, <3>4
    <2> QED
      BY <1>3, <1>4, <2>1, <2>2 DEF Ship
  <1>5. CASE ReplicaCatchesUp
    <2>1. Len(wal) > 0 /\ wal' = Tail(wal) /\ replica' = Head(wal)
      BY <1>5 DEF ReplicaCatchesUp
    <2>2. Len(wal') = Len(wal) - 1 /\ Head(wal) \in [Polled -> Status]
      BY <2>1
    <2> QED
      BY <1>1, <2>1, <2>2, ReplicaAssumption
  <1> QED
    BY <1>3, <1>4, <1>5
    DEF StatusNext, Anchor, AskReplica, ReaderRuns, AskMain, FindAnchor, GetWitness,
        RetrieveCar, RespondWithTip, RetrieveCarFails, HandleQuery, Reading, statusVars

\* Where a reader is, what it holds, and what it answers.
ReaderTypeOK ==
    /\ query \in Requests \cup {NoRequest}
    /\ step \in ReaderStep /\ (step # "idle" => query # NoRequest)
    /\ known \in BOOLEAN
    /\ found \in SUBSET Requests
    /\ shown \in [Requests -> Shown]

\* A reader answers or goes on.
LEMMA AnswerType ==
  ASSUME ReaderTypeOK, NEW r, NEW answer \in Shown,
         Answer(r, answer) \/ \E A : AnswerWithAnchor(r, answer, A)
  PROVE  ReaderTypeOK'
  BY DEF ReaderTypeOK, Answer, AnswerWithAnchor, ReaderStep

LEMMA GoOnType ==
  ASSUME ReaderTypeOK, NEW r \in Requests, NEW next \in ReaderStep,
         NEW stored \in BOOLEAN, NEW A \in SUBSET Requests, GoOn(r, next, stored, A)
  PROVE  ReaderTypeOK'
  BY ReplicaAssumption DEF ReaderTypeOK, GoOn

LEMMA PresentType ==
  ASSUME ReaderTypeOK, NEW r \in Requests, NEW st, NEW stored \in BOOLEAN,
         Present(r, st, stored)
  PROVE  ReaderTypeOK'
  <1>1. CASE GoOn(r, "anchor", stored, {})
    BY <1>1, GoOnType DEF ReaderStep
  <1>2. CASE Answer(r, NotCompleted(st))
    BY <1>2, AnswerType DEF NotCompleted, Shown
  <1> QED
    BY <1>1, <1>2 DEF Present

LEMMA ReaderType ==
  ASSUME TypeOK, ReaderTypeOK, [StatusNext]_statusVars
  PROVE  ReaderTypeOK'
  <1>1. Polled \subseteq Requests /\ anchors \in [Requests -> SUBSET Requests]
    BY ReplicaAssumption DEF TypeOK
  <1>2. step \notin {"idle"} => query \in Requests
    BY DEF ReaderTypeOK
  <1>3. ASSUME NEW r \in Polled, AskReplica(r) PROVE ReaderTypeOK'
    <2>1. r \in Requests /\ "main" \in ReaderStep /\ {} \in SUBSET Requests
      BY <1>1 DEF ReaderStep
    <2>2. CASE GoOn(r, "main", status[r] # "NONE", {})
      <3>1. (status[r] # "NONE") \in BOOLEAN
        OBVIOUS
      <3> QED
        BY <2>1, <2>2, <3>1, GoOnType, Zenon
    <2>3. CASE Present(r, replica[r], TRUE)
      BY <1>1, <2>3, PresentType
    <2> QED
      BY <1>3, <2>2, <2>3 DEF AskReplica
  <1>4. CASE AskMain
    <2>1. query \in Requests /\ known \in BOOLEAN
      BY <1>2, <1>4 DEF AskMain, ReaderTypeOK
    <2>2. CASE Answer(query, "NOT_FOUND")
      BY <2>2, AnswerType DEF Shown
    <2>3. CASE Present(query, status[query], known)
      BY <2>1, <2>3, PresentType
    <2> QED
      BY <1>4, <2>2, <2>3 DEF AskMain
  <1>5. CASE FindAnchor
    <2>1. query \in Requests /\ known \in BOOLEAN /\ anchors[query] \in SUBSET Requests
      BY <1>1, <1>2, <1>5 DEF FindAnchor, ReaderTypeOK
    <2>2. CASE AnswerWithAnchor(query, "COMPLETED", {})
      BY <2>2, AnswerType DEF Shown
    <2>3. CASE GoOn(query, "witness", known, anchors[query])
      BY <2>1, <2>3, GoOnType DEF ReaderStep
    <2> QED
      BY <1>5, <2>2, <2>3 DEF FindAnchor
  <1>6. CASE GetWitness
    <2>1. query \in Requests /\ known \in BOOLEAN /\ found \in SUBSET Requests
      BY <1>2, <1>6 DEF GetWitness, ReaderTypeOK
    <2>2. CASE AnswerWithAnchor(query, "WITNESSED", found)
      BY <2>2, AnswerType DEF Shown
    <2>3. CASE GoOn(query, "car", known, found)
      BY <2>1, <2>3, GoOnType DEF ReaderStep
    <2> QED
      BY <1>6, <2>2, <2>3 DEF GetWitness
  <1>7. CASE RetrieveCar \/ RetrieveCarFails
    <2>1. \E answer \in Shown : AnswerWithAnchor(query, answer, found)
      BY <1>7 DEF RetrieveCar, RetrieveCarFails, Shown
    <2> QED
      BY <2>1, AnswerType
  <1>8. ASSUME NEW s, HandleQuery(s) PROVE ReaderTypeOK'
    <2>1. PICK r \in Requests : GoOn(r, "tip", FALSE, {})
      BY <1>8 DEF HandleQuery, LatestCompleted, WithStatus
    <2>2. "tip" \in ReaderStep /\ {} \in SUBSET Requests /\ FALSE \in BOOLEAN
      BY DEF ReaderStep
    <2> QED
      BY <2>1, <2>2, GoOnType, Zenon
  <1>9. CASE RespondWithTip
    BY <1>9 DEF RespondWithTip, ReaderTypeOK, ReaderStep
  <1>10. CASE Anchor
    <2>1. UNCHANGED <<query, step, known, found>>
      BY <1>10 DEF Anchor, AnswerPost, readerVars
    <2>2. shown' = shown \/ \E r \in Requests : shown' = [shown EXCEPT ![r] = "UNFINISHED"]
      BY <1>10 DEF Anchor, AnswerPost, readerVars
    <2> QED
      BY <2>1, <2>2 DEF ReaderTypeOK, Shown
  <1>11. CASE ReplicaCatchesUp \/ UNCHANGED statusVars
    BY <1>11 DEF ReplicaCatchesUp, statusVars, readerVars, ReaderTypeOK
  <1> QED
    BY <1>3, <1>4, <1>5, <1>6, <1>7, <1>8, <1>9, <1>10, <1>11 DEF StatusNext, ReaderRuns

\* Witnesses are stored of the roots of batches and of the anchor rows that were read.
LEMMA StoresType ==
  ASSUME TypeOK, StatusTypeOK, [StatusNext]_statusVars
  PROVE  /\ witnesses' \in SUBSET AnchorCommits
         /\ older' \in [Requests -> SUBSET Requests]
  <1> USE DEF StatusTypeOK
  <1>1. CASE UNCHANGED <<witnesses, older>>
    BY <1>1
  <1>2. ASSUME NEW w \in Workers, StoreCarAndWitnesses(w)
        PROVE  witnesses' \in SUBSET AnchorCommits /\ UNCHANGED older
    <2>1. {<<r, batch[w]>> : r \in batch[w] \cap Polled} \subseteq AnchorCommits
      BY DEF TypeOK, AnchorCommits
    <2> QED
      BY <1>2, <2>1 DEF StoreCarAndWitnesses, WitnessWrites
  <1>3. ASSUME NEW w \in Workers, PersistAndDate(w)
        PROVE  older' \in [Requests -> SUBSET Requests] /\ UNCHANGED witnesses
    BY <1>3 DEF PersistAndDate, Complete
  <1>4. CASE RetrieveCar
    <2>1. query \in Requests /\ <<query, found>> \in AnchorCommits
      BY <1>4 DEF RetrieveCar, AnchorCommits
    <2> QED
      BY <1>4, <2>1 DEF RetrieveCar, WitnessWrites
  <1>5. ASSUME NEW r \in Requests, AnswerPost(r) PROVE UNCHANGED <<witnesses, older>>
    BY <1>5 DEF AnswerPost
  <1> QED
    BY <1>1, <1>2, <1>3, <1>4, <1>5
    DEF StatusNext, Anchor, ReplicaCatchesUp, AskReplica, ReaderRuns, AskMain,
        FindAnchor, GetWitness, RespondWithTip, RetrieveCarFails, HandleQuery, Reading,
        statusVars

\* All that is proved of the readers, and what it takes to prove it.
StatusInv == TypeOK /\ EvidenceInv /\ ReplicaInv /\ ReaderInv /\ StatusTypeOK

LEMMA StatusInvInit == StatusInit => StatusInv
  <1> SUFFICES ASSUME StatusInit PROVE StatusInv
    OBVIOUS
  <1>1. TypeOK /\ EvidenceInv
    BY TypeInit, EvidenceStart DEF StatusInit
  <1>2. Row \in [Polled -> Status]
    BY <1>1, ReplicaAssumption DEF Row, TypeOK, TableTypeOK
  <1>3. ReplicaInv
    BY ReplicaAssumption DEF StatusInit, Init, TableInit, Row, ReplicaInv, Anchored
  <1>4. ReaderInv
    BY DEF StatusInit, ReaderInv
  <1>5. wal \in Seq([Polled -> Status]) /\ Len(wal) <= MaxLag
    BY <1>3, ReplicaAssumption DEF StatusInit, ReplicaInv
  <1>6. told \in [Requests -> SUBSET ((SUBSET Requests) \ {{}})]
    BY DEF StatusInit
  <1>7. StatusTypeOK
    BY <1>2, <1>5, <1>6 DEF StatusInit, StatusTypeOK, ReaderStep, Shown
  <1> QED
    BY <1>1, <1>3, <1>4, <1>7 DEF StatusInv

LEMMA StatusInvStep ==
  ASSUME StatusInv, [StatusNext]_statusVars
  PROVE  StatusInv'
  <1> USE DEF StatusInv
  <1>1. TypeOK' /\ EvidenceInv'
    BY PipelineGoesOn
  <1>2. ReplicaInv' /\ ReaderInv'
    BY ReplicaStep, ReaderStepKeeps
  <1>3. ReaderTypeOK'
    BY ReaderType DEF StatusTypeOK, ReaderTypeOK
  <1>4. told' \in [Requests -> SUBSET ((SUBSET Requests) \ {{}})]
    BY <1>2 DEF ReaderInv
  <1>5. StatusTypeOK'
    BY <1>3, <1>4, ReplicaType, StoresType DEF StatusTypeOK, ReaderTypeOK
  <1> QED
    BY <1>1, <1>2, <1>5

LEMMA StatusInvHolds == StatusSafety => []StatusInv
  BY StatusInvInit, StatusInvStep, PTL DEF StatusSafety

\* StatusTypeOK: every variable of the readers stays in its domain; in particular no
\* COMPLETED answer lacks its anchor commit, and the replica never lags by more
\* than it may.
THEOREM StatusTypeCorrect == StatusSafety => []StatusTypeOK
  BY StatusInvHolds, PTL DEF StatusInv

\* AnswersAreFinal: an anchor a client or a node was told of stays the anchor of that
\* request, on chain and in the CAR store, however old the rows were that the
\* answer was put together from.
THEOREM ToldForGood == StatusSafety => []AnswersAreFinal
  <1>1. StatusInv => AnswersAreFinal
    BY DEF StatusInv, EvidenceInv, RowsAreProven, RowIsProven, ReaderInv, AnswersAreFinal
  <1> QED
    BY <1>1, StatusInvHolds, PTL

-----------------------------------------------------------------------------
(* What is stored is found.                                                *)

\* A request that was stored when it was asked for still is when the reader gets to
\* the main database, since rows stay.
KnownInv ==
    /\ known => step \in {"main", "anchor", "witness", "car"}
    /\ known /\ step = "main" => status[query] # "NONE"

LEMMA StoredStay ==
  ASSUME TypeOK, [StatusNext]_statusVars, NEW r \in Requests, status[r] # "NONE"
  PROVE  status'[r] # "NONE"
  <1>1. CASE [Next]_vars
    BY <1>1, RowsStay DEF Rows
  <1>2. CASE UNCHANGED table
    BY <1>2 DEF table
  <1> QED
    BY <1>1, <1>2, ReadersOnlyRead

LEMMA KnownStep ==
  ASSUME StatusInv, KnownInv, [StatusNext]_statusVars
  PROVE  KnownInv'
  <1> USE DEF KnownInv
  <1>1. query \in Requests => (status[query] # "NONE" => status'[query] # "NONE")
    BY StoredStay DEF StatusInv
  <1>2. step # "idle" => query \in Requests
    BY DEF StatusInv, StatusTypeOK
  <1>3. CASE UNCHANGED <<query, step, known>>
    BY <1>1, <1>2, <1>3
  <1>4. CASE known' = FALSE
    BY <1>4
  <1>5. ASSUME step \in {"main", "anchor", "witness"}, known' = known, query' = query,
               step' \in {"anchor", "witness", "car"}
        PROVE  KnownInv'
    BY <1>1, <1>2, <1>5
  <1>6. ASSUME NEW r \in Polled, AskReplica(r) PROVE KnownInv'
    <2>1. UNCHANGED status
      BY <1>6 DEF AskReplica, Reading, vars, table
    <2>2. CASE GoOn(r, "main", status[r] # "NONE", {})
      BY <2>1, <2>2 DEF GoOn
    <2>3. CASE Present(r, replica[r], TRUE)
      BY <2>3 DEF Present, GoOn, Answer
    <2> QED
      BY <1>6, <2>2, <2>3 DEF AskReplica
  <1>7. CASE AskMain
    <2>1. CASE Answer(query, "NOT_FOUND")
      BY <1>4, <2>1 DEF Answer
    <2>2. CASE Present(query, status[query], known)
      BY <1>4, <1>5, <1>7, <2>2 DEF AskMain, Present, GoOn, Answer
    <2> QED
      BY <1>7, <2>1, <2>2 DEF AskMain
  <1>8. CASE FindAnchor
    BY <1>4, <1>5, <1>8 DEF FindAnchor, GoOn, AnswerWithAnchor
  <1>9. CASE GetWitness
    BY <1>4, <1>5, <1>9 DEF GetWitness, GoOn, AnswerWithAnchor
  <1>10. CASE RetrieveCar \/ RetrieveCarFails
    BY <1>4, <1>10 DEF RetrieveCar, RetrieveCarFails, AnswerWithAnchor
  <1>11. ASSUME NEW s, HandleQuery(s) PROVE KnownInv'
    BY <1>4, <1>11 DEF HandleQuery, GoOn
  <1>12. CASE RespondWithTip
    BY <1>12 DEF RespondWithTip
  <1>13. CASE Anchor \/ ReplicaCatchesUp \/ UNCHANGED statusVars
    BY <1>3, <1>13 DEF Anchor, AnswerPost, ReplicaCatchesUp, readerVars, statusVars
  <1> QED
    BY <1>6, <1>7, <1>8, <1>9, <1>10, <1>11, <1>12, <1>13 DEF StatusNext, ReaderRuns

\* StoredIsFound: a client that asks for a stored request is never told NOT_FOUND,
\* however far the replica is behind.
THEOREM StoredAreFound == StatusSafety => StoredIsFound
  <1> DEFINE Found(r) == (query = r /\ known /\ step' = "idle") => shown'[r] # "NOT_FOUND"
  <1>1. StatusInit => KnownInv
    BY DEF StatusInit, KnownInv
  <1>2. StatusInv /\ KnownInv /\ [StatusNext]_statusVars
          => [\A r \in Polled : Found(r)]_readerVars
    <2> SUFFICES ASSUME StatusInv, KnownInv, [StatusNext]_statusVars,
                        NEW r \in Polled, query = r, known, step' = "idle"
                 PROVE  shown'[r] # "NOT_FOUND"
      OBVIOUS
    <2>1. shown \in [Requests -> Shown] /\ r \in Requests
      BY ReplicaAssumption DEF StatusInv, StatusTypeOK
    <2>2. step \in {"main", "anchor", "witness", "car"}
      BY DEF KnownInv
    <2>3. CASE AskMain
      BY <2>1, <2>3 DEF KnownInv, AskMain, Present, GoOn, Answer, NotCompleted
    <2>4. CASE FindAnchor
      BY <2>1, <2>4 DEF FindAnchor, GoOn, AnswerWithAnchor
    <2>5. CASE GetWitness
      BY <2>1, <2>5 DEF GetWitness, GoOn, AnswerWithAnchor
    <2>6. CASE RetrieveCar \/ RetrieveCarFails
      BY <2>1, <2>6 DEF RetrieveCar, RetrieveCarFails, AnswerWithAnchor
    <2>7. ASSUME NEW p \in Polled, AskReplica(p) PROVE FALSE
      BY <2>2, <2>7 DEF AskReplica
    <2>8. ASSUME NEW s, HandleQuery(s) PROVE FALSE
      BY <2>2, <2>8 DEF HandleQuery
    <2>9. CASE RespondWithTip
      BY <2>2, <2>9 DEF RespondWithTip
    <2>10. CASE Anchor \/ ReplicaCatchesUp \/ UNCHANGED statusVars
      BY <2>2, <2>10 DEF Anchor, AnswerPost, ReplicaCatchesUp, readerVars, statusVars
    <2> QED
      BY <2>3, <2>4, <2>5, <2>6, <2>7, <2>8, <2>9, <2>10 DEF StatusNext, ReaderRuns
  <1> QED
    BY <1>1, <1>2, KnownStep, StatusInvHolds, PTL DEF StatusSafety, StoredIsFound

-----------------------------------------------------------------------------
(* Beside the readers the pipeline keeps the ledger's promises.            *)

LEMMA ReadersMap ==
  ASSUME TypeOK, EvidenceInv, OnlyRows, [StatusNext]_statusVars
  PROVE  OnlyRows' /\ [Ledger!LedgerNext]_(Ledger!ledger)
  <1>1. CASE [Next]_vars
    BY <1>1, OnlyRowsStep, PipelineStepMaps
  <1>2. CASE UNCHANGED <<table, apiVars, schedulerVars, workerVars, evidence>>
    <2>1. OnlyRows'
      BY <1>2 DEF OnlyRows, Rows, table, apiVars, workerVars
    <2>2. UNCHANGED evidence /\ UNCHANGED Rows
      BY <1>2 DEF Rows, table
    <2> QED
      BY <2>1, <2>2, OtherStepsMap
  <1> QED
    BY <1>1, <1>2, ReadersOnlyRead

\* ImplementsLedger: with the replica, the readers and their answers around it, every
\* behaviour of the pipeline still is one of the ledger.
THEOREM StatusImplementsLedger == StatusSafety => ImplementsLedger
  <1>1. StatusInit => Ledger!LedgerInit /\ OnlyRows
    BY OnlyRowsInit DEF StatusInit
  <1>2. StatusInv => TypeOK /\ EvidenceInv
    BY DEF StatusInv
  <1> QED
    BY <1>1, <1>2, ReadersMap, StatusInvHolds, PTL
    DEF StatusSafety, ImplementsLedger, Ledger!LedgerSpec
=============================================================================
