--------------------------- MODULE AnchorStoreProofs ---------------------------
(***************************************************************************)
(* Lemmas about the request table and the anchor store, which the proofs   *)
(* of both ways of scheduling rest on: what the statements do to the types *)
(* of the table, to its rows, and to the evidence behind a status.         *)
(***************************************************************************)
EXTENDS AnchorStore, FiniteSetTheorems, TLAPS

-----------------------------------------------------------------------------
(* What the statements of the repository do to the types of the table.     *)

\* The ranks InsertRequest gives are natural numbers.
LEMMA RowCountIsNat == Cardinality(Rows) \in Nat
  <1>1. IsFiniteSet(Rows)
    BY RequestsAssumption, FS_Subset DEF Rows
  <1> QED
    BY <1>1, FS_CardinalityType

\* The saturation age is a natural number.
LEMMA OldestAgeIsNat == OldestAge \in Nat
  BY TimeoutAssumption DEF OldestAge

\* Writing a status to some rows keeps the status column well typed.
LEMMA SetStatusType ==
  ASSUME status \in [Requests -> Status], NEW S, NEW st \in Status, SetStatus(S, st)
  PROVE  status' \in [Requests -> Status]
  BY DEF SetStatus

\* Every row stays a row: no statement of the service deletes one.
LEMMA SetStatusKeepsRows ==
  ASSUME NEW S, NEW st \in Status \ {"NONE"}, SetStatus(S, st)
  PROVE  Rows \subseteq Rows'
  BY DEF SetStatus, Rows

\* updateRequests keeps the table well typed.
LEMMA UpdateRequestsType ==
  ASSUME TableTypeOK, NEW S, NEW st \in Status, UpdateRequests(S, st)
  PROVE  TableTypeOK'
  <1>1. status' \in [Requests -> Status]
    BY SetStatusType DEF TableTypeOK, UpdateRequests
  <1>2. updatedAge' \in [Requests -> 0..OldestAge]
    BY OldestAgeIsNat DEF TableTypeOK, UpdateRequests, Touch
  <1> QED
    BY <1>1, <1>2 DEF TableTypeOK, UpdateRequests

\* So does the insert of a request.
LEMMA InsertRequestType ==
  ASSUME TableTypeOK, NEW r \in Requests, InsertRequest(r)
  PROVE  TableTypeOK'
  <1>1. status' \in [Requests -> Status]
    BY SetStatusType DEF TableTypeOK, InsertRequest, Status
  <1>2. updatedAge' \in [Requests -> 0..OldestAge]
    BY OldestAgeIsNat DEF TableTypeOK, InsertRequest, Touch
  <1>3. createdAt' \in [Requests -> Nat]
    BY RowCountIsNat DEF TableTypeOK, InsertRequest
  <1> QED
    BY <1>1, <1>2, <1>3 DEF TableTypeOK, InsertRequest

\* So do the updates that leave updated_at alone, and the clock.
LEMMA MarkType ==
  ASSUME TableTypeOK, NEW S, MarkProcessing(S) \/ MarkReplaced(S)
  PROVE  TableTypeOK'
  BY DEF TableTypeOK, MarkProcessing, MarkReplaced, SetStatus, Status

LEMMA ClockType ==
  ASSUME TableTypeOK, Tick \/ DeadlinePasses
  PROVE  TableTypeOK'
  <1>1. CASE Tick
    <2>1. ASSUME NEW r \in Ageing PROVE updatedAge[r] + 1 \in 0..OldestAge
      BY OldestAgeIsNat DEF TableTypeOK, Ageing, WithStatus
    <2> QED
      BY <1>1, <2>1 DEF TableTypeOK, Tick
  <1>2. CASE DeadlinePasses
    BY <1>2 DEF TableTypeOK, DeadlinePasses
  <1> QED
    BY <1>1, <1>2

-----------------------------------------------------------------------------
(* The evidence behind a status.                                           *)

\* Every anchor row, whether its request is COMPLETED or was reverted since, is
\* backed by the chain and the CAR store; CompletedIsProven says so only of the
\* rows of COMPLETED requests, and would not survive their second anchoring.
RowIsProven(r) ==
    /\ anchors[r] # {} => r \in anchors[r] /\ anchors[r] \in chain \cap cars
    /\ status[r] = "COMPLETED" => anchors[r] # {}
RowsAreProven == \A r \in Requests : RowIsProven(r)

LEMMA RowsProvenAtStart == TableInit /\ EvidenceInit => RowsAreProven
  BY DEF TableInit, EvidenceInit, RowsAreProven, RowIsProven

LEMMA ProvenRowsSuffice == RowsAreProven => CompletedIsProven
  BY DEF RowsAreProven, RowIsProven, CompletedIsProven, WithStatus

\* More may be published, and any status but COMPLETED be written.
LEMMA RowsStayProven ==
  ASSUME RowsAreProven, UNCHANGED anchors, chain \subseteq chain', cars \subseteq cars',
         \A r \in Requests : status'[r] = "COMPLETED" => status[r] = "COMPLETED"
  PROVE  RowsAreProven'
  BY DEF RowsAreProven, RowIsProven

\* _persistAnchorResult of a batch that is on chain and in the CAR store.
LEMMA BatchIsProven ==
  ASSUME RowsAreProven, NEW S \in chain \cap cars, UNCHANGED <<chain, cars>>,
         CreateAnchors(S), UpdateRequests(S, "COMPLETED")
  PROVE  RowsAreProven'
  <1> SUFFICES ASSUME NEW r \in Requests PROVE RowIsProven(r)'
    BY DEF RowsAreProven
  <1>1. RowIsProven(r)
    BY DEF RowsAreProven
  <1> QED
    BY <1>1 DEF RowIsProven, CreateAnchors, UpdateRequests, SetStatus

-----------------------------------------------------------------------------
(* Steps of the ledger.                                                    *)

\* Steps outside the workers submit a request or stutter.
LEMMA OtherStepsMap ==
  ASSUME UNCHANGED evidence,
         \/ UNCHANGED Rows
         \/ \E r \in Requests : InsertRequest(r)
  PROVE  [Ledger!LedgerNext]_(Ledger!ledger)
  <1>1. CASE UNCHANGED Rows
    BY <1>1 DEF Ledger!ledger, evidence
  <1>2. ASSUME NEW r \in Requests, InsertRequest(r) PROVE Ledger!Submit(r)
    <2>1. r \notin Rows /\ Rows' = Rows \cup {r}
      BY <1>2 DEF InsertRequest, SetStatus, Rows
    <2> QED
      BY <2>1 DEF Ledger!Submit, evidence
  <1> QED
    BY <1>1, <1>2 DEF Ledger!LedgerNext

\* Writing a status other than NONE to rows leaves the set of rows as it is.
LEMMA RowsUnchanged ==
  ASSUME NEW S \in SUBSET Rows, NEW st \in Status \ {"NONE"}, SetStatus(S, st)
  PROVE  UNCHANGED Rows
  BY DEF SetStatus, Rows

\* A batch is published when it is on chain and in the CAR store, in either order.
LEMMA PublishingMaps ==
  ASSUME UNCHANGED <<Rows, anchors>>, NEW S \in SUBSET Rows,
         chain' = chain \/ chain' = chain \cup {S},
         cars' = cars \/ cars' = cars \cup {S}
  PROVE  [Ledger!LedgerNext]_(Ledger!ledger)
  <1>1. \/ UNCHANGED (chain \cap cars)
        \/ (chain \cap cars)' = (chain \cap cars) \cup {S}
    OBVIOUS
  <1>2. UNCHANGED Ledger!ledger \/ Ledger!Publish(S)
    BY <1>1 DEF Ledger!ledger, Ledger!Publish
  <1> QED
    BY <1>2 DEF Ledger!LedgerNext

\* Anchor rows of a published batch are receipts.
LEMMA PersistingMaps ==
  ASSUME UNCHANGED <<Rows, chain, cars>>, NEW S \in SUBSET Rows, S \in chain \cap cars,
         CreateAnchors(S)
  PROVE  [Ledger!LedgerNext]_(Ledger!ledger)
  <1>1. Ledger!IssueReceipts(S)
    BY DEF CreateAnchors, Ledger!IssueReceipts
  <1> QED
    BY <1>1 DEF Ledger!LedgerNext

-----------------------------------------------------------------------------
(* What the ledger is worth to a client, whatever implements it.           *)

\* Anchor rows name roots of stored requests that are published.
AnchorsAreBacked ==
    /\ chain \cap cars \subseteq SUBSET Rows
    /\ \A r \in Requests : anchors[r] # {} =>
         r \in anchors[r] /\ anchors[r] \in chain \cap cars

\* A step of the ledger keeps the anchor rows there are.
LEMMA LedgerStepKeeps ==
  ASSUME [Ledger!LedgerNext]_(Ledger!ledger), NEW r \in Requests, anchors[r] # {}
  PROVE  anchors'[r] = anchors[r]
  BY DEF Ledger!LedgerNext, Ledger!ledger, Ledger!Submit, Ledger!Publish,
         Ledger!IssueReceipts

LEMMA LedgerStepBacks ==
  ASSUME AnchorsAreBacked, [Ledger!LedgerNext]_(Ledger!ledger)
  PROVE  AnchorsAreBacked'
  <1> USE DEF AnchorsAreBacked
  <1>1. ASSUME NEW r \in Requests, Ledger!Submit(r) PROVE AnchorsAreBacked'
    BY <1>1 DEF Ledger!Submit
  <1>2. ASSUME NEW S \in SUBSET Rows, Ledger!Publish(S) PROVE AnchorsAreBacked'
    BY <1>2 DEF Ledger!Publish
  <1>3. ASSUME NEW S \in SUBSET Rows, Ledger!IssueReceipts(S) PROVE AnchorsAreBacked'
    BY <1>3 DEF Ledger!IssueReceipts
  <1>4. CASE UNCHANGED Ledger!ledger
    BY <1>4 DEF Ledger!ledger
  <1> QED
    BY <1>1, <1>2, <1>3, <1>4 DEF Ledger!LedgerNext

\* Whatever implements the ledger gives each request at most one anchor row for good,
\* only of a root over stored requests, itself among them, that is on chain and
\* whose Merkle CAR is stored.
THEOREM LedgerPromises ==
  ImplementsLedger =>
    /\ []AnchorsAreBacked
    /\ [][\A r \in Requests : anchors[r] # {} => anchors'[r] = anchors[r]]_anchors
  <1>1. Ledger!LedgerInit => AnchorsAreBacked
    BY DEF Ledger!LedgerInit, AnchorsAreBacked
  <1>2. [Ledger!LedgerNext]_(Ledger!ledger)
          => [\A r \in Requests : anchors[r] # {} => anchors'[r] = anchors[r]]_anchors
    BY LedgerStepKeeps
  <1> QED
    BY <1>1, <1>2, LedgerStepBacks, PTL DEF ImplementsLedger, Ledger!LedgerSpec
================================================================================
