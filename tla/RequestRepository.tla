------------------------- MODULE RequestRepository -------------------------
(***************************************************************************)
(* The `request` table and the SQL statements of RequestRepository         *)
(* (src/repositories/request-repository.ts).  A request is its row: the    *)
(* cid column is unique, so a request, its CID and its row are one value.  *)
(*                                                                         *)
(* Time is abstract.  created_at is only ever compared with other          *)
(* created_at values and with the anchoring deadline, so it is the rank of *)
(* the row in insertion order, and the deadline is the rank up to which    *)
(* rows are past it.  updated_at is only ever compared with two timeouts,  *)
(* so it is an age in ticks that stops counting past both.                 *)
(***************************************************************************)
EXTENDS Integers, FiniteSets

CONSTANTS
    Requests,            \* every request a client may ever send
    StreamOf,            \* [Requests -> streams]
    OriginOf,            \* [Requests -> origins]
    TimestampOf,         \* [Requests -> Int], the client's timestamp
    ReadyRetryInterval,  \* readyRetryIntervalMS, in ticks
    ProcessingTimeout    \* PROCESSING_TIMEOUT, in ticks

ASSUME RequestsAssumption == IsFiniteSet(Requests)

ASSUME TimestampAssumption == TimestampOf \in [Requests -> Int]

ASSUME TimeoutAssumption ==
    ReadyRetryInterval \in Nat /\ ProcessingTimeout \in Nat

VARIABLES
    status,           \* [Requests -> Status], "NONE" where there is no row
    createdAt,        \* [Requests -> Nat], rank of the row, 0 without a row
    updatedAge,       \* [Requests -> 0..OldestAge], ticks since updated_at
    anchoringDeadline \* rows of this rank or lower are past maxAnchoringDelayMS

table == <<status, createdAt, updatedAge, anchoringDeadline>>

Status == {"NONE", "PENDING", "PROCESSING", "COMPLETED", "READY", "REPLACED"}

\* The age at which both timeouts have passed.
OldestAge ==
    IF ReadyRetryInterval > ProcessingTimeout
      THEN ReadyRetryInterval ELSE ProcessingTimeout + 1

Rows == {r \in Requests : status[r] # "NONE"}
WithStatus(st) == {r \in Requests : status[r] = st}

TableInit ==
    /\ status = [r \in Requests |-> "NONE"]
    /\ createdAt = [r \in Requests |-> 0]
    /\ updatedAge = [r \in Requests |-> 0]
    /\ anchoringDeadline = 0

-----------------------------------------------------------------------------
(* Queries.                                                                *)

\* A mutant: requests a dead worker left PROCESSING are not retried.
PendingRequests == WithStatus("PENDING")

\* PENDING, or PROCESSING and not updated for PROCESSING_TIMEOUT.
RequestsToAnchor ==
    {r \in Requests :
        \/ status[r] = "PENDING"
        \/ status[r] = "PROCESSING" /\ updatedAge[r] > ProcessingTimeout}

\* The streams whose earliest request to anchor precedes every one of s.
StreamsBefore(s) ==
    {StreamOf[q] : q \in
        {q \in RequestsToAnchor :
            \A r \in RequestsToAnchor :
                StreamOf[r] = s => createdAt[q] < createdAt[r]}}

\* A mutant: a batch waits for enough streams however long they have waited.
OnlyFullBatches(max, min) ==
    LET streams == {StreamOf[r] : r \in RequestsToAnchor}
    IN  {s \in streams : /\ max = 0 \/ Cardinality(StreamsBefore(s)) < max
                         /\ Cardinality(streams) >= min}

\* The first `max` streams in the order of their earliest request (all of them
\* if max is 0), if they are enough for a batch or one has waited too long.
StreamsToAnchor(max, min) ==
    LET taken == {s \in {StreamOf[r] : r \in RequestsToAnchor} :
                    max = 0 \/ Cardinality(StreamsBefore(s)) < max}
        enough == Cardinality(taken) >= min
        earliestIsExpired ==
            \E r \in RequestsToAnchor :
                StreamOf[r] \in taken /\ createdAt[r] <= anchoringDeadline
    IN  {s \in taken : enough \/ earliestIsExpired}

\* What findAndMarkReady would mark: all the requests to anchor of those streams.
RequestsToMarkReady(max, min) ==
    {r \in RequestsToAnchor : StreamOf[r] \in StreamsToAnchor(max, min)}

\* A mutant: every READY row is taken, whatever the size of a tree.
AllReady(max) == {WithStatus("READY")}

\* The id subquery of batchProcessing: READY rows, at most max of them in no
\* particular order (all of them if max is 0).
ReadyBatches(max) ==
    LET ready == WithStatus("READY")
    IN  {S \in SUBSET ready :
            \/ S = ready /\ (max = 0 \/ Cardinality(ready) <= max)
            \/ max > 0 /\ Cardinality(S) = max}

\* The PENDING rows that compete with r.
Competitors(r) ==
    {p \in WithStatus("PENDING") :
        OriginOf[p] = OriginOf[r] /\ StreamOf[p] = StreamOf[r]}
\* A mutant: sorted the wrong way, markReplaced keeps the oldest.
AllButOldest(r) ==
    {Competitors(r) \ {oldest} : oldest \in
        {o \in Competitors(r) :
            \A p \in Competitors(r) : TimestampOf[o] <= TimestampOf[p]}}
    \cup {S \in {{}} : Competitors(r) = {}}

\* The subquery of markReplaced: all of them but the newest by timestamp.
ReplaceableSets(r) ==
    {Competitors(r) \ {newest} : newest \in
        {n \in Competitors(r) :
            \A p \in Competitors(r) : TimestampOf[p] <= TimestampOf[n]}}
    \cup {S \in {{}} : Competitors(r) = {}}

-----------------------------------------------------------------------------
(* Statements that write.                                                  *)

SetStatus(S, st) ==
    status' = [r \in Requests |-> IF r \in S THEN st ELSE status[r]]

Touch(S) ==
    updatedAge' = [r \in Requests |-> IF r \in S THEN 0 ELSE updatedAge[r]]

\* updateRequests: sets the status whatever it was, and updated_at.
UpdateRequests(S, st) ==
    /\ SetStatus(S, st)
    /\ Touch(S)
    /\ UNCHANGED <<createdAt, anchoringDeadline>>

\* create: a second insert of the same CID is ignored, so there must be no row.
InsertRequest(r) ==
    /\ status[r] = "NONE"
    /\ SetStatus({r}, "PENDING")
    /\ Touch({r})
    /\ createdAt' = [createdAt EXCEPT ![r] = Cardinality(Rows) + 1]
    /\ UNCHANGED anchoringDeadline

\* findAndMarkReady, one repeatable-read transaction retried until it commits.
FindAndMarkReady(max, min) == UpdateRequests(RequestsToMarkReady(max, min), "READY")

\* updateExpiringReadyRequests: once the oldest READY row has waited the retry
\* interval, every READY row is touched.  With no such row nothing is updated.
ReadyExpired == \E r \in WithStatus("READY") : updatedAge[r] >= ReadyRetryInterval
UpdateExpiringReadyRequests ==
    UpdateRequests(IF ReadyExpired THEN WithStatus("READY") ELSE {}, "READY")

\* The outer UPDATEs of batchProcessing and of markReplaced: neither sets
\* updated_at, neither looks at the status again.
MarkProcessing(S) ==
    SetStatus(S, "PROCESSING") /\ UNCHANGED <<createdAt, updatedAge, anchoringDeadline>>
MarkReplaced(S) ==
    SetStatus(S, "REPLACED") /\ UNCHANGED <<createdAt, updatedAge, anchoringDeadline>>

-----------------------------------------------------------------------------
(* The clock.  Only the ages of READY and PROCESSING rows are ever compared *)
(* with a timeout, and only those are counted.                             *)

Ageing == {r \in WithStatus("READY") \cup WithStatus("PROCESSING") :
             updatedAge[r] < OldestAge}
Tick ==
    /\ Ageing # {}
    /\ updatedAge' = [r \in Requests |->
                        IF r \in Ageing THEN updatedAge[r] + 1 ELSE updatedAge[r]]
    /\ UNCHANGED <<status, createdAt, anchoringDeadline>>

DeadlinePasses ==
    /\ anchoringDeadline < Cardinality(Rows)
    /\ anchoringDeadline' = anchoringDeadline + 1
    /\ UNCHANGED <<status, createdAt, updatedAge>>

TableTypeOK ==
    /\ status \in [Requests -> Status]
    /\ createdAt \in [Requests -> Nat]
    /\ updatedAge \in [Requests -> 0..OldestAge]
    /\ anchoringDeadline \in Nat
=============================================================================
