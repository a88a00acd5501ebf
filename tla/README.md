# A TLA+ verification of the Ceramic Anchor Service

The anchor service takes requests to anchor commits of Ceramic streams, collects
them into Merkle trees, writes each root to Ethereum, and keeps what a client needs
to verify that its commit was anchored. This directory models the parts of it that
decide what happens to a request, checks them with TLC on small instances, and
proves the central safety properties with TLAPS for instances of every size.

Paths below are relative to the repository; `src/` is the service, `auth/` the
separate authentication service, `contracts/` the Solidity contract.

## 1. The system

### Components, their state, and their operations

| component | state | operations that change it |
|---|---|---|
| `RequestService` (`src/services/request-service.ts`), behind `RequestController` | none of its own | `create`: insert the row, then `markReplaced` (no queue) or `sendMessage` to the validation queue |
| `RequestRepository` (`src/repositories/request-repository.ts`) | the `request` table: status, created_at, updated_at, stream, origin, timestamp | `create`, `updateRequests`, `findAndMarkReady`, `updateExpiringReadyRequests`, `batchProcessing`, `markReplaced` |
| `AnchorRepository` | the `anchor` table | `createAnchors` (on conflict do nothing) |
| `TransactionRepository` | a PostgreSQL advisory lock | `withTransactionMutex` |
| `AnchorService` (`src/services/anchor-service.ts`) | the batch in memory | `anchorRequests`, `anchorReadyRequests`, `anchorNextQueuedBatch`, `emitAnchorEventIfReady` |
| `EthereumBlockchainService` | transaction data and responses of one call | `sendTransaction`, `setGasPrice`, `_confirmTransactionSuccess`, `_checkForPreviousTransactionSuccess` |
| SQS queues (`src/services/queue/sqs-queue-service.ts`) | validation and batch messages (external) | `sendMessage`, `receiveMessage`, `ack`, `nack` |
| `MerkleCarService`, `WitnessService` | CAR files in S3 or memory, witnesses in DynamoDB or memory | `storeCarFile`, `retrieveCarFile`, `build`, `store`, `verify`, `createTable` |
| `TaskSchedulerService` | a subscription and an abort controller | `start`, `stop` |
| `CeramicAnchorApp` (`src/app.ts`) | the mode (`server`, `bundled`, `scheduler`, `anchor`, `continual-anchoring`, `pubsub-responder`), a shutdown in progress | `start`, `stop`, the signal handlers |
| event producer | none (an HTTP post) | `emitAnchorEvent` |
| `RequestPresentationService`, `ReplicationRequestRepository` | none | `response`, `witnessCAR`, `findByCid`: they read, but for storing a witness |
| `IpfsService` | the pubsub subscription | `init`, `handleMessage`, `stop`; `retrieveRecord`, `storeRecord`, `importCAR`, `publishAnchorCommit` |
| auth service (`auth/src/services/aws/dynamodb.ts`) | DynamoDB tables of OTPs, DIDs with nonces, and config | `createEmailVerificationCode`, `registerDIDs`, `revokeDID`, `addNonce`, `updateConfig` |
| `ApiGateway` (`auth/src/services/aws/apiGateway.ts`) | the keys of the API gateway (external) | `createApiKeys`, `disableApiKey` |
| `CeramicAnchorServiceV2.sol` | allow list, service version | `addCas`, `removeCas`, `anchorDagCbor` |

### How they interact

Every process of the service (API servers, the scheduler, anchor workers) talks to
the others through the database only. A request moves through its status:

    (no row) --create--> PENDING --findAndMarkReady--> READY --batchProcessing--> PROCESSING
    PROCESSING --_persistAnchorResult--> COMPLETED         any --catch block--> PENDING
    PENDING --markReplaced--> REPLACED                     PROCESSING, old --> READY

There are two ways to schedule. *Through the database*, the scheduler (or the
worker itself) marks READY batches, and workers, started by an anchor event or a
timer, take them. *Through SQS*, the API server sends each request to a validation
queue; a validator and a batcher outside this repository decide what is REPLACED
and put batches of ids into a second queue; workers take one message each and ack
or nack it. In both ways a worker loads the batch, takes the advisory lock, sends
one transaction, stores the Merkle CAR, and records anchors and COMPLETED in one
database transaction.

Three kinds of reader follow a request: a client that asks for its status, the
client's repeated POST, and Ceramic nodes that ask for a stream over pubsub. They
read the status (from a replica where there is one), the anchor row, the stored
witness and the Merkle CAR one after the other, while anchoring goes on.

### What is hard

* **Interleavings.** `batchProcessing` and `markReplaced` select ids in a subquery
  and update rows by id under READ COMMITTED: whatever happened to a row between
  the two is overwritten. Several processes mark READY batches at once. A worker
  that timed out goes on beside the one that took over.
* **Failure in the middle.** The chain, the CAR store and the database are written
  one after the other; a worker may fail or die between any two of them, and a
  step that reported failure may have succeeded.
* **Delivery.** Batch messages are redelivered; receipts go stale; anchor events
  are lost.
* **The wallet.** Transactions time out and are mined later; all attempts and all
  workers share one sequence of nonces; the lock that separates them can be lost.
* **Conditional writes.** The auth service reads, decides and writes without
  transactions; only the condition of each write is atomic, and reads may be old.
* **Answers.** An answer is put together from reads at different times and from a
  replica that lags; the witness store may have lost what it was given, and the CAR
  what it was written with.
* **Shutdown.** A signal can find the start, the loop, the subscription and the
  creation of the witness table in any state.

PROJECT.json lists these hazards line by line, with the property that covers each.

### What makes each part correct

* request table and anchor workers: a COMPLETED request can be proved to its
  client; the newest request of a stream is never dropped; anchor rows are final;
  every request is settled in the end, and no batch is too large for its tree for ever.
* queue workers: no message is lost, none is delivered for ever, nothing that was
  COMPLETED is taken back.
* Ethereum service: one call anchors its root at most once, what it returns is its
  own successful transaction, it always returns.
* gas prices: each transaction outbids all that were sent before it, its cap rises with
  its price, and a call does not bid against itself.
* status answers: a stored request is found; the anchor named in any answer is final
  and backed; a client that polls ends with a witness or REPLACED.
* witnesses: the path of an anchor commit leads to its own stream's commit, and what
  verifies is proved.
* application: a shutdown ends, cuts no run off and does not look like a failure; the
  responder listens again after errors.
* auth service: a code and a nonce work once, a new code ends the earlier ones, a
  registration and a revocation are final, keys follow the table.

## 2. The modules

    AnchorLedger            what anchoring promises (abstract)
      ^ refined by
    AnchorStore             chain, CAR store, anchor table; EXTENDS RequestRepository
      ^             ^
    AnchorPipeline  QueuedAnchoring      the two ways of scheduling
    SendOnce                what sendTransaction promises (abstract)
      ^ refined by
    EthereumTransactions    sendTransaction under the advisory lock
    GasPrice                fees of its attempts
    RequestStatus           what clients and nodes are told; EXTENDS AnchorPipeline
    WitnessPath             Merkle CARs, anchor commits and witnesses of one batch
    TaskScheduler           the loop all periodic work runs in
    AppLifecycle            a process from start to exit; EXTENDS TaskScheduler
    AuthRegistration        codes, DIDs and nonces of the auth service
    AuthKeys                and the keys of its gateway; EXTENDS AuthRegistration

**RequestRepository** has the table and one operator per statement. A request, its
cid and its row are one value (the cid is unique). `created_at` is only compared
with other rows and with the anchoring deadline, so it is a rank, and the deadline
the rank up to which rows are past it; `updated_at` is only compared with two
timeouts, so it is an age in ticks that stops at `OldestAge`. The two timeouts are
parameters; all comparisons are those of the code (`>` for PROCESSING, `>=` for
READY). `StreamsToAnchor` gives the streams `findStreamsToAnchor` returns,
`ReadyBatches` the id sets the LIMIT without ORDER BY of `batchProcessing` may
return, and `ReplaceableSets` those of `markReplaced`, which ties leave open.

**AnchorStore** adds what anchoring leaves behind. A Merkle root is the set of
requests under it. `ImplementsLedger` is the refinement: `submitted` is the rows of
the table, `published` the roots that are on chain *and* in the CAR store, `receipt`
the anchor rows.

**AnchorPipeline** is database scheduling: `CreateRequest`, `SelectReplaced` and
`ReplaceOlder` for `RequestService.create`; `CountReady`, `MarkReady`, `RetryReady`,
`EmitAnchorEvent` for `emitAnchorEventIfReady`; and one action per database
statement or service call of `anchorRequests`. The statements that select and then
overwrite are two actions (`SelectBatch`/`ClaimBatch`, `SelectReplaced`/
`ReplaceOlder`); repeatable-read transactions that are retried on conflict
(`findAndMarkReady`, `_persistAnchorResult`) are one. `TreeFits` is the
depth limit of the Merkle tree factory, which refuses larger batches. `AnchoringFails` is an error
inside the try block of `_anchorRequests`, which leads to `RevertToPending`;
`WorkerDies` is a crash, or an error outside that block, at any point. Both let the
transaction or the CAR of the interrupted step have happened or not.

**QueuedAnchoring** is SQS scheduling. `ReplaceOlder`, `SendBatch`, `MessageReturns`
and `HolderIsTooSlow` are the environment: validator, batcher, and SQS visibility
timeouts. `holder` is who has the latest receipt handle; an ack or nack with an
older handle may take effect or not.

**EthereumTransactions** has several calls of `sendTransaction` on one wallet. The
retry loop keeps the code's structure: `NextAttempt`, `OutOfAttempts`, errors that
end the call (`Throw`) and those that do not, the nonce read once, the set of
responses that `_checkForPreviousTransactionSuccess` looks through. `Mine` is the
network: any transaction it was given with the wallet's next nonce, at any time,
with success or failure. `Byzantium` says whether receipts have a status; one without
is taken for a success (`Succeeded`). `LoseLock` drops the connection that holds the lock while
the operation goes on.

**GasPrice** has the attempts of one call as far as their fees go: `SetGasPrice` with
the arithmetic of `increaseGasPricePerAttempt` on natural numbers, with division rounding
down as BigNumber does it, for both kinds of network; `SetGasLimit` for the branch of
`overrideGasConfig`, which sets no fee and leaves it to the wallet's own estimate; and
attempts that end without a transaction (`NoEstimate`, `NothingSent`). `sent` is the fees
of the transactions the network was given, which are what the next one has to outbid.

**TaskScheduler** has the RxJS loop: `BeginRun` is the deferred task, `LoopEnds` the
decision of `expand`, `Complete` what completion does to the subscribers of `start`
and `stop`. `SchedulerSpec` is the service alone, for any callers.

**AppLifecycle** composes that loop with the rest of the process, in any of the six
modes: `Connect`, `InitIpfs` and `InitWitness` are the awaited parts of `start()`, and
the last of them ends in an action per mode. `createTable` of the witness store is
`DescribeTable`, `CreateTable`, `UpdateTimeToLive` and `TryAgain`; `start()` waits for the
first attempt only. `SubscriptionFails` and `Subscribe` are the `retry` of the pubsub
subscription, `MessageHandled` a query whose answer nobody awaits.
`ShutdownSignal`, `SchedulersStopped` and `Unsubscribe` are the signal handler and
`app.stop()`; `Killed` is a signal without a handler. `exit` records how the process
ended: by `process.exit(0)`, by an error, or by a signal.

**RequestStatus** adds the readers to AnchorPipeline. The row is read by `AskReplica`
and, when the replica fails or does not have it, by `AskMain`; `FindAnchor`, `GetWitness`
and `RetrieveCar` are the further reads of `response` and `witnessCAR`.
`HandleQuery` and `RespondWithTip` are the pubsub responder, whose choice of the
last updated request is kept in `older`. `replica` and `wal` are the replica and the
changes it has yet to apply. Readers do not write anything other readers need but
the stored witness, which is what it would be rebuilt to; so one reader at a time
is at work. The answers are kept: `shown` is the last one to a client, `told` all
anchors anyone has been told of.

**WitnessPath** follows one batch: its tree, its Merkle CAR (`CreateIPFSProof`,
`CreateAnchorCommits`), the loss of blocks, the witness built from it
(`WitnessService.build`), damage to that, and `verify`. A CID is the block it names.
`MergeTrees` joins two trees that stand next to each other, which gives every binary tree
over the sorted leaves, since the shape is the choice of an external library; `Merge` is
the node `IpfsMerge` stores. `route` is the way from the root so far to each leaf, nodes
and turns; its turns are the path the library gives (`PathTo`). The loops over a path
are steps: `StartBuild`, `CopyBlock` and `EndBuild`, then `StartVerify`, `FollowLink` and
`EndVerify`, with `link` the CID a loop has come to and `at` the elements it has read.
`EncodePath` and `PathDecodes` are what the path codec does to the empty path, which only
a damaged commit has: the tree over a single leaf gets a node above it.

**AuthRegistration** has the lambdas of the auth service as calls that share the
DynamoDB tables. Each action is one command with its condition: `FindActiveCodes`,
`ExpireCode`, `AddCode` for `createEmailVerificationCode`; `CheckCode` for
`_checkCorrectOTP`; `RegisterDID` and `RevokeDID`; `CheckDID` and `AddNonce` for the
authorizer. No read asks for consistency, so a read may show an older item: what
was active once may look active, what is new may be missing. A code that is past its
30 minutes, a command that fails, an answer that is lost after the command was
carried out, and registration being closed are choices. `Containing` is the
substring test of `revokeDID`.

**AuthKeys** adds what the routes do after the table: a key is created for each DID
that was stored (`CreateApiKey`), and that of a revoked one is disabled
(`DisableApiKey`), with the gateway failing at any point (`KeysEnd`).

## 3. The runs

| run | what it asks | instance |
|---|---|---|
| PipelineRaces | type, `CompletedIsProven`, `NewestIsKept`, `ImplementsLedger` | two requests of one stream, two workers, one fault |
| PipelineLiveness | `EveryRequestIsCovered` | scheduler, events, one worker, two requests of one stream, one fault |
| PipelineBatches | `EventuallySettled` | three streams, trees of one leaf, two streams to a batch |
| QueueDeliveries | type, `CompletedIsProven`, `DeletedAreSettled`, `CompletedIsFinal`, `ImplementsLedger`, `BatchesDrain` | two requests, two workers, two messages, one fault |
| EthereumSends | type, `ReturnedIsAnchored`, `AnchorsAtMostOnce`, `SendsAlone`, `EveryCallEnds` | two calls, three attempts (the code's `MAX_RETRIES`), one lost lock |
| GasPrices | `RetriesOutbid`, `CapsRise`, `PriceIsBounded` | three attempts, fees of 0, 9, 15 and 100 wei, both sides of where a tenth rounds to nothing |
| AppShutdown | `NothingIsCutOff`, `AbortIsNoFailure`, `NoRunAfterAbort`, `ShutdownEnds`, `ResponderListens`, `WitnessTableSettles` | all six modes, four runs, three attempts at the table (the code's number), four failures |
| RequestStatus | type, `AnswersAreFinal`, `StoredIsFound` | two requests of one stream, one of them polled, one worker, one fault, a replica one change behind |
| RequestPolling | `PollingConverges` | one request, scheduler, events, one worker, one fault, the same replica |
| WitnessPath | type, `CommitsLeadToCandidates`, `BuiltWitnessVerifies`, `VerifiedIsProven` | batches of one to four, every order, every tree, up to two lost blocks |
| AuthCalls | type, `CodesWorkOnce`, `OlderCodesAreDead`, `RegistrationIsFinal`, `NoncesWorkOnce`, `KeysFollowDIDs` | four calls, two emails, one part of the other, two codes, one DID, one nonce |
| PipelineRevert | violates `OnlyProcessingReverts` | one request, one worker, one fault |

### Why the bounds are enough

Two requests of one stream are the least for which replacement, double claims and
partly overlapping batches happen; a third adds streams that wait for company
(PipelineBatches). Two workers are the least that race, and every hazard listed is
between two actors. One fault suffices for each way of losing a step; a fault is a
failure, a crash, or a worker that outlives its visibility timeout. A PROCESSING row
times out after one tick (`ProcessingTimeout = 0`), so that in every run a slow
worker meets its successor; a slow worker is no fault, since the clock ticks at any
time. Trees of one leaf (`MaxStreamLimit = 1`) make two READY requests too many for a batch:
without the LIMIT of `batchProcessing` the tree is refused and the batch reverted again
and again, which `EventuallySettled` excludes. RequestPolling has one request, so its
client always ends with the witness; that a REPLACED answer is final too is not exercised
there (with two requests the run is out of reach). PipelineLiveness has two. In EthereumSends the number of attempts is the code's.
In AuthCalls four calls are a code's making, its two uses at once and the call that
supersedes it, or a registration, a revocation, and two uses of one nonce.
In RequestStatus one request is polled (`Polled`) and both can be asked for over pubsub;
a replica that is one change behind (`MaxLag`) already shows PENDING for COMPLETED and
a missing row for a stored one. Trees of four leaves have every shape that matters
for a path: leaves at the root's side, at different depths, and a sibling on either
side. Two lost blocks are one on the path of a commit and one off it, or two on it.
`MaxRuns` bounds the runs of the loop, which has no memory beyond the last one, and
`MaxErrors` the failures of a process: enough for every attempt at the witness
table to fail and the subscription too. It is also what
`ResponderListens` means: if IPFS fails for ever, nobody listens. Deadlock is not checked in any run: when all requests are settled, all
calls have ended, the witness is verified or the process has exited, the system
really has nothing to do. The
proofs cover what the bounds leave out.

Symmetry is used in PipelineRaces, over workers, and in AuthCalls, over calls and codes; no liveness property is checked there.

### Fairness

* AnchorPipeline: processes that are up keep running, workers are started again by
  their timer (`TaskSchedulerService` or the deployment) or by an event, time passes,
  and a stored request's `markReplaced` is run. No fairness for clients or faults,
  so properties hold whether or not a fault happens.
* QueuedAnchoring: workers poll and run on, SQS returns a message nobody handles.
  Nothing makes the validator or the batcher act.
* EthereumTransactions: weak fairness for a call that has the lock, *strong* fairness
  for `Acquire`: the code polls every five seconds for ever, and a lock that is free
  again and again is assumed to be free at one of the polls. The network need not
  mine anything, ever.
* RequestStatus: the fairness of AnchorPipeline, a replica that applies what it is
  sent, a reader whose reads end, and a client that polls (*strong* fairness of
  `AskReplica`, since one reader at a time is at work). A CAR that cannot be read is
  one of the faults, of which there are finitely many.
* AppLifecycle: promises settle, timers fire and tasks end. Signals and failures come
  or do not.
* WitnessPath, AuthRegistration, AuthKeys: none; a call may stop anywhere, and only safety is claimed.

### What the violation shows

**PipelineRevert.** `_anchorRequests` reverts its whole batch to PENDING without
looking at the status, and a failing `logAnchorSummary` comes after the result was
committed. A request that a client has seen COMPLETED becomes PENDING and is
anchored again. `CompletedIsProven` and the ledger survive it: the anchor row
stays what it was, and so does what anyone is told (`AnswersAreFinal`). In queue mode
the revert is absent, and `CompletedIsFinal` holds.

The models show more disagreements between the code and its comments, or places where
the code promises less than one may expect, which have no run of their own:

* a retry must offer "at least 10%" more "or the transaction will fail"
  (`src/services/blockchain/ethereum/ethereum-blockchain-service.ts:252`). The division
  by ten comes first (lines 268 and 276), so an offer below ten wei is not raised at
  all, and one above it by up to a wei less than a tenth. `RetriesOutbid` states what the
  code does give, `10 * new > 11 * old - 10`; with `10 * new >= 11 * old` in its place,
  TLC finds 9 wei offered after 9 wei;
* with `overrideGasConfig` (lines 205-209) retries are not raised at all, which is why
  `RetriesOutbid` and `CapsRise` exclude it;
* a cap, `maxFeePerGas`, rises by what the price rises by and not by a tenth of itself, and
  falls when the estimated base fee falls: a node that wants both fees raised by 10%
  refuses the replacement;
* two newest requests of a stream with the same timestamp may both become REPLACED
  (`src/repositories/request-repository.ts:417`): each of two concurrent `markReplaced`
  may select the other's request. `NewestIsKept` is about a request that is newer than
  all others, and liveness is checked with distinct timestamps;

* nothing removes an already anchored candidate from the list the tree is built from
  (`src/services/anchor-service.ts:725`), so it costs a leaf, and its tree a
  transaction, again;
* the count and the marking of READY requests are two statements
  (`src/app.ts:208`), and a worker that marks a batch between them gets company;
* after `stop()`, a failing task completes the loop normally and `cbAfterNoOp` is
  called (`src/services/task-scheduler-service.ts:31`), which in continual anchoring
  exits the process. No run is cut off by it; IPFS may be left unclosed.

## 4. The proofs

| theorem | states |
|---|---|
| `RequestStatusProofs!TypeCorrect` | `[]TypeOK` |
| `RequestStatusProofs!CompletedAreProven` | `[]CompletedIsProven` |
| `RequestStatusProofs!NewestAreKept` | `[]NewestIsKept` |
| `RequestStatusProofs!PipelineImplementsLedger` | the pipeline implements `AnchorLedger` |
| `QueuedAnchoringProofs!TypeCorrect` | `[]TypeOK` |
| `QueuedAnchoringProofs!CompletedForGood` | `CompletedIsFinal` |
| `QueuedAnchoringProofs!CompletedAreProven` | `[]CompletedIsProven` |
| `QueuedAnchoringProofs!NoRequestIsLost` | `[]DeletedAreSettled` |
| `QueuedAnchoringProofs!QueueImplementsLedger` | the queue implements `AnchorLedger` |
| `AnchorStoreProofs!LedgerPromises` | what implements `AnchorLedger` has anchor rows that are final and backed |
| `EthereumTransactionsProofs!TypeCorrect` | `[]TypeOK` |
| `EthereumTransactionsProofs!RootsAnchoredOnce` | `[]AnchorsAtMostOnce` |
| `EthereumTransactionsProofs!ReturnedAreAnchored` | `[]ReturnedIsAnchored` |
| `EthereumTransactionsProofs!CallsDoNotOverlap` | `[]SendsAlone` |
| `EthereumTransactionsProofs!SendsImplementOnce` | the service implements `SendOnce` |
| `GasPriceProofs!AttemptsOutbid` | `[]RetriesOutbid` |
| `GasPriceProofs!CapsRiseWithPrices` | `[]CapsRise` |
| `AuthProofs!TypeCorrect` | `[]TypeOK` |
| `AuthProofs!OneCallPerCode` | `[]CodesWorkOnce` |
| `AuthProofs!NewCodesSupersede` | `[]OlderCodesAreDead` |
| `AuthProofs!RegistrationsAreFinal` | `RegistrationIsFinal` |
| `AuthProofs!OneCallPerNonce` | `[]NoncesWorkOnce` |
| `AuthProofs!KeysAreBacked` | `[]KeysFollowDIDs` |
| `AuthProofs!KeysImplementTables` | AuthKeys implements AuthRegistration |
| `RequestStatusProofs!StatusTypeCorrect` | `[]StatusTypeOK` |
| `RequestStatusProofs!ToldForGood` | `[]AnswersAreFinal` |
| `RequestStatusProofs!StoredAreFound` | `StoredIsFound` |
| `RequestStatusProofs!StatusImplementsLedger` | the pipeline and its readers implement `AnchorLedger` |
| `AppLifecycleProofs!NoRunIsCutOff` | `[]NothingIsCutOff` |
| `AppLifecycleProofs!ShutdownIsNoFailure` | `[]AbortIsNoFailure` |
| `AppLifecycleProofs!AbortEndsRuns` | `NoRunAfterAbort` |
| `AppLifecycleProofs!StopsAreAnswered` | `SchedulerSpec` keeps `StopsAreKept` |
| `AppLifecycleProofs!AppImplementsScheduler` | a process implements `SchedulerSpec` |
| `WitnessPathProofs!TypeCorrect` | `[]TypeOK` |
| `WitnessPathProofs!CommitsLead` | `[]CommitsLeadToCandidates` |
| `WitnessPathProofs!BuiltVerifies` | `[]BuiltWitnessVerifies` |
| `WitnessPathProofs!VerifiedProven` | `[]VerifiedIsProven` |

All hold for any set of requests, workers and calls, any limits, timeouts, fees,
batches, trees and number of faults, and are proved from the safety part of the specifications; no
fairness is needed. What they assume of the constants are the `ASSUME`s of the
modules, nothing else.

*Tables.* What both ways of scheduling rely on is proved once, in AnchorStoreProofs:
the types of the statements, that anchor rows with a root on chain and in the CAR
store stay so (`RowsStayProven`), and which steps of the store are steps of the ledger
(`OtherStepsMap`, `PublishingMaps`, `PersistingMaps`).

*Ledger.* `LedgerPromises` says what the refinement is worth to a client: whatever
implements the ledger gives a request one anchor row at most, for good, and only of a
root that covers the request, is on chain and has its Merkle CAR stored. It is proved
from the ledger alone, and the three refinement theorems make it true of the
database, the queue, and the service as its readers see it.

*Pipeline.* `CompletedIsProven` is not inductive: whether a worker may write
COMPLETED depends on what it did three steps ago. `EvidenceInv` says that a worker
past `sending` has its batch on chain, past `storing` in the CAR store, past
`persisting` has anchor rows for it, and that every anchor row, not only that of a
COMPLETED request, is backed. The last part is what survives a revert followed by a
second anchoring. `RivalInv` for `NewestIsKept` says of a `markReplaced`
between its subquery and its update that each victim it holds has a stored rival which
is not older, and the same of every REPLACED row; rows never go away, so neither does
the rival. It needs no assumption about timestamps. `OnlyRows` (batches and victims hold stored requests) is
what maps `PersistAnchorResult` and `StoreCarFile` to steps of the ledger
(`PipelineStepMaps`).

*Queue.* A worker at work has a message that exists (`HasMessage`). A status is
written by three statements only (`StatusIsWritten`): the insert, a `markReplaced` that
takes PENDING rows, and the update to COMPLETED. So a settled request, COMPLETED or
REPLACED, stays settled and a COMPLETED one COMPLETED (`StatusesAdvance`), which is
`CompletedIsFinal`; the pipeline has a fourth, its revert. `DeliveryInv` is for `DeletedAreSettled`: of the requests in its message,
those a worker has left out of its batch are settled, and when it acks, all are
(`RestIsSettled`). It is inductive since the body of a message does not change once it
is sent (`MessagesStay`), and does not depend on who holds the message: an ack with an
old handle is as safe as one with the latest. `EvidenceInv` is the pipeline's.

*Ethereum.* A call has one nonce for all its attempts, and the chain mines one
transaction per nonce: the invariant says that every transaction a call ever gave to
the network and that may still be mined carries the call's nonce, that a mined nonce
is below `txCount` and unique, and that what was returned is mined with success. The
same invariant makes the service implement `SendOnce`, the call as a worker sees it:
mining is its `Land`, which may come after `Fail`; `UnreturnedInv` separates a call
that ended with an error from one that returned. This is what SendTransaction and
its failures stand for in the two ways of scheduling: a worker goes on after
`Return` only, with its root on chain; after `Fail` the root is on chain, will be,
or never is. A root that lands late is there from the failure on in those modules:
no step of theirs reads the chain, and what they promise of it only gets easier.

*Fees.* `RetriesOutbid` speaks of all pairs of transactions sent, the code compares an
attempt with the one before. `PricedInv` closes the gap: once something was sent txData
has fees, those are no lower than any sent, also when attempts were priced and never
sent, and above them all when the attempt is about to send. The arithmetic is in two
lemmas, `Tenth` and `IncreaseOutbids`. `CapsRise` follows as a cap is the price and the
base fee it was estimated beside.

*Auth.* Used and expired codes never work again (`DeadCodesStayDead`), from which two
invariants follow: the code of a call that was let through is dead (`VerifiedInv`),
and so is every code a call found and no longer has to expire (`FoundInv`).
`NonceInv` says that the nonce of an accepted call is among those of its DID, which
no step takes away. `RegistrationIsFinal` needs the type invariant only: an item
without a status has no email. A step of AuthKeys is a step or a stutter of
AuthRegistration (`KeyStepIsStep`), so every theorem about the tables holds of the
specification with the keys too (`KeysImplementTables`), which is the one AuthCalls
checks; `KeyInv` adds that DIDs waiting for a key are in the table, and that a call about to
disable a key is answered and its one DID revoked.

*Answers.* A step of the readers is a step or a stutter of the pipeline, but for a
CAR that cannot be read, which counts a fault; so `EvidenceInv` holds here too
(`PipelineGoesOn`). `ReplicaInv` says that every COMPLETED the replica shows, or has
yet to apply, has an anchor row in the main database, and `ReaderInv` that a reader
past the anchor row holds that row, and that what was told are anchor rows. Both
survive since a row is never changed (`AnchorsStay`). `StatusInv` is all of these with
the types. They are needed for each other: that an answer of COMPLETED always names
an anchor, a part of `StatusTypeOK`, depends on `ReplicaInv`. `KnownInv` is for
`StoredIsFound`: a request that was stored when it was asked for is a row when the
reader gets to the main database, since rows stay (`StoredStay`).

*Shutdown.* `QuietInv` ties the phases of a process together: the loop is begun when
the process is up, a shutdown follows only then and finds the loop aborted or over,
and IPFS is closed after that. `FailureInv` follows the attempts at the witness table
beyond `start()`: one that is still going on has the table or an error behind it.

*Scheduler.* `TaskSchedulerService` is also proved apart from the process. Under any
calls of `start()` and `stop()` at any time, a `stop()` that waits has aborted the loop and
waits for one that is still on, and one that has resolved has no loop beside it
(`StopsAreKept`); and no run begins after the abort. A step of the application is a step
of the scheduler or leaves it alone (`AppImplementsScheduler`), which is how
`AbortEndsRuns` holds of every mode.

*Witnesses.* The argument is about one way from the root to a leaf at a time, and needs
no induction over trees. `RouteInv` says that each turn on a way leads to the next node,
and the last one to the leaf; a merge puts a node on top of the ways of the two trees it
joins, and what was on top before is what its turn leads to (`MergeMakesWays`).
`BuildInv` and `VerifyInv` say of the loops of `build` and `verify` that they are on such
a way, that the records read so far were found, and that the link is what comes next,
the leaf at the end; `build`'s has copied exactly the nodes up to there. The commit of a
damaged witness may have any candidate's `prev` and the beginning of any other's path:
since a node is no leaf (`Kinds`), a loop that ends at `prev` has read the whole way, and
since leaves differ it is that of `prev`'s candidate. That two candidates never share a
path, a part of `CommitsLead`, is the one induction (`PathsDiffer`): equal turns from one
root lead to equal nodes, and in the end to the same leaf. `UpTo` gets it from the order
of the natural numbers being well-founded.

Only model-checked, not proved: the liveness properties (`EveryRequestIsCovered`,
`EventuallySettled`, `BatchesDrain`, `EveryCallEnds`, `PollingConverges`, `ShutdownEnds`,
`ResponderListens`, `WitnessTableSettles`), since the prover does not do fairness, and
`PriceIsBounded`, whose powers of ten and eleven the backends do not reason about. Every
other property of a passing run is a theorem.

The proofs about the pipeline and about its readers share the module
RequestStatusProofs: its first part is about AnchorPipeline alone (`SafetySpec`), the
second about RequestStatus, which extends it.

## 5. What is not modelled

* `retrieveRecord`, `storeRecord`, `importCAR` and `publishAnchorCommit` of the IPFS
  service: calls without a state here, off by default or unused.
* Reorganisations of the chain: a mined transaction stays mined. The code
  waits for four blocks (`NUM_BLOCKS_TO_WAIT`) for this reason, and has no way back.
* Messages that cannot be parsed, and batch messages with more requests than a tree has
  leaves: in the model they are a failing worker, of which there are finitely many. A
  message that fails for ever comes back for ever, unless the queue, configured outside
  the repository, moves it away.
* The layout of answers; the HTTP layer, its authentication, health checks; metrics
  and logs: nothing in them has behaviour over time.
* The mail of the auth service, which is sent and forgotten, and what its authorizer
  checks before the nonce.
* The contract's allow list: a wallet that is not on it has its transactions
  reverted, which EthereumTransactions lets happen at any time.
* The processes that `multiprocess` forks: each is a process of AppLifecycle, but how
  a signal reaches them is up to the operating system.

PROJECT.json gives the reason for each.

## 6. Plan

Done, most important behaviour first: the request and anchor tables with the
pipeline and the ledger; the queue, which refines the same ledger; the Ethereum
service; gas prices; the scheduler; the auth service; then what clients are told
(RequestStatus), the witnesses (WitnessPath), the life of a process (AppLifecycle) and
the keys of the gateway (AuthKeys).

Every safety property of the passing runs but `PriceIsBounded` is a theorem too, and the abstract
specifications (AnchorLedger, SendOnce, the scheduler for any caller, the tables of the
auth service without the gateway) have their refinements proved. Not planned: proofs of
the liveness properties, and a composition of EthereumTransactions with the two ways of
scheduling, whose joint states TLC could not enumerate; what each relies on of the other
is `SendOnce`, as section 4 says.
