---------------------------- MODULE RequestStatus ----------------------------
(***************************************************************************)
(* What the outside is told of a request.  A client asks the API server:   *)
(* RequestService reads the row, from the read replica first, and          *)
(* RequestPresentationService adds the anchor commit and its witness.  A   *)
(* repeated POST of a stored request is answered by the same reads.  A     *)
(* Ceramic node asks on pubsub: IpfsService answers with the anchor of the *)
(* stream's latest completed request.  All of them read in several steps   *)
(* while AnchorPipeline goes on, and anchor rows are read from the main    *)
(* database alone.  They do not disturb each other, so one reader at a     *)
(* time is at work.                                                        *)
(*                                                                         *)
(* An anchor commit is a request and the root of its anchor row.           *)
(***************************************************************************)
EXTENDS AnchorPipeline, Sequences

CONSTANTS
    Polled,     \* the requests clients ask for
    NoRequest,  \* the reader is not at work
    MaxLag      \* bound: changes of polled rows the replica is behind

ASSUME ReplicaAssumption ==
    Polled \subseteq Requests /\ NoRequest \notin Requests /\ MaxLag \in Nat \ {0}

VARIABLES
    replica,    \* [Polled -> Status], the polled rows as the replica shows them
    wal,        \* their later states, not applied yet
    query,      \* the request a client or a node is answered about, or NoRequest
    step,       \* step of the reader
    known,      \* the request was stored before it was asked for
    found,      \* root of the anchor row the reader has read
    shown,      \* [Requests -> Shown], the last answer to a client
    told,       \* [Requests -> SUBSET roots], anchors anyone has been told of
    witnesses,  \* anchor commits of polled requests in the witness store
    older       \* [Requests -> SUBSET Requests], those completed before it, if at all

replicaVars == <<replica, wal>>
readerVars == <<query, step, known, found, shown, told>>
statusVars == <<vars, replicaVars, readerVars, witnesses, older>>

ReaderStep == {"idle", "main", "anchor", "witness", "car", "tip"}
\* PENDING, READY and PROCESSING are UNFINISHED; "NONE" where nothing was answered.
Shown == {"NONE", "NOT_FOUND", "UNFINISHED", "REPLACED", "COMPLETED", "WITNESSED"}
AnchorCommits == Requests \X SUBSET Requests

Row == [r \in Polled |-> status[r]]

StatusInit ==
    /\ Init
    /\ replica = Row /\ wal = <<>>
    /\ query = NoRequest /\ step = "idle" /\ known = FALSE /\ found = {}
    /\ shown = [r \in Requests |-> "NONE"]
    /\ told = [r \in Requests |-> {}]
    /\ witnesses = {}
    /\ older = [r \in Requests |-> {}]

-----------------------------------------------------------------------------
(* The main database and its replica.                                      *)

\* A change of the main database is shipped to the replica, which is never more
\* than MaxLag changes behind.
Ship ==
    IF Row' = Row
      THEN UNCHANGED replicaVars
      ELSE IF Len(wal) < MaxLag
        THEN wal' = Append(wal, Row') /\ UNCHANGED replica
        ELSE wal' = Append(Tail(wal), Row') /\ replica' = Head(wal)

\* updated_at of the COMPLETED rows, as their order: one UPDATE sets it for all
\* the rows of a batch.  It matters only while they are COMPLETED.
Complete(S) ==
    older' = [r \in Requests |-> IF r \in S THEN Requests \ S ELSE older[r] \ S]

ReplicaCatchesUp ==
    /\ wal # <<>>
    /\ replica' = Head(wal) /\ wal' = Tail(wal)
    /\ UNCHANGED <<vars, readerVars, witnesses, older>>

-----------------------------------------------------------------------------
(* The API server.                                                         *)

\* The answer to a client.
Answer(r, answer) ==
    /\ shown' = [shown EXCEPT ![r] = answer]
    /\ query' = NoRequest /\ step' = "idle" /\ known' = FALSE /\ found' = {}
    /\ UNCHANGED told

\* A COMPLETED answer names an anchor commit.
AnswerWithAnchor(r, answer, anchor) ==
    /\ shown' = [shown EXCEPT ![r] = answer]
    /\ query' = NoRequest /\ step' = "idle" /\ known' = FALSE /\ found' = {}
    /\ told' = [told EXCEPT ![r] = @ \cup {anchor}]

\* The reader goes on to its next read.
GoOn(r, next, stored, anchor) ==
    /\ query' = r /\ step' = next /\ known' = stored /\ found' = anchor
    /\ UNCHANGED <<shown, told>>

Reading == UNCHANGED <<vars, replicaVars, witnesses, older>>

\* Every status but COMPLETED is shown under its name.
NotCompleted(st) == IF st = "REPLACED" THEN "REPLACED" ELSE "UNFINISHED"

\* A mutant: READY falls through to the case of COMPLETED.
PresentReady(r, st, stored) ==
    IF st \in {"COMPLETED", "READY"}
      THEN GoOn(r, "anchor", stored, {})
      ELSE Answer(r, NotCompleted(st))

\* RequestPresentationService.response: only COMPLETED needs more reads.
Present(r, st, stored) ==
    IF st = "COMPLETED"
      THEN GoOn(r, "anchor", stored, {})
      ELSE Answer(r, NotCompleted(st))

\* The replica is asked first.  It has no row, or fails and the error is only
\* logged: the main database is asked.
AskReplica(r) ==
    /\ step = "idle"
    /\ \/ replica[r] # "NONE" /\ Present(r, replica[r], TRUE)
       \/ GoOn(r, "main", status[r] # "NONE", {})
    /\ Reading

\* A mutant: what the replica does not show does not exist.
AskReplicaAgain ==
    /\ step = "main"
    /\ IF replica[query] = "NONE" THEN Answer(query, "NOT_FOUND")
                                  ELSE Present(query, replica[query], known)
    /\ Reading

AskMain ==
    /\ step = "main"
    /\ IF status[query] = "NONE" THEN Answer(query, "NOT_FOUND")
                                 ELSE Present(query, status[query], known)
    /\ Reading

\* Without an anchor row the answer names the request's own CID as its anchor.
FindAnchor ==
    /\ step = "anchor"
    /\ IF anchors[query] = {} THEN AnswerWithAnchor(query, "COMPLETED", {})
                              ELSE GoOn(query, "witness", known, anchors[query])
    /\ Reading

\* What the witness store returns: nothing if the item expired or the read fails.
WitnessReads(r, anchor) == {FALSE, <<r, anchor>> \in witnesses}

\* What it holds after a write of the witnesses of these commits: errors are only
\* logged, commit by commit.
WitnessWrites(commits) == {witnesses \cup S : S \in SUBSET commits}

GetWitness ==
    /\ step = "witness"
    /\ \E hit \in WitnessReads(query, found) :
         IF hit THEN AnswerWithAnchor(query, "WITNESSED", found)
                ELSE GoOn(query, "car", known, found)
    /\ Reading

\* A mutant: a CAR that must be fetched is given up.
GiveUpCar ==
    /\ step = "car"
    /\ AnswerWithAnchor(query, "COMPLETED", found)
    /\ Reading

\* The witness is built from the Merkle CAR, and stored for the next time.
RetrieveCar ==
    /\ step = "car"
    /\ IF found \in cars
         THEN /\ AnswerWithAnchor(query, "WITNESSED", found)
              /\ witnesses' \in WitnessWrites({<<query, found>>})
         ELSE AnswerWithAnchor(query, "COMPLETED", found) /\ UNCHANGED witnesses
    /\ UNCHANGED <<vars, replicaVars, older>>

\* The CAR cannot be read: the answer has no witness.
RetrieveCarFails ==
    /\ step = "car"
    /\ Fault
    /\ AnswerWithAnchor(query, "COMPLETED", found)
    /\ UNCHANGED <<table, apiVars, schedulerVars, workerVars, evidence>>
    /\ UNCHANGED <<replicaVars, witnesses, older>>

-----------------------------------------------------------------------------
(* The pubsub responder.                                                   *)

\* The COMPLETED requests of a stream whose updated_at is the latest.
LatestCompleted(s) ==
    LET candidates == {r \in WithStatus("COMPLETED") : StreamOf[r] = s}
    IN  {r \in candidates : \A p \in candidates : r \notin older[p]}

\* A node asks for the tip of a stream.
HandleQuery(s) ==
    /\ step = "idle"
    /\ \E r \in LatestCompleted(s) : GoOn(r, "tip", FALSE, {})
    /\ Reading

\* The answer is put into the queue of pubsub messages, or an error ends it.
RespondWithTip ==
    /\ step = "tip"
    /\ told' \in {told, [told EXCEPT ![query] = @ \cup ({anchors[query]} \ {{}})]}
    /\ query' = NoRequest /\ step' = "idle"
    /\ UNCHANGED <<known, found, shown>>
    /\ Reading

-----------------------------------------------------------------------------
(* Anchoring, with what it leaves for the readers.                         *)

\* _anchorCandidates stores the witnesses right after the CAR.
StoreCarAndWitnesses(w) ==
    /\ StoreCarFile(w)
    /\ witnesses' \in WitnessWrites({<<r, batch[w]>> : r \in batch[w] \cap Polled})
    /\ UNCHANGED older

PersistAndDate(w) ==
    /\ PersistAnchorResult(w)
    /\ Complete(batch[w])
    /\ UNCHANGED witnesses

\* The POST that stored the request answers with the row it inserted.
AnswerPost(r) ==
    /\ ReplaceOlder(r)
    /\ shown' = [shown EXCEPT ![r] = "UNFINISHED"]
    /\ UNCHANGED <<query, step, known, found, told, witnesses, older>>

OtherStep ==
    \/ \E r \in Requests : CreateRequest(r) \/ SelectReplaced(r) \/ CreateFails(r)
    \/ \E w \in Workers :
         \/ StartAnchoring(w) \/ WorkerMarksReady(w) \/ SelectBatch(w) \/ ClaimBatch(w)
         \/ FindCandidates(w) \/ AcquireMutex(w) \/ SendTransaction(w)
         \/ LogAnchorSummary(w) \/ RevertToPending(w)
         \/ AnchoringFails(w) \/ WorkerDies(w)
    \/ SchedulerRuns \/ SchedulerFails
    \/ ClockTicks \/ AnchoringDeadlinePasses

Anchor ==
    /\ \/ \E w \in Workers : StoreCarAndWitnesses(w) /\ UNCHANGED readerVars
       \/ \E w \in Workers : PersistAndDate(w) /\ UNCHANGED readerVars
       \/ \E r \in Requests : AnswerPost(r)
       \/ OtherStep /\ UNCHANGED <<readerVars, witnesses, older>>
    /\ Ship

ReaderRuns ==
    AskMain \/ FindAnchor \/ GetWitness \/ RetrieveCar \/ RespondWithTip

StatusNext ==
    \/ Anchor
    \/ ReplicaCatchesUp
    \/ \E r \in Polled : AskReplica(r)
    \/ ReaderRuns
    \/ RetrieveCarFails
    \/ \E r \in Requests : HandleQuery(StreamOf[r])

StatusSafety == StatusInit /\ [][StatusNext]_statusVars

\* The replica applies what it is sent, and a client polls: it asks again and
\* again for every request, and its questions are answered.
StatusSpec ==
    /\ StatusSafety
    /\ Fairness
    /\ WF_replicaVars(ReplicaCatchesUp)
    /\ \A r \in Polled : SF_readerVars(AskReplica(r))
    /\ WF_readerVars(ReaderRuns)

-----------------------------------------------------------------------------

\* Every variable stays in its domain; in particular no COMPLETED answer lacks an
\* anchor commit (the presentation would put the request's own CID in its place).
StatusTypeOK ==
    /\ replica \in [Polled -> Status]
    /\ wal \in Seq([Polled -> Status]) /\ Len(wal) <= MaxLag
    /\ query \in Requests \cup {NoRequest}
    /\ step \in ReaderStep /\ (step # "idle" => query # NoRequest)
    /\ known \in BOOLEAN
    /\ found \in SUBSET Requests
    /\ shown \in [Requests -> Shown]
    /\ told \in [Requests -> SUBSET ((SUBSET Requests) \ {{}})]
    /\ witnesses \in SUBSET AnchorCommits
    /\ older \in [Requests -> SUBSET Requests]

\* Whatever anchor commit a client or a node was ever told of stays the anchor of
\* that request, and is backed by the chain and the CAR store, although the request
\* is reverted and anchored again between the reads of an answer, and the status
\* comes from a replica that lags.
AnswersAreFinal ==
    \A r \in Requests : \A A \in told[r] :
        /\ anchors[r] = A
        /\ r \in A
        /\ A \in chain \cap cars

\* A request that was stored before the client asks for it is never NOT_FOUND,
\* however far the replica is behind.
StoredIsFound ==
    [][\A r \in Polled :
         (query = r /\ known /\ step' = "idle") => shown'[r] # "NOT_FOUND"]_readerVars

\* A client that keeps polling for a stored request ends up with the same answer
\* for good: COMPLETED with its witness, or REPLACED if a newer request came.
PollingConverges ==
    \A r \in Polled :
        status[r] # "NONE" ~> []( shown[r] \in {"REPLACED", "WITNESSED"} )
=============================================================================
