---------------------------- MODULE AnchorStore ----------------------------
(***************************************************************************)
(* What anchoring leaves behind: the roots on the chain, the Merkle CAR    *)
(* files in the CAR store, and the `anchor` table (AnchorRepository).  The *)
(* two ways of scheduling anchors, AnchorPipeline and QueuedAnchoring,     *)
(* share it, and what it promises.  A Merkle root is the set of requests   *)
(* under it: two transactions of one root are not told apart.              *)
(***************************************************************************)
EXTENDS RequestRepository

VARIABLES
    chain,    \* roots anchored on Ethereum
    cars,     \* roots whose Merkle CAR is in the CAR store
    anchors   \* [Requests -> SUBSET Requests], root of the anchor row, {} without a row

evidence == <<chain, cars, anchors>>

EvidenceInit ==
    /\ chain = {}
    /\ cars = {}
    /\ anchors = [r \in Requests |-> {}]

\* A mutant: the insert merges on conflict.
OverwriteAnchors(S) ==
    anchors' = [r \in Requests |-> IF r \in S THEN S ELSE anchors[r]]

\* The insert of anchor rows ignores requests that have one.
CreateAnchors(S) ==
    anchors' = [r \in Requests |->
                  IF r \in S /\ anchors[r] = {} THEN S ELSE anchors[r]]

-----------------------------------------------------------------------------

\* A request that the database calls COMPLETED has an anchor row, the row's root
\* covers the request, that root is on chain and its CAR file can be retrieved,
\* at whatever point a worker failed, died or was overtaken by another one.
CompletedIsProven ==
    \A r \in WithStatus("COMPLETED") :
        /\ r \in anchors[r]
        /\ anchors[r] \in chain \cap cars

\* Anchoring implements the ledger: proofs are published before anyone is told
\* of them, a batch is recorded in one step, and an anchor row is final, whatever
\* reverts, double claims, crashes, redeliveries and re-anchorings there are.
Ledger == INSTANCE AnchorLedger
            WITH submitted <- Rows, published <- chain \cap cars, receipt <- anchors
ImplementsLedger == Ledger!LedgerSpec
=============================================================================
