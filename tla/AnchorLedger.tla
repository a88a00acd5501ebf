---------------------------- MODULE AnchorLedger ----------------------------
(***************************************************************************)
(* What the anchor service promises its clients, whatever batches, workers *)
(* and failures it takes: requests are submitted; a proof is published for *)
(* a set of them, on chain and retrievable; only then, and for the whole   *)
(* set in one step, each of them that has no receipt yet is given that     *)
(* proof for good.  A proof is the set of requests under its Merkle root.  *)
(***************************************************************************)
EXTENDS FiniteSets

CONSTANT Requests

VARIABLES
    submitted,  \* requests the service has stored
    published,  \* proofs anyone can fetch and verify against the chain
    receipt     \* [Requests -> SUBSET Requests], {} while there is none

ledger == <<submitted, published, receipt>>

LedgerInit ==
    /\ submitted = {}
    /\ published = {}
    /\ receipt = [r \in Requests |-> {}]

Submit(r) ==
    /\ r \notin submitted
    /\ submitted' = submitted \cup {r}
    /\ UNCHANGED <<published, receipt>>

Publish(S) ==
    /\ published' = published \cup {S}
    /\ UNCHANGED <<submitted, receipt>>

IssueReceipts(S) ==
    /\ S \in published
    /\ receipt' = [r \in Requests |->
                     IF r \in S /\ receipt[r] = {} THEN S ELSE receipt[r]]
    /\ UNCHANGED <<submitted, published>>

LedgerNext ==
    \/ \E r \in Requests : Submit(r)
    \/ \E S \in SUBSET submitted : Publish(S) \/ IssueReceipts(S)

LedgerSpec == LedgerInit /\ [][LedgerNext]_ledger
=============================================================================
