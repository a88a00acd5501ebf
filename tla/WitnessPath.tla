----------------------------- MODULE WitnessPath -----------------------------
(***************************************************************************)
(* Merkle CAR files and the witnesses taken from them: MerkleCarFactory    *)
(* builds the tree of a batch, AnchorService adds the proof and one anchor *)
(* commit per candidate, and WitnessService copies what proves one commit  *)
(* into a CAR of its own (build) and checks such a CAR (verify), block by  *)
(* block.  Blocks may be missing from either CAR by the time it is read.   *)
(*                                                                         *)
(* Blocks are content addressed: a CID is the block it names.  A CAR is a  *)
(* set of blocks, and `None` what a lookup that finds nothing returns.     *)
(* The shape of the tree is the external factory's choice; any will do.    *)
(***************************************************************************)
EXTENDS Integers, Sequences, FiniteSets

CONSTANTS
    MaxLeaves,  \* bound: candidates of a batch
    MaxLost     \* bound: blocks lost from a CAR

ASSUME WitnessAssumption == MaxLeaves \in Nat \ {0} /\ MaxLost \in Nat

VARIABLES
    candidates, \* the batch, in the order the candidates were loaded
    leaves,     \* leafNodes of its Merkle tree
    route,      \* [Cids -> Seq([node, turn])], the way to a leaf from the root above it
    car,        \* blocks of the Merkle CAR
    witness,    \* blocks of the witness CAR
    commit,     \* the anchor commit at the root of the witness CAR
    link,       \* the CID the loop of build or verify has come to,
    at,         \* and the path elements it has read
    damaged,    \* the witness is not as it was built
    step        \* what has been done, or the error it ended with

batchVars == <<candidates, leaves>>
treeVars == <<batchVars, route, car>>
witnessVars == <<treeVars, witness, commit, link, at, damaged, step>>

None == [none |-> TRUE]
Step == {"tree", "proof", "stored", "lost", "building", "built", "build failed",
         "damaged", "verifying", "verified", "invalid"}

-----------------------------------------------------------------------------
(* Blocks and paths.                                                       *)

Leaf(c) == [cid |-> c]
Node(l, r) == [left |-> l, right |-> r]
IsNode(block) == "left" \in DOMAIN block

\* currentRecord[p] of a block: only nodes have numbered entries.
Child(block, p) ==
    IF IsNode(block) THEN (IF p = "0" THEN block.left ELSE block.right) ELSE None

\* The codec of paths.  join('/') and split('/') are the identity on the elements,
\* but for the empty path, which is split into one empty element.
EncodePath(path) == IF Len(path) = 0 THEN <<"">> ELSE path
PathDecodes(line) == \A i \in DOMAIN line : line[i] \in {"0", "1"}

-----------------------------------------------------------------------------
(* The Merkle tree of a batch.                                             *)

Elements(s) == {s[i] : i \in DOMAIN s}
Cids == Elements(leaves)

\* CIDSort orders the leaves.
Sorted(batch) ==
    {s \in [DOMAIN batch -> Elements(batch)] :
        Elements(s) = Elements(batch) /\ \A i, j \in DOMAIN s : i < j => s[i] < s[j]}

Init ==
    /\ \E n \in 1..MaxLeaves :
         candidates \in {s \in [1..n -> 1..n] : Elements(s) = 1..n}
    /\ leaves \in Sorted(candidates)
    /\ route = [c \in Cids |-> <<>>]
    /\ car = {} /\ witness = {} /\ commit = None
    /\ link = None /\ at = 0 /\ damaged = FALSE
    /\ step = "tree"

\* Root of the tree a leaf is in so far.
Top(c) == IF route[c] = <<>> THEN Leaf(c) ELSE route[c][1].node
Root == Top(leaves[1])

\* No leaf stands between the trees l and r, in this order.
Adjacent(l, r) ==
    \A c, d \in Cids : Top(c) = l /\ Top(d) = r =>
        c < d /\ \A e \in c..d : Top(e) \in {l, r}

\* IpfsMerge stores the node above two trees, or above the leaf of a batch of one.
Merge(l, r) ==
    /\ step = "tree"
    /\ car' = car \cup {Node(l, r)}
    /\ route' = [c \in Cids |->
         IF Top(c) = l THEN <<[node |-> Node(l, r), turn |-> "0"]>> \o route[c]
         ELSE IF Top(c) = r THEN <<[node |-> Node(l, r), turn |-> "1"]>> \o route[c]
         ELSE route[c]]
    /\ UNCHANGED <<batchVars, witness, commit, link, at, damaged, step>>

MergeTrees ==
    \/ \E l, r \in {Top(c) : c \in Cids} : l # r /\ Adjacent(l, r) /\ Merge(l, r)
    \/ \E c \in Cids : Cids = {c} /\ route[c] = <<>> /\ Merge(Leaf(c), None)

\* getDirectPathFromRoot, and what is left of it after n elements.
Turns(c, n) == [k \in 1..n |-> route[c][k].turn]
PathTo(c) == Turns(c, Len(route[c]))
NodesTo(c) == {route[c][k].node : k \in DOMAIN route[c]}

-----------------------------------------------------------------------------
(* The Merkle CAR of a batch.                                              *)

Proof == [root |-> Root, tx |-> "tx"]

\* A mutant: the commit of a path takes the candidate of that rank as loaded.
CommitAsLoaded(i) ==
    [prev |-> Leaf(candidates[i]), proof |-> Proof, path |-> EncodePath(PathTo(leaves[i]))]

\* _createAnchorCommit for the i-th leaf of the tree.
AnchorCommit(i) ==
    [prev |-> Leaf(leaves[i]), proof |-> Proof, path |-> EncodePath(PathTo(leaves[i]))]

AnchorCommits == {AnchorCommit(i) : i \in DOMAIN leaves}

CreateIPFSProof ==
    /\ step = "tree"
    /\ \A c \in Cids : route[c] # <<>> /\ Top(c) = Root
    /\ car' = car \cup {Proof}
    /\ step' = "proof"
    /\ UNCHANGED <<batchVars, route, witness, commit, link, at, damaged>>

CreateAnchorCommits ==
    /\ step = "proof"
    /\ car' = car \cup AnchorCommits
    /\ step' = "stored"
    /\ UNCHANGED <<batchVars, route, witness, commit, link, at, damaged>>

\* The file that is read is not the file that was written.
LoseBlocks ==
    /\ step = "stored"
    /\ \E lost \in SUBSET car :
         /\ Cardinality(lost) \in 1..MaxLost
         /\ car' = car \ lost
    /\ step' = "lost"
    /\ UNCHANGED <<batchVars, route, witness, commit, link, at, damaged>>

-----------------------------------------------------------------------------
(* WitnessService.build.                                                   *)

\* A mutant: the commit of a witness that could not be built is kept.
FailAndKeep ==
    /\ step' = "build failed"
    /\ witness' = {} /\ link' = None /\ at' = 0
    /\ UNCHANGED <<treeVars, commit, damaged>>

\* build throws: its caller has no CAR.
BuildFails ==
    /\ step' = "build failed"
    /\ witness' = {} /\ commit' = None /\ link' = None /\ at' = 0
    /\ UNCHANGED <<treeVars, damaged>>

\* Commit, proof and root must be there, and the path is decoded.
Readable(c, blocks) == {c, c.proof, c.proof.root} \subseteq blocks /\ PathDecodes(c.path)

StartBuild ==
    /\ step \in {"stored", "lost"}
    /\ \E c \in AnchorCommits :
         \/ ~Readable(c, car) /\ BuildFails
         \/ /\ Readable(c, car)
            /\ commit' = c /\ witness' = {c, c.proof, c.proof.root}
            /\ link' = c.proof.root /\ at' = 0 /\ step' = "building"
            /\ UNCHANGED <<treeVars, damaged>>

NextLink == Child(link, commit.path[at + 1])

Advance == link' = NextLink /\ at' = at + 1

\* A mutant: a record that is not found ends the loop.
CopyUntilMissing ==
    /\ step = "building" /\ at < Len(commit.path)
    /\ IF link \in car
         THEN Advance /\ witness' = witness \cup ({NextLink} \cap car) /\ UNCHANGED step
         ELSE step' = "built" /\ link' = None /\ at' = 0 /\ UNCHANGED witness
    /\ UNCHANGED <<treeVars, commit, damaged>>

\* A path element is read from the record before it, which must have been found,
\* and the block it names is copied if it is found.  The last one names the commit
\* that was anchored, which the CAR does not hold.
CopyBlock ==
    /\ step = "building" /\ at < Len(commit.path)
    /\ IF link \in car
         THEN /\ Advance
              /\ witness' = witness \cup ({NextLink} \cap car)
              /\ UNCHANGED <<treeVars, commit, damaged, step>>
         ELSE BuildFails

EndBuild ==
    /\ step = "building" /\ at = Len(commit.path)
    /\ link' = None /\ at' = 0 /\ step' = "built"
    /\ UNCHANGED <<treeVars, witness, commit, damaged>>

BuildWitness == StartBuild \/ CopyBlock \/ EndBuild

-----------------------------------------------------------------------------
(* WitnessService.verify.                                                  *)

\* The witness that is checked may have lost a block, or hold a commit whose path
\* and prev do not belong together.
DamageWitness ==
    /\ step = "built"
    /\ \/ \E lost \in witness : witness' = witness \ {lost} /\ UNCHANGED commit
       \/ \E c \in Cids : \E n \in 0..Len(route[c]) :
            /\ commit' = [commit EXCEPT !.path = EncodePath(Turns(c, n))]
            /\ witness' = (witness \ {commit}) \cup {commit'}
    /\ damaged' = TRUE /\ step' = "damaged"
    /\ UNCHANGED <<treeVars, link, at>>

Check(result) == step' = result /\ link' = None /\ at' = 0

\* `cids` finds the commit, the proof and the root, and decodes the path.
StartVerify ==
    /\ step \in {"built", "damaged"}
    /\ IF Readable(commit, witness)
         THEN link' = commit.proof.root /\ at' = 0 /\ step' = "verifying"
         ELSE Check("invalid")
    /\ UNCHANGED <<treeVars, witness, commit, damaged>>

\* `cids` reads the next path element.
FollowLink ==
    /\ step = "verifying" /\ at < Len(commit.path)
    /\ IF link \in witness /\ NextLink # None
         THEN Advance /\ UNCHANGED step
         ELSE Check("invalid")
    /\ UNCHANGED <<treeVars, witness, commit, damaged>>

\* A mutant: a path that can be followed to its end is taken for a witness.
AcceptAnyEnd ==
    /\ step = "verifying" /\ at = Len(commit.path)
    /\ Check("verified")
    /\ UNCHANGED <<treeVars, witness, commit, damaged>>

\* The last CID must be that of the anchored commit.
EndVerify ==
    /\ step = "verifying" /\ at = Len(commit.path)
    /\ Check(IF link = commit.prev THEN "verified" ELSE "invalid")
    /\ UNCHANGED <<treeVars, witness, commit, damaged>>

VerifyWitness == StartVerify \/ FollowLink \/ EndVerify

Next ==
    \/ MergeTrees \/ CreateIPFSProof \/ CreateAnchorCommits \/ LoseBlocks
    \/ BuildWitness \/ DamageWitness \/ VerifyWitness

Spec == Init /\ [][Next]_witnessVars

-----------------------------------------------------------------------------

\* Every variable stays in its domain; each failure to build ends with an error and
\* no witness.
TypeOK ==
    /\ Cids = Elements(candidates)
    /\ \A c \in Cids : \A s \in Elements(route[c]) : IsNode(s.node) /\ s.turn \in {"0", "1"}
    /\ car \subseteq (UNION {NodesTo(c) : c \in Cids}) \cup {Proof} \cup AnchorCommits
    /\ at \in Nat
    /\ damaged \in BOOLEAN /\ (damaged => step \in {"damaged", "verifying", "verified", "invalid"})
    /\ step \in Step
    /\ (step \in {"tree", "proof", "stored", "lost", "build failed"})
         <=> (commit = None /\ witness = {})

\* From the root above it, each turn on the way to c leads to the next node, the
\* last one to the leaf.
Leads(c) ==
    \A k \in DOMAIN route[c] :
        Child(route[c][k].node, route[c][k].turn) =
            IF k = Len(route[c]) THEN Leaf(c) ELSE route[c][k + 1].node

\* The blocks that prove an anchor commit a are there: from the root in its proof its
\* path leads to its prev.
Proves(a, blocks) ==
    \E c \in Cids :
        /\ a.prev = Leaf(c) /\ a.path = PathTo(c)
        /\ Top(c) = a.proof.root /\ Leads(c)
        /\ {a, a.proof} \cup NodesTo(c) \subseteq blocks

\* Whatever order the candidates are loaded in and whatever the shape of the tree,
\* each of them has an anchor commit with a path of its own, which can be read back
\* as it was written and leads from the root to that candidate's commit.
CommitsLeadToCandidates ==
    step # "tree" =>
        /\ {a.prev : a \in AnchorCommits} = {Leaf(c) : c \in Elements(candidates)}
        /\ \A a \in AnchorCommits : PathDecodes(a.path)
        /\ \A a, b \in AnchorCommits : a.path = b.path => a = b
        /\ step = "stored" => \A a \in AnchorCommits : Proves(a, car)

\* Building a witness from a Merkle CAR that has lost blocks either fails or gives
\* a witness that verifies, and that holds no block verify does not look at.
BuiltWitnessVerifies ==
    /\ step = "built" =>
         /\ Proves(commit, witness)
         /\ \E c \in Cids :
              commit.prev = Leaf(c) /\ witness = {commit, commit.proof} \cup NodesTo(c)
    /\ step = "invalid" => damaged

\* A CAR that verifies proves its anchor commit, even if it has lost a block or its
\* commit has another path than the one it was built with: the path leads from the
\* anchored root to prev, and every block on the way is there.
VerifiedIsProven == step = "verified" => Proves(commit, witness)
=============================================================================
