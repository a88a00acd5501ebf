-------------------------- MODULE WitnessPathProofs --------------------------
(***************************************************************************)
(* What WitnessPath promises, for batches of any size, trees of any shape  *)
(* and any number of lost blocks.                                          *)
(*                                                                         *)
(* The argument is about one way from the root to a leaf at a time.  Each  *)
(* merge puts a node on top of the ways of the trees it joins, so a turn   *)
(* always leads to what was the top before (RouteInv).  The loop of build  *)
(* and that of verify follow one of these ways, and the link they have     *)
(* come to is the next node on it, or the leaf (BuildInv, VerifyInv).      *)
(***************************************************************************)
EXTENDS WitnessPath, WellFoundedInduction, TLAPS

Nodes == UNION {NodesTo(c) : c \in Cids}

\* What the first n turns on the way to c lead to.
LinkAt(c, n) == IF n = Len(route[c]) THEN Leaf(c) ELSE route[c][n + 1].node

\* The commit of c, with the first n turns on the way to d for its path.
CommitOf(c, d, n) == [prev |-> Leaf(c), proof |-> Proof, path |-> EncodePath(Turns(d, n))]

BatchInv == 1 \in DOMAIN leaves /\ Cids = Elements(candidates)

RouteInv ==
    \A c \in Cids :
        /\ route[c] \in Seq(Elements(route[c]))
        /\ \A k \in 1..Len(route[c]) :
             IsNode(route[c][k].node) /\ route[c][k].turn \in {"0", "1"}
        /\ Leads(c)

\* The tree is complete before the proof of its root is made.
TreeInv == step # "tree" => \A c \in Cids : route[c] # <<>> /\ Top(c) = Root

CarInv ==
    /\ car \subseteq Nodes \cup {Proof} \cup AnchorCommits
    /\ step = "tree" => car = Nodes
    /\ step = "proof" => car = Nodes \cup {Proof}
    /\ step = "stored" => car = Nodes \cup {Proof} \cup AnchorCommits

\* No commit is held outside build and verify, which hold one until they fail.
IdleInv ==
    /\ step \in {"tree", "proof", "stored", "lost", "build failed"} => commit = None /\ witness = {}
    /\ damaged \in BOOLEAN
    /\ damaged => step \in {"damaged", "verifying", "verified", "invalid"}
    /\ at \in Nat
    /\ step \in Step

\* The loop of build: the records read were found, and what was found was copied.
Building(c) ==
    /\ commit = CommitOf(c, c, Len(route[c]))
    /\ at <= Len(route[c])
    /\ link = LinkAt(c, at)
    /\ \A k \in 1..at : route[c][k].node \in car
    /\ witness = {commit, Proof} \cup
         {block \in car : \E k \in 1..Len(route[c]) : k <= at + 1 /\ block = route[c][k].node}

BuildInv == step = "building" => \E c \in Cids : Building(c)

\* A witness that was built: complete when nothing was done to it, and with the
\* beginning of some path otherwise.
Built(c, d, n) ==
    /\ commit = CommitOf(c, d, n)
    /\ ~damaged => d = c /\ n = Len(route[c]) /\ witness = {commit, Proof} \cup NodesTo(c)

\* The loop of verify: the records read were found.
Verifying(d, n) ==
    /\ n > 0 /\ at <= n
    /\ link = LinkAt(d, at)
    /\ {commit, Proof, Root} \subseteq witness
    /\ \A k \in 1..at : route[d][k].node \in witness

VerifyInv ==
    /\ step \in {"built", "damaged", "verifying", "verified", "invalid"} =>
         \E c, d \in Cids : \E n \in 0..Len(route[d]) :
             /\ Built(c, d, n)
             /\ step = "verifying" => Verifying(d, n)
    /\ step = "built" => ~damaged
    /\ step = "invalid" => damaged

IInv ==
    /\ BatchInv /\ RouteInv /\ TreeInv /\ CarInv
    /\ IdleInv /\ BuildInv /\ VerifyInv /\ VerifiedIsProven

-----------------------------------------------------------------------------
(* Sequences and the elements of a path.                                   *)

\* What a sequence is.
LEMMA SeqFacts ==
    ASSUME NEW S, NEW s \in Seq(S)
    PROVE  /\ Len(s) \in Nat
           /\ DOMAIN s = 1..Len(s)
           /\ s = <<>> <=> Len(s) = 0
           /\ \A k \in 1..Len(s) : s[k] \in S
           /\ s \in Seq(Elements(s))
  BY DEF Elements

\* What is put before a sequence moves it by one.
LEMMA Prepend ==
    ASSUME NEW S, NEW s \in Seq(S), NEW h
    PROVE  /\ (<<h>> \o s) \in Seq(Elements(<<h>> \o s))
           /\ Len(<<h>> \o s) = Len(s) + 1
           /\ (<<h>> \o s)[1] = h
           /\ \A k \in 1..Len(s) : (<<h>> \o s)[k + 1] = s[k]
           /\ \A k \in 2..Len(<<h>> \o s) : (<<h>> \o s)[k] = s[k - 1]
  <1>1. s \in Seq(S \cup {h}) /\ <<h>> \in Seq(S \cup {h})
    OBVIOUS
  <1>2. <<h>> \o s \in Seq(S \cup {h})
    BY <1>1
  <1>3. (<<h>> \o s) \in Seq(Elements(<<h>> \o s))
    BY <1>2, SeqFacts
  <1> QED
    BY <1>1, <1>3

\* Blocks of different kinds are different, and nodes are no leaves.
LEMMA Kinds ==
    ASSUME NEW c, NEW d, NEW l, NEW r
    PROVE  /\ IsNode(Node(l, r)) /\ ~IsNode(Leaf(c)) /\ ~IsNode(None)
           /\ Leaf(c) # None
           /\ Leaf(c) = Leaf(d) => c = d
           /\ Child(Node(l, r), "0") = l /\ Child(Node(l, r), "1") = r
  <1>1. "left" \in DOMAIN Node(l, r) /\ "left" \notin DOMAIN Leaf(c) /\ "left" \notin DOMAIN None
    BY DEF Node, Leaf, None
  <1>2. Leaf(c) # None
    <2>1. "cid" \in DOMAIN Leaf(c) /\ "cid" \notin DOMAIN None
      BY DEF Leaf, None
    <2> QED
      BY <2>1
  <1>3. Leaf(c).cid = c /\ Leaf(d).cid = d
    BY DEF Leaf
  <1>4. Node(l, r).left = l /\ Node(l, r).right = r
    BY DEF Node
  <1> QED
    BY <1>1, <1>2, <1>3, <1>4, "0" # "1" DEF IsNode, Child

\* The first turns of a way are a path, read back as written unless it is empty.
LEMMA PathFacts ==
    ASSUME NEW c \in Cids, RouteInv, NEW n \in 0..Len(route[c])
    PROVE  /\ Len(Turns(c, n)) = n
           /\ \A k \in 1..n : Turns(c, n)[k] = route[c][k].turn
           /\ n > 0 => EncodePath(Turns(c, n)) = Turns(c, n)
           /\ PathDecodes(EncodePath(Turns(c, n))) <=> n > 0
  <1>1. Len(route[c]) \in Nat
    BY SeqFacts DEF RouteInv
  <1>2. \A k \in 1..n : route[c][k].turn \in {"0", "1"}
    BY <1>1 DEF RouteInv
  <1>3. Turns(c, n) \in Seq({"0", "1"}) /\ Len(Turns(c, n)) = n /\ DOMAIN Turns(c, n) = 1..n
    BY <1>1, <1>2 DEF Turns
  <1>4. \A k \in 1..n : Turns(c, n)[k] = route[c][k].turn
    BY DEF Turns
  <1>5. n > 0 => EncodePath(Turns(c, n)) = Turns(c, n)
    <2>1. n > 0 => Len(Turns(c, n)) # 0
      BY <1>1, <1>3
    <2> QED
      BY <2>1, Zenon DEF EncodePath
  <1>6. n > 0 => PathDecodes(EncodePath(Turns(c, n)))
    <2>1. PathDecodes(Turns(c, n))
      BY <1>2, <1>3, <1>4 DEF PathDecodes
    <2> QED
      BY <1>5, <2>1
  <1>7. n = 0 => ~PathDecodes(EncodePath(Turns(c, n)))
    <2> SUFFICES ASSUME n = 0
                 PROVE  ~PathDecodes(<<"">>)
      BY <1>1, <1>3 DEF EncodePath
    <2>1. 1 \in DOMAIN <<"">> /\ <<"">>[1] = ""
      OBVIOUS
    <2>2. "" \notin {"0", "1"}
      OBVIOUS
    <2> QED
      BY <2>1, <2>2 DEF PathDecodes
  <1> QED
    BY <1>1, <1>3, <1>4, <1>5, <1>6, <1>7

\* A turn leads to the next node of the way, and what is led to is no dead end.
LEMMA Turn ==
    ASSUME NEW c \in Cids, RouteInv, NEW n \in Nat, n < Len(route[c])
    PROVE  /\ IsNode(route[c][n + 1].node)
           /\ LinkAt(c, n) = route[c][n + 1].node
           /\ Child(LinkAt(c, n), route[c][n + 1].turn) = LinkAt(c, n + 1)
           /\ LinkAt(c, n + 1) # None
  <1>1. Len(route[c]) \in Nat /\ DOMAIN route[c] = 1..Len(route[c])
    BY SeqFacts DEF RouteInv
  <1>2. \A k \in 1..Len(route[c]) : IsNode(route[c][k].node)
    BY DEF RouteInv
  <1>3. Leads(c)
    BY DEF RouteInv
  <1>4. n + 1 \in 1..Len(route[c]) /\ n # Len(route[c])
    BY <1>1
  <1>5. Child(route[c][n + 1].node, route[c][n + 1].turn) = LinkAt(c, n + 1)
    BY <1>1, <1>3, <1>4 DEF Leads, LinkAt
  <1>6. LinkAt(c, n + 1) # None
    <2>1. CASE n + 1 = Len(route[c])
      BY <2>1, Kinds DEF LinkAt
    <2>2. CASE n + 1 # Len(route[c])
      BY <1>1, <1>2, <1>4, <2>2, Kinds DEF LinkAt
    <2> QED
      BY <2>1, <2>2
  <1> QED
    BY <1>2, <1>4, <1>5, <1>6 DEF LinkAt

\* What holds at 0, and at n + 1 if at n, holds up to any bound.
LEMMA UpTo ==
    ASSUME NEW n \in Nat, NEW T, 0 \in T, \A k \in 0..(n - 1) : k \in T => k + 1 \in T
    PROVE  0..n \subseteq T
  <1> SUFFICES ASSUME (0..n) \ T # {}
               PROVE  FALSE
    OBVIOUS
  <1> DEFINE less == OpToRel(<, Nat)
  <1>1. IsWellFoundedOn(less, Nat)
    BY NatLessThanWellFounded
  <1>2. \A x, y \in Nat : x < y => <<x, y>> \in less
    BY DEF OpToRel
  <1>3. (0..n) \ T \subseteq Nat
    OBVIOUS
  <1> HIDE DEF less
  <1>4. PICK x \in (0..n) \ T : \A y \in (0..n) \ T : <<y, x>> \notin less
    BY <1>1, <1>3, WFMin
  <1>5. x \in 1..n /\ x - 1 \in 0..(n - 1) /\ x - 1 \in Nat /\ (x - 1) + 1 = x
    BY <1>4
  <1>6. x - 1 \in (0..n) \ T
    BY <1>4, <1>5
  <1>7. x - 1 < x /\ x \in Nat
    BY <1>5
  <1>8. <<x - 1, x>> \in less
    BY <1>2, <1>5, <1>7
  <1> QED
    BY <1>4, <1>6, <1>8

\* The turns from the root say which leaf they lead to.
LEMMA PathsDiffer ==
    ASSUME RouteInv, NEW c \in Cids, NEW d \in Cids,
           LinkAt(c, 0) = LinkAt(d, 0), PathTo(c) = PathTo(d)
    PROVE  c = d
  <1>1. /\ Len(route[c]) \in Nat /\ Len(route[d]) \in Nat
        /\ Len(route[c]) \in 0..Len(route[c]) /\ Len(route[d]) \in 0..Len(route[d])
    BY SeqFacts DEF RouteInv
  <1>2. Len(route[c]) = Len(route[d])
    BY <1>1, PathFacts DEF PathTo
  <1>3. \A k \in 1..Len(route[c]) : route[c][k].turn = route[d][k].turn
    <2>1. /\ \A k \in 1..Len(route[c]) : PathTo(c)[k] = route[c][k].turn
          /\ \A k \in 1..Len(route[d]) : PathTo(d)[k] = route[d][k].turn
      BY <1>1, PathFacts DEF PathTo
    <2> QED
      BY <1>2, <2>1
  <1> DEFINE T == {k \in 0..Len(route[c]) : LinkAt(c, k) = LinkAt(d, k)}
  <1>4. 0 \in T
    BY <1>1
  <1>5. ASSUME NEW k \in 0..(Len(route[c]) - 1), k \in T
        PROVE  k + 1 \in T
    <2>1. k \in Nat /\ k < Len(route[c]) /\ k < Len(route[d]) /\ k + 1 \in 1..Len(route[c])
      BY <1>1, <1>2
    <2>2. Child(LinkAt(c, k), route[c][k + 1].turn) = LinkAt(c, k + 1)
      BY <2>1, Turn
    <2>3. Child(LinkAt(d, k), route[d][k + 1].turn) = LinkAt(d, k + 1)
      BY <2>1, Turn
    <2>4. LinkAt(c, k) = LinkAt(d, k)
      BY <1>5
    <2>5. LinkAt(c, k + 1) = LinkAt(d, k + 1)
      BY <1>3, <2>1, <2>2, <2>3, <2>4
    <2> QED
      BY <1>1, <2>1, <2>5
  <1> HIDE DEF T
  <1>6. Len(route[c]) \in T
    BY <1>1, <1>4, <1>5, UpTo
  <1>7. Leaf(c) = Leaf(d)
    BY <1>2, <1>6 DEF T, LinkAt
  <1> QED
    BY <1>7, Kinds

-----------------------------------------------------------------------------
(* The tree.                                                               *)

LEMMA InitCorrect == Init => IInv
  <1> SUFFICES ASSUME Init
               PROVE  IInv
    OBVIOUS
  <1>1. PICK n \in 1..MaxLeaves : candidates \in [1..n -> 1..n]
    BY DEF Init
  <1>2. DOMAIN candidates = 1..n /\ DOMAIN leaves = DOMAIN candidates
    BY <1>1 DEF Init, Sorted
  <1>3. BatchInv
    BY <1>2, WitnessAssumption DEF BatchInv, Init, Sorted, Cids
  <1>4. \A c \in Cids : route[c] = <<>>
    BY DEF Init
  <1>5. RouteInv
    <2>1. <<>> \in Seq({}) /\ DOMAIN <<>> = {} /\ 1..Len(<<>>) = {}
      OBVIOUS
    <2>2. <<>> \in Seq(Elements(<<>>))
      BY <2>1, SeqFacts
    <2>3. ASSUME NEW c \in Cids
          PROVE  route[c] \in Seq(Elements(route[c])) /\ DOMAIN route[c] = {}
                 /\ 1..Len(route[c]) = {}
      BY <1>4, <2>1, <2>2
    <2> QED
      BY <2>3 DEF RouteInv, Leads
  <1>6. Nodes = {}
    BY <1>4 DEF Nodes, NodesTo
  <1> QED
    BY <1>3, <1>5, <1>6 DEF IInv, Init, TreeInv, CarInv, IdleInv, BuildInv, VerifyInv,
       VerifiedIsProven, Step

\* Where the trees l and r are joined, a new node stands on top of their ways and the
\* others stay as they were.
LEMMA MergeMakesWays ==
    ASSUME NEW l, NEW r, RouteInv, Merge(l, r)
    PROVE  /\ RouteInv'
           /\ \A c \in Cids : NodesTo(c)' = NodesTo(c) \cup
                (IF Top(c) \in {l, r} THEN {Node(l, r)} ELSE {})
  <1>1. Cids' = Cids
    BY DEF Merge, batchVars, Cids, Elements
  <1> SUFFICES ASSUME NEW c \in Cids
               PROVE  /\ route'[c] \in Seq(Elements(route'[c]))
                      /\ \A k \in 1..Len(route'[c]) :
                           IsNode(route'[c][k].node) /\ route'[c][k].turn \in {"0", "1"}
                      /\ Leads(c)'
                      /\ NodesTo(c)' = NodesTo(c) \cup
                           (IF Top(c) \in {l, r} THEN {Node(l, r)} ELSE {})
    BY <1>1 DEF RouteInv, Elements
  <1>2. /\ route[c] \in Seq(Elements(route[c]))
        /\ \A k \in 1..Len(route[c]) :
             IsNode(route[c][k].node) /\ route[c][k].turn \in {"0", "1"}
        /\ Leads(c)
    BY DEF RouteInv
  <1>3. /\ Len(route[c]) \in Nat
        /\ DOMAIN route[c] = 1..Len(route[c])
        /\ route[c] = <<>> <=> Len(route[c]) = 0
    BY <1>2, SeqFacts
  <1>4. CASE Top(c) \notin {l, r}
    <2>1. route'[c] = route[c]
      BY <1>4 DEF Merge
    <2> QED
      BY <1>2, <1>4, <2>1 DEF Leads, NodesTo
  <1>5. ASSUME NEW t \in {"0", "1"}, Child(Node(l, r), t) = Top(c),
               route'[c] = <<[node |-> Node(l, r), turn |-> t]>> \o route[c],
               Top(c) \in {l, r}
        PROVE  /\ route'[c] \in Seq(Elements(route'[c]))
               /\ \A k \in 1..Len(route'[c]) :
                    IsNode(route'[c][k].node) /\ route'[c][k].turn \in {"0", "1"}
               /\ Leads(c)'
               /\ NodesTo(c)' = NodesTo(c) \cup
                    (IF Top(c) \in {l, r} THEN {Node(l, r)} ELSE {})
    <2> DEFINE h == [node |-> Node(l, r), turn |-> t]
    <2>1. /\ route'[c] \in Seq(Elements(route'[c]))
          /\ Len(route'[c]) = Len(route[c]) + 1
          /\ route'[c][1] = h
          /\ \A k \in 1..Len(route[c]) : route'[c][k + 1] = route[c][k]
          /\ \A k \in 2..Len(route'[c]) : route'[c][k] = route[c][k - 1]
      BY <1>2, <1>5, Prepend
    <2>2. DOMAIN route'[c] = 1..Len(route'[c])
      BY <2>1
    <2>3. h.node = Node(l, r) /\ h.turn = t
      OBVIOUS
    <2> HIDE DEF h
    <2>4. ASSUME NEW k \in 1..Len(route'[c])
          PROVE  IsNode(route'[c][k].node) /\ route'[c][k].turn \in {"0", "1"}
      <3>1. CASE k = 1
        BY <2>1, <2>3, <3>1, Kinds
      <3>2. CASE k # 1
        <4>1. k - 1 \in 1..Len(route[c]) /\ route'[c][k] = route[c][k - 1]
          BY <1>3, <2>1, <3>2
        <4> QED
          BY <1>2, <4>1
      <3> QED
        BY <3>1, <3>2
    <2>5. Leads(c)'
      <3> SUFFICES ASSUME NEW k \in 1..Len(route'[c])
                   PROVE  Child(route'[c][k].node, route'[c][k].turn) =
                            IF k = Len(route'[c]) THEN Leaf(c) ELSE route'[c][k + 1].node
        BY <2>2 DEF Leads
      <3>1. CASE k = 1
        <4>1. Child(route'[c][k].node, route'[c][k].turn) = Top(c)
          BY <1>5, <2>1, <2>3, <3>1
        <4>2. Top(c) = IF Len(route[c]) = 0 THEN Leaf(c) ELSE route[c][1].node
          BY <1>3 DEF Top
        <4>3. Len(route[c]) # 0 => route'[c][2] = route[c][1]
          BY <1>3, <2>1
        <4> QED
          BY <1>3, <2>1, <3>1, <4>1, <4>2, <4>3
      <3>2. CASE k # 1
        <4>1. k - 1 \in 1..Len(route[c]) /\ route'[c][k] = route[c][k - 1]
          BY <1>3, <2>1, <3>2
        <4>2. k # Len(route'[c]) => route'[c][k + 1] = route[c][(k - 1) + 1]
          <5>1. (k - 1) + 1 = k
            BY <1>3
          <5>2. k # Len(route'[c]) => k \in 1..Len(route[c])
            BY <1>3, <2>1
          <5> QED
            BY <2>1, <5>1, <5>2
        <4>3. Child(route[c][k - 1].node, route[c][k - 1].turn) =
                IF k - 1 = Len(route[c]) THEN Leaf(c) ELSE route[c][(k - 1) + 1].node
          BY <1>2, <1>3, <4>1 DEF Leads
        <4> QED
          BY <1>3, <2>1, <4>1, <4>2, <4>3
      <3> QED
        BY <3>1, <3>2
    <2>6. NodesTo(c)' = NodesTo(c) \cup {Node(l, r)}
      <3>1. ASSUME NEW k \in 1..Len(route'[c])
            PROVE  route'[c][k].node \in NodesTo(c) \cup {Node(l, r)}
        <4>1. CASE k = 1
          BY <2>1, <2>3, <4>1
        <4>2. CASE k # 1
          <5>1. k - 1 \in 1..Len(route[c]) /\ route'[c][k] = route[c][k - 1]
            BY <1>3, <2>1, <4>2
          <5> QED
            BY <1>3, <5>1 DEF NodesTo
        <4> QED
          BY <4>1, <4>2
      <3>2. ASSUME NEW k \in 1..Len(route[c])
            PROVE  route[c][k].node \in NodesTo(c)'
        <4>1. k + 1 \in 1..Len(route'[c]) /\ route'[c][k + 1] = route[c][k]
          BY <1>3, <2>1
        <4> QED
          BY <2>2, <4>1 DEF NodesTo
      <3>3. Node(l, r) \in NodesTo(c)'
        <4>1. 1 \in DOMAIN route'[c]
          BY <1>3, <2>1, <2>2
        <4> QED
          BY <2>1, <2>3, <4>1 DEF NodesTo
      <3> QED
        BY <1>3, <2>2, <3>1, <3>2, <3>3 DEF NodesTo
    <2> QED
      BY <1>5, <2>1, <2>4, <2>5, <2>6
  <1>6. CASE Top(c) = l
    <2>1. route'[c] = <<[node |-> Node(l, r), turn |-> "0"]>> \o route[c]
      BY <1>6 DEF Merge
    <2> QED
      BY <1>5, <1>6, <2>1, Kinds
  <1>7. CASE Top(c) = r /\ Top(c) # l
    <2>1. route'[c] = <<[node |-> Node(l, r), turn |-> "1"]>> \o route[c]
      BY <1>7 DEF Merge
    <2> QED
      BY <1>5, <1>7, <2>1, Kinds
  <1> QED
    BY <1>4, <1>6, <1>7

\* Only MergeTrees changes the tree: elsewhere everything about it stays.
LEMMA SameTree ==
    ASSUME batchVars' = batchVars, route' = route
    PROVE  /\ Cids' = Cids /\ Root' = Root /\ Proof' = Proof
           /\ Nodes' = Nodes /\ AnchorCommits' = AnchorCommits
           /\ BatchInv <=> BatchInv'
           /\ RouteInv <=> RouteInv'
           /\ \A c \in Cids : Top(c)' = Top(c) /\ (Leads(c)' <=> Leads(c))
                              /\ NodesTo(c)' = NodesTo(c) /\ PathTo(c)' = PathTo(c)
           /\ \A c, n : LinkAt(c, n)' = LinkAt(c, n)
           /\ \A c, d, n : CommitOf(c, d, n)' = CommitOf(c, d, n)
  <1>1. candidates' = candidates /\ leaves' = leaves
    BY DEF batchVars
  <1>2. Cids' = Cids
    BY <1>1 DEF Cids, Elements
  <1>3. \A c : Top(c)' = Top(c) /\ NodesTo(c)' = NodesTo(c)
    BY DEF Top, NodesTo
  <1>4. \A c : (Leads(c)' <=> Leads(c))
    BY DEF Leads
  <1>5. \A c, n : LinkAt(c, n)' = LinkAt(c, n) /\ Turns(c, n)' = Turns(c, n)
    BY DEF LinkAt, Turns
  <1>6. \A c : PathTo(c)' = PathTo(c)
    BY <1>5 DEF PathTo
  <1>7. Root' = Root
    BY <1>1, <1>3 DEF Root, Top
  <1>8. Proof' = Proof
    BY <1>7 DEF Proof
  <1>9. Nodes' = Nodes
    BY <1>2, <1>3 DEF Nodes
  <1>10. \A c, d, n : CommitOf(c, d, n)' = CommitOf(c, d, n)
    BY <1>5, <1>8 DEF CommitOf
  <1>11. AnchorCommits' = AnchorCommits
    BY <1>1, <1>6, <1>8 DEF AnchorCommits, AnchorCommit, PathTo, Turns
  <1>12. BatchInv <=> BatchInv'
    BY <1>1, <1>2 DEF BatchInv, Elements
  <1>13. RouteInv <=> RouteInv'
    BY <1>2 DEF RouteInv, Elements, Leads
  <1> QED
    BY <1>2, <1>3, <1>4, <1>5, <1>6, <1>7, <1>8, <1>9, <1>10, <1>11, <1>12, <1>13

\* What is in an anchor commit, and who has one.
LEMMA CommitFacts ==
    ASSUME NEW c, NEW d, NEW n
    PROVE  /\ CommitOf(c, d, n).prev = Leaf(c)
           /\ CommitOf(c, d, n).proof = Proof
           /\ CommitOf(c, d, n).path = EncodePath(Turns(d, n))
           /\ CommitOf(c, d, n) # None
           /\ Proof.root = Root
  <1>1. "prev" \in DOMAIN CommitOf(c, d, n) /\ "prev" \notin DOMAIN None
    BY DEF CommitOf, None
  <1> QED
    BY <1>1 DEF CommitOf, Proof

LEMMA EachHasItsCommit == AnchorCommits = {CommitOf(c, c, Len(route[c])) : c \in Cids}
  <1>1. \A i \in DOMAIN leaves :
          AnchorCommit(i) = CommitOf(leaves[i], leaves[i], Len(route[leaves[i]]))
    BY DEF AnchorCommit, CommitOf, PathTo
  <1> QED
    BY <1>1 DEF AnchorCommits, Cids, Elements

\* The commits that are anchored are not in the CAR.
LEMMA NoLeafStored ==
    ASSUME NEW c, RouteInv, CarInv
    PROVE  Leaf(c) \notin car
  <1>1. Leaf(c) \notin Nodes
    <2> SUFFICES ASSUME NEW d \in Cids, NEW k \in DOMAIN route[d]
                 PROVE  Leaf(c) # route[d][k].node
      BY DEF Nodes, NodesTo
    <2>1. DOMAIN route[d] = 1..Len(route[d])
      BY SeqFacts DEF RouteInv
    <2>2. IsNode(route[d][k].node)
      BY <2>1 DEF RouteInv
    <2> QED
      BY <2>2, Kinds
  <1>2. DOMAIN Leaf(c) = {"cid"} /\ "root" \in DOMAIN Proof
        /\ \A i \in DOMAIN leaves : "prev" \in DOMAIN AnchorCommit(i)
    BY DEF Leaf, Proof, AnchorCommit
  <1>3. Leaf(c) # Proof /\ Leaf(c) \notin AnchorCommits
    BY <1>2 DEF AnchorCommits
  <1> QED
    BY <1>1, <1>3 DEF CarInv

-----------------------------------------------------------------------------
(* Every step keeps the invariant.                                         *)

LEMMA MergeTreesStep == IInv /\ MergeTrees => IInv'
  <1> SUFFICES ASSUME IInv, MergeTrees
               PROVE  IInv'
    OBVIOUS
  <1>1. PICK l, r : Merge(l, r) /\ \E c \in Cids : Top(c) = l
    BY DEF MergeTrees, Top
  <1>2. /\ RouteInv'
        /\ \A c \in Cids : NodesTo(c)' = NodesTo(c) \cup
             (IF Top(c) \in {l, r} THEN {Node(l, r)} ELSE {})
    BY <1>1, MergeMakesWays DEF IInv
  <1>3. Cids' = Cids /\ Elements(candidates)' = Elements(candidates) /\ leaves' = leaves
    BY <1>1 DEF Merge, batchVars, Cids, Elements
  <1>4. \A c \in Cids : Top(c) = r => NodesTo(c)' = NodesTo(c) \cup {Node(l, r)}
    BY <1>2
  <1>5. Nodes' = Nodes \cup {Node(l, r)}
    BY <1>1, <1>2, <1>3, <1>4 DEF Nodes
  <1>6. CarInv'
    BY <1>1, <1>5 DEF IInv, CarInv, Merge
  <1>7. BatchInv'
    BY <1>3 DEF IInv, BatchInv
  <1> QED
    BY <1>1, <1>2, <1>6, <1>7 DEF IInv, Merge, TreeInv, IdleInv, BuildInv, VerifyInv,
       VerifiedIsProven

\* While the batch is stored, nothing is built or checked.
LEMMA StoreStep ==
    IInv /\ (CreateIPFSProof \/ CreateAnchorCommits \/ LoseBlocks) => IInv'
  <1> SUFFICES ASSUME IInv, CreateIPFSProof \/ CreateAnchorCommits \/ LoseBlocks
               PROVE  IInv'
    OBVIOUS
  <1>1. /\ batchVars' = batchVars /\ route' = route
        /\ step' \in {"proof", "stored", "lost"} /\ step \in {"tree", "proof", "stored"}
        /\ UNCHANGED <<witness, commit, link, at, damaged>>
    BY DEF CreateIPFSProof, CreateAnchorCommits, LoseBlocks
  <1>2. /\ Cids' = Cids /\ Root' = Root /\ Proof' = Proof
        /\ Nodes' = Nodes /\ AnchorCommits' = AnchorCommits
        /\ BatchInv' /\ RouteInv'
        /\ \A c \in Cids : Top(c)' = Top(c)
    BY <1>1, SameTree DEF IInv
  <1>3. TreeInv'
    <2>1. \A c \in Cids : route[c] # <<>> /\ Top(c) = Root
      BY <1>1 DEF IInv, TreeInv, CreateIPFSProof, CreateAnchorCommits, LoseBlocks
    <2> QED
      BY <1>1, <1>2, <2>1 DEF TreeInv
  <1>4. CarInv'
    BY <1>2 DEF IInv, CarInv, CreateIPFSProof, CreateAnchorCommits, LoseBlocks
  <1>5. IdleInv' /\ BuildInv' /\ VerifyInv' /\ VerifiedIsProven'
    BY <1>1 DEF IInv, IdleInv, BuildInv, VerifyInv, VerifiedIsProven, Step
  <1> QED
    BY <1>2, <1>3, <1>4, <1>5 DEF IInv

\* What building and verifying leave alone.
LEMMA TreeStays ==
    ASSUME IInv, UNCHANGED treeVars, step # "tree", step' \notin {"tree", "proof", "stored"}
    PROVE  /\ BatchInv' /\ RouteInv' /\ TreeInv' /\ CarInv'
           /\ Cids' = Cids /\ Root' = Root /\ Proof' = Proof
           /\ route' = route /\ car' = car
           /\ \A c \in Cids : Top(c)' = Top(c) /\ (Leads(c)' <=> Leads(c))
                              /\ NodesTo(c)' = NodesTo(c) /\ PathTo(c)' = PathTo(c)
           /\ \A c, n : LinkAt(c, n)' = LinkAt(c, n)
           /\ \A c, d, n : CommitOf(c, d, n)' = CommitOf(c, d, n)
  <1>1. batchVars' = batchVars /\ route' = route /\ car' = car
    BY DEF treeVars
  <1>2. /\ Cids' = Cids /\ Root' = Root /\ Proof' = Proof
        /\ Nodes' = Nodes /\ AnchorCommits' = AnchorCommits
        /\ BatchInv' /\ RouteInv'
        /\ \A c \in Cids : Top(c)' = Top(c)
    BY <1>1, SameTree DEF IInv
  <1>3. TreeInv'
    BY <1>1, <1>2 DEF IInv, TreeInv
  <1>4. CarInv'
    BY <1>1, <1>2 DEF IInv, CarInv
  <1> QED
    BY <1>1, <1>2, <1>3, <1>4, SameTree

\* Each way starts at the root, and a leaf is at its end.
LEMMA WayFacts ==
    ASSUME IInv, step # "tree", NEW c \in Cids
    PROVE  /\ Len(route[c]) \in Nat \ {0}
           /\ DOMAIN route[c] = 1..Len(route[c])
           /\ route[c][1].node = Root /\ LinkAt(c, 0) = Root
           /\ LinkAt(c, Len(route[c])) = Leaf(c)
           /\ Len(route[c]) \in 0..Len(route[c])
           /\ EncodePath(Turns(c, Len(route[c]))) = PathTo(c)
           /\ PathDecodes(PathTo(c))
  <1>1. route[c] \in Seq(Elements(route[c]))
    BY DEF IInv, RouteInv
  <1>2. Len(route[c]) \in Nat \ {0} /\ DOMAIN route[c] = 1..Len(route[c])
    BY <1>1, SeqFacts DEF IInv, TreeInv
  <1>3. route[c][1].node = Root /\ LinkAt(c, 0) = Root
    BY <1>2 DEF IInv, TreeInv, Top, LinkAt
  <1>4. LinkAt(c, Len(route[c])) = Leaf(c)
    BY DEF LinkAt
  <1>5. Len(route[c]) \in 0..Len(route[c]) /\ Len(route[c]) > 0
    BY <1>2
  <1>6. EncodePath(Turns(c, Len(route[c]))) = PathTo(c) /\ PathDecodes(PathTo(c))
    BY <1>5, PathFacts DEF IInv, PathTo
  <1> QED
    BY <1>2, <1>3, <1>4, <1>5, <1>6

LEMMA BuildFailsStep ==
    ASSUME IInv, BuildFails, step # "tree", ~damaged
    PROVE  IInv'
  <1>1. BatchInv' /\ RouteInv' /\ TreeInv' /\ CarInv'
    BY TreeStays DEF BuildFails
  <1> QED
    BY <1>1 DEF IInv, BuildFails, IdleInv, BuildInv, VerifyInv, VerifiedIsProven, Step

LEMMA StartBuildStep == IInv /\ StartBuild => IInv'
  <1> SUFFICES ASSUME IInv, StartBuild
               PROVE  IInv'
    OBVIOUS
  <1>1. ~damaged /\ step \in {"stored", "lost"}
    BY DEF IInv, IdleInv, StartBuild
  <1>2. CASE BuildFails
    BY <1>1, <1>2, BuildFailsStep
  <1>3. ASSUME NEW a \in AnchorCommits, Readable(a, car), commit' = a,
               witness' = {a, a.proof, a.proof.root}, link' = a.proof.root, at' = 0,
               step' = "building", UNCHANGED <<treeVars, damaged>>
        PROVE  IInv'
    <2>1. PICK c \in Cids : a = CommitOf(c, c, Len(route[c]))
      BY EachHasItsCommit
    <2>2. a.proof = Proof /\ a.proof.root = Root
      BY <2>1, CommitFacts
    <2>3. /\ BatchInv' /\ RouteInv' /\ TreeInv' /\ CarInv'
          /\ Cids' = Cids /\ Proof' = Proof /\ route' = route /\ car' = car
          /\ LinkAt(c, 0)' = LinkAt(c, 0)
          /\ CommitOf(c, c, Len(route[c]))' = CommitOf(c, c, Len(route[c]))
      BY <1>1, <1>3, TreeStays
    <2>4. Len(route[c]) \in Nat \ {0} /\ route[c][1].node = Root /\ LinkAt(c, 0) = Root
      BY <1>1, WayFacts
    <2>5. Root \in car
      BY <1>3, <2>2 DEF Readable
    <2>6. {block \in car : \E k \in 1..Len(route[c]) : k <= 1 /\ block = route[c][k].node}
            = {Root}
      BY <2>4, <2>5
    <2>7. Building(c)'
      BY <1>3, <2>1, <2>2, <2>3, <2>4, <2>6 DEF Building
    <2>8. BuildInv'
      BY <2>3, <2>7 DEF BuildInv
    <2> QED
      BY <1>1, <1>3, <2>3, <2>8 DEF IInv, IdleInv, VerifyInv, VerifiedIsProven, Step
  <1> QED
    BY <1>2, <1>3 DEF StartBuild

LEMMA CopyBlockStep == IInv /\ CopyBlock => IInv'
  <1> SUFFICES ASSUME IInv, CopyBlock
               PROVE  IInv'
    OBVIOUS
  <1>1. ~damaged /\ step = "building" /\ at \in Nat
    BY DEF IInv, IdleInv, CopyBlock
  <1>2. CASE link \notin car
    BY <1>1, <1>2, BuildFailsStep DEF CopyBlock
  <1>3. CASE link \in car
    <2>1. PICK c \in Cids : Building(c)
      BY <1>1 DEF IInv, BuildInv
    <2>2. /\ Len(route[c]) \in Nat \ {0}
          /\ Len(route[c]) \in 0..Len(route[c])
      BY <1>1, WayFacts
    <2>3. /\ Len(Turns(c, Len(route[c]))) = Len(route[c])
          /\ \A k \in 1..Len(route[c]) : Turns(c, Len(route[c]))[k] = route[c][k].turn
          /\ commit.path = Turns(c, Len(route[c]))
      BY <2>1, <2>2, PathFacts, CommitFacts DEF IInv, Building
    <2>4. at < Len(route[c]) /\ at + 1 \in 1..Len(route[c])
      BY <1>1, <2>2, <2>3 DEF CopyBlock
    <2>5. link = route[c][at + 1].node
      BY <1>1, <2>1, <2>4, Turn DEF IInv, Building
    <2>6. NextLink = LinkAt(c, at + 1)
      <3>1. commit.path[at + 1] = route[c][at + 1].turn
        BY <2>3, <2>4
      <3> QED
        BY <1>1, <2>1, <2>4, <3>1, Turn DEF IInv, NextLink, Building
    <2>7. /\ at' = at + 1 /\ link' = LinkAt(c, at + 1)
          /\ witness' = witness \cup ({LinkAt(c, at + 1)} \cap car)
          /\ UNCHANGED <<treeVars, commit, damaged, step>>
      BY <1>3, <2>6 DEF CopyBlock, Advance
    <2>8. /\ BatchInv' /\ RouteInv' /\ TreeInv' /\ CarInv'
          /\ Cids' = Cids /\ Proof' = Proof /\ route' = route /\ car' = car
          /\ CommitOf(c, c, Len(route[c]))' = CommitOf(c, c, Len(route[c]))
      BY <1>1, <2>7, TreeStays
    <2>9. \A k \in 1..at' : route[c][k].node \in car
      BY <1>1, <1>3, <2>1, <2>5, <2>7 DEF Building
    <2>10. {LinkAt(c, at + 1)} \cap car =
             {block \in car : \E k \in 1..Len(route[c]) :
                k = at + 2 /\ block = route[c][k].node}
      <3>1. CASE at + 1 = Len(route[c])
        <4>1. LinkAt(c, at + 1) \notin car
          BY <3>1, NoLeafStored DEF IInv, LinkAt
        <4> QED
          BY <1>1, <2>2, <3>1, <4>1
      <3>2. CASE at + 1 # Len(route[c])
        <4>1. at + 2 \in 1..Len(route[c]) /\ LinkAt(c, at + 1) = route[c][at + 2].node
          BY <1>1, <2>2, <2>4, <3>2 DEF LinkAt
        <4> QED
          BY <4>1
      <3> QED
        BY <3>1, <3>2
    <2>11. witness' = {commit, Proof} \cup
             {block \in car : \E k \in 1..Len(route[c]) :
                k <= at' + 1 /\ block = route[c][k].node}
      BY <1>1, <2>1, <2>2, <2>7, <2>10 DEF Building
    <2>12. Building(c)'
      BY <1>1, <2>1, <2>2, <2>4, <2>7, <2>8, <2>9, <2>11 DEF Building, LinkAt
    <2>13. BuildInv'
      BY <2>8, <2>12 DEF BuildInv
    <2> QED
      BY <1>1, <2>7, <2>8, <2>13 DEF IInv, IdleInv, VerifyInv, VerifiedIsProven, Step
  <1> QED
    BY <1>2, <1>3

LEMMA EndBuildStep == IInv /\ EndBuild => IInv'
  <1> SUFFICES ASSUME IInv, EndBuild
               PROVE  IInv'
    OBVIOUS
  <1>1. ~damaged /\ step = "building" /\ step' = "built" /\ at \in Nat
    BY DEF IInv, IdleInv, EndBuild
  <1>2. PICK c \in Cids : Building(c)
    BY <1>1 DEF IInv, BuildInv
  <1>3. /\ Len(route[c]) \in Nat \ {0}
        /\ DOMAIN route[c] = 1..Len(route[c])
        /\ Len(route[c]) \in 0..Len(route[c])
    BY <1>1, WayFacts
  <1>4. at = Len(route[c])
    BY <1>2, <1>3, PathFacts, CommitFacts DEF IInv, Building, EndBuild
  <1>5. witness = {commit, Proof} \cup NodesTo(c)
    <2>1. \A k \in 1..Len(route[c]) : route[c][k].node \in car /\ k <= at + 1
      BY <1>2, <1>3, <1>4 DEF Building
    <2>2. {block \in car : \E k \in 1..Len(route[c]) :
             k <= at + 1 /\ block = route[c][k].node} = NodesTo(c)
      BY <1>3, <2>1 DEF NodesTo
    <2> QED
      BY <1>2, <2>2 DEF Building
  <1>6. /\ UNCHANGED <<treeVars, witness, commit, damaged>>
        /\ BatchInv' /\ RouteInv' /\ TreeInv' /\ CarInv'
        /\ Cids' = Cids /\ Proof' = Proof /\ route' = route /\ NodesTo(c)' = NodesTo(c)
        /\ CommitOf(c, c, Len(route[c]))' = CommitOf(c, c, Len(route[c]))
    BY <1>1, TreeStays DEF EndBuild
  <1>7. Built(c, c, Len(route[c]))'
    BY <1>2, <1>5, <1>6 DEF Built, Building
  <1>8. VerifyInv'
    BY <1>1, <1>3, <1>6, <1>7 DEF VerifyInv
  <1> QED
    BY <1>1, <1>6, <1>8 DEF IInv, IdleInv, BuildInv, VerifiedIsProven, EndBuild, Step

LEMMA DamageWitnessStep == IInv /\ DamageWitness => IInv'
  <1> SUFFICES ASSUME IInv, DamageWitness
               PROVE  IInv'
    OBVIOUS
  <1>1. ~damaged /\ step = "built" /\ step' = "damaged" /\ damaged'
        /\ UNCHANGED <<treeVars, link, at>>
    BY DEF IInv, VerifyInv, DamageWitness
  <1>2. PICK c \in Cids : commit = CommitOf(c, c, Len(route[c]))
    BY <1>1 DEF IInv, VerifyInv, Built
  <1>3. /\ BatchInv' /\ RouteInv' /\ TreeInv' /\ CarInv'
        /\ Cids' = Cids /\ Proof' = Proof /\ route' = route
        /\ \A d, n : CommitOf(c, d, n)' = CommitOf(c, d, n)
    BY <1>1, TreeStays
  <1>4. \E d \in Cids : \E n \in 0..Len(route[d]) : commit' = CommitOf(c, d, n)
    <2>1. CASE commit' = commit
      BY <1>1, <1>2, <2>1, WayFacts
    <2>2. ASSUME NEW d \in Cids, NEW n \in 0..Len(route[d]),
                 commit' = [commit EXCEPT !.path = EncodePath(Turns(d, n))]
          PROVE  commit' = CommitOf(c, d, n)
      BY <1>2, <2>2 DEF CommitOf
    <2> QED
      BY <2>1, <2>2 DEF DamageWitness
  <1> PICK d \in Cids : \E n \in 0..Len(route[d]) : commit' = CommitOf(c, d, n)
    BY <1>4
  <1>5. PICK n \in 0..Len(route[d]) : commit' = CommitOf(c, d, n)
    OBVIOUS
  <1>6. Built(c, d, n)'
    BY <1>1, <1>3, <1>5 DEF Built
  <1>7. VerifyInv'
    BY <1>1, <1>3, <1>6 DEF VerifyInv
  <1> QED
    BY <1>1, <1>3, <1>7 DEF IInv, IdleInv, BuildInv, VerifiedIsProven, Step

\* What verifying leaves alone: the witness and its commit.
LEMMA CheckStep ==
    ASSUME IInv, step \in {"built", "damaged", "verifying"}, UNCHANGED <<treeVars, witness, commit, damaged>>,
           step' \in {"verifying", "verified", "invalid"}, at' \in Nat,
           step' = "invalid" => damaged,
           step' = "verified" => Proves(commit, witness)',
           NEW c \in Cids, NEW d \in Cids, NEW n \in 0..Len(route[d]), Built(c, d, n),
           step' = "verifying" => Verifying(d, n)'
    PROVE  IInv'
  <1>1. /\ BatchInv' /\ RouteInv' /\ TreeInv' /\ CarInv'
        /\ Cids' = Cids /\ Proof' = Proof /\ route' = route
        /\ NodesTo(c)' = NodesTo(c)
        /\ CommitOf(c, d, n)' = CommitOf(c, d, n)
    BY TreeStays
  <1>2. Built(c, d, n)'
    BY <1>1 DEF Built
  <1>3. VerifyInv'
    BY <1>1, <1>2 DEF VerifyInv
  <1>4. IdleInv' /\ BuildInv' /\ VerifiedIsProven'
    BY DEF IInv, IdleInv, BuildInv, VerifiedIsProven, Step
  <1> QED
    BY <1>1, <1>3, <1>4 DEF IInv

LEMMA StartVerifyStep == IInv /\ StartVerify => IInv'
  <1> SUFFICES ASSUME IInv, StartVerify
               PROVE  IInv'
    OBVIOUS
  <1>1. /\ step \in {"built", "damaged"} /\ step # "tree" /\ at' = 0
        /\ UNCHANGED <<treeVars, witness, commit, damaged>>
        /\ step' \in {"verifying", "invalid"}
    BY DEF StartVerify, Check
  <1> PICK c \in Cids, d \in Cids :
        \E n \in 0..Len(route[d]) : Built(c, d, n)
    BY <1>1 DEF IInv, VerifyInv
  <1>2. PICK n \in 0..Len(route[d]) : Built(c, d, n)
    OBVIOUS
  <1>3. /\ commit.proof = Proof /\ commit.proof.root = Root
        /\ commit.path = EncodePath(Turns(d, n))
    BY <1>2, CommitFacts DEF Built
  <1>4. Len(route[c]) \in Nat \ {0} /\ Len(route[d]) \in Nat \ {0} /\ LinkAt(d, 0) = Root
        /\ route[c][1].node = Root /\ DOMAIN route[c] = 1..Len(route[c])
    BY <1>1, WayFacts
  <1>5. PathDecodes(commit.path) <=> n > 0
    BY <1>3, PathFacts DEF IInv
  <1>6. ASSUME ~damaged
        PROVE  Readable(commit, witness)
    <2>1. d = c /\ n = Len(route[c]) /\ witness = {commit, Proof} \cup NodesTo(c)
      BY <1>2, <1>6 DEF Built
    <2>2. Root \in NodesTo(c)
      BY <1>4 DEF NodesTo
    <2> QED
      BY <1>3, <1>4, <1>5, <2>1, <2>2 DEF Readable
  <1>7. step' = "invalid" => damaged
    BY <1>6 DEF StartVerify
  <1>8. ASSUME step' = "verifying"
        PROVE  Verifying(d, n)'
    <2>1. Readable(commit, witness) /\ link' = Root
      BY <1>3, <1>8 DEF StartVerify, Check
    <2>2. n > 0 /\ {commit, Proof, Root} \subseteq witness
      BY <1>3, <1>5, <2>1 DEF Readable
    <2>3. LinkAt(d, 0)' = LinkAt(d, 0) /\ Proof' = Proof /\ Root' = Root /\ route' = route
      BY <1>1, TreeStays
    <2>4. link' = LinkAt(d, at)'
      BY <1>1, <1>4, <2>1, <2>3 DEF LinkAt
    <2> QED
      BY <1>1, <1>4, <2>2, <2>3, <2>4 DEF Verifying
  <1> QED
    BY <1>1, <1>2, <1>7, <1>8, CheckStep

LEMMA FollowLinkStep == IInv /\ FollowLink => IInv'
  <1> SUFFICES ASSUME IInv, FollowLink
               PROVE  IInv'
    OBVIOUS
  <1>1. /\ step = "verifying" /\ step # "tree" /\ at \in Nat /\ at' \in Nat
        /\ UNCHANGED <<treeVars, witness, commit, damaged>>
        /\ step' \in {"verifying", "invalid"}
    BY DEF IInv, IdleInv, FollowLink, Check, Advance
  <1> PICK c \in Cids, d \in Cids :
        \E n \in 0..Len(route[d]) : Built(c, d, n) /\ Verifying(d, n)
    BY <1>1 DEF IInv, VerifyInv
  <1>2. PICK n \in 0..Len(route[d]) : Built(c, d, n) /\ Verifying(d, n)
    OBVIOUS
  <1>3. Len(route[d]) \in Nat \ {0} /\ DOMAIN route[c] = 1..Len(route[c])
    BY <1>1, WayFacts
  <1>4. /\ commit.path = Turns(d, n) /\ Len(commit.path) = n
        /\ \A k \in 1..n : commit.path[k] = route[d][k].turn
    BY <1>2, PathFacts, CommitFacts DEF IInv, Built, Verifying
  <1>5. at < n /\ n \in Nat /\ at + 1 \in 1..n /\ at < Len(route[d])
    BY <1>1, <1>3, <1>4 DEF FollowLink
  <1>6. link = route[d][at + 1].node
    BY <1>1, <1>2, <1>5, Turn DEF IInv, Verifying
  <1>7. NextLink = LinkAt(d, at + 1) /\ NextLink # None
    BY <1>1, <1>2, <1>4, <1>5, Turn DEF IInv, NextLink, Verifying
  <1>8. ASSUME ~damaged
        PROVE  link \in witness
    <2>1. d = c /\ n = Len(route[c]) /\ witness = {commit, Proof} \cup NodesTo(c)
      BY <1>2, <1>8 DEF Built
    <2> QED
      BY <1>3, <1>5, <1>6, <2>1 DEF NodesTo
  <1>9. step' = "invalid" => damaged
    BY <1>1, <1>7, <1>8 DEF FollowLink
  <1>10. ASSUME step' = "verifying"
         PROVE  Verifying(d, n)'
    <2>1. link \in witness /\ link' = LinkAt(d, at + 1) /\ at' = at + 1
      BY <1>7, <1>10 DEF FollowLink, Check, Advance
    <2>2. Proof' = Proof /\ Root' = Root /\ route' = route
      BY <1>1, TreeStays
    <2>3. link' = LinkAt(d, at)'
      BY <2>1, <2>2 DEF LinkAt
    <2>4. \A k \in 1..at' : route[d][k].node \in witness
      BY <1>1, <1>2, <1>6, <2>1 DEF Verifying
    <2> QED
      BY <1>1, <1>2, <1>5, <2>1, <2>2, <2>3, <2>4 DEF Verifying
  <1> QED
    BY <1>1, <1>2, <1>9, <1>10, CheckStep

LEMMA EndVerifyStep == IInv /\ EndVerify => IInv'
  <1> SUFFICES ASSUME IInv, EndVerify
               PROVE  IInv'
    OBVIOUS
  <1>1. /\ step = "verifying" /\ step # "tree" /\ at \in Nat /\ at' = 0
        /\ UNCHANGED <<treeVars, witness, commit, damaged>>
        /\ step' \in {"verified", "invalid"}
    BY DEF IInv, IdleInv, EndVerify, Check
  <1> PICK c \in Cids, d \in Cids :
        \E n \in 0..Len(route[d]) : Built(c, d, n) /\ Verifying(d, n)
    BY <1>1 DEF IInv, VerifyInv
  <1>2. PICK n \in 0..Len(route[d]) : Built(c, d, n) /\ Verifying(d, n)
    OBVIOUS
  <1>3. /\ Len(route[d]) \in Nat \ {0} /\ DOMAIN route[d] = 1..Len(route[d])
        /\ LinkAt(c, Len(route[c])) = Leaf(c) /\ LinkAt(d, Len(route[d])) = Leaf(d)
        /\ EncodePath(Turns(c, Len(route[c]))) = PathTo(c)
        /\ EncodePath(Turns(d, Len(route[d]))) = PathTo(d)
        /\ route[d][1].node = Root
    BY <1>1, WayFacts
  <1>4. /\ commit.path = EncodePath(Turns(d, n)) /\ Len(commit.path) = n
        /\ commit.prev = Leaf(c) /\ commit.proof = Proof /\ commit.proof.root = Root
    BY <1>2, PathFacts, CommitFacts DEF IInv, Built, Verifying
  <1>5. at = n /\ link = LinkAt(d, n)
    BY <1>2, <1>4 DEF EndVerify, Verifying
  <1>6. step' = "invalid" => damaged
    <2> SUFFICES ASSUME ~damaged
                 PROVE  link = commit.prev
      BY DEF EndVerify, Check
    <2> QED
      BY <1>2, <1>3, <1>4, <1>5 DEF Built
  <1>7. ASSUME step' = "verified"
        PROVE  Proves(commit, witness)'
    <2>1. LinkAt(d, n) = Leaf(c)
      BY <1>4, <1>5, <1>7 DEF EndVerify, Check
    <2>2. n = Len(route[d])
      <3> SUFFICES ASSUME n # Len(route[d])
                   PROVE  FALSE
        OBVIOUS
      <3>1. n \in Nat /\ n < Len(route[d])
        BY <1>3
      <3>2. IsNode(LinkAt(d, n))
        BY <3>1, Turn DEF IInv
      <3> QED
        BY <2>1, <3>2, Kinds
    <2>3. d = c
      BY <1>3, <2>1, <2>2, Kinds
    <2>4. Top(c) = Root /\ Leads(c)
      BY <1>1 DEF IInv, TreeInv, RouteInv
    <2>5. NodesTo(c) \subseteq witness
      BY <1>2, <1>3, <1>5, <2>2, <2>3 DEF Verifying, NodesTo
    <2>6. {commit, Proof} \subseteq witness
      BY <1>2 DEF Verifying
    <2>7. /\ Cids' = Cids /\ Proof' = Proof /\ Root' = Root /\ witness' = witness /\ commit' = commit
          /\ Top(c)' = Top(c) /\ (Leads(c)' <=> Leads(c))
          /\ NodesTo(c)' = NodesTo(c) /\ PathTo(c)' = PathTo(c)
      BY <1>1, TreeStays
    <2> QED
      BY <1>3, <1>4, <2>2, <2>3, <2>4, <2>5, <2>6, <2>7 DEF Proves
  <1> QED
    BY <1>1, <1>2, <1>6, <1>7, CheckStep

LEMMA NextStep == IInv /\ [Next]_witnessVars => IInv'
  <1>1. ASSUME IInv, UNCHANGED witnessVars
        PROVE  IInv'
    <2>1. /\ UNCHANGED <<witness, commit, link, at, damaged, step, car, route>>
          /\ batchVars' = batchVars
      BY <1>1 DEF witnessVars, treeVars
    <2>2. /\ Cids' = Cids /\ Root' = Root /\ Proof' = Proof
          /\ Nodes' = Nodes /\ AnchorCommits' = AnchorCommits
          /\ BatchInv' /\ RouteInv'
      BY <1>1, <2>1, SameTree DEF IInv
    <2>3. \A c, d, n : CommitOf(c, d, n)' = CommitOf(c, d, n) /\ LinkAt(c, n)' = LinkAt(c, n)
      BY <2>1, SameTree
    <2>4. TreeInv' /\ CarInv' /\ IdleInv'
      BY <1>1, <2>1, <2>2 DEF IInv, TreeInv, Top, CarInv, IdleInv
    <2>5. BuildInv'
      BY <1>1, <2>1, <2>2, <2>3 DEF IInv, BuildInv, Building, CommitOf, LinkAt, Turns
    <2>6. VerifyInv'
      <3>1. ASSUME step \in {"built", "damaged", "verifying", "verified", "invalid"}
            PROVE  \E c, d \in Cids : \E n \in 0..Len(route[d]) :
                     Built(c, d, n)' /\ (step = "verifying" => Verifying(d, n)')
        <4> PICK c \in Cids, d \in Cids : \E n \in 0..Len(route[d]) :
               Built(c, d, n) /\ (step = "verifying" => Verifying(d, n))
          BY <1>1, <3>1 DEF IInv, VerifyInv
        <4>1. PICK n \in 0..Len(route[d]) :
                Built(c, d, n) /\ (step = "verifying" => Verifying(d, n))
          OBVIOUS
        <4>2. Built(c, d, n)'
          BY <2>1, <2>2, <2>3, <4>1 DEF Built, NodesTo
        <4>3. step = "verifying" => Verifying(d, n)'
          BY <2>1, <2>2, <2>3, <4>1 DEF Verifying, LinkAt
        <4> QED
          BY <4>2, <4>3
      <3> QED
        BY <1>1, <2>1, <2>2, <3>1 DEF IInv, VerifyInv
    <2>7. VerifiedIsProven'
      BY <1>1, <2>1, <2>2 DEF IInv, VerifiedIsProven, Proves, Top, Leads, NodesTo, PathTo, Turns
    <2> QED
      BY <2>2, <2>4, <2>5, <2>6, <2>7 DEF IInv
  <1> QED
    BY <1>1, MergeTreesStep, StoreStep, StartBuildStep, CopyBlockStep, EndBuildStep,
       DamageWitnessStep, StartVerifyStep, FollowLinkStep, EndVerifyStep
    DEF Next, BuildWitness, VerifyWitness

LEMMA InvHolds == Spec => []IInv
  <1> QED
    BY InitCorrect, NextStep, PTL DEF Spec

-----------------------------------------------------------------------------
(* The properties.                                                         *)

\* Every variable stays in its domain; a commit is held exactly while build or verify
\* works on it or has ended well, and a build that throws leaves no witness behind.
THEOREM TypeCorrect == Spec => []TypeOK
  <1>1. IInv => TypeOK
    <2> SUFFICES ASSUME IInv
                 PROVE  TypeOK
      OBVIOUS
    <2>1. ASSUME NEW c \in Cids, NEW s \in Elements(route[c])
          PROVE  IsNode(s.node) /\ s.turn \in {"0", "1"}
      <3>1. route[c] \in Seq(Elements(route[c]))
        BY DEF IInv, RouteInv
      <3>2. DOMAIN route[c] = 1..Len(route[c])
        BY <3>1, SeqFacts
      <3>3. PICK k \in 1..Len(route[c]) : s = route[c][k]
        BY <3>2 DEF Elements
      <3> QED
        BY <3>3 DEF IInv, RouteInv
    <2>2. step = "building" => commit # None
      BY CommitFacts DEF IInv, BuildInv, Building
    <2>3. step \in {"built", "damaged", "verifying", "verified", "invalid"} => commit # None
      BY CommitFacts DEF IInv, VerifyInv, Built
    <2>4. (step \in {"tree", "proof", "stored", "lost", "build failed"})
            <=> (commit = None /\ witness = {})
      BY <2>2, <2>3 DEF IInv, IdleInv, Step
    <2>5. /\ Cids = Elements(candidates)
          /\ car \subseteq (UNION {NodesTo(c) : c \in Cids}) \cup {Proof} \cup AnchorCommits
      BY DEF IInv, BatchInv, CarInv, Nodes
    <2>6. /\ at \in Nat /\ step \in Step /\ damaged \in BOOLEAN
          /\ damaged => step \in {"damaged", "verifying", "verified", "invalid"}
      BY DEF IInv, IdleInv
    <2> QED
      BY <2>1, <2>4, <2>5, <2>6 DEF TypeOK
  <1> QED
    BY <1>1, InvHolds, PTL

\* The way of each candidate proves its commit in a CAR that has lost nothing.
LEMMA CommitProven ==
    ASSUME IInv, step # "tree", NEW c \in Cids, NEW blocks,
           {CommitOf(c, c, Len(route[c])), Proof} \cup NodesTo(c) \subseteq blocks
    PROVE  Proves(CommitOf(c, c, Len(route[c])), blocks)
  <1> DEFINE a == CommitOf(c, c, Len(route[c]))
  <1>1. a.prev = Leaf(c) /\ a.proof = Proof /\ a.proof.root = Root /\ a.path = PathTo(c)
    BY CommitFacts, WayFacts
  <1>2. Top(c) = Root /\ Leads(c)
    BY DEF IInv, TreeInv, RouteInv
  <1> HIDE DEF a
  <1>3. Proves(a, blocks) <=> \E d \in Cids :
          /\ a.prev = Leaf(d) /\ a.path = PathTo(d)
          /\ Top(d) = a.proof.root /\ Leads(d)
          /\ {a, a.proof} \cup NodesTo(d) \subseteq blocks
    BY DEF Proves
  <1>4. {a, a.proof} \cup NodesTo(c) \subseteq blocks
    BY <1>1 DEF a
  <1>5. Proves(a, blocks)
    BY <1>1, <1>2, <1>3, <1>4
  <1> QED
    BY <1>5 DEF a

\* Each candidate of a batch of any size has an anchor commit of its own, in whatever
\* order it was loaded; the path written into it is no other's, can be read back and
\* leads from the root to the commit that was anchored, through blocks that are all in
\* the CAR.
THEOREM CommitsLead == Spec => []CommitsLeadToCandidates
  <1>1. IInv => CommitsLeadToCandidates
    <2> SUFFICES ASSUME IInv, step # "tree"
                 PROVE  /\ {a.prev : a \in AnchorCommits} = {Leaf(c) : c \in Elements(candidates)}
                        /\ \A a \in AnchorCommits : PathDecodes(a.path)
                        /\ \A a, b \in AnchorCommits : a.path = b.path => a = b
                        /\ step = "stored" => \A a \in AnchorCommits : Proves(a, car)
      BY DEF CommitsLeadToCandidates
    <2>1. \A c \in Cids : CommitOf(c, c, Len(route[c])).prev = Leaf(c)
      BY CommitFacts
    <2>2. {a.prev : a \in AnchorCommits} = {Leaf(c) : c \in Cids}
      BY <2>1, EachHasItsCommit
    <2>3. Cids = Elements(candidates)
      BY DEF IInv, BatchInv
    <2>4. ASSUME NEW c \in Cids
          PROVE  /\ PathDecodes(CommitOf(c, c, Len(route[c])).path)
                 /\ step = "stored" => Proves(CommitOf(c, c, Len(route[c])), car)
      <3>1. PathDecodes(CommitOf(c, c, Len(route[c])).path)
        BY CommitFacts, WayFacts
      <3>2. ASSUME step = "stored"
            PROVE  {CommitOf(c, c, Len(route[c])), Proof} \cup NodesTo(c) \subseteq car
        BY <3>2, EachHasItsCommit DEF IInv, CarInv, Nodes
      <3> QED
        BY <3>1, <3>2, CommitProven
    <2>5. ASSUME NEW a \in AnchorCommits, NEW b \in AnchorCommits, a.path = b.path
          PROVE  a = b
      <3>1. PICK c \in Cids : a = CommitOf(c, c, Len(route[c]))
        BY EachHasItsCommit
      <3>2. PICK d \in Cids : b = CommitOf(d, d, Len(route[d]))
        BY EachHasItsCommit
      <3>3. PathTo(c) = PathTo(d) /\ LinkAt(c, 0) = LinkAt(d, 0)
        BY <2>5, <3>1, <3>2, CommitFacts, WayFacts
      <3>4. c = d
        BY <3>3, PathsDiffer DEF IInv
      <3> QED
        BY <3>1, <3>2, <3>4
    <2>6. ASSUME NEW a \in AnchorCommits
          PROVE  PathDecodes(a.path) /\ (step = "stored" => Proves(a, car))
      BY <2>4, EachHasItsCommit
    <2> QED
      BY <2>2, <2>3, <2>5, <2>6
  <1> QED
    BY <1>1, InvHolds, PTL

\* However many blocks the Merkle CAR has lost, build throws or returns a witness that
\* proves the commit it was asked for and holds nothing else; and verify rejects no
\* witness to which nothing was done.
THEOREM BuiltVerifies == Spec => []BuiltWitnessVerifies
  <1>1. IInv => BuiltWitnessVerifies
    <2> SUFFICES ASSUME IInv
                 PROVE  BuiltWitnessVerifies
      OBVIOUS
    <2>1. ASSUME step = "built"
          PROVE  /\ Proves(commit, witness)
                 /\ \E c \in Cids :
                      commit.prev = Leaf(c) /\ witness = {commit, commit.proof} \cup NodesTo(c)
      <3>1. PICK c \in Cids : /\ commit = CommitOf(c, c, Len(route[c]))
                              /\ witness = {commit, Proof} \cup NodesTo(c)
        BY <2>1 DEF IInv, VerifyInv, Built
      <3>2. Proves(commit, witness)
        BY <2>1, <3>1, CommitProven
      <3>3. commit.prev = Leaf(c) /\ commit.proof = Proof
        BY <3>1, CommitFacts
      <3> QED
        BY <3>1, <3>2, <3>3
    <2>2. step = "invalid" => damaged
      BY DEF IInv, VerifyInv
    <2> QED
      BY <2>1, <2>2 DEF BuiltWitnessVerifies
  <1> QED
    BY <1>1, InvHolds, PTL

\* VerifiedIsProven: a witness that lost a block, or has another path in its commit,
\* proves that commit if verify accepts it.
THEOREM VerifiedProven == Spec => []VerifiedIsProven
  <1>1. IInv => VerifiedIsProven
    BY DEF IInv
  <1> QED
    BY <1>1, InvHolds, PTL
=============================================================================
