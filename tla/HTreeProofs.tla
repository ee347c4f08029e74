---------------------------- MODULE HTreeProofs -----------------------------
(***************************************************************************)
(* Proofs about HTree, for files of any number of blocks, and about        *)
(* FileLayout, for files of any size.                                      *)
(*                                                                         *)
(* The inductive invariant of HTree, IInv, says in which phase of an       *)
(* operation the file is, and what the disk then holds: a tree B with all  *)
(* its nodes, blocks and a head (Base), which is the one that would be     *)
(* opened (Chosen), and next to it, in the versions B does not use, what   *)
(* has been written of the tree in memory (Grown, Written).  Each action   *)
(* has a lemma ...Step: it leads from phase to phase, and what it does to  *)
(* the stored content is a step of AtomicFile, or nothing (Simulation).    *)
(***************************************************************************)
EXTENDS HTree, FileLayout, FiniteSetTheorems, SequenceTheorems, WellFoundedInduction, TLAPS

-----------------------------------------------------------------------------
(* Numbers *)

LEMMA LeastNumber ==
    ASSUME NEW S \in SUBSET Nat, S # {}
    PROVE  \E n \in S : \A m \in S : n <= m
  <1> DEFINE R == OpToRel(<, Nat)
  <1>1. IsWellFoundedOn(R, Nat)
    BY NatLessThanWellFounded
  <1> HIDE DEF R
  <1>2. PICK n \in S : \A m \in S : <<m, n>> \notin R
    BY <1>1, WFMin
  <1>3. ASSUME NEW m \in S PROVE n <= m
    <2>1. m < n => <<m, n>> \in R
      BY DEF R, OpToRel
    <2> QED
      BY <1>2, <2>1
  <1> QED
    BY <1>3

LEMMA MaxOfTwo == ASSUME NEW n \in Nat PROVE Max({1, n}) = IF n > 1 THEN n ELSE 1
  <1>1. PICK m : m = IF n > 1 THEN n ELSE 1
    OBVIOUS
  <1>2. m \in {1, n} /\ \A y \in {1, n} : m >= y
    BY <1>1
  <1>3. \A x \in {1, n} : (\A y \in {1, n} : x >= y) => x = m
    BY <1>1, <1>2
  <1> QED
    BY <1>1, <1>2, <1>3 DEF Max

LEMMA MinOfTwo ==
    ASSUME NEW a \in Int, NEW b \in Int PROVE Min({a, b}) = IF a <= b THEN a ELSE b
  <1>1. PICK m : m = IF a <= b THEN a ELSE b
    OBVIOUS
  <1>2. m \in {a, b} /\ \A y \in {a, b} : m <= y
    BY <1>1
  <1>3. \A x \in {a, b} : (\A y \in {a, b} : x <= y) => x = m
    BY <1>1, <1>2
  <1> QED
    BY <1>1, <1>2, <1>3 DEF Min

LEMMA Halves ==
    ASSUME NEW i \in Nat \ {0}
    PROVE  /\ i \div 2 \in Nat /\ i % 2 \in Vers /\ i = 2 * (i \div 2) + (i % 2)
           /\ i # 1 => i \div 2 >= 1 /\ i \div 2 < i
  <1>1. i \div 2 \in Int /\ i % 2 \in Int /\ i % 2 \in 0..1
    OBVIOUS
  <1>2. i = 2 * (i \div 2) + (i % 2)
    OBVIOUS
  <1>3. i % 2 \in Vers
    BY <1>1 DEF Vers
  <1> QED
    BY <1>1, <1>2, <1>3

\* Division with remainder by the size of a block
LEMMA UnitPlace ==
    ASSUME NEW x \in Nat
    PROVE  /\ x \div UPB \in Nat /\ x % UPB \in 0..(UPB - 1)
           /\ x = UPB * (x \div UPB) + (x % UPB)
  <1>1. UPB \in Nat \ {0}
    BY HTreeAssumption
  <1>2. x = UPB * (x \div UPB) + (x % UPB)
    BY <1>1
  <1>3. x % UPB \in 0..(UPB - 1)
    BY <1>1
  <1>4. x \div UPB \in Int
    BY <1>1
  <1>5. x \div UPB \in Nat
    BY <1>1
  <1> QED
    BY <1>2, <1>3, <1>5

LEMMA UnitOf ==
    ASSUME NEW b \in Nat, NEW u \in 0..(UPB - 1)
    PROVE  (UPB * b + u) \div UPB = b /\ (UPB * b + u) % UPB = u
  BY HTreeAssumption

-----------------------------------------------------------------------------
(* The tree of nodes: the parent of node i is node i \div 2. *)

LEMMA ParentIsNode ==
    ASSUME NEW i \in Nodes, i # 1 PROVE i \div 2 \in Nodes /\ i \div 2 < i
  BY Halves, HTreeAssumption DEF Nodes

LEMMA RootIsNode == 1 \in Nodes /\ Nodes \subseteq Nat \ {0}
  BY HTreeAssumption DEF Nodes

LEMMA ChildIsBelow ==
    ASSUME NEW i \in Nodes, NEW c \in Vers
    PROVE  /\ 2 * i + c \in Nat /\ 2 * i + c # 1 /\ (2 * i + c) \div 2 = i
           /\ (2 * i + c) % 2 = c
  <1>1. i \in Nat /\ i >= 1
    BY RootIsNode
  <1>2. CASE c = 0
    BY <1>1, <1>2
  <1>3. CASE c = 1
    BY <1>1, <1>3
  <1> QED
    BY <1>2, <1>3 DEF Vers

\* Induction from the root
LEMMA TreeInduction ==
    ASSUME NEW S, 1 \in S, \A i \in Nodes \ {1} : i \div 2 \in S => i \in S
    PROVE  Nodes \subseteq S
  <1> SUFFICES ASSUME NEW j \in Nodes, j \notin S PROVE FALSE
    OBVIOUS
  <1>1. PICK i \in Nodes \ S : \A m \in Nodes \ S : i <= m
    <2>1. (Nodes \ S) \in SUBSET Nat /\ Nodes \ S # {}
      BY RootIsNode
    <2> QED
      BY <2>1, LeastNumber
  <1>2. i # 1 /\ i \div 2 \in Nodes /\ i \div 2 < i
    BY <1>1, ParentIsNode
  <1>3. i \div 2 \notin S
    BY <1>1, <1>2
  <1>4. i \in Nat /\ i \div 2 \in Nat /\ i <= i \div 2
    BY <1>1, <1>2, <1>3, RootIsNode
  <1> QED
    BY <1>2, <1>4

\* Definition by recursion from the root: f[i] is G of i and of what f is at the
\* parent of i, and s at the root.
FromRoot(f, S, s, G) ==
    /\ f \in [Nodes -> S] /\ f[1] = s
    /\ \A i \in Nodes \ {1} : f[i] = G[<<i, f[i \div 2]>>]

LEMMA TreeRecursion ==
    ASSUME NEW S, NEW s \in S, NEW G \in [Nodes \X S -> S]
    PROVE  \E f : FromRoot(f, S, s, G)
  <1> DEFINE P(n) == \E f \in [1..n -> S] :
                        f[1] = s /\ \A i \in (1..n) \ {1} : f[i] = G[<<i, f[i \div 2]>>]
             Q == {n \in Nodes : ~P(n)}
  <1>1. P(1)
    <2>1. PICK f : f = [i \in 1..1 |-> s]
      OBVIOUS
    <2>2. f \in [1..1 -> S] /\ f[1] = s /\ (1..1) \ {1} = {}
      BY <2>1
    <2> QED
      BY <2>2
  <1>2. ASSUME NEW n \in Nodes, n # 1, P(n - 1) PROVE P(n)
    <2>1. PICK f \in [1..(n - 1) -> S] :
             f[1] = s /\ \A i \in (1..(n - 1)) \ {1} : f[i] = G[<<i, f[i \div 2]>>]
      BY <1>2
    <2>2. n \in Nat /\ n > 1 /\ n \div 2 \in 1..(n - 1)
      BY <1>2, RootIsNode, Halves
    <2>3. PICK x \in S : x = G[<<n, f[n \div 2]>>]
      BY <2>1, <2>2
    <2>4. PICK g : g = [i \in 1..n |-> IF i = n THEN x ELSE f[i]]
      OBVIOUS
    <2>5. \A i \in 1..n : i # n => i \in 1..(n - 1)
      BY <2>2
    <2>6. /\ g \in [1..n -> S] /\ g[n] = x
          /\ \A i \in 1..(n - 1) : g[i] = f[i]
      BY <2>1, <2>2, <2>3, <2>4, <2>5
    <2>7. ASSUME NEW i \in (1..n) \ {1} PROVE g[i] = G[<<i, g[i \div 2]>>]
      <3>1. i \in Nat /\ i \div 2 \in 1..(n - 1)
        BY <2>2, Halves
      <3>2. g[i \div 2] = f[i \div 2]
        BY <2>6, <3>1
      <3>3. CASE i = n
        BY <2>3, <2>6, <3>2, <3>3
      <3>4. CASE i # n
        BY <2>1, <2>5, <2>6, <3>2, <3>4
      <3> QED
        BY <3>3, <3>4
    <2>8. g[1] = s
      BY <2>1, <2>2, <2>6
    <2> QED
      BY <2>6, <2>7, <2>8
  <1>3. MaxBlocks \in Nodes
    BY HTreeAssumption DEF Nodes
  <1> HIDE DEF P
  <1>4. ASSUME Q # {} PROVE FALSE
    <2>1. Q \in SUBSET Nat
      BY RootIsNode
    <2>2. PICK n \in Q : \A m \in Q : n <= m
      BY <1>4, <2>1, LeastNumber
    <2>3. n \in Nodes /\ ~P(n)
      BY <2>2
    <2>4. n # 1
      BY <1>1, <2>3
    <2>5. n - 1 \in Nodes /\ ~(n <= n - 1)
      BY <2>3, <2>4, HTreeAssumption DEF Nodes
    <2>6. P(n - 1)
      BY <2>2, <2>5
    <2> QED
      BY <1>2, <2>3, <2>4, <2>6
  <1>5. P(MaxBlocks)
    BY <1>3, <1>4
  <1> QED
    BY <1>5 DEF P, Nodes, FromRoot

LEMMA AncestorsDef ==
    Ancestors = [i \in Nodes |-> IF i = 1 THEN {1} ELSE {i} \cup Ancestors[i \div 2]]
  <1>0. PICK S : S = SUBSET Nodes
    OBVIOUS
  <1>1. PICK G : G = [p \in Nodes \X S |-> {p[1]} \cup p[2]]
    OBVIOUS
  <1>2. /\ G \in [Nodes \X S -> S]
        /\ \A i \in Nodes, a \in S : G[<<i, a>>] = {i} \cup a
    BY <1>0, <1>1
  <1>3. {1} \in S
    BY <1>0, RootIsNode
  <1>4. PICK f : FromRoot(f, S, {1}, G)
    BY <1>2, <1>3, TreeRecursion
  <1>5. ASSUME NEW i \in Nodes, i # 1 PROVE f[i] = {i} \cup f[i \div 2]
    BY <1>2, <1>4, <1>5, ParentIsNode DEF FromRoot
  <1>6. f = [i \in Nodes |-> IF i = 1 THEN {1} ELSE {i} \cup f[i \div 2]]
    BY <1>4, <1>5 DEF FromRoot
  <1> QED
    BY <1>6, Zenon DEF Ancestors

LEMMA AncestorFacts ==
    ASSUME NEW j \in Nodes
    PROVE  /\ j \in Ancestors[j] /\ \A a \in Ancestors[j] : a \in Nodes /\ a <= j
           /\ j # 1 => Ancestors[j] = {j} \cup Ancestors[j \div 2]
           /\ j = 1 => Ancestors[j] = {1}
  <1>1. /\ \A i \in Nodes : i # 1 => Ancestors[i] = {i} \cup Ancestors[i \div 2]
        /\ Ancestors[1] = {1}
    BY AncestorsDef, RootIsNode
  <1>2. PICK S : S = {i \in Nodes : \A a \in Ancestors[i] : a \in Nodes /\ a <= i}
    OBVIOUS
  <1>3. 1 \in S
    BY <1>1, <1>2, RootIsNode
  <1>4. ASSUME NEW i \in Nodes \ {1}, i \div 2 \in S PROVE i \in S
    <2>1. i \div 2 \in Nodes /\ i \div 2 < i /\ i \in Nat /\ i \div 2 \in Nat
      BY ParentIsNode, RootIsNode
    <2>2. ASSUME NEW a \in Ancestors[i] PROVE a \in Nodes /\ a <= i
      <3>1. CASE a = i
        BY <2>1, <3>1
      <3>2. CASE a # i
        <4>1. a \in Ancestors[i \div 2]
          BY <1>1, <2>2, <3>2
        <4>2. a \in Nodes /\ a <= i \div 2
          BY <1>2, <1>4, <4>1
        <4>3. a \in Nat
          BY <4>2, RootIsNode
        <4> QED
          BY <2>1, <4>2, <4>3
      <3> QED
        BY <3>1, <3>2
    <2> QED
      BY <1>2, <2>2
  <1>5. Nodes \subseteq S
    BY <1>3, <1>4, TreeInduction
  <1> QED
    BY <1>1, <1>2, <1>5

LEMMA AncestorsBelow ==
    ASSUME NEW j \in Nodes, NEW i \in Ancestors[j]
    PROVE  Ancestors[i] \subseteq Ancestors[j]
  <1>1. PICK S : S = {n \in Nodes : \A m \in Ancestors[n] : Ancestors[m] \subseteq Ancestors[n]}
    OBVIOUS
  <1>2. 1 \in S
    BY <1>1, RootIsNode, AncestorFacts
  <1>3. ASSUME NEW n \in Nodes \ {1}, n \div 2 \in S PROVE n \in S
    <2>1. Ancestors[n] = {n} \cup Ancestors[n \div 2]
      BY AncestorFacts
    <2> QED
      BY <1>1, <1>3, <2>1
  <1>4. Nodes \subseteq S
    BY <1>2, <1>3, TreeInduction
  <1> QED
    BY <1>1, <1>4

\* Two children of one node are not both on the way to the root.
LEMMA OneChildOnPath ==
    ASSUME NEW j \in Nodes, NEW a \in Nodes, a % 2 = 0, a \in Ancestors[j]
    PROVE  a + 1 \notin Ancestors[j]
  <1>1. PICK S : S = {n \in Nodes : ~(a \in Ancestors[n] /\ a + 1 \in Ancestors[n])}
    OBVIOUS
  <1>2. a \in Nat /\ a >= 2
    BY RootIsNode
  <1>3. 1 \in S
    BY <1>1, <1>2, RootIsNode, AncestorFacts
  <1>4. ASSUME NEW n \in Nodes \ {1}, n \div 2 \in S PROVE n \in S
    <2>1. /\ Ancestors[n] = {n} \cup Ancestors[n \div 2] /\ n \div 2 \in Nodes
          /\ n \in Nat /\ n \div 2 \in Nat /\ n \div 2 < n
      BY AncestorFacts, ParentIsNode, RootIsNode
    <2>2. ~(a \in Ancestors[n \div 2] /\ a + 1 \in Ancestors[n \div 2])
      BY <1>1, <1>4
    <2>3. ASSUME a \in Ancestors[n], a + 1 \in Ancestors[n] PROVE FALSE
      <3>1. CASE a = n
        <4>1. a + 1 \in Ancestors[n \div 2]
          BY <1>2, <2>1, <2>3, <3>1
        <4>2. a + 1 <= n \div 2
          BY <2>1, <4>1, AncestorFacts
        <4> QED
          BY <1>2, <2>1, <3>1, <4>2
      <3>2. CASE a + 1 = n
        <4>1. a \in Ancestors[n \div 2]
          BY <1>2, <2>1, <2>3, <3>2
        <4>2. a <= n \div 2
          BY <2>1, <4>1, AncestorFacts
        <4>3. n = 2 * (n \div 2) + (n % 2) /\ n % 2 \in {0, 1}
          BY <2>1, Halves DEF Vers
        <4> QED
          BY <1>2, <2>1, <3>2, <4>2, <4>3
      <3>3. CASE a # n /\ a + 1 # n
        BY <2>1, <2>2, <2>3, <3>3
      <3> QED
        BY <3>1, <3>2, <3>3
    <2> QED
      BY <1>1, <2>3
  <1>5. Nodes \subseteq S
    BY <1>3, <1>4, TreeInduction
  <1> QED
    BY <1>1, <1>5

\* What is written after node i is not below it.
LEMMA PrecedesFacts ==
    ASSUME NEW i \in Nodes, NEW j \in Nodes, Precedes(i, j)
    PROVE  i \notin Ancestors[j]
  <1>1. i # j
    BY DEF Precedes
  <1>2. CASE j \in Ancestors[i]
    <2>1. j <= i /\ i \in Nat /\ j \in Nat
      BY <1>2, AncestorFacts, RootIsNode
    <2>2. i \in Ancestors[j] => i <= j
      BY AncestorFacts
    <2> QED
      BY <1>1, <2>1, <2>2
  <1>3. CASE \E a \in Ancestors[i] : a % 2 = 0 /\ a + 1 \in Ancestors[j]
    <2>1. PICK a \in Ancestors[i] : a % 2 = 0 /\ a + 1 \in Ancestors[j]
      BY <1>3
    <2>2. a \in Nodes
      BY AncestorFacts
    <2>3. i \in Ancestors[j] => a \in Ancestors[j]
      BY AncestorsBelow
    <2> QED
      BY <2>1, <2>2, <2>3, OneChildOnPath
  <1> QED
    BY <1>2, <1>3 DEF Precedes

-----------------------------------------------------------------------------
(* Nodes, trees and the disk *)

IsNode(n) ==
    /\ n = [blk |-> n.blk, child |-> n.child, tag |-> n.tag, hash |-> n.hash]
    /\ n.blk \in Vers /\ n.child \in [Vers -> Vers] /\ n.tag \in Tags \cup {NULL}

IsTree(h) ==
    /\ h = [counter |-> h.counter, max |-> h.max, len |-> h.len, node |-> h.node,
            dirty |-> h.dirty, updated |-> h.updated]
    /\ h.counter \in Nat /\ h.max \in 0..MaxBlocks /\ h.len \in 0..MaxLen
    /\ h.node = [i \in Nodes |-> h.node[i]]
    /\ \A i \in Nodes : IsNode(h.node[i])
    /\ \A i \in Nodes \ Present(h) : h.node[i] = BlankNode
    /\ h.dirty \subseteq Present(h) /\ h.updated \subseteq h.dirty

IsHead(h) ==
    h = [counter |-> h.counter, max |-> h.max, len |-> h.len, root |-> h.root]

\* What is on the disk has the types of the structures.
DiskOK ==
    /\ node = [i \in Nodes |-> [v \in Vers |-> node[i][v]]]
    /\ \A i \in Nodes, v \in Vers : \A n \in node[i][v] : IsNode(n)
    /\ block \in [Blocks -> [Vers -> SUBSET Tags]]
    /\ head = NoHeads \/ head = [v \in Vers |-> head[v]]

LEMMA PresentFacts ==
    ASSUME NEW h, h.max \in 0..MaxBlocks
    PROVE  /\ Present(h) = 1..(IF h.max > 1 THEN h.max ELSE 1)
           /\ Present(h) \subseteq Nodes /\ 1 \in Present(h)
           /\ \A i \in Present(h) : i # 1 => i \div 2 \in Present(h)
  <1>1. h.max \in Nat
    BY HTreeAssumption
  <1>2. PICK m \in Nat : m = IF h.max > 1 THEN h.max ELSE 1
    BY <1>1
  <1>3. Present(h) = 1..m /\ m >= 1 /\ m <= MaxBlocks
    BY <1>1, <1>2, MaxOfTwo, HTreeAssumption DEF Present
  <1>4. Present(h) \subseteq Nodes /\ 1 \in Present(h)
    BY <1>3, HTreeAssumption DEF Nodes
  <1>5. ASSUME NEW i \in Present(h), i # 1 PROVE i \div 2 \in Present(h)
    BY <1>3, <1>5, Halves
  <1> QED
    BY <1>2, <1>3, <1>4, <1>5

LEMMA BlankFacts ==
    /\ IsNode(BlankNode) /\ BlankNode.tag = NULL /\ BlankNode.blk = 0
    /\ \A c \in Vers : BlankNode.child[c] = 0
    /\ ZeroHead.counter = 0
    /\ BlankNode.child \in [Vers -> Vers]
  BY DEF BlankNode, IsNode, ZeroHead, Vers

LEMMA HeadsThere == [v \in Vers |-> head[v]] # NoHeads
  <1>1. DOMAIN [v \in Vers |-> head[v]] = Vers /\ DOMAIN NoHeads = {}
    BY DEF NoHeads
  <1>2. Vers # {}
    BY DEF Vers
  <1> QED
    BY <1>1, <1>2

LEMMA SmallFacts ==
    /\ MaxBlocks \in Nat \ {0} /\ UPB \in Nat \ {0} /\ MaxTx \in Nat /\ MaxLen \in Nat
    /\ Vers = {0, 1} /\ \A v \in Vers : 1 - v \in Vers /\ 1 - v # v
    /\ \A c \in Nat : /\ c % 2 \in Vers /\ 1 - (c % 2) \in Vers
                      /\ (c + 1) % 2 = 1 - (c % 2)
  BY HTreeAssumption DEF Vers, MaxLen

LEMMA Slots ==
    ASSUME NEW c \in Nat
    PROVE  /\ c % 2 \in Vers /\ (c + 1) % 2 = 1 - (c % 2) /\ 1 - ((c + 1) % 2) = c % 2
           /\ (c + 1) % 2 \in Vers /\ (c + 1) % 2 # c % 2
  <1>1. PICK v \in Vers : v = c % 2
    BY SmallFacts
  <1>2. (c + 1) % 2 = 1 - v
    BY <1>1, SmallFacts
  <1> QED
    BY <1>1, <1>2, SmallFacts DEF Vers

\* The blocks that the first n units take up
LEMMA CeilFacts ==
    ASSUME NEW n \in Nat
    PROVE  /\ CeilBlocks(n) \in Nat
           /\ \A b \in Nat : b < CeilBlocks(n) <=> b * UPB < n
  <1>1. UPB \in Nat \ {0}
    BY HTreeAssumption
  <1>2. PICK m \in Nat : m = n + UPB - 1
    BY <1>1
  <1>3. PICK q, r : q = m \div UPB /\ r = m % UPB
    OBVIOUS
  <1>4. q \in Nat /\ r \in 0..(UPB - 1) /\ m = UPB * q + r /\ CeilBlocks(n) = q
    BY <1>2, <1>3, UnitPlace DEF CeilBlocks
  <1>5. ASSUME NEW b \in Nat, b < q PROVE b * UPB < n
    <2>1. PICK k \in Nat : q = b + 1 + k
      <3>1. q - (b + 1) \in Nat /\ q = b + 1 + (q - (b + 1))
        BY <1>4, <1>5
      <3> QED
        BY <3>1
    <2>2. UPB * q = b * UPB + UPB + UPB * k /\ UPB * k >= 0
      BY <1>1, <2>1
    <2>3. b * UPB \in Nat /\ UPB * k \in Nat
      BY <1>1, <2>1
    <2> QED
      BY <1>1, <1>2, <1>4, <2>2, <2>3
  <1>6. ASSUME NEW b \in Nat, b * UPB < n PROVE b < q
    <2>1. CASE b >= q
      <3>1. PICK k \in Nat : b = q + k
        <4>1. b - q \in Nat /\ b = q + (b - q)
          BY <1>4, <2>1
        <4> QED
          BY <4>1
      <3>2. b * UPB = UPB * q + UPB * k /\ UPB * k >= 0
        BY <1>1, <1>4, <3>1
      <3>3. b * UPB \in Nat /\ UPB * k \in Nat /\ UPB * q \in Nat
        BY <1>1, <1>4, <3>1
      <3> QED
        BY <1>1, <1>2, <1>4, <1>6, <3>2, <3>3
    <2> QED
      BY <1>4, <2>1
  <1> QED
    BY <1>4, <1>5, <1>6

LEMMA PlacesDef ==
    ASSUME DiskOK, NEW v \in Vers
    PROVE  Places(v) = [i \in Nodes |->
                IF i = 1 THEN node[1][v]
                ELSE UNION {node[i][p.child[i % 2]] : p \in Places(v)[i \div 2]}]
  <1>1. PICK M : M = UNION {node[q[1]][q[2]] : q \in Nodes \X Vers}
    OBVIOUS
  <1>2. /\ \A i \in Nodes, w \in Vers : node[i][w] \subseteq M
        /\ \A p \in M : IsNode(p)
    <2>1. ASSUME NEW i \in Nodes, NEW w \in Vers PROVE node[i][w] \subseteq M
      <3>1. PICK q : q = <<i, w>>
        OBVIOUS
      <3>2. q \in Nodes \X Vers /\ q[1] = i /\ q[2] = w
        BY <3>1
      <3> QED
        BY <1>1, <3>2
    <2>2. ASSUME NEW p \in M PROVE IsNode(p)
      <3>1. PICK q \in Nodes \X Vers : p \in node[q[1]][q[2]]
        BY <1>1, <2>2
      <3>2. q[1] \in Nodes /\ q[2] \in Vers
        BY <3>1
      <3> QED
        BY <3>1, <3>2 DEF DiskOK
    <2> QED
      BY <2>1, <2>2
  <1>3. PICK S : S = SUBSET M
    OBVIOUS
  <1>4. PICK G : G = [q \in Nodes \X S |-> UNION {node[q[1]][p.child[q[1] % 2]] : p \in q[2]}]
    OBVIOUS
  <1>5. ASSUME NEW i \in Nodes, NEW a \in S
        PROVE  /\ G[<<i, a>>] = UNION {node[i][p.child[i % 2]] : p \in a}
               /\ G[<<i, a>>] \in S
    <2>1. G[<<i, a>>] = UNION {node[i][p.child[i % 2]] : p \in a}
      BY <1>4
    <2>2. ASSUME NEW p \in a PROVE node[i][p.child[i % 2]] \subseteq M
      <3>1. IsNode(p) /\ i % 2 \in Vers
        BY <1>2, <1>3, Halves, RootIsNode
      <3>2. p.child[i % 2] \in Vers
        BY <3>1 DEF IsNode
      <3> QED
        BY <1>2, <3>2
    <2>3. UNION {node[i][p.child[i % 2]] : p \in a} \subseteq M
      BY <2>2
    <2> QED
      BY <1>3, <2>1, <2>3
  <1>6. G \in [Nodes \X S -> S]
    <2>1. ASSUME NEW q \in Nodes \X S PROVE G[q] \in S
      <3>1. PICK i, a : i = q[1] /\ a = q[2]
        OBVIOUS
      <3>2. i \in Nodes /\ a \in S /\ q = <<i, a>>
        BY <2>1, <3>1
      <3> QED
        BY <1>5, <3>2
    <2>2. PICK D : D = Nodes \X S
      OBVIOUS
    <2>3. G = [q \in D |-> G[q]]
      BY <1>4, <2>2
    <2>4. \A q \in D : G[q] \in S
      BY <2>1, <2>2
    <2>5. G \in [D -> S]
      BY <2>3, <2>4
    <2> QED
      BY <2>2, <2>5
  <1>7. node[1][v] \in S
    BY <1>2, <1>3, RootIsNode
  <1>8. PICK f : FromRoot(f, S, node[1][v], G)
    BY <1>6, <1>7, TreeRecursion
  <1>9. ASSUME NEW i \in Nodes, i # 1
        PROVE  f[i] = UNION {node[i][p.child[i % 2]] : p \in f[i \div 2]}
    <2>1. f[i \div 2] \in S /\ f[i] = G[<<i, f[i \div 2]>>]
      BY <1>8, <1>9, ParentIsNode DEF FromRoot
    <2> QED
      BY <1>5, <2>1
  <1>10. f = [i \in Nodes |->
                IF i = 1 THEN node[1][v]
                ELSE UNION {node[i][p.child[i % 2]] : p \in f[i \div 2]}]
    <2>1. f = [i \in Nodes |-> f[i]] /\ f[1] = node[1][v]
      BY <1>8 DEF FromRoot
    <2> QED
      BY <1>9, <2>1
  <1> QED
    BY <1>10, Zenon DEF Places

-----------------------------------------------------------------------------
(* What is stored *)

HeadOf(h) == [counter |-> h.counter, max |-> h.max, len |-> h.len,
              root |-> h.node[1].hash]

\* All of tree B is on the disk, where the flags of its nodes say, with the data
\* of its blocks and a head; no update is in it that was not made yet.
Base(B) ==
    /\ IsTree(B) /\ B.dirty = {} /\ B.counter >= 1 /\ verify_tree(B)
    /\ node[1][B.counter % 2] = {B.node[1]}
    /\ \A i \in Present(B) : i # 1 => node[i][B.node[i \div 2].child[i % 2]] = {B.node[i]}
    /\ head # NoHeads /\ head[B.counter % 2] = HeadOf(B)
    /\ AllReads(B)
    /\ \A i \in Nodes : B.node[i].tag # NULL => B.node[i].tag.tx <= tx

\* B is the tree that is opened, not the one of the other version of the root.
Chosen(B) ==
    \/ /\ Anchor = "hash" /\ anchor = {B.node[1].hash}
       /\ RootHash(1 - (B.counter % 2)) # anchor
    \/ /\ Anchor = "counter" /\ anchor \in Nat /\ anchor <= B.counter
       /\ LET c == head[1 - (B.counter % 2)].counter
          IN  c \in Nat /\ c < B.counter /\ c % 2 = 1 - (B.counter % 2)

Stored(B) == Base(B) /\ Chosen(B)

\* There is no file: it was never created, or its creation was not completed.
ZeroHeads == [v \in Vers |-> ZeroHead]
NoFile ==
    \/ Anchor = "hash" /\ anchor = {}
    \/ Anchor = "counter" /\ anchor = 0 /\ head \in {NoHeads, ZeroHeads}

LEMMA TreeFacts ==
    ASSUME NEW h, IsTree(h)
    PROVE  /\ h.max \in 0..MaxBlocks /\ h.max \in Nat /\ h.len \in Nat /\ h.len <= MaxLen
           /\ Present(h) = 1..(IF h.max > 1 THEN h.max ELSE 1)
           /\ Present(h) \subseteq Nodes /\ 1 \in Present(h) /\ h.counter \in Nat
           /\ \A i \in Present(h) : i # 1 => i \div 2 \in Present(h)
           /\ \A i \in Nodes : /\ IsNode(h.node[i]) /\ h.node[i].blk \in Vers
                               /\ \A c \in Vers : h.node[i].child[c] \in Vers
                               /\ h.node[i].tag \in Tags \cup {NULL}
           /\ h.updated \subseteq h.dirty /\ h.dirty \subseteq Present(h)
  <1>1. h.max \in 0..MaxBlocks /\ h.len \in 0..MaxLen
    BY DEF IsTree
  <1>2. h.max \in Nat /\ h.len \in Nat /\ h.len <= MaxLen
    BY <1>1, SmallFacts
  <1> QED
    BY <1>1, <1>2, PresentFacts DEF IsTree, IsNode

LEMMA StoredPlaces ==
    ASSUME DiskOK, NEW B, Base(B), NEW i \in Present(B)
    PROVE  Places(B.counter % 2)[i] = {B.node[i]}
  <1>1. PICK v, at : v = B.counter % 2 /\ at = Places(v)
    OBVIOUS
  <1>2. IsTree(B) /\ v \in Vers /\ B.counter \in Nat
    BY <1>1, TreeFacts, SmallFacts DEF Base
  <1>3. at = [j \in Nodes |-> IF j = 1 THEN node[1][v]
                              ELSE UNION {node[j][p.child[j % 2]] : p \in at[j \div 2]}]
    BY <1>1, <1>2, PlacesDef
  <1>4. PICK S : S = {j \in Nodes : j \in Present(B) => at[j] = {B.node[j]}}
    OBVIOUS
  <1>5. 1 \in S
    BY <1>1, <1>3, <1>4, RootIsNode DEF Base
  <1>6. ASSUME NEW j \in Nodes \ {1}, j \div 2 \in S PROVE j \in S
    <2>1. ASSUME j \in Present(B) PROVE at[j] = {B.node[j]}
      <3>1. j \div 2 \in Present(B)
        BY <1>2, <2>1, TreeFacts
      <3>2. at[j \div 2] = {B.node[j \div 2]}
        BY <1>4, <1>6, <3>1
      <3>3. at[j] = UNION {node[j][p.child[j % 2]] : p \in {B.node[j \div 2]}}
        BY <1>3, <3>2
      <3>4. at[j] = node[j][B.node[j \div 2].child[j % 2]]
        BY <3>3
      <3> QED
        BY <2>1, <3>4 DEF Base
    <2> QED
      BY <1>4, <2>1
  <1>7. Nodes \subseteq S
    BY <1>5, <1>6, TreeInduction
  <1>8. i \in Nodes
    BY <1>2, TreeFacts
  <1> QED
    BY <1>1, <1>4, <1>7, <1>8

\* A block that can be read is one of the file's, and has been written.
LEMMA ReadsFacts ==
    ASSUME DiskOK, NEW h, IsTree(h), NEW b \in Nat, BlockReads(h, b)
    PROVE  /\ b \in Blocks /\ b + 1 \in Present(h) /\ b + 1 \in Nodes
           /\ h.node[b + 1].tag \in Tags
           /\ block[b][h.node[b + 1].blk] = {h.node[b + 1].tag}
  <1>1. b + 1 \in Present(h) /\ block[b][h.node[b + 1].blk] = {h.node[b + 1].tag}
    BY DEF BlockReads, BLOCK_NUM_TO_NODE_ID
  <1>2. b + 1 \in Nodes
    BY <1>1, TreeFacts
  <1>3. b \in Blocks
    BY <1>2, SmallFacts DEF Nodes, Blocks
  <1>4. h.node[b + 1].blk \in Vers
    BY <1>2, TreeFacts
  <1>5. block[b][h.node[b + 1].blk] \in SUBSET Tags
    BY <1>3, <1>4 DEF DiskOK
  <1> QED
    BY <1>1, <1>2, <1>3, <1>5

LEMMA TagFacts ==
    ASSUME NEW t \in Tags
    PROVE  /\ t.tx \in 1..MaxTx /\ t.data \in [0..(UPB - 1) -> 0..MaxTx]
           /\ t = [tx |-> t.tx, data |-> t.data] /\ t # NULL
  BY NullAssumption DEF Tags

\* The unit at position x, counted from 0
Unit(h, x) == h.node[(x \div UPB) + 1].tag.data[x % UPB]

LEMMA ContentFacts ==
    ASSUME DiskOK, NEW h, IsTree(h), AllReads(h)
    PROVE  /\ Content(h) \in Contents /\ Content(h) = [i \in 1..h.len |-> Unit(h, i - 1)]
           /\ \A x \in 0..(h.len - 1) : Unit(h, x) \in 0..MaxTx
  <1>1. h.len \in Nat /\ h.len \in 0..MaxLen /\ UPB \in Nat \ {0}
    BY TreeFacts, SmallFacts DEF IsTree
  <1>2. ASSUME NEW x \in 0..(h.len - 1) PROVE Unit(h, x) \in 0..MaxTx
    <2>1. PICK b, u : b = x \div UPB /\ u = x % UPB
      OBVIOUS
    <2>2. x \in Nat /\ b \in Nat /\ u \in 0..(UPB - 1) /\ x = UPB * b + u
      BY <1>1, <2>1, UnitPlace
    <2>3. b * UPB < h.len
      BY <1>1, <2>2
    <2>4. b \in 0..(CeilBlocks(h.len) - 1)
      BY <1>1, <2>2, <2>3, CeilFacts
    <2>5. h.node[b + 1].tag \in Tags
      BY <2>2, <2>4, ReadsFacts DEF AllReads
    <2>6. h.node[b + 1].tag.data[u] \in 0..MaxTx
      BY <2>2, <2>5, TagFacts
    <2> QED
      BY <2>1, <2>6 DEF Unit
  <1>3. Content(h) = [i \in 1..h.len |-> Unit(h, i - 1)]
    BY <1>1 DEF Content, Unit, BLOCK_NUM_TO_NODE_ID
  <1>4. \A i \in 1..h.len : i - 1 \in 0..(h.len - 1)
    BY <1>1
  <1>5. Content(h) \in [1..h.len -> 0..MaxTx]
    BY <1>2, <1>3, <1>4
  <1> QED
    BY <1>1, <1>2, <1>3, <1>5 DEF Contents

LEMMA StoredHead ==
    ASSUME NEW B, Stored(B), Anchor \in {"hash", "counter"}
    PROVE  init_head_from_data = {B.counter % 2}
  <1>1. PICK v : v = B.counter % 2
    OBVIOUS
  <1>2. /\ B.counter \in Nat /\ v \in {0, 1} /\ v \in Int /\ node[1][v] = {B.node[1]}
        /\ head # NoHeads /\ head[v] = HeadOf(B)
    BY <1>1, TreeFacts, SmallFacts DEF Stored, Base
  <1>3. RootHash(v) = {B.node[1].hash}
    BY <1>2 DEF RootHash
  <1>4. CASE Anchor = "hash"
    <2>1. /\ anchor = {B.node[1].hash} /\ RootHash(1 - v) # anchor /\ anchor # {}
          /\ RootHash(v) = anchor
      BY <1>1, <1>3, <1>4 DEF Stored, Chosen
    <2>2. CASE v = 0
      BY <1>1, <1>4, <2>1, <2>2 DEF init_head_from_data, Vers
    <2>3. CASE v = 1
      <3>1. RootHash(0) # anchor
        BY <2>1, <2>3
      <3> QED
        BY <1>1, <1>4, <2>1, <2>3, <3>1 DEF init_head_from_data, Vers
    <2> QED
      BY <1>2, <2>2, <2>3
  <1>5. CASE Anchor = "counter"
    <2>1. PICK c : c = head[1 - v].counter
      OBVIOUS
    <2>2. /\ anchor \in Nat /\ anchor <= B.counter /\ c \in Nat /\ c < B.counter
          /\ c % 2 = 1 - v /\ head[v].counter = B.counter
      BY <1>1, <1>2, <1>5, <2>1 DEF Stored, Chosen, HeadOf
    <2>3. get_idx_from_counter(head[0].counter, head[1].counter) = v
      <3>1. CASE v = 0
        <4>1. head[0].counter = B.counter /\ head[1].counter = c
          BY <2>1, <2>2, <3>1
        <4>2. B.counter % 2 = 0 /\ c % 2 = 1 /\ B.counter > c
          BY <1>1, <1>2, <2>2, <3>1
        <4> QED
          BY <3>1, <4>1, <4>2 DEF get_idx_from_counter
      <3>2. CASE v = 1
        <4>1. head[1].counter = B.counter /\ head[0].counter = c
          BY <2>1, <2>2, <3>2
        <4>2. B.counter % 2 = 1 /\ c % 2 = 0 /\ ~(c > B.counter)
          BY <1>1, <1>2, <2>2, <3>2
        <4> QED
          BY <3>2, <4>1, <4>2 DEF get_idx_from_counter
      <3> QED
        BY <1>2, <3>1, <3>2
    <2>4. v >= 0 /\ head[v].counter >= anchor
      BY <1>2, <2>2
    <2>5. init_head_from_data = {w \in {v} : w >= 0 /\ head[w].counter >= anchor}
      BY <1>2, <1>5, <2>3 DEF init_head_from_data
    <2> QED
      BY <1>1, <2>4, <2>5
  <1> QED
    BY <1>4, <1>5

LEMMA StoredTree ==
    ASSUME DiskOK, NEW B, Base(B)
    PROVE  init_tree_from_data(B.counter % 2) = {B}
  <1>1. PICK v, at : v = B.counter % 2 /\ at = Places(v)
    OBVIOUS
  <1>2. IsTree(B) /\ head[v] = HeadOf(B) /\ B.dirty = {} /\ B.updated = {}
    BY <1>1 DEF Base, IsTree
  <1>3. /\ head[v].counter = B.counter /\ head[v].max = B.max /\ head[v].len = B.len
        /\ Present(head[v]) = Present(B)
    BY <1>2 DEF HeadOf, Present
  <1>4. \A i \in Present(B) : at[i] = {B.node[i]}
    BY <1>1, StoredPlaces
  <1>5. PICK T : T = [counter |-> B.counter, max |-> B.max, len |-> B.len,
          node |-> [i \in Nodes |-> IF i \in Present(B)
                                    THEN CHOOSE n \in at[i] : TRUE ELSE BlankNode],
          dirty |-> {}, updated |-> {}]
    OBVIOUS
  <1>6. T = B
    <2>1. ASSUME NEW i \in Nodes
          PROVE  (IF i \in Present(B) THEN CHOOSE n \in at[i] : TRUE ELSE BlankNode) = B.node[i]
      <3>1. CASE i \in Present(B)
        <4>1. at[i] = {B.node[i]}
          BY <1>4, <3>1
        <4>2. (CHOOSE n \in at[i] : TRUE) = B.node[i]
          BY <4>1
        <4> QED
          BY <3>1, <4>2
      <3>2. CASE i \notin Present(B)
        BY <1>2, <3>2 DEF IsTree
      <3> QED
        BY <3>1, <3>2
    <2>2. [i \in Nodes |-> IF i \in Present(B)
                           THEN CHOOSE n \in at[i] : TRUE ELSE BlankNode]
             = [i \in Nodes |-> B.node[i]]
      BY <2>1
    <2>3. B.node = [i \in Nodes |-> B.node[i]]
      BY <1>2 DEF IsTree
    <2>4. B = [counter |-> B.counter, max |-> B.max, len |-> B.len, node |-> B.node,
               dirty |-> {}, updated |-> {}]
      BY <1>2 DEF IsTree
    <2> QED
      BY <1>5, <2>2, <2>3, <2>4
  <1>7. {p \in {at} : \A i \in Present(B) : p[i] # {}} = {at}
    BY <1>4
  <1>8. init_tree_from_data(v) =
          {[counter |-> B.counter, max |-> B.max, len |-> B.len,
            node |-> [i \in Nodes |-> IF i \in Present(B)
                                      THEN CHOOSE n \in p[i] : TRUE ELSE BlankNode],
            dirty |-> {}, updated |-> {}] : p \in {at}}
    BY <1>1, <1>3, <1>7 DEF init_tree_from_data
  <1>9. init_tree_from_data(v) = {T}
    BY <1>5, <1>8
  <1> QED
    BY <1>1, <1>6, <1>9

LEMMA StoredOpens ==
    ASSUME DiskOK, NEW B, Stored(B), Anchor \in {"hash", "counter"}
    PROVE  OpenTree = {B} /\ ~Uncreated /\ Committed = Content(B) /\ Content(B) \in Contents
  <1>1. PICK v : v = B.counter % 2
    OBVIOUS
  <1>2. init_head_from_data = {v} /\ init_tree_from_data(v) = {B}
    BY <1>1, StoredHead, StoredTree DEF Stored
  <1>3. /\ head # NoHeads /\ head[v] = HeadOf(B) /\ node[1][v] = {B.node[1]}
        /\ verify_tree(B) /\ AllReads(B) /\ IsTree(B) /\ B.counter >= 1
    BY <1>1 DEF Stored, Base
  <1>4. RootHash(v) = {B.node[1].hash} /\ head[v].root = B.node[1].hash
    BY <1>3 DEF RootHash, HeadOf
  <1>5. verify_root(v)
    BY <1>3, <1>4 DEF verify_root
  <1>6. {w \in init_head_from_data : verify_root(w)} = {v}
    BY <1>2, <1>5
  <1>7. UNION {init_tree_from_data(w) : w \in {w \in init_head_from_data : verify_root(w)}} = {B}
    BY <1>2, <1>6
  <1>8. OpenTree = {B}
    BY <1>3, <1>7 DEF OpenTree
  <1>9. ~Uncreated
    <2>1. head[v] # ZeroHead
      <3>1. head[v].counter = B.counter /\ B.counter \in Nat
        BY <1>3, TreeFacts DEF HeadOf
      <3>2. ZeroHead.counter = 0
        BY DEF ZeroHead
      <3> QED
        BY <1>3, <3>1, <3>2
    <2> QED
      BY <1>2, <1>3, <2>1 DEF Uncreated, ht_head_is_partially_done
  <1>10. ~(Anchor = "hash" /\ anchor = {})
    BY DEF Stored, Chosen
  <1>11. Content(B) \in Contents
    BY <1>3, ContentFacts
  <1>12. PICK good : good = {Content(h) : h \in {t \in OpenTree : AllReads(t)}}
    OBVIOUS
  <1>13. good = {Content(B)}
    BY <1>3, <1>8, <1>12
  <1>14. Content(B) # Corrupt
    BY <1>11, NullAssumption
  <1>15. Committed = CHOOSE f \in good \cup {Corrupt} : f = Corrupt => good = {}
    BY <1>9, <1>10, <1>12 DEF Committed
  <1>16. /\ Content(B) \in good \cup {Corrupt}
         /\ \A f \in good \cup {Corrupt} : (f = Corrupt => good = {}) <=> f = Content(B)
    BY <1>13, <1>14
  <1>17. Committed = Content(B)
    BY <1>15, <1>16
  <1> QED
    BY <1>8, <1>9, <1>11, <1>17

NothingStored == IF Anchor = "hash" THEN NULL ELSE <<>>

LEMMA NoFileOpens ==
    ASSUME NoFile
    PROVE  /\ Committed = NothingStored /\ (Anchor = "counter" => Uncreated)
           /\ Anchor = "hash" => OpenTree = {}
  <1>1. CASE Anchor = "hash" /\ anchor = {}
    <2>1. ~Uncreated
      BY <1>1 DEF Uncreated
    <2>2. Committed = NULL
      BY <1>1, <2>1 DEF Committed
    <2>3. init_head_from_data = {}
      BY <1>1 DEF init_head_from_data
    <2>4. OpenTree = {}
      BY <2>3 DEF OpenTree
    <2> QED
      BY <1>1, <2>2, <2>4 DEF NothingStored
  <1>2. CASE Anchor = "counter" /\ anchor = 0 /\ head \in {NoHeads, ZeroHeads}
    <2>1. Uncreated
      <3>1. CASE head = NoHeads
        BY <1>2, <3>1 DEF Uncreated
      <3>2. CASE head # NoHeads
        <4>1. head[0] = ZeroHead /\ head[1] = ZeroHead
          BY <1>2, <3>2 DEF ZeroHeads, Vers
        <4>2. head[0].counter = 0 /\ head[1].counter = 0
          BY <4>1 DEF ZeroHead
        <4>3. get_idx_from_counter(head[0].counter, head[1].counter) = 0
          BY <4>2 DEF get_idx_from_counter
        <4>4. init_head_from_data = {w \in {0} : w >= 0 /\ head[w].counter >= 0}
          BY <1>2, <3>2, <4>3 DEF init_head_from_data
        <4>5. 0 \in init_head_from_data
          BY <4>2, <4>4
        <4> QED
          BY <1>2, <4>1, <4>5 DEF Uncreated, ht_head_is_partially_done
      <3> QED
        BY <3>1, <3>2
    <2> QED
      BY <1>2, <2>1 DEF Committed, NothingStored
  <1> QED
    BY <1>1, <1>2 DEF NoFile

-----------------------------------------------------------------------------
(* The phases of an operation.  Every state belongs to one, and each says what   *)
(* the disk holds: the stored tree B, out of reach of what is being written.    *)

\* A file that reads as f is stored.
Shows(f) ==
    \/ NoFile /\ f = NothingStored
    \/ \E B : Stored(B) /\ f = Content(B)

\* B is stored; while an object is created, the dirfile does not know of it yet.
NotLinked == Anchor = "hash" /\ anchor = {}
Backed(B) == Base(B) /\ (Chosen(B) \/ NotLinked)

\* The tree of a new file
NewTree(d) ==
    [BlankTree EXCEPT !.node[1].hash = calc_node_hash(BlankTree, 1), !.dirty = d]

\* The tree in memory is B with changes.  The nodes in Y were written in this
\* sync, to the version that B does not use, and the dirty ones are to follow:
\* none of them is below a node that was written.
Grown(B, Y, h) ==
    /\ IsTree(h) /\ h.counter = B.counter /\ B.len <= h.len
    /\ Present(B) \subseteq Present(h) /\ Y \subseteq Present(h)
    /\ \A i \in Present(h) \ (h.dirty \cup Y) : i \in Present(B) /\ h.node[i] = B.node[i]
    /\ \A i \in Nodes \ {1} :
          h.node[i \div 2].child[i % 2] = IF i \in Y THEN 1 - B.node[i \div 2].child[i % 2]
                                          ELSE B.node[i \div 2].child[i % 2]
    /\ \A i \in Y \ {1} : i \div 2 \in h.dirty \cup Y
    /\ \A i \in Y : h.node[i].hash = calc_node_hash(h, i)
    /\ \A j \in h.dirty : Ancestors[j] \cap Y = {}
    /\ 1 \in Y => h.node[1].hash # B.node[1].hash
    /\ 1 \in h.dirty => \/ 1 \in h.updated \/ h.len > B.len
                        \/ \E j \in Y \ {1} : j \div 2 = 1
    /\ \A i \in Nodes \ Y :
          IF i \in h.updated
          THEN h.node[i].blk = 1 - B.node[i].blk /\ h.node[i].tag # B.node[i].tag
          ELSE h.node[i].blk = B.node[i].blk
Written(B, Y, h) ==
    \A i \in Y : node[i][IF i = 1 THEN 1 - (B.counter % 2)
                         ELSE h.node[i \div 2].child[i % 2]] = {h.node[i]}
TagsSoFar(h) == \A i \in Nodes : h.node[i].tag # NULL => h.node[i].tag.tx <= tx
TagsBefore(h) == \A i \in Nodes : h.node[i].tag # NULL => h.node[i].tag.tx < tx

\* The ranges that are left to write make the content of h the pending one.
Larger(a, b) == IF a > b THEN a ELSE b
IsRange(r) ==
    /\ r = [pos |-> r.pos, end |-> r.end, val |-> r.val]
    /\ r.pos \in Nat /\ r.end \in Nat /\ r.pos < r.end /\ r.end <= MaxLen
    /\ r.val \in 0..MaxTx
Reading(h, n) == \A b \in 0..(CeilBlocks(n) - 1) : BlockReads(h, b)
After(h, r, s) ==
    [y \in 1..Larger(h.len, s.end) |->
        IF y - 1 >= r.pos /\ y - 1 < r.end THEN r.val
        ELSE IF y - 1 >= r.end /\ y - 1 < s.end THEN s.val
        ELSE Unit(h, y - 1)]
Filling(h, r, s) ==
    /\ IsRange(r) /\ IsRange(s)
    /\ \/ todo = <<r>> /\ r = s
       \/ todo = <<r, s>> /\ s.pos = r.end
    /\ r.pos > h.len => r.pos % UPB = 0
    /\ Reading(h, Larger(h.len, r.pos))
    /\ pending = After(h, r, s)

Closed ==
    /\ ht = NULL /\ pending = NULL /\ todo = <<>> /\ pc \in {"idle", "remove"}
    /\ NoFile \/ \E B : Stored(B)
    /\ pc = "remove" => \/ NoFile
                        \/ /\ Anchor = "counter" /\ anchor = 0
                           /\ \E B : Stored(B) /\ B.len = 0
Fresh ==
    /\ pc = "sync" /\ NoFile /\ pending = <<>> /\ todo = <<>>
    /\ head \in {NoHeads, ZeroHeads}
    /\ \/ ht = NewTree({1})
       \/ ht = NewTree({}) /\ node[1][1] = {ht.node[1]} /\ head = ZeroHeads
Dummy(h) ==
    /\ pc = "dummy" /\ ht = h /\ pending = <<>> /\ todo = <<>> /\ h.counter = 1 /\ h.len = 0
    /\ Base(h) /\ head[0] = ZeroHead
    /\ NotLinked \/ (Anchor = "counter" /\ anchor = 0)
Idle(h) ==
    /\ pc = "idle" /\ ht = h /\ pending = Content(h) /\ todo = <<>>
    /\ Stored(h)
Filled(B, Y, h) ==
    /\ \/ pc = "wrote" /\ Y = {}
       \/ pc = "sync" /\ Y # {}
    /\ todo = <<>> /\ AllReads(h) /\ pending = Content(h)
Writing(B, h) ==
    pc = "block" /\ tx >= 1 /\ TagsBefore(B) /\ \E r, s : Filling(h, r, s)
Working(B, Y, h) ==
    /\ ht = h /\ Backed(B) /\ Grown(B, Y, h) /\ Written(B, Y, h) /\ TagsSoFar(h)
    /\ \/ Y = {} /\ Writing(B, h)
       \/ Filled(B, Y, h)
Committing(B, h) ==
    /\ pc = "commit" /\ ht = h /\ pending = Content(h) /\ todo = <<>> /\ Base(h)
    /\ \/ Anchor = "counter" /\ Chosen(h)
       \/ /\ Anchor = "hash" /\ Backed(B) /\ h.counter = B.counter + 1
          /\ h.node[1].hash # B.node[1].hash
Failed == pc = "failed" /\ Anchor = "hash" /\ ~Reuse /\ \E B : Stored(B)

Phase ==
    \/ Closed
    \/ Fresh
    \/ \E h : Dummy(h)
    \/ \E h : Idle(h)
    \/ \E B, Y, h : Working(B, Y, h)
    \/ \E B, h : Committing(B, h)
    \/ Failed

Ground == setup \in Setups /\ AtomicUpdates(setup) /\ tx \in 0..MaxTx /\ DiskOK
IInv == Ground /\ Phase

\* What a step does to the stored and to the pending content
Simulates(f, g, p, q) ==
    \/ g = f /\ q \in {p, NULL}
    \/ g = f /\ p = NULL /\ q = IF f = NULL THEN <<>> ELSE f
    \/ /\ g = f /\ p # NULL /\ q # NULL
       /\ \E pos \in 0..MaxLen, n \in 1..MaxLen, d \in 1..MaxTx :
             pos + n <= MaxLen /\ q = F!Overlay(p, pos, n, d)
    \/ p # NULL /\ g = p /\ q \in {p, NULL}
Simulation == \E f, g : Shows(f) /\ Shows(g)' /\ Simulates(f, g, pending, pending')

LEMMA GroundFacts ==
    ASSUME Ground
    PROVE  /\ Anchor \in {"hash", "counter"} /\ DiskOK /\ tx \in Nat /\ tx <= MaxTx
           /\ ~setup.truncates /\ setup.blocks \in 1..MaxBlocks /\ setup.updates \in 0..MaxTx
           /\ Anchor = "hash" => /\ "late" \notin Faults
                                 /\ Reuse => "commit" \notin Faults
  BY SmallFacts, HTreeAssumption DEF Ground, AtomicUpdates, Anchor, Reuse, Faults

LEMMA ShowsCommitted ==
    ASSUME Ground, NEW CONSTANT f, Shows(f)
    PROVE  Committed = f /\ (f \in Contents \/ f = NULL)
  <1>1. CASE NoFile /\ f = NothingStored
    <2>1. <<>> \in Contents
      <3>1. 0 \in 0..MaxLen /\ 1..0 = {}
        BY SmallFacts
      <3>2. <<>> \in [1..0 -> 0..MaxTx]
        BY <3>1
      <3> QED
        BY <3>1, <3>2 DEF Contents
    <2> QED
      BY <1>1, <2>1, NoFileOpens DEF NothingStored
  <1>2. CASE \E B : Stored(B) /\ f = Content(B)
    <2>1. PICK B : Stored(B) /\ f = Content(B)
      BY <1>2
    <2> QED
      BY <2>1, StoredOpens, GroundFacts
  <1> QED
    BY <1>1, <1>2 DEF Shows

-----------------------------------------------------------------------------
(* What a write leaves alone *)

LEMMA KeptBase ==
    ASSUME NEW CONSTANT B, Base(B), tx \in Nat, tx' \in Nat, tx <= tx',
           node'[1][B.counter % 2] = node[1][B.counter % 2],
           \A i \in Present(B) : i # 1 =>
              node'[i][B.node[i \div 2].child[i % 2]] = node[i][B.node[i \div 2].child[i % 2]],
           head' # NoHeads, head'[B.counter % 2] = head[B.counter % 2],
           \A b \in 0..(CeilBlocks(B.len) - 1) :
              block'[b][B.node[b + 1].blk] = block[b][B.node[b + 1].blk]
    PROVE  Base(B)'
  <1>1. AllReads(B)'
    BY DEF Base, AllReads, BlockReads, BLOCK_NUM_TO_NODE_ID
  <1>2. ASSUME NEW i \in Nodes, B.node[i].tag # NULL PROVE B.node[i].tag.tx <= tx'
    <2>1. B.node[i].tag \in Tags
      BY <1>2, TreeFacts DEF Base
    <2>2. B.node[i].tag.tx \in 1..MaxTx
      BY <2>1, TagFacts
    <2>3. B.node[i].tag.tx <= tx
      BY <1>2 DEF Base
    <2> QED
      BY <2>2, <2>3, SmallFacts
  <1> QED
    BY <1>1, <1>2 DEF Base

LEMMA SameBase ==
    ASSUME NEW CONSTANT B, Base(B), UNCHANGED disk, tx \in Nat, tx' \in Nat, tx <= tx'
    PROVE  Base(B)'
  BY KeptBase DEF disk, Base

LEMMA SameChosen ==
    ASSUME NEW CONSTANT B, Chosen(B), UNCHANGED <<disk, setup, anchor>>
    PROVE  Chosen(B)'
  BY DEF disk, Chosen, Anchor, RootHash

\* The file stays what it is.
LEMMA SameFile ==
    ASSUME Ground, UNCHANGED <<disk, setup, anchor>>, tx' \in Nat, tx <= tx'
    PROVE  /\ \A B : Base(B) => Base(B)'
           /\ \A B : Stored(B) => Stored(B)'
           /\ \A B : Backed(B) => Backed(B)'
           /\ NoFile => NoFile'
           /\ \A f : Shows(f) => Shows(f)'
           /\ DiskOK'
  <1>1. tx \in Nat
    BY GroundFacts
  <1>2. ASSUME NEW CONSTANT B, Base(B) PROVE Base(B)'
    BY <1>1, <1>2, SameBase
  <1>3. ASSUME NEW CONSTANT B, Chosen(B) PROVE Chosen(B)'
    BY <1>3, SameChosen
  <1>4. NoFile => NoFile'
    BY DEF NoFile, Anchor, disk
  <1>5. NotLinked => NotLinked'
    BY DEF NotLinked, Anchor
  <1>6. DiskOK'
    BY DEF Ground, DiskOK, disk
  <1>7. /\ \A B : Stored(B) => Stored(B)'
        /\ \A B : Backed(B) => Backed(B)'
    BY <1>2, <1>3, <1>5 DEF Stored, Backed
  <1>8. NothingStored' = NothingStored
    BY DEF NothingStored, Anchor
  <1>9. \A f : Shows(f) => Shows(f)'
    BY <1>4, <1>7, <1>8 DEF Shows, Content
  <1> QED
    BY <1>2, <1>4, <1>6, <1>7, <1>9

LEMMA BackedShows ==
    ASSUME NEW CONSTANT B, Backed(B), Backed(B)', UNCHANGED <<setup, anchor>>
    PROVE  \E f : Shows(f) /\ Shows(f)'
  <1>1. CASE NotLinked
    <2>1. NoFile /\ NoFile' /\ NothingStored = NULL /\ NothingStored' = NULL
      BY <1>1 DEF NotLinked, NoFile, NothingStored, Anchor
    <2>2. Shows(NULL) /\ Shows(NULL)'
      BY <2>1 DEF Shows
    <2> QED
      BY <2>2
  <1>2. CASE ~NotLinked
    <2>1. ~NotLinked'
      BY <1>2 DEF NotLinked, Anchor
    <2>2. Stored(B) /\ Stored(B)'
      BY <1>2, <2>1 DEF Backed, Stored
    <2>3. PICK f : f = Content(B)
      OBVIOUS
    <2>4. Content(B)' = Content(B)
      BY DEF Content
    <2>5. Shows(f) /\ Shows(f)'
      BY <2>2, <2>3, <2>4 DEF Shows
    <2> QED
      BY <2>5
  <1> QED
    BY <1>1, <1>2

\* An update that fails: the file is closed and what was stored is stored still.
LEMMA FailedUpdate ==
    ASSUME NEW CONSTANT B, Backed(B), Backed(B)', UNCHANGED <<setup, anchor>>,
           ht.counter # 0, pc # "dummy", tee_fs_htree_close
    PROVE  Closed' /\ Simulation
  <1>1. /\ ht' = NULL /\ pending' = NULL /\ todo' = <<>>
        /\ pc' = IF Creating THEN "remove" ELSE "idle"
    BY DEF tee_fs_htree_close, Forget
  <1>2. PICK f : Shows(f) /\ Shows(f)'
    BY BackedShows
  <1>3. Simulation
    BY <1>1, <1>2 DEF Simulation, Simulates
  <1>4. NotLinked <=> NotLinked'
    BY DEF NotLinked, Anchor
  <1>5. NotLinked' => NoFile'
    BY DEF NotLinked, NoFile, Anchor
  <1>6. Creating => NotLinked
    BY DEF Creating, NotLinked, Backed, Chosen
  <1>7. NoFile' \/ Stored(B)'
    BY <1>5 DEF Backed, Stored
  <1>8. Closed'
    BY <1>1, <1>4, <1>5, <1>6, <1>7 DEF Closed
  <1> QED
    BY <1>3, <1>8

\* Where the operation is tells the phase.
LEMMA PhaseOf ==
    ASSUME Phase
    PROVE  /\ pc = "idle" => Closed \/ \E h : Idle(h)
           /\ pc = "remove" => Closed
           /\ pc = "failed" => Failed
           /\ pc = "dummy" => \E h : Dummy(h)
           /\ pc = "commit" => \E B, h : Committing(B, h)
           /\ pc = "block" => \E B, h : Working(B, {}, h) /\ Writing(B, h)
           /\ pc = "wrote" => \E B, h : Working(B, {}, h) /\ Filled(B, {}, h)
           /\ pc = "sync" => Fresh \/ \E B, Y, h : Working(B, Y, h) /\ Filled(B, Y, h) /\ Y # {}
  <1>1. CASE Closed
    BY <1>1 DEF Closed
  <1>2. CASE Fresh
    BY <1>2 DEF Fresh
  <1>3. CASE \E h : Dummy(h)
    BY <1>3 DEF Dummy
  <1>4. CASE \E h : Idle(h)
    BY <1>4 DEF Idle
  <1>5. CASE \E B, Y, h : Working(B, Y, h)
    <2>1. PICK B, Y, h : Working(B, Y, h)
      BY <1>5
    <2>2. CASE Y = {} /\ Writing(B, h)
      <3>1. pc = "block" /\ Working(B, {}, h) /\ Writing(B, h)
        BY <2>1, <2>2 DEF Writing
      <3> QED
        BY <3>1
    <2>3. CASE Filled(B, Y, h)
      <3>1. CASE pc = "wrote" /\ Y = {}
        BY <2>1, <2>3, <3>1
      <3>2. CASE pc = "sync" /\ Y # {}
        BY <2>1, <2>3, <3>2
      <3> QED
        BY <2>3, <3>1, <3>2 DEF Filled
    <2> QED
      BY <2>1, <2>2, <2>3 DEF Working
  <1>6. CASE \E B, h : Committing(B, h)
    BY <1>6 DEF Committing
  <1>7. CASE Failed
    BY <1>7 DEF Failed
  <1> QED
    BY <1>1, <1>2, <1>3, <1>4, <1>5, <1>6, <1>7 DEF Phase

LEMMA DummyChosen ==
    ASSUME NEW CONSTANT h, Dummy(h), Anchor = "counter"
    PROVE  Stored(h) /\ Content(h) = <<>>
  <1>1. h.counter = 1 /\ head[0] = ZeroHead /\ anchor = 0 /\ Base(h) /\ h.len = 0
    BY DEF Dummy, NotLinked
  <1>2. 1 - (h.counter % 2) = 0 /\ ZeroHead.counter = 0
    BY <1>1 DEF ZeroHead
  <1>3. Chosen(h)
    BY <1>1, <1>2 DEF Chosen
  <1>4. 1..h.len = {}
    BY <1>1
  <1>5. Content(h) = <<>>
    BY <1>4 DEF Content
  <1> QED
    BY <1>1, <1>3, <1>5 DEF Stored

LEMMA SomethingStored ==
    ASSUME Ground, Phase
    PROVE  NoFile \/ \E B : Stored(B)
  <1>0. NotLinked => NoFile
    BY DEF NotLinked, NoFile
  <1>1. CASE \E h : Dummy(h)
    <2>1. PICK h : Dummy(h)
      BY <1>1
    <2> QED
      BY <1>0, <2>1, DummyChosen DEF Dummy
  <1>2. CASE \E B, Y, h : Working(B, Y, h)
    BY <1>0, <1>2 DEF Working, Backed, Stored
  <1>3. CASE \E B, h : Committing(B, h)
    BY <1>0, <1>3 DEF Committing, Backed, Stored
  <1> QED
    BY <1>1, <1>2, <1>3 DEF Phase, Closed, Fresh, Idle, Failed

LEMMA FileShown ==
    ASSUME NoFile \/ \E B : Stored(B)
    PROVE  \E f : Shows(f)
  BY DEF Shows

\* The handle is closed, or power is lost.
LEMMA ClosingStep ==
    ASSUME IInv, UNCHANGED setup, ree_fs_close \/ Crash
    PROVE  DiskOK' /\ Phase' /\ Simulation
  <1>1. /\ ht' = NULL /\ pending' = NULL /\ todo' = <<>> /\ pc' = "idle" /\ tx' = tx
        /\ UNCHANGED <<disk, setup, anchor>>
    BY DEF ree_fs_close, Crash, Forget
  <1>2. Ground /\ tx \in Nat /\ tx <= tx
    BY GroundFacts DEF IInv
  <1>3. NoFile \/ \E B : Stored(B)
    BY SomethingStored DEF IInv
  <1>4. PICK f : Shows(f)
    BY <1>3, FileShown
  <1>5. Shows(f)' /\ DiskOK' /\ (NoFile' \/ \E B : Stored(B)')
    BY <1>1, <1>2, <1>3, <1>4, SameFile
  <1>6. Closed'
    BY <1>1, <1>5 DEF Closed
  <1>7. Simulation
    BY <1>1, <1>4, <1>5 DEF Simulation, Simulates
  <1> QED
    BY <1>5, <1>6, <1>7 DEF Phase

LEMMA OpenStep ==
    ASSUME IInv, UNCHANGED setup, tee_fs_htree_open
    PROVE  DiskOK' /\ Phase' /\ Simulation
  <1>1. /\ pc = "idle" /\ ~Uncreated /\ pending' = Committed /\ pc' = "idle" /\ todo' = todo
        /\ tx' = tx /\ UNCHANGED <<disk, setup, anchor>>
    BY DEF tee_fs_htree_open
  <1>2. PICK t \in OpenTree : ht' = t
    BY DEF tee_fs_htree_open
  <1>3. Ground /\ tx \in Nat /\ tx <= tx /\ DiskOK /\ Anchor \in {"hash", "counter"}
    BY GroundFacts DEF IInv
  <1>4. Closed \/ \E h : Idle(h)
    BY <1>1, PhaseOf DEF IInv
  <1>5. ~NoFile
    BY <1>1, <1>2, <1>3, NoFileOpens
  <1>6. PICK B : /\ Stored(B) /\ todo = <<>> /\ pending \in {NULL, Content(B)}
    BY <1>4, <1>5 DEF Closed, Idle
  <1>7. OpenTree = {B} /\ Committed = Content(B) /\ Content(B) \in Contents
    BY <1>3, <1>6, StoredOpens
  <1>8. ht' = B /\ pending' = Content(B) /\ Content(B)' = Content(B)
    BY <1>1, <1>2, <1>7 DEF Content
  <1>9. Stored(B)' /\ DiskOK'
    BY <1>1, <1>3, <1>6, SameFile
  <1>10. Idle(B)'
    BY <1>1, <1>6, <1>8, <1>9 DEF Idle
  <1>11. PICK f : f = Content(B)
    OBVIOUS
  <1>12. Shows(f) /\ Shows(f)'
    BY <1>6, <1>8, <1>9, <1>11 DEF Shows
  <1>13. f # NULL
    BY <1>7, <1>11, NullAssumption
  <1>14. Simulates(f, f, pending, pending')
    BY <1>6, <1>8, <1>11, <1>13 DEF Simulates
  <1>15. Simulation
    BY <1>12, <1>14 DEF Simulation
  <1> QED
    BY <1>9, <1>10, <1>15 DEF Phase

LEMMA MakeTree ==
    ASSUME NEW h, NEW c \in Nat, NEW m \in 0..MaxBlocks, NEW l \in 0..MaxLen, NEW N, NEW D, NEW U,
           h = [counter |-> c, max |-> m, len |-> l, node |-> N, dirty |-> D, updated |-> U],
           N = [i \in Nodes |-> N[i]], \A i \in Nodes : IsNode(N[i]),
           \A i \in Nodes \ Present(h) : N[i] = BlankNode, D \subseteq Present(h), U \subseteq D
    PROVE  IsTree(h)
  <1>1. /\ h.counter = c /\ h.max = m /\ h.len = l /\ h.node = N /\ h.dirty = D
        /\ h.updated = U
    OBVIOUS
  <1> QED
    BY <1>1 DEF IsTree

LEMMA NewTreeFacts ==
    ASSUME NEW d \in SUBSET {1}, NEW h, h = NewTree(d)
    PROVE  /\ h = [counter |-> 0, max |-> 0, len |-> 0, node |-> h.node, dirty |-> d,
                   updated |-> {}]
           /\ h.node = [i \in Nodes |-> h.node[i]]
           /\ h.node[1] = [blk |-> 0, child |-> [c \in Vers |-> 0], tag |-> NULL,
                           hash |-> calc_node_hash(BlankTree, 1)]
           /\ \A i \in Nodes \ {1} : h.node[i] = BlankNode
           /\ IsTree(h) /\ Present(h) = {1} /\ calc_node_hash(h, 1) = h.node[1].hash
  <1>1. PICK X : X = calc_node_hash(BlankTree, 1)
    OBVIOUS
  <1>2. PICK N : N = [[i \in Nodes |-> BlankNode] EXCEPT ![1].hash = X]
    OBVIOUS
  <1>3. h = [counter |-> 0, max |-> 0, len |-> 0, node |-> N, dirty |-> d, updated |-> {}]
    BY <1>1, <1>2 DEF NewTree, BlankTree
  <1>4. /\ N = [i \in Nodes |-> N[i]] /\ \A i \in Nodes \ {1} : N[i] = BlankNode
        /\ N[1] = [BlankNode EXCEPT !.hash = X]
    BY <1>2, RootIsNode
  <1>5. N[1] = [blk |-> 0, child |-> [c \in Vers |-> 0], tag |-> NULL, hash |-> X]
    BY <1>4 DEF BlankNode
  <1>6. h.max = 0 /\ h.node = N /\ h.len = 0 /\ h.dirty = d /\ h.updated = {} /\ h.counter = 0
    BY <1>3
  <1>7. Present(h) = {1}
    BY <1>6, PresentFacts, SmallFacts
  <1>8. ASSUME NEW i \in Nodes PROVE IsNode(N[i])
    BY <1>4, <1>5, BlankFacts DEF IsNode, Vers
  <1>9. IsTree(h)
    <2>1. /\ 0 \in Nat /\ 0 \in 0..MaxBlocks /\ 0 \in 0..MaxLen /\ d \subseteq Present(h)
          /\ {} \subseteq d /\ \A i \in Nodes \ Present(h) : N[i] = BlankNode
      BY <1>4, <1>7, SmallFacts
    <2>2. N = [i \in Nodes |-> N[i]] /\ \A i \in Nodes : IsNode(N[i])
      BY <1>4, <1>8
    <2> QED
      BY <1>3, <2>1, <2>2, MakeTree
  <1>10. calc_node_hash(h, 1) = X
    <2>1. /\ BlankTree.node[1] = BlankNode /\ BlankTree.len = 0 /\ BlankTree.max = 0
      BY RootIsNode DEF BlankTree
    <2>2. Present(BlankTree) = {1}
      BY <2>1, PresentFacts, SmallFacts
    <2>3. \A c \in Vers : {2 * 1 + c} \cap {1} = {}
      BY DEF Vers
    <2>4. /\ N[1].blk = BlankNode.blk /\ N[1].child = BlankNode.child
          /\ N[1].tag = BlankNode.tag
      BY <1>5 DEF BlankNode
    <2>5. [c \in Vers |-> {h.node[j].hash : j \in {2 * 1 + c} \cap Present(h)}]
            = [c \in Vers |-> {}]
      BY <1>7, <2>3
    <2>6. [c \in Vers |-> {BlankTree.node[j].hash : j \in {2 * 1 + c} \cap Present(BlankTree)}]
            = [c \in Vers |-> {}]
      BY <2>2, <2>3
    <2> QED
      BY <1>1, <1>6, <2>1, <2>4, <2>5, <2>6 DEF calc_node_hash
  <1> QED
    BY <1>1, <1>3, <1>4, <1>5, <1>6, <1>7, <1>9, <1>10

LEMMA NewTreeFields ==
    ASSUME NEW h, NEW d \in {{}, {1}}, h = NewTree(d)
    PROVE  /\ h.dirty = d /\ h.len = 0 /\ h.counter = 0 /\ h.max = 0 /\ h.updated = {}
           /\ h.node[1].tag = NULL /\ IsTree(h) /\ Present(h) = {1}
           /\ calc_node_hash(h, 1) = h.node[1].hash
           /\ \A i \in Nodes \ {1} : h.node[i] = BlankNode
  <1>1. d \in SUBSET {1}
    OBVIOUS
  <1>2. /\ h = [counter |-> 0, max |-> 0, len |-> 0, node |-> h.node, dirty |-> d,
                updated |-> {}]
        /\ h.node[1] = [blk |-> 0, child |-> [c \in Vers |-> 0], tag |-> NULL,
                        hash |-> calc_node_hash(BlankTree, 1)]
        /\ \A i \in Nodes \ {1} : h.node[i] = BlankNode
        /\ IsTree(h) /\ Present(h) = {1} /\ calc_node_hash(h, 1) = h.node[1].hash
    BY <1>1, NewTreeFacts
  <1>3. h.dirty = d /\ h.len = 0 /\ h.counter = 0 /\ h.max = 0 /\ h.updated = {}
    BY <1>2
  <1>4. h.node[1].tag = NULL
    BY <1>2
  <1> QED
    BY <1>2, <1>3, <1>4

LEMMA NewTreeDirty ==
    NewTree({1}) = [BlankTree EXCEPT !.node[1].hash = calc_node_hash(BlankTree, 1)]
  <1>1. PICK X : X = calc_node_hash(BlankTree, 1)
    OBVIOUS
  <1>2. PICK N : N = [[i \in Nodes |-> BlankNode] EXCEPT ![1].hash = X]
    OBVIOUS
  <1>3. PICK d : d = {1}
    OBVIOUS
  <1>4. PICK h : h = NewTree(d)
    OBVIOUS
  <1>5. h = [counter |-> 0, max |-> 0, len |-> 0, node |-> N, dirty |-> d, updated |-> {}]
    BY <1>1, <1>2, <1>4 DEF NewTree, BlankTree
  <1>6. [BlankTree EXCEPT !.node[1].hash = X]
          = [counter |-> 0, max |-> 0, len |-> 0, node |-> N, dirty |-> d, updated |-> {}]
    BY <1>2, <1>3 DEF BlankTree
  <1> QED
    BY <1>1, <1>3, <1>4, <1>5, <1>6

LEMMA CreateStep ==
    ASSUME IInv, UNCHANGED setup, create_and_sync
    PROVE  DiskOK' /\ Phase' /\ Simulation
  <1>1. /\ pc = "idle" /\ pc' = "sync" /\ pending' = <<>> /\ UNCHANGED <<anchor, todo, tx>>
        /\ ht' = [BlankTree EXCEPT !.node[1].hash = calc_node_hash(BlankTree, 1)]
        /\ \/ Anchor = "counter" /\ Uncreated /\ UNCHANGED disk
           \/ NotLinked /\ head' = NoHeads /\ node' = NoNodes /\ block' = NoBlocks
    BY DEF create_and_sync, NotLinked
  <1>2. Ground /\ tx \in Nat /\ tx <= tx /\ DiskOK /\ Anchor \in {"hash", "counter"}
    BY GroundFacts DEF IInv
  <1>3. Closed \/ \E h : Idle(h)
    BY <1>1, PhaseOf DEF IInv
  <1>4. ASSUME NEW B, Stored(B) PROVE FALSE
    <2>1. ~Uncreated
      BY <1>2, <1>4, StoredOpens
    <2> QED
      BY <1>1, <1>4, <2>1 DEF Stored, Chosen, NotLinked
  <1>5. NoFile /\ todo = <<>> /\ pending = NULL
    BY <1>3, <1>4 DEF Closed, Idle
  <1>6. ht' = NewTree({1})
    BY <1>1, NewTreeDirty
  <1>7. NoFile' /\ head' \in {NoHeads, ZeroHeads} /\ DiskOK'
    <2>1. CASE Anchor = "counter" /\ UNCHANGED disk
      <3>1. DiskOK'
        BY <1>2, <2>1 DEF DiskOK, disk
      <3> QED
        BY <1>1, <1>5, <2>1, <3>1 DEF NoFile, Anchor, disk
    <2>2. CASE NotLinked /\ head' = NoHeads /\ node' = NoNodes /\ block' = NoBlocks
      <3>1. NoFile'
        BY <1>1, <2>2 DEF NoFile, NotLinked, Anchor
      <3>2. block' \in [Blocks -> [Vers -> SUBSET Tags]]
        BY <2>2 DEF NoBlocks
      <3>3. /\ node' = [i \in Nodes |-> [v \in Vers |-> node'[i][v]]]
            /\ \A i \in Nodes, v \in Vers : node'[i][v] = {}
        BY <2>2 DEF NoNodes
      <3> QED
        BY <2>2, <3>1, <3>2, <3>3 DEF DiskOK
    <2> QED
      BY <1>1, <2>1, <2>2
  <1>8. Fresh'
    BY <1>1, <1>5, <1>6, <1>7 DEF Fresh
  <1>9. PICK f : f = NothingStored
    OBVIOUS
  <1>10. NothingStored' = NothingStored
    BY DEF NothingStored, Anchor
  <1>11. Shows(f) /\ Shows(f)'
    BY <1>5, <1>7, <1>9, <1>10 DEF Shows
  <1>12. f = NULL \/ f = <<>>
    BY <1>9 DEF NothingStored
  <1>13. Simulates(f, f, pending, pending')
    BY <1>1, <1>5, <1>12 DEF Simulates
  <1>14. Simulation
    BY <1>11, <1>13 DEF Simulation
  <1> QED
    BY <1>7, <1>8, <1>14 DEF Phase

LEMMA RemoveStep ==
    ASSUME IInv, UNCHANGED setup, tee_fs_rpc_remove_dfh
    PROVE  DiskOK' /\ Phase' /\ Simulation
  <1>1. /\ pc = "remove" /\ pc' = "idle" /\ UNCHANGED <<anchor, ht, todo, tx, pending>>
        /\ \/ head' = NoHeads /\ node' = NoNodes /\ block' = NoBlocks
           \/ UNCHANGED disk
    BY DEF tee_fs_rpc_remove_dfh
  <1>2. Ground /\ tx \in Nat /\ tx <= tx /\ DiskOK /\ Anchor \in {"hash", "counter"}
    BY GroundFacts DEF IInv
  <1>3. /\ Closed /\ ht = NULL /\ pending = NULL /\ todo = <<>>
        /\ \/ NoFile
           \/ Anchor = "counter" /\ anchor = 0 /\ \E B : Stored(B) /\ B.len = 0
    BY <1>1, PhaseOf DEF IInv, Closed
  <1>4. CASE UNCHANGED disk
    <2>1. NoFile \/ \E B : Stored(B)
      BY <1>3
    <2>2. PICK f : Shows(f)
      BY <2>1, FileShown
    <2>3. Shows(f)' /\ DiskOK' /\ (NoFile' \/ \E B : Stored(B)')
      BY <1>1, <1>2, <1>4, <2>1, <2>2, SameFile
    <2>4. Closed'
      BY <1>1, <1>3, <2>3 DEF Closed
    <2>5. Simulation
      BY <1>1, <2>2, <2>3 DEF Simulation, Simulates
    <2> QED
      BY <2>3, <2>4, <2>5 DEF Phase
  <1>5. CASE head' = NoHeads /\ node' = NoNodes /\ block' = NoBlocks
    <2>1. NoFile'
      BY <1>1, <1>3, <1>5 DEF NoFile, Anchor
    <2>2. DiskOK'
      <3>1. block' \in [Blocks -> [Vers -> SUBSET Tags]]
        BY <1>5 DEF NoBlocks
      <3>2. /\ node' = [i \in Nodes |-> [v \in Vers |-> node'[i][v]]]
            /\ \A i \in Nodes, v \in Vers : node'[i][v] = {}
        BY <1>5 DEF NoNodes
      <3> QED
        BY <1>5, <3>1, <3>2 DEF DiskOK
    <2>3. PICK f : f = NothingStored
      OBVIOUS
    <2>4. NothingStored' = NothingStored
      BY DEF NothingStored, Anchor
    <2>5. Shows(f)
      <3>1. CASE NoFile
        BY <2>3, <3>1 DEF Shows
      <3>2. CASE Anchor = "counter" /\ \E B : Stored(B) /\ B.len = 0
        <4>1. PICK B : Stored(B) /\ B.len = 0
          BY <3>2
        <4>2. 1..B.len = {}
          BY <4>1
        <4>3. Content(B) = <<>>
          BY <4>2 DEF Content
        <4>4. f = Content(B)
          BY <2>3, <3>2, <4>3 DEF NothingStored
        <4> QED
          BY <4>1, <4>4 DEF Shows
      <3> QED
        BY <1>3, <3>1, <3>2
    <2>6. Shows(f)'
      BY <2>1, <2>3, <2>4 DEF Shows
    <2>7. Closed'
      BY <1>1, <1>3, <2>1 DEF Closed
    <2>8. Simulation
      BY <1>1, <2>5, <2>6 DEF Simulation, Simulates
    <2> QED
      BY <2>2, <2>7, <2>8 DEF Phase
  <1> QED
    BY <1>1, <1>4, <1>5

LEMMA GrownSelf ==
    ASSUME NEW h, IsTree(h), h.dirty = {}
    PROVE  Grown(h, {}, h) /\ Written(h, {}, h)
  <1>1. h.updated = {}
    BY DEF IsTree
  <1>2. h.len \in Nat
    BY TreeFacts
  <1>3. h.len <= h.len
    BY <1>2
  <1> QED
    BY <1>1, <1>3 DEF Grown, Written

LEMMA DummyStep ==
    ASSUME IInv, UNCHANGED setup, WriteDummyHead
    PROVE  DiskOK' /\ Phase' /\ Simulation
  <1>1. PICK h : Dummy(h)
    BY PhaseOf DEF IInv, WriteDummyHead
  <1>2. PICK d \in {head[0], ZeroHead} :
           /\ head' = [head EXCEPT ![0] = d]
           /\ Request(d, ZeroHead,
                      /\ pc' = IF Anchor = "hash" THEN "wrote" ELSE "idle"
                      /\ UNCHANGED <<ht, todo, pending>>)
    BY DEF WriteDummyHead
  <1>3. UNCHANGED <<node, block, anchor, tx>> /\ pc = "dummy"
    BY DEF WriteDummyHead
  <1>4. Ground /\ tx \in Nat /\ tx <= tx /\ DiskOK /\ Anchor \in {"hash", "counter"}
    BY GroundFacts DEF IInv
  <1>5. /\ ht = h /\ pending = <<>> /\ todo = <<>> /\ h.counter = 1 /\ h.len = 0 /\ Base(h)
        /\ head[0] = ZeroHead /\ (NotLinked \/ (Anchor = "counter" /\ anchor = 0))
    BY <1>1 DEF Dummy
  <1>6. UNCHANGED disk
    <2>1. head = [v \in Vers |-> head[v]]
      BY <1>4, <1>5 DEF DiskOK, Base
    <2>2. d = head[0]
      BY <1>2, <1>5
    <2>3. head' = head
      BY <1>2, <2>1, <2>2
    <2> QED
      BY <1>3, <2>3 DEF disk
  <1>7. /\ \A B : Base(B) => Base(B)'
        /\ \A B : Stored(B) => Stored(B)'
        /\ NoFile => NoFile'
        /\ \A f : Shows(f) => Shows(f)'
        /\ DiskOK'
    BY <1>3, <1>4, <1>6, SameFile
  <1>8. Content(h) = <<>> /\ Content(h)' = <<>>
    <2>1. 1..h.len = {}
      BY <1>5
    <2> QED
      BY <2>1 DEF Content
  <1>9. NoFile \/ \E B : Stored(B)
    BY SomethingStored DEF IInv
  <1>10. PICK f : Shows(f) /\ Shows(f)'
    BY <1>7, <1>9, FileShown
  <1>11. CASE pc' = (IF Anchor = "hash" THEN "wrote" ELSE "idle") /\ UNCHANGED <<ht, todo, pending>>
    <2>1. CASE Anchor = "hash"
      <3>1. NotLinked /\ NotLinked' /\ Base(h)' /\ IsTree(h) /\ h.dirty = {}
        BY <1>3, <1>5, <1>7, <2>1 DEF NotLinked, Anchor, Base
      <3>2. Grown(h, {}, h)' /\ Written(h, {}, h)'
        <4>1. Grown(h, {}, h) /\ Written(h, {}, h)
          BY <3>1, GrownSelf
        <4>2. Grown(h, {}, h)' = Grown(h, {}, h)
          BY DEF Grown
        <4>3. Written(h, {}, h)'
          BY DEF Written
        <4> QED
          BY <4>1, <4>2, <4>3
      <3>3. AllReads(h)' /\ TagsSoFar(h)'
        BY <3>1 DEF Base, TagsSoFar
      <3>4. Filled(h, {}, h)'
        BY <1>5, <1>8, <1>11, <2>1, <3>3 DEF Filled
      <3>5. Working(h, {}, h)'
        BY <1>5, <1>11, <3>1, <3>2, <3>3, <3>4 DEF Working, Backed
      <3>6. Phase'
        BY <3>5 DEF Phase
      <3> QED
        BY <1>7, <1>10, <1>11, <3>6 DEF Simulation, Simulates
    <2>2. CASE Anchor = "counter"
      <3>1. Stored(h)
        BY <1>1, <2>2, DummyChosen
      <3>2. Idle(h)'
        BY <1>5, <1>7, <1>8, <1>11, <2>2, <3>1 DEF Idle
      <3>3. Phase'
        BY <3>2 DEF Phase
      <3> QED
        BY <1>7, <1>10, <1>11, <3>3 DEF Simulation, Simulates
    <2> QED
      BY <1>4, <2>1, <2>2
  <1>12. CASE tee_fs_htree_close
    <2>1. ht' = NULL /\ pending' = NULL /\ todo' = <<>> /\ pc' \in {"idle", "remove"}
      BY <1>12 DEF tee_fs_htree_close, Forget
    <2>2. CASE Anchor = "hash"
      <3>1. NoFile'
        BY <1>3, <1>5, <2>2 DEF NotLinked, NoFile, Anchor
      <3>2. Closed'
        BY <2>1, <3>1 DEF Closed
      <3> QED
        BY <1>7, <1>10, <2>1, <3>2 DEF Phase, Simulation, Simulates
    <2>3. CASE Anchor = "counter"
      <3>1. Stored(h)' /\ Anchor' = "counter" /\ anchor' = 0
        BY <1>1, <1>3, <1>5, <1>7, <2>3, DummyChosen DEF Anchor, NotLinked
      <3>2. Closed'
        BY <1>5, <2>1, <3>1 DEF Closed
      <3> QED
        BY <1>7, <1>10, <2>1, <3>2 DEF Phase, Simulation, Simulates
    <2> QED
      BY <1>4, <2>2, <2>3
  <1> QED
    BY <1>2, <1>11, <1>12 DEF Request

LEMMA CommitStep ==
    ASSUME IInv, UNCHANGED setup, Commit
    PROVE  DiskOK' /\ Phase' /\ Simulation
  <1>1. PICK B, h : Committing(B, h)
    BY PhaseOf DEF IInv, Commit
  <1>2. /\ pc = "commit" /\ ht = h /\ pending = Content(h) /\ todo = <<>> /\ Base(h)
        /\ IsTree(h) /\ h.counter \in Nat /\ h.counter >= 1 /\ AllReads(h)
    BY <1>1, TreeFacts DEF Committing, Base
  <1>3. Ground /\ tx \in Nat /\ tx <= tx /\ DiskOK /\ Anchor \in {"hash", "counter"}
    BY GroundFacts DEF IInv
  <1>4. UNCHANGED <<disk, tx, setup>>
    BY DEF Commit
  <1>5. Base(h)' /\ DiskOK'
    <2>1. Base(h)'
      BY <1>2, <1>3, <1>4, SameBase
    <2> QED
      BY <1>3, <1>4, <2>1 DEF DiskOK, disk
  <1>6. Content(h) \in Contents /\ Content(h) # NULL /\ Content(h)' = Content(h)
    BY <1>2, <1>3, ContentFacts, NullAssumption DEF Content
  <1>7. PICK f : Shows(f)
    <2>1. NoFile \/ \E X : Stored(X)
      BY SomethingStored DEF IInv
    <2> QED
      BY <2>1, FileShown
  <1>8. ASSUME Stored(h)', pending' \in {pending, NULL} PROVE Simulation
    <2>1. PICK g : g = Content(h)
      OBVIOUS
    <2>2. Shows(g)'
      BY <1>6, <1>8, <2>1 DEF Shows
    <2>3. Simulates(f, g, pending, pending')
      BY <1>2, <1>6, <1>8, <2>1 DEF Simulates
    <2> QED
      BY <1>7, <2>2, <2>3 DEF Simulation
  <1>9. CASE Anchor = "counter"
    <2>1. Anchor' = "counter" /\ Chosen(h) /\ anchor \in Nat /\ anchor <= h.counter
      BY <1>1, <1>9 DEF Committing, Chosen, Anchor
    <2>2. anchor' \in {anchor, h.counter}
      BY <1>2, <1>9 DEF Commit
    <2>3. Chosen(h)'
      BY <1>2, <1>4, <1>9, <2>1, <2>2 DEF Chosen, disk, Anchor
    <2>4. Stored(h)'
      BY <1>5, <2>3 DEF Stored
    <2>5. CASE pc' = "idle" /\ UNCHANGED <<ht, todo, pending>>
      <3>1. Idle(h)'
        BY <1>2, <1>6, <2>4, <2>5 DEF Idle
      <3> QED
        BY <1>5, <1>8, <2>4, <2>5, <3>1 DEF Phase
    <2>6. CASE tee_fs_htree_close
      <3>1. ~Creating
        BY <1>2, <1>9 DEF Creating
      <3>2. ht' = NULL /\ pending' = NULL /\ todo' = <<>> /\ pc' = "idle"
        BY <2>6, <3>1 DEF tee_fs_htree_close, Forget
      <3>3. Closed'
        BY <2>4, <3>2 DEF Closed
      <3> QED
        BY <1>5, <1>8, <2>4, <3>2, <3>3 DEF Phase
    <2> QED
      BY <1>9, <2>5, <2>6 DEF Commit
  <1>10. CASE Anchor = "hash"
    <2>1. /\ Backed(B) /\ h.counter = B.counter + 1 /\ h.node[1].hash # B.node[1].hash
          /\ Anchor' = "hash"
      BY <1>1, <1>10 DEF Committing, Anchor
    <2>2. CASE anchor' = {h.node[1].hash} /\ pc' = "idle" /\ UNCHANGED <<ht, todo, pending>>
      <3>0. B.counter \in Nat
        BY <2>1, TreeFacts DEF Backed, Base
      <3>1. B.counter \in Nat /\ 1 - (h.counter % 2) = B.counter % 2
        BY <2>1, <3>0, Slots
      <3>2. node[1][1 - (h.counter % 2)] = {B.node[1]}
        BY <2>1, <3>1 DEF Backed, Base
      <3>3. RootHash(1 - (h.counter % 2))' = {B.node[1].hash}
        BY <1>4, <3>2 DEF RootHash, disk
      <3>4. Chosen(h)'
        BY <2>1, <2>2, <3>3 DEF Chosen
      <3>5. Stored(h)'
        BY <1>5, <3>4 DEF Stored
      <3>6. Idle(h)'
        BY <1>2, <1>6, <2>2, <3>5 DEF Idle
      <3> QED
        BY <1>5, <1>8, <2>2, <3>5, <3>6 DEF Phase
    <2>3. ASSUME "commit" \in Faults, UNCHANGED anchor
          PROVE  Backed(B)' /\ ~Reuse /\ ~Reuse' /\ Shows(f)'
      <3>1. Backed(B)' /\ Shows(f)'
        BY <1>3, <1>4, <1>7, <2>1, <2>3, SameFile
      <3>2. ~Reuse /\ ~Reuse'
        BY <1>3, <1>10, <2>3, GroundFacts DEF Reuse
      <3> QED
        BY <3>1, <3>2
    <2>4. CASE /\ "commit" \in Faults /\ UNCHANGED anchor
               /\ ~Creating /\ pc' = "failed" /\ UNCHANGED <<ht, todo, pending>>
      <3>1. ~NotLinked'
        BY <1>10, <2>4 DEF Creating, NotLinked
      <3>2. Stored(B)'
        BY <2>3, <2>4, <3>1 DEF Backed, Stored
      <3>3. Failed'
        BY <2>1, <2>3, <2>4, <3>2 DEF Failed
      <3>4. Simulation
        BY <1>7, <2>3, <2>4 DEF Simulation, Simulates
      <3> QED
        BY <1>5, <3>3, <3>4 DEF Phase
    <2>5. CASE /\ "commit" \in Faults /\ UNCHANGED anchor
               /\ Creating /\ tee_fs_htree_close
      <3>1. NoFile'
        BY <1>10, <2>1, <2>5 DEF Creating, NoFile
      <3>2. ht' = NULL /\ pending' = NULL /\ todo' = <<>> /\ pc' = "remove"
        BY <2>5 DEF tee_fs_htree_close, Forget
      <3>3. Closed'
        BY <3>1, <3>2 DEF Closed
      <3>4. Simulation
        BY <1>7, <2>3, <2>5, <3>2 DEF Simulation, Simulates
      <3> QED
        BY <1>5, <3>3, <3>4 DEF Phase
    <2>6. "late" \notin Faults
      BY <1>3, <1>10, GroundFacts
    <2> QED
      BY <1>2, <1>10, <2>2, <2>4, <2>5, <2>6 DEF Commit
  <1> QED
    BY <1>3, <1>9, <1>10

-----------------------------------------------------------------------------
(* The head is written *)

LEMMA HeadWritten ==
    ASSUME DiskOK, head # NoHeads, NEW s \in Vers, NEW x, head' = [head EXCEPT ![s] = x],
           UNCHANGED <<node, block>>
    PROVE  DiskOK' /\ head' # NoHeads /\ head'[s] = x /\ \A v \in Vers : v # s => head'[v] = head[v]
  <1>1. head = [v \in Vers |-> head[v]]
    BY DEF DiskOK
  <1>2. /\ head' = [v \in Vers |-> head'[v]] /\ head'[s] = x
        /\ \A v \in Vers : v # s => head'[v] = head[v]
    BY <1>1
  <1>3. head' # NoHeads
    <2>1. DOMAIN head' = Vers /\ DOMAIN NoHeads = {} /\ s \in Vers
      BY <1>2 DEF NoHeads
    <2> QED
      BY <2>1
  <1>4. DiskOK'
    BY <1>2 DEF DiskOK
  <1> QED
    BY <1>2, <1>3, <1>4

LEMMA CounterOnly ==
    ASSUME NEW h, IsTree(h), NEW c \in Nat, NEW T, T = [h EXCEPT !.counter = c]
    PROVE  /\ T = [counter |-> c, max |-> h.max, len |-> h.len, node |-> h.node,
                   dirty |-> h.dirty, updated |-> h.updated]
           /\ T.counter = c /\ T.max = h.max /\ T.len = h.len /\ T.node = h.node
           /\ T.dirty = h.dirty /\ T.updated = h.updated
           /\ IsTree(T) /\ Present(T) = Present(h)
           /\ \A i \in Nodes : calc_node_hash(T, i) = calc_node_hash(h, i)
           /\ Content(T) = Content(h) /\ (AllReads(h) => AllReads(T))
           /\ (TagsSoFar(h) => TagsSoFar(T))
  <1>1. h = [counter |-> h.counter, max |-> h.max, len |-> h.len, node |-> h.node,
             dirty |-> h.dirty, updated |-> h.updated]
    BY DEF IsTree
  <1>2. T = [counter |-> c, max |-> h.max, len |-> h.len, node |-> h.node,
             dirty |-> h.dirty, updated |-> h.updated]
    BY <1>1
  <1>3. /\ T.counter = c /\ T.max = h.max /\ T.len = h.len /\ T.node = h.node
        /\ T.dirty = h.dirty /\ T.updated = h.updated
    BY <1>2
  <1>4. Present(T) = Present(h)
    BY <1>3 DEF Present
  <1>5. IsTree(T)
    BY <1>2, <1>3, <1>4 DEF IsTree
  <1>6. \A i \in Nodes : calc_node_hash(T, i) = calc_node_hash(h, i)
    BY <1>3, <1>4 DEF calc_node_hash
  <1>7. Content(T) = Content(h) /\ (AllReads(h) => AllReads(T)) /\ (TagsSoFar(h) => TagsSoFar(T))
    BY <1>3, <1>4 DEF Content, AllReads, BlockReads, TagsSoFar
  <1> QED
    BY <1>2, <1>3, <1>4, <1>5, <1>6, <1>7

\* The first tree of a file, once its head is written
LEMMA FirstBase ==
    ASSUME Ground, Fresh, ht.dirty = {}, NEW CONSTANT h, h = [ht EXCEPT !.counter = 1],
           head' = [head EXCEPT ![1] = HeadOf(h)], UNCHANGED <<setup, anchor, node, block, tx>>
    PROVE  /\ DiskOK' /\ Base(h)' /\ head'[0] = ZeroHead /\ h.counter = 1 /\ h.len = 0
           /\ Content(h) = <<>> /\ (Anchor = "counter" => Stored(h)')
  <1>1. ht = NewTree({}) /\ node[1][1] = {ht.node[1]} /\ head = ZeroHeads
    <2>1. ht = NewTree({1}) => ht.dirty = {1}
      BY NewTreeFields
    <2> QED
      BY <2>1 DEF Fresh
  <1>2. /\ IsTree(ht) /\ Present(ht) = {1} /\ calc_node_hash(ht, 1) = ht.node[1].hash
        /\ ht.len = 0 /\ ht.node[1].tag = NULL /\ \A i \in Nodes \ {1} : ht.node[i] = BlankNode
    BY <1>1, NewTreeFields
  <1>3. /\ h.counter = 1 /\ h.len = 0 /\ h.node = ht.node /\ h.dirty = {} /\ IsTree(h)
        /\ Present(h) = {1} /\ calc_node_hash(h, 1) = h.node[1].hash
    BY <1>2, CounterOnly, RootIsNode
  <1>4. /\ DiskOK /\ head # NoHeads /\ 1 \in Vers /\ 0 \in Vers /\ head[0] = ZeroHead
        /\ 0 # 1 /\ tx \in Nat
    <2>1. ZeroHeads # NoHeads
      <3>1. DOMAIN ZeroHeads = Vers /\ DOMAIN NoHeads = {} /\ 0 \in Vers
        BY DEF ZeroHeads, NoHeads, Vers
      <3> QED
        BY <3>1
    <2> QED
      BY <1>1, <2>1, GroundFacts DEF ZeroHeads, Vers
  <1>5. DiskOK' /\ head' # NoHeads /\ head'[1] = HeadOf(h) /\ head'[0] = ZeroHead
    BY <1>4, HeadWritten
  <1>6. 1 % 2 = 1 /\ CeilBlocks(0) = 0 /\ 0..(0 - 1) = {}
    <2>1. ASSUME NEW b \in Nat PROVE ~(b < CeilBlocks(0))
      <3>1. b * UPB >= 0
        BY SmallFacts
      <3> QED
        BY <3>1, CeilFacts, SmallFacts
    <2>2. CeilBlocks(0) \in Nat
      BY CeilFacts
    <2> QED
      BY <2>1, <2>2
  <1>7. AllReads(h)'
    BY <1>3, <1>6 DEF AllReads
  <1>8. \A i \in Nodes : h.node[i].tag = NULL
    BY <1>2, <1>3, BlankFacts
  <1>9. Base(h)'
    BY <1>1, <1>3, <1>5, <1>6, <1>7, <1>8 DEF Base, verify_tree
  <1>10. Content(h) = <<>>
    <2>1. 1..h.len = {}
      BY <1>3
    <2> QED
      BY <2>1 DEF Content
  <1>11. ASSUME Anchor = "counter" PROVE Stored(h)'
    <2>1. anchor' = 0 /\ Anchor' = "counter"
      BY <1>11 DEF Fresh, NoFile, Anchor
    <2>2. 1 - (h.counter % 2) = 0 /\ ZeroHead.counter = 0
      BY <1>3 DEF ZeroHead
    <2>3. Chosen(h)'
      BY <1>3, <1>5, <2>1, <2>2 DEF Chosen
    <2> QED
      BY <1>9, <2>3 DEF Stored
  <1> QED
    BY <1>3, <1>5, <1>9, <1>10, <1>11

LEMMA FirstRootStep ==
    ASSUME IInv, UNCHANGED setup, tee_fs_htree_sync_to_storage, Fresh
    PROVE  DiskOK' /\ Phase' /\ Simulation
  <1>1. Ground /\ DiskOK /\ Anchor \in {"hash", "counter"} /\ tx \in Nat /\ tx <= tx
    BY GroundFacts DEF IInv
  <1>2. /\ ht.dirty = {} /\ update_root /\ UNCHANGED <<node, block, anchor, tx>>
        /\ pc = "sync" /\ NoFile /\ pending = <<>> /\ todo = <<>>
    BY DEF tee_fs_htree_sync_to_storage, Fresh
  <1>3. ht.counter = 0
    BY NewTreeFields DEF Fresh
  <1>4. PICK h : h = [ht EXCEPT !.counter = 1]
    OBVIOUS
  <1>5. PICK new : new = HeadOf(h)
    OBVIOUS
  <1>6. [counter |-> 1, max |-> ht.max, len |-> ht.len, root |-> ht.node[1].hash] = new
    <2>1. IsTree(ht)
      BY NewTreeFields DEF Fresh
    <2>2. h.counter = 1 /\ h.max = ht.max /\ h.len = ht.len /\ h.node = ht.node
      BY <1>4, <2>1, CounterOnly
    <2> QED
      BY <1>5, <2>2 DEF HeadOf
  <1>7. \/ head' = [head EXCEPT ![1] = new] /\ ht' = h /\ pc' = "dummy" /\ UNCHANGED <<todo, pending>>
        \/ head' = [head EXCEPT ![1] = new] /\ tee_fs_htree_close
        \/ head' = [head EXCEPT ![1] = head[1]] /\ tee_fs_htree_close
    <2>1. ht.counter + 1 = 1 /\ 1 % 2 = 1
      BY <1>3
    <2> QED
      BY <1>2, <1>4, <1>6, <2>1 DEF update_root
  <1>8. PICK f : f = NothingStored
    OBVIOUS
  <1>9. NothingStored' = NothingStored /\ Shows(f)
    BY <1>2, <1>8 DEF NothingStored, Anchor, Shows
  <1>10. Anchor = "hash" => NoFile' /\ NotLinked'
    BY <1>2 DEF NoFile, NotLinked, Anchor
  <1>11. ASSUME head' = [head EXCEPT ![1] = new]
         PROVE  /\ DiskOK' /\ Base(h)' /\ head'[0] = ZeroHead /\ h.counter = 1 /\ h.len = 0
                /\ Content(h) = <<>> /\ (Anchor = "counter" => Stored(h)') /\ Shows(f)'
    <2>1. /\ DiskOK' /\ Base(h)' /\ head'[0] = ZeroHead /\ h.counter = 1 /\ h.len = 0
          /\ Content(h) = <<>> /\ (Anchor = "counter" => Stored(h)')
      BY <1>1, <1>2, <1>4, <1>5, <1>11, FirstBase
    <2>2. Content(h)' = Content(h)
      BY DEF Content
    <2>3. Shows(f)'
      BY <1>1, <1>8, <1>9, <1>10, <2>1, <2>2 DEF Shows, NothingStored
    <2> QED
      BY <2>1, <2>3
  <1>12. CASE head' = [head EXCEPT ![1] = new] /\ ht' = h /\ pc' = "dummy" /\ UNCHANGED <<todo, pending>>
    <2>1. NotLinked' \/ (Anchor' = "counter" /\ anchor' = 0)
      BY <1>1, <1>2, <1>10 DEF NoFile, Anchor
    <2>2. Dummy(h)'
      BY <1>2, <1>11, <1>12, <2>1 DEF Dummy
    <2>3. Simulation
      BY <1>9, <1>11, <1>12 DEF Simulation, Simulates
    <2> QED
      BY <1>11, <1>12, <2>2, <2>3 DEF Phase
  <1>13. CASE head' = [head EXCEPT ![1] = new] /\ tee_fs_htree_close
    <2>1. ht' = NULL /\ pending' = NULL /\ todo' = <<>> /\ pc' \in {"idle", "remove"}
      BY <1>13 DEF tee_fs_htree_close, Forget
    <2>2. Anchor = "counter" => Anchor' = "counter" /\ anchor' = 0
      BY <1>2 DEF NoFile, Anchor
    <2>3. Closed'
      BY <1>1, <1>10, <1>11, <1>13, <2>1, <2>2 DEF Closed
    <2>4. Simulation
      BY <1>9, <1>11, <1>13, <2>1 DEF Simulation, Simulates
    <2> QED
      BY <1>11, <1>13, <2>3, <2>4 DEF Phase
  <1>14. CASE head' = [head EXCEPT ![1] = head[1]] /\ tee_fs_htree_close
    <2>1. ht' = NULL /\ pending' = NULL /\ todo' = <<>> /\ pc' \in {"idle", "remove"}
      BY <1>14 DEF tee_fs_htree_close, Forget
    <2>2. UNCHANGED disk
      <3>1. head = NoHeads \/ head = [v \in Vers |-> head[v]]
        BY <1>1 DEF DiskOK
      <3>2. head' = head
        BY <1>14, <3>1 DEF NoHeads
      <3> QED
        BY <1>2, <3>2 DEF disk
    <2>3. NoFile' /\ DiskOK' /\ Shows(f)'
      BY <1>1, <1>2, <1>9, <2>2, SameFile
    <2>4. Closed'
      BY <2>1, <2>3 DEF Closed
    <2>5. Simulation
      BY <1>9, <2>1, <2>3 DEF Simulation, Simulates
    <2> QED
      BY <2>3, <2>4, <2>5 DEF Phase
  <1> QED
    BY <1>7, <1>12, <1>13, <1>14

OnDisk(T) ==
    /\ verify_tree(T) /\ node[1][T.counter % 2] = {T.node[1]}
    /\ \A i \in Present(T) : i # 1 => node[i][T.node[i \div 2].child[i % 2]] = {T.node[i]}

\* When no node is dirty any more, the tree in memory is on the disk.
LEMMA SyncedTree ==
    ASSUME Ground, NEW CONSTANT B, NEW CONSTANT Y, NEW CONSTANT h, NEW CONSTANT T,
           Base(B), Grown(B, Y, h), Written(B, Y, h), Y # {}, h.dirty = {},
           T = [h EXCEPT !.counter = B.counter + 1]
    PROVE  1 \in Y /\ OnDisk(T)
  <1>1. /\ IsTree(h) /\ IsTree(B) /\ h.counter = B.counter /\ B.counter \in Nat
        /\ Present(B) \subseteq Present(h) /\ Y \subseteq Present(h) /\ Present(h) \subseteq Nodes
    BY TreeFacts DEF Base, Grown
  <1>2. /\ \A i \in Present(h) \ Y : i \in Present(B) /\ h.node[i] = B.node[i]
        /\ \A i \in Nodes \ {1} :
             h.node[i \div 2].child[i % 2] = IF i \in Y THEN 1 - B.node[i \div 2].child[i % 2]
                                             ELSE B.node[i \div 2].child[i % 2]
        /\ \A i \in Y \ {1} : i \div 2 \in Y
        /\ \A i \in Y : h.node[i].hash = calc_node_hash(h, i)
    BY DEF Grown
  <1>3. 1 \in Y
    <2>1. Y \in SUBSET Nat /\ Y \subseteq Nodes
      BY <1>1, RootIsNode
    <2>2. PICK n \in Y : \A m \in Y : n <= m
      BY <2>1, LeastNumber
    <2>3. CASE n # 1
      <3>1. n \div 2 \in Y /\ n \div 2 < n
        BY <1>2, <2>1, <2>2, <2>3, ParentIsNode
      <3>2. n <= n \div 2 /\ n \in Nat /\ n \div 2 \in Nat
        BY <2>1, <2>2, <3>1
      <3> QED
        BY <3>1, <3>2
    <2> QED
      BY <2>2, <2>3
  <1>4. /\ T.counter = B.counter + 1 /\ T.node = h.node /\ Present(T) = Present(h)
        /\ \A i \in Nodes : calc_node_hash(T, i) = calc_node_hash(h, i)
    BY <1>1, CounterOnly
  <1>5. ASSUME NEW i \in Present(h) PROVE h.node[i].hash = calc_node_hash(h, i)
    <2>1. CASE i \in Y
      BY <1>2, <2>1
    <2>2. CASE i \notin Y
      <3>1. i # 1 /\ i \in Present(B) /\ h.node[i] = B.node[i] /\ i \in Nodes /\ i \in Nat
        BY <1>1, <1>2, <1>3, <2>2, RootIsNode
      <3>2. B.node[i].hash = calc_node_hash(B, i)
        BY <3>1 DEF Base, verify_tree
      <3>3. ASSUME NEW c \in Vers
            PROVE  {h.node[j].hash : j \in {2 * i + c} \cap Present(h)}
                     = {B.node[j].hash : j \in {2 * i + c} \cap Present(B)}
        <4>1. PICK j : j = 2 * i + c
          OBVIOUS
        <4>2. j \in Nat /\ j \div 2 = i /\ j # 1
          BY <3>1, <4>1, ChildIsBelow
        <4>3. j \notin Y
          BY <1>2, <2>2, <4>2
        <4>4. CASE j \in Present(h)
          <5>1. j \in Present(B) /\ h.node[j] = B.node[j]
            BY <1>2, <4>3, <4>4
          <5>2. {j} \cap Present(h) = {j} /\ {j} \cap Present(B) = {j}
            BY <4>4, <5>1
          <5> QED
            BY <4>1, <5>1, <5>2
        <4>5. CASE j \notin Present(h)
          <5>1. {j} \cap Present(h) = {} /\ {j} \cap Present(B) = {}
            BY <1>1, <4>5
          <5> QED
            BY <4>1, <5>1
        <4> QED
          BY <4>4, <4>5
      <3>4. [c \in Vers |-> {h.node[j].hash : j \in {2 * i + c} \cap Present(h)}]
              = [c \in Vers |-> {B.node[j].hash : j \in {2 * i + c} \cap Present(B)}]
        BY <3>3
      <3>5. calc_node_hash(h, i) = calc_node_hash(B, i)
        BY <3>1, <3>4 DEF calc_node_hash
      <3> QED
        BY <3>1, <3>2, <3>5
    <2> QED
      BY <2>1, <2>2
  <1>6. verify_tree(T)
    BY <1>1, <1>4, <1>5 DEF verify_tree
  <1>7. node[1][T.counter % 2] = {T.node[1]}
    <2>1. T.counter % 2 = 1 - (B.counter % 2)
      BY <1>1, <1>4, Slots
    <2>2. node[1][1 - (B.counter % 2)] = {h.node[1]}
      BY <1>3 DEF Written
    <2> QED
      BY <1>4, <2>1, <2>2
  <1>8. ASSUME NEW i \in Present(h), i # 1
        PROVE  node[i][h.node[i \div 2].child[i % 2]] = {h.node[i]}
    <2>1. CASE i \in Y
      BY <1>8, <2>1 DEF Written
    <2>2. CASE i \notin Y
      <3>1. i \in Present(B) /\ h.node[i] = B.node[i] /\ i \in Nodes
        BY <1>1, <1>2, <2>2
      <3>2. h.node[i \div 2].child[i % 2] = B.node[i \div 2].child[i % 2]
        BY <1>2, <1>8, <2>2, <3>1
      <3>3. node[i][B.node[i \div 2].child[i % 2]] = {B.node[i]}
        BY <1>8, <3>1 DEF Base
      <3> QED
        BY <3>1, <3>2, <3>3
    <2> QED
      BY <2>1, <2>2
  <1> QED
    BY <1>3, <1>4, <1>6, <1>7, <1>8 DEF OnDisk

\* The head of the new tree is written: both trees are on the disk then.
LEMMA NextBase ==
    ASSUME Ground, NEW CONSTANT B, NEW CONSTANT Y, NEW CONSTANT h, NEW CONSTANT T,
           Working(B, Y, h), Filled(B, Y, h), Y # {}, h.dirty = {},
           T = [h EXCEPT !.counter = B.counter + 1],
           head' = [head EXCEPT ![(B.counter + 1) % 2] = HeadOf(T)],
           UNCHANGED <<setup, anchor, node, block, tx>>
    PROVE  /\ DiskOK' /\ Base(T)' /\ Base(B)'
           /\ T.counter = B.counter + 1 /\ T.node[1].hash # B.node[1].hash
           /\ Anchor = "counter" => Chosen(T)'
           /\ Anchor = "hash" => Backed(B)'
           /\ Content(T) = Content(h)
  <1>1. /\ Base(B) /\ Grown(B, Y, h) /\ Written(B, Y, h) /\ TagsSoFar(h) /\ AllReads(h)
        /\ Backed(B) /\ DiskOK /\ tx \in Nat /\ tx <= tx
    BY GroundFacts DEF Working, Filled, Backed
  <1>2. /\ IsTree(h) /\ B.counter \in Nat /\ B.counter + 1 \in Nat /\ h.counter = B.counter
        /\ head # NoHeads /\ head[B.counter % 2] = HeadOf(B) /\ B.counter >= 1
    BY <1>1, TreeFacts DEF Grown, Base
  <1>3. /\ T.counter = B.counter + 1 /\ T.node = h.node /\ T.dirty = {}
        /\ IsTree(T) /\ Content(T) = Content(h) /\ AllReads(T) /\ TagsSoFar(T)
    BY <1>1, <1>2, CounterOnly
  <1>4. PICK s : s = (B.counter + 1) % 2
    OBVIOUS
  <1>5. s \in Vers /\ s # B.counter % 2 /\ 1 - s = B.counter % 2 /\ B.counter % 2 \in Vers
    BY <1>2, <1>4, Slots
  <1>6. DiskOK' /\ head' # NoHeads /\ head'[s] = HeadOf(T) /\ head'[B.counter % 2] = head[B.counter % 2]
    BY <1>1, <1>2, <1>4, <1>5, HeadWritten
  <1>7. 1 \in Y /\ OnDisk(T)
    BY <1>1, SyncedTree
  <1>8. Base(T)'
    <2>1. AllReads(T)'
      BY <1>3 DEF AllReads, BlockReads
    <2>2. T.counter >= 1
      BY <1>2, <1>3
    <2>3. \A i \in Nodes : T.node[i].tag # NULL => T.node[i].tag.tx <= tx'
      BY <1>3 DEF TagsSoFar
    <2> QED
      BY <1>3, <1>4, <1>6, <1>7, <2>1, <2>2, <2>3 DEF Base, OnDisk
  <1>9. Base(B)'
    BY <1>1, <1>6, KeptBase
  <1>10. T.node[1].hash # B.node[1].hash
    BY <1>1, <1>3, <1>7 DEF Grown
  <1>11. ASSUME Anchor = "counter" PROVE Chosen(T)'
    <2>1. anchor \in Nat /\ anchor <= B.counter /\ anchor' = anchor /\ Anchor' = "counter"
      BY <1>1, <1>11 DEF Backed, Chosen, NotLinked, Anchor
    <2>2. head'[1 - (T.counter % 2)].counter = B.counter
      BY <1>2, <1>3, <1>4, <1>5, <1>6 DEF HeadOf
    <2>3. anchor' <= T.counter /\ B.counter < T.counter /\ B.counter % 2 = 1 - (T.counter % 2)
      BY <1>2, <1>3, <1>4, <1>5, <2>1
    <2> QED
      BY <1>2, <2>1, <2>2, <2>3 DEF Chosen
  <1>12. ASSUME Anchor = "hash" PROVE Backed(B)'
    <2>1. Chosen(B) => Chosen(B)'
      BY <1>12 DEF Chosen, Anchor, RootHash
    <2>2. NotLinked => NotLinked'
      BY DEF NotLinked, Anchor
    <2> QED
      BY <1>1, <1>9, <2>1, <2>2 DEF Backed
  <1> QED
    BY <1>3, <1>6, <1>8, <1>9, <1>10, <1>11, <1>12

LEMMA RootStep ==
    ASSUME IInv, UNCHANGED setup, tee_fs_htree_sync_to_storage
    PROVE  DiskOK' /\ Phase' /\ Simulation
  <1>1. Ground /\ DiskOK /\ Anchor \in {"hash", "counter"} /\ tx \in Nat /\ tx <= tx
    BY GroundFacts DEF IInv
  <1>2. ht.dirty = {} /\ update_root /\ UNCHANGED <<node, block, anchor, tx>> /\ pc = "sync"
    BY DEF tee_fs_htree_sync_to_storage
  <1>3. SUFFICES ASSUME NEW CONSTANT B, NEW CONSTANT Y, NEW CONSTANT h,
                        Working(B, Y, h), Filled(B, Y, h), Y # {}
                 PROVE  DiskOK' /\ Phase' /\ Simulation
    BY <1>2, PhaseOf, FirstRootStep DEF IInv
  <1>4. /\ ht = h /\ Backed(B) /\ Base(B) /\ IsTree(h) /\ h.dirty = {} /\ todo = <<>>
        /\ pending = Content(h) /\ AllReads(h) /\ h.counter = B.counter /\ B.counter \in Nat
        /\ B.counter >= 1 /\ head # NoHeads
    BY <1>2, <1>3, TreeFacts DEF Working, Filled, Backed, Grown, Base
  <1>5. PICK T : T = [h EXCEPT !.counter = B.counter + 1]
    OBVIOUS
  <1>6. /\ T.counter = B.counter + 1 /\ T.max = h.max /\ T.len = h.len /\ T.node = h.node
    BY <1>4, <1>5, CounterOnly
  <1>7. PICK s, new : s = (B.counter + 1) % 2 /\ new = HeadOf(T)
    OBVIOUS
  <1>8. [counter |-> ht.counter + 1, max |-> ht.max, len |-> ht.len, root |-> ht.node[1].hash] = new
    BY <1>4, <1>6, <1>7 DEF HeadOf
  <1>9. \/ head' = [head EXCEPT ![s] = new] /\ ht' = T /\ pc' = "commit" /\ UNCHANGED <<todo, pending>>
        \/ head' = [head EXCEPT ![s] = new] /\ tee_fs_htree_close
        \/ head' = [head EXCEPT ![s] = head[s]] /\ tee_fs_htree_close
    <2>1. ht.counter + 1 = B.counter + 1 /\ B.counter + 1 # 1
      BY <1>4
    <2> QED
      BY <1>2, <1>4, <1>5, <1>7, <1>8, <2>1 DEF update_root
  <1>10. Content(h) # NULL /\ Content(T)' = Content(T)
    BY <1>1, <1>4, ContentFacts, NullAssumption DEF Content
  <1>11. ASSUME head' = [head EXCEPT ![s] = new]
         PROVE  /\ DiskOK' /\ Base(T)' /\ Base(B)'
                /\ T.counter = B.counter + 1 /\ T.node[1].hash # B.node[1].hash
                /\ Anchor = "counter" => Chosen(T)'
                /\ Anchor = "hash" => Backed(B)'
                /\ Content(T) = Content(h)
    BY <1>1, <1>2, <1>3, <1>4, <1>5, <1>7, <1>11, NextBase
  <1>12. ASSUME head' = [head EXCEPT ![s] = new], Anchor = "counter", pending' \in {pending, NULL}
         PROVE  Simulation
    <2>1. NoFile \/ \E X : Stored(X)
      BY SomethingStored DEF IInv
    <2>2. PICK f : Shows(f)
      BY <2>1, FileShown
    <2>3. PICK g : g = Content(T)
      OBVIOUS
    <2>4. Stored(T)'
      BY <1>11, <1>12 DEF Stored
    <2>5. Shows(g)'
      BY <1>10, <2>3, <2>4 DEF Shows
    <2>6. Simulates(f, g, pending, pending')
      BY <1>4, <1>10, <1>11, <1>12, <2>3 DEF Simulates
    <2> QED
      BY <2>2, <2>5, <2>6 DEF Simulation
  <1>13. CASE head' = [head EXCEPT ![s] = new] /\ ht' = T /\ pc' = "commit" /\ UNCHANGED <<todo, pending>>
    <2>1. CASE Anchor = "counter"
      <3>1. Anchor' = "counter"
        BY <2>1 DEF Anchor
      <3>2. Committing(B, T)'
        BY <1>4, <1>10, <1>11, <1>13, <2>1, <3>1 DEF Committing
      <3> QED
        BY <1>11, <1>12, <1>13, <2>1, <3>2 DEF Phase
    <2>2. CASE Anchor = "hash"
      <3>1. Anchor' = "hash"
        BY <2>2 DEF Anchor
      <3>2. Committing(B, T)'
        BY <1>4, <1>10, <1>11, <1>13, <2>2, <3>1 DEF Committing
      <3>3. PICK f : Shows(f) /\ Shows(f)'
        BY <1>2, <1>4, <1>11, <1>13, <2>2, BackedShows
      <3>4. Simulation
        BY <1>13, <3>3 DEF Simulation, Simulates
      <3> QED
        BY <1>11, <1>13, <3>2, <3>4 DEF Phase
    <2> QED
      BY <1>1, <2>1, <2>2
  <1>14. CASE head' = [head EXCEPT ![s] = new] /\ tee_fs_htree_close
    <2>1. CASE Anchor = "counter"
      <3>1. ~Creating
        BY <1>2, <1>4, <2>1 DEF Creating
      <3>2. ht' = NULL /\ pending' = NULL /\ todo' = <<>> /\ pc' = "idle"
        BY <1>14, <3>1 DEF tee_fs_htree_close, Forget
      <3>3. Stored(T)'
        BY <1>11, <1>14, <2>1 DEF Stored
      <3>4. Closed'
        BY <3>2, <3>3 DEF Closed
      <3> QED
        BY <1>11, <1>12, <1>14, <2>1, <3>2, <3>4 DEF Phase
    <2>2. CASE Anchor = "hash"
      <3>1. ht.counter # 0
        BY <1>4
      <3>2. Closed' /\ Simulation
        BY <1>2, <1>4, <1>11, <1>14, <2>2, <3>1, FailedUpdate
      <3> QED
        BY <1>11, <1>14, <3>2 DEF Phase
    <2> QED
      BY <1>1, <2>1, <2>2
  <1>15. CASE head' = [head EXCEPT ![s] = head[s]] /\ tee_fs_htree_close
    <2>1. UNCHANGED disk
      <3>1. head = [v \in Vers |-> head[v]]
        BY <1>1, <1>4 DEF DiskOK
      <3>2. head' = head
        BY <1>15, <3>1
      <3> QED
        BY <1>2, <3>2 DEF disk
    <2>2. Backed(B)' /\ DiskOK'
      BY <1>1, <1>2, <1>4, <2>1, SameFile
    <2>3. ht.counter # 0
      BY <1>4
    <2>4. Closed' /\ Simulation
      BY <1>2, <1>4, <1>15, <2>2, <2>3, FailedUpdate
    <2> QED
      BY <2>2, <2>4 DEF Phase
  <1> QED
    BY <1>9, <1>13, <1>14, <1>15

-----------------------------------------------------------------------------
(* A node is written *)

NodeSet(i, v, d) == node' = [node EXCEPT ![i][v] = d]
HeadsOK == head = NoHeads \/ head = [w \in Vers |-> head[w]]

LEMMA NodeWritten ==
    ASSUME DiskOK, NEW i \in Nodes, NEW v \in Vers, NEW d, \A n \in d : IsNode(n),
           NodeSet(i, v, d), UNCHANGED block, HeadsOK'
    PROVE  /\ DiskOK' /\ node'[i][v] = d
           /\ \A j \in Nodes, w \in Vers : j # i \/ w # v => node'[j][w] = node[j][w]
  <1>1. node = [j \in Nodes |-> [w \in Vers |-> node[j][w]]]
    BY DEF DiskOK
  <1>2. PICK R : R = [node[i] EXCEPT ![v] = d]
    OBVIOUS
  <1>3. node[i] = [w \in Vers |-> node[i][w]]
    BY <1>1
  <1>4. /\ R = [w \in Vers |-> R[w]] /\ R[v] = d
        /\ \A w \in Vers : w # v => R[w] = node[i][w]
    BY <1>2, <1>3
  <1>5. node' = [node EXCEPT ![i] = R]
    BY <1>1, <1>2 DEF NodeSet
  <1>6. node' = [j \in Nodes |-> node'[j]] /\ node'[i] = R /\ \A j \in Nodes : j # i => node'[j] = node[j]
    BY <1>1, <1>5
  <1>7. /\ node'[i][v] = d
        /\ \A j \in Nodes, w \in Vers : j # i \/ w # v => node'[j][w] = node[j][w]
    BY <1>4, <1>6
  <1>8. \A j \in Nodes : node'[j] = [w \in Vers |-> node'[j][w]]
    BY <1>1, <1>4, <1>6
  <1>9. node' = [j \in Nodes |-> [w \in Vers |-> node'[j][w]]]
    BY <1>6, <1>8
  <1>10. \A j \in Nodes, w \in Vers : \A n \in node'[j][w] : IsNode(n)
    BY <1>7 DEF DiskOK
  <1>11. DiskOK'
    BY <1>9, <1>10 DEF DiskOK, HeadsOK
  <1> QED
    BY <1>7, <1>11

\* What htree_sync_node_to_storage() of node i makes of tree t
NodeSynced(t, i, h) ==
    /\ IsTree(h) /\ h.counter = t.counter /\ h.max = t.max /\ h.len = t.len
    /\ h.dirty = (IF i = 1 THEN t.dirty ELSE t.dirty \cup {i \div 2}) \ {i}
    /\ h.updated = t.updated \ {i}
    /\ \A j \in Nodes : h.node[j].blk = t.node[j].blk /\ h.node[j].tag = t.node[j].tag
    /\ h.node[i].hash = calc_node_hash(h, i)
    /\ \A j \in Nodes \ {i} : h.node[j].hash = t.node[j].hash
    /\ \A j \in Nodes, c \in Vers :
          h.node[j].child[c] = IF i # 1 /\ j = i \div 2 /\ c = i % 2 THEN 1 - t.node[j].child[c]
                               ELSE t.node[j].child[c]
    /\ \A j \in Nodes \ {i} : (i # 1 => j # i \div 2) => h.node[j] = t.node[j]

\* Only the hash of node i, of the dirty tree g, is new.
WithHash(g, i) ==
    [g EXCEPT !.node[i].hash = calc_node_hash(g, i), !.dirty = @ \ {i}, !.updated = @ \ {i}]
HashIsSet(g, i, h) ==
    /\ IsTree(h) /\ h.counter = g.counter /\ h.max = g.max /\ h.len = g.len
    /\ h.dirty = g.dirty \ {i} /\ h.updated = g.updated \ {i}
    /\ \A j \in Nodes \ {i} : h.node[j] = g.node[j]
    /\ h.node[i].blk = g.node[i].blk /\ h.node[i].child = g.node[i].child
    /\ h.node[i].tag = g.node[i].tag /\ h.node[i].hash = calc_node_hash(h, i)

LEMMA HashSet ==
    ASSUME NEW g, IsTree(g), NEW i \in g.dirty, NEW h, h = WithHash(g, i)
    PROVE  HashIsSet(g, i, h)
  <1>1. PICK X : X = calc_node_hash(g, i)
    OBVIOUS
  <1>2. PICK N, D, U : N = [g.node EXCEPT ![i].hash = X] /\ D = g.dirty \ {i} /\ U = g.updated \ {i}
    OBVIOUS
  <1>3. /\ g = [counter |-> g.counter, max |-> g.max, len |-> g.len, node |-> g.node,
                dirty |-> g.dirty, updated |-> g.updated]
        /\ g.node = [j \in Nodes |-> g.node[j]] /\ i \in Nodes /\ i \in Present(g)
    BY TreeFacts DEF IsTree
  <1>4. h = [counter |-> g.counter, max |-> g.max, len |-> g.len, node |-> N,
             dirty |-> D, updated |-> U]
    BY <1>1, <1>2, <1>3 DEF WithHash
  <1>5. /\ h.counter = g.counter /\ h.max = g.max /\ h.len = g.len /\ h.node = N /\ h.dirty = D
        /\ h.updated = U /\ Present(h) = Present(g)
    BY <1>4 DEF Present
  <1>6. /\ N = [j \in Nodes |-> N[j]] /\ \A j \in Nodes \ {i} : N[j] = g.node[j]
        /\ N[i] = [g.node[i] EXCEPT !.hash = X]
    BY <1>2, <1>3
  <1>7. N[i] = [blk |-> g.node[i].blk, child |-> g.node[i].child, tag |-> g.node[i].tag, hash |-> X]
    <2>1. PICK n : n = g.node[i]
      OBVIOUS
    <2>2. n = [blk |-> n.blk, child |-> n.child, tag |-> n.tag, hash |-> n.hash]
      <3>1. IsNode(n)
        BY <1>3, <2>1, TreeFacts
      <3> QED
        BY <3>1 DEF IsNode
    <2>3. [n EXCEPT !.hash = X] = [blk |-> n.blk, child |-> n.child, tag |-> n.tag, hash |-> X]
      BY <2>2
    <2> QED
      BY <1>6, <2>1, <2>3
  <1>8. /\ N[i].blk = g.node[i].blk /\ N[i].child = g.node[i].child
        /\ N[i].tag = g.node[i].tag /\ N[i].hash = X
    BY <1>7
  <1>9. ASSUME NEW j \in Nodes PROVE IsNode(N[j])
    <2>1. CASE j = i
      <3>1. IsNode(g.node[i])
        BY <1>3, TreeFacts
      <3> QED
        BY <1>7, <1>8, <2>1, <3>1 DEF IsNode
    <2>2. CASE j # i
      BY <1>6, <2>2, TreeFacts
    <2> QED
      BY <2>1, <2>2
  <1>10. IsTree(h)
    <2>1. g.counter \in Nat /\ g.max \in 0..MaxBlocks /\ g.len \in 0..MaxLen
      BY DEF IsTree
    <2>2. D \subseteq Present(h) /\ U \subseteq D
      BY <1>2, <1>5 DEF IsTree
    <2>3. \A j \in Nodes \ Present(h) : N[j] = BlankNode
      BY <1>3, <1>5, <1>6 DEF IsTree
    <2>4. N = [j \in Nodes |-> N[j]] /\ \A j \in Nodes : IsNode(N[j])
      BY <1>6, <1>9
    <2> QED
      BY <1>4, <2>1, <2>2, <2>3, <2>4, MakeTree
  <1>11. calc_node_hash(h, i) = X
    <2>1. ASSUME NEW c \in Vers
          PROVE  {h.node[j].hash : j \in {2 * i + c} \cap Present(h)}
                   = {g.node[j].hash : j \in {2 * i + c} \cap Present(g)}
      <3>1. 2 * i + c # i /\ Present(g) \subseteq Nodes
        BY <1>3, RootIsNode, TreeFacts DEF Vers
      <3>2. \A j \in {2 * i + c} \cap Present(g) : N[j] = g.node[j]
        BY <1>6, <3>1
      <3> QED
        BY <1>5, <3>2
    <2>2. [c \in Vers |-> {h.node[j].hash : j \in {2 * i + c} \cap Present(h)}]
            = [c \in Vers |-> {g.node[j].hash : j \in {2 * i + c} \cap Present(g)}]
      BY <2>1
    <2> QED
      BY <1>1, <1>5, <1>8, <2>2 DEF calc_node_hash
  <1> QED
    BY <1>2, <1>5, <1>6, <1>8, <1>10, <1>11 DEF HashIsSet

\* In its parent p, the flag of child b is changed.
WithChild(t, p, b) ==
    [t EXCEPT !.node[p].child[b] = 1 - @, !.dirty = @ \cup {p}]
ChildIsMarked(t, p, b, g) ==
    /\ IsTree(g) /\ g.counter = t.counter /\ g.max = t.max /\ g.len = t.len
    /\ g.dirty = t.dirty \cup {p} /\ g.updated = t.updated
    /\ \A j \in Nodes : j # p => g.node[j] = t.node[j]
    /\ \A j \in Nodes : /\ g.node[j].blk = t.node[j].blk
                        /\ g.node[j].tag = t.node[j].tag /\ g.node[j].hash = t.node[j].hash
    /\ \A j \in Nodes, c \in Vers :
          g.node[j].child[c] = IF j = p /\ c = b THEN 1 - t.node[j].child[c]
                               ELSE t.node[j].child[c]

LEMMA ParentMarked ==
    ASSUME NEW t, IsTree(t), NEW p \in Present(t), NEW b \in Vers, NEW g, g = WithChild(t, p, b)
    PROVE  ChildIsMarked(t, p, b, g)
  <1>2. p \in Nodes
    BY TreeFacts
  <1>3. PICK N, D : N = [t.node EXCEPT ![p].child[b] = 1 - @] /\ D = t.dirty \cup {p}
    OBVIOUS
  <1>4. /\ t = [counter |-> t.counter, max |-> t.max, len |-> t.len, node |-> t.node,
                dirty |-> t.dirty, updated |-> t.updated]
        /\ t.node = [j \in Nodes |-> t.node[j]]
    BY DEF IsTree
  <1>5. g = [counter |-> t.counter, max |-> t.max, len |-> t.len, node |-> N,
             dirty |-> D, updated |-> t.updated]
    BY <1>3, <1>4 DEF WithChild
  <1>6. /\ g.counter = t.counter /\ g.max = t.max /\ g.len = t.len /\ g.node = N /\ g.dirty = D
        /\ g.updated = t.updated /\ Present(g) = Present(t)
    BY <1>5 DEF Present
  <1>7. /\ N = [j \in Nodes |-> N[j]] /\ \A j \in Nodes : j # p => N[j] = t.node[j]
        /\ N[p] = [t.node[p] EXCEPT !.child[b] = 1 - @]
    BY <1>2, <1>3, <1>4
  <1>8. PICK C : C = [t.node[p].child EXCEPT ![b] = 1 - @]
    OBVIOUS
  <1>9. /\ IsNode(t.node[p]) /\ t.node[p].child \in [Vers -> Vers]
        /\ t.node[p] = [blk |-> t.node[p].blk, child |-> t.node[p].child, tag |-> t.node[p].tag,
                        hash |-> t.node[p].hash]
    BY <1>2, TreeFacts DEF IsNode
  <1>10. /\ C \in [Vers -> Vers] /\ C[b] = 1 - t.node[p].child[b]
         /\ \A c \in Vers : c # b => C[c] = t.node[p].child[c]
    <2>1. t.node[p].child[b] \in Vers
      BY <1>2, <1>9
    <2>2. 1 - t.node[p].child[b] \in Vers
      BY <2>1, SmallFacts
    <2> QED
      BY <1>2, <1>8, <1>9, <2>2
  <1>11. N[p] = [blk |-> t.node[p].blk, child |-> C, tag |-> t.node[p].tag, hash |-> t.node[p].hash]
    BY <1>7, <1>8, <1>9
  <1>12. /\ N[p].blk = t.node[p].blk /\ N[p].child = C /\ N[p].tag = t.node[p].tag
         /\ N[p].hash = t.node[p].hash
    BY <1>11
  <1>13. ASSUME NEW j \in Nodes PROVE IsNode(N[j])
    <2>1. CASE j = p
      BY <1>9, <1>10, <1>11, <1>12, <2>1 DEF IsNode
    <2>2. CASE j # p
      BY <1>7, <2>2, TreeFacts
    <2> QED
      BY <2>1, <2>2
  <1>14. IsTree(g)
    <2>1. t.counter \in Nat /\ t.max \in 0..MaxBlocks /\ t.len \in 0..MaxLen
      BY DEF IsTree
    <2>2. D \subseteq Present(g) /\ t.updated \subseteq D
      BY <1>2, <1>3, <1>6 DEF IsTree
    <2>3. \A j \in Nodes \ Present(g) : N[j] = BlankNode
      BY <1>2, <1>6, <1>7 DEF IsTree
    <2>4. N = [j \in Nodes |-> N[j]] /\ \A j \in Nodes : IsNode(N[j])
      BY <1>7, <1>13
    <2> QED
      BY <1>5, <2>1, <2>2, <2>3, <2>4, MakeTree
  <1>15. \A j \in Nodes : N[j].blk = t.node[j].blk /\ N[j].tag = t.node[j].tag /\ N[j].hash = t.node[j].hash
    BY <1>7, <1>12
  <1>16. \A j \in Nodes, c \in Vers :
            N[j].child[c] = IF j = p /\ c = b THEN 1 - t.node[j].child[c] ELSE t.node[j].child[c]
    BY <1>7, <1>10, <1>12
  <1> QED
    BY <1>3, <1>6, <1>7, <1>14, <1>15, <1>16 DEF ChildIsMarked

LEMMA SyncOfNode ==
    ASSUME NEW t, IsTree(t), NEW i \in t.dirty, NEW g, NEW h,
           g = IF i = 1 THEN t ELSE WithChild(t, i \div 2, i % 2), h = WithHash(g, i)
    PROVE  NodeSynced(t, i, h) /\ (i # 1 => g.node[i \div 2].child[i % 2] = h.node[i \div 2].child[i % 2])
  <1>0. i \in Nodes /\ i \in Nat /\ i \in Present(t)
    BY TreeFacts, RootIsNode
  <1>1. CASE i = 1
    <2>1. HashIsSet(t, i, h)
      BY <1>1, HashSet
    <2>2. \A j \in Nodes : /\ h.node[j].blk = t.node[j].blk /\ h.node[j].tag = t.node[j].tag
                           /\ h.node[j].child = t.node[j].child
      BY <2>1 DEF HashIsSet
    <2> QED
      BY <1>1, <2>1, <2>2 DEF NodeSynced, HashIsSet
  <1>2. CASE i # 1
    <2>1. PICK p, b : p = i \div 2 /\ b = i % 2
      OBVIOUS
    <2>2. p \in Nodes /\ p # i /\ b \in Vers /\ p \in Present(t)
      BY <1>0, <1>2, <2>1, ParentIsNode, Halves, RootIsNode, TreeFacts
    <2>3. ChildIsMarked(t, p, b, g)
      BY <1>2, <2>1, <2>2, ParentMarked
    <2>4. i \in g.dirty /\ IsTree(g)
      BY <2>3 DEF ChildIsMarked
    <2>5. HashIsSet(g, i, h)
      BY <2>4, HashSet
    <2>6. \A j \in Nodes : /\ h.node[j].blk = g.node[j].blk /\ h.node[j].tag = g.node[j].tag
                           /\ h.node[j].child = g.node[j].child
      BY <2>5 DEF HashIsSet
    <2>7. \A j \in Nodes : h.node[j].blk = t.node[j].blk /\ h.node[j].tag = t.node[j].tag
      BY <2>3, <2>6 DEF ChildIsMarked
    <2>8. \A j \in Nodes, c \in Vers :
            h.node[j].child[c] = IF j = p /\ c = b THEN 1 - t.node[j].child[c]
                                 ELSE t.node[j].child[c]
      BY <2>3, <2>6 DEF ChildIsMarked
    <2>9. /\ \A j \in Nodes \ {i} : h.node[j].hash = t.node[j].hash
          /\ \A j \in Nodes \ {i} : j # p => h.node[j] = t.node[j]
      BY <2>3, <2>5 DEF HashIsSet, ChildIsMarked
    <2>10. /\ IsTree(h) /\ h.counter = t.counter /\ h.max = t.max /\ h.len = t.len
           /\ h.dirty = (t.dirty \cup {p}) \ {i} /\ h.updated = t.updated \ {i}
           /\ h.node[i].hash = calc_node_hash(h, i)
      BY <2>3, <2>5 DEF HashIsSet, ChildIsMarked
    <2>11. NodeSynced(t, i, h)
      BY <1>2, <2>1, <2>7, <2>8, <2>9, <2>10 DEF NodeSynced
    <2> QED
      BY <2>1, <2>2, <2>6, <2>11
  <1> QED
    BY <1>1, <1>2

\* The invariant of the sync: node i, the first dirty one, joins those written.
LEMMA SyncedGrown ==
    ASSUME NEW B, NEW Y, NEW t, NEW i \in t.dirty, NEW h, IsTree(B), verify_tree(B),
           Grown(B, Y, t), \A j \in t.dirty \ {i} : Precedes(i, j), NodeSynced(t, i, h)
    PROVE  Grown(B, Y \cup {i}, h)
  <1>1. PICK Z : Z = Y \cup {i}
    OBVIOUS
  <1>2. /\ IsTree(t) /\ IsTree(h) /\ Present(h) = Present(t) /\ Present(t) \subseteq Nodes
        /\ i \in Present(t) /\ i \in Nodes /\ i \in Nat /\ 1 \in Nodes /\ 1 \in Present(B)
        /\ Y \subseteq Present(t) /\ Present(B) \subseteq Present(t) /\ t.dirty \subseteq Nodes
    BY TreeFacts, RootIsNode DEF Grown, NodeSynced, Present
  <1>3. ASSUME NEW j \in t.dirty PROVE Ancestors[j] \cap Y = {} /\ j \notin Y
    <2>1. j \in Nodes
      BY <1>2
    <2>2. j \in Ancestors[j]
      BY <2>1, AncestorFacts
    <2> QED
      BY <2>2 DEF Grown
  <1>4. i \notin Y
    BY <1>3
  <1>5. i # 1 => /\ i \div 2 \in Nodes /\ i \div 2 < i /\ i \div 2 # i /\ i \div 2 \in Nat
                 /\ Ancestors[i] = {i} \cup Ancestors[i \div 2]
                 /\ i \div 2 \in Ancestors[i \div 2] /\ i \div 2 \notin Y
    <2>1. i # 1 => /\ i \div 2 \in Nodes /\ i \div 2 < i /\ i \div 2 \in Nat
                   /\ Ancestors[i] = {i} \cup Ancestors[i \div 2]
                   /\ i \div 2 \in Ancestors[i \div 2]
      BY <1>2, ParentIsNode, RootIsNode, AncestorFacts
    <2> QED
      BY <1>2, <1>3, <2>1
  <1>6. /\ h.dirty = (IF i = 1 THEN t.dirty ELSE t.dirty \cup {i \div 2}) \ {i}
        /\ h.updated = t.updated \ {i} /\ h.len = t.len /\ h.counter = t.counter
        /\ \A j \in Nodes : h.node[j].blk = t.node[j].blk /\ h.node[j].tag = t.node[j].tag
        /\ h.node[i].hash = calc_node_hash(h, i)
        /\ \A j \in Nodes \ {i} : h.node[j].hash = t.node[j].hash
        /\ \A j \in Nodes \ {i} : (i # 1 => j # i \div 2) => h.node[j] = t.node[j]
    BY DEF NodeSynced
  <1>7. ASSUME NEW j \in Nodes \ {1}
        PROVE  h.node[j \div 2].child[j % 2] = IF j = i THEN 1 - t.node[j \div 2].child[j % 2]
                                               ELSE t.node[j \div 2].child[j % 2]
    <2>1. PICK p, b : p = j \div 2 /\ b = j % 2
      OBVIOUS
    <2>2. p \in Nodes /\ b \in Vers /\ j \in Nat /\ j = 2 * p + b
      BY <2>1, ParentIsNode, Halves, RootIsNode
    <2>3. h.node[p].child[b] = IF i # 1 /\ p = i \div 2 /\ b = i % 2 THEN 1 - t.node[p].child[b]
                               ELSE t.node[p].child[b]
      BY <2>2 DEF NodeSynced
    <2>4. (i # 1 /\ p = i \div 2 /\ b = i % 2) <=> j = i
      <3>1. i = 2 * (i \div 2) + (i % 2)
        BY <1>2, RootIsNode, Halves
      <3> QED
        BY <2>1, <2>2, <3>1
    <2> QED
      BY <2>1, <2>3, <2>4
  <1>8. ASSUME NEW j \in Present(h) \ (h.dirty \cup Z) PROVE j \in Present(B) /\ h.node[j] = B.node[j]
    <2>1. j # i /\ j \notin Y /\ j \notin t.dirty /\ (i # 1 => j # i \div 2) /\ j \in Nodes
      BY <1>1, <1>2, <1>6
    <2>2. h.node[j] = t.node[j]
      BY <1>6, <2>1
    <2>3. j \in Present(B) /\ t.node[j] = B.node[j]
      BY <1>2, <2>1 DEF Grown
    <2> QED
      BY <2>2, <2>3
  <1>9. ASSUME NEW j \in Nodes \ {1}
        PROVE  h.node[j \div 2].child[j % 2] = IF j \in Z THEN 1 - B.node[j \div 2].child[j % 2]
                                               ELSE B.node[j \div 2].child[j % 2]
    <2>1. t.node[j \div 2].child[j % 2] = IF j \in Y THEN 1 - B.node[j \div 2].child[j % 2]
                                          ELSE B.node[j \div 2].child[j % 2]
      BY DEF Grown
    <2>2. CASE j = i
      BY <1>1, <1>4, <1>7, <2>1, <2>2
    <2>3. CASE j # i
      BY <1>1, <1>7, <2>1, <2>3
    <2> QED
      BY <2>2, <2>3
  <1>10. ASSUME NEW j \in Z \ {1} PROVE j \div 2 \in h.dirty \cup Z
    <2>1. CASE j = i
      BY <1>5, <1>6, <1>10, <2>1
    <2>2. CASE j # i
      <3>1. j \div 2 \in t.dirty \cup Y
        BY <1>1, <1>10, <2>2 DEF Grown
      <3> QED
        BY <1>1, <1>6, <3>1
    <2> QED
      BY <2>1, <2>2
  <1>11. ASSUME NEW j \in Z PROVE h.node[j].hash = calc_node_hash(h, j)
    <2>1. CASE j = i
      BY <1>6, <2>1
    <2>2. CASE j # i
      <3>1. j \in Y /\ j \in Nodes
        BY <1>1, <1>2, <2>2
      <3>2. t.node[j].hash = calc_node_hash(t, j)
        BY <3>1 DEF Grown
      <3>3. h.node[j] = t.node[j]
        BY <1>5, <1>6, <2>2, <3>1
      <3>4. ASSUME NEW c \in Vers
            PROVE  {h.node[k].hash : k \in {2 * j + c} \cap Present(h)}
                     = {t.node[k].hash : k \in {2 * j + c} \cap Present(t)}
        <4>1. 2 * j + c # 1 /\ (2 * j + c) \div 2 = j
          BY <3>1, ChildIsBelow
        <4>2. 2 * j + c # i
          BY <1>5, <3>1, <4>1
        <4>3. \A k \in {2 * j + c} \cap Present(t) : h.node[k].hash = t.node[k].hash
          BY <1>2, <1>6, <4>2
        <4> QED
          BY <1>2, <4>3
      <3>5. [c \in Vers |-> {h.node[k].hash : k \in {2 * j + c} \cap Present(h)}]
              = [c \in Vers |-> {t.node[k].hash : k \in {2 * j + c} \cap Present(t)}]
        BY <3>4
      <3>6. calc_node_hash(h, j) = calc_node_hash(t, j)
        BY <1>6, <3>3, <3>5 DEF calc_node_hash
      <3> QED
        BY <3>2, <3>3, <3>6
    <2> QED
      BY <2>1, <2>2
  <1>12. ASSUME NEW j \in h.dirty PROVE Ancestors[j] \cap Z = {}
    <2>1. CASE j \in t.dirty
      <3>1. j # i /\ Precedes(i, j) /\ j \in Nodes
        BY <1>2, <1>6, <2>1
      <3>2. i \notin Ancestors[j]
        BY <1>2, <3>1, PrecedesFacts
      <3> QED
        BY <1>1, <1>3, <2>1, <3>2
    <2>2. CASE j \notin t.dirty
      <3>1. i # 1 /\ j = i \div 2
        BY <1>6, <2>2
      <3>2. Ancestors[j] \cap Y = {}
        BY <1>3, <1>5, <3>1
      <3>3. i \notin Ancestors[j]
        <4>1. i \in Ancestors[j] => i <= j
          BY <1>5, <3>1, AncestorFacts
        <4> QED
          BY <1>2, <1>5, <3>1, <4>1
      <3> QED
        BY <1>1, <3>2, <3>3
    <2> QED
      BY <2>1, <2>2
  <1>13. ASSUME 1 \in Z PROVE h.node[1].hash # B.node[1].hash
    <2>1. CASE i = 1
      <3>1. h.node[1].hash = calc_node_hash(h, 1) /\ B.node[1].hash = calc_node_hash(B, 1)
        BY <1>2, <1>6, <2>1 DEF verify_tree
      <3>2. \/ h.node[1].tag # B.node[1].tag \/ h.len # B.len
            \/ h.node[1].child # B.node[1].child
        <4>1. CASE 1 \in t.updated
          <5>1. t.node[1].tag # B.node[1].tag
            BY <1>2, <1>4, <2>1, <4>1 DEF Grown
          <5> QED
            BY <1>2, <1>6, <5>1
        <4>2. CASE t.len > B.len
          BY <1>2, <1>6, <4>2, TreeFacts
        <4>3. CASE \E j \in Y \ {1} : j \div 2 = 1
          <5>1. PICK j \in Y \ {1} : j \div 2 = 1
            BY <4>3
          <5>2. j \in Nodes \ {1} /\ j % 2 \in Vers
            BY <1>2, <5>1, Halves, RootIsNode
          <5>3. h.node[1].child[j % 2] = 1 - B.node[1].child[j % 2]
            BY <1>1, <1>9, <5>1, <5>2
          <5>4. B.node[1].child[j % 2] \in Vers
            BY <1>2, <5>2, TreeFacts
          <5>5. h.node[1].child[j % 2] # B.node[1].child[j % 2]
            BY <5>3, <5>4, SmallFacts
          <5> QED
            BY <5>5
        <4>4. 1 \in t.dirty
          BY <2>1
        <4> QED
          BY <4>1, <4>2, <4>3, <4>4 DEF Grown
      <3>3. calc_node_hash(h, 1) # calc_node_hash(B, 1)
        <4>1. /\ calc_node_hash(h, 1).tag = h.node[1].tag /\ calc_node_hash(h, 1).len = h.len
              /\ calc_node_hash(h, 1).child = h.node[1].child
              /\ calc_node_hash(B, 1).tag = B.node[1].tag /\ calc_node_hash(B, 1).len = B.len
              /\ calc_node_hash(B, 1).child = B.node[1].child
          BY DEF calc_node_hash
        <4> QED
          BY <3>2, <4>1
      <3> QED
        BY <3>1, <3>3
    <2>2. CASE i # 1
      <3>1. 1 \in Y
        BY <1>1, <1>13, <2>2
      <3> QED
        BY <1>2, <1>6, <2>2, <3>1 DEF Grown
    <2> QED
      BY <2>1, <2>2
  <1>14. ASSUME 1 \in h.dirty
         PROVE  1 \in h.updated \/ h.len > B.len \/ \E j \in Z \ {1} : j \div 2 = 1
    <2>1. i # 1
      BY <1>6, <1>14
    <2>2. CASE 1 \in t.dirty
      <3>1. 1 \in t.updated \/ t.len > B.len \/ \E j \in Y \ {1} : j \div 2 = 1
        BY <2>2 DEF Grown
      <3> QED
        BY <1>1, <1>6, <2>1, <3>1
    <2>3. CASE 1 \notin t.dirty
      <3>1. i \div 2 = 1
        BY <1>6, <1>14, <2>1, <2>3
      <3> QED
        BY <1>1, <2>1, <3>1
    <2> QED
      BY <2>2, <2>3
  <1>15. ASSUME NEW j \in Nodes \ Z
         PROVE  IF j \in h.updated
                THEN h.node[j].blk = 1 - B.node[j].blk /\ h.node[j].tag # B.node[j].tag
                ELSE h.node[j].blk = B.node[j].blk
    <2>1. j # i /\ j \notin Y
      BY <1>1
    <2>2. IF j \in t.updated
          THEN t.node[j].blk = 1 - B.node[j].blk /\ t.node[j].tag # B.node[j].tag
          ELSE t.node[j].blk = B.node[j].blk
      BY <2>1 DEF Grown
    <2> QED
      BY <1>6, <2>1, <2>2
  <1>16. /\ h.counter = B.counter /\ B.len <= h.len /\ Present(B) \subseteq Present(h)
         /\ Z \subseteq Present(h)
    BY <1>1, <1>2, <1>6 DEF Grown
  <1>17. Grown(B, Z, h)
    BY <1>2, <1>8, <1>9, <1>10, <1>11, <1>12, <1>13, <1>14, <1>15, <1>16 DEF Grown
  <1> QED
    BY <1>1, <1>17

\* The step, with what it computes
SyncAction(i, g, h, v, d) ==
    /\ pc \in {"wrote", "sync"} /\ i \in ht.dirty
    /\ \A j \in ht.dirty \ {i} : Precedes(i, j)
    /\ g = IF i = 1 THEN ht ELSE WithChild(ht, i \div 2, i % 2)
    /\ h = WithHash(g, i)
    /\ v = IF i = 1 THEN 1 - (ht.counter % 2) ELSE g.node[i \div 2].child[i % 2]
    /\ d \in {node[i][v], {h.node[i]}, {}}
    /\ node' = [node EXCEPT ![i][v] = d]
    /\ \/ d = {h.node[i]} /\ ht' = h /\ pc' = "sync" /\ UNCHANGED <<todo, pending>>
       \/ tee_fs_htree_close
    /\ head' = (IF head = NoHeads THEN ZeroHeads ELSE head)
    /\ UNCHANGED <<block, anchor, tx>>

LEMMA SyncActionOf ==
    ASSUME htree_sync_node_to_storage
    PROVE  \E i, g, h, v, d : SyncAction(i, g, h, v, d)
  <1>1. PICK i \in ht.dirty :
          /\ \A j \in ht.dirty \ {i} : Precedes(i, j)
          /\ LET c == i % 2
                 g == IF i = 1 THEN ht
                      ELSE [ht EXCEPT !.node[i \div 2].child[c] = 1 - @,
                                      !.dirty = @ \cup {i \div 2}]
                 v == IF i = 1 THEN 1 - (ht.counter % 2)
                      ELSE g.node[i \div 2].child[c]
                 h == [g EXCEPT !.node[i].hash = calc_node_hash(g, i),
                                !.dirty = @ \ {i}, !.updated = @ \ {i}]
             IN  \E d \in {node[i][v], {h.node[i]}, {}} :
                    /\ node' = [node EXCEPT ![i][v] = d]
                    /\ Request(d, {h.node[i]},
                         ht' = h /\ pc' = "sync" /\ UNCHANGED <<todo, pending>>)
    BY DEF htree_sync_node_to_storage
  <1>2. PICK g : g = IF i = 1 THEN ht ELSE WithChild(ht, i \div 2, i % 2)
    OBVIOUS
  <1>3. PICK h : h = WithHash(g, i)
    OBVIOUS
  <1>4. PICK v : v = IF i = 1 THEN 1 - (ht.counter % 2) ELSE g.node[i \div 2].child[i % 2]
    OBVIOUS
  <1>5. \E d \in {node[i][v], {h.node[i]}, {}} :
           /\ node' = [node EXCEPT ![i][v] = d]
           /\ Request(d, {h.node[i]},
                ht' = h /\ pc' = "sync" /\ UNCHANGED <<todo, pending>>)
    BY <1>1, <1>2, <1>3, <1>4, Zenon DEF WithChild, WithHash
  <1>6. PICK d \in {node[i][v], {h.node[i]}, {}} :
           /\ node' = [node EXCEPT ![i][v] = d]
           /\ Request(d, {h.node[i]},
                ht' = h /\ pc' = "sync" /\ UNCHANGED <<todo, pending>>)
    BY <1>5
  <1>7. \/ d = {h.node[i]} /\ ht' = h /\ pc' = "sync" /\ UNCHANGED <<todo, pending>>
        \/ tee_fs_htree_close
    BY <1>6 DEF Request
  <1>8. /\ pc \in {"wrote", "sync"} /\ UNCHANGED <<block, anchor, tx>>
        /\ head' = (IF head = NoHeads THEN ZeroHeads ELSE head)
    BY DEF htree_sync_node_to_storage, ZeroHeads
  <1>9. SyncAction(i, g, h, v, d)
    BY <1>1, <1>2, <1>3, <1>4, <1>6, <1>7, <1>8 DEF SyncAction
  <1> QED
    BY <1>9

LEMMA NewTreeSynced ==
    ASSUME NEW t, t = NewTree({1}), NEW h, h = WithHash(t, 1)
    PROVE  h = NewTree({})
  <1>1. PICK X, e : X = calc_node_hash(BlankTree, 1) /\ e = {1}
    OBVIOUS
  <1>2. PICK N : N = [[i \in Nodes |-> BlankNode] EXCEPT ![1].hash = X]
    OBVIOUS
  <1>3. t = [counter |-> 0, max |-> 0, len |-> 0, node |-> N, dirty |-> e, updated |-> {}]
    BY <1>1, <1>2 DEF NewTree, BlankTree
  <1>4. PICK n : n = NewTree({})
    OBVIOUS
  <1>5. n = [counter |-> 0, max |-> 0, len |-> 0, node |-> N, dirty |-> {}, updated |-> {}]
    BY <1>1, <1>2, <1>4 DEF NewTree, BlankTree
  <1>6. N = [i \in Nodes |-> N[i]] /\ N[1] = [BlankNode EXCEPT !.hash = X] /\ 1 \in Nodes
    BY <1>2, RootIsNode
  <1>7. N[1] = [blk |-> 0, child |-> [c \in Vers |-> 0], tag |-> NULL, hash |-> X]
    BY <1>6 DEF BlankNode
  <1>8. calc_node_hash(t, 1) = X
    <2>1. calc_node_hash(t, 1) = t.node[1].hash
      BY NewTreeFields
    <2>2. t.node[1] = N[1] /\ N[1].hash = X
      BY <1>3, <1>7
    <2> QED
      BY <2>1, <2>2
  <1>9. [N EXCEPT ![1].hash = X] = N
    <2>1. [N[1] EXCEPT !.hash = X] = N[1]
      BY <1>7
    <2> QED
      BY <1>6, <2>1
  <1>10. PICK D, U : D = e \ {1} /\ U = {} \ {1}
    OBVIOUS
  <1>11. h = [counter |-> 0, max |-> 0, len |-> 0, node |-> [N EXCEPT ![1].hash = X],
              dirty |-> D, updated |-> U]
    <2>1. h = [t EXCEPT !.node[1].hash = X, !.dirty = @ \ {1}, !.updated = @ \ {1}]
      BY <1>8 DEF WithHash
    <2>2. h = [[counter |-> 0, max |-> 0, len |-> 0, node |-> N, dirty |-> e, updated |-> {}]
                 EXCEPT !.node[1].hash = X, !.dirty = @ \ {1}, !.updated = @ \ {1}]
      BY <1>3, <2>1
    <2> QED
      BY <1>10, <2>2
  <1>12. D = {} /\ U = {}
    BY <1>1, <1>10
  <1> QED
    BY <1>4, <1>5, <1>9, <1>11, <1>12

LEMMA FirstNodeStep ==
    ASSUME IInv, UNCHANGED setup, Fresh, htree_sync_node_to_storage
    PROVE  DiskOK' /\ Phase' /\ Simulation
  <1>1. PICK i, g, h, v, d : SyncAction(i, g, h, v, d)
    BY SyncActionOf
  <1>2. Ground /\ DiskOK /\ Anchor \in {"hash", "counter"}
    BY GroundFacts DEF IInv
  <1>3. /\ NoFile /\ pending = <<>> /\ todo = <<>> /\ head \in {NoHeads, ZeroHeads}
        /\ ht = NewTree({1}) /\ ht.counter = 0 /\ i = 1
    <2>1. ht = NewTree({}) => ht.dirty = {}
      BY NewTreeFields
    <2>2. ht = NewTree({1})
      BY <1>1, <2>1 DEF Fresh, SyncAction
    <2>3. ht.dirty = {1} /\ ht.counter = 0
      BY <2>2, NewTreeFields
    <2> QED
      BY <1>1, <2>2, <2>3 DEF Fresh, SyncAction
  <1>4. h = NewTree({})
    BY <1>1, <1>3, NewTreeSynced DEF SyncAction
  <1>5. /\ v = 1 /\ d \in {node[1][1], {h.node[1]}, {}} /\ node' = [node EXCEPT ![1][1] = d]
        /\ UNCHANGED <<block, anchor, tx>> /\ head' = ZeroHeads
    <2>1. 1 - (0 % 2) = 1
      OBVIOUS
    <2> QED
      BY <1>1, <1>3, <2>1 DEF SyncAction
  <1>6. DiskOK' /\ node'[1][1] = d
    <2>1. IsNode(h.node[1]) /\ 1 \in Nodes /\ 1 \in Vers
      BY <1>4, NewTreeFields, TreeFacts, RootIsNode DEF Vers
    <2>2. \A n \in d : IsNode(n)
      BY <1>2, <1>5, <2>1 DEF DiskOK
    <2>3. HeadsOK'
      BY <1>5 DEF ZeroHeads, HeadsOK
    <2>4. NodeSet(i, v, d) /\ i \in Nodes /\ v \in Vers /\ UNCHANGED block
      BY <1>3, <1>5, <2>1 DEF NodeSet
    <2>5. /\ DiskOK' /\ node'[i][v] = d
          /\ \A j \in Nodes, w \in Vers : j # i \/ w # v => node'[j][w] = node[j][w]
      BY <1>2, <2>2, <2>3, <2>4, NodeWritten
    <2> QED
      BY <1>3, <1>5, <2>5
  <1>7. NoFile'
    BY <1>3, <1>5 DEF NoFile, Anchor
  <1>8. PICK f : f = NothingStored
    OBVIOUS
  <1>9. NothingStored' = NothingStored
    BY DEF NothingStored, Anchor
  <1>10. Shows(f) /\ Shows(f)'
    BY <1>3, <1>7, <1>8, <1>9 DEF Shows
  <1>11. CASE d = {h.node[i]} /\ ht' = h /\ pc' = "sync" /\ UNCHANGED <<todo, pending>>
    <2>1. Fresh'
      BY <1>3, <1>4, <1>5, <1>6, <1>7, <1>11 DEF Fresh
    <2>2. Simulation
      BY <1>10, <1>11 DEF Simulation, Simulates
    <2> QED
      BY <1>6, <2>1, <2>2 DEF Phase
  <1>12. CASE tee_fs_htree_close
    <2>1. ht' = NULL /\ pending' = NULL /\ todo' = <<>> /\ pc' \in {"idle", "remove"}
      BY <1>12 DEF tee_fs_htree_close, Forget
    <2>2. Closed'
      BY <1>7, <2>1 DEF Closed
    <2>3. Simulation
      BY <1>10, <2>1 DEF Simulation, Simulates
    <2> QED
      BY <1>6, <2>2, <2>3 DEF Phase
  <1> QED
    BY <1>1, <1>11, <1>12 DEF SyncAction

LEMMA NodeStep ==
    ASSUME IInv, UNCHANGED setup, htree_sync_node_to_storage
    PROVE  DiskOK' /\ Phase' /\ Simulation
  <1>1. PICK i, g, h, v, d : SyncAction(i, g, h, v, d)
    BY SyncActionOf
  <1>2. Ground /\ DiskOK /\ Anchor \in {"hash", "counter"} /\ tx \in Nat /\ tx <= tx
    BY GroundFacts DEF IInv
  <1>3. SUFFICES ASSUME NEW CONSTANT B, NEW CONSTANT Y, NEW CONSTANT t,
                        Working(B, Y, t), Filled(B, Y, t)
                 PROVE  DiskOK' /\ Phase' /\ Simulation
    BY <1>1, PhaseOf, FirstNodeStep DEF IInv, SyncAction
  <1>4. /\ ht = t /\ Backed(B) /\ Base(B) /\ Grown(B, Y, t) /\ Written(B, Y, t) /\ TagsSoFar(t)
        /\ todo = <<>> /\ AllReads(t) /\ pending = Content(t) /\ pc # "dummy"
    BY <1>3 DEF Working, Filled, Backed
  <1>5. /\ IsTree(B) /\ verify_tree(B) /\ IsTree(t) /\ t.counter = B.counter /\ B.counter \in Nat
        /\ B.counter >= 1 /\ head # NoHeads /\ Present(t) \subseteq Nodes
    BY <1>4, TreeFacts DEF Base, Grown
  <1>6. /\ i \in t.dirty /\ i \in Nodes /\ NodeSynced(t, i, h)
        /\ i # 1 => g.node[i \div 2].child[i % 2] = h.node[i \div 2].child[i % 2]
    <2>1. i \in t.dirty
      BY <1>1, <1>4 DEF SyncAction
    <2>2. g = (IF i = 1 THEN t ELSE WithChild(t, i \div 2, i % 2)) /\ h = WithHash(g, i)
      BY <1>1, <1>4 DEF SyncAction
    <2>3. /\ NodeSynced(t, i, h)
          /\ i # 1 => g.node[i \div 2].child[i % 2] = h.node[i \div 2].child[i % 2]
      BY <1>5, <2>1, <2>2, SyncOfNode
    <2> QED
      BY <1>5, <2>1, <2>3, TreeFacts
  <1>7. PICK Z : Z = Y \cup {i}
    OBVIOUS
  <1>8. Grown(B, Z, h)
    BY <1>1, <1>4, <1>5, <1>6, <1>7, SyncedGrown DEF SyncAction
  <1>9. /\ IsTree(h) /\ h.len = t.len /\ h.max = t.max /\ Present(h) = Present(t)
        /\ \A j \in Nodes : h.node[j].blk = t.node[j].blk /\ h.node[j].tag = t.node[j].tag
    BY <1>6 DEF NodeSynced, Present
  <1>10. /\ v \in Vers
         /\ i = 1 => v = 1 - (B.counter % 2)
         /\ i # 1 => v = h.node[i \div 2].child[i % 2] /\ v = 1 - B.node[i \div 2].child[i % 2]
    <2>1. CASE i = 1
      BY <1>1, <1>4, <1>5, <2>1, SmallFacts DEF SyncAction
    <2>2. CASE i # 1
      <3>1. v = h.node[i \div 2].child[i % 2] /\ i \in Nodes \ {1} /\ i \in Z
        BY <1>1, <1>6, <1>7, <2>2 DEF SyncAction
      <3>2. h.node[i \div 2].child[i % 2] = 1 - B.node[i \div 2].child[i % 2]
        BY <1>8, <3>1 DEF Grown
      <3>3. i \div 2 \in Nodes /\ i % 2 \in Vers
        BY <3>1, ParentIsNode, Halves, RootIsNode
      <3>4. v \in Vers
        BY <1>9, <3>1, <3>3, TreeFacts
      <3> QED
        BY <2>2, <3>1, <3>2, <3>4
    <2> QED
      BY <2>1, <2>2
  <1>11. /\ d \in {node[i][v], {h.node[i]}, {}} /\ node' = [node EXCEPT ![i][v] = d]
         /\ UNCHANGED <<head, block, anchor, tx>>
    BY <1>1, <1>5 DEF SyncAction
  <1>12. /\ DiskOK' /\ node'[i][v] = d
         /\ \A j \in Nodes, w \in Vers : j # i \/ w # v => node'[j][w] = node[j][w]
    <2>1. IsNode(h.node[i])
      BY <1>6, <1>9, TreeFacts
    <2>2. \A n \in d : IsNode(n)
      BY <1>2, <1>6, <1>10, <1>11, <2>1 DEF DiskOK
    <2>3. HeadsOK' /\ NodeSet(i, v, d)
      BY <1>2, <1>11 DEF DiskOK, HeadsOK, NodeSet
    <2> QED
      BY <1>2, <1>6, <1>10, <1>11, <2>2, <2>3, NodeWritten
  <1>13. Base(B)'
    <2>1. node'[1][B.counter % 2] = node[1][B.counter % 2]
      <3>1. B.counter % 2 \in Vers /\ B.counter % 2 # 1 - (B.counter % 2) /\ 1 \in Nodes
        BY <1>5, SmallFacts, RootIsNode
      <3> QED
        BY <1>10, <1>12, <3>1
    <2>2. ASSUME NEW j \in Present(B), j # 1
          PROVE  node'[j][B.node[j \div 2].child[j % 2]] = node[j][B.node[j \div 2].child[j % 2]]
      <3>1. PICK w : w = B.node[j \div 2].child[j % 2]
        OBVIOUS
      <3>2. j \in Nodes /\ j \div 2 \in Nodes /\ j % 2 \in Vers
        BY <1>5, <2>2, TreeFacts, ParentIsNode, Halves, RootIsNode
      <3>3. w \in Vers /\ w # 1 - w
        BY <1>5, <3>1, <3>2, TreeFacts, SmallFacts
      <3>4. j = i => w # v
        BY <1>10, <2>2, <3>1, <3>3
      <3> QED
        BY <1>12, <3>1, <3>2, <3>3, <3>4
    <2>3. /\ head' # NoHeads /\ head'[B.counter % 2] = head[B.counter % 2] /\ tx' \in Nat /\ tx <= tx'
          /\ \A b \in 0..(CeilBlocks(B.len) - 1) :
                block'[b][B.node[b + 1].blk] = block[b][B.node[b + 1].blk]
      BY <1>2, <1>5, <1>11
    <2> QED
      BY <1>2, <1>4, <2>1, <2>2, <2>3, KeptBase
  <1>14. Backed(B)'
    <2>1. CASE NotLinked
      BY <1>11, <1>13, <2>1 DEF Backed, NotLinked, Anchor
    <2>2. CASE ~NotLinked /\ Anchor = "counter"
      <3>1. Chosen(B)
        BY <1>4, <2>2 DEF Backed
      <3>2. Chosen(B)'
        BY <1>11, <2>2, <3>1 DEF Chosen, Anchor
      <3> QED
        BY <1>13, <3>2 DEF Backed
    <2>3. CASE ~NotLinked /\ Anchor = "hash"
      <3>1. anchor = {B.node[1].hash} /\ RootHash(1 - (B.counter % 2)) # anchor
        BY <1>4, <2>3 DEF Backed, Chosen
      <3>2. 1 - (B.counter % 2) \in Vers /\ 1 \in Nodes
        BY <1>5, SmallFacts, RootIsNode
      <3>3. RootHash(1 - (B.counter % 2))' # anchor
        <4>1. CASE i = 1
          <5>1. v = 1 - (B.counter % 2) /\ node'[1][v] = d
            BY <1>10, <1>12, <4>1
          <5>2. h.node[1].hash # B.node[1].hash
            BY <1>7, <1>8, <4>1 DEF Grown
          <5>3. CASE d = node[1][v]
            BY <3>1, <5>1, <5>3 DEF RootHash
          <5>4. CASE d = {h.node[1]}
            <6>1. RootHash(1 - (B.counter % 2))' = {h.node[1].hash}
              BY <5>1, <5>4 DEF RootHash
            <6> QED
              BY <3>1, <5>2, <6>1
          <5>5. CASE d = {}
            <6>1. RootHash(1 - (B.counter % 2))' = {}
              BY <5>1, <5>5 DEF RootHash
            <6> QED
              BY <3>1, <6>1
          <5> QED
            BY <1>11, <4>1, <5>3, <5>4, <5>5
        <4>2. CASE i # 1
          <5>1. node'[1][1 - (B.counter % 2)] = node[1][1 - (B.counter % 2)]
            BY <1>12, <3>2, <4>2
          <5> QED
            BY <3>1, <5>1 DEF RootHash
        <4> QED
          BY <4>1, <4>2
      <3>4. Chosen(B)'
        BY <1>11, <2>3, <3>1, <3>3 DEF Chosen, Anchor
      <3> QED
        BY <1>13, <3>4 DEF Backed
    <2> QED
      BY <1>2, <2>1, <2>2, <2>3
  <1>15. CASE d = {h.node[i]} /\ ht' = h /\ pc' = "sync" /\ UNCHANGED <<todo, pending>>
    <2>1. Written(B, Z, h)'
      <3>1. ASSUME NEW j \in Z
            PROVE  node'[j][IF j = 1 THEN 1 - (B.counter % 2) ELSE h.node[j \div 2].child[j % 2]]
                     = {h.node[j]}
        <4>1. CASE j = i
          BY <1>10, <1>12, <1>15, <4>1
        <4>2. CASE j # i
          <5>1. j \in Y /\ j \in Nodes /\ j \notin t.dirty /\ (i # 1 => j # i \div 2)
            <6>1. j \in Y /\ j \in Nodes
              BY <1>4, <1>5, <1>7, <4>2 DEF Grown
            <6>2. Ancestors[i] \cap Y = {}
              BY <1>4, <1>6 DEF Grown
            <6>3. i # 1 => i \div 2 \in Ancestors[i]
              BY <1>6, AncestorFacts, ParentIsNode
            <6>4. j \in t.dirty => Ancestors[j] \cap Y = {} /\ j \in Ancestors[j]
              BY <1>4, <6>1, AncestorFacts DEF Grown
            <6> QED
              BY <6>1, <6>2, <6>3, <6>4
          <5>2. h.node[j] = t.node[j]
            BY <1>6, <4>2, <5>1 DEF NodeSynced
          <5>3. j # 1 => h.node[j \div 2].child[j % 2] = t.node[j \div 2].child[j % 2]
            <6>1. ASSUME j # 1
                  PROVE  h.node[j \div 2].child[j % 2] = t.node[j \div 2].child[j % 2]
              <7>1. j \in Nodes \ {1} /\ j \in Z /\ j \in Y
                BY <5>1, <6>1
              <7>2. h.node[j \div 2].child[j % 2] = 1 - B.node[j \div 2].child[j % 2]
                BY <1>8, <7>1 DEF Grown
              <7>3. t.node[j \div 2].child[j % 2] = 1 - B.node[j \div 2].child[j % 2]
                BY <1>4, <7>1 DEF Grown
              <7> QED
                BY <7>2, <7>3
            <6> QED
              BY <6>1
          <5>4. PICK w : w = IF j = 1 THEN 1 - (B.counter % 2) ELSE t.node[j \div 2].child[j % 2]
            OBVIOUS
          <5>5. node[j][w] = {t.node[j]}
            BY <1>4, <5>1, <5>4 DEF Written
          <5>6. w \in Vers
            BY <1>5, <5>1, <5>4, SmallFacts, TreeFacts, ParentIsNode, Halves, RootIsNode
          <5>7. node'[j][w] = node[j][w]
            BY <1>12, <4>2, <5>1, <5>6
          <5>8. w = IF j = 1 THEN 1 - (B.counter % 2) ELSE h.node[j \div 2].child[j % 2]
            BY <5>3, <5>4
          <5> QED
            BY <5>2, <5>5, <5>7, <5>8
        <4> QED
          BY <4>1, <4>2
      <3> QED
        BY <3>1 DEF Written
    <2>2. AllReads(h)' /\ TagsSoFar(h)' /\ Content(h)' = Content(t)
      <3>1. TagsSoFar(h)'
        BY <1>4, <1>9, <1>11 DEF TagsSoFar
      <3>2. AllReads(h)'
        <4>1. ASSUME NEW b \in 0..(CeilBlocks(h.len) - 1) PROVE BlockReads(h, b)'
          <5>1. BlockReads(t, b)
            BY <1>4, <1>9, <4>1 DEF AllReads
          <5>2. b + 1 \in Present(t) /\ block[b][t.node[b + 1].blk] = {t.node[b + 1].tag}
            BY <5>1 DEF BlockReads, BLOCK_NUM_TO_NODE_ID
          <5>3. b + 1 \in Nodes
            BY <1>5, <5>2
          <5> QED
            BY <1>9, <1>11, <5>2, <5>3 DEF BlockReads, BLOCK_NUM_TO_NODE_ID
        <4> QED
          BY <4>1 DEF AllReads
      <3>3. Content(h)' = Content(t)
        <4>1. ASSUME NEW y \in 1..t.len
              PROVE  h.node[((y - 1) \div UPB) + 1].tag = t.node[((y - 1) \div UPB) + 1].tag
          <5>1. PICK b : b = (y - 1) \div UPB
            OBVIOUS
          <5>2. b + 1 \in Nodes
            <6>1. t.len \in Nat /\ y - 1 \in Nat /\ y - 1 < t.len
              BY <1>5, TreeFacts
            <6>2. b \in Nat /\ b * UPB < t.len
              <7>1. PICK u : u = (y - 1) % UPB
                OBVIOUS
              <7>2. b \in Nat /\ u \in 0..(UPB - 1) /\ y - 1 = UPB * b + u
                BY <5>1, <6>1, <7>1, UnitPlace
              <7> QED
                BY <6>1, <7>2, SmallFacts
            <6>3. b \in 0..(CeilBlocks(t.len) - 1)
              BY <6>1, <6>2, CeilFacts
            <6> QED
              BY <1>2, <1>4, <1>5, <6>2, <6>3, ReadsFacts DEF AllReads
          <5> QED
            BY <1>9, <5>1, <5>2
        <4> QED
          BY <1>9, <4>1 DEF Content, BLOCK_NUM_TO_NODE_ID
      <3> QED
        BY <3>1, <3>2, <3>3
    <2>3. Filled(B, Z, h)'
      BY <1>4, <1>7, <1>15, <2>2 DEF Filled
    <2>4. Grown(B, Z, h)'
      BY <1>8 DEF Grown
    <2>5. Working(B, Z, h)'
      BY <1>14, <1>15, <2>1, <2>2, <2>3, <2>4 DEF Working
    <2>6. Phase'
      BY <2>5 DEF Phase
    <2>7. PICK f : Shows(f) /\ Shows(f)'
      BY <1>4, <1>11, <1>14, BackedShows
    <2> QED
      BY <1>12, <1>15, <2>6, <2>7 DEF Simulation, Simulates
  <1>16. CASE tee_fs_htree_close
    <2>1. ht.counter # 0
      BY <1>4, <1>5
    <2>2. Closed' /\ Simulation
      BY <1>4, <1>11, <1>14, <1>16, <2>1, FailedUpdate
    <2> QED
      BY <1>12, <2>2 DEF Phase
  <1> QED
    BY <1>1, <1>15, <1>16 DEF SyncAction

-----------------------------------------------------------------------------
(* An update starts *)

\* Position x is in block b.
LEMMA UnitBlock ==
    ASSUME NEW x \in Nat, NEW n \in Nat, x < n, NEW b, b = x \div UPB
    PROVE  /\ b \in Nat /\ b \in 0..(CeilBlocks(n) - 1) /\ x % UPB \in 0..(UPB - 1)
           /\ x = UPB * b + (x % UPB)
  <1>1. PICK u : u = x % UPB
    OBVIOUS
  <1>2. b \in Nat /\ u \in 0..(UPB - 1) /\ x = UPB * b + u /\ UPB \in Nat \ {0}
    BY <1>1, UnitPlace, SmallFacts
  <1>3. b * UPB < n
    BY <1>2
  <1>4. CeilBlocks(n) \in Nat /\ b < CeilBlocks(n)
    BY <1>2, <1>3, CeilFacts
  <1> QED
    BY <1>1, <1>2, <1>4

LEMMA UnitRead ==
    ASSUME DiskOK, NEW h, IsTree(h), NEW n \in Nat, Reading(h, n), NEW x \in Nat, x < n
    PROVE  Unit(h, x) \in 0..MaxTx /\ (x \div UPB) + 1 \in Nodes /\ h.node[(x \div UPB) + 1].tag \in Tags
  <1>1. PICK b, u : b = x \div UPB /\ u = x % UPB
    OBVIOUS
  <1>2. b \in Nat /\ b \in 0..(CeilBlocks(n) - 1) /\ u \in 0..(UPB - 1)
    BY <1>1, UnitBlock
  <1>3. h.node[b + 1].tag \in Tags /\ b + 1 \in Nodes
    BY <1>2, ReadsFacts DEF Reading
  <1>4. h.node[b + 1].tag.data[u] \in 0..MaxTx
    BY <1>2, <1>3, TagFacts
  <1> QED
    BY <1>1, <1>3, <1>4 DEF Unit

LEMMA LargerFacts ==
    ASSUME NEW a \in Nat, NEW b \in Nat
    PROVE  /\ Larger(a, b) \in Nat /\ Larger(a, b) >= a /\ Larger(a, b) >= b
           /\ \A x \in Nat : x < Larger(a, b) <=> x < a \/ x < b
  BY DEF Larger

LEMMA AfterContent ==
    ASSUME DiskOK, NEW h, IsTree(h), NEW r, IsRange(r), NEW s, IsRange(s), r.end <= s.end,
           Reading(h, Larger(h.len, r.pos))
    PROVE  After(h, r, s) \in Contents
  <1>2. /\ r.pos \in Nat /\ r.end \in Nat /\ s.end \in Nat /\ s.end <= MaxLen /\ h.len \in Nat
        /\ h.len <= MaxLen /\ r.val \in 0..MaxTx /\ s.val \in 0..MaxTx /\ MaxLen \in Nat
        /\ r.pos < r.end
    BY TreeFacts, SmallFacts DEF IsRange
  <1>3. PICK m, n : m = Larger(h.len, s.end) /\ n = Larger(h.len, r.pos)
    OBVIOUS
  <1>4. /\ m \in Nat /\ m <= MaxLen /\ n \in Nat
        /\ \A x \in Nat : x < m <=> x < h.len \/ x < s.end
        /\ \A x \in Nat : x < n <=> x < h.len \/ x < r.pos
    BY <1>2, <1>3 DEF Larger
  <1>5. ASSUME NEW y \in 1..m
        PROVE  (IF y - 1 >= r.pos /\ y - 1 < r.end THEN r.val
                ELSE IF y - 1 >= r.end /\ y - 1 < s.end THEN s.val
                ELSE Unit(h, y - 1)) \in 0..MaxTx
    <2>1. PICK x \in Nat : x = y - 1 /\ x < m
      BY <1>4
    <2>2. CASE x >= r.pos /\ x < r.end
      BY <1>2, <2>1, <2>2
    <2>3. CASE x >= r.end /\ x < s.end /\ ~(x >= r.pos /\ x < r.end)
      BY <1>2, <2>1, <2>3
    <2>4. CASE ~(x >= r.pos /\ x < r.end) /\ ~(x >= r.end /\ x < s.end)
      <3>1. x < n
        BY <1>2, <1>4, <2>1, <2>4
      <3>2. Unit(h, x) \in 0..MaxTx
        BY <1>3, <1>4, <3>1, UnitRead
      <3> QED
        BY <2>1, <2>4, <3>2
    <2> QED
      BY <2>2, <2>3, <2>4
  <1>6. After(h, r, s) \in [1..m -> 0..MaxTx]
    BY <1>3, <1>5 DEF After
  <1>7. m \in 0..MaxLen
    BY <1>2, <1>4
  <1> QED
    BY <1>6, <1>7 DEF Contents

LEMMA TwoRanges == ASSUME NEW r, NEW s PROVE <<r>> \o <<s>> = <<r, s>>
  <1>1. PICK S : S = {r, s}
    OBVIOUS
  <1>2. PICK a, b, c : a = <<r>> /\ b = <<s>> /\ c = <<r, s>>
    OBVIOUS
  <1>3. /\ a \in Seq(S) /\ b \in Seq(S) /\ c \in Seq(S)
        /\ Len(a) = 1 /\ Len(b) = 1 /\ Len(c) = 2 /\ a[1] = r /\ b[1] = s /\ c[1] = r /\ c[2] = s
    BY <1>1, <1>2
  <1>4. PICK x : x = a \o b
    OBVIOUS
  <1>5. x \in Seq(S) /\ Len(x) = 2 /\ x[1] = r /\ x[2] = s
    <2>1. /\ x \in Seq(S) /\ Len(x) = Len(a) + Len(b)
          /\ \A i \in 1..(Len(a) + Len(b)) : x[i] = IF i <= Len(a) THEN a[i] ELSE b[i - Len(a)]
      BY <1>3, <1>4, ConcatProperties
    <2>2. 1 \in 1..(Len(a) + Len(b)) /\ 2 \in 1..(Len(a) + Len(b)) /\ 2 - Len(a) = 1
      BY <1>3
    <2> QED
      BY <1>3, <2>1, <2>2
  <1>6. x = c
    <2>1. x = [i \in 1..2 |-> x[i]] /\ c = [i \in 1..2 |-> c[i]]
      BY <1>3, <1>5
    <2>2. \A i \in 1..2 : x[i] = c[i]
      BY <1>3, <1>5
    <2> QED
      BY <2>1, <2>2
  <1> QED
    BY <1>2, <1>4, <1>6

\* The ranges that ree_fs_write_primitive() has to write give what a write of n
\* units at pos does.
UnitsOf(h, p) == p = [y \in 1..h.len |-> Unit(h, y - 1)]
WholeRange(pos, n, d, s) == s = [pos |-> pos, end |-> pos + n, val |-> d]
FirstRange(h, pos, s, r) ==
    r = IF h.len < pos THEN [pos |-> h.len, end |-> pos, val |-> 0] ELSE s

LEMMA OverlayFills ==
    ASSUME NEW h, h.len \in Nat, NEW p, UnitsOf(h, p), NEW pos \in Nat, NEW n \in Nat \ {0},
           NEW d, NEW s, WholeRange(pos, n, d, s), NEW r, FirstRange(h, pos, s, r)
    PROVE  F!Overlay(p, pos, n, d) = After(h, r, s)
  <1> USE DEF UnitsOf, WholeRange, FirstRange
  <1>1. Len(p) = h.len /\ \A y \in 1..h.len : p[y] = Unit(h, y - 1)
    <2>1. DOMAIN p = 1..h.len
      OBVIOUS
    <2>2. PICK S : S = {Unit(h, y - 1) : y \in 1..h.len}
      OBVIOUS
    <2>3. p \in [1..h.len -> S]
      BY <2>2
    <2>4. p \in Seq(S)
      <3>1. PICK k \in Nat : k = h.len
        OBVIOUS
      <3>2. p \in [1..k -> S]
        BY <2>3, <3>1
      <3>3. \A q \in [1..k -> S] : q \in Seq(S)
        OBVIOUS
      <3> QED
        BY <3>2, <3>3, Zenon
    <2>5. Len(p) \in Nat /\ DOMAIN p = 1..Len(p)
      BY <2>4
    <2>6. Len(p) = h.len
      BY <2>1, <2>5
    <2> QED
      BY <2>6
  <1>2. s.pos = pos /\ s.end = pos + n /\ s.val = d
    OBVIOUS
  <1>3. r.pos = (IF h.len < pos THEN h.len ELSE pos)
    BY <1>2
  <1>4. r.end = (IF h.len < pos THEN pos ELSE pos + n)
    BY <1>2
  <1>5. r.val = (IF h.len < pos THEN 0 ELSE d)
    BY <1>2
  <1>6. PICK m \in Nat : m = IF pos + n > h.len THEN pos + n ELSE h.len
    OBVIOUS
  <1>7. Larger(h.len, s.end) = m
    <2>1. PICK a \in Nat, e \in Nat : a = h.len /\ e = pos + n
      OBVIOUS
    <2>2. Larger(a, e) = IF e > a THEN e ELSE a
      BY DEF Larger
    <2> QED
      BY <1>2, <1>6, <2>1, <2>2, Zenon
  <1>8. ASSUME NEW y \in 1..m
        PROVE  (CASE y > pos /\ y <= pos + n -> d
                  [] y <= pos /\ y > h.len   -> 0
                  [] OTHER                   -> p[y])
                = (IF y - 1 >= r.pos /\ y - 1 < r.end THEN r.val
                   ELSE IF y - 1 >= r.end /\ y - 1 < s.end THEN s.val
                   ELSE Unit(h, y - 1))
    <2>1. CASE y > pos /\ y <= pos + n
      <3>1. ~(y <= pos /\ y > h.len)
        BY <2>1
      <3>2. (CASE y > pos /\ y <= pos + n -> d
               [] y <= pos /\ y > h.len   -> 0
               [] OTHER                   -> p[y]) = d
        BY <2>1, <3>1
      <3>3. CASE h.len < pos
        <4>1. ~(y - 1 >= r.pos /\ y - 1 < r.end) /\ y - 1 >= r.end /\ y - 1 < s.end
          BY <1>2, <1>4, <2>1, <3>3
        <4> QED
          BY <1>2, <3>2, <4>1
      <3>4. CASE ~(h.len < pos)
        <4>1. y - 1 >= r.pos /\ y - 1 < r.end /\ r.val = d
          BY <1>3, <1>4, <1>5, <2>1, <3>4
        <4> QED
          BY <3>2, <4>1
      <3> QED
        BY <3>3, <3>4
    <2>2. CASE y <= pos /\ y > h.len
      <3>1. (CASE y > pos /\ y <= pos + n -> d
               [] y <= pos /\ y > h.len   -> 0
               [] OTHER                   -> p[y]) = 0
        BY <2>2
      <3>2. y - 1 >= r.pos /\ y - 1 < r.end /\ r.val = 0
        BY <1>3, <1>4, <1>5, <2>2
      <3> QED
        BY <3>1, <3>2
    <2>3. CASE ~(y > pos /\ y <= pos + n) /\ ~(y <= pos /\ y > h.len)
      <3>1. (CASE y > pos /\ y <= pos + n -> d
               [] y <= pos /\ y > h.len   -> 0
               [] OTHER                   -> p[y]) = p[y]
        BY <2>3
      <3>2. y \in 1..h.len
        BY <1>6, <2>3
      <3>3. p[y] = Unit(h, y - 1)
        BY <1>1, <3>2
      <3>4. ~(y - 1 >= r.pos /\ y - 1 < r.end) /\ ~(y - 1 >= r.end /\ y - 1 < s.end)
        BY <1>2, <1>3, <1>4, <2>3, <3>2
      <3> QED
        BY <3>1, <3>3, <3>4
    <2> QED
      BY <2>1, <2>2, <2>3
  <1>9. F!Overlay(p, pos, n, d) =
          [y \in 1..m |-> CASE y > pos /\ y <= pos + n -> d
                            [] y <= pos /\ y > h.len   -> 0
                            [] OTHER                   -> p[y]]
    BY <1>1, <1>6 DEF F!Overlay
  <1>10. After(h, r, s) =
          [y \in 1..m |-> IF y - 1 >= r.pos /\ y - 1 < r.end THEN r.val
                          ELSE IF y - 1 >= r.end /\ y - 1 < s.end THEN s.val
                          ELSE Unit(h, y - 1)]
    BY <1>7 DEF After
  <1>11. PICK f, g : f = F!Overlay(p, pos, n, d) /\ g = After(h, r, s)
    OBVIOUS
  <1>12. f = [y \in 1..m |-> f[y]] /\ g = [y \in 1..m |-> g[y]]
    BY <1>9, <1>10, <1>11
  <1>13. ASSUME NEW y \in 1..m PROVE f[y] = g[y]
    <2>1. f[y] = (CASE y > pos /\ y <= pos + n -> d
                    [] y <= pos /\ y > h.len   -> 0
                    [] OTHER                   -> p[y])
      BY <1>9, <1>11, Zenon
    <2>2. g[y] = (IF y - 1 >= r.pos /\ y - 1 < r.end THEN r.val
                  ELSE IF y - 1 >= r.end /\ y - 1 < s.end THEN s.val
                  ELSE Unit(h, y - 1))
      BY <1>10, <1>11, Zenon
    <2> QED
      BY <1>8, <2>1, <2>2, Zenon
  <1> QED
    BY <1>11, <1>12, <1>13

LEMMA WriteStep ==
    ASSUME IInv, UNCHANGED setup, NEW pos \in 0..MaxLen, NEW n \in 1..MaxLen,
           ree_fs_write_primitive(pos, n)
    PROVE  DiskOK' /\ Phase' /\ Simulation
  <1>1. /\ Ground /\ DiskOK /\ tx \in Nat /\ setup.blocks \in 1..MaxBlocks
        /\ setup.updates \in 0..MaxTx
    BY GroundFacts DEF IInv
  <1>2. /\ ReadyToWrite /\ tx < setup.updates /\ pos + n <= setup.blocks * UPB
        /\ tx' = tx + 1 /\ pc' = "block" /\ pending' = F!Overlay(pending, pos, n, tx')
        /\ UNCHANGED <<disk, setup, anchor, ht>>
    BY DEF ree_fs_write_primitive
  <1>3. SUFFICES ASSUME NEW CONSTANT B, NEW CONSTANT h, ht = h, Backed(B), Grown(B, {}, h),
                        TagsSoFar(h), AllReads(h), pending = Content(h)
                 PROVE  DiskOK' /\ Phase' /\ Simulation
    <2>1. CASE pc = "idle" /\ ht # NULL
      <3>1. PICK h : Idle(h)
        BY <2>1, PhaseOf DEF IInv, Closed
      <3>2. ht = h /\ Base(h) /\ Backed(h) /\ pending = Content(h)
        BY <3>1 DEF Idle, Stored, Backed
      <3>3. IsTree(h) /\ h.dirty = {} /\ AllReads(h) /\ TagsSoFar(h)
        BY <3>2 DEF Base, TagsSoFar
      <3>4. Grown(h, {}, h)
        BY <3>3, GrownSelf
      <3> QED
        BY <1>3, <3>2, <3>3, <3>4
    <2>2. CASE pc = "failed" /\ Reuse
      BY <2>2, PhaseOf DEF IInv, Failed
    <2>3. CASE pc = "wrote"
      <3>1. PICK B, h : Working(B, {}, h) /\ Filled(B, {}, h)
        BY <2>3, PhaseOf DEF IInv
      <3> QED
        BY <1>3, <3>1 DEF Working, Filled
    <2> QED
      BY <1>2, <2>1, <2>2, <2>3 DEF ReadyToWrite, Ready
  <1>4. IsTree(h) /\ Base(B) /\ IsTree(B)
    BY <1>3 DEF Grown, Backed, Base
  <1>5. PICK d : d = tx + 1
    OBVIOUS
  <1>6. /\ d \in 1..MaxTx /\ tx < d /\ d \in Nat /\ tx' = d /\ pos \in Nat /\ n \in Nat \ {0}
        /\ h.len \in Nat /\ h.len <= MaxLen
    BY <1>1, <1>2, <1>4, <1>5, SmallFacts, TreeFacts
  <1>7. pos + n <= MaxLen
    <2>1. PICK k \in Nat : MaxBlocks = setup.blocks + k
      <3>1. MaxBlocks - setup.blocks \in Nat /\ MaxBlocks = setup.blocks + (MaxBlocks - setup.blocks)
        BY <1>1, SmallFacts
      <3> QED
        BY <3>1
    <2>2. MaxBlocks * UPB = (setup.blocks * UPB) + (k * UPB) /\ k * UPB \in Nat /\ setup.blocks * UPB \in Nat
      BY <1>1, <2>1, SmallFacts
    <2> QED
      BY <1>2, <1>6, <2>2 DEF MaxLen
  <1>8. tx' \in Nat /\ tx <= tx'
    BY <1>1, <1>6
  <1>9. DiskOK' /\ Backed(B)'
    BY <1>1, <1>2, <1>3, <1>8, SameFile
  <1>10. Grown(B, {}, h)' /\ Written(B, {}, h)'
    BY <1>3 DEF Grown, Written
  <1>11. ASSUME NEW t, IsTree(t), TagsSoFar(t) PROVE TagsSoFar(t)' /\ TagsBefore(t)'
    <2>1. ASSUME NEW i \in Nodes, t.node[i].tag # NULL PROVE t.node[i].tag.tx < d
      <3>1. t.node[i].tag \in Tags /\ t.node[i].tag.tx <= tx
        BY <1>11, <2>1, TreeFacts DEF TagsSoFar
      <3>2. t.node[i].tag.tx \in 1..MaxTx
        BY <3>1, TagFacts
      <3> QED
        BY <1>1, <1>6, <3>1, <3>2, SmallFacts
    <2>2. ASSUME NEW i \in Nodes, t.node[i].tag # NULL PROVE t.node[i].tag.tx <= d
      <3>1. t.node[i].tag \in Tags
        BY <1>11, <2>2, TreeFacts
      <3>2. t.node[i].tag.tx \in 1..MaxTx
        BY <3>1, TagFacts
      <3> QED
        BY <1>6, <2>1, <2>2, <3>2, SmallFacts
    <2> QED
      BY <1>6, <2>1, <2>2 DEF TagsSoFar, TagsBefore
  <1>12. TagsSoFar(h)' /\ TagsBefore(B)'
    <2>1. TagsSoFar(B)
      BY <1>4 DEF Base, TagsSoFar
    <2> QED
      BY <1>3, <1>4, <1>11, <2>1
  <1>13. PICK s : s = [pos |-> pos, end |-> pos + n, val |-> d]
    OBVIOUS
  <1>14. PICK r : r = IF h.len < pos THEN [pos |-> h.len, end |-> pos, val |-> 0] ELSE s
    OBVIOUS
  <1>15. /\ \/ h.len < pos /\ todo' = <<r, s>>
            \/ ~(h.len < pos) /\ todo' = <<s>> /\ r = s
    <2>1. todo' = (IF h.len < pos THEN <<[pos |-> h.len, end |-> pos, val |-> 0]>>
                   ELSE <<>>) \o <<s>>
      BY <1>3, <1>6, <1>13 DEF ree_fs_write_primitive
    <2>2. CASE h.len < pos
      <3>1. todo' = <<r>> \o <<s>>
        BY <1>14, <2>1, <2>2
      <3> QED
        BY <2>2, <3>1, TwoRanges, Zenon
    <2>3. CASE ~(h.len < pos)
      BY <1>14, <2>1, <2>3
    <2> QED
      BY <2>2, <2>3
  <1>16. s.pos = pos /\ s.end = pos + n /\ s.val = d /\ IsRange(s)
    <2>1. s.pos = pos /\ s.end = pos + n /\ s.val = d
      BY <1>13
    <2> QED
      BY <1>6, <1>7, <1>13, <2>1 DEF IsRange
  <1>17. IsRange(r) /\ r.pos <= h.len /\ r.end <= s.end /\ r.pos \in Nat
    <2>1. CASE h.len < pos
      <3>1. r = [pos |-> h.len, end |-> pos, val |-> 0]
        BY <1>14, <2>1
      <3>2. r.pos = h.len /\ r.end = pos /\ r.val = 0
        BY <3>1
      <3>3. IsRange(r)
        BY <1>6, <1>7, <2>1, <3>1, <3>2, SmallFacts DEF IsRange
      <3> QED
        BY <1>6, <1>16, <3>2, <3>3
    <2>2. CASE ~(h.len < pos)
      BY <1>6, <1>14, <1>16, <2>2
    <2> QED
      BY <2>1, <2>2
  <1>18. h.len < pos => s.pos = r.end
    BY <1>14, <1>16
  <1>19. Larger(h.len, r.pos) = h.len
    BY <1>6, <1>17 DEF Larger
  <1>20. pending' = After(h, r, s)
    <2>1. pending = [y \in 1..h.len |-> Unit(h, y - 1)]
      BY <1>1, <1>3, <1>4, ContentFacts
    <2>2. PICK p : p = pending
      OBVIOUS
    <2>3. UnitsOf(h, p) /\ WholeRange(pos, n, d, s) /\ FirstRange(h, pos, s, r)
      BY <1>13, <1>14, <2>1, <2>2 DEF UnitsOf, WholeRange, FirstRange
    <2>4. F!Overlay(p, pos, n, d) = After(h, r, s)
      BY <1>6, <2>3, OverlayFills
    <2> QED
      BY <1>2, <1>6, <2>2, <2>4
  <1>21. Reading(h, Larger(h.len, r.pos)) /\ Reading(h, Larger(h.len, r.pos))'
    <2>1. Reading(h, h.len)
      BY <1>3 DEF Reading, AllReads
    <2>2. Reading(h, h.len)'
      BY <1>2, <2>1 DEF Reading, BlockReads, disk
    <2> QED
      BY <1>19, <2>1, <2>2
  <1>22. Filling(h, r, s)'
    <2>1. ~(r.pos > h.len)
      BY <1>6, <1>17
    <2>2. After(h, r, s)' = After(h, r, s)
      BY DEF After
    <2>3. \/ todo' = <<r>> /\ r = s
          \/ todo' = <<r, s>> /\ s.pos = r.end
      BY <1>15, <1>18
    <2> QED
      BY <1>16, <1>17, <1>20, <1>21, <2>1, <2>2, <2>3 DEF Filling
  <1>23. Working(B, {}, h)'
    <2>1. tx' >= 1
      BY <1>6, SmallFacts
    <2> QED
      BY <1>2, <1>3, <1>9, <1>10, <1>12, <1>22, <2>1 DEF Working, Writing
  <1>24. Phase'
    BY <1>23 DEF Phase
  <1>25. PICK f : Shows(f) /\ Shows(f)'
    BY <1>2, <1>3, <1>9, BackedShows
  <1>26. pending # NULL /\ pending' # NULL
    <2>1. pending \in Contents
      BY <1>1, <1>3, <1>4, ContentFacts
    <2>2. pending' \in Contents
      BY <1>1, <1>4, <1>16, <1>17, <1>20, <1>21, AfterContent
    <2> QED
      BY <2>1, <2>2, NullAssumption
  <1>27. Simulates(f, f, pending, pending')
    BY <1>2, <1>6, <1>7, <1>26 DEF Simulates
  <1> QED
    BY <1>9, <1>24, <1>25, <1>27 DEF Simulation

-----------------------------------------------------------------------------
(* A block is written *)

BlockSet(b, v, d) == block' = [block EXCEPT ![b][v] = d]

LEMMA BlockWritten ==
    ASSUME DiskOK, NEW b \in Blocks, NEW v \in Vers, NEW d \in SUBSET Tags,
           BlockSet(b, v, d), UNCHANGED <<head, node>>
    PROVE  /\ DiskOK' /\ block'[b][v] = d
           /\ \A c \in Blocks, w \in Vers : c # b \/ w # v => block'[c][w] = block[c][w]
  <1>1. block \in [Blocks -> [Vers -> SUBSET Tags]]
    BY DEF DiskOK
  <1>2. PICK R : R = [block[b] EXCEPT ![v] = d]
    OBVIOUS
  <1>3. block[b] \in [Vers -> SUBSET Tags]
    BY <1>1
  <1>4. R \in [Vers -> SUBSET Tags] /\ R[v] = d /\ \A w \in Vers : w # v => R[w] = block[b][w]
    BY <1>2, <1>3
  <1>5. block' = [block EXCEPT ![b] = R]
    BY <1>1, <1>2 DEF BlockSet
  <1>6. /\ block' \in [Blocks -> [Vers -> SUBSET Tags]] /\ block'[b] = R
        /\ \A c \in Blocks : c # b => block'[c] = block[c]
    BY <1>1, <1>4, <1>5
  <1>7. DiskOK'
    BY <1>6 DEF DiskOK
  <1> QED
    BY <1>4, <1>6, <1>7

\* What tee_fs_htree_write_block() of the block of node i makes of tree t
BlockIsChanged(t, i, tag, g) ==
    /\ IsTree(g) /\ g.counter = t.counter /\ g.len = t.len
    /\ Present(g) = Present(t) \cup {i}
    /\ g.dirty = t.dirty \cup {i} /\ g.updated = t.updated \cup {i}
    /\ \A j \in Nodes \ {i} : g.node[j] = t.node[j]
    /\ g.node[i].blk = (IF i \in t.updated THEN t.node[i].blk ELSE 1 - t.node[i].blk)
    /\ g.node[i].child = t.node[i].child /\ g.node[i].tag = tag

LEMMA BlockChanged ==
    ASSUME NEW t, IsTree(t), NEW b \in Nat, NEW i, i = b + 1, i \in Nodes,
           i \in Present(t) \/ b \in Present(t), NEW tag \in Tags,
           NEW g, g = tee_fs_htree_write_block(t, b, tag)
    PROVE  BlockIsChanged(t, i, tag, g)
  <1>1. PICK m : m = IF i \in Present(t) THEN t.max ELSE i
    OBVIOUS
  <1>2. PICK D, U : D = t.dirty \cup {i} /\ U = t.updated \cup {i}
    OBVIOUS
  <1>3. PICK k : k = IF i \in t.updated THEN t.node[i].blk ELSE 1 - t.node[i].blk
    OBVIOUS
  <1>4. PICK N : N = [t.node EXCEPT ![i].blk = k, ![i].tag = tag]
    OBVIOUS
  <1>5. /\ t = [counter |-> t.counter, max |-> t.max, len |-> t.len, node |-> t.node,
                dirty |-> t.dirty, updated |-> t.updated]
        /\ t.node = [j \in Nodes |-> t.node[j]]
        /\ t.counter \in Nat /\ t.max \in 0..MaxBlocks /\ t.len \in 0..MaxLen
    BY DEF IsTree
  <1>6. PICK f : f = get_node(t, i)
    OBVIOUS
  <1>7. f = [counter |-> t.counter, max |-> m, len |-> t.len, node |-> t.node,
             dirty |-> t.dirty, updated |-> t.updated]
    BY <1>1, <1>5, <1>6 DEF get_node
  <1>8. f.updated = t.updated /\ f.node = t.node /\ f.dirty = t.dirty
    BY <1>7
  <1>9. g = [f EXCEPT !.node[i].blk = k, !.node[i].tag = tag,
                      !.dirty = D, !.updated = U]
    <2>1. g = [f EXCEPT !.node[i].blk = IF i \in f.updated THEN @ ELSE 1 - @,
                        !.node[i].tag = tag,
                        !.dirty = @ \cup {i}, !.updated = @ \cup {i}]
      BY <1>6, Zenon DEF tee_fs_htree_write_block, BLOCK_NUM_TO_NODE_ID
    <2> QED
      BY <1>2, <1>3, <1>8, <2>1
  <1>10. g = [counter |-> t.counter, max |-> m, len |-> t.len, node |-> N,
              dirty |-> D, updated |-> U]
    <2>1. PICK N1 : N1 = [t.node EXCEPT ![i].blk = k]
      OBVIOUS
    <2>2. N = [N1 EXCEPT ![i].tag = tag]
      BY <1>4, <1>5, <2>1
    <2>3. PICK f1 : f1 = [f EXCEPT !.node[i].blk = k]
      OBVIOUS
    <2>4. f1 = [counter |-> t.counter, max |-> m, len |-> t.len, node |-> N1,
                dirty |-> t.dirty, updated |-> t.updated]
      BY <1>7, <2>1, <2>3
    <2>5. PICK f2 : f2 = [f1 EXCEPT !.node[i].tag = tag]
      OBVIOUS
    <2>6. f2 = [counter |-> t.counter, max |-> m, len |-> t.len, node |-> N,
                dirty |-> t.dirty, updated |-> t.updated]
      BY <2>2, <2>4, <2>5
    <2>7. g = [f2 EXCEPT !.dirty = D, !.updated = U]
      BY <1>9, <2>3, <2>5
    <2> QED
      BY <2>6, <2>7
  <1>11. /\ g.counter = t.counter /\ g.max = m /\ g.len = t.len /\ g.node = N /\ g.dirty = D
         /\ g.updated = U
    BY <1>10
  <1>12. PICK o : o = t.node[i]
    OBVIOUS
  <1>13. IsNode(o) /\ o.blk \in Vers
    BY <1>12, TreeFacts
  <1>14. k \in Vers
    BY <1>3, <1>12, <1>13, SmallFacts
  <1>15. /\ N = [j \in Nodes |-> N[j]] /\ \A j \in Nodes \ {i} : N[j] = t.node[j]
         /\ N[i] = [o EXCEPT !.blk = k, !.tag = tag]
    BY <1>4, <1>5, <1>12
  <1>16. N[i] = [blk |-> k, child |-> o.child, tag |-> tag, hash |-> o.hash]
    <2>1. o = [blk |-> o.blk, child |-> o.child, tag |-> o.tag, hash |-> o.hash]
      BY <1>13 DEF IsNode
    <2> QED
      BY <1>15, <2>1
  <1>17. N[i].blk = k /\ N[i].child = o.child /\ N[i].tag = tag /\ N[i].hash = o.hash
    BY <1>16
  <1>18. ASSUME NEW j \in Nodes PROVE IsNode(N[j])
    <2>1. CASE j = i
      BY <1>13, <1>14, <1>16, <1>17, <2>1 DEF IsNode
    <2>2. CASE j # i
      BY <1>15, <2>2, TreeFacts
    <2> QED
      BY <2>1, <2>2
  <1>19. m \in 0..MaxBlocks /\ Present(g) = Present(t) \cup {i}
    <2>1. /\ Present(t) = 1..(IF t.max > 1 THEN t.max ELSE 1) /\ t.max \in Nat
          /\ Present(t) \subseteq Nodes
      BY TreeFacts
    <2>2. m \in 0..MaxBlocks
      BY <1>1, <1>5, SmallFacts DEF Nodes
    <2>3. Present(g) = 1..(IF m > 1 THEN m ELSE 1)
      BY <1>11, <2>2, PresentFacts
    <2>4. CASE i \in Present(t)
      <3>1. m = t.max
        BY <1>1, <2>4
      <3>2. Present(g) = Present(t)
        BY <2>1, <2>3, <3>1, Zenon
      <3> QED
        BY <2>2, <2>4, <3>2
    <2>5. CASE i \notin Present(t)
      <3>1. b \in Present(t) /\ m = i
        BY <1>1, <2>5
      <3>2. b >= 1 /\ Present(t) = 1..b
        BY <2>1, <2>5, <3>1
      <3>3. m > 1 /\ Present(g) = 1..(b + 1)
        BY <2>3, <3>1, <3>2
      <3>4. 1..(b + 1) = (1..b) \cup {b + 1}
        BY <3>2
      <3> QED
        BY <2>2, <3>2, <3>3, <3>4
    <2> QED
      BY <2>2, <2>4, <2>5
  <1>20. IsTree(g)
    <2>1. D \subseteq Present(g) /\ U \subseteq D
      BY <1>2, <1>19 DEF IsTree
    <2>2. \A j \in Nodes \ Present(g) : N[j] = BlankNode
      BY <1>15, <1>19 DEF IsTree
    <2>3. N = [j \in Nodes |-> N[j]] /\ \A j \in Nodes : IsNode(N[j])
      BY <1>15, <1>18
    <2> QED
      BY <1>5, <1>10, <1>19, <2>1, <2>2, <2>3, MakeTree
  <1> QED
    BY <1>2, <1>3, <1>11, <1>12, <1>15, <1>17, <1>19, <1>20 DEF BlockIsChanged

\* The length is raised to e.
LenIsSet(g, e, h) ==
    /\ IsTree(h) /\ h.counter = g.counter /\ h.max = g.max /\ h.len = e /\ h.node = g.node
    /\ h.dirty = g.dirty \cup {1} /\ h.updated = g.updated
WithLen(g, e) == [g EXCEPT !.len = e, !.dirty = @ \cup {1}]

LEMMA LenSet ==
    ASSUME NEW g, IsTree(g), NEW e \in 0..MaxLen, NEW h, h = WithLen(g, e)
    PROVE  LenIsSet(g, e, h)
  <1>1. PICK D : D = g.dirty \cup {1}
    OBVIOUS
  <1>2. g = [counter |-> g.counter, max |-> g.max, len |-> g.len, node |-> g.node,
             dirty |-> g.dirty, updated |-> g.updated]
    BY DEF IsTree
  <1>3. h = [counter |-> g.counter, max |-> g.max, len |-> e, node |-> g.node,
             dirty |-> D, updated |-> g.updated]
    BY <1>1, <1>2 DEF WithLen
  <1>4. /\ h.counter = g.counter /\ h.max = g.max /\ h.len = e /\ h.node = g.node /\ h.dirty = D
        /\ h.updated = g.updated /\ Present(h) = Present(g)
    BY <1>3 DEF Present
  <1>5. D \subseteq Present(h) /\ g.updated \subseteq D
    BY <1>1, <1>4, TreeFacts
  <1>6. IsTree(h)
    BY <1>3, <1>4, <1>5, MakeTree DEF IsTree
  <1> QED
    BY <1>1, <1>4, <1>6 DEF LenIsSet

\* Both: the tree in memory after a step of out_of_place_write()
Changed(t, i, tag, h) ==
    /\ IsTree(h) /\ h.counter = t.counter /\ t.len <= h.len
    /\ Present(h) = Present(t) \cup {i}
    /\ t.dirty \cup {i} \subseteq h.dirty /\ h.updated = t.updated \cup {i}
    /\ 1 \in h.dirty => 1 \in t.dirty \/ i = 1 \/ h.len > t.len
    /\ \A j \in Nodes \ {i} : h.node[j] = t.node[j]
    /\ h.node[i].blk = (IF i \in t.updated THEN t.node[i].blk ELSE 1 - t.node[i].blk)
    /\ h.node[i].child = t.node[i].child /\ h.node[i].tag = tag

LEMMA ChangedTree ==
    ASSUME NEW t, IsTree(t), NEW i, NEW tag, NEW g, BlockIsChanged(t, i, tag, g),
           NEW e \in 0..MaxLen, NEW l \in BOOLEAN, NEW h,
           h = IF l /\ e > g.len THEN WithLen(g, e) ELSE g
    PROVE  Changed(t, i, tag, h) /\ h.len = IF l THEN Larger(t.len, e) ELSE t.len
  <1>1. IsTree(g) /\ g.len = t.len /\ t.len \in Nat /\ e \in Nat
    BY TreeFacts, SmallFacts DEF BlockIsChanged
  <1>2. CASE l /\ e > g.len
    <2>1. LenIsSet(g, e, h)
      BY <1>1, <1>2, LenSet
    <2>2. Present(h) = Present(g) /\ h.len = e /\ t.len < e
      BY <1>1, <1>2, <2>1 DEF LenIsSet, Present
    <2>3. Larger(t.len, e) = e
      BY <1>1, <2>2 DEF Larger
    <2>4. t.len <= h.len /\ h.len > t.len
      BY <1>1, <2>2
    <2>5. Changed(t, i, tag, h)
      BY <2>1, <2>2, <2>4 DEF LenIsSet, BlockIsChanged, Changed
    <2> QED
      BY <1>2, <2>2, <2>3, <2>5
  <1>3. CASE ~(l /\ e > g.len)
    <2>1. h = g /\ t.len <= t.len
      BY <1>1, <1>3
    <2>2. l => Larger(t.len, e) = t.len
      BY <1>1, <1>3 DEF Larger
    <2>3. Changed(t, i, tag, h)
      BY <1>1, <2>1 DEF BlockIsChanged, Changed
    <2> QED
      BY <1>1, <2>1, <2>2, <2>3
  <1> QED
    BY <1>2, <1>3

LEMMA ChangedGrown ==
    ASSUME NEW B, IsTree(B), NEW t, Grown(B, {}, t), NEW i \in Nodes, NEW tag \in Tags, NEW h,
           Changed(t, i, tag, h), tx \in Nat, tag.tx = tx, TagsBefore(B)
    PROVE  Grown(B, {}, h) /\ h.node[i].blk = 1 - B.node[i].blk
  <1>1. /\ IsTree(t) /\ IsTree(h) /\ B.len \in Nat /\ t.len \in Nat /\ h.len \in Nat
        /\ t.len <= h.len /\ B.len <= t.len /\ Present(h) = Present(t) \cup {i}
        /\ Present(h) \subseteq Nodes
    BY TreeFacts DEF Grown, Changed
  <1>2. B.node[i].blk \in Vers /\ t.node[i].blk \in Vers
    BY <1>1, TreeFacts
  <1>3. h.node[i].blk = 1 - B.node[i].blk
    <2>1. CASE i \in t.updated
      BY <2>1 DEF Grown, Changed
    <2>2. CASE i \notin t.updated
      BY <2>2 DEF Grown, Changed
    <2> QED
      BY <2>1, <2>2
  <1>4. tag # B.node[i].tag
    <2>1. CASE B.node[i].tag = NULL
      BY <2>1, TagFacts
    <2>2. CASE B.node[i].tag # NULL
      <3>1. B.node[i].tag \in Tags /\ B.node[i].tag.tx < tx
        BY <2>2, TreeFacts DEF TagsBefore
      <3>2. B.node[i].tag.tx \in 1..MaxTx
        BY <3>1, TagFacts
      <3>3. B.node[i].tag.tx # tag.tx
        BY <3>1, <3>2, SmallFacts
      <3> QED
        BY <3>3
    <2> QED
      BY <2>1, <2>2
  <1>5. h.counter = B.counter /\ B.len <= h.len /\ Present(B) \subseteq Present(h)
    BY <1>1 DEF Grown, Changed
  <1>6. \A j \in Present(h) \ h.dirty : j \in Present(B) /\ h.node[j] = B.node[j]
    <2>1. ASSUME NEW j \in Present(h) \ h.dirty PROVE j \in Present(B) /\ h.node[j] = B.node[j]
      <3>1. j # i /\ j \notin t.dirty /\ j \in Present(t) /\ j \in Nodes
        BY <1>1, <2>1 DEF Changed
      <3> QED
        BY <3>1 DEF Grown, Changed
    <2> QED
      BY <2>1
  <1>7. ASSUME NEW j \in Nodes \ {1}
        PROVE  h.node[j \div 2].child[j % 2] = B.node[j \div 2].child[j % 2]
    <2>1. j \div 2 \in Nodes
      BY ParentIsNode
    <2>2. h.node[j \div 2].child = t.node[j \div 2].child
      BY <2>1 DEF Changed
    <2>3. t.node[j \div 2].child[j % 2] = B.node[j \div 2].child[j % 2]
      BY DEF Grown
    <2> QED
      BY <2>2, <2>3
  <1>8. 1 \in h.dirty => 1 \in h.updated \/ h.len > B.len
    <2>1. CASE h.len > t.len
      BY <1>1, <2>1
    <2>2. CASE i = 1
      BY <2>2 DEF Changed
    <2>3. CASE 1 \in t.dirty
      <3>1. 1 \in t.updated \/ t.len > B.len
        BY <2>3 DEF Grown
      <3> QED
        BY <1>1, <3>1 DEF Changed
    <2> QED
      BY <2>1, <2>2, <2>3 DEF Changed
  <1>9. ASSUME NEW j \in Nodes
        PROVE  IF j \in h.updated
               THEN h.node[j].blk = 1 - B.node[j].blk /\ h.node[j].tag # B.node[j].tag
               ELSE h.node[j].blk = B.node[j].blk
    <2>1. CASE j = i
      BY <1>3, <1>4, <2>1 DEF Changed
    <2>2. CASE j # i
      <3>1. h.node[j] = t.node[j] /\ (j \in h.updated <=> j \in t.updated)
        BY <2>2 DEF Changed
      <3>2. IF j \in t.updated
            THEN t.node[j].blk = 1 - B.node[j].blk /\ t.node[j].tag # B.node[j].tag
            ELSE t.node[j].blk = B.node[j].blk
        BY DEF Grown
      <3> QED
        BY <3>1, <3>2
    <2> QED
      BY <2>1, <2>2
  <1>10. Grown(B, {}, h)
    BY <1>1, <1>5, <1>6, <1>7, <1>8, <1>9 DEF Grown
  <1> QED
    BY <1>3, <1>10

\* The block at the front of range r, up to e
Place(t, r, b, e) ==
    /\ b \in Nat /\ b \in Blocks /\ b + 1 \in Nodes /\ e \in Nat /\ e \in 0..MaxLen
    /\ b * UPB <= r.pos /\ r.pos < e /\ e <= r.end /\ e <= (b * UPB) + UPB
    /\ e # r.end => e % UPB = 0
    /\ b + 1 \in Present(t) \/ b \in Present(t)
    /\ IF b < CeilBlocks(t.len) THEN BlockReads(t, b) ELSE r.pos = b * UPB

FrontBlock(r, b, e) == b = r.pos \div UPB /\ e = Min({r.end, (b + 1) * UPB})

LEMMA BlockStart ==
    ASSUME NEW b \in Nat
    PROVE  /\ b * UPB \in Nat /\ UPB * b = b * UPB /\ (b + 1) * UPB = (b * UPB) + UPB
           /\ ((b * UPB) + UPB) % UPB = 0
  <1>1. UPB \in Nat \ {0} /\ 0 \in 0..(UPB - 1)
    BY SmallFacts
  <1>2. b * UPB \in Nat /\ UPB * b = b * UPB /\ (b + 1) * UPB = (b * UPB) + UPB
    BY <1>1
  <1>3. PICK q \in Nat : q = b + 1
    OBVIOUS
  <1>4. (UPB * q + 0) % UPB = 0
    BY <1>1, UnitOf
  <1>5. UPB * q + 0 = (b * UPB) + UPB
    BY <1>1, <1>2, <1>3
  <1> QED
    BY <1>2, <1>4, <1>5

LEMMA FrontBlockPlace ==
    ASSUME DiskOK, NEW t, IsTree(t), NEW r, IsRange(r), r.pos > t.len => r.pos % UPB = 0,
           Reading(t, Larger(t.len, r.pos)), NEW b, NEW e, FrontBlock(r, b, e)
    PROVE  Place(t, r, b, e)
  <1>1. /\ r.pos \in Nat /\ r.end \in Nat /\ r.pos < r.end /\ r.end <= MaxLen
        /\ UPB \in Nat \ {0} /\ MaxBlocks \in Nat \ {0} /\ MaxLen = MaxBlocks * UPB /\ t.len \in Nat
        /\ MaxLen \in Nat
    BY SmallFacts, TreeFacts DEF IsRange, MaxLen
  <1>2. PICK u : u = r.pos % UPB
    OBVIOUS
  <1>3. b \in Nat /\ u \in 0..(UPB - 1) /\ r.pos = UPB * b + u
    BY <1>1, <1>2, UnitPlace DEF FrontBlock
  <1>4. PICK c \in Nat : c = b * UPB
    BY <1>1, <1>3
  <1>5. c <= r.pos /\ r.pos < c + UPB /\ r.pos = c + u /\ (b + 1) * UPB = c + UPB
    <2>1. UPB * b = c /\ (b + 1) * UPB = c + UPB
      BY <1>3, <1>4, BlockStart
    <2> QED
      BY <1>1, <1>3, <2>1
  <1>6. e = IF r.end <= c + UPB THEN r.end ELSE c + UPB
    <2>1. e = Min({r.end, c + UPB})
      BY <1>5 DEF FrontBlock
    <2> QED
      BY <1>1, <2>1, MinOfTwo
  <1>7. e \in Nat /\ r.pos < e /\ e <= r.end /\ e <= c + UPB /\ e \in 0..MaxLen
    BY <1>1, <1>5, <1>6
  <1>8. e # r.end => e % UPB = 0
    <2>1. (c + UPB) % UPB = 0
      BY <1>3, <1>4, BlockStart
    <2> QED
      BY <1>6, <2>1
  <1>9. b < MaxBlocks
    <2>1. ASSUME b >= MaxBlocks PROVE FALSE
      <3>1. PICK k \in Nat : b = MaxBlocks + k
        <4>1. b - MaxBlocks \in Nat /\ b = MaxBlocks + (b - MaxBlocks)
          BY <1>1, <1>3, <2>1
        <4> QED
          BY <4>1
      <3>2. b * UPB = (MaxBlocks * UPB) + (k * UPB) /\ k * UPB \in Nat
        BY <1>1, <3>1
      <3> QED
        BY <1>1, <1>4, <1>5, <3>2
    <2> QED
      BY <1>1, <1>3, <2>1
  <1>10. b \in Blocks /\ b + 1 \in Nodes
    BY <1>1, <1>3, <1>9 DEF Blocks, Nodes
  <1>11. PICK m : m = Larger(t.len, r.pos)
    OBVIOUS
  <1>12. m \in Nat /\ m >= t.len /\ m >= r.pos
    BY <1>1, <1>11, LargerFacts
  <1>13. \A q \in Nat : q * UPB < m => BlockReads(t, q)
    BY <1>11, <1>12, CeilFacts DEF Reading
  <1>14. b + 1 \in Present(t) \/ b \in Present(t)
    <2>1. CASE b = 0
      BY <2>1, TreeFacts
    <2>2. CASE b # 0
      <3>1. PICK q \in Nat : b = q + 1
        <4>1. b - 1 \in Nat /\ b = (b - 1) + 1
          BY <1>3, <2>2
        <4> QED
          BY <4>1
      <3>2. q * UPB < m
        <4>1. b * UPB = (q * UPB) + UPB /\ q * UPB \in Nat
          BY <1>1, <3>1
        <4> QED
          BY <1>1, <1>4, <1>5, <1>12, <4>1
      <3>3. BlockReads(t, q)
        BY <1>13, <3>2
      <3> QED
        BY <3>1, <3>3, ReadsFacts
    <2> QED
      BY <2>1, <2>2
  <1>15. ASSUME b < CeilBlocks(t.len) PROVE BlockReads(t, b)
    <2>1. b * UPB < t.len
      BY <1>1, <1>3, <1>15, CeilFacts
    <2> QED
      BY <1>1, <1>3, <1>4, <1>12, <1>13, <2>1
  <1>16. ASSUME ~(b < CeilBlocks(t.len)) PROVE r.pos = c
    <2>1. ~(b * UPB < t.len)
      BY <1>1, <1>3, <1>16, CeilFacts
    <2>2. CASE r.pos > t.len
      BY <1>2, <1>5, <2>2
    <2>3. CASE ~(r.pos > t.len)
      BY <1>1, <1>4, <1>5, <2>1, <2>3
    <2> QED
      BY <2>2, <2>3
  <1> QED
    BY <1>3, <1>4, <1>5, <1>7, <1>8, <1>10, <1>14, <1>15, <1>16 DEF Place

\* What out_of_place_write() encrypts
BlockTag(t, r, b, e, tag) ==
    tag = [tx |-> tx,
           data |-> [u \in 0..(UPB - 1) |->
                       IF b * UPB + u >= r.pos /\ b * UPB + u < e
                       THEN r.val ELSE OldBlock(t, b)[u]]]

LEMMA TagOfBlock ==
    ASSUME DiskOK, NEW CONSTANT t, IsTree(t), NEW CONSTANT r, IsRange(r), NEW CONSTANT b,
           NEW CONSTANT e, Place(t, r, b, e), tx \in 1..MaxTx, NEW CONSTANT tag,
           BlockTag(t, r, b, e, tag)
    PROVE  /\ tag \in Tags /\ tag.tx = tx
           /\ \A u \in 0..(UPB - 1) :
                 tag.data[u] = IF b * UPB + u >= r.pos /\ b * UPB + u < e
                               THEN r.val ELSE OldBlock(t, b)[u]
  <1>1. PICK o : o = OldBlock(t, b)
    OBVIOUS
  <1>2. b \in Nat /\ r.val \in 0..MaxTx /\ MaxTx \in Nat
    BY SmallFacts DEF Place, IsRange
  <1>3. \A u \in 0..(UPB - 1) : o[u] \in 0..MaxTx
    <2>1. CASE b < CeilBlocks(t.len)
      <3>1. BlockReads(t, b)
        BY <2>1 DEF Place
      <3>2. t.node[b + 1].tag \in Tags
        BY <1>2, <3>1, ReadsFacts
      <3>3. o = t.node[b + 1].tag.data
        BY <1>1, <2>1 DEF OldBlock, BLOCK_NUM_TO_NODE_ID
      <3> QED
        BY <3>2, <3>3, TagFacts
    <2>2. CASE ~(b < CeilBlocks(t.len))
      <3>1. o = [u \in 0..(UPB - 1) |-> 0]
        BY <1>1, <2>2 DEF OldBlock
      <3> QED
        BY <1>2, <3>1
    <2> QED
      BY <2>1, <2>2
  <1>4. PICK D : D = [u \in 0..(UPB - 1) |-> IF b * UPB + u >= r.pos /\ b * UPB + u < e
                                             THEN r.val ELSE o[u]]
    OBVIOUS
  <1>5. D \in [0..(UPB - 1) -> 0..MaxTx]
    BY <1>2, <1>3, <1>4
  <1>6. tag = [tx |-> tx, data |-> D]
    BY <1>1, <1>4, Zenon DEF BlockTag
  <1>7. tag \in Tags /\ tag.tx = tx /\ tag.data = D
    BY <1>5, <1>6 DEF Tags
  <1> QED
    BY <1>1, <1>4, <1>7, Zenon

\* Only the units from r.pos to e change.
UnitsChanged(t, r, e, h) ==
    \A x \in Nat : x < Larger(t.len, e) =>
        Unit(h, x) = IF x >= r.pos /\ x < e THEN r.val ELSE Unit(t, x)

LEMMA BlockUnits ==
    ASSUME DiskOK, NEW CONSTANT t, IsTree(t), NEW CONSTANT r, IsRange(r), NEW CONSTANT b,
           NEW CONSTANT e, Place(t, r, b, e), tx \in 1..MaxTx, NEW CONSTANT tag,
           Reading(t, Larger(t.len, r.pos)),
           BlockTag(t, r, b, e, tag), NEW CONSTANT h, Changed(t, b + 1, tag, h)
    PROVE  UnitsChanged(t, r, e, h)
  <1>1. SUFFICES ASSUME NEW x \in Nat, x < Larger(t.len, e)
                 PROVE  Unit(h, x) = IF x >= r.pos /\ x < e THEN r.val ELSE Unit(t, x)
    BY DEF UnitsChanged
  <1>2. /\ b \in Nat /\ e \in Nat /\ b * UPB <= r.pos /\ r.pos < e /\ e <= (b * UPB) + UPB
        /\ r.pos \in Nat /\ t.len \in Nat /\ UPB \in Nat \ {0} /\ b + 1 \in Nodes
        /\ b * UPB \in Nat /\ UPB * b = b * UPB
    BY TreeFacts, SmallFacts, BlockStart DEF Place, IsRange
  <1>3. x < t.len \/ x < e
    BY <1>1, <1>2, LargerFacts
  <1>4. PICK c, u : c = x \div UPB /\ u = x % UPB
    OBVIOUS
  <1>5. c \in Nat /\ u \in 0..(UPB - 1) /\ x = UPB * c + u /\ c * UPB \in Nat /\ UPB * c = c * UPB
    BY <1>4, UnitPlace, BlockStart
  <1>6. Unit(h, x) = h.node[c + 1].tag.data[u] /\ Unit(t, x) = t.node[c + 1].tag.data[u]
    BY <1>4 DEF Unit
  <1>7. CASE c = b
    <2>1. h.node[c + 1].tag = tag
      BY <1>7 DEF Changed
    <2>2. tag.data[u] = IF b * UPB + u >= r.pos /\ b * UPB + u < e THEN r.val ELSE OldBlock(t, b)[u]
      BY <1>5, TagOfBlock
    <2>3. b * UPB + u = x
      BY <1>2, <1>5, <1>7
    <2>4. CASE x >= r.pos /\ x < e
      BY <1>6, <2>1, <2>2, <2>3, <2>4
    <2>5. CASE ~(x >= r.pos /\ x < e)
      <3>1. Unit(h, x) = OldBlock(t, b)[u]
        BY <1>6, <2>1, <2>2, <2>3, <2>5
      <3>2. b < CeilBlocks(t.len)
        <4>1. x >= b * UPB
          BY <1>2, <1>5, <2>3
        <4>2. CASE r.pos = b * UPB
          <5>1. b * UPB < t.len
            BY <1>2, <1>3, <2>5, <4>1, <4>2
          <5> QED
            BY <1>2, <5>1, CeilFacts
        <4>3. CASE r.pos # b * UPB
          BY <4>3 DEF Place
        <4> QED
          BY <4>2, <4>3
      <3>3. OldBlock(t, b) = t.node[b + 1].tag.data
        BY <3>2 DEF OldBlock, BLOCK_NUM_TO_NODE_ID
      <3> QED
        BY <1>6, <1>7, <2>5, <3>1, <3>3
    <2> QED
      BY <2>4, <2>5
  <1>8. CASE c # b
    <2>1. ~(x >= r.pos /\ x < e)
      <3>1. ASSUME x >= r.pos, x < e PROVE FALSE
        <4>1. x \in Nat /\ x >= b * UPB /\ x < (b * UPB) + UPB
          BY <1>2, <3>1
        <4>2. PICK w \in 0..(UPB - 1) : x = UPB * b + w
          <5>1. x - (b * UPB) \in 0..(UPB - 1) /\ x = UPB * b + (x - (b * UPB))
            BY <1>2, <4>1
          <5> QED
            BY <5>1
        <4>3. x \div UPB = b
          BY <1>2, <4>2, UnitOf
        <4> QED
          BY <1>4, <1>8, <4>3
      <3> QED
        BY <3>1
    <2>2. c + 1 \in Nodes
      <3>1. x < Larger(t.len, r.pos)
        <4>1. x < t.len \/ x < r.pos
          BY <1>2, <1>3, <2>1
        <4> QED
          BY <1>2, <4>1, LargerFacts
      <3>2. Larger(t.len, r.pos) \in Nat
        BY <1>2, LargerFacts
      <3> QED
        BY <1>4, <3>1, <3>2, UnitRead
    <2>3. c + 1 # b + 1
      BY <1>2, <1>5, <1>8
    <2>4. h.node[c + 1] = t.node[c + 1]
      BY <2>2, <2>3 DEF Changed
    <2> QED
      BY <1>6, <2>1, <2>4
  <1> QED
    BY <1>7, <1>8

\* The blocks of the tree can be read, after the one that was written too.
LEMMA BlockReading ==
    ASSUME DiskOK, NEW CONSTANT t, IsTree(t), NEW CONSTANT r, IsRange(r), NEW CONSTANT b,
           NEW CONSTANT e, Place(t, r, b, e), NEW CONSTANT tag,
           Reading(t, Larger(t.len, r.pos)),
           NEW CONSTANT h, Changed(t, b + 1, tag, h), NEW CONSTANT v, v = h.node[b + 1].blk,
           block'[b][v] = {tag},
           \A c \in Blocks, w \in Vers : c # b \/ w # v => block'[c][w] = block[c][w]
    PROVE  Reading(h, Larger(t.len, e))'
  <1>1. /\ b \in Nat /\ e \in Nat /\ b * UPB <= r.pos /\ e <= (b * UPB) + UPB
        /\ r.pos \in Nat /\ t.len \in Nat /\ UPB \in Nat \ {0} /\ b + 1 \in Nodes /\ b * UPB \in Nat
    BY TreeFacts, SmallFacts, BlockStart DEF Place, IsRange
  <1>2. PICK m, n : m = Larger(t.len, r.pos) /\ n = Larger(t.len, e)
    OBVIOUS
  <1>3. /\ m \in Nat /\ n \in Nat /\ \A x \in Nat : x < m <=> x < t.len \/ x < r.pos
        /\ \A x \in Nat : x < n <=> x < t.len \/ x < e
    BY <1>1, <1>2, LargerFacts
  <1>4. ASSUME NEW c \in 0..(CeilBlocks(n) - 1) PROVE BlockReads(h, c)'
    <2>1. c \in Nat /\ c * UPB < n /\ c * UPB \in Nat
      BY <1>3, <1>4, CeilFacts, BlockStart
    <2>2. CASE c = b
      <3>1. b + 1 \in Present(h) /\ h.node[b + 1].tag = tag
        BY DEF Changed
      <3> QED
        BY <2>2, <3>1 DEF BlockReads, BLOCK_NUM_TO_NODE_ID
    <2>3. CASE c # b
      <3>1. c * UPB < m
        <4>1. CASE c * UPB < t.len
          BY <1>3, <2>1, <4>1
        <4>2. CASE ~(c * UPB < t.len)
          <5>1. c * UPB < e
            BY <1>3, <2>1, <4>2
          <5>2. c < b
            <6>1. ASSUME c >= b + 1 PROVE FALSE
              <7>1. PICK k \in Nat : c = (b + 1) + k
                <8>1. c - (b + 1) \in Nat /\ c = (b + 1) + (c - (b + 1))
                  BY <1>1, <2>1, <6>1
                <8> QED
                  BY <8>1
              <7>2. c * UPB = ((b * UPB) + UPB) + (k * UPB) /\ k * UPB \in Nat
                BY <1>1, <7>1
              <7> QED
                BY <1>1, <5>1, <7>2
            <6> QED
              BY <1>1, <2>1, <2>3, <6>1
          <5>3. PICK k \in Nat : b = (c + 1) + k
            <6>1. b - (c + 1) \in Nat /\ b = (c + 1) + (b - (c + 1))
              BY <1>1, <2>1, <5>2
            <6> QED
              BY <6>1
          <5>4. b * UPB = ((c * UPB) + UPB) + (k * UPB) /\ k * UPB \in Nat
            BY <1>1, <2>1, <5>3
          <5>5. c * UPB < r.pos
            BY <1>1, <2>1, <5>4
          <5> QED
            BY <1>3, <2>1, <5>5
        <4> QED
          BY <4>1, <4>2
      <3>2. c \in 0..(CeilBlocks(m) - 1)
        BY <1>3, <2>1, <3>1, CeilFacts
      <3>3. BlockReads(t, c)
        BY <1>2, <3>2 DEF Reading
      <3>4. /\ c \in Blocks /\ c + 1 \in Present(t) /\ c + 1 \in Nodes
            /\ block[c][t.node[c + 1].blk] = {t.node[c + 1].tag} /\ t.node[c + 1].blk \in Vers
        <4>1. /\ c \in Blocks /\ c + 1 \in Present(t) /\ c + 1 \in Nodes
              /\ block[c][t.node[c + 1].blk] = {t.node[c + 1].tag}
          BY <2>1, <3>3, ReadsFacts
        <4> QED
          BY <4>1, TreeFacts
      <3>5. c + 1 # b + 1
        <4>1. \A a, q \in Nat : a # q => a + 1 # q + 1
          OBVIOUS
        <4> QED
          BY <1>1, <2>1, <2>3, <4>1
      <3>6. h.node[c + 1] = t.node[c + 1] /\ c + 1 \in Present(h)
        BY <3>4, <3>5 DEF Changed
      <3>7. block'[c][t.node[c + 1].blk] = block[c][t.node[c + 1].blk]
        BY <2>3, <3>4
      <3> QED
        BY <3>4, <3>6, <3>7 DEF BlockReads, BLOCK_NUM_TO_NODE_ID
    <2> QED
      BY <2>2, <2>3
  <1>5. Reading(h, n)'
    BY <1>4 DEF Reading
  <1> QED
    BY <1>2, <1>5

\* The pending content stays what the ranges left to write give.  First, there is
\* nothing left.
LEMMA LastBlock ==
    ASSUME NEW t, t.len \in Nat, NEW r, IsRange(r), NEW h, h.len = Larger(t.len, r.end),
           UnitsChanged(t, r, r.end, h)
    PROVE  After(t, r, r) = Content(h)
  <1>1. PICK m, f, g : m = h.len /\ f = After(t, r, r) /\ g = Content(h)
    OBVIOUS
  <1>2. m \in Nat /\ r.pos \in Nat /\ r.end \in Nat
    BY <1>1, LargerFacts DEF IsRange
  <1>3. f = [y \in 1..m |-> IF y - 1 >= r.pos /\ y - 1 < r.end THEN r.val
                            ELSE IF y - 1 >= r.end /\ y - 1 < r.end THEN r.val
                            ELSE Unit(t, y - 1)]
    BY <1>1, Zenon DEF After
  <1>4. g = [y \in 1..m |-> Unit(h, y - 1)]
    BY <1>1 DEF Content, Unit, BLOCK_NUM_TO_NODE_ID
  <1>5. ASSUME NEW y \in 1..m
        PROVE  Unit(h, y - 1) = IF y - 1 >= r.pos /\ y - 1 < r.end THEN r.val
                                ELSE IF y - 1 >= r.end /\ y - 1 < r.end THEN r.val
                                ELSE Unit(t, y - 1)
    <2>1. PICK x \in Nat : x = y - 1 /\ x < m
      BY <1>2
    <2>2. Unit(h, x) = IF x >= r.pos /\ x < r.end THEN r.val ELSE Unit(t, x)
      BY <1>1, <2>1 DEF UnitsChanged
    <2>3. ~(x >= r.end /\ x < r.end)
      BY <1>2
    <2> QED
      BY <2>1, <2>2, <2>3, Zenon
  <1>6. f = g
    BY <1>3, <1>4, <1>5, Zenon
  <1> QED
    BY <1>1, <1>6

\* The gap is filled, and what is written comes next.
LEMMA NextRange ==
    ASSUME NEW t, t.len \in Nat, NEW r, IsRange(r), NEW s, IsRange(s), s.pos = r.end,
           NEW h, h.len = Larger(t.len, r.end), UnitsChanged(t, r, r.end, h)
    PROVE  After(t, r, s) = After(h, s, s)
  <1>1. PICK m, f, g : m = Larger(t.len, s.end) /\ f = After(t, r, s) /\ g = After(h, s, s)
    OBVIOUS
  <1>2. /\ r.pos \in Nat /\ r.end \in Nat /\ s.end \in Nat /\ r.pos < r.end /\ r.end < s.end
        /\ s.pos = r.end
    BY DEF IsRange
  <1>3. /\ m \in Nat /\ \A x \in Nat : x < m <=> x < t.len \/ x < s.end
        /\ \A x \in Nat : x < Larger(t.len, r.end) <=> x < t.len \/ x < r.end
    BY <1>1, <1>2, LargerFacts
  <1>4. Larger(h.len, s.end) = m
    BY <1>1, <1>2 DEF Larger
  <1>5. f = [y \in 1..m |-> IF y - 1 >= r.pos /\ y - 1 < r.end THEN r.val
                            ELSE IF y - 1 >= r.end /\ y - 1 < s.end THEN s.val
                            ELSE Unit(t, y - 1)]
    BY <1>1, Zenon DEF After
  <1>6. g = [y \in 1..m |-> IF y - 1 >= s.pos /\ y - 1 < s.end THEN s.val
                            ELSE IF y - 1 >= s.end /\ y - 1 < s.end THEN s.val
                            ELSE Unit(h, y - 1)]
    BY <1>1, <1>4, Zenon DEF After
  <1>7. ASSUME NEW y \in 1..m
        PROVE  (IF y - 1 >= r.pos /\ y - 1 < r.end THEN r.val
                ELSE IF y - 1 >= r.end /\ y - 1 < s.end THEN s.val
                ELSE Unit(t, y - 1))
                 = (IF y - 1 >= s.pos /\ y - 1 < s.end THEN s.val
                    ELSE IF y - 1 >= s.end /\ y - 1 < s.end THEN s.val
                    ELSE Unit(h, y - 1))
    <2>1. PICK x \in Nat : x = y - 1 /\ x < m
      BY <1>3
    <2>2. x < t.len \/ x < s.end
      BY <1>3, <2>1
    <2>3. x < t.len \/ x < r.end =>
            Unit(h, x) = IF x >= r.pos /\ x < r.end THEN r.val ELSE Unit(t, x)
      BY <1>3 DEF UnitsChanged
    <2>4. (IF x >= r.pos /\ x < r.end THEN r.val
           ELSE IF x >= r.end /\ x < s.end THEN s.val ELSE Unit(t, x))
            = (IF x >= s.pos /\ x < s.end THEN s.val
               ELSE IF x >= s.end /\ x < s.end THEN s.val ELSE Unit(h, x))
      <3>1. CASE x >= r.end /\ x < s.end
        BY <1>2, <3>1
      <3>2. CASE ~(x >= r.end /\ x < s.end)
        <4>1. x < t.len \/ x < r.end
          BY <1>2, <2>2, <3>2
        <4>2. ~(x >= s.end /\ x < s.end)
          BY <1>2
        <4> QED
          BY <1>2, <2>3, <3>2, <4>1, <4>2
      <3> QED
        BY <3>1, <3>2
    <2> QED
      BY <2>1, <2>4
  <1>8. f = g
    BY <1>5, <1>6, <1>7, Zenon
  <1> QED
    BY <1>1, <1>8

\* The range goes on in the next block.
LEMMA NextBlock ==
    ASSUME NEW t, t.len \in Nat, NEW r, IsRange(r), NEW s, IsRange(s), r.end <= s.end,
           NEW e \in Nat, r.pos < e, e < r.end,
           NEW q, q.pos = e, q.end = r.end, q.val = r.val,
           NEW w, w.end = s.end, w.val = s.val \/ s.end = r.end,
           NEW h, h.len = t.len, UnitsChanged(t, r, e, h)
    PROVE  After(t, r, s) = After(h, q, w)
  <1>1. PICK m, f, g : m = Larger(t.len, s.end) /\ f = After(t, r, s) /\ g = After(h, q, w)
    OBVIOUS
  <1>2. r.pos \in Nat /\ r.end \in Nat /\ s.end \in Nat
    BY DEF IsRange
  <1>3. /\ m \in Nat /\ \A x \in Nat : x < m <=> x < t.len \/ x < s.end
        /\ \A x \in Nat : x < Larger(t.len, e) <=> x < t.len \/ x < e
    BY <1>1, <1>2, LargerFacts
  <1>4. f = [y \in 1..m |-> IF y - 1 >= r.pos /\ y - 1 < r.end THEN r.val
                            ELSE IF y - 1 >= r.end /\ y - 1 < s.end THEN s.val
                            ELSE Unit(t, y - 1)]
    BY <1>1, Zenon DEF After
  <1>5. g = [y \in 1..m |-> IF y - 1 >= e /\ y - 1 < r.end THEN r.val
                            ELSE IF y - 1 >= r.end /\ y - 1 < s.end THEN w.val
                            ELSE Unit(h, y - 1)]
    BY <1>1, Zenon DEF After
  <1>6. ASSUME NEW y \in 1..m
        PROVE  (IF y - 1 >= r.pos /\ y - 1 < r.end THEN r.val
                ELSE IF y - 1 >= r.end /\ y - 1 < s.end THEN s.val
                ELSE Unit(t, y - 1))
                 = (IF y - 1 >= e /\ y - 1 < r.end THEN r.val
                    ELSE IF y - 1 >= r.end /\ y - 1 < s.end THEN w.val
                    ELSE Unit(h, y - 1))
    <2>1. PICK x \in Nat : x = y - 1 /\ x < m
      BY <1>3
    <2>2. x < t.len \/ x < s.end
      BY <1>3, <2>1
    <2>3. x < t.len \/ x < e =>
            Unit(h, x) = IF x >= r.pos /\ x < e THEN r.val ELSE Unit(t, x)
      BY <1>3 DEF UnitsChanged
    <2>4. (IF x >= r.pos /\ x < r.end THEN r.val
           ELSE IF x >= r.end /\ x < s.end THEN s.val ELSE Unit(t, x))
            = (IF x >= e /\ x < r.end THEN r.val
               ELSE IF x >= r.end /\ x < s.end THEN w.val ELSE Unit(h, x))
      <3>1. CASE x >= e /\ x < r.end
        BY <1>2, <3>1
      <3>2. CASE x >= r.end /\ x < s.end
        BY <1>2, <3>2
      <3>3. CASE ~(x >= e /\ x < r.end) /\ ~(x >= r.end /\ x < s.end)
        <4>1. x < t.len \/ x < e
          BY <1>2, <2>2, <3>3
        <4>2. x >= r.pos /\ x < r.end <=> x >= r.pos /\ x < e
          BY <1>2, <3>3
        <4> QED
          BY <2>3, <3>3, <4>1, <4>2
      <3> QED
        BY <3>1, <3>2, <3>3
    <2> QED
      BY <2>1, <2>4
  <1>7. f = g
    BY <1>4, <1>5, <1>6, Zenon
  <1> QED
    BY <1>1, <1>7

LEMMA OneRange ==
    ASSUME NEW r, NEW T, T = <<r>>, NEW e, NEW q, q = [r EXCEPT !.pos = e]
    PROVE  Head(T) = r /\ Tail(T) = <<>> /\ [T EXCEPT ![1].pos = e] = <<q>> /\ <<q>> # <<>>
  <1>1. T[1] = r /\ DOMAIN T = 1..1 /\ Len(T) = 1
    OBVIOUS
  <1>2. PICK X : X = [T EXCEPT ![1].pos = e]
    OBVIOUS
  <1>3. X = [T EXCEPT ![1] = q]
    BY <1>1, <1>2
  <1>4. X = <<q>>
    BY <1>1, <1>3
  <1>5. Tail(T) = <<>>
    OBVIOUS
  <1> QED
    BY <1>1, <1>2, <1>4, <1>5

LEMMA FirstOfTwo ==
    ASSUME NEW r, NEW s, NEW T, T = <<r, s>>, NEW e, NEW q, q = [r EXCEPT !.pos = e]
    PROVE  /\ Head(T) = r /\ Tail(T) = <<s>> /\ [T EXCEPT ![1].pos = e] = <<q, s>>
           /\ <<s>> # <<>> /\ <<q, s>> # <<>>
  <1>1. T[1] = r /\ T[2] = s /\ DOMAIN T = 1..2 /\ Len(T) = 2
    OBVIOUS
  <1>2. PICK X : X = [T EXCEPT ![1].pos = e]
    OBVIOUS
  <1>3. X = [T EXCEPT ![1] = q]
    BY <1>1, <1>2
  <1>4. X = <<q, s>>
    BY <1>1, <1>3
  <1>5. Tail(T) = <<s>>
    OBVIOUS
  <1> QED
    BY <1>1, <1>2, <1>4, <1>5

\* The step, with what it computes
BlockWrite(r, b, e, tag, g, v, d) ==
    /\ d \in {block[b][v], {tag}, {}}
    /\ block' = [block EXCEPT ![b][v] = d]
    /\ \/ /\ d = {tag}
          /\ ht' = IF e = r.end /\ e > g.len THEN WithLen(g, e) ELSE g
          /\ todo' = IF e = r.end THEN Tail(todo) ELSE [todo EXCEPT ![1].pos = e]
          /\ pc' = IF todo' = <<>> THEN "wrote" ELSE "block"
          /\ UNCHANGED pending
       \/ tee_fs_htree_close
BlockAction(r, b, e, tag, g, v) ==
    /\ pc = "block" /\ r = Head(todo) /\ FrontBlock(r, b, e) /\ BlockTag(ht, r, b, e, tag)
    /\ g = tee_fs_htree_write_block(ht, b, tag) /\ v = g.node[b + 1].blk
    /\ \/ \E d : BlockWrite(r, b, e, tag, g, v, d)
       \/ tee_fs_htree_close /\ UNCHANGED block
    /\ UNCHANGED <<head, node, anchor, tx>>

LEMMA BlockActionOf ==
    ASSUME out_of_place_write
    PROVE  \E r, b, e, tag, g, v : BlockAction(r, b, e, tag, g, v)
  <1>1. PICK r : r = Head(todo)
    OBVIOUS
  <1>2. PICK b : b = r.pos \div UPB
    OBVIOUS
  <1>3. PICK e : e = Min({r.end, (b + 1) * UPB})
    OBVIOUS
  <1>4. PICK tag : tag = [tx |-> tx,
                          data |-> [u \in 0..(UPB - 1) |->
                                      IF b * UPB + u >= r.pos /\ b * UPB + u < e
                                      THEN r.val ELSE OldBlock(ht, b)[u]]]
    OBVIOUS
  <1>5. PICK g : g = tee_fs_htree_write_block(ht, b, tag)
    OBVIOUS
  <1>6. PICK v : v = g.node[BLOCK_NUM_TO_NODE_ID(b)].blk
    OBVIOUS
  <1>7. \/ \E d \in {block[b][v], {tag}, {}} :
              /\ block' = [block EXCEPT ![b][v] = d]
              /\ Request(d, {tag},
                   /\ ht' = IF e = r.end /\ e > g.len
                            THEN [g EXCEPT !.len = e, !.dirty = @ \cup {1}]
                            ELSE g
                   /\ todo' = IF e = r.end THEN Tail(todo) ELSE [todo EXCEPT ![1].pos = e]
                   /\ pc' = IF todo' = <<>> THEN "wrote" ELSE "block"
                   /\ UNCHANGED pending)
        \/ tee_fs_htree_close /\ UNCHANGED block
    BY <1>1, <1>2, <1>3, <1>4, <1>5, <1>6, ZenonT(40) DEF out_of_place_write
  <1>8. \/ \E d : BlockWrite(r, b, e, tag, g, v, d)
        \/ tee_fs_htree_close /\ UNCHANGED block
    <2>1. CASE tee_fs_htree_close /\ UNCHANGED block
      BY <2>1
    <2>2. ASSUME NEW d \in {block[b][v], {tag}, {}},
                 block' = [block EXCEPT ![b][v] = d],
                 Request(d, {tag},
                   /\ ht' = IF e = r.end /\ e > g.len
                            THEN [g EXCEPT !.len = e, !.dirty = @ \cup {1}]
                            ELSE g
                   /\ todo' = IF e = r.end THEN Tail(todo) ELSE [todo EXCEPT ![1].pos = e]
                   /\ pc' = IF todo' = <<>> THEN "wrote" ELSE "block"
                   /\ UNCHANGED pending)
          PROVE  BlockWrite(r, b, e, tag, g, v, d)
      BY <2>2, Zenon DEF BlockWrite, Request, WithLen
    <2> QED
      BY <1>7, <2>1, <2>2, Zenon
  <1>9. pc = "block" /\ UNCHANGED <<head, node, anchor, tx>>
    BY DEF out_of_place_write
  <1>10. FrontBlock(r, b, e) /\ BlockTag(ht, r, b, e, tag)
    BY <1>2, <1>3, <1>4, Zenon DEF FrontBlock, BlockTag
  <1>11. BlockAction(r, b, e, tag, g, v)
    BY <1>1, <1>5, <1>6, <1>8, <1>9, <1>10, Zenon DEF BlockAction, BLOCK_NUM_TO_NODE_ID
  <1> QED
    BY <1>11

LEMMA BlockStep ==
    ASSUME IInv, UNCHANGED setup, out_of_place_write
    PROVE  DiskOK' /\ Phase' /\ Simulation
  <1>1. Ground /\ DiskOK /\ tx \in Nat /\ tx <= MaxTx /\ tx <= tx
    BY GroundFacts DEF IInv
  <1>2. pc = "block"
    BY DEF out_of_place_write
  <1>3. PICK B, t : Working(B, {}, t) /\ Writing(B, t)
    BY <1>2, PhaseOf DEF IInv
  <1>4. /\ ht = t /\ Backed(B) /\ Base(B) /\ Grown(B, {}, t) /\ TagsSoFar(t)
        /\ tx >= 1 /\ TagsBefore(B)
    BY <1>3 DEF Working, Writing, Backed
  <1>5. PICK r, s : Filling(t, r, s)
    BY <1>3 DEF Writing
  <1>6. /\ IsRange(r) /\ IsRange(s) /\ (r.pos > t.len => r.pos % UPB = 0)
        /\ Reading(t, Larger(t.len, r.pos)) /\ pending = After(t, r, s)
        /\ \/ todo = <<r>> /\ r = s
           \/ todo = <<r, s>> /\ s.pos = r.end
    BY <1>5 DEF Filling
  <1>7. /\ IsTree(B) /\ IsTree(t) /\ t.counter = B.counter /\ B.counter \in Nat /\ t.len \in Nat
        /\ B.counter >= 1 /\ head # NoHeads
    BY <1>4, TreeFacts DEF Base, Grown
  <1>8. tx \in 1..MaxTx
    BY <1>1, <1>4, SmallFacts
  <1>9. PICK a, b, e, tag, g, v : BlockAction(a, b, e, tag, g, v)
    BY BlockActionOf
  <1>10. PICK q : q = [r EXCEPT !.pos = e]
    OBVIOUS
  <1>11. a = r
    BY <1>6, <1>9, <1>10, OneRange, FirstOfTwo DEF BlockAction
  <1>12. /\ FrontBlock(r, b, e) /\ BlockTag(t, r, b, e, tag)
         /\ g = tee_fs_htree_write_block(t, b, tag) /\ v = g.node[b + 1].blk
         /\ UNCHANGED <<head, node, anchor, tx>>
         /\ \/ \E d : BlockWrite(r, b, e, tag, g, v, d)
            \/ tee_fs_htree_close /\ UNCHANGED block
    BY <1>4, <1>9, <1>11, Zenon DEF BlockAction
  <1>13. Place(t, r, b, e)
    BY <1>1, <1>6, <1>7, <1>12, FrontBlockPlace
  <1>14. /\ b \in Nat /\ b \in Blocks /\ b + 1 \in Nodes /\ e \in Nat /\ e \in 0..MaxLen
         /\ r.pos < e /\ e <= r.end /\ (b + 1 \in Present(t) \/ b \in Present(t))
    BY <1>13 DEF Place
  <1>15. tag \in Tags /\ tag.tx = tx
    BY <1>1, <1>6, <1>7, <1>8, <1>12, <1>13, TagOfBlock
  <1>16. BlockIsChanged(t, b + 1, tag, g)
    BY <1>7, <1>12, <1>14, <1>15, BlockChanged
  <1>17. PICK l \in BOOLEAN : l = (e = r.end)
    OBVIOUS
  <1>18. PICK h : h = IF l /\ e > g.len THEN WithLen(g, e) ELSE g
    OBVIOUS
  <1>19. Changed(t, b + 1, tag, h) /\ h.len = IF l THEN Larger(t.len, e) ELSE t.len
    BY <1>7, <1>14, <1>16, <1>18, ChangedTree
  <1>20. Grown(B, {}, h) /\ h.node[b + 1].blk = 1 - B.node[b + 1].blk
    BY <1>1, <1>4, <1>7, <1>14, <1>15, <1>19, ChangedGrown
  <1>21. v = h.node[b + 1].blk /\ v \in Vers /\ v # B.node[b + 1].blk
    <2>1. v = h.node[b + 1].blk
      BY <1>12, <1>16, <1>19 DEF BlockIsChanged, Changed
    <2>2. B.node[b + 1].blk \in Vers
      BY <1>7, <1>14, TreeFacts
    <2> QED
      BY <1>20, <2>1, <2>2, SmallFacts
  <1>22. ASSUME NEW d, BlockWrite(r, b, e, tag, g, v, d)
         PROVE  /\ DiskOK' /\ Backed(B)' /\ block'[b][v] = d
                /\ \A c \in Blocks, w \in Vers : c # b \/ w # v => block'[c][w] = block[c][w]
    <2>1. d \in {block[b][v], {tag}, {}} /\ BlockSet(b, v, d)
      BY <1>22 DEF BlockWrite, BlockSet
    <2>2. d \in SUBSET Tags
      <3>1. block[b][v] \in SUBSET Tags
        BY <1>1, <1>14, <1>21 DEF DiskOK
      <3> QED
        BY <1>15, <2>1, <3>1
    <2>3. /\ DiskOK' /\ block'[b][v] = d
          /\ \A c \in Blocks, w \in Vers : c # b \/ w # v => block'[c][w] = block[c][w]
      BY <1>1, <1>12, <1>14, <1>21, <2>1, <2>2, BlockWritten
    <2>4. ASSUME NEW c \in 0..(CeilBlocks(B.len) - 1)
          PROVE  block'[c][B.node[c + 1].blk] = block[c][B.node[c + 1].blk]
      <3>1. B.len \in Nat /\ CeilBlocks(B.len) \in Nat
        BY <1>7, TreeFacts, CeilFacts
      <3>2. c \in Nat /\ BlockReads(B, c)
        BY <1>4, <2>4, <3>1 DEF Base, AllReads
      <3>3. c \in Blocks /\ c + 1 \in Nodes
        BY <1>1, <1>7, <3>2, ReadsFacts
      <3>4. B.node[c + 1].blk \in Vers
        BY <1>7, <3>3, TreeFacts
      <3>5. c = b => B.node[c + 1].blk # v
        BY <1>21
      <3> QED
        BY <2>3, <3>3, <3>4, <3>5
    <2>5. Base(B)'
      <3>1. /\ node' = node /\ head' = head /\ tx' = tx
        BY <1>12
      <3>2. tx' \in Nat /\ tx <= tx' /\ head' # NoHeads /\ head'[B.counter % 2] = head[B.counter % 2]
        BY <1>1, <1>7, <3>1
      <3> QED
        BY <1>1, <1>4, <2>4, <3>1, <3>2, KeptBase
    <2>6. Chosen(B) => Chosen(B)'
      BY <1>12 DEF Chosen, Anchor, RootHash
    <2>7. NotLinked => NotLinked'
      BY <1>12 DEF NotLinked, Anchor
    <2>8. Backed(B)'
      BY <1>4, <2>5, <2>6, <2>7 DEF Backed
    <2> QED
      BY <2>3, <2>8
  <1>23. CASE tee_fs_htree_close /\ UNCHANGED block
    <2>1. UNCHANGED <<disk, setup, anchor>> /\ tx' \in Nat /\ tx <= tx'
      BY <1>1, <1>12, <1>23 DEF disk
    <2>2. DiskOK' /\ Backed(B)'
      BY <1>1, <1>4, <2>1, SameFile
    <2>3. ht.counter # 0 /\ pc # "dummy"
      BY <1>2, <1>4, <1>7
    <2>4. Closed' /\ Simulation
      BY <1>4, <1>12, <1>23, <2>2, <2>3, FailedUpdate
    <2> QED
      BY <2>2, <2>4 DEF Phase
  <1>24. ASSUME NEW d, BlockWrite(r, b, e, tag, g, v, d), tee_fs_htree_close
         PROVE  DiskOK' /\ Phase' /\ Simulation
    <2>1. DiskOK' /\ Backed(B)'
      BY <1>22, <1>24
    <2>2. ht.counter # 0 /\ pc # "dummy"
      BY <1>2, <1>4, <1>7
    <2>3. Closed' /\ Simulation
      BY <1>4, <1>12, <1>24, <2>1, <2>2, FailedUpdate
    <2> QED
      BY <2>1, <2>3 DEF Phase
  <1>25. ASSUME NEW d, BlockWrite(r, b, e, tag, g, v, d), d = {tag}, ht' = h,
                todo' = IF e = r.end THEN Tail(todo) ELSE [todo EXCEPT ![1].pos = e],
                pc' = IF todo' = <<>> THEN "wrote" ELSE "block", UNCHANGED pending
         PROVE  DiskOK' /\ Phase' /\ Simulation
    <2>1. DiskOK' /\ Backed(B)' /\ block'[b][v] = {tag}
      BY <1>22, <1>25
    <2>2. \A c \in Blocks, w \in Vers : c # b \/ w # v => block'[c][w] = block[c][w]
      BY <1>22, <1>25
    <2>3. Reading(h, Larger(t.len, e))'
      BY <1>1, <1>6, <1>7, <1>13, <1>19, <1>21, <2>1, <2>2, BlockReading
    <2>4. UnitsChanged(t, r, e, h)
      BY <1>1, <1>6, <1>7, <1>8, <1>12, <1>13, <1>19, BlockUnits
    <2>5. Grown(B, {}, h)' /\ Written(B, {}, h)' /\ IsTree(h) /\ h.len \in Nat
      BY <1>19, <1>20, TreeFacts DEF Grown, Written, Changed
    <2>6. TagsSoFar(h)' /\ TagsBefore(B)' /\ tx' >= 1
      <3>1. ASSUME NEW j \in Nodes, h.node[j].tag # NULL PROVE h.node[j].tag.tx <= tx
        <4>1. CASE j = b + 1
          BY <1>1, <1>15, <1>19, <4>1 DEF Changed
        <4>2. CASE j # b + 1
          <5>1. h.node[j] = t.node[j]
            BY <1>19, <4>2 DEF Changed
          <5> QED
            BY <1>4, <3>1, <5>1 DEF TagsSoFar
        <4> QED
          BY <4>1, <4>2
      <3>2. tx' = tx
        BY <1>12
      <3> QED
        BY <1>4, <3>1, <3>2 DEF TagsSoFar, TagsBefore
    <2>7. PICK f : Shows(f) /\ Shows(f)'
      BY <1>4, <1>12, <2>1, BackedShows
    <2>8. Simulation
      BY <1>25, <2>7 DEF Simulation, Simulates
    <2>9. SUFFICES Working(B, {}, h)'
      BY <2>1, <2>8 DEF Phase
    <2>10. SUFFICES Writing(B, h)' \/ Filled(B, {}, h)'
      BY <1>25, <2>1, <2>5, <2>6 DEF Working
    <2>11. r.pos \in Nat /\ r.end \in Nat /\ s.end \in Nat /\ r.end <= s.end /\ r.val \in 0..MaxTx
      BY <1>6 DEF IsRange
    <2>12. CASE e = r.end /\ todo = <<r>> /\ r = s
      <3>1. todo' = <<>> /\ pc' = "wrote"
        BY <1>10, <1>25, <2>12, OneRange
      <3>2. h.len = Larger(t.len, r.end) /\ UnitsChanged(t, r, r.end, h)
        BY <1>17, <1>19, <2>4, <2>12
      <3>3. After(t, r, r) = Content(h)
        BY <1>6, <1>7, <3>2, LastBlock
      <3>4. AllReads(h)'
        BY <2>3, <2>12, <3>2 DEF Reading, AllReads
      <3>5. pending' = Content(h)'
        BY <1>6, <1>25, <2>12, <3>3 DEF Content
      <3> QED
        BY <3>1, <3>4, <3>5 DEF Filled
    <2>13. CASE e = r.end /\ todo = <<r, s>> /\ s.pos = r.end
      <3>1. todo' = <<s>> /\ pc' = "block"
        BY <1>10, <1>25, <2>13, FirstOfTwo
      <3>2. h.len = Larger(t.len, r.end) /\ UnitsChanged(t, r, r.end, h)
        BY <1>17, <1>19, <2>4, <2>13
      <3>3. After(t, r, s) = After(h, s, s)
        BY <1>6, <1>7, <2>13, <3>2, NextRange
      <3>4. pending' = After(h, s, s)'
        BY <1>6, <1>25, <3>3 DEF After
      <3>5. h.len >= s.pos /\ s.pos \in Nat
        BY <1>7, <2>11, <2>13, <3>2, LargerFacts
      <3>6. Larger(h.len, s.pos) = h.len /\ ~(s.pos > h.len)
        BY <2>5, <3>5 DEF Larger
      <3>7. Reading(h, Larger(h.len, s.pos))'
        BY <2>3, <2>13, <3>2, <3>6 DEF Reading
      <3>8. Filling(h, s, s)'
        BY <1>6, <3>1, <3>4, <3>6, <3>7 DEF Filling
      <3> QED
        BY <2>6, <3>1, <3>8 DEF Writing
    <2>14. CASE e # r.end
      <3>1. q.pos = e /\ q.end = r.end /\ q.val = r.val /\ q = [pos |-> e, end |-> r.end, val |-> r.val]
        BY <1>6, <1>10 DEF IsRange
      <3>2. e < r.end /\ h.len = t.len
        <4>1. e < r.end
          BY <1>14, <2>11, <2>14
        <4>2. ~l
          BY <1>17, <2>14, Zenon
        <4> QED
          BY <1>19, <4>1, <4>2
      <3>3. IsRange(q)
        BY <1>6, <1>14, <3>1, <3>2 DEF IsRange
      <3>4. q.pos % UPB = 0
        BY <1>13, <2>14, <3>1 DEF Place
      <3>5. Reading(h, Larger(h.len, q.pos))'
        BY <2>3, <3>1, <3>2
      <3>6. CASE todo = <<r>> /\ r = s
        <4>1. todo' = <<q>> /\ pc' = "block"
          BY <1>10, <1>25, <2>14, <3>6, OneRange
        <4>2. After(t, r, s) = After(h, q, q)
          BY <1>6, <1>7, <1>14, <2>4, <2>11, <3>1, <3>2, <3>6, NextBlock
        <4>3. pending' = After(h, q, q)'
          BY <1>6, <1>25, <4>2 DEF After
        <4>4. Filling(h, q, q)'
          BY <3>3, <3>4, <3>5, <4>1, <4>3 DEF Filling
        <4> QED
          BY <2>6, <4>1, <4>4 DEF Writing
      <3>7. CASE todo = <<r, s>> /\ s.pos = r.end
        <4>1. todo' = <<q, s>> /\ pc' = "block"
          BY <1>10, <1>25, <2>14, <3>7, FirstOfTwo
        <4>2. After(t, r, s) = After(h, q, s)
          BY <1>6, <1>7, <1>14, <2>4, <2>11, <3>1, <3>2, NextBlock
        <4>3. pending' = After(h, q, s)'
          BY <1>6, <1>25, <4>2 DEF After
        <4>4. Filling(h, q, s)'
          BY <1>6, <3>1, <3>3, <3>4, <3>5, <3>7, <4>1, <4>3 DEF Filling
        <4> QED
          BY <2>6, <4>1, <4>4 DEF Writing
      <3> QED
        BY <1>6, <3>6, <3>7
    <2> QED
      BY <1>6, <2>12, <2>13, <2>14
  <1>26. CASE \E d : BlockWrite(r, b, e, tag, g, v, d)
    <2>1. PICK d : BlockWrite(r, b, e, tag, g, v, d)
      BY <1>26
    <2>2. \/ /\ d = {tag} /\ ht' = IF e = r.end /\ e > g.len THEN WithLen(g, e) ELSE g
             /\ todo' = IF e = r.end THEN Tail(todo) ELSE [todo EXCEPT ![1].pos = e]
             /\ pc' = IF todo' = <<>> THEN "wrote" ELSE "block"
             /\ UNCHANGED pending
          \/ tee_fs_htree_close
      BY <2>1 DEF BlockWrite
    <2>3. h = IF e = r.end /\ e > g.len THEN WithLen(g, e) ELSE g
      BY <1>17, <1>18
    <2> QED
      BY <1>24, <1>25, <2>1, <2>2, <2>3, Zenon
  <1> QED
    BY <1>12, <1>23, <1>26

-----------------------------------------------------------------------------
(* All the steps *)

LEMMA InitIInv ==
    ASSUME Init, AtomicUpdates(setup)
    PROVE  IInv
  <1>1. DiskOK
    <2>1. node = [i \in Nodes |-> [v \in Vers |-> node[i][v]]]
      <3>1. node = [i \in Nodes |-> [v \in Vers |-> {}]]
        BY DEF Init, NoNodes
      <3>2. \A i \in Nodes : node[i] = [v \in Vers |-> node[i][v]]
        BY <3>1
      <3> QED
        BY <3>1, <3>2
    <2>2. \A i \in Nodes, v \in Vers : node[i][v] = {}
      BY DEF Init, NoNodes
    <2>3. block \in [Blocks -> [Vers -> SUBSET Tags]]
      BY DEF Init, NoBlocks
    <2> QED
      BY <2>1, <2>2, <2>3 DEF Init, DiskOK
  <1>2. Ground
    BY <1>1, SmallFacts DEF Init, Ground
  <1>3. NoFile
    BY <1>2, GroundFacts DEF Init, NoFile
  <1>4. Closed
    BY <1>3 DEF Init, Closed
  <1> QED
    BY <1>2, <1>4 DEF IInv, Phase

LEMMA NextIInv ==
    ASSUME IInv, Next
    PROVE  IInv' /\ Simulation
  <1>1. UNCHANGED setup /\ Ground /\ ~setup.truncates
    BY GroundFacts DEF Next, IInv
  <1>2. DiskOK' /\ Phase' /\ Simulation
    <2>1. CASE create_and_sync
      BY <1>1, <2>1, CreateStep
    <2>2. CASE tee_fs_htree_open
      BY <1>1, <2>2, OpenStep
    <2>3. ASSUME NEW pos \in 0..MaxLen, NEW n \in 1..MaxLen, ree_fs_write_primitive(pos, n)
          PROVE  DiskOK' /\ Phase' /\ Simulation
      BY <1>1, <2>3, WriteStep
    <2>4. ASSUME NEW n \in 0..MaxLen, ree_fs_truncate(n)
          PROVE  DiskOK' /\ Phase' /\ Simulation
      BY <1>1, <2>4 DEF ree_fs_truncate, Truncates
    <2>5. CASE out_of_place_write
      BY <1>1, <2>5, BlockStep
    <2>6. CASE htree_sync_node_to_storage
      BY <1>1, <2>6, NodeStep
    <2>7. CASE tee_fs_htree_sync_to_storage
      BY <1>1, <2>7, RootStep
    <2>8. CASE WriteDummyHead
      BY <1>1, <2>8, DummyStep
    <2>9. CASE Commit
      BY <1>1, <2>9, CommitStep
    <2>10. CASE tee_fs_rpc_remove_dfh
      BY <1>1, <2>10, RemoveStep
    <2>11. CASE ree_fs_close \/ Crash
      BY <1>1, <2>11, ClosingStep
    <2> QED
      BY <2>1, <2>2, <2>3, <2>4, <2>5, <2>6, <2>7, <2>8, <2>9, <2>10, <2>11 DEF Next
  <1>3. tx' \in 0..MaxTx
    <2>1. tx' = tx \/ (tx' = tx + 1 /\ tx < setup.updates)
      BY DEF Next, create_and_sync, tee_fs_htree_open, ree_fs_write_primitive, ree_fs_truncate,
             out_of_place_write, htree_sync_node_to_storage, tee_fs_htree_sync_to_storage,
             WriteDummyHead, Commit, tee_fs_rpc_remove_dfh, ree_fs_close, Crash
    <2>2. setup.updates \in 0..MaxTx /\ tx \in 0..MaxTx /\ MaxTx \in Nat
      BY <1>1, GroundFacts, SmallFacts DEF Ground
    <2> QED
      BY <2>1, <2>2
  <1>4. Ground'
    BY <1>1, <1>2, <1>3 DEF Ground
  <1> QED
    BY <1>2, <1>4 DEF IInv

LEMMA StutterIInv ==
    ASSUME IInv, UNCHANGED vars
    PROVE  IInv' /\ Simulation
  <1>1. /\ UNCHANGED <<setup, head, node, block, anchor>>
        /\ UNCHANGED <<ht, pc, todo, tx, pending>>
    BY DEF vars, disk
  <1>2. /\ Ground /\ Phase /\ UNCHANGED <<disk, setup, anchor>> /\ tx' \in Nat /\ tx <= tx'
    BY <1>1, GroundFacts DEF IInv, disk
  <1>3. /\ \A B : Base(B) => Base(B)'
        /\ \A B : Stored(B) => Stored(B)'
        /\ \A B : Backed(B) => Backed(B)'
        /\ NoFile => NoFile'
        /\ \A f : Shows(f) => Shows(f)'
        /\ DiskOK'
    BY <1>2, SameFile
  <1>4. NotLinked => NotLinked'
    BY <1>1 DEF NotLinked, Anchor
  <1>5. ASSUME NEW h, Chosen(h) PROVE Chosen(h)'
    BY <1>2, <1>5, SameChosen
  <1>6. Closed => Closed'
    BY <1>1, <1>3 DEF Closed, Anchor
  <1>7. Fresh => Fresh'
    BY <1>1, <1>3 DEF Fresh, NewTree
  <1>8. ASSUME NEW h, Dummy(h) PROVE Dummy(h)'
    BY <1>1, <1>3, <1>4, <1>8 DEF Dummy, Anchor
  <1>9. ASSUME NEW h, Idle(h) PROVE Idle(h)'
    BY <1>1, <1>3, <1>9 DEF Idle, Content
  <1>10. ASSUME NEW B, NEW h, Committing(B, h) PROVE Committing(B, h)'
    BY <1>1, <1>3, <1>5, <1>10 DEF Committing, Anchor, Content
  <1>11. Failed => Failed'
    BY <1>1, <1>3 DEF Failed, Anchor, Reuse
  <1>12. ASSUME NEW B, NEW Y, NEW h, Working(B, Y, h) PROVE Working(B, Y, h)'
    <2>1. ht' = h /\ Backed(B)' /\ Grown(B, Y, h)' /\ Written(B, Y, h)' /\ TagsSoFar(h)'
      BY <1>1, <1>3, <1>12 DEF Working, Grown, Written, TagsSoFar
    <2>2. ASSUME NEW r, NEW s, Filling(h, r, s) PROVE Filling(h, r, s)'
      BY <1>1, <2>2 DEF Filling, Reading, BlockReads, After
    <2>3. Writing(B, h) => Writing(B, h)'
      BY <1>1, <2>2 DEF Writing, TagsBefore
    <2>4. Filled(B, Y, h) => Filled(B, Y, h)'
      BY <1>1 DEF Filled, AllReads, BlockReads, Content
    <2> QED
      BY <1>12, <2>1, <2>3, <2>4 DEF Working
  <1>13. Phase'
    BY <1>2, <1>6, <1>7, <1>8, <1>9, <1>10, <1>11, <1>12 DEF Phase
  <1>14. IInv'
    BY <1>1, <1>2, <1>3, <1>13 DEF IInv, Ground
  <1>15. PICK f : Shows(f)
    BY <1>2, SomethingStored, FileShown
  <1>16. Simulation
    BY <1>1, <1>3, <1>15 DEF Simulation, Simulates
  <1> QED
    BY <1>14, <1>16

\* What each state of the invariant shows
LEMMA IInvShows ==
    ASSUME IInv
    PROVE  /\ \E f : Shows(f) /\ Committed = f /\ (f \in Contents \/ f = NULL)
           /\ StoredFileReads /\ HandleReads /\ UpdatesAreStored
  <1>1. Ground /\ Phase /\ DiskOK /\ Anchor \in {"hash", "counter"}
    BY GroundFacts DEF IInv
  <1>2. PICK f : Shows(f)
    BY <1>1, SomethingStored, FileShown
  <1>3. Committed = f /\ (f \in Contents \/ f = NULL)
    BY <1>1, <1>2, ShowsCommitted
  <1>4. StoredFileReads
    BY <1>3, NullAssumption DEF StoredFileReads
  <1>5. ASSUME pc = "idle", ht # NULL
        PROVE  AllReads(ht) /\ Content(ht) = pending /\ Committed = pending
    <2>1. PICK h : Idle(h)
      BY <1>1, <1>5, PhaseOf DEF Closed
    <2>2. ht = h /\ pending = Content(h) /\ Stored(h)
      BY <2>1 DEF Idle
    <2>3. AllReads(h)
      BY <2>2 DEF Stored, Base
    <2>4. PICK c : c = Content(h)
      OBVIOUS
    <2>5. Committed = c
      BY <1>1, <2>2, <2>4, ShowsCommitted DEF Shows
    <2> QED
      BY <2>2, <2>3, <2>4, <2>5
  <1> QED
    BY <1>2, <1>3, <1>4, <1>5 DEF HandleReads, UpdatesAreStored

\* Only one content is shown: what a restart finds.
ShownIsCommitted == ~setup.truncates /\ \A f : Shows(f) => Committed = f

LEMMA IInvCommitted == ASSUME IInv PROVE ShownIsCommitted
  <1>1. Ground /\ ~setup.truncates
    BY GroundFacts DEF IInv
  <1>2. ASSUME NEW f, Shows(f) PROVE Committed = f
    BY <1>1, <1>2, ShowsCommitted
  <1> QED
    BY <1>1, <1>2 DEF ShownIsCommitted

LEMMA MappedStep ==
    ASSUME ShownIsCommitted, ShownIsCommitted', Simulation
    PROVE  [A!Next]_(A!fileVars)
  <1>1. PICK f, g : Shows(f) /\ Shows(g)' /\ Simulates(f, g, pending, pending')
    BY DEF Simulation
  <1>2. Committed = f /\ Committed' = g
    BY <1>1 DEF ShownIsCommitted
  <1>3. /\ Mapped(Committed) = f /\ Mapped(Committed)' = g
        /\ Mapped(pending) = pending /\ Mapped(pending)' = pending'
    BY <1>2 DEF ShownIsCommitted, Mapped
  <1>4. CASE g = f /\ pending' = pending
    BY <1>3, <1>4 DEF A!fileVars
  <1>5. CASE g = f /\ pending' = NULL
    <2>1. A!Close
      BY <1>3, <1>5 DEF A!Close
    <2> QED
      BY <2>1 DEF A!Next
  <1>6. CASE g = f /\ pending = NULL /\ pending' = IF f = NULL THEN <<>> ELSE f
    <2>1. A!Open
      BY <1>3, <1>6 DEF A!Open
    <2> QED
      BY <2>1 DEF A!Next
  <1>7. CASE /\ g = f /\ pending # NULL /\ pending' # NULL /\ pending' # pending
             /\ \E pos \in 0..MaxLen, n \in 1..MaxLen, d \in 1..MaxTx :
                   pos + n <= MaxLen /\ pending' = F!Overlay(pending, pos, n, d)
    <2>1. PICK pos \in 0..MaxLen, n \in 1..MaxLen, d \in 1..MaxTx :
             pos + n <= MaxLen /\ pending' = F!Overlay(pending, pos, n, d)
      BY <1>7
    <2>2. F!Overlay(pending, pos, n, d) = A!Overlay(pending, pos, n, d)
      BY DEF F!Overlay, A!Overlay
    <2>3. A!Write
      BY <1>3, <1>7, <2>1, <2>2 DEF A!Write
    <2> QED
      BY <2>3 DEF A!Next
  <1>8. CASE pending # NULL /\ g = pending /\ pending' \in {pending, NULL}
    <2>1. A!Commit
      BY <1>3, <1>8 DEF A!Commit
    <2> QED
      BY <2>1 DEF A!Next
  <1> QED
    BY <1>1, <1>4, <1>5, <1>6, <1>7, <1>8 DEF Simulates

\* The inductive invariant: at every step of every operation, and after every
\* failure, the disk holds one whole version of the file, which nothing that is
\* being written touches.
THEOREM OneVersionIsStored == Spec /\ AtomicUpdates(setup) => []IInv
  <1>1. Init /\ AtomicUpdates(setup) => IInv
    BY InitIInv
  <1>2. IInv /\ [Next]_vars => IInv'
    BY NextIInv, StutterIInv
  <1> QED
    BY <1>1, <1>2, PTL DEF Spec

\* A file opens again and all of it can be read, whatever has failed and whenever
\* power was lost, for files of any size (tee_fs_htree_open, get_idx_from_counter).
THEOREM FilesAlwaysRead == Spec /\ AtomicUpdates(setup) => []StoredFileReads
  <1>1. IInv => StoredFileReads
    BY IInvShows
  <1> QED
    BY <1>1, OneVersionIsStored, PTL

\* Between operations an open handle reads what the operations before have made of
\* the file (ree_fs_read_primitive, out_of_place_write).
THEOREM HandlesReadUpdates == Spec /\ AtomicUpdates(setup) => []HandleReads
  <1>1. IInv => HandleReads
    BY IInvShows
  <1> QED
    BY <1>1, OneVersionIsStored, PTL

\* When an operation has succeeded its result is stored: a restart finds the file
\* as the handle has left it (tee_fs_htree_sync_to_storage, commit_dirh_writes).
THEOREM UpdatesSurvive == Spec /\ AtomicUpdates(setup) => []UpdatesAreStored
  <1>1. IInv => UpdatesAreStored
    BY IInvShows
  <1> QED
    BY <1>1, OneVersionIsStored, PTL

\* The hash tree implements an atomic file: with any failure of a request and any
\* loss of power, the stored file only changes from one complete version to the
\* next (tee_fs_htree_write_block, htree_sync_node_to_storage, update_root).
THEOREM UpdatesAreAtomic == Spec /\ AtomicUpdates(setup) => ImplementsAtomicFile
  <1>1. Init /\ AtomicUpdates(setup) => A!Init
    <2>1. SUFFICES ASSUME Init, AtomicUpdates(setup) PROVE A!Init
      OBVIOUS
    <2>2. Ground
      BY <2>1, InitIInv DEF IInv
    <2>3. ~setup.truncates /\ Anchor \in {"hash", "counter"}
      BY <2>2, GroundFacts
    <2>4. NoFile
      BY <2>1, <2>3 DEF Init, NoFile
    <2>5. Committed \in {NULL, <<>>}
      BY <2>4, NoFileOpens DEF NothingStored
    <2>6. Mapped(Committed) = Committed /\ Mapped(pending) = NULL
      BY <2>1, <2>3 DEF Mapped, Init
    <2> QED
      BY <2>5, <2>6 DEF A!Init
  <1>2. IInv => ShownIsCommitted
    BY IInvCommitted
  <1>3. IInv /\ [Next]_vars => Simulation
    BY NextIInv, StutterIInv
  <1>4. ShownIsCommitted /\ ShownIsCommitted' /\ Simulation => [A!Next]_(A!fileVars)
    BY MappedStep
  <1> QED
    BY <1>1, <1>2, <1>3, <1>4, OneVersionIsStored, PTL DEF Spec, ImplementsAtomicFile, A!Spec

-----------------------------------------------------------------------------
(* The layout.  Every part lies in one physical block of BLOCK_SIZE bytes, but a *)
(* data block fills its own.  Nodes are in the physical blocks 62 k + 1, and     *)
(* data blocks in those from 62 k + 2 to 62 k + 62.                              *)

\* block_nodes, which get_offs_size() computes, is 31.
LEMMA BlockNodes == block_nodes = 31
BY DEF block_nodes, BLOCK_SIZE, node_size

\* A node is in slot NodeSlot of the physical block of group NodeGroup; a data
\* block is in slot BlockSlot of the 61 of group BlockGroup.
NodeGroup(idx) == idx \div 31
NodeSlot(idx) == idx % 31
BlockGroup(idx, vers) == (2 * idx + vers) \div 61
BlockSlot(idx, vers) == (2 * idx + vers) % 61

NodeIsAt(idx, vers, q, r) ==
    /\ q \in Nat /\ r \in 0..30 /\ idx = 31 * q + r
    /\ NodeOffs(idx, vers) = (1 + 62 * q) * 4096 + 132 * r + 66 * vers

BlockIsAt(idx, vers, q, r) ==
    /\ q \in Nat /\ r \in 0..60 /\ 2 * idx + vers = 61 * q + r
    /\ BlockOffs(idx, vers) = (62 * q + r + 2) * 4096

\* The physical block and the place in it of a node.
LEMMA NodePlace ==
    ASSUME NEW idx \in Nat, NEW vers \in {0, 1}
    PROVE  NodeIsAt(idx, vers, NodeGroup(idx), NodeSlot(idx))
<1>1. /\ idx \div 31 \in Nat /\ idx % 31 \in 0..30
      /\ idx = 31 * (idx \div 31) + (idx % 31)
  OBVIOUS
<1>2. NodeOffs(idx, vers) = (1 + (idx \div 31) * 31 * 2) * 4096
                              + 132 * (idx % 31) + 66 * vers
  BY BlockNodes DEF NodeOffs, BLOCK_SIZE, node_size
<1> QED
  BY <1>1, <1>2 DEF NodeGroup, NodeSlot, NodeIsAt

\* The physical block of a data block.
LEMMA BlockPlace ==
    ASSUME NEW idx \in Nat, NEW vers \in {0, 1}
    PROVE  BlockIsAt(idx, vers, BlockGroup(idx, vers), BlockSlot(idx, vers))
<1> DEFINE b == 2 * idx + vers
<1>1. b \in Nat
  OBVIOUS
<1>2. /\ BlockGroup(idx, vers) \in Nat /\ BlockSlot(idx, vers) \in 0..60
      /\ b = 61 * BlockGroup(idx, vers) + BlockSlot(idx, vers)
  BY <1>1 DEF BlockGroup, BlockSlot
<1>3. BlockOffs(idx, vers) = (2 + b + BlockGroup(idx, vers)) * 4096
  BY BlockNodes DEF BlockOffs, BlockGroup, BLOCK_SIZE
<1> QED
  BY <1>2, <1>3 DEF BlockIsAt

\* Two nodes, or two versions of one, do not overlap.
LEMMA NodesApart ==
    ASSUME NEW i \in Nat, NEW j \in Nat, NEW v \in {0, 1}, NEW w \in {0, 1},
           i # j \/ v # w
    PROVE  \/ NodeOffs(i, v) + node_size <= NodeOffs(j, w)
           \/ NodeOffs(j, w) + node_size <= NodeOffs(i, v)
<1>1. PICK q, r : NodeIsAt(i, v, q, r)
  BY NodePlace
<1>2. PICK s, t : NodeIsAt(j, w, s, t)
  BY NodePlace
<1>3. CASE q = s
  BY <1>1, <1>2, <1>3 DEF NodeIsAt, node_size
<1>4. CASE q # s
  BY <1>1, <1>2, <1>4 DEF NodeIsAt, node_size
<1> QED
  BY <1>3, <1>4

\* Two data blocks, or two versions of one, do not overlap.
LEMMA BlocksApart ==
    ASSUME NEW i \in Nat, NEW j \in Nat, NEW v \in {0, 1}, NEW w \in {0, 1},
           i # j \/ v # w
    PROVE  \/ BlockOffs(i, v) + BLOCK_SIZE <= BlockOffs(j, w)
           \/ BlockOffs(j, w) + BLOCK_SIZE <= BlockOffs(i, v)
<1>1. PICK q, r : BlockIsAt(i, v, q, r)
  BY BlockPlace
<1>2. PICK s, t : BlockIsAt(j, w, s, t)
  BY BlockPlace
<1>3. 2 * i + v # 2 * j + w
  OBVIOUS
<1>4. 62 * q + r # 62 * s + t
  BY <1>1, <1>2, <1>3 DEF BlockIsAt
<1> QED
  BY <1>1, <1>2, <1>4 DEF BlockIsAt, BLOCK_SIZE

\* A node and a data block do not overlap.
LEMMA NodeAndBlockApart ==
    ASSUME NEW i \in Nat, NEW j \in Nat, NEW v \in {0, 1}, NEW w \in {0, 1}
    PROVE  \/ NodeOffs(i, v) + node_size <= BlockOffs(j, w)
           \/ BlockOffs(j, w) + BLOCK_SIZE <= NodeOffs(i, v)
<1>1. PICK q, r : NodeIsAt(i, v, q, r)
  BY NodePlace
<1>2. PICK s, t : BlockIsAt(j, w, s, t)
  BY BlockPlace
<1> QED
  BY <1>1, <1>2 DEF NodeIsAt, BlockIsAt, BLOCK_SIZE, node_size

\* The heads are in front of everything else.
LEMMA HeadsApart ==
    ASSUME NEW j \in Nat, NEW v \in {0, 1}, NEW w \in {0, 1}
    PROVE  /\ head_size * v + head_size <= NodeOffs(j, w)
           /\ head_size * v + head_size <= BlockOffs(j, w)
           /\ w # v => \/ head_size * v + head_size <= head_size * w
                       \/ head_size * w + head_size <= head_size * v
<1>1. PICK q, r : NodeIsAt(j, w, q, r)
  BY NodePlace
<1>2. PICK s, t : BlockIsAt(j, w, s, t)
  BY BlockPlace
<1> QED
  BY <1>1, <1>2 DEF NodeIsAt, BlockIsAt, head_size

\* Any two parts of a file are apart.
LEMMA PartsApart ==
    ASSUME NEW e \in Elements(Nat), NEW f \in Elements(Nat), e # f
    PROVE  Apart(e, f)
<1>1. /\ e.idx \in Nat /\ e.vers \in {0, 1}
      /\ f.idx \in Nat /\ f.vers \in {0, 1}
      /\ e.type \in Types /\ f.type \in Types
      /\ e.type = "HEAD" => e.idx = 0
      /\ f.type = "HEAD" => f.idx = 0
  BY DEF Elements
<1>2. e.type # f.type \/ e.idx # f.idx \/ e.vers # f.vers
  BY DEF Elements
<1>3. /\ e.type = "HEAD"  => Offs(e) = head_size * e.vers /\ Size(e) = head_size
      /\ e.type = "NODE"  => Offs(e) = NodeOffs(e.idx, e.vers) /\ Size(e) = node_size
      /\ e.type = "BLOCK" => Offs(e) = BlockOffs(e.idx, e.vers) /\ Size(e) = BLOCK_SIZE
      /\ f.type = "HEAD"  => Offs(f) = head_size * f.vers /\ Size(f) = head_size
      /\ f.type = "NODE"  => Offs(f) = NodeOffs(f.idx, f.vers) /\ Size(f) = node_size
      /\ f.type = "BLOCK" => Offs(f) = BlockOffs(f.idx, f.vers) /\ Size(f) = BLOCK_SIZE
  BY DEF Offs, Size
<1>4. CASE e.type = "HEAD" \/ f.type = "HEAD"
  BY <1>1, <1>2, <1>3, <1>4, HeadsApart DEF Apart, Types
<1>5. CASE e.type = "NODE" /\ f.type = "NODE"
  BY <1>1, <1>2, <1>3, <1>5, NodesApart DEF Apart
<1>6. CASE e.type = "BLOCK" /\ f.type = "BLOCK"
  BY <1>1, <1>2, <1>3, <1>6, BlocksApart DEF Apart
<1>7. CASE {e.type, f.type} = {"NODE", "BLOCK"}
  BY <1>1, <1>3, <1>7, NodeAndBlockApart DEF Apart
<1> QED
  BY <1>1, <1>4, <1>5, <1>6, <1>7 DEF Types

\* get_offs_size() never places two parts of a file over each other, however
\* large the file is.
THEOREM LayoutNoOverlap == LayoutSpec => []NoOverlap
<1> DEFINE Inv == elem \in Elements(Nat)
<1>1. LayoutInit => Inv
  BY DEF LayoutInit, Elements, Types
<1>2. Inv /\ [LayoutNext]_elem => Inv'
  BY LayoutAssumption DEF LayoutNext, Elements
<1>3. Inv => NoOverlap
  <2> SUFFICES ASSUME Inv, NEW f \in Elements(0..elem.idx), f # elem
               PROVE  Apart(elem, f)
    BY DEF NoOverlap
  <2>1. f \in Elements(Nat)
    BY LayoutAssumption DEF Elements
  <2> QED
    BY <2>1, PartsApart
<1> QED
  BY <1>1, <1>2, <1>3, PTL DEF LayoutSpec

\* Truncating a file leaves the nodes and blocks that stay in its hash tree.
THEOREM LayoutTruncateKeeps == LayoutSpec => []TruncateKeeps
<1> DEFINE Inv == elem \in Elements(Nat)
<1>1. LayoutInit => Inv
  BY DEF LayoutInit, Elements, Types
<1>2. Inv /\ [LayoutNext]_elem => Inv'
  BY LayoutAssumption DEF LayoutNext, Elements
<1>3. Inv => TruncateKeeps
  <2> SUFFICES ASSUME Inv, elem.type \in {"NODE", "BLOCK"},
                      NEW n \in elem.idx..MaxIdx
               PROVE  Offs(elem) + Size(elem) <= TruncatedSize(n)
    BY DEF TruncateKeeps
  <2> DEFINE i == elem.idx  v == elem.vers
  <2>1. i \in Nat /\ v \in {0, 1} /\ n \in Nat /\ i <= n
    BY LayoutAssumption DEF Elements
  <2>2. PICK q, r : BlockIsAt(i, v, q, r)
    BY <2>1, BlockPlace
  <2>3. PICK k, m : NodeIsAt(i, v, k, m)
    BY <2>1, NodePlace
  <2>4. PICK s, t : BlockIsAt(n, 1, s, t)
    BY <2>1, BlockPlace
  <2>5. s \in Nat /\ t \in 0..60 /\ TruncatedSize(n) = (62 * s + t + 3) * 4096
    BY <2>4 DEF BlockIsAt, TruncatedSize, BLOCK_SIZE
  <2> HIDE DEF i, v
  <2>7. CASE elem.type = "BLOCK"
    <3>1. Offs(elem) = BlockOffs(i, v) /\ Size(elem) = 4096
      BY <2>7 DEF Offs, Size, BLOCK_SIZE, i, v
    <3>2. 62 * q + r <= 62 * s + t
      BY <2>1, <2>2, <2>4 DEF BlockIsAt
    <3> QED
      BY <2>2, <2>5, <3>1, <3>2 DEF BlockIsAt
  <2>8. CASE elem.type = "NODE"
    <3>1. Offs(elem) = NodeOffs(i, v) /\ Size(elem) = 66
      BY <2>8 DEF Offs, Size, node_size, i, v
    <3>2. 62 * k <= 62 * s + t
      BY <2>1, <2>3, <2>4 DEF NodeIsAt, BlockIsAt
    <3> QED
      BY <2>1, <2>3, <2>5, <3>1, <3>2 DEF NodeIsAt
  <2> QED
    BY <2>7, <2>8
<1> QED
  BY <1>1, <1>2, <1>3, PTL DEF LayoutSpec

\* Both together, for every write and every cut of a file (get_offs_size,
\* ree_fs_ftruncate_internal).
THEOREM LayoutIsSound == LayoutSpec => []LayoutSound
<1>1. NoOverlap /\ TruncateKeeps => LayoutSound
  BY DEF LayoutSound
<1> QED
  BY <1>1, LayoutNoOverlap, LayoutTruncateKeeps, PTL
=============================================================================
