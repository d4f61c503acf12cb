---------------------------- MODULE HeadersProofs ----------------------------
(***************************************************************************)
(* The headers of a message are correct for every table of headers, every  *)
(* set of names and every sequence of calls.                               *)
(*                                                                         *)
(* 1. Induction: over natural numbers, from the well-founded order of the  *)
(*    library, and from it over trees; the recursive functions satisfy the *)
(*    equations that define them.                                          *)
(* 2. The tree: what it means to be in order (Good), and that rotations,   *)
(*    insertion and threading keep it; the order of the traversals.        *)
(* 3. The index: for every table whose hashes differ and identify their    *)
(*    names, the sort leaves the index sorted and complete, and a search   *)
(*    finds exactly what the name means.  The run MCHeaders evaluates the  *)
(*    assumptions on the real table.                                       *)
(* 4. Both together: the invariant HInv and what follows from it.          *)
(***************************************************************************)
EXTENDS Headers, FiniteSetTheorems, SequenceTheorems, WellFoundedInduction, TLAPS

(* A set of natural numbers that is not empty has a least element.         *)
LEMMA Least ==
    ASSUME NEW T, T \subseteq Nat, T # {}
    PROVE  \E x \in T : \A y \in T : x <= y
<1> DEFINE R == OpToRel(<, Nat)
<1>1. IsWellFoundedOn(R, Nat)
  BY NatLessThanWellFounded
<1>2. \A x, y \in Nat : x < y => <<x, y>> \in R
  BY DEF OpToRel
<1> HIDE DEF R
<1>3. PICK x \in T : \A y \in T : ~ (<<y, x>> \in R)
  BY <1>1, WFMin
<1>4. \A y \in T : x <= y
  <2> TAKE y \in T
  <2>1. x \in Nat /\ y \in Nat /\ ~ (y < x)
    BY <1>2, <1>3
  <2> QED
    BY <2>1
<1> QED
  BY <1>4

(* Induction over the natural numbers: a set that has 0 and with each      *)
(* number the next one has all of them; otherwise the least one missing    *)
(* had a predecessor that is not.                                          *)
LEMMA Induction ==
    ASSUME NEW S, 0 \in S, \A n \in Nat : n \in S => n + 1 \in S
    PROVE  \A n \in Nat : n \in S
<1> SUFFICES ASSUME Nat \ S # {} PROVE FALSE
  OBVIOUS
<1>1. PICK x \in Nat \ S : \A y \in Nat \ S : x <= y
  BY Least
<1>2. x # 0 /\ x - 1 \in Nat /\ x - 1 + 1 = x
  BY <1>1
<1>3. x - 1 \in S
  BY <1>1, <1>2
<1> QED
  BY <1>2, <1>3

-----------------------------------------------------------------------------
(* As many numbers as it is long.                                          *)
LEMMA RangeSize == ASSUME NEW n \in Nat PROVE Cardinality(1 .. n) = n
<1>1. Cardinality(1 .. n) = IF 1 > n THEN 0 ELSE n - 1 + 1
  <2>1. 1 \in Int /\ n \in Int
    OBVIOUS
  <2> QED
    BY <2>1, FS_Interval, Zenon
<1>2. (IF 1 > n THEN 0 ELSE n - 1 + 1) = n
  OBVIOUS
<1> QED
  BY <1>1, <1>2

(* There are finitely many keys.                                           *)
LEMMA LevelsType == Levels \in Nat \ {0} /\ Cardinality(Key) \in Nat
<1> QED
  BY HeaderTreeAssumption, FS_CardinalityType DEF Levels

(* A node over two trees of the set lower.                                 *)
Node(lower) == [key : Key, l : lower, r : lower, thr : Key \cup {0}, bf : Int]

(* The recursion that defines the trees has a solution.                    *)
LEMMA TreesAre ==
    /\ Trees[0] = {Nil}
    /\ \A n \in 0 .. Levels - 1 : Trees[n + 1] = {Nil} \cup Node(Trees[n])
<1> DEFINE Value(n, f) == IF n = 0 THEN {Nil} ELSE {Nil} \cup Node(f[n - 1])
           Solves(m, f) == f = [n \in 0 .. m |-> Value(n, f)]
           S == { m \in Nat : \E f : Solves(m, f) }
<1>1. 0 \in S
  <2>1. Solves(0, [n \in 0 .. 0 |-> {Nil}])
    OBVIOUS
  <2> QED
    BY <2>1
<1>2. ASSUME NEW m \in Nat, m \in S PROVE m + 1 \in S
  <2>1. PICK f : Solves(m, f)
    BY <1>2
  <2> DEFINE longer == [n \in 0 .. m + 1 |-> Value(n, f)]
  <2>2. \A n \in 0 .. m : f[n] = longer[n]
    <3> HIDE DEF Value
    <3> QED
      BY <2>1
  <2>3. \A n \in 0 .. m + 1 : longer[n] = Value(n, longer)
    <3> TAKE n \in 0 .. m + 1
    <3>1. n # 0 => n - 1 \in 0 .. m /\ longer[n - 1] = f[n - 1]
      <4>1. n # 0 => n - 1 \in 0 .. m
        OBVIOUS
      <4> HIDE DEF longer
      <4> QED
        BY <2>2, <4>1
    <3>2. Value(n, longer) = Value(n, f)
      <4> HIDE DEF longer
      <4> QED
        BY <3>1
    <3> HIDE DEF Value
    <3> QED
      BY <3>2
  <2>4. Solves(m + 1, longer)
    <3> HIDE DEF Value
    <3>1. longer = [n \in 0 .. m + 1 |-> longer[n]]
      OBVIOUS
    <3> HIDE DEF longer
    <3> QED
      BY <2>3, <3>1
  <2> HIDE DEF Solves
  <2> QED
    BY <2>4
<1>3. Levels \in S
  <2> HIDE DEF S
  <2> QED
    BY <1>1, <1>2, Induction, LevelsType
<1>4. Trees = CHOOSE f : Solves(Levels, f)
  BY Zenon DEF Trees, Node
<1>5. Solves(Levels, Trees)
  <2>1. \E f : Solves(Levels, f)
    BY <1>3
  <2> HIDE DEF Solves
  <2> QED
    BY <1>4, <2>1
<1>6. \A n \in 0 .. Levels : Trees[n] = Value(n, Trees)
  <2> HIDE DEF Value
  <2> QED
    BY <1>5
<1>7. \A n \in 0 .. Levels - 1 : n + 1 \in 0 .. Levels /\ n + 1 # 0 /\ n + 1 - 1 = n
  BY LevelsType
<1>8. Trees[0] = {Nil}
  <2>1. 0 \in 0 .. Levels
    BY LevelsType
  <2>2. Trees[0] = Value(0, Trees)
    <3> HIDE DEF Value
    <3> QED
      BY <1>6, <2>1
  <2> QED
    BY <2>2
<1>9. ASSUME NEW n \in 0 .. Levels - 1 PROVE Trees[n + 1] = {Nil} \cup Node(Trees[n])
  <2>1. Trees[n + 1] = Value(n + 1, Trees) /\ n + 1 # 0 /\ n + 1 - 1 = n
    <3> HIDE DEF Value
    <3> QED
      BY <1>6, <1>7
  <2> QED
    BY <2>1
<1> QED
  BY <1>8, <1>9

(* Trees of n levels are trees of n + 1 levels.                            *)
LEMMA TreesStep == \A n \in 0 .. Levels - 1 : Trees[n] \subseteq Trees[n + 1]
<1> DEFINE S == { n \in Nat : n < Levels => Trees[n] \subseteq Trees[n + 1] }
<1>1. 0 \in S
  BY TreesAre, LevelsType
<1>2. ASSUME NEW n \in Nat, n \in S PROVE n + 1 \in S
  <2> SUFFICES ASSUME n + 1 < Levels PROVE Trees[n + 1] \subseteq Trees[n + 1 + 1]
    OBVIOUS
  <2>1. n \in 0 .. Levels - 1 /\ n + 1 \in 0 .. Levels - 1
    BY LevelsType
  <2>2. /\ Trees[n + 1] = {Nil} \cup Node(Trees[n])
        /\ Trees[n + 1 + 1] = {Nil} \cup Node(Trees[n + 1])
        /\ Trees[n] \subseteq Trees[n + 1]
    BY <1>2, <2>1, TreesAre, LevelsType
  <2> QED
    BY <2>2 DEF Node
<1>3. \A n \in Nat : n \in S
  <2> HIDE DEF S
  <2> QED
    BY <1>1, <1>2, Induction
<1> QED
  <2> TAKE n \in 0 .. Levels - 1
  <2>1. n \in Nat /\ n < Levels
    BY LevelsType
  <2> QED
    BY <1>3, <2>1

(* And so of as many levels as a tree may have.                            *)
LEMMA TreesGrow == \A n \in 0 .. Levels : Trees[n] \subseteq Tree
<1> DEFINE D == { d \in Nat : d <= Levels => Trees[Levels - d] \subseteq Tree }
<1>4. 0 \in D
  BY LevelsType DEF Tree
<1>5. ASSUME NEW d \in Nat, d \in D PROVE d + 1 \in D
  <2> SUFFICES ASSUME d + 1 <= Levels PROVE Trees[Levels - (d + 1)] \subseteq Tree
    OBVIOUS
  <2>1. /\ Levels - (d + 1) \in Nat /\ Levels - (d + 1) < Levels
        /\ Levels - (d + 1) + 1 = Levels - d /\ d <= Levels
    BY LevelsType
  <2>2. Trees[Levels - (d + 1)] \subseteq Trees[Levels - d]
    <3>1. Levels - (d + 1) \in 0 .. Levels - 1
      BY <2>1, LevelsType
    <3> QED
      BY <2>1, <3>1, TreesStep
  <2> QED
    BY <1>5, <2>1, <2>2
<1>6. \A d \in Nat : d \in D
  <2> HIDE DEF D
  <2> QED
    BY <1>4, <1>5, Induction
<1>7. ASSUME NEW n \in 0 .. Levels PROVE Trees[n] \subseteq Tree
  <2>1. Levels - n \in Nat /\ Levels - n <= Levels /\ Levels - (Levels - n) = n
    BY LevelsType
  <2>2. Trees[Levels - (Levels - n)] \subseteq Tree
    BY <1>6, <2>1
  <2> QED
    BY <2>1, <2>2
<1> QED
  BY <1>7

(* Nil is no node, as 0 is no key.                                         *)
LEMMA NilIs == Nil.key = 0 /\ 0 \notin Key
<1> QED
  BY HeaderTreeAssumption DEF Nil

(* A tree of some levels is Nil or has two of fewer levels.                *)
LEMMA TreeIs ==
    ASSUME NEW n \in 0 .. Levels, NEW t \in Trees[n]
    PROVE  /\ IsNil(t) <=> t = Nil
           /\ t # Nil => /\ n - 1 \in 0 .. Levels - 1 /\ t \in Node(Trees[n - 1])
                         /\ t.key \in Key /\ t.l \in Trees[n - 1] /\ t.r \in Trees[n - 1]
                         /\ t.thr \in Key \cup {0} /\ t.bf \in Int
           /\ t \in Tree
           /\ Nil \in Trees[n]
<1>t. t \in Tree
  BY TreesGrow
<1>1. CASE n = 0
  <2>1. t = Nil /\ Trees[n] = {Nil}
    BY <1>1, TreesAre
  <2> QED
    BY <1>t, <2>1, NilIs DEF IsNil
<1>2. CASE n # 0
  <2>1. n - 1 \in 0 .. Levels - 1 /\ n - 1 + 1 = n
    BY <1>2, LevelsType
  <2>2. Trees[n] = {Nil} \cup Node(Trees[n - 1])
    BY <2>1, TreesAre
  <2>3. t # Nil => t \in Node(Trees[n - 1])
    BY <2>2
  <2>4. t # Nil => /\ t.key \in Key /\ t.l \in Trees[n - 1] /\ t.r \in Trees[n - 1]
                   /\ t.thr \in Key \cup {0} /\ t.bf \in Int
    BY <2>3 DEF Node
  <2>5. IsNil(t) <=> t = Nil
    BY <2>4, NilIs DEF IsNil
  <2> QED
    BY <1>t, <2>1, <2>2, <2>3, <2>4, <2>5
<1> QED
  BY <1>1, <1>2

-----------------------------------------------------------------------------
(* Induction over the trees: what Nil has, and a node has whenever its     *)
(* subtrees have it, all trees have.                                       *)
LEMMA TreeInduction ==
    ASSUME NEW S, Nil \in S, \A t \in Tree \ {Nil} : t.l \in S /\ t.r \in S => t \in S
    PROVE  \A t \in Tree : t \in S
<1> DEFINE T == { n \in Nat : n <= Levels => Trees[n] \subseteq S }
<1>1. 0 \in T
  BY TreesAre
<1>2. ASSUME NEW n \in Nat, n \in T PROVE n + 1 \in T
  <2> SUFFICES ASSUME n + 1 <= Levels, NEW t \in Trees[n + 1], t # Nil PROVE t \in S
    OBVIOUS
  <2>1. n + 1 \in 0 .. Levels /\ n + 1 - 1 = n /\ n <= Levels
    BY LevelsType
  <2>2. t \in Tree /\ t.l \in Trees[n] /\ t.r \in Trees[n]
    BY <2>1, TreeIs
  <2> QED
    BY <1>2, <2>1, <2>2
<1>3. Levels \in T
  <2> HIDE DEF T
  <2> QED
    BY <1>1, <1>2, Induction, LevelsType
<1> QED
  BY <1>3 DEF Tree

(* A tree is Nil or has two trees below it.                                *)
LEMMA Subtrees ==
    /\ Nil \in Tree /\ IsNil(Nil)
    /\ \A t \in Tree :
          /\ IsNil(t) <=> t = Nil
          /\ t # Nil => /\ t.key \in Key /\ t.l \in Tree /\ t.r \in Tree
                        /\ t.thr \in Key \cup {0} /\ t.bf \in Int
<1>1. Levels \in 0 .. Levels
  BY LevelsType
<1>2. ASSUME NEW t \in Tree
      PROVE  /\ IsNil(t) <=> t = Nil
             /\ t # Nil => /\ t.key \in Key /\ t.l \in Tree /\ t.r \in Tree
                           /\ t.thr \in Key \cup {0} /\ t.bf \in Int
             /\ Nil \in Tree
  <2>1. t \in Trees[Levels]
    BY DEF Tree
  <2>2. t # Nil => Levels - 1 \in 0 .. Levels
    BY LevelsType
  <2> QED
    BY <1>1, <2>1, <2>2, TreeIs, TreesGrow
<1>3. Nil \in Tree
  BY TreesAre, TreesGrow, LevelsType
<1> QED
  BY <1>2, <1>3, NilIs DEF IsNil

-----------------------------------------------------------------------------
(* The recursions over trees have solutions: all of them at once.  What a  *)
(* node's value is, from those of its subtrees.                            *)
NodesAt(s, x, y) == {s} \cup x \cup y
HeightAt(x, y) == 1 + IF x > y THEN x ELSE y
InOrderAt(s, x, y) == x \o <<s.key>> \o (IF s.thr # 0 THEN <<>> ELSE y)
PreOrderAt(s, x, y) == <<s.key>> \o x \o (IF s.thr # 0 THEN <<>> ELSE y)
Thread(s, order) == IF IsNil(s.r) THEN Follower(order, s.key) ELSE 0
ThreadedAt(s, x, y, order) == [s EXCEPT !.l = x, !.r = y, !.thr = Thread(s, order)]
LeftmostAt(s, x) == IF IsNil(s.l) THEN s ELSE x
InsertAtNil(k) == [tree |-> Leaf(k), ret |-> "ok", sound |-> TRUE]
InsertedAt(s, x, y, k) ==
    IF k = s.key THEN [tree |-> s, ret |-> "exist", sound |-> TRUE]
    ELSE IF k > s.key THEN InRight(s, y) ELSE InLeft(s, x)

AtNil(k) ==
    [nodes |-> {}, height |-> 0, inOrder |-> <<>>, preOrder |-> <<>>,
     threaded |-> Nil, leftmost |-> Nil, insert |-> InsertAtNil(k)]
AtNode(s, a, b, k, order) ==
    [nodes |-> NodesAt(s, a.nodes, b.nodes),
     height |-> HeightAt(a.height, b.height),
     inOrder |-> InOrderAt(s, a.inOrder, b.inOrder),
     preOrder |-> PreOrderAt(s, a.preOrder, b.preOrder),
     threaded |-> ThreadedAt(s, a.threaded, b.threaded, order),
     leftmost |-> LeftmostAt(s, a.leftmost),
     insert |-> InsertedAt(s, a.insert, b.insert, k)]
(* All recursive functions at once: the value of g at s from its values at *)
(* the subtrees.                                                           *)
Body(s, g, k, order) ==
    IF IsNil(s) THEN AtNil(k) ELSE AtNode(s, g[s.l], g[s.r], k, order)

Solution(k, order) == CHOOSE g : g = [s \in Tree |-> Body(s, g, k, order)]

(* Over trees of 0, 1, 2, ... levels there is a function with Body as its  *)
(* equation; so the CHOOSE that the recursive definitions stand for finds  *)
(* one.                                                                    *)
LEMMA Solved ==
    ASSUME NEW k, NEW order
    PROVE  Solution(k, order) = [s \in Tree |-> Body(s, Solution(k, order), k, order)]
<1> DEFINE Value(s, g) == Body(s, g, k, order)
           Solves(n, g) == g = [s \in Trees[n] |-> Value(s, g)]
           S == { n \in Nat : n <= Levels => \E g : Solves(n, g) }
<1>1. \A s, f, g : IsNil(s) \/ (f[s.l] = g[s.l] /\ f[s.r] = g[s.r]) => Value(s, f) = Value(s, g)
  BY DEF Body
<1> HIDE DEF Value
<1>2. 0 \in S
  <2> DEFINE g == [s \in Trees[0] |-> Value(s, Nil)]
  <2>1. \A s \in Trees[0] : IsNil(s)
    BY TreesAre, Subtrees
  <2>2. Solves(0, g)
    <3>1. \A s \in Trees[0] : Value(s, g) = Value(s, Nil)
      BY <1>1, <2>1
    <3> HIDE DEF g
    <3> QED
      BY <3>1 DEF g
  <2> QED
    BY <2>2
<1>3. ASSUME NEW n \in Nat, n \in S PROVE n + 1 \in S
  <2> SUFFICES ASSUME n + 1 <= Levels PROVE \E g : Solves(n + 1, g)
    OBVIOUS
  <2>1. n + 1 \in 0 .. Levels /\ n + 1 - 1 = n /\ n \in 0 .. Levels
    BY LevelsType
  <2>2. PICK g : g = [s \in Trees[n] |-> Value(s, g)]
    BY <1>3, <2>1
  <2> DEFINE longer == [s \in Trees[n + 1] |-> Value(s, g)]
  <2>3. \A s \in Trees[n + 1] : IsNil(s) \/ (s.l \in Trees[n] /\ s.r \in Trees[n])
    BY <2>1, TreeIs
  <2>4. \A s \in Trees[n] : s \in Trees[n + 1]
    <3>1. n \in 0 .. Levels - 1
      BY LevelsType
    <3> QED
      BY <3>1, TreesStep
  <2>5. \A s \in Trees[n] : longer[s] = g[s]
    <3>1. \A s \in Trees[n] : longer[s] = Value(s, g)
      BY <2>4
    <3> HIDE DEF longer
    <3> QED
      BY <2>2, <3>1
  <2>6. \A s \in Trees[n + 1] : Value(s, longer) = Value(s, g)
    <3> HIDE DEF longer
    <3> QED
      BY <1>1, <2>3, <2>5
  <2>7. longer = [s \in Trees[n + 1] |-> Value(s, longer)]
    <3> HIDE DEF longer
    <3> QED
      BY <2>6 DEF longer
  <2> HIDE DEF longer
  <2> QED
    BY <2>7
<1>4. Levels \in S
  <2> HIDE DEF S
  <2> QED
    BY <1>2, <1>3, Induction, LevelsType
<1>5. \E g : g = [s \in Tree |-> Value(s, g)]
  BY <1>4, LevelsType DEF Tree
<1> QED
  BY <1>5 DEF Solution, Value

(* The equations of the solution, at Nil and at a node.                    *)
LEMMA Parts ==
    ASSUME NEW k, NEW order, NEW g, g = Solution(k, order)
    PROVE  /\ /\ g[Nil].nodes = {} /\ g[Nil].height = 0
              /\ g[Nil].inOrder = <<>> /\ g[Nil].preOrder = <<>>
              /\ g[Nil].threaded = Nil /\ g[Nil].leftmost = Nil
              /\ g[Nil].insert = InsertAtNil(k)
           /\ \A t \in Tree \ {Nil} :
              /\ g[t].nodes = NodesAt(t, g[t.l].nodes, g[t.r].nodes)
              /\ g[t].height = HeightAt(g[t.l].height, g[t.r].height)
              /\ g[t].inOrder = InOrderAt(t, g[t.l].inOrder, g[t.r].inOrder)
              /\ g[t].preOrder = PreOrderAt(t, g[t.l].preOrder, g[t.r].preOrder)
              /\ g[t].threaded = ThreadedAt(t, g[t.l].threaded, g[t.r].threaded, order)
              /\ g[t].leftmost = LeftmostAt(t, g[t.l].leftmost)
              /\ g[t].insert = InsertedAt(t, g[t.l].insert, g[t.r].insert, k)
<1>1. \A t \in Tree : g[t] = Body(t, g, k, order)
  <2>1. g = [s \in Tree |-> Body(s, g, k, order)]
    BY Solved
  <2> QED
    BY <2>1
<1>2. g[Nil] = AtNil(k)
  BY <1>1, Subtrees DEF Body
<1>3. ASSUME NEW t \in Tree \ {Nil} PROVE g[t] = AtNode(t, g[t.l], g[t.r], k, order)
  BY <1>1, Subtrees DEF Body
<1>4. ASSUME NEW t \in Tree \ {Nil}
      PROVE  /\ g[t].nodes = NodesAt(t, g[t.l].nodes, g[t.r].nodes)
             /\ g[t].height = HeightAt(g[t.l].height, g[t.r].height)
             /\ g[t].inOrder = InOrderAt(t, g[t.l].inOrder, g[t.r].inOrder)
             /\ g[t].preOrder = PreOrderAt(t, g[t.l].preOrder, g[t.r].preOrder)
             /\ g[t].threaded = ThreadedAt(t, g[t.l].threaded, g[t.r].threaded, order)
             /\ g[t].leftmost = LeftmostAt(t, g[t.l].leftmost)
             /\ g[t].insert = InsertedAt(t, g[t.l].insert, g[t.r].insert, k)
  <2> DEFINE a == g[t.l]
             b == g[t.r]
  <2>1. g[t] = AtNode(t, a, b, k, order)
    BY <1>3
  <2> HIDE DEF a, b
  <2>2. /\ g[t].nodes = NodesAt(t, a.nodes, b.nodes)
        /\ g[t].height = HeightAt(a.height, b.height)
        /\ g[t].inOrder = InOrderAt(t, a.inOrder, b.inOrder)
        /\ g[t].preOrder = PreOrderAt(t, a.preOrder, b.preOrder)
        /\ g[t].threaded = ThreadedAt(t, a.threaded, b.threaded, order)
        /\ g[t].leftmost = LeftmostAt(t, a.leftmost)
        /\ g[t].insert = InsertedAt(t, a.insert, b.insert, k)
    BY <2>1 DEF AtNode
  <2> QED
    BY <2>2 DEF a, b
<1>5. /\ g[Nil].nodes = {} /\ g[Nil].height = 0
      /\ g[Nil].inOrder = <<>> /\ g[Nil].preOrder = <<>>
      /\ g[Nil].threaded = Nil /\ g[Nil].leftmost = Nil
      /\ g[Nil].insert = InsertAtNil(k)
  BY <1>2 DEF AtNil
<1> QED
  BY <1>4, <1>5

(* What the recursive operators are at Nil, and at a node from their       *)
(* values at its subtrees: part of Solution satisfies the equation that    *)
(* defines each, so the function that CHOOSE finds does.                   *)
LEMMA NodesIs ==
    /\ Nodes(Nil) = {}
    /\ \A t \in Tree \ {Nil} : Nodes(t) = NodesAt(t, Nodes(t.l), Nodes(t.r))
<1>1. PICK g : g = Solution(0, 0)
  OBVIOUS
<1> DEFINE f == [s \in Tree |-> g[s].nodes]
           Val(s, h) == IF IsNil(s) THEN {} ELSE {s} \cup h[s.l] \cup h[s.r]
           Is(h) == h = [s \in Tree |-> Val(s, h)]
<1>2. Is(f)
  <2>1. ASSUME NEW s \in Tree PROVE g[s].nodes = Val(s, f)
    <3>1. CASE s = Nil
      BY <1>1, <3>1, Parts, Subtrees
    <3>2. CASE s # Nil
      <4>1. g[s].nodes = NodesAt(s, g[s.l].nodes, g[s.r].nodes)
        BY <1>1, <3>2, Parts
      <4>2. ~IsNil(s) /\ f[s.l] = g[s.l].nodes /\ f[s.r] = g[s.r].nodes
        BY <3>2, Subtrees
      <4> HIDE DEF f
      <4> QED
        BY <4>1, <4>2 DEF NodesAt
    <3> QED
      BY <3>1, <3>2
  <2> HIDE DEF Val
  <2> QED
    BY <2>1
<1> DEFINE h == CHOOSE h : Is(h)
<1>3. \A t : Nodes(t) = h[t]
  BY Zenon DEF Nodes
<1>4. Is(h)
  <2> HIDE DEF Val
  <2> QED
    BY <1>2, Zenon
<1> HIDE DEF h
<1>5. \A s \in Tree : h[s] = Val(s, h)
  <2> HIDE DEF Val
  <2> QED
    BY <1>4
<1>6. h[Nil] = {}
  BY <1>5, Subtrees
<1>7. ASSUME NEW t \in Tree \ {Nil} PROVE h[t] = NodesAt(t, h[t.l], h[t.r])
  BY <1>5, Subtrees DEF NodesAt
<1> QED
  BY <1>3, <1>6, <1>7

LEMMA HeightIs ==
    /\ Height(Nil) = 0
    /\ \A t \in Tree \ {Nil} : Height(t) = HeightAt(Height(t.l), Height(t.r))
<1>1. PICK g : g = Solution(0, 0)
  OBVIOUS
<1> DEFINE f == [s \in Tree |-> g[s].height]
           Val(s, h) == IF IsNil(s) THEN 0
                       ELSE LET a == h[s.l]
                                b == h[s.r]
                            IN 1 + IF a > b THEN a ELSE b
           Is(h) == h = [s \in Tree |-> Val(s, h)]
<1>2. Is(f)
  <2>1. ASSUME NEW s \in Tree PROVE g[s].height = Val(s, f)
    <3>1. CASE s = Nil
      BY <1>1, <3>1, Parts, Subtrees
    <3>2. CASE s # Nil
      <4>1. g[s].height = HeightAt(g[s.l].height, g[s.r].height)
        BY <1>1, <3>2, Parts
      <4>2. ~IsNil(s) /\ f[s.l] = g[s.l].height /\ f[s.r] = g[s.r].height
        BY <3>2, Subtrees
      <4> HIDE DEF f
      <4> QED
        BY <4>1, <4>2 DEF HeightAt
    <3> QED
      BY <3>1, <3>2
  <2> HIDE DEF Val
  <2> QED
    BY <2>1
<1> DEFINE h == CHOOSE h : Is(h)
<1>3. \A t : Height(t) = h[t]
  BY Zenon DEF Height
<1>4. Is(h)
  <2> HIDE DEF Val
  <2> QED
    BY <1>2, Zenon
<1> HIDE DEF h
<1>5. \A s \in Tree : h[s] = Val(s, h)
  <2> HIDE DEF Val
  <2> QED
    BY <1>4
<1>6. h[Nil] = 0
  BY <1>5, Subtrees
<1>7. ASSUME NEW t \in Tree \ {Nil} PROVE h[t] = HeightAt(h[t.l], h[t.r])
  BY <1>5, Subtrees DEF HeightAt
<1> QED
  BY <1>3, <1>6, <1>7

LEMMA InOrderIs ==
    /\ InOrder(Nil) = <<>>
    /\ \A t \in Tree \ {Nil} : InOrder(t) = InOrderAt(t, InOrder(t.l), InOrder(t.r))
<1>1. PICK g : g = Solution(0, 0)
  OBVIOUS
<1> DEFINE f == [s \in Tree |-> g[s].inOrder]
           Val(s, h) == IF IsNil(s) THEN <<>>
                       ELSE h[s.l] \o <<s.key>>
                                \o (IF s.thr # 0 THEN <<>> ELSE h[s.r])
           Is(h) == h = [s \in Tree |-> Val(s, h)]
<1>2. Is(f)
  <2>1. ASSUME NEW s \in Tree PROVE g[s].inOrder = Val(s, f)
    <3>1. CASE s = Nil
      BY <1>1, <3>1, Parts, Subtrees
    <3>2. CASE s # Nil
      <4>1. g[s].inOrder = InOrderAt(s, g[s.l].inOrder, g[s.r].inOrder)
        BY <1>1, <3>2, Parts
      <4>2. ~IsNil(s) /\ f[s.l] = g[s.l].inOrder /\ f[s.r] = g[s.r].inOrder
        BY <3>2, Subtrees
      <4> HIDE DEF f
      <4> QED
        BY <4>1, <4>2 DEF InOrderAt
    <3> QED
      BY <3>1, <3>2
  <2> HIDE DEF Val
  <2> QED
    BY <2>1
<1> DEFINE h == CHOOSE h : Is(h)
<1>3. \A t : InOrder(t) = h[t]
  BY Zenon DEF InOrder
<1>4. Is(h)
  <2> HIDE DEF Val
  <2> QED
    BY <1>2, Zenon
<1> HIDE DEF h
<1>5. \A s \in Tree : h[s] = Val(s, h)
  <2> HIDE DEF Val
  <2> QED
    BY <1>4
<1>6. h[Nil] = <<>>
  BY <1>5, Subtrees
<1>7. ASSUME NEW t \in Tree \ {Nil} PROVE h[t] = InOrderAt(t, h[t.l], h[t.r])
  BY <1>5, Subtrees DEF InOrderAt
<1> QED
  BY <1>3, <1>6, <1>7

LEMMA PreOrderIs ==
    /\ PreOrder(Nil) = <<>>
    /\ \A t \in Tree \ {Nil} : PreOrder(t) = PreOrderAt(t, PreOrder(t.l), PreOrder(t.r))
<1>1. PICK g : g = Solution(0, 0)
  OBVIOUS
<1> DEFINE f == [s \in Tree |-> g[s].preOrder]
           Val(s, h) == IF IsNil(s) THEN <<>>
                       ELSE <<s.key>> \o h[s.l]
                                \o (IF s.thr # 0 THEN <<>> ELSE h[s.r])
           Is(h) == h = [s \in Tree |-> Val(s, h)]
<1>2. Is(f)
  <2>1. ASSUME NEW s \in Tree PROVE g[s].preOrder = Val(s, f)
    <3>1. CASE s = Nil
      BY <1>1, <3>1, Parts, Subtrees
    <3>2. CASE s # Nil
      <4>1. g[s].preOrder = PreOrderAt(s, g[s.l].preOrder, g[s.r].preOrder)
        BY <1>1, <3>2, Parts
      <4>2. ~IsNil(s) /\ f[s.l] = g[s.l].preOrder /\ f[s.r] = g[s.r].preOrder
        BY <3>2, Subtrees
      <4> HIDE DEF f
      <4> QED
        BY <4>1, <4>2 DEF PreOrderAt
    <3> QED
      BY <3>1, <3>2
  <2> HIDE DEF Val
  <2> QED
    BY <2>1
<1> DEFINE h == CHOOSE h : Is(h)
<1>3. \A t : PreOrder(t) = h[t]
  BY Zenon DEF PreOrder
<1>4. Is(h)
  <2> HIDE DEF Val
  <2> QED
    BY <1>2, Zenon
<1> HIDE DEF h
<1>5. \A s \in Tree : h[s] = Val(s, h)
  <2> HIDE DEF Val
  <2> QED
    BY <1>4
<1>6. h[Nil] = <<>>
  BY <1>5, Subtrees
<1>7. ASSUME NEW t \in Tree \ {Nil} PROVE h[t] = PreOrderAt(t, h[t.l], h[t.r])
  BY <1>5, Subtrees DEF PreOrderAt
<1> QED
  BY <1>3, <1>6, <1>7

LEMMA ThreadedIs ==
    ASSUME NEW order
    PROVE  /\ Threaded(Nil, order) = Nil
           /\ \A t \in Tree \ {Nil} :
                  Threaded(t, order)
                      = ThreadedAt(t, Threaded(t.l, order), Threaded(t.r, order), order)
<1>1. PICK g : g = Solution(0, order)
  OBVIOUS
<1> DEFINE f == [s \in Tree |-> g[s].threaded]
           Val(s, h) == IF IsNil(s) THEN Nil
                       ELSE [s EXCEPT !.l = h[@], !.r = h[@],
                                      !.thr = IF IsNil(s.r) THEN Follower(order, s.key) ELSE 0]
           Is(h) == h = [s \in Tree |-> Val(s, h)]
<1>2. Is(f)
  <2>1. ASSUME NEW s \in Tree PROVE g[s].threaded = Val(s, f)
    <3>1. CASE s = Nil
      BY <1>1, <3>1, Parts, Subtrees
    <3>2. CASE s # Nil
      <4>1. g[s].threaded = ThreadedAt(s, g[s.l].threaded, g[s.r].threaded, order)
        BY <1>1, <3>2, Parts
      <4>2. ~IsNil(s) /\ f[s.l] = g[s.l].threaded /\ f[s.r] = g[s.r].threaded
        BY <3>2, Subtrees
      <4> HIDE DEF f
      <4> QED
        BY <4>1, <4>2 DEF ThreadedAt, Thread
    <3> QED
      BY <3>1, <3>2
  <2> HIDE DEF Val
  <2> QED
    BY <2>1
<1> DEFINE h == CHOOSE h : Is(h)
<1>3. \A t : Threaded(t, order) = h[t]
  BY Zenon DEF Threaded
<1>4. Is(h)
  <2> HIDE DEF Val
  <2> QED
    BY <1>2, Zenon
<1> HIDE DEF h
<1>5. \A s \in Tree : h[s] = Val(s, h)
  <2> HIDE DEF Val
  <2> QED
    BY <1>4
<1>6. h[Nil] = Nil
  BY <1>5, Subtrees
<1>7. ASSUME NEW t \in Tree \ {Nil} PROVE h[t] = ThreadedAt(t, h[t.l], h[t.r], order)
  BY <1>5, Subtrees DEF ThreadedAt, Thread
<1> QED
  BY <1>3, <1>6, <1>7

LEMMA InsertIs ==
    ASSUME NEW k
    PROVE  /\ Insert(Nil, k) = InsertAtNil(k)
           /\ \A t \in Tree \ {Nil} :
                  Insert(t, k) = InsertedAt(t, Insert(t.l, k), Insert(t.r, k), k)
<1>1. PICK g : g = Solution(k, 0)
  OBVIOUS
<1> DEFINE f == [s \in Tree |-> g[s].insert]
           Val(s, h) == IF IsNil(s) THEN [tree |-> Leaf(k), ret |-> "ok", sound |-> TRUE]
                       ELSE IF k = s.key THEN [tree |-> s, ret |-> "exist", sound |-> TRUE]
                       ELSE IF k > s.key THEN InRight(s, h[s.r]) ELSE InLeft(s, h[s.l])
           Is(h) == h = [s \in Tree |-> Val(s, h)]
<1>2. Is(f)
  <2>1. ASSUME NEW s \in Tree PROVE g[s].insert = Val(s, f)
    <3>1. CASE s = Nil
      BY <1>1, <3>1, Parts, Subtrees DEF InsertAtNil
    <3>2. CASE s # Nil
      <4>1. g[s].insert = InsertedAt(s, g[s.l].insert, g[s.r].insert, k)
        BY <1>1, <3>2, Parts
      <4>2. ~IsNil(s) /\ f[s.l] = g[s.l].insert /\ f[s.r] = g[s.r].insert
        BY <3>2, Subtrees
      <4> HIDE DEF f
      <4> QED
        BY <4>1, <4>2 DEF InsertedAt
    <3> QED
      BY <3>1, <3>2
  <2> HIDE DEF Val
  <2> QED
    BY <2>1
<1> DEFINE h == CHOOSE h : Is(h)
<1>3. \A t : Insert(t, k) = h[t]
  BY Zenon DEF Insert
<1>4. Is(h)
  <2> HIDE DEF Val
  <2> QED
    BY <1>2, Zenon
<1> HIDE DEF h
<1>5. \A s \in Tree : h[s] = Val(s, h)
  <2> HIDE DEF Val
  <2> QED
    BY <1>4
<1>6. h[Nil] = InsertAtNil(k)
  BY <1>5, Subtrees DEF InsertAtNil
<1>7. ASSUME NEW t \in Tree \ {Nil} PROVE h[t] = InsertedAt(t, h[t.l], h[t.r], k)
  BY <1>5, Subtrees DEF InsertedAt
<1> QED
  BY <1>3, <1>6, <1>7

LEMMA LeftmostIs ==
    /\ Leftmost(Nil) = Nil
    /\ \A t \in Tree \ {Nil} : Leftmost(t) = LeftmostAt(t, Leftmost(t.l))
<1>1. PICK g : g = Solution(0, 0)
  OBVIOUS
<1> DEFINE f == [s \in Tree |-> g[s].leftmost]
           Val(s, h) == IF IsNil(s) \/ IsNil(s.l) THEN s ELSE h[s.l]
           Is(h) == h = [s \in Tree |-> Val(s, h)]
<1>2. Is(f)
  <2>1. ASSUME NEW s \in Tree PROVE g[s].leftmost = Val(s, f)
    <3>1. CASE s = Nil
      BY <1>1, <3>1, Parts, Subtrees
    <3>2. CASE s # Nil
      <4>1. g[s].leftmost = LeftmostAt(s, g[s.l].leftmost)
        BY <1>1, <3>2, Parts
      <4>2. ~IsNil(s) /\ f[s.l] = g[s.l].leftmost /\ f[s.r] = g[s.r].leftmost
        BY <3>2, Subtrees
      <4> HIDE DEF f
      <4> QED
        BY <4>1, <4>2 DEF LeftmostAt
    <3> QED
      BY <3>1, <3>2
  <2> HIDE DEF Val
  <2> QED
    BY <2>1
<1> DEFINE h == CHOOSE h : Is(h)
<1>3. \A t : Leftmost(t) = h[t]
  BY Zenon DEF Leftmost
<1>4. Is(h)
  <2> HIDE DEF Val
  <2> QED
    BY <1>2, Zenon
<1> HIDE DEF h
<1>5. \A s \in Tree : h[s] = Val(s, h)
  <2> HIDE DEF Val
  <2> QED
    BY <1>4
<1>6. h[Nil] = Nil
  BY <1>5, Subtrees
<1>7. ASSUME NEW t \in Tree \ {Nil} PROVE h[t] = LeftmostAt(t, h[t.l])
  BY <1>5, Subtrees DEF LeftmostAt
<1> QED
  BY <1>3, <1>6, <1>7

-----------------------------------------------------------------------------
(* Trees of fewer levels are trees of more.                                *)
LEMMA TreesNest ==
    ASSUME NEW m \in 0 .. Levels, NEW n \in 0 .. m
    PROVE  Trees[n] \subseteq Trees[m]
<1> DEFINE D == { d \in Nat : n + d <= Levels => Trees[n] \subseteq Trees[n + d] }
<1>1. 0 \in D
  OBVIOUS
<1>2. ASSUME NEW d \in Nat, d \in D PROVE d + 1 \in D
  <2> SUFFICES ASSUME n + (d + 1) <= Levels PROVE Trees[n] \subseteq Trees[n + (d + 1)]
    OBVIOUS
  <2>1. n + d \in 0 .. Levels - 1 /\ n + (d + 1) = n + d + 1 /\ n + d <= Levels
    BY LevelsType
  <2>2. Trees[n + d] \subseteq Trees[n + d + 1]
    BY <2>1, TreesStep
  <2> QED
    BY <1>2, <2>1, <2>2
<1>3. m - n \in D
  <2> HIDE DEF D
  <2>1. \A d \in Nat : d \in D
    BY <1>1, <1>2, Induction
  <2> QED
    BY <2>1
<1>4. n + (m - n) = m /\ m <= Levels
  BY LevelsType
<1> QED
  BY <1>3, <1>4

(* A tree is among those of as many levels as it has.                      *)
LEMMA HeightIsLevel ==
    \A t \in Tree : Height(t) \in 0 .. Levels /\ t \in Trees[Height(t)]
<1> DEFINE S == { n \in Nat : n <= Levels => \A t \in Trees[n] :
                       Height(t) \in 0 .. n /\ t \in Trees[Height(t)] }
<1>1. 0 \in S
  BY TreesAre, HeightIs
<1>2. ASSUME NEW n \in Nat, n \in S PROVE n + 1 \in S
  <2> SUFFICES ASSUME n + 1 <= Levels, NEW t \in Trees[n + 1]
               PROVE  Height(t) \in 0 .. n + 1 /\ t \in Trees[Height(t)]
    OBVIOUS
  <2>1. n + 1 \in 0 .. Levels /\ n + 1 - 1 = n /\ n \in 0 .. Levels
    BY LevelsType
  <2>2. CASE t = Nil
    BY <2>2, TreesAre, HeightIs
  <2>3. CASE t # Nil
    <3>1. /\ t \in Tree \ {Nil} /\ t \in Node(Trees[n])
          /\ t.l \in Trees[n] /\ t.r \in Trees[n]
      BY <2>1, <2>3, TreeIs
    <3> DEFINE a == Height(t.l)
               b == Height(t.r)
               c == IF a > b THEN a ELSE b
    <3>2. /\ a \in 0 .. n /\ t.l \in Trees[a]
          /\ b \in 0 .. n /\ t.r \in Trees[b]
      BY <1>2, <2>1, <3>1
    <3>3. Height(t) = 1 + c
      BY <3>1, HeightIs DEF HeightAt
    <3> HIDE DEF a, b
    <3>4. c \in 0 .. n /\ a \in 0 .. c /\ b \in 0 .. c
      BY <3>2
    <3> HIDE DEF c
    <3>5. c \in 0 .. Levels /\ c \in 0 .. Levels - 1
      BY <2>1, <3>4, LevelsType
    <3>6. t.l \in Trees[c] /\ t.r \in Trees[c]
      <4>1. Trees[a] \subseteq Trees[c] /\ Trees[b] \subseteq Trees[c]
        BY <3>4, <3>5, TreesNest
      <4> QED
        BY <3>2, <4>1
    <3>7. t \in Node(Trees[c])
      BY <3>1, <3>6 DEF Node
    <3>8. t \in Trees[c + 1]
      BY <3>5, <3>7, TreesAre
    <3> QED
      BY <3>3, <3>4, <3>8
  <2> QED
    BY <2>2, <2>3
<1>3. Levels \in S
  <2> HIDE DEF S
  <2> QED
    BY <1>1, <1>2, Induction, LevelsType
<1> QED
  BY <1>3, LevelsType DEF Tree

-----------------------------------------------------------------------------
(* A tree by its parts.                                                    *)
Made(k, a, b, x, y) == [key |-> k, l |-> a, r |-> b, thr |-> x, bf |-> y]

(* A node and its fields.                                                  *)
LEMMA NodeFields ==
    ASSUME NEW k, NEW a, NEW b, NEW x, NEW y
    PROVE  LET t == Made(k, a, b, x, y)
           IN  t.key = k /\ t.l = a /\ t.r = b /\ t.thr = x /\ t.bf = y
<1> QED
  BY DEF Made

LEMMA NodeExcept ==
    ASSUME NEW k, NEW a, NEW b, NEW x, NEW y, NEW z
    PROVE  LET t == Made(k, a, b, x, y)
           IN  /\ [t EXCEPT !.l = z] = Made(k, z, b, x, y)
               /\ [t EXCEPT !.r = z] = Made(k, a, z, x, y)
               /\ [t EXCEPT !.thr = z] = Made(k, a, b, z, y)
               /\ [t EXCEPT !.bf = z] = Made(k, a, b, x, z)
<1> QED
  BY DEF Made

(* A node is made of its fields.                                           *)
LEMMA NodeParts ==
    \A t \in Tree \ {Nil} : t = Made(t.key, t.l, t.r, t.thr, t.bf)
<1> TAKE t \in Tree \ {Nil}
<1>1. Levels \in 0 .. Levels /\ t \in Trees[Levels]
  BY LevelsType DEF Tree
<1>2. t \in Node(Trees[Levels - 1])
  BY <1>1, TreeIs
<1> QED
  BY <1>2 DEF Node, Made

(* There is room above two trees that are not too high.                    *)
LEMMA NodeInTree ==
    ASSUME NEW k \in Key, NEW a \in Tree, NEW b \in Tree, NEW x \in Key \cup {0}, NEW y \in Int,
           Height(a) < Levels, Height(b) < Levels
    PROVE  Made(k, a, b, x, y) \in Tree \ {Nil}
<1> DEFINE c == IF Height(a) > Height(b) THEN Height(a) ELSE Height(b)
<1>1. c \in 0 .. Levels - 1 /\ Height(a) \in 0 .. c /\ Height(b) \in 0 .. c
  BY HeightIsLevel, LevelsType
<1>2. a \in Trees[Height(a)] /\ b \in Trees[Height(b)]
  BY HeightIsLevel
<1> HIDE DEF c
<1>3. c \in 0 .. Levels /\ c + 1 \in 0 .. Levels
  BY <1>1, LevelsType
<1>4. a \in Trees[c] /\ b \in Trees[c]
  BY <1>1, <1>2, <1>3, TreesNest
<1>5. Made(k, a, b, x, y) \in Node(Trees[c])
  BY <1>4 DEF Made, Node
<1>6. Made(k, a, b, x, y) \in Tree
  BY <1>1, <1>3, <1>5, TreesAre, TreesGrow
<1>7. Made(k, a, b, x, y).key # 0
  BY NilIs, NodeFields
<1> QED
  BY <1>6, <1>7, NilIs

-----------------------------------------------------------------------------
(* What there is in a tree: keys and threads.                              *)
Keys(t) == { n.key : n \in Nodes(t) }
Links(t) == { <<n.key, n.thr>> : n \in { m \in Nodes(t) : m.thr # 0 } }
Link(k, x) == IF x = 0 THEN {} ELSE { <<k, x>> }

(* Nothing is in Nil; a node has itself and what its subtrees have.        *)
LEMMA PartsOfNil ==
    Nil \in Tree /\ Nodes(Nil) = {} /\ Keys(Nil) = {} /\ Links(Nil) = {} /\ Height(Nil) = 0
<1> QED
  BY NodesIs, HeightIs, Subtrees DEF Keys, Links

LEMMA PartsOfNode ==
    ASSUME NEW t \in Tree \ {Nil}
    PROVE  /\ Nodes(t) = {t} \cup Nodes(t.l) \cup Nodes(t.r)
           /\ Keys(t) = {t.key} \cup Keys(t.l) \cup Keys(t.r)
           /\ Links(t) = Link(t.key, t.thr) \cup Links(t.l) \cup Links(t.r)
           /\ Height(t) = HeightAt(Height(t.l), Height(t.r))
<1>1. Nodes(t) = {t} \cup Nodes(t.l) \cup Nodes(t.r)
  BY NodesIs DEF NodesAt
<1>2. Keys(t) = {t.key} \cup Keys(t.l) \cup Keys(t.r)
  BY <1>1 DEF Keys
<1>3. Links(t) = Link(t.key, t.thr) \cup Links(t.l) \cup Links(t.r)
  BY <1>1 DEF Links, Link
<1> QED
  BY <1>1, <1>2, <1>3, HeightIs

(* The nodes of a tree are trees themselves.                               *)
LEMMA NodesAreTrees ==
    \A t \in Tree : Nodes(t) \subseteq Tree \ {Nil} /\ Keys(t) \subseteq Key
                    /\ Links(t) \subseteq Key \X Key
<1> DEFINE S == { t \in Tree : Nodes(t) \subseteq Tree \ {Nil} }
<1>1. Nil \in S
  BY PartsOfNil
<1>2. ASSUME NEW t \in Tree \ {Nil}, t.l \in S, t.r \in S PROVE t \in S
  BY <1>2, PartsOfNode
<1>3. \A t \in Tree : t \in S
  <2> HIDE DEF S
  <2> QED
    BY <1>1, <1>2, TreeInduction
<1>4. \A n \in Tree \ {Nil} : n.key \in Key /\ n.thr \in Key \cup {0}
  BY Subtrees
<1> QED
  BY <1>3, <1>4 DEF Keys, Links

-----------------------------------------------------------------------------
(* What rotations and insertions keep of every node: the balance factor is *)
(* the difference of the heights and small, keys are in order, a thread is *)
(* in the place of a child, and threads from the left lead to the node at  *)
(* most.                                                                   *)
Fit(n) ==
    /\ n.bf = Height(n.l) - Height(n.r) /\ n.bf \in -1 .. 1
    /\ \A x \in Keys(n.l) : x < n.key
    /\ \A x \in Keys(n.r) : n.key < x
    /\ n.thr # 0 => n.r = Nil /\ n.key < n.thr
    /\ \A p \in Links(n.l) : p[2] <= n.key

Good(t) == t \in Tree /\ \A n \in Nodes(t) : Fit(n)

(* Nil is in order; a node is when its subtrees are and it fits.           *)
LEMMA GoodNil == Good(Nil)
<1> QED
  BY PartsOfNil DEF Good

LEMMA GoodNode ==
    ASSUME NEW t \in Tree \ {Nil}
    PROVE  Good(t) <=> Good(t.l) /\ Good(t.r) /\ Fit(t)
<1> QED
  BY PartsOfNode, Subtrees DEF Good

(* When a tree can be put together from its parts.                         *)
Fits(k, a, b, x, y) ==
    /\ k \in Key /\ Good(a) /\ Good(b) /\ x \in Key \cup {0}
    /\ Height(a) < Levels /\ Height(b) < Levels
    /\ y = Height(a) - Height(b) /\ y \in -1 .. 1
    /\ \A e \in Keys(a) : e < k
    /\ \A e \in Keys(b) : k < e
    /\ x # 0 => b = Nil /\ k < x
    /\ \A p \in Links(a) : p[2] <= k

(* What is put together so is in order, and has the parts it was made of.  *)
LEMMA Make ==
    ASSUME NEW k, NEW a, NEW b, NEW x, NEW y, Fits(k, a, b, x, y)
    PROVE  /\ Good(Made(k, a, b, x, y)) /\ Made(k, a, b, x, y) # Nil
           /\ Keys(Made(k, a, b, x, y)) = {k} \cup Keys(a) \cup Keys(b)
           /\ Links(Made(k, a, b, x, y)) = Link(k, x) \cup Links(a) \cup Links(b)
           /\ Height(Made(k, a, b, x, y)) = HeightAt(Height(a), Height(b))
<1> DEFINE t == Made(k, a, b, x, y)
<1>1. t \in Tree \ {Nil}
  <2>1. Height(a) \in Int /\ Height(b) \in Int /\ a \in Tree /\ b \in Tree
    BY HeightIsLevel DEF Good, Fits
  <2>2. y \in Int
    BY DEF Fits
  <2> QED
    BY <2>1, <2>2, NodeInTree DEF Fits
<1>2. t.key = k /\ t.l = a /\ t.r = b /\ t.thr = x /\ t.bf = y
  BY NodeFields
<1> HIDE DEF t
<1>3. Fit(t)
  BY <1>2 DEF Fit, Fits
<1>4. Good(t)
  BY <1>1, <1>2, <1>3, GoodNode DEF Fits
<1>5. /\ Keys(t) = {k} \cup Keys(a) \cup Keys(b)
      /\ Links(t) = Link(k, x) \cup Links(a) \cup Links(b)
      /\ Height(t) = HeightAt(Height(a), Height(b))
  BY <1>1, <1>2, PartsOfNode
<1> QED
  BY <1>1, <1>4, <1>5 DEF t

-----------------------------------------------------------------------------
(* A tree taken apart.                                                     *)
LEMMA Apart ==
    ASSUME NEW t, Good(t), t # Nil
    PROVE  /\ t \in Tree \ {Nil} /\ t = Made(t.key, t.l, t.r, t.thr, t.bf)
           /\ t.key \in Key /\ t.thr \in Key \cup {0} /\ t.bf \in -1 .. 1
           /\ Good(t.l) /\ Good(t.r)
           /\ Height(t) \in 1 .. Levels /\ Height(t.l) \in 0 .. Height(t) - 1
           /\ Height(t.r) \in 0 .. Height(t) - 1
           /\ t.bf = Height(t.l) - Height(t.r)
           /\ Height(t) = HeightAt(Height(t.l), Height(t.r))
           /\ Keys(t) = {t.key} \cup Keys(t.l) \cup Keys(t.r)
           /\ Links(t) = Link(t.key, t.thr) \cup Links(t.l) \cup Links(t.r)
           /\ \A x \in Keys(t.l) : x < t.key
           /\ \A x \in Keys(t.r) : t.key < x
           /\ t.thr # 0 => t.r = Nil /\ t.key < t.thr
           /\ \A p \in Links(t.l) : p[2] <= t.key
           /\ Keys(t) \subseteq Nat /\ Keys(t) \subseteq Key /\ Links(t) \subseteq Key \X Key
           /\ t.key \in Keys(t)
<1>1. t \in Tree \ {Nil} /\ t.l \in Tree /\ t.r \in Tree /\ t.key \in Key /\ t.thr \in Key \cup {0}
  BY Subtrees DEF Good
<1>2. Good(t.l) /\ Good(t.r) /\ Fit(t)
  BY <1>1, GoodNode
<1>3. t = Made(t.key, t.l, t.r, t.thr, t.bf)
  BY <1>1, NodeParts
<1>4. /\ Height(t) = HeightAt(Height(t.l), Height(t.r))
      /\ Keys(t) = {t.key} \cup Keys(t.l) \cup Keys(t.r)
      /\ Links(t) = Link(t.key, t.thr) \cup Links(t.l) \cup Links(t.r)
  BY <1>1, PartsOfNode
<1>5. Height(t) \in 0 .. Levels /\ Height(t.l) \in 0 .. Levels /\ Height(t.r) \in 0 .. Levels
  BY <1>1, HeightIsLevel
<1>6. /\ Height(t) \in 1 .. Levels /\ Height(t.l) \in 0 .. Height(t) - 1
      /\ Height(t.r) \in 0 .. Height(t) - 1
  BY <1>4, <1>5, LevelsType DEF HeightAt
<1>7. Keys(t) \subseteq Key /\ Links(t) \subseteq Key \X Key /\ Keys(t) \subseteq Nat
  BY <1>1, NodesAreTrees, HeaderTreeAssumption
<1> QED
  BY <1>1, <1>2, <1>3, <1>4, <1>6, <1>7 DEF Fit

(* What follows of the keys and threads of a tree in order.                *)
LEMMA Apartness ==
    ASSUME NEW t, Good(t)
    PROVE  /\ Keys(t) \subseteq Nat /\ Keys(t) \subseteq Key /\ Links(t) \subseteq Key \X Key
           /\ Height(t) \in 0 .. Levels
           /\ Height(t) = 0 <=> t = Nil
           /\ \A p \in Links(t) : p[1] \in Keys(t) /\ p[1] < p[2]
           /\ Key \subseteq Nat \ {0}
<1>1. t \in Tree
  BY DEF Good
<1>2. Height(t) = 0 <=> t = Nil
  BY Apart, PartsOfNil
<1>3. ASSUME NEW p \in Links(t) PROVE p[1] \in Keys(t) /\ p[1] < p[2]
  <2>1. PICK n \in Nodes(t) : n.thr # 0 /\ p = <<n.key, n.thr>>
    BY DEF Links
  <2>2. Fit(n)
    BY DEF Good
  <2> QED
    BY <2>1, <2>2 DEF Fit, Keys
<1>4. Keys(t) \subseteq Key /\ Links(t) \subseteq Key \X Key
  BY <1>1, NodesAreTrees
<1>5. Keys(t) \subseteq Nat /\ Key \subseteq Nat \ {0} /\ Height(t) \in 0 .. Levels
  BY <1>1, <1>4, HeightIsLevel, HeaderTreeAssumption
<1> QED
  BY <1>2, <1>3, <1>4, <1>5

-----------------------------------------------------------------------------
(* What a rotation makes of the parts of a tree.                           *)
LEMMA LeftRotateIs ==
    ASSUME NEW k, NEW a, NEW x, NEW y \in Int,
           NEW k2, NEW a2, NEW b2, NEW x2, NEW y2 \in Int
    PROVE  LET y3 == y + IF y2 < 0 THEN 1 - y2 ELSE 1
               y4 == y2 + IF y3 > 0 THEN 1 + y3 ELSE 1
           IN  LeftRotate(Made(k, a, Made(k2, a2, b2, x2, y2), x, y))
                   = Made(k2, Made(k, a, a2, x, y3), b2, x2, y4)
<1> DEFINE n == Made(k2, a2, b2, x2, y2)
           t == Made(k, a, n, x, y)
           under == [t EXCEPT !.r = n.l, !.bf = @ + IF n.bf < 0 THEN 1 - n.bf ELSE 1]
           y3 == y + IF y2 < 0 THEN 1 - y2 ELSE 1
           y4 == y2 + IF y3 > 0 THEN 1 + y3 ELSE 1
<1>1. n.l = a2 /\ n.bf = y2 /\ t.bf = y /\ t.r = n
  BY NodeFields
<1>2. under = Made(k, a, a2, x, y3)
  <2>1. under = [t EXCEPT !.r = n.l, !.bf = y3]
    BY <1>1
  <2>2. [t EXCEPT !.r = n.l, !.bf = y3] = Made(k, a, a2, x, y3)
    <3> HIDE DEF n, y3
    <3>1. [t EXCEPT !.r = n.l, !.bf = y3] = [[t EXCEPT !.r = n.l] EXCEPT !.bf = y3]
      OBVIOUS
    <3>2. [t EXCEPT !.r = n.l] = Made(k, a, n.l, x, y)
      BY DEF Made
    <3>3. [Made(k, a, n.l, x, y) EXCEPT !.bf = y3] = Made(k, a, n.l, x, y3)
      BY DEF Made
    <3> HIDE DEF t
    <3> QED
      BY <1>1, <3>1, <3>2, <3>3, Zenon
  <2> QED
    BY <2>1, <2>2
<1>3. LeftRotate(t) = [n EXCEPT !.l = under,
                                !.bf = @ + IF under.bf > 0 THEN 1 + under.bf ELSE 1]
  <2>1. LeftRotate(t) = LET raised == t.r
                         sunk == [t EXCEPT !.r = raised.l,
                                           !.bf = @ + IF raised.bf < 0 THEN 1 - raised.bf ELSE 1]
                     IN  [raised EXCEPT !.l = sunk, !.bf = @ + IF sunk.bf > 0 THEN 1 + sunk.bf ELSE 1]
    BY Zenon DEF LeftRotate
  <2> HIDE DEF t, n
  <2> QED
    BY <1>1, <2>1, Zenon
<1>4. under.bf = y3
  BY <1>2, NodeFields
<1>5. [n EXCEPT !.l = under, !.bf = y4] = Made(k2, under, b2, x2, y4)
  <2> HIDE DEF under, y4
  <2>1. [n EXCEPT !.l = under, !.bf = y4] = [[n EXCEPT !.l = under] EXCEPT !.bf = y4]
    OBVIOUS
  <2>2. [n EXCEPT !.l = under] = Made(k2, under, b2, x2, y2)
    BY DEF Made
  <2>3. [Made(k2, under, b2, x2, y2) EXCEPT !.bf = y4] = Made(k2, under, b2, x2, y4)
    BY DEF Made
  <2> HIDE DEF n
  <2> QED
    BY <2>1, <2>2, <2>3, Zenon
<1>6. [n EXCEPT !.l = under, !.bf = @ + IF under.bf > 0 THEN 1 + under.bf ELSE 1]
          = [n EXCEPT !.l = under, !.bf = y4]
  <2> HIDE DEF under
  <2> QED
    BY <1>1, <1>4
<1> HIDE DEF under, n
<1> QED
  BY <1>2, <1>3, <1>5, <1>6 DEF n

(* RightRotate likewise; the thread of the left child is dropped.          *)
LEMMA RightRotateIs ==
    ASSUME NEW k, NEW b, NEW x, NEW y \in Int,
           NEW k2, NEW a2, NEW b2, NEW x2, NEW y2 \in Int
    PROVE  LET y3 == y - IF y2 > 0 THEN 1 + y2 ELSE 1
               y4 == y2 - IF y3 < 0 THEN 1 - y3 ELSE 1
           IN  RightRotate(Made(k, Made(k2, a2, b2, x2, y2), b, x, y))
                   = Made(k2, a2, Made(k, b2, b, x, y3), 0, y4)
<1> DEFINE n == Made(k2, a2, b2, x2, y2)
           t == Made(k, n, b, x, y)
           under == [t EXCEPT !.l = n.r, !.bf = @ - IF n.bf > 0 THEN 1 + n.bf ELSE 1]
           y3 == y - IF y2 > 0 THEN 1 + y2 ELSE 1
           y4 == y2 - IF y3 < 0 THEN 1 - y3 ELSE 1
<1>1. n.r = b2 /\ n.bf = y2 /\ t.bf = y /\ t.l = n
  BY NodeFields
<1>2. under = Made(k, b2, b, x, y3)
  <2>1. under = [t EXCEPT !.l = n.r, !.bf = y3]
    BY <1>1
  <2>2. [t EXCEPT !.l = n.r, !.bf = y3] = Made(k, b2, b, x, y3)
    <3> HIDE DEF n, y3
    <3>1. [t EXCEPT !.l = n.r, !.bf = y3] = [[t EXCEPT !.l = n.r] EXCEPT !.bf = y3]
      OBVIOUS
    <3>2. [t EXCEPT !.l = n.r] = Made(k, n.r, b, x, y)
      BY DEF Made
    <3>3. [Made(k, n.r, b, x, y) EXCEPT !.bf = y3] = Made(k, n.r, b, x, y3)
      BY DEF Made
    <3> HIDE DEF t
    <3> QED
      BY <1>1, <3>1, <3>2, <3>3, Zenon
  <2> QED
    BY <2>1, <2>2
<1>3. RightRotate(t) = [n EXCEPT !.thr = 0, !.r = under,
                                 !.bf = @ - IF under.bf < 0 THEN 1 - under.bf ELSE 1]
  <2>1. RightRotate(t) = LET raised == t.l
                         sunk == [t EXCEPT !.l = raised.r,
                                           !.bf = @ - IF raised.bf > 0 THEN 1 + raised.bf ELSE 1]
                     IN  [raised EXCEPT !.thr = 0, !.r = sunk,
                                    !.bf = @ - IF sunk.bf < 0 THEN 1 - sunk.bf ELSE 1]
    BY Zenon DEF RightRotate
  <2> HIDE DEF t, n
  <2> QED
    BY <1>1, <2>1, Zenon
<1>4. under.bf = y3
  BY <1>2, NodeFields
<1>5. [n EXCEPT !.thr = 0, !.r = under, !.bf = y4] = Made(k2, a2, under, 0, y4)
  <2> HIDE DEF under, y4
  <2>1. [n EXCEPT !.thr = 0, !.r = under, !.bf = y4]
          = [[[n EXCEPT !.thr = 0] EXCEPT !.r = under] EXCEPT !.bf = y4]
    OBVIOUS
  <2>2. [n EXCEPT !.thr = 0] = Made(k2, a2, b2, 0, y2)
    BY DEF Made
  <2>3. [Made(k2, a2, b2, 0, y2) EXCEPT !.r = under] = Made(k2, a2, under, 0, y2)
    BY DEF Made
  <2>4. [Made(k2, a2, under, 0, y2) EXCEPT !.bf = y4] = Made(k2, a2, under, 0, y4)
    BY DEF Made
  <2> HIDE DEF n
  <2> QED
    BY <2>1, <2>2, <2>3, <2>4, Zenon
<1>6. [n EXCEPT !.thr = 0, !.r = under, !.bf = @ - IF under.bf < 0 THEN 1 - under.bf ELSE 1]
          = [n EXCEPT !.thr = 0, !.r = under, !.bf = y4]
  <2> HIDE DEF under
  <2> QED
    BY <1>1, <1>4
<1> HIDE DEF under, n
<1> QED
  BY <1>2, <1>3, <1>5, <1>6 DEF n

(* What a rotation has to reach: a level tree of the same keys, one level  *)
(* lower, without a new thread.                                            *)
Level(w, K, P, h) ==
    /\ Good(w) /\ w # Nil /\ w.bf = 0
    /\ Keys(w) = K /\ Links(w) \subseteq P /\ Height(w) = h

(* A single rotation: the right subtree is too high on its right side.     *)
LEMMA LeftSingle ==
    ASSUME NEW k \in Key, NEW a, NEW b, Good(a), Good(b), b # Nil, b.bf = -1,
           Height(b) = Height(a) + 2, Height(b) < Levels,
           \A e \in Keys(a) : e < k, \A e \in Keys(b) : k < e, \A p \in Links(a) : p[2] <= k
    PROVE  Level(LeftRotate(Made(k, a, b, 0, -2)),
                 {k} \cup Keys(a) \cup Keys(b), Links(a) \cup Links(b), Height(b))
<1> DEFINE under == Made(k, a, b.l, 0, 0)
           w == Made(b.key, under, b.r, b.thr, 0)
<1>1. b = Made(b.key, b.l, b.r, b.thr, -1)
  BY Apart
<1>2. LeftRotate(Made(k, a, b, 0, -2)) = w
  BY <1>1, LeftRotateIs
<1>3. Height(b.l) = Height(a) /\ Height(b.r) = Height(a) + 1
  BY Apart, Apartness DEF HeightAt
<1>4. /\ Good(under) /\ Keys(under) = {k} \cup Keys(a) \cup Keys(b.l)
      /\ Links(under) = Links(a) \cup Links(b.l) /\ Height(under) = Height(a) + 1
  <2>1. \A e \in Keys(b.l) : k < e
    BY Apart
  <2>2. Height(a) < Levels /\ Height(b.l) < Levels
    BY <1>3, Apartness, LevelsType
  <2>3. Good(b.l) /\ 0 = Height(a) - Height(b.l)
    BY <1>3, Apart, Apartness
  <2>4. Fits(k, a, b.l, 0, 0)
    BY <2>1, <2>2, <2>3 DEF Fits
  <2> QED
    BY <1>3, <2>4, Make, Apartness DEF Link, HeightAt
<1> HIDE DEF under
<1>5. /\ Good(w) /\ w # Nil /\ Keys(w) = {b.key} \cup Keys(under) \cup Keys(b.r)
      /\ Links(w) = Link(b.key, b.thr) \cup Links(under) \cup Links(b.r)
      /\ Height(w) = HeightAt(Height(under), Height(b.r))
  <2>1. b.key \in Key /\ Good(b.r) /\ b.thr \in Key \cup {0} /\ k < b.key
    BY Apart
  <2>2. \A e \in Keys(under) : e < b.key
    BY <1>4, <2>1, Apart, Apartness
  <2>3. \A p \in Links(under) : p[2] <= b.key
    <3>1. \A p \in Links(a) : p[2] \in Nat /\ p[2] <= k
      BY Apartness
    <3> QED
      BY <1>4, <2>1, <3>1, Apart, Apartness
  <2>4. /\ Height(under) < Levels /\ Height(b.r) < Levels
        /\ 0 = Height(under) - Height(b.r)
    BY <1>3, <1>4, Apartness, LevelsType
  <2>5. /\ \A e \in Keys(b.r) : b.key < e
        /\ b.thr # 0 => b.r = Nil /\ b.key < b.thr
    BY Apart
  <2>6. Fits(b.key, under, b.r, b.thr, 0)
    BY <1>4, <2>1, <2>2, <2>3, <2>4, <2>5 DEF Fits
  <2> QED
    BY <2>6, Make
<1>6. Height(w) = Height(b) /\ w.bf = 0
  BY <1>3, <1>4, <1>5, NodeFields, Apartness DEF HeightAt
<1> HIDE DEF w
<1>7. Keys(w) = {k} \cup Keys(a) \cup Keys(b) /\ Links(w) = Links(a) \cup Links(b)
  BY <1>4, <1>5, Apart
<1> QED
  BY <1>2, <1>5, <1>6, <1>7 DEF Level

-----------------------------------------------------------------------------
(* A double rotation: the right subtree is too high on its left side.      *)
LEMMA LeftDouble ==
    ASSUME NEW k \in Key, NEW a, NEW b, Good(a), Good(b), b # Nil, b.bf = 1,
           Height(b) = Height(a) + 2, Height(b) < Levels,
           \A e \in Keys(a) : e < k, \A e \in Keys(b) : k < e, \A p \in Links(a) : p[2] <= k
    PROVE  Level(LeftRotate(Made(k, a, RightRotate(b), 0, -2)),
                 {k} \cup Keys(a) \cup Keys(b), Links(a) \cup Links(b), Height(b))
<1> DEFINE c == b.l
           u == IF c.bf > 0 THEN -1 ELSE 0
           v == IF c.bf < 0 THEN 1 ELSE 0
           right == Made(b.key, c.r, b.r, b.thr, u)
           left == Made(k, a, c.l, 0, v)
           w == Made(c.key, left, right, 0, 0)
<1>1. /\ Height(b.l) = Height(a) + 1 /\ Height(b.r) = Height(a) /\ Height(a) \in Nat
      /\ Good(c) /\ c # Nil /\ b = Made(b.key, c, b.r, b.thr, 1)
  <2>1. Height(b.l) = Height(a) + 1 /\ Height(b.r) = Height(a) /\ Height(a) \in Nat
    BY Apart, Apartness DEF HeightAt
  <2>2. Good(b.l) /\ b = Made(b.key, b.l, b.r, b.thr, 1)
    BY Apart
  <2>3. b.l # Nil
    BY <2>1, <2>2, Apartness
  <2> QED
    BY <2>1, <2>2, <2>3
<1>2. /\ c = Made(c.key, c.l, c.r, c.thr, c.bf) /\ c.bf \in -1 .. 1
      /\ Good(c.l) /\ Good(c.r) /\ c.key \in Key
      /\ Height(c.l) \in Nat /\ Height(c.r) \in Nat
      /\ c.bf = Height(c.l) - Height(c.r)
      /\ Height(a) = (IF Height(c.l) > Height(c.r) THEN Height(c.l) ELSE Height(c.r))
  <2> HIDE DEF c
  <2>1. Height(c) = HeightAt(Height(c.l), Height(c.r)) /\ Height(c) = Height(a) + 1
        /\ Height(c.l) \in 0 .. Height(c) - 1 /\ Height(c.r) \in 0 .. Height(c) - 1
    BY <1>1, Apart DEF c
  <2> QED
    BY <1>1, <2>1, Apart DEF HeightAt
<1>3. LeftRotate(Made(k, a, RightRotate(b), 0, -2)) = w
  <2> DEFINE y == c.bf - IF u < 0 THEN 1 - u ELSE 1
  <2>1. RightRotate(b) = Made(c.key, c.l, right, 0, y)
    <3> HIDE DEF c
    <3>1. 1 - (IF c.bf > 0 THEN 1 + c.bf ELSE 1) = u
      BY <1>2
    <3> QED
      BY <1>1, <1>2, <3>1, RightRotateIs
  <2>2. y \in Int /\ v = -2 + IF y < 0 THEN 1 - y ELSE 1
    <3> HIDE DEF c
    <3> QED
      BY <1>2
  <2>3. 0 = y + IF v > 0 THEN 1 + v ELSE 1
    <3> HIDE DEF c
    <3> QED
      BY <1>2
  <2> HIDE DEF y, u, v, c, right
  <2> QED
    BY <2>1, <2>2, <2>3, LeftRotateIs
<1>4. /\ Good(right) /\ right # Nil /\ Keys(right) = {b.key} \cup Keys(c.r) \cup Keys(b.r)
      /\ Links(right) = Link(b.key, b.thr) \cup Links(c.r) \cup Links(b.r)
      /\ Height(right) = HeightAt(Height(c.r), Height(b.r))
  <2>1. b.key \in Key /\ Good(b.r) /\ b.thr \in Key \cup {0} /\ Height(b.r) = Height(a)
    BY <1>1, Apart
  <2>2. /\ \A e \in Keys(c.r) : e < b.key
        /\ \A p \in Links(c.r) : p[2] <= b.key
    <3>1. Keys(c.r) \subseteq Keys(c) /\ Links(c.r) \subseteq Links(c)
      <4> HIDE DEF c
      <4> QED
        BY <1>1, Apart
    <3> QED
      BY <3>1, Apart
  <2>3. /\ \A e \in Keys(b.r) : b.key < e
        /\ b.thr # 0 => b.r = Nil /\ b.key < b.thr
    BY Apart
  <2> HIDE DEF c
  <2>4. /\ u = Height(c.r) - Height(b.r) /\ u \in -1 .. 1
        /\ Height(c.r) < Levels /\ Height(b.r) < Levels
    BY <1>2, <2>1, LevelsType, Apartness
  <2>5. Fits(b.key, c.r, b.r, b.thr, u)
    <3> HIDE DEF u
    <3> QED
      BY <1>2, <2>1, <2>2, <2>3, <2>4 DEF Fits
  <2> QED
    BY <2>5, Make
<1>5. /\ Good(left) /\ left # Nil /\ Keys(left) = {k} \cup Keys(a) \cup Keys(c.l)
      /\ Links(left) = Links(a) \cup Links(c.l)
      /\ Height(left) = HeightAt(Height(a), Height(c.l))
  <2>1. \A e \in Keys(c.l) : k < e
    <3>1. Keys(c) \subseteq Keys(b)
      BY Apart
    <3> HIDE DEF c
    <3>2. Keys(c.l) \subseteq Keys(c)
      BY <1>1, Apart
    <3> QED
      BY <3>1, <3>2
  <2> HIDE DEF c
  <2>2. /\ v = Height(a) - Height(c.l) /\ v \in -1 .. 1
        /\ Height(a) < Levels /\ Height(c.l) < Levels
    BY <1>2, LevelsType, Apartness
  <2>3. Fits(k, a, c.l, 0, v)
    <3> HIDE DEF v
    <3> QED
      BY <1>2, <2>1, <2>2 DEF Fits
  <2> QED
    BY <2>3, Make DEF Link
<1>6. /\ Good(w) /\ w # Nil /\ Keys(w) = {c.key} \cup Keys(left) \cup Keys(right)
      /\ Links(w) = Links(left) \cup Links(right)
      /\ Height(w) = HeightAt(Height(left), Height(right))
  <2>1. /\ c.key < b.key /\ k < c.key /\ b.key \in Nat /\ k \in Nat /\ c.key \in Nat
        /\ \A e \in Keys(b.r) : b.key < e /\ e \in Nat
    <3>1. c.key \in Keys(c)
      BY <1>1, Apart
    <3>2. c.key < b.key /\ k < c.key /\ b.key \in Key
      BY <3>1, Apart
    <3> QED
      BY <1>1, <1>2, <3>2, Apart, Apartness
  <2>2. /\ \A e \in Keys(c.l) : e < c.key
        /\ \A e \in Keys(c.r) : c.key < e
        /\ \A p \in Links(c.l) : p[2] <= c.key
    <3> HIDE DEF c
    <3> QED
      BY <1>1, Apart
  <2> HIDE DEF c, left, right
  <2>3. \A e \in Keys(left) : e < c.key
    <3>1. Keys(a) \subseteq Nat
      BY Apartness
    <3> QED
      BY <1>5, <2>1, <2>2, <3>1
  <2>4. \A e \in Keys(right) : c.key < e
    BY <1>4, <2>1, <2>2
  <2>5. \A p \in Links(left) : p[2] <= c.key
    <3>1. \A p \in Links(a) : p[2] \in Nat
      BY Apartness
    <3> QED
      BY <1>5, <2>1, <2>2, <3>1
  <2>6. /\ Height(left) = Height(a) + 1 /\ Height(right) = Height(a) + 1
    BY <1>1, <1>2, <1>4, <1>5 DEF HeightAt
  <2>7. /\ Height(left) < Levels /\ Height(right) < Levels /\ 0 = Height(left) - Height(right)
    BY <1>1, <2>6, LevelsType
  <2>8. Fits(c.key, left, right, 0, 0)
    BY <1>2, <1>4, <1>5, <2>3, <2>4, <2>5, <2>7 DEF Fits
  <2> QED
    BY <2>8, Make DEF Link
<1>7. Height(w) = Height(b) /\ w.bf = 0
  <2>1. w.bf = 0
    BY NodeFields
  <2> HIDE DEF c, left, right, w
  <2> QED
    BY <1>1, <1>2, <1>4, <1>5, <1>6, <2>1 DEF HeightAt
<1>8. Keys(w) = {k} \cup Keys(a) \cup Keys(b) /\ Links(w) \subseteq Links(a) \cup Links(b)
  <2>1. /\ Keys(b) = {b.key} \cup Keys(c) \cup Keys(b.r)
        /\ Links(b) = Link(b.key, b.thr) \cup Links(c) \cup Links(b.r)
    BY Apart
  <2> HIDE DEF c, left, right, w
  <2>2. /\ Keys(c) = {c.key} \cup Keys(c.l) \cup Keys(c.r)
        /\ Links(c.l) \cup Links(c.r) \subseteq Links(c)
    BY <1>1, Apart
  <2> QED
    BY <1>4, <1>5, <1>6, <2>1, <2>2
<1> HIDE DEF w
<1> QED
  BY <1>3, <1>6, <1>7, <1>8 DEF Level

(* The mirror image of LeftSingle, with a thread below that is dropped.    *)
LEMMA RightSingle ==
    ASSUME NEW k \in Key, NEW a, NEW b, NEW x \in Key \cup {0},
           Good(a), Good(b), a # Nil, a.bf = 1,
           Height(a) = Height(b) + 2, Height(a) < Levels,
           \A e \in Keys(a) : e < k, \A e \in Keys(b) : k < e,
           x # 0 => b = Nil /\ k < x, \A p \in Links(a) : p[2] <= k
    PROVE  Level(RightRotate(Made(k, a, b, x, 2)), {k} \cup Keys(a) \cup Keys(b),
                 Link(k, x) \cup Links(a) \cup Links(b), Height(a))
<1> DEFINE under == Made(k, a.r, b, x, 0)
           w == Made(a.key, a.l, under, 0, 0)
<1>1. a = Made(a.key, a.l, a.r, a.thr, 1)
  BY Apart
<1>2. RightRotate(Made(k, a, b, x, 2)) = w
  BY <1>1, RightRotateIs
<1>3. Height(a.r) = Height(b) /\ Height(a.l) = Height(b) + 1
  BY Apart, Apartness DEF HeightAt
<1>4. /\ Good(under) /\ Keys(under) = {k} \cup Keys(a.r) \cup Keys(b)
      /\ Links(under) = Link(k, x) \cup Links(a.r) \cup Links(b) /\ Height(under) = Height(b) + 1
  <2>1. /\ \A e \in Keys(a.r) : e < k
        /\ \A p \in Links(a.r) : p[2] <= k
    BY Apart
  <2>2. Height(b) < Levels /\ Height(a.r) < Levels
    BY <1>3, Apartness, LevelsType
  <2>3. Good(a.r) /\ 0 = Height(a.r) - Height(b)
    BY <1>3, Apart, Apartness
  <2>4. Fits(k, a.r, b, x, 0)
    BY <2>1, <2>2, <2>3 DEF Fits
  <2> QED
    BY <1>3, <2>4, Make, Apartness DEF HeightAt
<1> HIDE DEF under
<1>5. /\ Good(w) /\ w # Nil /\ Keys(w) = {a.key} \cup Keys(a.l) \cup Keys(under)
      /\ Links(w) = Links(a.l) \cup Links(under)
      /\ Height(w) = HeightAt(Height(a.l), Height(under))
  <2>1. a.key \in Key /\ Good(a.l) /\ a.key < k
    BY Apart
  <2>2. \A e \in Keys(under) : a.key < e
    BY <1>4, <2>1, Apart, Apartness
  <2>3. /\ Height(under) < Levels /\ Height(a.l) < Levels
        /\ 0 = Height(a.l) - Height(under)
    BY <1>3, <1>4, Apartness, LevelsType
  <2>4. /\ \A e \in Keys(a.l) : e < a.key
        /\ \A p \in Links(a.l) : p[2] <= a.key
    BY Apart
  <2>5. Fits(a.key, a.l, under, 0, 0)
    BY <1>4, <2>1, <2>2, <2>3, <2>4 DEF Fits
  <2> QED
    BY <2>5, Make DEF Link
<1>6. Height(w) = Height(a) /\ w.bf = 0
  BY <1>3, <1>4, <1>5, NodeFields, Apartness DEF HeightAt
<1> HIDE DEF w
<1>7. /\ Keys(w) = {k} \cup Keys(a) \cup Keys(b)
      /\ Links(w) \subseteq Link(k, x) \cup Links(a) \cup Links(b)
  BY <1>4, <1>5, Apart
<1> QED
  BY <1>2, <1>5, <1>6, <1>7 DEF Level

(* The mirror image of LeftDouble, with a thread below that is dropped.    *)
LEMMA RightDouble ==
    ASSUME NEW k \in Key, NEW a, NEW b, NEW x \in Key \cup {0},
           Good(a), Good(b), a # Nil, a.bf = -1,
           Height(a) = Height(b) + 2, Height(a) < Levels,
           \A e \in Keys(a) : e < k, \A e \in Keys(b) : k < e,
           x # 0 => b = Nil /\ k < x, \A p \in Links(a) : p[2] <= k
    PROVE  Level(RightRotate(Made(k, LeftRotate(a), b, x, 2)), {k} \cup Keys(a) \cup Keys(b),
                 Link(k, x) \cup Links(a) \cup Links(b), Height(a))
<1> DEFINE c == a.r
           u == IF c.bf < 0 THEN 1 ELSE 0
           v == IF c.bf > 0 THEN -1 ELSE 0
           left == Made(a.key, a.l, c.l, a.thr, u)
           right == Made(k, c.r, b, x, v)
           w == Made(c.key, left, right, 0, 0)
<1>1. /\ Height(a.r) = Height(b) + 1 /\ Height(a.l) = Height(b) /\ Height(b) \in Nat
      /\ Good(c) /\ c # Nil /\ a = Made(a.key, a.l, c, a.thr, -1) /\ a.thr = 0
      /\ Keys(c) \subseteq Keys(a) /\ Links(c) \subseteq Links(a)
      /\ a.key \in Key /\ a.key < k /\ Good(a.l)
  <2>1. Height(a.r) = Height(b) + 1 /\ Height(a.l) = Height(b) /\ Height(b) \in Nat
    BY Apart, Apartness DEF HeightAt
  <2>2. Good(a.r) /\ a = Made(a.key, a.l, a.r, a.thr, -1)
    BY Apart
  <2>3. a.r # Nil
    BY <2>1, <2>2, Apartness
  <2>4. /\ Keys(a.r) \subseteq Keys(a) /\ Links(a.r) \subseteq Links(a) /\ a.thr = 0
        /\ a.key \in Key /\ a.key < k /\ Good(a.l)
    BY <2>3, Apart
  <2> QED
    BY <2>1, <2>2, <2>3, <2>4
<1>2. /\ c = Made(c.key, c.l, c.r, c.thr, c.bf) /\ c.bf \in -1 .. 1
      /\ Good(c.l) /\ Good(c.r) /\ c.key \in Key /\ c.key \in Keys(c)
      /\ Height(c.l) \in Nat /\ Height(c.r) \in Nat
      /\ c.bf = Height(c.l) - Height(c.r)
      /\ Height(b) = (IF Height(c.l) > Height(c.r) THEN Height(c.l) ELSE Height(c.r))
      /\ c.thr # 0 => c.r = Nil
  <2> HIDE DEF c
  <2>1. Height(c) = HeightAt(Height(c.l), Height(c.r)) /\ Height(c) = Height(b) + 1
        /\ Height(c.l) \in 0 .. Height(c) - 1 /\ Height(c.r) \in 0 .. Height(c) - 1
    BY <1>1, Apart DEF c
  <2> QED
    BY <1>1, <2>1, Apart DEF HeightAt
<1>3. RightRotate(Made(k, LeftRotate(a), b, x, 2)) = w
  <2> DEFINE y == c.bf + IF u > 0 THEN 1 + u ELSE 1
  <2>1. LeftRotate(a) = Made(c.key, left, c.r, c.thr, y)
    <3> HIDE DEF c
    <3>1. -1 + (IF c.bf < 0 THEN 1 - c.bf ELSE 1) = u
      BY <1>2
    <3> QED
      BY <1>1, <1>2, <3>1, LeftRotateIs
  <2>2. y \in Int /\ v = 2 - IF y > 0 THEN 1 + y ELSE 1
    <3> HIDE DEF c
    <3> QED
      BY <1>2
  <2>3. 0 = y - IF v < 0 THEN 1 - v ELSE 1
    <3> HIDE DEF c
    <3> QED
      BY <1>2
  <2> HIDE DEF y, u, v, c, left
  <2> QED
    BY <2>1, <2>2, <2>3, RightRotateIs
<1>4. /\ Good(left) /\ left # Nil /\ Keys(left) = {a.key} \cup Keys(a.l) \cup Keys(c.l)
      /\ Links(left) = Links(a.l) \cup Links(c.l)
      /\ Height(left) = HeightAt(Height(a.l), Height(c.l))
  <2>1. \A e \in Keys(c.l) : a.key < e
    <3>1. \A e \in Keys(c) : a.key < e
      BY Apart
    <3> HIDE DEF c
    <3>2. Keys(c.l) \subseteq Keys(c)
      BY <1>1, Apart
    <3> QED
      BY <3>1, <3>2
  <2>2. /\ \A e \in Keys(a.l) : e < a.key
        /\ \A p \in Links(a.l) : p[2] <= a.key
    BY Apart
  <2> HIDE DEF c
  <2>3. /\ u = Height(a.l) - Height(c.l) /\ u \in -1 .. 1
        /\ Height(a.l) < Levels /\ Height(c.l) < Levels
    BY <1>1, <1>2, LevelsType, Apartness
  <2>4. Fits(a.key, a.l, c.l, a.thr, u)
    <3> HIDE DEF u
    <3> QED
      BY <1>1, <1>2, <2>1, <2>2, <2>3 DEF Fits
  <2> QED
    BY <1>1, <2>4, Make DEF Link
<1>5. /\ Good(right) /\ right # Nil /\ Keys(right) = {k} \cup Keys(c.r) \cup Keys(b)
      /\ Links(right) = Link(k, x) \cup Links(c.r) \cup Links(b)
      /\ Height(right) = HeightAt(Height(c.r), Height(b))
  <2> HIDE DEF c
  <2>1. /\ \A e \in Keys(c.r) : e < k
        /\ \A p \in Links(c.r) : p[2] <= k
    <3>1. Keys(c.r) \subseteq Keys(c) /\ Links(c.r) \subseteq Links(c)
      BY <1>1, Apart
    <3> QED
      BY <1>1, <3>1
  <2>2. /\ v = Height(c.r) - Height(b) /\ v \in -1 .. 1
        /\ Height(c.r) < Levels /\ Height(b) < Levels
    BY <1>1, <1>2, LevelsType, Apartness
  <2>3. Fits(k, c.r, b, x, v)
    <3> HIDE DEF v
    <3> QED
      BY <1>2, <2>1, <2>2 DEF Fits
  <2> QED
    BY <2>3, Make
<1>6. /\ Good(w) /\ w # Nil /\ Keys(w) = {c.key} \cup Keys(left) \cup Keys(right)
      /\ Links(w) = Links(left) \cup Links(right)
      /\ Height(w) = HeightAt(Height(left), Height(right))
  <2>1. /\ a.key < c.key /\ c.key < k /\ a.key \in Nat /\ k \in Nat /\ c.key \in Nat
        /\ \A e \in Keys(a.l) : e < a.key /\ e \in Nat
        /\ \A p \in Links(a.l) : p[2] <= a.key /\ p[2] \in Nat
    <3>1. \A e \in Keys(c) : a.key < e /\ e < k
      BY <1>1, Apart
    <3>2. a.key < c.key /\ c.key < k
      BY <1>2, <3>1
    <3>3. /\ \A e \in Keys(a.l) : e < a.key
          /\ \A p \in Links(a.l) : p[2] <= a.key
      BY Apart
    <3>4. /\ \A e \in Keys(a.l) : e \in Nat
          /\ \A p \in Links(a.l) : p[2] \in Nat
      BY <1>1, Apartness
    <3> QED
      BY <1>1, <1>2, <3>2, <3>3, <3>4, Apartness
  <2>2. /\ \A e \in Keys(c.l) : e < c.key
        /\ \A e \in Keys(c.r) : c.key < e
        /\ \A p \in Links(c.l) : p[2] <= c.key
    <3> HIDE DEF c
    <3> QED
      BY <1>1, Apart
  <2> HIDE DEF c, left, right
  <2>3. \A e \in Keys(left) : e < c.key
    BY <1>4, <2>1, <2>2
  <2>4. \A e \in Keys(right) : c.key < e
    <3>1. Keys(b) \subseteq Nat
      BY Apartness
    <3> QED
      BY <1>5, <2>1, <2>2, <3>1
  <2>5. \A p \in Links(left) : p[2] <= c.key
    BY <1>4, <2>1, <2>2
  <2>6. /\ Height(left) = Height(b) + 1 /\ Height(right) = Height(b) + 1
    BY <1>1, <1>2, <1>4, <1>5 DEF HeightAt
  <2>7. /\ Height(left) < Levels /\ Height(right) < Levels /\ 0 = Height(left) - Height(right)
    BY <1>1, <2>6, LevelsType
  <2>8. Fits(c.key, left, right, 0, 0)
    BY <1>2, <1>4, <1>5, <2>3, <2>4, <2>5, <2>7 DEF Fits
  <2> QED
    BY <2>8, Make DEF Link
<1>7. Height(w) = Height(a) /\ w.bf = 0
  <2>1. w.bf = 0
    BY NodeFields
  <2> HIDE DEF c, left, right, w
  <2> QED
    BY <1>1, <1>2, <1>4, <1>5, <1>6, <2>1 DEF HeightAt
<1>8. /\ Keys(w) = {k} \cup Keys(a) \cup Keys(b)
      /\ Links(w) \subseteq Link(k, x) \cup Links(a) \cup Links(b)
  <2>1. /\ Keys(a) = {a.key} \cup Keys(a.l) \cup Keys(c)
        /\ Links(a.l) \cup Links(c) \subseteq Links(a)
    BY Apart
  <2> HIDE DEF c, left, right, w
  <2>2. /\ Keys(c) = {c.key} \cup Keys(c.l) \cup Keys(c.r)
        /\ Links(c.l) \cup Links(c.r) \subseteq Links(c)
    BY <1>1, Apart
  <2> QED
    BY <1>4, <1>5, <1>6, <2>1, <2>2
<1> HIDE DEF w
<1> QED
  BY <1>3, <1>6, <1>7, <1>8 DEF Level

-----------------------------------------------------------------------------
(* What btree_internal_insert makes of a subtree t: the header k is in it, *)
(* every thread was there and none passes over the new header, and the     *)
(* result tells the caller whether and to which side the subtree has grown.*)
Grown(t, k, u, q) ==
    /\ Good(u) /\ u # Nil /\ Keys(u) = Keys(t) \cup {k}
    /\ Links(u) \subseteq Links(t)
    /\ \A p \in Links(u) : ~ (p[1] < k /\ k < p[2])
    /\ q \in {"ok", "balanced", "left", "right"}
    /\ Height(u) = Height(t) + IF q = "balanced" THEN 0 ELSE 1
    /\ q = "ok" => t = Nil
    /\ q = "left" => u.bf = 1
    /\ q = "right" => u.bf = -1

Result(u, q) == [tree |-> u, ret |-> q, sound |-> TRUE]

LEMMA ResultExcept ==
    ASSUME NEW u, NEW q, NEW s
    PROVE  [Result(u, q) EXCEPT !.tree = s] = Result(s, q)
<1>1. ASSUME NEW z
      PROVE  [[tree |-> u, ret |-> q, sound |-> z] EXCEPT !.tree = s]
                 = [tree |-> s, ret |-> q, sound |-> z]
  OBVIOUS
<1> QED
  BY <1>1, Zenon DEF Result

(* A leaf is what becomes of Nil.                                          *)
LEMMA GrownFromNil ==
    ASSUME NEW k \in Key
    PROVE  Grown(Nil, k, Leaf(k), "ok")
<1>1. Leaf(k) = Made(k, Nil, Nil, 0, 0)
  BY DEF Leaf, Made
<1>2. Fits(k, Nil, Nil, 0, 0)
  BY GoodNil, PartsOfNil, LevelsType DEF Fits
<1> QED
  BY <1>1, <1>2, Make, PartsOfNil DEF Grown, Link, HeightAt

(* The tree behind an insertion that has made its right side too high.     *)
TurnedLeft(k, a, u, q, y) ==
    LeftRotate(Made(k, a, IF q = "left" THEN RightRotate(u) ELSE u, 0, y - 1))

(* What the function makes of the node above the subtree.                  *)
LEMMA InRightIs ==
    ASSUME NEW t, NEW k, NEW a, NEW b, NEW x, NEW y \in Int, t = Made(k, a, b, x, y), NEW u, NEW q,
           q \in {"ok", "balanced", "left", "right"}
    PROVE  LET e == InRight(t, Result(u, q))
           IN  /\ q = "balanced" => e = Result(Made(k, a, u, 0, y), "balanced")
               /\ q # "balanced" /\ y # -1 =>
                     e = Result(Made(k, a, u, 0, y - 1), IF y = 1 THEN "balanced" ELSE "right")
               /\ q # "balanced" /\ y = -1 /\ TurnedLeft(k, a, u, q, y).bf = 0 =>
                     e = Result(TurnedLeft(k, a, u, q, y), "balanced")
<1> DEFINE e == Result(u, q)
           s == [Unthread(t) EXCEPT !.r = e.tree]
           m == [s EXCEPT !.bf = @ - 1]
           v == IF e.ret = "left" THEN [m EXCEPT !.r = RightRotate(@)] ELSE m
           w == IF m.bf = -2 THEN LeftRotate(v) ELSE m
           other == IF q = "left" THEN RightRotate(u) ELSE u
<1>1. e.tree = u /\ e.ret = q /\ e.sound = TRUE
  BY DEF Result
<1>2. s = Made(k, a, u, 0, y)
  <2>1. Unthread(t) = Made(k, a, b, 0, y)
    BY DEF Unthread, Made
  <2>2. [Made(k, a, b, 0, y) EXCEPT !.r = u] = Made(k, a, u, 0, y)
    BY DEF Made
  <2> QED
    BY <1>1, <2>1, <2>2, Zenon
<1> HIDE DEF s
<1>3. m = Made(k, a, u, 0, y - 1)
  <2>1. m = [Made(k, a, u, 0, y) EXCEPT !.bf = y - 1]
    <3>1. s.bf = y
      BY <1>2, NodeFields
    <3> QED
      BY <1>2, <3>1
  <2>2. [Made(k, a, u, 0, y) EXCEPT !.bf = y - 1] = Made(k, a, u, 0, y - 1)
    BY DEF Made
  <2> QED
    BY <2>1, <2>2
<1> HIDE DEF m
<1>4. m.bf = y - 1 /\ m.r = u
  BY <1>3, NodeFields
<1>5. v = Made(k, a, other, 0, y - 1)
  <2>1. CASE q = "left"
    <3>1. v = [m EXCEPT !.r = RightRotate(u)]
      BY <1>1, <1>4, <2>1, Zenon
    <3>2. [Made(k, a, u, 0, y - 1) EXCEPT !.r = RightRotate(u)] = Made(k, a, RightRotate(u), 0, y - 1)
      BY DEF Made
    <3> QED
      BY <1>3, <2>1, <3>1, <3>2
  <2>2. CASE q # "left"
    BY <1>1, <1>3, <2>2
  <2> QED
    BY <2>1, <2>2
<1> HIDE DEF v, other, e
<1>6. InRight(t, e) = IF e.ret \in {"exist", "balanced"}
                      THEN [e EXCEPT !.tree = s]
                      ELSE [tree |-> w,
                            ret |-> IF w.bf = 0 THEN "balanced" ELSE "right",
                            sound |-> e.sound /\ (m.bf = -2 => w.bf = 0)]
  BY Zenon DEF InRight, s, m, v
<1>7. CASE q = "balanced"
  <2>1. InRight(t, e) = [e EXCEPT !.tree = s]
    BY <1>1, <1>6, <1>7
  <2>2. [e EXCEPT !.tree = s] = Result(s, q)
    BY ResultExcept DEF e
  <2> QED
    BY <1>2, <1>7, <2>1, <2>2 DEF e
<1>8. CASE q # "balanced" /\ y # -1
  <2>1. w = m /\ m.bf # -2
    BY <1>4, <1>8
  <2>2. InRight(t, e) = Result(m, IF y = 1 THEN "balanced" ELSE "right")
    <3>1. e.ret \notin {"exist", "balanced"}
      BY <1>1, <1>8
    <3>2. (m.bf = 0) <=> (y = 1)
      BY <1>4
    <3> QED
      BY <1>1, <1>6, <2>1, <3>1, <3>2 DEF Result
  <2> QED
    BY <1>3, <1>8, <2>2 DEF e
<1>9. CASE q # "balanced" /\ y = -1 /\ TurnedLeft(k, a, u, q, y).bf = 0
  <2>1. w = TurnedLeft(k, a, u, q, y) /\ w.bf = 0
    BY <1>4, <1>5, <1>9 DEF other, TurnedLeft
  <2>2. e.ret \notin {"exist", "balanced"}
    BY <1>1, <1>9
  <2> HIDE DEF w
  <2>3. InRight(t, e) = Result(w, "balanced")
    BY <1>1, <1>6, <2>1, <2>2 DEF Result
  <2> QED
    BY <1>9, <2>1, <2>3 DEF e
<1> QED
  BY <1>7, <1>8, <1>9 DEF e

(* When a subtree has grown as it should, so does the tree above it.       *)
LEMMA InsertRight ==
    ASSUME NEW t, Good(t), t # Nil, Height(t) < Levels, NEW k \in Key, t.key < k,
           NEW u, NEW q, Grown(t.r, k, u, q)
    PROVE  \E w, z : InRight(t, Result(u, q)) = Result(w, z) /\ Grown(t, k, w, z)
<1> DEFINE a == t.l
           y == t.bf
           o == t.key
<1>1. /\ t = Made(o, a, t.r, t.thr, y) /\ y \in -1 .. 1
      /\ y \in Int /\ o \in Key /\ o \in Nat /\ k \in Nat
      /\ Good(a) /\ Good(t.r) /\ Height(t) \in Nat
      /\ y = Height(a) - Height(t.r) /\ Height(a) \in Nat /\ Height(t.r) \in Nat
      /\ Height(t) = HeightAt(Height(a), Height(t.r))
      /\ Keys(t) = {o} \cup Keys(a) \cup Keys(t.r)
      /\ Links(a) \cup Links(t.r) \subseteq Links(t)
      /\ \A d \in Keys(a) : d < o
      /\ \A d \in Keys(t.r) : o < d
      /\ \A p \in Links(a) : p[2] <= o /\ p[2] \in Nat
      /\ o < k
  BY Apart, Apartness
<1>2. /\ Good(u) /\ u # Nil /\ Keys(u) = Keys(t.r) \cup {k} /\ Links(u) \subseteq Links(t.r)
      /\ q \in {"ok", "balanced", "left", "right"}
      /\ Height(u) = Height(t.r) + IF q = "balanced" THEN 0 ELSE 1
      /\ q = "ok" => t.r = Nil
      /\ q = "left" => u.bf = 1
      /\ q = "right" => u.bf = -1
      /\ \A p \in Links(u) : ~ (p[1] < k /\ k < p[2])
      /\ \A d \in Keys(u) : o < d
  BY <1>1 DEF Grown
<1>3. \A p \in Links(a) \cup Links(u) : ~ (p[1] < k /\ k < p[2])
  BY <1>1, <1>2
<1> HIDE DEF a, y, o
<1>4. CASE q = "balanced"
  <2> DEFINE w == Made(o, a, u, 0, y)
  <2>1. InRight(t, Result(u, q)) = Result(w, "balanced")
    BY <1>1, <1>2, <1>4, InRightIs
  <2>2. Fits(o, a, u, 0, y)
    BY <1>1, <1>2, <1>4, LevelsType DEF Fits, HeightAt
  <2>3. /\ Good(w) /\ w # Nil /\ Keys(w) = {o} \cup Keys(a) \cup Keys(u)
        /\ Links(w) = Links(a) \cup Links(u) /\ Height(w) = HeightAt(Height(a), Height(u))
    BY <2>2, Make DEF Link
  <2> HIDE DEF w
  <2>4. Height(w) = Height(t)
    BY <1>1, <1>2, <1>4, <2>3 DEF HeightAt
  <2>5. Grown(t, k, w, "balanced")
    BY <1>1, <1>2, <1>3, <1>4, <2>3, <2>4 DEF Grown
  <2> QED
    BY <2>1, <2>5
<1>5. CASE q # "balanced" /\ y # -1
  <2> DEFINE w == Made(o, a, u, 0, y - 1)
             z == IF y = 1 THEN "balanced" ELSE "right"
  <2>1. InRight(t, Result(u, q)) = Result(w, z)
    BY <1>1, <1>2, <1>5, InRightIs
  <2>2. Fits(o, a, u, 0, y - 1)
    <3>1. /\ Height(a) < Levels /\ Height(u) < Levels
          /\ y - 1 = Height(a) - Height(u) /\ y - 1 \in -1 .. 1
      BY <1>1, <1>2, <1>5, LevelsType DEF HeightAt
    <3> QED
      BY <1>1, <1>2, <3>1 DEF Fits
  <2>3. /\ Good(w) /\ w # Nil /\ Keys(w) = {o} \cup Keys(a) \cup Keys(u)
        /\ Links(w) = Links(a) \cup Links(u) /\ Height(w) = HeightAt(Height(a), Height(u))
    BY <2>2, Make DEF Link
  <2>4. w.bf = y - 1
    BY NodeFields
  <2> HIDE DEF w
  <2>5. /\ Height(w) = Height(t) + IF z = "balanced" THEN 0 ELSE 1
        /\ z \in {"balanced", "right"} /\ (z = "right" => w.bf = -1)
    BY <1>1, <1>2, <1>5, <2>3, <2>4 DEF HeightAt
  <2> HIDE DEF z
  <2>6. Grown(t, k, w, z)
    BY <1>1, <1>2, <1>3, <2>3, <2>5 DEF Grown
  <2> QED
    BY <2>1, <2>6
<1>6. CASE q # "balanced" /\ y = -1
  <2> DEFINE other == IF q = "left" THEN RightRotate(u) ELSE u
             w == LeftRotate(Made(o, a, other, 0, -2))
  <2>1. /\ Height(u) = Height(a) + 2 /\ Height(u) < Levels /\ Height(u) = Height(t)
        /\ q \in {"left", "right"}
    <3>1. Height(t.r) = Height(a) + 1 /\ t.r # Nil
      BY <1>1, <1>6, Apartness
    <3> QED
      BY <1>1, <1>2, <1>6, <3>1 DEF HeightAt
  <2>2. Level(w, {o} \cup Keys(a) \cup Keys(u), Links(a) \cup Links(u), Height(u))
    <3>1. CASE q = "left"
      BY <1>1, <1>2, <2>1, <3>1, LeftDouble
    <3>2. CASE q = "right"
      BY <1>1, <1>2, <2>1, <3>2, LeftSingle
    <3> QED
      BY <2>1, <3>1, <3>2
  <2>3. InRight(t, Result(u, q)) = Result(w, "balanced")
    <3>1. w.bf = 0
      BY <2>2 DEF Level
    <3>2. w = TurnedLeft(o, a, u, q, y)
      BY <1>6 DEF TurnedLeft
    <3>3. /\ t = Made(o, a, t.r, t.thr, y) /\ y \in Int /\ y = -1 /\ q # "balanced"
          /\ q \in {"ok", "balanced", "left", "right"}
      BY <1>1, <1>2, <1>6
    <3> HIDE DEF w
    <3> QED
      BY <3>1, <3>2, <3>3, InRightIs
  <2> HIDE DEF w
  <2>4. Grown(t, k, w, "balanced")
    BY <1>1, <1>2, <1>3, <2>1, <2>2 DEF Grown, Level
  <2> QED
    BY <2>3, <2>4
<1> QED
  BY <1>4, <1>5, <1>6

-----------------------------------------------------------------------------
(* The same on the left side.                                              *)
TurnedRight(k, b, x, u, q, y) ==
    RightRotate(Made(k, IF q = "right" THEN LeftRotate(u) ELSE u, b, x, y + 1))

LEMMA InLeftIs ==
    ASSUME NEW t, NEW k, NEW a, NEW b, NEW x, NEW y \in Int, t = Made(k, a, b, x, y), NEW u, NEW q,
           q \in {"ok", "balanced", "left", "right"}
    PROVE  LET e == InLeft(t, Result(u, q))
           IN  /\ q = "balanced" => e = Result(Made(k, u, b, x, y), "balanced")
               /\ q # "balanced" /\ y # 1 =>
                     e = Result(Made(k, u, b, x, y + 1), IF y = -1 THEN "balanced" ELSE "left")
               /\ q # "balanced" /\ y = 1 /\ TurnedRight(k, b, x, u, q, y).bf = 0 =>
                     e = Result(TurnedRight(k, b, x, u, q, y), "balanced")
<1> DEFINE e == Result(u, q)
           s == [t EXCEPT !.l = e.tree]
           m == [s EXCEPT !.bf = @ + 1]
           v == IF e.ret = "right" THEN [m EXCEPT !.l = LeftRotate(@)] ELSE m
           w == IF m.bf = 2 THEN RightRotate(v) ELSE m
           other == IF q = "right" THEN LeftRotate(u) ELSE u
<1>1. e.tree = u /\ e.ret = q /\ e.sound = TRUE
  BY DEF Result
<1>2. s = Made(k, u, b, x, y)
  <2>1. [Made(k, a, b, x, y) EXCEPT !.l = u] = Made(k, u, b, x, y)
    BY DEF Made
  <2> QED
    BY <1>1, <2>1, Zenon
<1> HIDE DEF s
<1>3. m = Made(k, u, b, x, y + 1)
  <2>1. m = [Made(k, u, b, x, y) EXCEPT !.bf = y + 1]
    <3>1. s.bf = y
      BY <1>2, NodeFields
    <3> QED
      BY <1>2, <3>1
  <2>2. [Made(k, u, b, x, y) EXCEPT !.bf = y + 1] = Made(k, u, b, x, y + 1)
    BY DEF Made
  <2> QED
    BY <2>1, <2>2
<1> HIDE DEF m
<1>4. m.bf = y + 1 /\ m.l = u
  BY <1>3, NodeFields
<1>5. v = Made(k, other, b, x, y + 1)
  <2>1. CASE q = "right"
    <3>1. v = [m EXCEPT !.l = LeftRotate(u)]
      BY <1>1, <1>4, <2>1, Zenon
    <3>2. [Made(k, u, b, x, y + 1) EXCEPT !.l = LeftRotate(u)] = Made(k, LeftRotate(u), b, x, y + 1)
      BY DEF Made
    <3> QED
      BY <1>3, <2>1, <3>1, <3>2
  <2>2. CASE q # "right"
    BY <1>1, <1>3, <2>2
  <2> QED
    BY <2>1, <2>2
<1> HIDE DEF v, other, e
<1>6. InLeft(t, e) = IF e.ret \in {"exist", "balanced"}
                     THEN [e EXCEPT !.tree = s]
                     ELSE [tree |-> w,
                           ret |-> IF w.bf = 0 THEN "balanced" ELSE "left",
                           sound |-> e.sound /\ (m.bf = 2 => w.bf = 0)]
  BY Zenon DEF InLeft, s, m, v
<1>7. CASE q = "balanced"
  <2>1. InLeft(t, e) = [e EXCEPT !.tree = s]
    BY <1>1, <1>6, <1>7
  <2>2. [e EXCEPT !.tree = s] = Result(s, q)
    BY ResultExcept DEF e
  <2> QED
    BY <1>2, <1>7, <2>1, <2>2 DEF e
<1>8. CASE q # "balanced" /\ y # 1
  <2>1. w = m /\ m.bf # 2
    BY <1>4, <1>8
  <2>2. InLeft(t, e) = Result(m, IF y = -1 THEN "balanced" ELSE "left")
    <3>1. e.ret \notin {"exist", "balanced"}
      BY <1>1, <1>8
    <3>2. (m.bf = 0) <=> (y = -1)
      BY <1>4
    <3> QED
      BY <1>1, <1>6, <2>1, <3>1, <3>2 DEF Result
  <2> QED
    BY <1>3, <1>8, <2>2 DEF e
<1>9. CASE q # "balanced" /\ y = 1 /\ TurnedRight(k, b, x, u, q, y).bf = 0
  <2>1. w = TurnedRight(k, b, x, u, q, y) /\ w.bf = 0
    BY <1>4, <1>5, <1>9 DEF other, TurnedRight
  <2>2. e.ret \notin {"exist", "balanced"}
    BY <1>1, <1>9
  <2> HIDE DEF w
  <2>3. InLeft(t, e) = Result(w, "balanced")
    BY <1>1, <1>6, <2>1, <2>2 DEF Result
  <2> QED
    BY <1>9, <2>1, <2>3 DEF e
<1> QED
  BY <1>7, <1>8, <1>9 DEF e

LEMMA InsertLeft ==
    ASSUME NEW t, Good(t), t # Nil, Height(t) < Levels, NEW k \in Key, k < t.key,
           NEW u, NEW q, Grown(t.l, k, u, q)
    PROVE  \E w, z : InLeft(t, Result(u, q)) = Result(w, z) /\ Grown(t, k, w, z)
<1> DEFINE b == t.r
           x == t.thr
           y == t.bf
           o == t.key
<1>1. /\ t = Made(o, t.l, b, x, y) /\ y \in -1 .. 1
      /\ y \in Int /\ o \in Key /\ o \in Nat /\ k \in Nat
      /\ Good(b) /\ Good(t.l) /\ Height(t) \in Nat /\ x \in Key \cup {0}
      /\ y = Height(t.l) - Height(b) /\ Height(b) \in Nat /\ Height(t.l) \in Nat
      /\ Height(t) = HeightAt(Height(t.l), Height(b))
      /\ Keys(t) = {o} \cup Keys(b) \cup Keys(t.l)
      /\ Links(t) = Link(o, x) \cup Links(t.l) \cup Links(b)
      /\ \A d \in Keys(b) : o < d /\ d \in Nat
      /\ \A d \in Keys(t.l) : d < o
      /\ \A p \in Links(b) : p[1] \in Keys(b)
      /\ \A p \in Links(t.l) : p[2] <= o
      /\ x # 0 => b = Nil /\ o < x
      /\ k < o
  BY Apart, Apartness
<1>2. /\ Good(u) /\ u # Nil /\ Keys(u) = Keys(t.l) \cup {k} /\ Links(u) \subseteq Links(t.l)
      /\ q \in {"ok", "balanced", "left", "right"}
      /\ Height(u) = Height(t.l) + IF q = "balanced" THEN 0 ELSE 1
      /\ q = "ok" => t.l = Nil
      /\ q = "left" => u.bf = 1
      /\ q = "right" => u.bf = -1
      /\ \A p \in Links(u) : ~ (p[1] < k /\ k < p[2])
      /\ \A d \in Keys(u) : d < o
      /\ \A p \in Links(u) : p[2] <= o
  BY <1>1 DEF Grown
<1>3. \A p \in Link(o, x) \cup Links(b) \cup Links(u) : ~ (p[1] < k /\ k < p[2])
  <2>1. \A p \in Links(b) \cup Link(o, x) : o <= p[1] /\ p[1] \in Nat
    BY <1>1 DEF Link
  <2> QED
    BY <1>1, <1>2, <2>1
<1> HIDE DEF b, x, y, o
<1>4. CASE q = "balanced"
  <2> DEFINE w == Made(o, u, b, x, y)
  <2>1. InLeft(t, Result(u, q)) = Result(w, "balanced")
    BY <1>1, <1>2, <1>4, InLeftIs
  <2>2. Fits(o, u, b, x, y)
    BY <1>1, <1>2, <1>4, LevelsType DEF Fits, HeightAt
  <2>3. /\ Good(w) /\ w # Nil /\ Keys(w) = {o} \cup Keys(u) \cup Keys(b)
        /\ Links(w) = Link(o, x) \cup Links(u) \cup Links(b)
        /\ Height(w) = HeightAt(Height(u), Height(b))
    BY <2>2, Make
  <2> HIDE DEF w
  <2>4. Height(w) = Height(t)
    BY <1>1, <1>2, <1>4, <2>3 DEF HeightAt
  <2>5. Grown(t, k, w, "balanced")
    BY <1>1, <1>2, <1>3, <1>4, <2>3, <2>4 DEF Grown
  <2> QED
    BY <2>1, <2>5
<1>5. CASE q # "balanced" /\ y # 1
  <2> DEFINE w == Made(o, u, b, x, y + 1)
             z == IF y = -1 THEN "balanced" ELSE "left"
  <2>1. InLeft(t, Result(u, q)) = Result(w, z)
    BY <1>1, <1>2, <1>5, InLeftIs
  <2>2. Fits(o, u, b, x, y + 1)
    <3>1. /\ Height(b) < Levels /\ Height(u) < Levels
          /\ y + 1 = Height(u) - Height(b) /\ y + 1 \in -1 .. 1
      BY <1>1, <1>2, <1>5, LevelsType DEF HeightAt
    <3> QED
      BY <1>1, <1>2, <3>1 DEF Fits
  <2>3. /\ Good(w) /\ w # Nil /\ Keys(w) = {o} \cup Keys(u) \cup Keys(b)
        /\ Links(w) = Link(o, x) \cup Links(u) \cup Links(b)
        /\ Height(w) = HeightAt(Height(u), Height(b))
    BY <2>2, Make
  <2>4. w.bf = y + 1
    BY NodeFields
  <2> HIDE DEF w
  <2>5. /\ Height(w) = Height(t) + IF z = "balanced" THEN 0 ELSE 1
        /\ z \in {"balanced", "left"} /\ (z = "left" => w.bf = 1)
    BY <1>1, <1>2, <1>5, <2>3, <2>4 DEF HeightAt
  <2> HIDE DEF z
  <2>6. Grown(t, k, w, z)
    BY <1>1, <1>2, <1>3, <2>3, <2>5 DEF Grown
  <2> QED
    BY <2>1, <2>6
<1>6. CASE q # "balanced" /\ y = 1
  <2> DEFINE w == TurnedRight(o, b, x, u, q, y)
  <2>1. /\ Height(u) = Height(b) + 2 /\ Height(u) < Levels /\ Height(u) = Height(t)
        /\ q \in {"left", "right"}
    <3>1. Height(t.l) = Height(b) + 1 /\ t.l # Nil
      BY <1>1, <1>6, Apartness
    <3> QED
      BY <1>1, <1>2, <1>6, <3>1 DEF HeightAt
  <2>2. Level(w, {o} \cup Keys(u) \cup Keys(b), Link(o, x) \cup Links(u) \cup Links(b), Height(u))
    <3>1. CASE q = "right"
      <4>1. w = RightRotate(Made(o, LeftRotate(u), b, x, 2))
        BY <1>6, <3>1 DEF TurnedRight
      <4> HIDE DEF w
      <4> QED
        BY <1>1, <1>2, <2>1, <3>1, <4>1, RightDouble
    <3>2. CASE q = "left"
      <4>1. w = RightRotate(Made(o, u, b, x, 2))
        BY <1>6, <3>2 DEF TurnedRight
      <4> HIDE DEF w
      <4> QED
        BY <1>1, <1>2, <2>1, <3>2, <4>1, RightSingle
    <3> QED
      BY <2>1, <3>1, <3>2
  <2>3. InLeft(t, Result(u, q)) = Result(w, "balanced")
    <3>1. w.bf = 0
      BY <2>2 DEF Level
    <3>2. /\ t = Made(o, t.l, b, x, y) /\ y \in Int /\ y = 1 /\ q # "balanced"
          /\ q \in {"ok", "balanced", "left", "right"}
      BY <1>1, <1>2, <1>6
    <3> QED
      BY <3>1, <3>2, InLeftIs
  <2> HIDE DEF w
  <2>4. Grown(t, k, w, "balanced")
    BY <1>1, <1>2, <1>3, <2>1, <2>2 DEF Grown, Level
  <2> QED
    BY <2>3, <2>4
<1> QED
  BY <1>4, <1>5, <1>6

(* btree_internal_insert adds a new header and keeps the tree in order.    *)
LEMMA InsertNew ==
    ASSUME NEW k \in Key
    PROVE  \A t \in Tree : Good(t) /\ Height(t) < Levels /\ k \notin Keys(t) =>
               \E w, z : Insert(t, k) = Result(w, z) /\ Grown(t, k, w, z)
<1> DEFINE S == { t \in Tree : Good(t) /\ Height(t) < Levels /\ k \notin Keys(t) =>
                     \E w, z : Insert(t, k) = Result(w, z) /\ Grown(t, k, w, z) }
<1>1. Nil \in S
  <2>1. Insert(Nil, k) = Result(Leaf(k), "ok")
    BY InsertIs DEF InsertAtNil, Result
  <2> QED
    BY <2>1, GrownFromNil, Subtrees
<1>2. ASSUME NEW t \in Tree \ {Nil}, t.l \in S, t.r \in S PROVE t \in S
  <2> SUFFICES ASSUME Good(t), Height(t) < Levels, k \notin Keys(t)
               PROVE  \E w, z : Insert(t, k) = Result(w, z) /\ Grown(t, k, w, z)
    OBVIOUS
  <2>1. /\ Good(t.l) /\ Height(t.l) < Levels /\ k \notin Keys(t.l)
        /\ Good(t.r) /\ Height(t.r) < Levels /\ k \notin Keys(t.r)
        /\ k # t.key /\ k \in Nat /\ t.key \in Nat
    BY Apart, Apartness, LevelsType
  <2>2. Insert(t, k) = IF k > t.key THEN InRight(t, Insert(t.r, k)) ELSE InLeft(t, Insert(t.l, k))
    BY <2>1, InsertIs DEF InsertedAt
  <2>3. CASE k > t.key
    <3>1. PICK u, q : Insert(t.r, k) = Result(u, q) /\ Grown(t.r, k, u, q)
      BY <1>2, <2>1
    <3>2. \E w, z : InRight(t, Result(u, q)) = Result(w, z) /\ Grown(t, k, w, z)
      BY <2>1, <2>3, <3>1, InsertRight
    <3> QED
      BY <2>2, <2>3, <3>1, <3>2
  <2>4. CASE k < t.key
    <3>1. PICK u, q : Insert(t.l, k) = Result(u, q) /\ Grown(t.l, k, u, q)
      BY <1>2, <2>1
    <3>2. \E w, z : InLeft(t, Result(u, q)) = Result(w, z) /\ Grown(t, k, w, z)
      BY <2>1, <2>4, <3>1, InsertLeft
    <3>3. ~ (k > t.key)
      BY <2>1, <2>4
    <3> QED
      BY <2>2, <3>1, <3>2, <3>3
  <2> QED
    BY <2>1, <2>3, <2>4
<1>3. \A t \in Tree : t \in S
  <2> HIDE DEF S
  <2> QED
    BY <1>1, <1>2, TreeInduction
<1> QED
  BY <1>3

(* It leaves a tree alone that has the header.                             *)
LEMMA InsertOld ==
    ASSUME NEW k \in Key
    PROVE  \A t \in Tree : Good(t) /\ k \in Keys(t) => Insert(t, k) = Result(t, "exist")
<1> DEFINE S == { t \in Tree : Good(t) /\ k \in Keys(t) => Insert(t, k) = Result(t, "exist") }
<1>1. Nil \in S
  BY PartsOfNil
<1>2. ASSUME NEW t \in Tree \ {Nil}, t.l \in S, t.r \in S PROVE t \in S
  <2> SUFFICES ASSUME Good(t), k \in Keys(t) PROVE Insert(t, k) = Result(t, "exist")
    OBVIOUS
  <2>1. /\ Good(t.l) /\ Good(t.r) /\ k \in Nat /\ t.key \in Nat
        /\ Keys(t) = {t.key} \cup Keys(t.l) \cup Keys(t.r)
        /\ (\A x \in Keys(t.l) : x < t.key) /\ (\A x \in Keys(t.r) : t.key < x)
        /\ t.thr # 0 => t.r = Nil
        /\ t = Made(t.key, t.l, t.r, t.thr, t.bf)
    BY Apart, Apartness
  <2>2. Insert(t, k) = IF k = t.key THEN Result(t, "exist")
                       ELSE IF k > t.key THEN InRight(t, Insert(t.r, k)) ELSE InLeft(t, Insert(t.l, k))
    BY InsertIs DEF InsertedAt, Result
  <2>3. CASE k > t.key
    <3>1. k \in Keys(t.r)
      BY <2>1, <2>3
    <3>2. Insert(t.r, k) = Result(t.r, "exist")
      BY <1>2, <2>1, <3>1
    <3>3. t.thr = 0
      BY <2>1, <3>1, PartsOfNil
    <3>4. [Unthread(t) EXCEPT !.r = t.r] = t
      <4>1. Unthread(t) = t
        <5>1. [Made(t.key, t.l, t.r, t.thr, t.bf) EXCEPT !.thr = 0] = Made(t.key, t.l, t.r, 0, t.bf)
          BY DEF Made
        <5> QED
          BY <2>1, <3>3, <5>1 DEF Unthread
      <4>2. [Made(t.key, t.l, t.r, t.thr, t.bf) EXCEPT !.r = t.r] = Made(t.key, t.l, t.r, t.thr, t.bf)
        BY DEF Made
      <4> QED
        BY <2>1, <4>1, <4>2
    <3>5. InRight(t, Result(t.r, "exist")) = [Result(t.r, "exist") EXCEPT !.tree = t]
      BY <3>4 DEF InRight, Result
    <3> QED
      BY <2>1, <2>2, <2>3, <3>2, <3>5, ResultExcept
  <2>4. CASE k < t.key
    <3>1. k \in Keys(t.l)
      BY <2>1, <2>4
    <3>2. Insert(t.l, k) = Result(t.l, "exist")
      BY <1>2, <2>1, <3>1
    <3>3. [t EXCEPT !.l = t.l] = t
      <4>1. [Made(t.key, t.l, t.r, t.thr, t.bf) EXCEPT !.l = t.l] = Made(t.key, t.l, t.r, t.thr, t.bf)
        BY DEF Made
      <4> QED
        BY <2>1, <4>1
    <3>4. InLeft(t, Result(t.l, "exist")) = [Result(t.l, "exist") EXCEPT !.tree = t]
      BY <3>3 DEF InLeft, Result
    <3> QED
      BY <2>1, <2>2, <2>4, <3>2, <3>4, ResultExcept
  <2> QED
    BY <2>1, <2>2, <2>3, <2>4
<1>3. \A t \in Tree : t \in S
  <2> HIDE DEF S
  <2> QED
    BY <1>1, <1>2, TreeInduction
<1> QED
  BY <1>3

-----------------------------------------------------------------------------
(* A tree has at least as many headers as levels, so there is room for a   *)
(* level more as long as a header is missing.                              *)
LEMMA HeightBound ==
    \A t \in Tree : Good(t) => IsFiniteSet(Keys(t)) /\ Height(t) <= Cardinality(Keys(t))
<1> DEFINE S == { t \in Tree : Good(t) => Height(t) <= Cardinality(Keys(t)) }
<1>f. \A t \in Tree : IsFiniteSet(Keys(t)) /\ Cardinality(Keys(t)) \in Nat
  <2> TAKE t \in Tree
  <2>1. Keys(t) \in SUBSET Key
    BY NodesAreTrees
  <2> QED
    BY <2>1, HeaderTreeAssumption, FS_Subset, FS_CardinalityType
<1>1. Nil \in S
  BY PartsOfNil, FS_EmptySet
<1>2. ASSUME NEW t \in Tree \ {Nil}, t.l \in S, t.r \in S PROVE t \in S
  <2> SUFFICES ASSUME Good(t) PROVE Height(t) <= Cardinality(Keys(t))
    OBVIOUS
  <2>1. /\ Good(t.l) /\ Good(t.r) /\ t.l \in Tree /\ t.r \in Tree
        /\ Height(t) = HeightAt(Height(t.l), Height(t.r))
        /\ Height(t.l) \in Nat /\ Height(t.r) \in Nat
        /\ Keys(t) = {t.key} \cup Keys(t.l) \cup Keys(t.r)
        /\ t.key \notin Keys(t.l) /\ t.key \notin Keys(t.r)
    <3>1. t.key \in Nat /\ Good(t.l) /\ Good(t.r)
      BY Apart, HeaderTreeAssumption
    <3>2. /\ t.key \notin Keys(t.l) /\ t.key \notin Keys(t.r)
      <4>1. (\A x \in Keys(t.l) : x < t.key) /\ (\A x \in Keys(t.r) : t.key < x)
        BY Apart
      <4>2. ~ (t.key < t.key)
        BY <3>1
      <4> QED
        BY <4>1, <4>2
    <3> QED
      BY <3>1, <3>2, Apart, Apartness, Subtrees
  <2>2. ASSUME NEW s \in {t.l, t.r} PROVE Height(s) + 1 <= Cardinality(Keys(t))
    <3>1. Height(s) <= Cardinality(Keys(s)) /\ Height(s) \in Nat /\ s \in Tree
      BY <1>2, <2>1
    <3>2. Cardinality(Keys(s) \cup {t.key}) = Cardinality(Keys(s)) + 1
      BY <1>f, <2>1, <3>1, FS_AddElement
    <3>3. Cardinality(Keys(s) \cup {t.key}) <= Cardinality(Keys(t))
      <4>1. Keys(s) \cup {t.key} \in SUBSET Keys(t)
        BY <2>1
      <4> QED
        BY <1>f, <4>1, FS_Subset
    <3> QED
      BY <1>f, <3>1, <3>2, <3>3
  <2>3. Height(t.l) + 1 <= Cardinality(Keys(t)) /\ Height(t.r) + 1 <= Cardinality(Keys(t))
    BY <2>2
  <2> QED
    BY <1>f, <2>1, <2>3 DEF HeightAt
<1>3. \A t \in Tree : t \in S
  <2> HIDE DEF S
  <2> QED
    BY <1>1, <1>2, TreeInduction
<1> QED
  BY <1>3, <1>f

(* A tree that lacks a key is not as high as trees may be.                 *)
LEMMA Room ==
    ASSUME NEW t, Good(t), NEW k \in Key, k \notin Keys(t)
    PROVE  Height(t) < Levels
<1>1. t \in Tree /\ Keys(t) \in SUBSET Key
  BY NodesAreTrees DEF Good
<1>2. Height(t) <= Cardinality(Keys(t)) /\ Height(t) \in Nat /\ IsFiniteSet(Keys(t))
  BY <1>1, HeightBound, Apartness
<1>3. Cardinality(Keys(t)) <= Cardinality(Key) /\ Cardinality(Keys(t)) \in Nat
  BY <1>1, <1>2, HeaderTreeAssumption, FS_Subset, FS_CardinalityType
<1> QED
  BY <1>2, <1>3, LevelsType DEF Levels

-----------------------------------------------------------------------------
(* A sequence of rising numbers, and which.                                *)
Rises(s, K) ==
    /\ s \in Seq(Nat)
    /\ \A v, w \in 1 .. Len(s) : v < w => s[v] < s[w]
    /\ \A v \in 1 .. Len(s) : s[v] \in K
    /\ \A c \in K : \E v \in 1 .. Len(s) : s[v] = c

(* w is s, u and m one after the other.                                    *)
Joins(w, s, u, m) ==
    /\ w \in Seq(Nat) /\ Len(w) = Len(s) + Len(u) + Len(m)
    /\ \A v \in 1 .. Len(s) : w[v] = s[v]
    /\ \A v \in 1 .. Len(u) : w[Len(s) + v] = u[v]
    /\ \A v \in 1 .. Len(m) : w[Len(s) + Len(u) + v] = m[v]
    /\ \A v \in 1 .. Len(w) :
          \/ v \in 1 .. Len(s)
          \/ \E x \in 1 .. Len(u) : v = Len(s) + x
          \/ \E x \in 1 .. Len(m) : v = Len(s) + Len(u) + x

LEMMA ConcatJoins ==
    ASSUME NEW s \in Seq(Nat), NEW u \in Seq(Nat), NEW m \in Seq(Nat)
    PROVE  Joins(s \o u \o m, s, u, m)
<1> DEFINE p == s \o u
           w == p \o m
<1>0. Len(s) \in Nat /\ Len(u) \in Nat /\ Len(m) \in Nat
  BY LenProperties
<1>1. /\ p \in Seq(Nat) /\ Len(p) = Len(s) + Len(u)
      /\ \A v \in 1 .. Len(s) + Len(u) : p[v] = IF v <= Len(s) THEN s[v] ELSE u[v - Len(s)]
  BY ConcatProperties
<1> HIDE DEF p
<1>2. /\ w \in Seq(Nat) /\ Len(w) = Len(p) + Len(m)
      /\ \A v \in 1 .. Len(p) + Len(m) : w[v] = IF v <= Len(p) THEN p[v] ELSE m[v - Len(p)]
  <2>1. p \in Seq(Nat)
    BY <1>1
  <2> QED
    BY <2>1, ConcatProperties
<1> HIDE DEF w
<1>3. \A v \in 1 .. Len(s) : w[v] = s[v]
  BY <1>0, <1>1, <1>2, SMTT(30)
<1>4. ASSUME NEW v \in 1 .. Len(u) PROVE w[Len(s) + v] = u[v]
  <2>1. /\ Len(s) + v \in 1 .. Len(p) /\ Len(s) + v \in 1 .. Len(p) + Len(m)
        /\ ~ (Len(s) + v <= Len(s)) /\ Len(s) + v - Len(s) = v
    BY <1>0, <1>1
  <2>2. w[Len(s) + v] = p[Len(s) + v]
    BY <1>2, <2>1
  <2>3. p[Len(s) + v] = u[v]
    BY <1>1, <2>1, SMTT(30)
  <2> QED
    BY <2>2, <2>3
<1>5. ASSUME NEW v \in 1 .. Len(m) PROVE w[Len(s) + Len(u) + v] = m[v]
  <2>1. /\ Len(p) + v \in 1 .. Len(p) + Len(m)
        /\ ~ (Len(p) + v <= Len(p)) /\ Len(p) + v - Len(p) = v
    BY <1>0, <1>1
  <2> QED
    BY <1>0, <1>1, <1>2, <2>1, SMTT(30)
<1>6. ASSUME NEW v \in 1 .. Len(w)
      PROVE  \/ v \in 1 .. Len(s)
             \/ \E x \in 1 .. Len(u) : v = Len(s) + x
             \/ \E x \in 1 .. Len(m) : v = Len(s) + Len(u) + x
  <2>1. CASE v <= Len(s)
    BY <1>0, <2>1
  <2>2. CASE v > Len(s) /\ v <= Len(s) + Len(u)
    <3>1. v - Len(s) \in 1 .. Len(u) /\ v = Len(s) + (v - Len(s))
      BY <1>0, <2>2
    <3> QED
      BY <3>1
  <2>3. CASE v > Len(s) + Len(u)
    <3>1. v - (Len(s) + Len(u)) \in 1 .. Len(m) /\ v = Len(s) + Len(u) + (v - (Len(s) + Len(u)))
      BY <1>0, <1>1, <1>2, <2>3
    <3> QED
      BY <3>1
  <2> QED
    BY <1>0, <2>1, <2>2, <2>3
<1> QED
  <2>1. Joins(w, s, u, m)
    BY <1>0, <1>1, <1>2, <1>3, <1>4, <1>5, <1>6 DEF Joins
  <2> QED
    BY <2>1 DEF w, p

(* The tree in order: the threads hide no child.                           *)
LEMMA InOrderRises ==
    \A t \in Tree : Good(t) => Rises(InOrder(t), Keys(t))
<1> DEFINE S == { t \in Tree : Good(t) => Rises(InOrder(t), Keys(t)) }
<1>0. Rises(<<>>, {})
  BY DEF Rises
<1>1. Nil \in S
  BY <1>0, InOrderIs, PartsOfNil
<1>2. ASSUME NEW t \in Tree \ {Nil}, t.l \in S, t.r \in S PROVE t \in S
  <2> SUFFICES ASSUME Good(t) PROVE Rises(InOrder(t), Keys(t))
    OBVIOUS
  <2> DEFINE a == InOrder(t.l)
             b == IF t.thr # 0 THEN <<>> ELSE InOrder(t.r)
             k == <<t.key>>
             w == a \o k \o b
  <2>1. /\ Good(t.l) /\ Good(t.r)
        /\ Keys(t) = {t.key} \cup Keys(t.l) \cup Keys(t.r)
        /\ t.key \in Nat
        /\ \A c \in Keys(t.l) : c < t.key
        /\ \A c \in Keys(t.r) : t.key < c
        /\ t.thr # 0 => t.r = Nil
    BY Apart, Apartness
  <2>2. Rises(a, Keys(t.l)) /\ Rises(b, Keys(t.r))
    BY <1>0, <1>2, <2>1, PartsOfNil
  <2>a. /\ \A v \in 1 .. Len(a) : a[v] \in Nat /\ a[v] \in Keys(t.l)
        /\ \A v \in 1 .. Len(b) : b[v] \in Nat /\ b[v] \in Keys(t.r)
    <3> HIDE DEF a, b
    <3>1. a \in Seq(Nat) /\ b \in Seq(Nat)
      BY <2>2 DEF Rises
    <3>2. (\A v \in 1 .. Len(a) : a[v] \in Nat) /\ (\A v \in 1 .. Len(b) : b[v] \in Nat)
      BY <3>1, ElementOfSeq
    <3> QED
      BY <2>2, <3>2 DEF Rises
  <2>b. /\ \A v \in 1 .. Len(a) : a[v] \in Nat /\ a[v] \in Keys(t) /\ a[v] < t.key
        /\ \A v \in 1 .. Len(b) : b[v] \in Nat /\ b[v] \in Keys(t) /\ t.key < b[v]
    <3> HIDE DEF a, b
    <3> QED
      BY <2>1, <2>a
  <2>3. k \in Seq(Nat) /\ Len(k) = 1 /\ k[1] = t.key
    BY <2>1
  <2>4. InOrder(t) = w
    BY InOrderIs DEF InOrderAt
  <2> HIDE DEF a, b, k
  <2>5. /\ w \in Seq(Nat) /\ Len(w) = Len(a) + 1 + Len(b) /\ Len(a) \in Nat /\ Len(b) \in Nat
        /\ \A v \in 1 .. Len(a) : w[v] = a[v]
        /\ w[Len(a) + 1] = t.key
        /\ \A v \in 1 .. Len(b) : w[Len(a) + 1 + v] = b[v]
        /\ \A v \in 1 .. Len(w) :
              \/ v \in 1 .. Len(a)
              \/ v = Len(a) + 1
              \/ \E x \in 1 .. Len(b) : v = Len(a) + 1 + x
    <3>1. a \in Seq(Nat) /\ b \in Seq(Nat) /\ Len(a) \in Nat /\ Len(b) \in Nat
      BY <2>2, LenProperties DEF Rises
    <3>2. Joins(w, a, k, b)
      BY <2>3, <3>1, ConcatJoins
    <3> HIDE DEF w
    <3>3. 1 \in 1 .. Len(k) /\ \A x \in 1 .. Len(k) : x = 1
      BY <2>3
    <3> QED
      BY <2>3, <3>1, <3>2, <3>3 DEF Joins
  <2> HIDE DEF w
  <2>6. ASSUME NEW v \in 1 .. Len(w), NEW y \in 1 .. Len(w), v < y PROVE w[v] < w[y]
    <3>0. v \in Int /\ y \in Int
      OBVIOUS
    <3>1. CASE y \in 1 .. Len(a)
      <4>1. v \in 1 .. Len(a)
        BY <2>5, <2>6, <3>1
      <4> QED
        BY <2>2, <2>5, <2>6, <3>1, <4>1 DEF Rises
    <3>2. CASE y = Len(a) + 1
      <4>1. v \in 1 .. Len(a)
        BY <2>5, <2>6, <3>2
      <4> QED
        BY <2>1, <2>2, <2>5, <3>2, <4>1 DEF Rises
    <3>3. ASSUME NEW z \in 1 .. Len(b), y = Len(a) + 1 + z PROVE w[v] < w[y]
      <4>1. w[y] = b[z] /\ b[z] \in Nat /\ t.key < b[z]
        BY <2>b, <2>5, <3>3
      <4>2. CASE v \in 1 .. Len(a)
        <5>1. w[v] = a[v] /\ a[v] < t.key /\ a[v] \in Nat
          BY <2>b, <2>5, <4>2
        <5> QED
          BY <2>1, <4>1, <5>1
      <4>3. CASE v = Len(a) + 1
        BY <2>5, <4>1, <4>3
      <4>4. ASSUME NEW x \in 1 .. Len(b), v = Len(a) + 1 + x PROVE w[v] < w[y]
        <5>1. x < z
          BY <2>5, <2>6, <3>3, <4>4
        <5> QED
          BY <2>2, <2>5, <3>3, <4>4, <5>1 DEF Rises
      <4> QED
        BY <2>5, <4>2, <4>3, <4>4
    <3> QED
      BY <2>5, <3>1, <3>2, <3>3
  <2>7. \A v \in 1 .. Len(w) : w[v] \in Keys(t)
    BY <2>1, <2>b, <2>5
  <2>8. ASSUME NEW c \in Keys(t) PROVE \E v \in 1 .. Len(w) : w[v] = c
    <3>1. CASE c \in Keys(t.l)
      <4>1. PICK v \in 1 .. Len(a) : a[v] = c
        BY <2>2, <3>1 DEF Rises
      <4>2. v \in 1 .. Len(w) /\ w[v] = c
        BY <2>5, <4>1
      <4> QED
        BY <4>2
    <3>2. CASE c = t.key
      <4>1. Len(a) + 1 \in 1 .. Len(w)
        BY <2>5
      <4> QED
        BY <2>5, <3>2, <4>1
    <3>3. CASE c \in Keys(t.r)
      <4>1. PICK v \in 1 .. Len(b) : b[v] = c
        BY <2>2, <3>3 DEF Rises
      <4>2. Len(a) + 1 + v \in 1 .. Len(w) /\ w[Len(a) + 1 + v] = c
        BY <2>5, <4>1, SMTT(30)
      <4> QED
        BY <4>2
    <3> QED
      BY <2>1, <3>1, <3>2, <3>3
  <2>9. Rises(w, Keys(t))
    BY <2>5, <2>6, <2>7, <2>8 DEF Rises
  <2> QED
    BY <2>4, <2>9
<1>3. \A t \in Tree : t \in S
  <2> HIDE DEF S
  <2> QED
    BY <1>1, <1>2, TreeInduction
<1> QED
  BY <1>3

-----------------------------------------------------------------------------
(* A sequence that has each element of a set once.                         *)
Once(s, K) ==
    /\ s \in Seq(Nat)
    /\ \A v, w \in 1 .. Len(s) : s[v] = s[w] => v = w
    /\ \A v \in 1 .. Len(s) : s[v] \in K
    /\ \A c \in K : \E v \in 1 .. Len(s) : s[v] = c

(* Parts that share nothing make a whole that has each element once.       *)
LEMMA JoinsOnce ==
    ASSUME NEW w, NEW s, NEW u, NEW m, Joins(w, s, u, m), NEW A, NEW B, NEW C,
           Once(s, A), Once(u, B), Once(m, C), A \cap B = {}, A \cap C = {}, B \cap C = {}
    PROVE  Once(w, A \cup B \cup C)
<1>0. Len(s) \in Nat /\ Len(u) \in Nat /\ Len(m) \in Nat
  BY LenProperties DEF Once
<1>1. ASSUME NEW v \in 1 .. Len(w)
      PROVE  \/ v \in 1 .. Len(s) /\ w[v] = s[v] /\ w[v] \in A
             \/ \E x \in 1 .. Len(u) : v = Len(s) + x /\ w[v] = u[x] /\ w[v] \in B
             \/ \E x \in 1 .. Len(m) : v = Len(s) + Len(u) + x /\ w[v] = m[x] /\ w[v] \in C
  <2>1. CASE v \in 1 .. Len(s)
    BY <2>1 DEF Joins, Once
  <2>2. ASSUME NEW x \in 1 .. Len(u), v = Len(s) + x PROVE w[v] = u[x] /\ w[v] \in B
    BY <2>2 DEF Joins, Once
  <2>3. ASSUME NEW x \in 1 .. Len(m), v = Len(s) + Len(u) + x PROVE w[v] = m[x] /\ w[v] \in C
    BY <2>3 DEF Joins, Once
  <2>4. \/ v \in 1 .. Len(s)
        \/ \E x \in 1 .. Len(u) : v = Len(s) + x
        \/ \E x \in 1 .. Len(m) : v = Len(s) + Len(u) + x
    BY DEF Joins
  <2> QED
    BY <2>1, <2>2, <2>3, <2>4
<1>2. ASSUME NEW v \in 1 .. Len(w), NEW y \in 1 .. Len(w), w[v] = w[y] PROVE v = y
  <2>1. CASE w[v] \in A
    <3>1. v \in 1 .. Len(s) /\ w[v] = s[v] /\ y \in 1 .. Len(s) /\ w[y] = s[y]
      BY <1>1, <1>2, <2>1
    <3> QED
      <4>1. s[v] = s[y]
        BY <1>2, <3>1, Zenon
      <4>2. \A b, c \in 1 .. Len(s) : s[b] = s[c] => b = c
        BY Zenon DEF Once
      <4> QED
        BY <3>1, <4>1, <4>2, Zenon
  <2>2. CASE w[v] \in B
    <3>1. PICK x \in 1 .. Len(u) : v = Len(s) + x /\ w[v] = u[x]
      BY <1>1, <2>2
    <3>2. PICK z \in 1 .. Len(u) : y = Len(s) + z /\ w[y] = u[z]
      BY <1>1, <1>2, <2>2
    <3>3. x = z
      BY <1>2, <3>1, <3>2 DEF Once
    <3> QED
      BY <3>1, <3>2, <3>3
  <2>3. CASE w[v] \in C
    <3>1. PICK x \in 1 .. Len(m) : v = Len(s) + Len(u) + x /\ w[v] = m[x]
      BY <1>1, <2>3
    <3>2. PICK z \in 1 .. Len(m) : y = Len(s) + Len(u) + z /\ w[y] = m[z]
      BY <1>1, <1>2, <2>3
    <3>3. x = z
      BY <1>2, <3>1, <3>2 DEF Once
    <3> QED
      BY <3>1, <3>2, <3>3
  <2> QED
    BY <1>1, <2>1, <2>2, <2>3
<1>3. ASSUME NEW c \in A \cup B \cup C PROVE \E v \in 1 .. Len(w) : w[v] = c
  <2>0. Len(w) = Len(s) + Len(u) + Len(m)
    BY DEF Joins
  <2>1. CASE c \in A
    <3>1. PICK v \in 1 .. Len(s) : s[v] = c
      BY <2>1 DEF Once
    <3>2. v \in 1 .. Len(w) /\ w[v] = c
      BY <1>0, <2>0, <3>1 DEF Joins
    <3> QED
      BY <3>2
  <2>2. CASE c \in B
    <3>1. PICK v \in 1 .. Len(u) : u[v] = c
      BY <2>2 DEF Once
    <3>2. Len(s) + v \in 1 .. Len(w) /\ w[Len(s) + v] = c
      BY <1>0, <2>0, <3>1 DEF Joins
    <3> QED
      BY <3>2
  <2>3. CASE c \in C
    <3>1. PICK v \in 1 .. Len(m) : m[v] = c
      BY <2>3 DEF Once
    <3>2. Len(s) + Len(u) + v \in 1 .. Len(w) /\ w[Len(s) + Len(u) + v] = c
      BY <1>0, <2>0, <3>1 DEF Joins
    <3> QED
      BY <3>2
  <2> QED
    BY <1>3, <2>1, <2>2, <2>3
<1>4. \A v \in 1 .. Len(w) : w[v] \in A \cup B \cup C
  BY <1>1
<1>5. w \in Seq(Nat)
  BY DEF Joins
<1> QED
  BY <1>2, <1>3, <1>4, <1>5 DEF Once

(* The recursive traversal meets every header once.                        *)
LEMMA PreOrderOnce ==
    \A t \in Tree : Good(t) => Once(PreOrder(t), Keys(t))
<1> DEFINE S == { t \in Tree : Good(t) => Once(PreOrder(t), Keys(t)) }
<1>0. Once(<<>>, {})
  BY DEF Once
<1>1. Nil \in S
  BY <1>0, PreOrderIs, PartsOfNil
<1>2. ASSUME NEW t \in Tree \ {Nil}, t.l \in S, t.r \in S PROVE t \in S
  <2> SUFFICES ASSUME Good(t) PROVE Once(PreOrder(t), Keys(t))
    OBVIOUS
  <2> DEFINE a == PreOrder(t.l)
             b == IF t.thr # 0 THEN <<>> ELSE PreOrder(t.r)
             k == <<t.key>>
  <2>1. /\ Good(t.l) /\ Good(t.r) /\ t.key \in Nat
        /\ Keys(t) = {t.key} \cup Keys(t.l) \cup Keys(t.r)
        /\ t.thr # 0 => t.r = Nil
    BY Apart, Apartness
  <2>2. Once(a, Keys(t.l)) /\ Once(b, Keys(t.r))
    BY <1>0, <1>2, <2>1, PartsOfNil
  <2>3. Once(k, {t.key})
    <3>1. k \in Seq(Nat) /\ Len(k) = 1 /\ k[1] = t.key
      BY <2>1
    <3> HIDE DEF k
    <3>2. \A v \in 1 .. Len(k) : v = 1
      BY <3>1
    <3>3. 1 \in 1 .. Len(k)
      BY <3>1
    <3> QED
      BY <3>1, <3>2, <3>3 DEF Once
  <2>4. /\ {t.key} \cap Keys(t.l) = {} /\ {t.key} \cap Keys(t.r) = {}
        /\ Keys(t.l) \cap Keys(t.r) = {}
    <3>1. /\ \A x \in Keys(t.l) : x < t.key /\ x \in Nat
          /\ \A x \in Keys(t.r) : t.key < x /\ x \in Nat
      BY <2>1, Apart, Apartness
    <3>2. \A x, y \in Nat : ~ (x < y /\ y < x) /\ ~ (x < x)
      OBVIOUS
    <3> QED
      BY <2>1, <3>1, <3>2
  <2>5. PreOrder(t) = k \o a \o b
    BY PreOrderIs DEF PreOrderAt
  <2> HIDE DEF a, b, k
  <2>6. a \in Seq(Nat) /\ b \in Seq(Nat) /\ k \in Seq(Nat)
    BY <2>2, <2>3 DEF Once
  <2>7. Joins(k \o a \o b, k, a, b)
    BY <2>6, ConcatJoins
  <2>8. Once(k \o a \o b, {t.key} \cup Keys(t.l) \cup Keys(t.r))
    BY <2>2, <2>3, <2>4, <2>7, JoinsOnce
  <2> QED
    BY <2>1, <2>5, <2>8
<1>3. \A t \in Tree : t \in S
  <2> HIDE DEF S
  <2> QED
    BY <1>1, <1>2, TreeInduction
<1> QED
  BY <1>3

(* A sequence in ascending order has each element once.                    *)
LEMMA RisesOnce ==
    ASSUME NEW s, NEW K, Rises(s, K)
    PROVE  Once(s, K) /\ Len(s) \in Nat /\ \A v \in 1 .. Len(s) : s[v] \in Nat
<1>1. s \in Seq(Nat) /\ Len(s) \in Nat
  BY LenProperties DEF Rises
<1>2. \A v \in 1 .. Len(s) : s[v] \in Nat
  BY <1>1, ElementOfSeq
<1>3. ASSUME NEW v \in 1 .. Len(s), NEW w \in 1 .. Len(s), s[v] = s[w] PROVE v = w
  <2>1. ~ (v < w) /\ ~ (w < v)
    BY <1>2, <1>3 DEF Rises
  <2> QED
    BY <2>1
<1> QED
  BY <1>1, <1>2, <1>3 DEF Rises, Once

(* It has at most as many elements as there are keys.                      *)
LEMMA OnceIsShort ==
    ASSUME NEW s, NEW K, K \subseteq Key, Once(s, K)
    PROVE  Len(s) \in Nat /\ Len(s) < Levels
<1>1. s \in Seq(Nat) /\ Len(s) \in Nat
  BY LenProperties DEF Once
<1> DEFINE f == [v \in 1 .. Len(s) |-> s[v]]
<1>2. f \in Injection(1 .. Len(s), Key)
  BY DEF Once, Injection, IsInjective
<1>3. Cardinality(1 .. Len(s)) <= Cardinality(Key)
  BY <1>2, HeaderTreeAssumption, FS_Injection
<1>4. Cardinality(1 .. Len(s)) = Len(s)
  BY <1>1, RangeSize
<1> QED
  BY <1>1, <1>3, <1>4, LevelsType DEF Levels

-----------------------------------------------------------------------------
(* f is the key after k in K, or 0 when k is the last one.                 *)
IsNext(K, k, f) ==
    IF \E c \in K : k < c THEN f \in K /\ k < f /\ \A c \in K : k < c => f <= c ELSE f = 0

(* In an ascending order the follower of a key is the next greater one.    *)
LEMMA FollowerIsNext ==
    ASSUME NEW K, K \subseteq Key, NEW s, Rises(s, K), NEW k \in K
    PROVE  IsNext(K, k, Follower(s, k))
<1>1. /\ Len(s) \in Nat /\ \A v \in 1 .. Len(s) : s[v] \in Nat
      /\ \A v, w \in 1 .. Len(s) : s[v] = s[w] => v = w
      /\ DOMAIN s = 1 .. Len(s)
      /\ \A v, w \in 1 .. Len(s) : v < w => s[v] < s[w]
  <2>1. s \in Seq(Nat) /\ \A v, w \in 1 .. Len(s) : v < w => s[v] < s[w]
    BY DEF Rises
  <2>2. Once(s, K) /\ Len(s) \in Nat /\ \A v \in 1 .. Len(s) : s[v] \in Nat
    BY RisesOnce
  <2>3. DOMAIN s = 1 .. Len(s)
    BY <2>1, LenProperties
  <2>4. \A v, w \in 1 .. Len(s) : s[v] = s[w] => v = w
    BY <2>2 DEF Once
  <2> QED
    BY <2>1, <2>2, <2>3, <2>4
<1>b. Len(s) \in Nat
  BY <1>1
<1>2. PICK p \in 1 .. Len(s) : s[p] = k
  BY DEF Rises
<1>3. k \in Nat
  BY HeaderTreeAssumption
<1>4. CASE p = Len(s)
  <2>1. Last(s) = k
    BY <1>2, <1>4 DEF Last
  <2>2. ASSUME NEW c \in K PROVE ~ (k < c)
    <3>1. PICK v \in 1 .. Len(s) : s[v] = c
      BY DEF Rises
    <3>2. v = p \/ v < p
      BY <1>b, <1>4
    <3>3. c = k \/ c < k
      BY <1>1, <1>2, <3>1, <3>2
    <3> QED
      BY <1>1, <1>3, <3>1, <3>3
  <2> QED
    BY <2>1, <2>2 DEF IsNext, Follower
<1>5. CASE p # Len(s)
  <2>1. p + 1 \in 1 .. Len(s) /\ Len(s) \in 1 .. Len(s) /\ p < Len(s) /\ p \in Nat
    BY <1>b, <1>5
  <2>2. k # Last(s)
    <3>1. s[p] < s[Len(s)]
      BY <1>1, <2>1
    <3> QED
      BY <1>1, <1>2, <2>1, <3>1 DEF Last
  <2>3. (CHOOSE v \in DOMAIN s : s[v] = k) = p
    BY <1>1, <1>2
  <2>4. Follower(s, k) = s[1 + p]
    BY <2>2, <2>3 DEF Follower
  <2>5. s[p + 1] \in K /\ k < s[p + 1] /\ 1 + p = p + 1
    BY <1>1, <1>2, <2>1 DEF Rises
  <2>6. ASSUME NEW c \in K, k < c PROVE s[p + 1] <= c
    <3>1. PICK v \in 1 .. Len(s) : s[v] = c
      BY DEF Rises
    <3>2. ~ (v < p) /\ v # p
      <4>1. v < p => c < k
        BY <1>1, <1>2, <3>1
      <4>2. c \in Nat
        BY HeaderTreeAssumption
      <4> QED
        BY <1>2, <1>3, <2>6, <3>1, <4>1, <4>2
    <3>3. v = p + 1 \/ p + 1 < v
      BY <2>1, <3>2
    <3> QED
      BY <1>1, <2>1, <3>1, <3>3
  <2> QED
    BY <2>4, <2>5, <2>6 DEF IsNext
<1> QED
  BY <1>4, <1>5

-----------------------------------------------------------------------------
(* Every node without a right child has a thread to the next one.          *)
Linked(u, K) ==
    \A n \in Nodes(u) : IF n.r = Nil THEN IsNext(K, n.key, n.thr) ELSE n.thr = 0

(* Threading changes nothing but the threads.                              *)
SameShape(t, u) ==
    /\ Good(u) /\ Keys(u) = Keys(t) /\ Height(u) = Height(t)
    /\ u = Nil <=> t = Nil

(* Threaded at a node.                                                     *)
LEMMA ThreadedParts ==
    ASSUME NEW t \in Tree \ {Nil}, NEW order
    PROVE  Threaded(t, order) = Made(t.key, Threaded(t.l, order), Threaded(t.r, order),
                                  Thread(t, order), t.bf)
<1> DEFINE a == Threaded(t.l, order)
           b == Threaded(t.r, order)
           x == Thread(t, order)
           m == Made(t.key, t.l, t.r, t.thr, t.bf)
<1>1. Threaded(t, order) = [t EXCEPT !.l = a, !.r = b, !.thr = x]
  BY ThreadedIs DEF ThreadedAt
<1>2. t = m
  BY NodeParts
<1> HIDE DEF a, b, x
<1>3. [m EXCEPT !.l = a, !.r = b, !.thr = x] = [[[m EXCEPT !.l = a] EXCEPT !.r = b] EXCEPT !.thr = x]
  OBVIOUS
<1>4. [m EXCEPT !.l = a] = Made(t.key, a, t.r, t.thr, t.bf)
  BY DEF Made
<1>5. [Made(t.key, a, t.r, t.thr, t.bf) EXCEPT !.r = b] = Made(t.key, a, b, t.thr, t.bf)
  BY DEF Made
<1>6. [Made(t.key, a, b, t.thr, t.bf) EXCEPT !.thr = x] = Made(t.key, a, b, x, t.bf)
  BY DEF Made
<1> HIDE DEF m
<1>7. [t EXCEPT !.l = a, !.r = b, !.thr = x] = [m EXCEPT !.l = a, !.r = b, !.thr = x]
  BY <1>2
<1> QED
  BY <1>1, <1>3, <1>4, <1>5, <1>6, <1>7, Zenon DEF a, b, x

(* Threads to the next key of K, of which the tree is a part, keep it in   *)
(* order and leave no node without a right child unlinked.                 *)
LEMMA ThreadedKeeps ==
    ASSUME NEW K, K \subseteq Key, NEW order,
           \A k \in K : IsNext(K, k, Follower(order, k))
    PROVE  \A t \in Tree : Good(t) /\ Keys(t) \subseteq K =>
               SameShape(t, Threaded(t, order)) /\ Linked(Threaded(t, order), K)
<1> DEFINE S == { t \in Tree : Good(t) /\ Keys(t) \subseteq K =>
                      SameShape(t, Threaded(t, order)) /\ Linked(Threaded(t, order), K) }
<1>1. Nil \in S
  BY ThreadedIs, PartsOfNil DEF SameShape, Linked
<1>2. ASSUME NEW t \in Tree \ {Nil}, t.l \in S, t.r \in S PROVE t \in S
  <2> SUFFICES ASSUME Good(t), Keys(t) \subseteq K
               PROVE  SameShape(t, Threaded(t, order)) /\ Linked(Threaded(t, order), K)
    OBVIOUS
  <2> DEFINE a == Threaded(t.l, order)
             b == Threaded(t.r, order)
             x == Thread(t, order)
             u == Made(t.key, a, b, x, t.bf)
  <2>1. /\ t.key \in Key /\ t.bf \in -1 .. 1 /\ Good(t.l) /\ Good(t.r)
        /\ t.key \in Keys(t) /\ t.key \in Nat
        /\ Keys(t) = {t.key} \cup Keys(t.l) \cup Keys(t.r)
        /\ t.bf = Height(t.l) - Height(t.r)
        /\ Height(t.l) < Levels /\ Height(t.r) < Levels
        /\ Height(t) = HeightAt(Height(t.l), Height(t.r))
        /\ \A c \in Keys(t.l) : c < t.key
        /\ \A c \in Keys(t.r) : t.key < c
    BY Apart, Apartness, LevelsType
  <2>2. /\ SameShape(t.l, a) /\ Linked(a, K)
        /\ SameShape(t.r, b) /\ Linked(b, K)
    BY <1>2, <2>1
  <2>3. Threaded(t, order) = u
    BY ThreadedParts
  <2>4. IF t.r = Nil THEN IsNext(K, t.key, x) ELSE x = 0
    BY <2>1, Subtrees DEF Thread
  <2> HIDE DEF a, b, x
  <2>5. /\ x \in Key \cup {0}
        /\ x # 0 => b = Nil /\ t.key < x
    BY <2>2, <2>4 DEF IsNext, SameShape
  <2>6. ASSUME NEW p \in Links(a) PROVE p[2] <= t.key
    <3>1. PICK n \in Nodes(a) : n.thr # 0 /\ p = <<n.key, n.thr>>
      BY DEF Links
    <3>2. IsNext(K, n.key, n.thr)
      BY <2>2, <3>1 DEF Linked
    <3>3. n.key < t.key /\ t.key \in K
      BY <2>1, <2>2 DEF SameShape, Keys
    <3> QED
      BY <3>1, <3>2, <3>3 DEF IsNext
  <2>7. Fits(t.key, a, b, x, t.bf)
    BY <2>1, <2>2, <2>5, <2>6 DEF Fits, SameShape
  <2>8. /\ Good(u) /\ u # Nil /\ Keys(u) = {t.key} \cup Keys(a) \cup Keys(b)
        /\ Height(u) = HeightAt(Height(a), Height(b))
    BY <2>7, Make
  <2>9. u.key = t.key /\ u.l = a /\ u.r = b /\ u.thr = x
    BY NodeFields
  <2> HIDE DEF u
  <2>10. SameShape(t, u)
    BY <2>1, <2>2, <2>8 DEF SameShape
  <2>11. Linked(u, K)
    <3>1. Nodes(u) = {u} \cup Nodes(a) \cup Nodes(b)
      BY <2>8, <2>9, PartsOfNode DEF Good
    <3>2. IF u.r = Nil THEN IsNext(K, u.key, u.thr) ELSE u.thr = 0
      BY <2>2, <2>4, <2>9 DEF SameShape
    <3> QED
      BY <2>2, <3>1, <3>2 DEF Linked
  <2> QED
    BY <2>3, <2>10, <2>11
<1>3. \A t \in Tree : t \in S
  <2> HIDE DEF S
  <2> QED
    BY <1>1, <1>2, TreeInduction
<1> QED
  BY <1>3

-----------------------------------------------------------------------------
(* The leftmost node has the least key.                                    *)
LEMMA LeftmostLeast ==
    \A t \in Tree \ {Nil} : Good(t) =>
        Leftmost(t) \in Nodes(t) /\ \A c \in Keys(t) : Leftmost(t).key <= c
<1> DEFINE S == { t \in Tree : t # Nil /\ Good(t) =>
                     Leftmost(t) \in Nodes(t) /\ \A c \in Keys(t) : Leftmost(t).key <= c }
<1>1. Nil \in S
  BY Subtrees
<1>2. ASSUME NEW t \in Tree \ {Nil}, t.l \in S, t.r \in S PROVE t \in S
  <2> SUFFICES ASSUME Good(t)
               PROVE  Leftmost(t) \in Nodes(t) /\ \A c \in Keys(t) : Leftmost(t).key <= c
    OBVIOUS
  <2>1. /\ Good(t.l) /\ t.l \in Tree /\ t.key \in Nat
        /\ Keys(t) = {t.key} \cup Keys(t.l) \cup Keys(t.r)
        /\ \A c \in Keys(t.l) : c < t.key /\ c \in Nat
        /\ \A c \in Keys(t.r) : t.key < c /\ c \in Nat
        /\ Nodes(t) = {t} \cup Nodes(t.l) \cup Nodes(t.r)
    BY Apart, Apartness, Subtrees, PartsOfNode
  <2>2. CASE t.l = Nil
    <3>1. Leftmost(t) = t
      BY <2>2, LeftmostIs, Subtrees DEF LeftmostAt
    <3> QED
      BY <2>1, <2>2, <3>1, PartsOfNil
  <2>3. CASE t.l # Nil
    <3>1. Leftmost(t) = Leftmost(t.l)
      BY <2>1, <2>3, LeftmostIs, Subtrees DEF LeftmostAt
    <3>2. Leftmost(t.l) \in Nodes(t.l) /\ \A c \in Keys(t.l) : Leftmost(t.l).key <= c
      BY <1>2, <2>1, <2>3
    <3>3. Leftmost(t.l).key < t.key /\ Leftmost(t.l).key \in Nat
      BY <2>1, <3>2 DEF Keys
    <3> QED
      BY <2>1, <3>1, <3>2, <3>3
  <2> QED
    BY <2>2, <2>3
<1>3. \A t \in Tree : t \in S
  <2> HIDE DEF S
  <2> QED
    BY <1>1, <1>2, TreeInduction
<1> QED
  BY <1>3

(* The leftmost node of the right subtree is the next one in the whole.    *)
LEMMA RightNext ==
    \A t \in Tree : Good(t) => \A n \in Nodes(t) :
        /\ Nodes(n.r) \subseteq Nodes(t)
        /\ n.r # Nil => \A c \in Keys(t) : n.key < c => Leftmost(n.r).key <= c
<1> DEFINE Next(t, n) == n.r # Nil => \A c \in Keys(t) : n.key < c => Leftmost(n.r).key <= c
           S == { t \in Tree : Good(t) => \A n \in Nodes(t) :
                      Nodes(n.r) \subseteq Nodes(t) /\ Next(t, n) }
<1>1. Nil \in S
  BY PartsOfNil
<1>2. ASSUME NEW t \in Tree \ {Nil}, t.l \in S, t.r \in S PROVE t \in S
  <2> SUFFICES ASSUME Good(t), NEW n \in Nodes(t) PROVE Nodes(n.r) \subseteq Nodes(t) /\ Next(t, n)
    OBVIOUS
  <2>1. /\ Good(t.l) /\ Good(t.r) /\ t.l \in Tree /\ t.r \in Tree /\ t.key \in Nat
        /\ Keys(t) = {t.key} \cup Keys(t.l) \cup Keys(t.r)
        /\ \A c \in Keys(t.l) : c < t.key /\ c \in Nat
        /\ \A c \in Keys(t.r) : t.key < c /\ c \in Nat
        /\ Nodes(t) = {t} \cup Nodes(t.l) \cup Nodes(t.r)
    BY Apart, Apartness, Subtrees, PartsOfNode
  <2>2. CASE n = t
    <3>1. ASSUME t.r # Nil, NEW c \in Keys(t), t.key < c PROVE Leftmost(t.r).key <= c
      <4>1. c \in Keys(t.r)
        <5>1. ~ (t.key < t.key) /\ \A d \in Keys(t.l) : ~ (t.key < d)
          BY <2>1
        <5> QED
          BY <2>1, <3>1, <5>1
      <4> QED
        BY <2>1, <3>1, <4>1, LeftmostLeast
    <3> QED
      BY <2>1, <2>2, <3>1
  <2>3. CASE n \in Nodes(t.l)
    <3>1. Nodes(n.r) \subseteq Nodes(t.l) /\ Next(t.l, n)
      BY <1>2, <2>1, <2>3
    <3>2. ASSUME n.r # Nil, NEW c \in Keys(t), n.key < c PROVE Leftmost(n.r).key <= c
      <4>1. CASE c \in Keys(t.l)
        BY <3>1, <3>2, <4>1
      <4>2. CASE c \notin Keys(t.l)
        <5>1. Good(n.r) /\ n.r \in Tree
          <6>1. n \in Tree \ {Nil}
            BY <2>1, <2>3, NodesAreTrees
          <6>2. n.r \in Tree
            BY <6>1, Subtrees
          <6>3. \A q \in Nodes(n.r) : q \in Nodes(t.l)
            BY <3>1
          <6> QED
            BY <2>1, <6>2, <6>3 DEF Good
        <5>2. Leftmost(n.r) \in Nodes(t.l)
          BY <3>1, <3>2, <5>1, LeftmostLeast
        <5>3. Leftmost(n.r).key < t.key /\ Leftmost(n.r).key \in Nat
          BY <2>1, <5>2 DEF Keys
        <5>4. t.key <= c /\ c \in Nat
          BY <2>1, <4>2
        <5> QED
          BY <2>1, <5>3, <5>4
      <4> QED
        BY <4>1, <4>2
    <3> QED
      BY <2>1, <3>1, <3>2
  <2>4. CASE n \in Nodes(t.r)
    <3>1. Nodes(n.r) \subseteq Nodes(t.r) /\ Next(t.r, n)
      BY <1>2, <2>1, <2>4
    <3>2. t.key < n.key /\ n.key \in Nat
      BY <2>1, <2>4 DEF Keys
    <3>3. \A c \in Keys(t) : n.key < c => c \in Keys(t.r)
      BY <2>1, <3>2
    <3> QED
      BY <2>1, <3>1, <3>3
  <2> QED
    BY <2>1, <2>2, <2>3, <2>4
<1>3. \A t \in Tree : t \in S
  <2> HIDE DEF S
  <2> QED
    BY <1>1, <1>2, TreeInduction
<1> QED
  BY <1>3

(* A step of the traversal goes to the node of the next key, whether there *)
(* is a thread or a right child.                                           *)
LEMMA AfterIsNext ==
    ASSUME NEW t, Good(t), Linked(t, Keys(t)), NEW n \in Nodes(t)
    PROVE  After(t, n) \in Nodes(t) \cup {Nil} /\ IsNext(Keys(t), n.key, After(t, n).key)
<1>1. n \in Tree \ {Nil} /\ n.r \in Tree /\ Fit(n)
  BY NodesAreTrees, Subtrees DEF Good
<1>2. CASE n.thr # 0
  <2>1. IsNext(Keys(t), n.key, n.thr)
    BY <1>2 DEF Linked
  <2>2. n.thr \in Keys(t)
    BY <1>2, <2>1 DEF IsNext
  <2>3. \E m \in Nodes(t) : m.key = n.thr
    BY <2>2 DEF Keys
  <2>4. After(t, n) \in Nodes(t) /\ After(t, n).key = n.thr
    BY <1>2, <2>3 DEF After
  <2> QED
    BY <2>1, <2>4
<1>3. CASE n.thr = 0 /\ n.r = Nil
  <2>1. After(t, n) = Nil
    BY <1>3, LeftmostIs DEF After
  <2> QED
    BY <1>3, <2>1, NilIs DEF Linked
<1>4. CASE n.thr = 0 /\ n.r # Nil
  <2> DEFINE m == Leftmost(n.r)
  <2>1. After(t, n) = m
    BY <1>4 DEF After
  <2>2. Nodes(n.r) \subseteq Nodes(t) /\ \A c \in Keys(t) : n.key < c => m.key <= c
    BY <1>4, RightNext DEF Good
  <2>3. Good(n.r)
    BY <1>1, <2>2 DEF Good
  <2>4. m \in Nodes(n.r)
    BY <1>1, <1>4, <2>3, LeftmostLeast
  <2> HIDE DEF m
  <2>5. m \in Nodes(t) /\ m.key \in Keys(t) /\ n.key < m.key
    BY <1>1, <2>2, <2>4 DEF Fit, Keys
  <2> QED
    BY <2>1, <2>2, <2>5 DEF IsNext
<1> QED
  BY <1>2, <1>3, <1>4

-----------------------------------------------------------------------------
(* And so the whole walk is the order of the keys: node[v] has the v-th    *)
(* key, and is Nil behind the last.                                        *)
LEMMA WalkPrints ==
    ASSUME NEW t, Good(t), Linked(t, Keys(t))
    PROVE  Walk(t) = InOrder(t)
<1> DEFINE Val(v, f) == IF v = 1 THEN Leftmost(t)
                        ELSE LET n == f[v - 1] IN IF IsNil(n) THEN Nil ELSE After(t, n)
           Solves(m, f) == f = [v \in 1 .. m |-> Val(v, f)]
           S == { m \in Nat : \E f : Solves(m, f) }
           node == CHOOSE f : Solves(Levels, f)
           visited == { v \in DOMAIN node : ~IsNil(node[v]) }
           s == InOrder(t)
<1>1. Walk(t) = [v \in 1 .. Cardinality(visited) |-> node[v].key]
  BY Zenon DEF Walk
<1>2. 0 \in S
  <2>1. Solves(0, [v \in 1 .. 0 |-> Nil])
    OBVIOUS
  <2> QED
    BY <2>1
<1>3. ASSUME NEW m \in Nat, m \in S PROVE m + 1 \in S
  <2>1. PICK f : Solves(m, f)
    BY <1>3
  <2> DEFINE longer == [v \in 1 .. m + 1 |-> Val(v, f)]
  <2>2. \A v \in 1 .. m : f[v] = longer[v]
    <3> HIDE DEF Val
    <3> QED
      BY <2>1
  <2>3. \A v \in 1 .. m + 1 : longer[v] = Val(v, longer)
    <3> TAKE v \in 1 .. m + 1
    <3>1. v # 1 => longer[v - 1] = f[v - 1]
      <4>1. v # 1 => v - 1 \in 1 .. m
        OBVIOUS
      <4> HIDE DEF longer
      <4> QED
        BY <2>2, <4>1
    <3>2. Val(v, longer) = Val(v, f)
      <4> HIDE DEF longer
      <4> QED
        BY <3>1
    <3> HIDE DEF Val
    <3> QED
      BY <3>2
  <2>4. Solves(m + 1, longer)
    <3> HIDE DEF Val
    <3>1. longer = [v \in 1 .. m + 1 |-> longer[v]]
      OBVIOUS
    <3> HIDE DEF longer
    <3> QED
      BY <2>3, <3>1
  <2> HIDE DEF Solves
  <2> QED
    BY <2>4
<1>4. \E f : Solves(Levels, f)
  <2>1. Levels \in S
    <3> HIDE DEF S
    <3> QED
      BY <1>2, <1>3, Induction, LevelsType
  <2> QED
    BY <2>1
<1>5. Solves(Levels, node)
  <2> HIDE DEF Solves
  <2> QED
    BY <1>4, Zenon
<1> HIDE DEF node
<1>6. DOMAIN node = 1 .. Levels /\ \A v \in 1 .. Levels : node[v] = Val(v, node)
  <2> HIDE DEF Val
  <2> QED
    BY <1>5
<1>7. /\ Rises(s, Keys(t)) /\ Len(s) \in Nat /\ Len(s) < Levels
      /\ \A v \in 1 .. Len(s) : s[v] \in Keys(t) /\ s[v] \in Nat
      /\ s = [v \in 1 .. Len(s) |-> s[v]] /\ t \in Tree
  <2>1. Rises(s, Keys(t)) /\ Keys(t) \subseteq Key /\ t \in Tree
    BY InOrderRises, Apartness DEF Good
  <2> HIDE DEF s
  <2>2. Once(s, Keys(t)) /\ Len(s) \in Nat /\ \A v \in 1 .. Len(s) : s[v] \in Nat
    BY <2>1, RisesOnce
  <2>3. Len(s) < Levels
    BY <2>1, <2>2, OnceIsShort
  <2>4. s \in Seq(Nat)
    BY <2>1 DEF Rises
  <2> QED
    BY <2>1, <2>2, <2>3, <2>4 DEF Rises
<1> HIDE DEF s
<1> DEFINE Here(v) == IF v <= Len(s) THEN node[v] \in Nodes(t) /\ node[v].key = s[v] ELSE node[v] = Nil
           T == { v \in Nat : v + 1 <= Levels => Here(v + 1) }
<1>8. 0 \in T
  <2>1. 1 \in 1 .. Levels
    BY LevelsType
  <2>2. node[1] = Leftmost(t)
    BY <1>6, <2>1
  <2>3. CASE t = Nil
    <3>1. Len(s) = 0
      BY <1>7, <2>3, PartsOfNil
    <3>2. node[1] = Nil
      BY <2>2, <2>3, LeftmostIs
    <3> QED
      BY <3>1, <3>2
  <2>4. CASE t # Nil
    <3>1. node[1] \in Nodes(t) /\ \A c \in Keys(t) : node[1].key <= c
      BY <1>7, <2>2, <2>4, LeftmostLeast
    <3>2. PICK p \in 1 .. Len(s) : s[p] = node[1].key
      BY <1>7, <3>1 DEF Rises, Keys
    <3>3. 1 \in 1 .. Len(s)
      BY <1>7, <3>2
    <3>4. p = 1
      <4>1. s[p] <= s[1]
        BY <1>7, <3>1, <3>2, <3>3
      <4>2. 1 < p => s[1] < s[p]
        BY <1>7, <3>3 DEF Rises
      <4> QED
        BY <1>7, <3>3, <4>1, <4>2
    <3> QED
      BY <1>7, <3>1, <3>2, <3>3, <3>4
  <2> QED
    BY <2>3, <2>4
<1>9. ASSUME NEW d \in Nat, d \in T PROVE d + 1 \in T
  <2> SUFFICES ASSUME d + 1 + 1 <= Levels PROVE Here(d + 1 + 1)
    OBVIOUS
  <2> DEFINE v == d + 1
  <2>1. v \in 1 .. Levels /\ v + 1 \in 1 .. Levels /\ v + 1 # 1 /\ v + 1 - 1 = v /\ v \in Nat
    BY LevelsType
  <2>2. Here(v)
    BY <1>9, <2>1
  <2> HIDE DEF v
  <2>3. node[v + 1] = IF IsNil(node[v]) THEN Nil ELSE After(t, node[v])
    BY <1>6, <2>1
  <2>4. CASE v > Len(s)
    <3>1. node[v + 1] = Nil
      BY <1>7, <2>1, <2>2, <2>3, <2>4, Subtrees
    <3>2. ~ (v + 1 <= Len(s))
      BY <1>7, <2>1, <2>4
    <3> QED
      BY <3>1, <3>2 DEF v
  <2>5. CASE v <= Len(s)
    <3> DEFINE m == After(t, node[v])
    <3>1. v \in 1 .. Len(s) /\ node[v] \in Nodes(t) /\ node[v].key = s[v]
      BY <1>7, <2>1, <2>2, <2>5
    <3>2. node[v + 1] = m
      <4>1. node[v] \in Tree \ {Nil}
        BY <1>7, <3>1, NodesAreTrees
      <4> QED
        BY <2>3, <4>1, Subtrees
    <3>3. m \in Nodes(t) \cup {Nil} /\ IsNext(Keys(t), s[v], m.key)
      BY <3>1, AfterIsNext
    <3> HIDE DEF m
    <3>4. CASE v = Len(s)
      <4>1. ASSUME NEW c \in Keys(t) PROVE ~ (s[v] < c)
        <5>1. PICK p \in 1 .. Len(s) : s[p] = c
          BY <1>7 DEF Rises
        <5>2. p < v \/ p = v
          BY <1>7, <3>4
        <5>3. s[p] < s[v] \/ s[p] = s[v]
          BY <1>7, <3>1, <5>2 DEF Rises
        <5> QED
          BY <1>7, <3>1, <5>1, <5>3
      <4>2. m.key = 0
        BY <3>3, <4>1 DEF IsNext
      <4>3. m = Nil
        <5>1. \A q \in Nodes(t) : q.key # 0
          BY <1>7, NodesAreTrees, Subtrees, NilIs
        <5> QED
          BY <3>3, <4>2, <5>1
      <4>4. ~ (v + 1 <= Len(s))
        BY <1>7, <3>4
      <4> QED
        BY <3>2, <4>3, <4>4 DEF v
    <3>5. CASE v < Len(s)
      <4>1. v + 1 \in 1 .. Len(s) /\ v < v + 1
        BY <1>7, <2>1, <3>5
      <4>2. s[v + 1] \in Keys(t) /\ s[v] < s[v + 1]
        BY <1>7, <3>1, <4>1 DEF Rises
      <4>3. m.key \in Keys(t) /\ s[v] < m.key /\ m.key <= s[v + 1]
        BY <3>3, <4>2 DEF IsNext
      <4>4. PICK p \in 1 .. Len(s) : s[p] = m.key
        BY <1>7, <4>3 DEF Rises
      <4>5. p = v + 1
        <5>1. p < v => s[p] < s[v]
          BY <1>7, <3>1, <4>4 DEF Rises
        <5>2. v + 1 < p => s[v + 1] < s[p]
          BY <1>7, <4>1, <4>4 DEF Rises
        <5>3. /\ ~ (p < v) /\ p # v /\ ~ (v + 1 < p)
          BY <1>7, <3>1, <4>1, <4>3, <4>4, <5>1, <5>2
        <5> QED
          BY <2>1, <5>3
      <4>6. m \in Nodes(t)
        <5>1. 0 \notin Keys(t)
          BY <1>7, NodesAreTrees, NilIs
        <5> QED
          BY <3>3, <4>3, <5>1, NilIs
      <4> QED
        BY <3>2, <4>1, <4>4, <4>5, <4>6 DEF v
    <3> QED
      BY <1>7, <2>1, <2>5, <3>4, <3>5
  <2> QED
    BY <1>7, <2>1, <2>4, <2>5
<1>10. ASSUME NEW v \in 1 .. Levels PROVE Here(v)
  <2>1. \A d \in Nat : d \in T
    <3> HIDE DEF T
    <3> QED
      BY <1>8, <1>9, Induction
  <2>2. v - 1 \in Nat /\ v - 1 + 1 = v /\ v <= Levels
    BY LevelsType
  <2>3. v - 1 \in T
    BY <2>1, <2>2
  <2> QED
    BY <2>2, <2>3
<1>11. visited = 1 .. Len(s)
  <2>1. ASSUME NEW v \in 1 .. Levels PROVE ~IsNil(node[v]) <=> v <= Len(s)
    <3>1. \A q \in Nodes(t) : ~IsNil(q)
      BY <1>7, NodesAreTrees, Subtrees
    <3> QED
      BY <1>10, <3>1, Subtrees
  <2>2. \A v \in 1 .. Len(s) : v \in 1 .. Levels /\ v <= Len(s)
    BY <1>7, LevelsType
  <2>3. \A v \in 1 .. Levels : v <= Len(s) => v \in 1 .. Len(s)
    BY <1>7, LevelsType
  <2> QED
    BY <1>6, <2>1, <2>2, <2>3
<1>12. Cardinality(visited) = Len(s)
  <2> HIDE DEF visited
  <2>1. Len(s) \in Nat
    BY <1>7
  <2>2. Cardinality(1 .. Len(s)) = Len(s)
    BY <2>1, RangeSize
  <2> QED
    BY <1>11, <2>2
<1>13. \A v \in 1 .. Len(s) : node[v].key = s[v]
  BY <1>7, <1>10, LevelsType
<1> HIDE DEF visited
<1>14. [v \in 1 .. Len(s) |-> node[v].key] = [v \in 1 .. Len(s) |-> s[v]]
  BY <1>13
<1> QED
  BY <1>1, <1>7, <1>12, <1>14 DEF s

-----------------------------------------------------------------------------
(* The hash the index has at position p.                                   *)
At(p) == hash[index[p]]

(* The exchanges keep every header in the index, once.                     *)
Complete ==
    /\ \A p, q \in Field : index[p] = index[q] => p = q
    /\ \A f \in Field : \E p \in Field : index[p] = f

(* Behind position i + 1 the index is in its final order, and position j   *)
(* carries the greatest hash so far.                                       *)
Bubbled ==
    /\ j \in 1 .. i + 1
    /\ \A p, q \in Field : p < q /\ q > i + 1 => At(p) <= At(q)
    /\ \A p \in Field : p < j => At(p) <= At(j)

(* Hashes rise along the index.                                            *)
Rising == \A p, q \in Field : p < q => At(p) < At(q)

(* What is searched for is not outside the part that is left.              *)
Bracketed ==
    /\ target = NameHash[name]
    /\ \A p \in Field : At(p) = target => low <= p /\ p <= high

(* The inductive invariant of the index.                                   *)
IInv ==
    /\ IndexTypeOK
    /\ ipc # "fill" => hash = Hash /\ Complete
    /\ ipc = "sort" => Bubbled
    /\ ipc \in {"ready", "search"} => Rising
    /\ ipc = "search" => Bracketed

-----------------------------------------------------------------------------
(* Different headers have different hashes.                                *)
LEMMA Differ == \A f, g \in Field : f # g => Hash[f] # Hash[g]
<1> TAKE f, g \in Field
<1>1. CASE f < g
  BY <1>1, HashesIdentify
<1>2. CASE g < f
  BY <1>2, HashesIdentify
<1> QED
  BY <1>1, <1>2, IndexAssumption DEF Field

(* The middle is between both ends.                                        *)
LEMMA MidBetween ==
    ASSUME IndexTypeOK, low <= high
    PROVE  Mid \in Field /\ low <= Mid /\ Mid <= high
<1>1. low \in 1 .. N + 1 /\ high \in 0 .. N /\ N \in Nat
  BY IndexAssumption DEF IndexTypeOK
<1>2. low <= (low + high) \div 2 /\ (low + high) \div 2 <= high
  BY <1>1
<1>3. (low + high) \div 2 \in Int
  BY <1>1
<1> QED
  BY <1>1, <1>2, <1>3 DEF Mid, Field

(* An exchange only moves the two entries.                                 *)
LEMMA ExchangeComplete ==
    ASSUME IndexTypeOK, Complete, NEW p \in 1 .. N - 1,
           index' = Exchanged(p)
    PROVE  /\ index' \in [Field -> Field]
           /\ Complete'
           /\ index'[p] = index[p + 1] /\ index'[p + 1] = index[p]
           /\ \A q \in Field \ {p, p + 1} : index'[q] = index[q]
<1> p \in Field /\ p + 1 \in Field /\ p # p + 1
  BY IndexAssumption DEF Field
<1>1. index' \in [Field -> Field]
  BY DEF IndexTypeOK, Exchanged
<1>2. index'[p] = index[p + 1] /\ index'[p + 1] = index[p]
  BY DEF IndexTypeOK, Exchanged
<1>3. \A q \in Field \ {p, p + 1} : index'[q] = index[q]
  BY DEF IndexTypeOK, Exchanged
<1>4. \A q, r \in Field : index'[q] = index'[r] => q = r
  BY <1>2, <1>3 DEF Complete
<1>5. ASSUME NEW f \in Field PROVE \E q \in Field : index'[q] = f
  <2>1. PICK q \in Field : index[q] = f
    BY DEF Complete
  <2> QED
    BY <2>1, <1>2, <1>3
<1> QED
  BY <1>1, <1>2, <1>3, <1>4, <1>5 DEF Complete

-----------------------------------------------------------------------------
(* Initially nothing is sorted and nothing is searched for.                *)
LEMMA InitIInv == IndexInit => IInv
<1> SUFFICES ASSUME IndexInit PROVE IndexTypeOK
  BY DEF IndexInit, IInv
<1>1. name \in Name
  BY IndexAssumption DEF IndexInit
<1> QED
  BY <1>1, IndexAssumption DEF IndexInit, IndexTypeOK, Field

(* One comparison: afterwards position j + 1 carries the greater hash.     *)
LEMMA CompareIInv == IInv /\ Compare => IInv'
<1> SUFFICES ASSUME IInv, Compare PROVE IInv'
  OBVIOUS
<1> DEFINE New(p) == hash[index'[p]]
<1>1. IndexTypeOK /\ hash = Hash /\ Complete /\ Bubbled /\ N \in Nat
  BY IndexAssumption DEF IInv, Compare
<1>2. j \in 1 .. N - 1 /\ j \in Field /\ j + 1 \in Field /\ i \in 1 .. N - 1
  <2>1. i \in 0 .. N - 1 /\ j \in 1 .. i + 1 /\ i > 0 /\ j <= i
    BY <1>1 DEF IndexTypeOK, Bubbled, Compare
  <2> QED
    BY <2>1, <1>1 DEF Field
<1>3. \A p \in Field : At(p) \in Int
  BY <1>1 DEF At, IndexTypeOK
<1>4. /\ index' \in [Field -> Field] /\ Complete'
      /\ \A p, q \in Field : p < q /\ q > i + 1 => New(p) <= New(q)
      /\ \A p \in Field : p < j + 1 => New(p) <= New(j + 1)
  <2>1. CASE At(j) > At(j + 1)
    <3>1. index' = Exchanged(j)
      BY <2>1 DEF At, Compare
    <3>2. /\ index' \in [Field -> Field]
          /\ Complete'
          /\ index'[j] = index[j + 1] /\ index'[j + 1] = index[j]
          /\ \A q \in Field \ {j, j + 1} : index'[q] = index[q]
      BY <1>1, <1>2, <3>1, ExchangeComplete
    <3>3. /\ New(j) = At(j + 1) /\ New(j + 1) = At(j)
          /\ \A q \in Field \ {j, j + 1} : New(q) = At(q)
      BY <3>2 DEF At
    <3> HIDE DEF New
    <3>4. ASSUME NEW p \in Field, NEW q \in Field, p < q, q > i + 1
          PROVE  New(p) <= New(q)
      <4>1. q \in Field \ {j, j + 1} /\ j < q /\ j + 1 < q
        BY <1>2, <3>4, IndexAssumption DEF Compare, Field
      <4>2. At(p) <= At(q) /\ At(j) <= At(q) /\ At(j + 1) <= At(q)
        BY <1>1, <1>2, <3>4, <4>1 DEF Bubbled
      <4> QED
        BY <3>3, <4>1, <4>2
    <3>5. ASSUME NEW p \in Field, p < j + 1 PROVE New(p) <= New(j + 1)
      <4>1. p < j \/ p = j
        BY <1>2, <3>5 DEF Field
      <4>2. CASE p < j
        BY <4>2, <1>1, <1>2, <3>3 DEF Bubbled, Field
      <4>3. CASE p = j
        BY <4>3, <2>1, <1>2, <1>3, <3>3
      <4> QED
        BY <4>1, <4>2, <4>3
    <3> QED
      BY <3>2, <3>4, <3>5
  <2>2. CASE ~(At(j) > At(j + 1))
    <3>1. index' = index
      BY <2>2 DEF At, Compare
    <3>2. \A p \in Field : New(p) = At(p)
      BY <3>1 DEF At
    <3>3. Complete' /\ index' \in [Field -> Field]
      BY <3>1, <1>1 DEF Complete, IndexTypeOK
    <3> HIDE DEF New
    <3>4. ASSUME NEW p \in Field, p < j + 1 PROVE New(p) <= New(j + 1)
      <4>1. p < j \/ p = j
        BY <1>2, <3>4 DEF Field
      <4>2. At(p) <= At(j) /\ At(j) <= At(j + 1)
        BY <4>1, <2>2, <1>1, <1>2, <1>3 DEF Bubbled
      <4> QED
        BY <4>2, <3>2, <1>2, <1>3
    <3> QED
      BY <3>2, <3>3, <3>4, <1>1 DEF Bubbled
  <2> QED
    BY <2>1, <2>2
<1>5. Bubbled'
  BY <1>1, <1>2, <1>4 DEF Bubbled, At, Compare, Field
<1>6. IndexTypeOK'
  <2>1. j + 1 \in 0 .. N
    BY <1>1, <1>2
  <2> QED
    BY <2>1, <1>1, <1>4 DEF IndexTypeOK, Compare
<1> QED
  BY <1>1, <1>4, <1>5, <1>6 DEF IInv, Compare

(* The next pass is one shorter: position i + 1 has its final entry.       *)
LEMMA PassIInv == IInv /\ Pass => IInv'
<1> SUFFICES ASSUME IInv, Pass PROVE IInv'
  OBVIOUS
<1>1. IndexTypeOK /\ hash = Hash /\ Complete /\ Bubbled /\ N \in Nat
  BY IndexAssumption DEF IInv, Pass
<1>2. j = i + 1 /\ i \in 1 .. N - 1
  BY <1>1 DEF IndexTypeOK, Bubbled, Pass
<1>3. Bubbled'
  <2>1. \A p, q \in Field : p < q /\ q > i => At(p) <= At(q)
    <3> TAKE p, q \in Field
    <3> HAVE p < q /\ q > i
    <3>1. q = j \/ q > i + 1
      BY <1>2 DEF Field
    <3> QED
      BY <3>1, <1>1 DEF Bubbled
  <2>2. \A p \in Field : ~(p < 1)
    BY DEF Field
  <2> QED
    BY <2>1, <2>2, <1>2 DEF Bubbled, At, Pass
<1>4. IndexTypeOK'
  BY <1>1, <1>2 DEF IndexTypeOK, Pass
<1>5. Complete'
  BY <1>1 DEF Complete, Pass
<1> QED
  BY <1>1, <1>3, <1>4, <1>5 DEF IInv, Pass

(* When the passes are over no two entries are out of order, and none have *)
(* the same hash.                                                          *)
LEMMA SortedIInv == IInv /\ Sorted => IInv'
<1> SUFFICES ASSUME IInv, Sorted PROVE IInv'
  OBVIOUS
<1>1. IndexTypeOK /\ hash = Hash /\ Complete /\ Bubbled
  BY DEF IInv, Sorted
<1>2. Rising
  <2> SUFFICES ASSUME NEW p \in Field, NEW q \in Field, p < q
               PROVE  At(p) < At(q)
    BY DEF Rising
  <2>1. At(p) <= At(q)
    BY <1>1 DEF Bubbled, Sorted, Field
  <2>2. index[p] # index[q] /\ index[p] \in Field /\ index[q] \in Field
    <3>1. p # q
      BY DEF Field
    <3> QED
      BY <3>1, <1>1 DEF Complete, IndexTypeOK
  <2>3. At(p) # At(q)
    BY <1>1, <2>2, Differ DEF At
  <2>4. At(p) \in Int /\ At(q) \in Int
    BY <1>1, <2>2 DEF At, IndexTypeOK
  <2> QED
    BY <2>1, <2>3, <2>4
<1>3. IndexTypeOK' /\ Complete' /\ Rising'
  BY <1>1, <1>2 DEF IndexTypeOK, Complete, Rising, At, Sorted
<1> QED
  BY <1>1, <1>3 DEF IInv, Sorted

(* A turn of the search keeps the hash that is searched for in the part    *)
(* that is left.                                                           *)
LEMMA NarrowIInv == IInv /\ (Below \/ Above) => IInv'
<1> SUFFICES ASSUME IInv, Below \/ Above PROVE IInv'
  OBVIOUS
<1>1. IndexTypeOK /\ hash = Hash /\ Complete /\ Rising /\ Bracketed
  BY DEF IInv, Below, Above
<1>2. Mid \in Field /\ low <= Mid /\ Mid <= high
  BY <1>1, MidBetween DEF Below, Above
<1>3. \A p \in Field : At(p) \in Int /\ target \in Int
  BY <1>1 DEF At, IndexTypeOK
<1>4. IndexTypeOK'
  <2>1. Mid - 1 \in 0 .. N /\ Mid + 1 \in 1 .. N + 1
    BY <1>2, IndexAssumption DEF Field
  <2> QED
    BY <2>1, <1>1 DEF IndexTypeOK, Below, Above
<1>5. Bracketed'
  <2>1. CASE Below
    <3>1. ASSUME NEW p \in Field, At(p) = target PROVE p <= Mid - 1
      <4>1. ~(Mid < p) /\ Mid # p
        BY <2>1, <3>1, <1>1, <1>2, <1>3 DEF Below, Rising, At
      <4> QED
        BY <4>1, <1>2 DEF Field
    <3> QED
      BY <2>1, <3>1, <1>1 DEF Bracketed, Below, At
  <2>2. CASE Above
    <3>1. ASSUME NEW p \in Field, At(p) = target PROVE Mid + 1 <= p
      <4>1. ~(p < Mid) /\ Mid # p
        BY <2>2, <3>1, <1>1, <1>2, <1>3 DEF Above, Rising, At
      <4> QED
        BY <4>1, <1>2 DEF Field
    <3> QED
      BY <2>2, <3>1, <1>1 DEF Bracketed, Above, At
  <2> QED
    BY <2>1, <2>2
<1>6. Complete' /\ Rising'
  BY <1>1 DEF Complete, Rising, At, Below, Above
<1> QED
  BY <1>1, <1>4, <1>5, <1>6 DEF IInv, Below, Above

(* Every step of the index keeps its invariant.                            *)
LEMMA StepIInv == IInv /\ [IndexNext]_indexVars => IInv'
<1> SUFFICES ASSUME IInv, [IndexNext]_indexVars PROVE IInv'
  OBVIOUS
<1>1. CASE Fill
  <2>1. IndexTypeOK' /\ hash' = Hash
    BY <1>1, IndexAssumption DEF Fill, IInv, IndexTypeOK, Field
  <2>2. Complete' /\ Bubbled'
    BY <1>1, IndexAssumption DEF Fill, Complete, Bubbled, At, Field
  <2> QED
    BY <1>1, <2>1, <2>2 DEF Fill, IInv
<1>2. CASE Compare
  BY <1>2, CompareIInv
<1>3. CASE Pass
  BY <1>3, PassIInv
<1>4. CASE Sorted
  BY <1>4, SortedIInv
<1>5. ASSUME NEW n \in Name, Search(n) PROVE IInv'
  <2>1. IndexTypeOK /\ hash = Hash /\ Complete /\ Rising
    BY <1>5 DEF IInv, Search
  <2>2. IndexTypeOK' /\ Complete' /\ Rising'
    <3>1. /\ 1 \in 1 .. N + 1 /\ N \in 0 .. N
          /\ NameHash[n] \in Int
      BY IndexAssumption
    <3> QED
      BY <1>5, <2>1, <3>1 DEF IndexTypeOK, Complete, Rising, At, Search
  <2>3. Bracketed'
    BY <1>5 DEF Bracketed, Search, Field
  <2> QED
    BY <1>5, <2>1, <2>2, <2>3 DEF IInv, Search
<1>6. CASE Hit \/ Miss
  <2>1. IndexTypeOK /\ hash = Hash /\ Complete /\ Rising
    BY <1>6 DEF IInv, Hit, Miss
  <2>2. found' \in Field \cup {0}
    BY <1>6, <2>1, MidBetween DEF IndexTypeOK, Hit, Miss
  <2>3. IndexTypeOK' /\ Complete' /\ Rising'
    BY <1>6, <2>1, <2>2 DEF IndexTypeOK, Complete, Rising, At, Hit, Miss
  <2> QED
    BY <1>6, <2>1, <2>3 DEF IInv, Hit, Miss
<1>7. CASE Below \/ Above
  BY <1>7, NarrowIInv
<1>8. CASE UNCHANGED indexVars
  BY <1>8 DEF indexVars, IInv, IndexTypeOK, Complete, Bubbled, Rising,
     Bracketed, At
<1> QED
  BY <1>1, <1>2, <1>3, <1>4, <1>5, <1>6, <1>7, <1>8
     DEF IndexNext, Sort, SearchStep

(* The invariant holds of the index at any time.                           *)
THEOREM IndexInvariant == IndexSpec => []IInv
BY InitIInv, StepIInv, PTL DEF IndexSpec

-----------------------------------------------------------------------------
(* The variables of the index keep their types, and the sort stays inside  *)
(* of it, for any table of at most 127 headers.                            *)
THEOREM IndexTypeSafe == IndexSpec => []IndexTypeOK
<1>1. IInv => IndexTypeOK
  BY DEF IInv
<1> QED
  BY <1>1, IndexInvariant, PTL

(* The bubble sort of http_header_fields_bubble_sort sorts.                *)
THEOREM SortSorts == IndexSpec => []IndexSorted
<1>1. IInv => IndexSorted
  BY IndexAssumption DEF IInv, Rising, IndexSorted, At, Field
<1> QED
  BY <1>1, IndexInvariant, PTL

(* http_header_binary_n_search finds the header a name means, and no other *)
(* one, whatever the names are; only NULs may keep it from finding it.     *)
LEMMA SearchFinds ==
    ASSUME IInv, IndexNext, ipc = "search", ipc' = "ready"
    PROVE  /\ found' \in {0, Meant[name]}
           /\ name \in NulFree => found' = Meant[name]
<1>1. IndexTypeOK /\ hash = Hash /\ Complete /\ Bracketed
  BY DEF IInv
<1>2. /\ name \in Name /\ Meant[name] \in Field \cup {0}
      /\ target = NameHash[name]
  BY <1>1, IndexAssumption DEF IndexTypeOK, Bracketed
<1>3. ASSUME name \in NulFree, Meant[name] # 0
      PROVE  Hash[Meant[name]] = target /\ Meant[name] \in Resembles[name]
  BY <1>2, <1>3, HashesIdentify
<1>4. CASE Hit
  <2> DEFINE f == index[Mid]
  <2>1. f \in Field /\ Hash[f] = target
    BY <1>1, <1>4, MidBetween DEF Hit, IndexTypeOK
  <2>2. name \in NulFree /\ Meant[name] # 0 => Meant[name] = f
    BY <1>2, <1>3, <2>1, Differ
  <2>3. f \in Resembles[name] => Meant[name] = f
    BY <1>2, <2>1, HashesIdentify
  <2>4. name \in NulFree /\ Meant[name] = f => f \in Resembles[name]
    BY <1>2, <2>1, HashesIdentify
  <2>5. found' = IF f \in Resembles[name] THEN f ELSE 0
    BY <1>4 DEF Hit
  <2> HIDE DEF f
  <2> QED
    BY <2>2, <2>3, <2>4, <2>5
<1>5. CASE Miss
  <2>1. ASSUME name \in NulFree, Meant[name] # 0 PROVE FALSE
    <3>1. PICK p \in Field : index[p] = Meant[name]
      BY <1>1, <1>2, <2>1 DEF Complete
    <3>2. low <= p /\ p <= high
      BY <1>1, <1>3, <2>1, <3>1 DEF Bracketed, At
    <3> QED
      BY <3>2, <1>1, <1>5 DEF Miss, IndexTypeOK, Field
  <2> QED
    BY <1>5, <2>1 DEF Miss
<1> QED
  BY <1>4, <1>5 DEF IndexNext, Sort, SearchStep, Fill, Compare, Pass, Sorted,
     Search, Below, Above

(* http_header_binary_n_search returns the header of that name, if there   *)
(* is one, and for a name with NULs no other than the one in front of them. *)
THEOREM NamesAreFound == IndexSpec => FindsMeant
<1>1. IInv /\ [IndexNext]_indexVars =>
         [ipc = "search" /\ ipc' = "ready" =>
             IF name \in NulFree THEN found' = Meant[name]
                                 ELSE found' \in {0, Meant[name]}]_indexVars
  BY SearchFinds
<1> QED
  BY <1>1, IndexInvariant, PTL DEF IndexSpec, FindsMeant

-----------------------------------------------------------------------------
(* What holds of the headers of a message at any time: the tree is in      *)
(* order, balanced and keyed by what was added, and every thread leads to  *)
(* the next header of all that were added, though rotations and insertions *)
(* have happened since it was built.                                       *)
Leads(P, K) == \A p \in P : p[2] \in K /\ \A c \in K : p[1] < c => p[2] <= c

TreeInv ==
    /\ Good(tree) /\ Keys(tree) = added
    /\ Leads(Links(tree), added)
    /\ sound = TRUE
    /\ out \in Seq(Key)

HInv == IInv /\ TreeInv

(* http_header_add_by_id: the new header comes between no thread and the   *)
(* header it leads to, as insertion drops the thread there.                *)
LEMMA AddKeeps ==
    ASSUME TreeInv, NEW k \in Key, Add(k)
    PROVE  TreeInv'
<1>1. /\ Good(tree) /\ tree \in Tree /\ Keys(tree) = added /\ sound = TRUE
      /\ Leads(Links(tree), added) /\ added \subseteq Nat /\ k \in Nat
  BY Apartness DEF TreeInv, Good
<1>2. /\ tree' = Insert(tree, k).tree /\ sound' = (sound /\ Insert(tree, k).sound)
      /\ added' = added \cup {k} /\ out' = <<>>
  BY DEF Add
<1>3. out' \in Seq(Key)
  BY <1>2
<1>4. CASE k \in added
  <2>1. Insert(tree, k) = Result(tree, "exist")
    BY <1>1, <1>4, InsertOld
  <2>2. tree' = tree /\ sound' = TRUE /\ added' = added
    <3>1. Result(tree, "exist").tree = tree /\ Result(tree, "exist").sound = TRUE
      BY DEF Result
    <3>2. added' = added
      BY <1>2, <1>4
    <3> QED
      BY <1>1, <1>2, <2>1, <3>1, <3>2, Zenon
  <2> QED
    BY <1>1, <1>3, <2>2 DEF TreeInv
<1>5. CASE k \notin added
  <2>1. Height(tree) < Levels
    BY <1>1, <1>5, Room
  <2>2. PICK w, z : Insert(tree, k) = Result(w, z) /\ Grown(tree, k, w, z)
    BY <1>1, <1>5, <2>1, InsertNew
  <2>3. tree' = w /\ sound' = TRUE
    <3>1. Result(w, z).tree = w /\ Result(w, z).sound = TRUE
      BY DEF Result
    <3> QED
      BY <1>1, <1>2, <2>2, <3>1, Zenon
  <2>4. /\ Good(w) /\ Keys(w) = added' /\ Links(w) \subseteq Links(tree)
        /\ \A p \in Links(w) : ~ (p[1] < k /\ k < p[2])
    BY <1>1, <1>2, <2>2 DEF Grown
  <2>5. Leads(Links(w), added')
    <3> SUFFICES ASSUME NEW p \in Links(w)
                 PROVE  p[2] \in added' /\ \A c \in added' : p[1] < c => p[2] <= c
      BY DEF Leads
    <3>1. p[2] \in added /\ \A c \in added : p[1] < c => p[2] <= c
      BY <1>1, <2>4 DEF Leads
    <3>2. p[2] \in Nat /\ p[1] \in Nat
      BY <1>1, <2>4, <3>1, Apartness
    <3>3. p[1] < k => p[2] <= k
      BY <1>1, <2>4, <3>2
    <3> QED
      BY <1>2, <3>1, <3>3
  <2> QED
    BY <1>3, <2>3, <2>4, <2>5 DEF TreeInv
<1> QED
  BY <1>4, <1>5

(* Printing threads every node to the next one and walks all of them.      *)
LEMMA ToStrKeeps ==
    ASSUME TreeInv, ToStr
    PROVE  TreeInv' /\ out' = InOrder(tree') /\ added' = added
<1> DEFINE order == InOrder(tree)
           u == Threaded(tree, order)
<1>1. /\ Good(tree) /\ tree \in Tree /\ Keys(tree) = added
      /\ added \subseteq Key /\ sound = TRUE
  BY Apartness DEF TreeInv, Good
<1>2. tree' = u /\ out' = Walk(tree') /\ added' = added /\ sound' = sound
  BY DEF ToStr
<1>3. Rises(order, added)
  BY <1>1, InOrderRises
<1> HIDE DEF order
<1>4. \A k \in added : IsNext(added, k, Follower(order, k))
  BY <1>1, <1>3, FollowerIsNext
<1>5. SameShape(tree, u) /\ Linked(u, added)
  BY <1>1, <1>4, ThreadedKeeps
<1> HIDE DEF u
<1>6. Good(u) /\ Keys(u) = added
  BY <1>1, <1>5 DEF SameShape
<1>7. Walk(u) = InOrder(u)
  BY <1>5, <1>6, WalkPrints
<1>8. out' = InOrder(u)
  BY <1>2, <1>7
<1>9. out' \in Seq(Key)
  <2>1. Rises(InOrder(u), added)
    BY <1>6, InOrderRises DEF Good
  <2> DEFINE s == InOrder(u)
  <2> HIDE DEF s
  <2>2. s \in Seq(Nat) /\ \A v \in 1 .. Len(s) : s[v] \in Key
    BY <1>1, <2>1 DEF Rises, s
  <2>3. s \in Seq(Key)
    BY <2>2
  <2> QED
    BY <1>8, <2>3 DEF s
<1>10. Leads(Links(u), added)
  <2> SUFFICES ASSUME NEW p \in Links(u)
               PROVE  p[2] \in added /\ \A c \in added : p[1] < c => p[2] <= c
    BY DEF Leads
  <2>1. PICK n \in Nodes(u) : n.thr # 0 /\ p = <<n.key, n.thr>>
    BY DEF Links
  <2>2. IsNext(added, n.key, n.thr)
    BY <1>5, <2>1 DEF Linked
  <2> QED
    BY <2>1, <2>2 DEF IsNext
<1> QED
  BY <1>1, <1>2, <1>6, <1>8, <1>9, <1>10 DEF TreeInv

(* There are no headers at first.                                          *)
LEMMA InitHInv == HeadersInit => HInv
<1> SUFFICES ASSUME HeadersInit PROVE HInv
  OBVIOUS
<1>1. IInv
  BY InitIInv DEF HeadersInit
<1>2. tree = Nil /\ added = {} /\ out = <<>> /\ sound = TRUE
  BY DEF HeadersInit, TreeInit
<1>3. TreeInv
  BY <1>2, GoodNil, PartsOfNil DEF TreeInv, Leads
<1> QED
  BY <1>1, <1>3 DEF HInv

(* Every step keeps the invariant; a name is added under a key of the tree *)
(* because the search finds what it means.                                 *)
LEMMA StepHInv == HInv /\ [HeadersNext]_headersVars => HInv'
<1> SUFFICES ASSUME HInv, [HeadersNext]_headersVars PROVE HInv'
  OBVIOUS
<1>0. IInv /\ TreeInv
  BY DEF HInv
<1>1. UNCHANGED treeVars => TreeInv'
  BY <1>0 DEF treeVars, TreeInv
<1>2. [IndexNext]_indexVars => IInv'
  BY <1>0, StepIInv
<1>3. CASE (Sort \/ \E n \in Name : Search(n)) /\ UNCHANGED treeVars
  BY <1>1, <1>2, <1>3 DEF IndexNext, HInv
<1>4. CASE AddByName
  <2>1. IInv'
    BY <1>2, <1>4 DEF AddByName, IndexNext
  <2>2. ASSUME ipc' = "ready", found' # 0 PROVE TreeInv'
    <3>1. ipc = "search"
      BY <1>4 DEF AddByName, SearchStep, Hit, Below, Above, Miss
    <3>2. found' \in {0, Meant[name]}
      BY <1>0, <1>4, <2>2, <3>1, SearchFinds DEF AddByName, IndexNext
    <3>3. name \in Name
      BY <1>0 DEF IInv, IndexTypeOK
    <3>4. found' \in Key
      BY <2>2, <3>2, <3>3, HeadersAssumption
    <3>5. Add(found')
      BY <1>4, <2>2 DEF AddByName
    <3> QED
      BY <1>0, <3>4, <3>5, AddKeeps
  <2>3. ASSUME ~ (ipc' = "ready" /\ found' # 0) PROVE TreeInv'
    BY <1>1, <1>4, <2>3 DEF AddByName
  <2> QED
    BY <2>1, <2>2, <2>3 DEF HInv
<1>5. CASE AddById
  <2>1. PICK k \in Key : Add(k)
    BY <1>5 DEF AddById
  <2>2. TreeInv'
    BY <1>0, <2>1, AddKeeps
  <2> QED
    BY <1>2, <1>5, <2>2 DEF AddById, HInv
<1>6. CASE PrintHeaders
  <2>1. TreeInv'
    BY <1>0, <1>6, ToStrKeeps DEF PrintHeaders
  <2> QED
    BY <1>2, <1>6, <2>1 DEF PrintHeaders, HInv
<1>7. CASE FreeHeaders
  <2>1. tree' = Nil /\ added' = {} /\ out' = <<>> /\ sound' = TRUE
    BY <1>0, <1>7 DEF FreeHeaders, Destroy, TreeInv
  <2>2. TreeInv'
    BY <2>1, GoodNil, PartsOfNil DEF TreeInv, Leads
  <2> QED
    BY <1>2, <1>7, <2>2 DEF FreeHeaders, HInv
<1>8. CASE UNCHANGED headersVars
  BY <1>1, <1>2, <1>8 DEF headersVars, HInv
<1> QED
  BY <1>3, <1>4, <1>5, <1>6, <1>7, <1>8 DEF HeadersNext

(* The invariant holds of the headers of any message at any time.          *)
THEOREM HeadersInvariant == HeadersSpec => []HInv
BY InitHInv, StepHInv, PTL DEF HeadersSpec

(* Whatever happens to the tree, the index is sorted and searched as it is *)
(* on its own, so that what is proved of it holds here.                    *)
THEOREM UsesTheIndex == HeadersSpec => IndexSpec
<1>1. HeadersInit => IndexInit
  BY DEF HeadersInit
<1>2. [HeadersNext]_headersVars => [IndexNext]_indexVars
  BY DEF HeadersNext, headersVars, IndexNext, AddByName, AddById, PrintHeaders, FreeHeaders
<1> QED
  BY <1>1, <1>2, PTL DEF HeadersSpec, IndexSpec

-----------------------------------------------------------------------------
(* What the invariant says of a single node.                               *)
LEMMA NodeIs ==
    ASSUME TreeInv, NEW n \in Nodes(tree)
    PROVE  /\ n \in Tree /\ n # Nil /\ Fit(n)
           /\ n.key \in Key /\ n.thr \in Key \cup {0} /\ n.r \in Tree
           /\ n.key \in added
<1>1. n \in Tree \ {Nil} /\ Fit(n)
  BY NodesAreTrees DEF TreeInv, Good
<1> QED
  BY <1>1, Subtrees DEF TreeInv, Keys

(* Balance factors stay between -1 and 1, and no node has a right child    *)
(* and a thread, for any headers that are added, printed and freed.        *)
THEOREM TreeTypeSafe == HeadersSpec => []TypeOK
<1>1. HInv => TypeOK
  <2> SUFFICES ASSUME TreeInv PROVE TypeOK
    BY DEF HInv
  <2>1. ASSUME NEW n \in Nodes(tree)
        PROVE  /\ n.key \in Key /\ n.bf \in -1 .. 1 /\ n.thr \in Key \cup {0}
               /\ n.thr # 0 => IsNil(n.r)
    BY NodeIs, Subtrees DEF Fit
  <2>2. added \subseteq Key
    BY Apartness DEF TreeInv
  <2> QED
    BY <2>1, <2>2 DEF TypeOK, TreeInv
<1> QED
  BY <1>1, HeadersInvariant, PTL

(* The assertions of btree_internal_insert never fail: the tree is         *)
(* balanced, and balance_factor is the difference of the heights, whatever *)
(* was inserted and whichever threads there are.                           *)
THEOREM StaysBalanced == HeadersSpec => []Balanced
<1>1. HInv => Balanced
  BY NodeIs DEF HInv, TreeInv, Balanced, Fit
<1> QED
  BY <1>1, HeadersInvariant, PTL

(* A thread that is older than the last insertions and rotations still     *)
(* leads to the next header.                                               *)
THEOREM ThreadsStayTrue == HeadersSpec => []ThreadsLeadOn
<1>1. HInv => ThreadsLeadOn
  <2> SUFFICES ASSUME TreeInv, NEW n \in Nodes(tree), n.thr # 0
               PROVE  n.thr = Min({ k \in added : k > n.key })
    BY DEF HInv, ThreadsLeadOn
  <2> DEFINE K == { k \in added : k > n.key }
  <2>1. /\ added \subseteq Nat /\ n.key \in Nat /\ n.key < n.thr
        /\ n.thr \in Nat
    BY NodeIs, Apartness, HeaderTreeAssumption DEF TreeInv, Fit
  <2>2. <<n.key, n.thr>> \in Links(tree)
    BY DEF Links
  <2>3. n.thr \in added /\ \A c \in added : n.key < c => n.thr <= c
    BY <2>2 DEF TreeInv, Leads
  <2>4. n.thr \in K /\ (\A c \in K : n.thr <= c) /\ K \subseteq Nat
    BY <2>1, <2>3
  <2> HIDE DEF K
  <2>5. \A c \in K : (\A d \in K : c <= d) => c = n.thr
    BY <2>1, <2>4
  <2>6. Min(K) = n.thr
    BY <2>4, <2>5 DEF Min
  <2> QED
    BY <2>6 DEF K
<1> QED
  BY <1>1, HeadersInvariant, PTL

(* http_header_to_str prints every header once and in order, and           *)
(* http_header_len and http_header_destroy reach each of them once.        *)
THEOREM PrintsThemAll == HeadersSpec => PrintsAll
<1>1. ASSUME HInv, ToStr PROVE Printed
  <2>1. TreeInv /\ TreeInv' /\ out' = InOrder(tree') /\ added' = added
    BY <1>1, ToStrKeeps DEF HInv
  <2>2. Rises(out', added)
    BY <2>1, InOrderRises DEF TreeInv, Good
  <2>3. Once(PreOrder(tree), added)
    BY <2>1, PreOrderOnce DEF TreeInv, Good
  <2>4. ToSet(out') = added
    <3> DEFINE s == out'
    <3> HIDE DEF s
    <3>1. Rises(s, added)
      BY <2>2 DEF s
    <3>2. DOMAIN s = 1 .. Len(s)
      BY <3>1 DEF Rises
    <3>3. ToSet(s) = added
      BY <3>1, <3>2 DEF Rises, ToSet
    <3> QED
      BY <3>3 DEF s
  <2>5. \A v \in 1 .. Len(out') - 1 : out'[v] < out'[v + 1]
    <3> TAKE v \in 1 .. Len(out') - 1
    <3>1. Len(out') \in Nat
      BY <2>2, LenProperties DEF Rises
    <3>2. v \in 1 .. Len(out') /\ v + 1 \in 1 .. Len(out') /\ v < v + 1
      BY <3>1
    <3> QED
      BY <2>2, <3>2 DEF Rises
  <2>6. IsInjective(PreOrder(tree)) /\ ToSet(PreOrder(tree)) = added
    <3> DEFINE s == PreOrder(tree)
    <3> HIDE DEF s
    <3>1. Once(s, added)
      BY <2>3 DEF s
    <3>2. DOMAIN s = 1 .. Len(s)
      BY <3>1 DEF Once
    <3>3. ToSet(s) = added
      BY <3>1, <3>2 DEF Once, ToSet
    <3>4. IsInjective(s)
      BY <3>1, <3>2 DEF Once, IsInjective
    <3> QED
      BY <3>3, <3>4 DEF s
  <2> QED
    BY <2>4, <2>5, <2>6 DEF Printed
<1>2. HInv => [ToStr => Printed]_treeVars
  BY <1>1
<1> QED
  BY <1>2, HeadersInvariant, PTL DEF PrintsAll
=============================================================================
