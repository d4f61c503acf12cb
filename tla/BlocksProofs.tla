---------------------------- MODULE BlocksProofs ----------------------------
(***************************************************************************)
(* For any number of blocks the links of object_pool.c and list.c stay a   *)
(* chain and a ring that share no block, and do what BlockSets promises.   *)
(* The length of a walk is never counted: what a link leads to is the      *)
(* smallest set closed under the links, and each lemma says how that set   *)
(* changes when links are rewritten.                                       *)
(***************************************************************************)
EXTENDS Blocks, TLAPS, WellFoundedInduction

pool == From(available)

(* The ring can be walked in both directions without leaving it.           *)
Ring == \A n \in list \cup {Head} :
    /\ next[n] \in list \cup {Head} /\ prev[n] \in list \cup {Head}
    /\ prev[next[n]] = n /\ next[prev[n]] = n

(* Each block is in the pool or in the list, and the pool ends with NULL.  *)
Parted ==
    /\ pool \cup list = Block /\ pool \cap list = {}
    /\ \A b \in pool : next[b] # Head

(* No walk comes back to where it began, and from everywhere in the list   *)
(* it comes by the last connection, behind which list_append appends.      *)
NoCycle == \A b \in Block : b \notin From(next[b])
ToTheLast == \A b \in list : prev[Head] \in From(b)

Cells ==
    /\ next \in [Node -> Node \cup {NULL}]
    /\ prev \in [Node -> Node \cup {NULL}]
    /\ available \in Block \cup {NULL}
    /\ node \in list \cup {Head, NULL}
    /\ closed \subseteq Block

IInv == Cells /\ Ring /\ Parted /\ NoCycle /\ ToTheLast

-----------------------------------------------------------------------------
(* Walks along any links f.                                                *)
Leads(f, S) == \A b \in S : f[b] \in Block => f[b] \in S
Reach(f, n) == { b \in Block : \A S \in SUBSET Block :
                     Leads(f, S) /\ (n \in Block => n \in S) => b \in S }

LEMMA FromReach ==
  /\ \A n : From(n) = Reach(next, n)
  /\ \A n : From(n)' = Reach(next', n)
  /\ pool = Reach(next, available) /\ pool' = Reach(next', available')
  /\ list = Reach(next, next[Head]) /\ list' = Reach(next', next'[Head])
<1>1. \A n : From(n) = Reach(next, n)
  BY DEF From, Reach, Entire, Leads
<1>2. \A n : From(n)' = Reach(next', n)
  BY DEF From, Reach, Entire, Leads
<1>3. pool = Reach(next, available) /\ list = Reach(next, next[Head])
  BY DEF pool, list, From, Reach, Entire, Leads
<1>4. pool' = Reach(next', available') /\ list' = Reach(next', next'[Head])
  BY DEF pool, list, From, Reach, Entire, Leads, Head
<1> QED
  BY <1>1, <1>2, <1>3, <1>4

LEMMA ReachMin ==
  ASSUME NEW f, NEW n, NEW S \in SUBSET Block, Leads(f, S),
         n \in Block => n \in S
  PROVE  Reach(f, n) \subseteq S
  BY DEF Reach

LEMMA ReachLeads ==
  ASSUME NEW f, NEW n
  PROVE  /\ Reach(f, n) \subseteq Block
         /\ Leads(f, Reach(f, n))
         /\ n \in Block => n \in Reach(f, n)
         /\ n \notin Block => Reach(f, n) = {}
<1>1. Reach(f, n) \subseteq Block /\ (n \in Block => n \in Reach(f, n))
  BY DEF Reach
<1>2. Leads(f, Reach(f, n))
  BY DEF Reach, Leads
<1>3. n \notin Block => Reach(f, n) = {}
  <2>1. Leads(f, {}) /\ {} \in SUBSET Block
    BY DEF Leads
  <2>2. n \notin Block => Reach(f, n) \subseteq {}
    BY <2>1, ReachMin
  <2> QED
    BY <2>2
<1> QED
  BY <1>1, <1>2, <1>3

(* A walk is its first cell and the walk from the next.                    *)
LEMMA ReachUnfold ==
  ASSUME NEW f, NEW n \in Block
  PROVE  Reach(f, n) = {n} \cup Reach(f, f[n])
<1>1. {n} \cup Reach(f, f[n]) \subseteq Reach(f, n)
  <2>1. n \in Reach(f, n) /\ Leads(f, Reach(f, n)) /\ Reach(f, n) \in SUBSET Block
    BY ReachLeads
  <2>2. f[n] \in Block => f[n] \in Reach(f, n)
    BY <2>1 DEF Leads
  <2> QED
    BY <2>1, <2>2, ReachMin
<1>2. Reach(f, n) \subseteq {n} \cup Reach(f, f[n])
  <2> DEFINE S == {n} \cup Reach(f, f[n])
  <2>1. Leads(f, S) /\ S \in SUBSET Block /\ n \in S
    BY ReachLeads DEF Leads
  <2> QED
    BY <2>1, ReachMin
<1> QED
  BY <1>1, <1>2

LEMMA ReachTrans ==
  ASSUME NEW f, NEW n, NEW c \in Reach(f, n)
  PROVE  /\ Reach(f, c) \subseteq Reach(f, n)
         /\ Reach(f, f[c]) \subseteq Reach(f, n)
<1>1. Leads(f, Reach(f, n)) /\ Reach(f, n) \in SUBSET Block
  BY ReachLeads
<1>2. f[c] \in Block => f[c] \in Reach(f, n)
  BY <1>1 DEF Leads
<1> QED
  BY <1>1, <1>2, ReachMin

(* Every cell of a walk but the first has one before it.                   *)
LEMMA ReachBefore ==
  ASSUME NEW f, NEW n, NEW b \in Reach(f, n), b # n
  PROVE  \E c \in Reach(f, n) : f[c] = b
<1> SUFFICES ASSUME \A c \in Reach(f, n) : f[c] # b PROVE FALSE
  OBVIOUS
<1> DEFINE S == Reach(f, n) \ {b}
<1>1. S \in SUBSET Block /\ Leads(f, S) /\ (n \in Block => n \in S)
  BY ReachLeads DEF Leads
<1>2. Reach(f, n) \subseteq S
  BY <1>1, ReachMin
<1> QED
  BY <1>2

(* Links elsewhere do not matter.                                          *)
LEMMA ReachSame ==
  ASSUME NEW f, NEW g, NEW n, \A c \in Reach(f, n) : g[c] = f[c]
  PROVE  Reach(g, n) = Reach(f, n)
<1> DEFINE T == Reach(f, n)
           S == Reach(g, n)
<1>1. /\ T \in SUBSET Block /\ Leads(f, T) /\ (n \in Block => n \in T)
      /\ S \in SUBSET Block /\ Leads(g, S) /\ (n \in Block => n \in S)
  BY ReachLeads
<1>2. Leads(g, T)
  BY <1>1 DEF Leads
<1>3. S \subseteq T
  BY <1>1, <1>2, ReachMin
<1>4. Leads(f, S)
  BY <1>1, <1>3 DEF Leads
<1>5. T \subseteq S
  BY <1>1, <1>4, ReachMin
<1> QED
  BY <1>3, <1>5

(* A cell b is taken out of the walk: the one cell that led to it now      *)
(* leads to the cell behind it.                                            *)
LEMMA ReachCut ==
  ASSUME NEW f, NEW g, NEW n, NEW b \in Block, NEW p,
         n # b, p # b, f[b] # b,
         p \in Block => f[p] = b, g[p] = f[b],
         \A c \in Reach(f, n) : f[c] = b => c = p,
         \A c \in Reach(f, n) : c # b /\ c # p => g[c] = f[c]
  PROVE  Reach(g, n) = Reach(f, n) \ {b}
<1> DEFINE T == Reach(f, n)
           S == Reach(g, n)
           U == S \cup (IF p \in S THEN {b} ELSE {})
<1>1. /\ T \in SUBSET Block /\ Leads(f, T) /\ (n \in Block => n \in T)
      /\ S \in SUBSET Block /\ Leads(g, S) /\ (n \in Block => n \in S)
  BY ReachLeads
<1>2. Leads(g, T \ {b})
  <2> SUFFICES ASSUME NEW c \in T \ {b}, g[c] \in Block PROVE g[c] \in T \ {b}
    BY DEF Leads
  <2>1. CASE c = p
    <3>1. b \in T
      BY <1>1, <2>1 DEF Leads
    <3> QED
      BY <1>1, <2>1, <3>1 DEF Leads
  <2>2. CASE c # p
    BY <1>1, <2>2 DEF Leads
  <2> QED
    BY <2>1, <2>2
<1>3. S \subseteq T \ {b}
  BY <1>1, <1>2, ReachMin
<1>4. Leads(f, U)
  <2> SUFFICES ASSUME NEW c \in U, f[c] \in Block PROVE f[c] \in U
    BY DEF Leads
  <2>1. CASE c = p /\ c # b
    BY <1>1, <1>3, <2>1
  <2>2. CASE c # p /\ c # b
    BY <1>1, <1>3, <2>2 DEF Leads
  <2>3. CASE c = b
    <3>1. p \in S
      BY <1>3, <2>3
    <3> QED
      BY <1>1, <2>3, <3>1 DEF Leads
  <2> QED
    BY <2>1, <2>2, <2>3
<1>5. T \subseteq U
  <2>1. U \in SUBSET Block /\ (n \in Block => n \in U)
    BY <1>1
  <2> QED
    BY <1>4, <2>1, ReachMin
<1> QED
  BY <1>3, <1>5

(* A cell b is put behind the last cell of the walk.                       *)
LEMMA ReachGrow ==
  ASSUME NEW f, NEW g, NEW n \in Block, NEW b \in Block, NEW l \in Reach(f, n),
         b \notin Reach(f, n), f[l] \notin Block, g[l] = b, g[b] \notin Block,
         \A c \in Reach(f, n) : c # l => g[c] = f[c]
  PROVE  Reach(g, n) = Reach(f, n) \cup {b}
<1> DEFINE T == Reach(f, n)
           S == Reach(g, n)
<1>1. /\ T \in SUBSET Block /\ Leads(f, T) /\ n \in T
      /\ S \in SUBSET Block /\ Leads(g, S) /\ n \in S
  BY ReachLeads
<1>2. Leads(g, T \cup {b})
  BY <1>1 DEF Leads
<1>3. S \subseteq T \cup {b}
  <2>1. T \cup {b} \in SUBSET Block /\ n \in T \cup {b}
    BY <1>1
  <2> QED
    BY <1>2, <2>1, ReachMin
<1>4. Leads(f, S \cap T)
  BY <1>1 DEF Leads
<1>5. T \subseteq S
  <2>1. S \cap T \in SUBSET Block /\ n \in S \cap T
    BY <1>1
  <2>2. T \subseteq S \cap T
    BY <1>4, <2>1, ReachMin
  <2> QED
    BY <2>2
<1>6. b \in S
  BY <1>1, <1>5 DEF Leads
<1> QED
  BY <1>3, <1>5, <1>6

-----------------------------------------------------------------------------
LEMMA NodeTypes ==
  /\ Head \notin Block /\ NULL \notin Block /\ Head # NULL
  /\ Node = Block \cup {Head}
  BY BlocksAssumption DEF Head, NULL, Node, Block

(* The links of a consistent pool and list.                                *)
LEMMA Standing ==
  ASSUME IInv
  PROVE  /\ DOMAIN next = Node /\ DOMAIN prev = Node
         /\ pool \subseteq Block /\ list \subseteq Block
         /\ \A b \in Block : b \in pool <=> b \notin list
         /\ \A b \in pool : /\ Reach(next, next[b]) \subseteq pool
                            /\ next[b] \in pool \cup {NULL}
         /\ \A b \in list : /\ Reach(next, b) \subseteq list
                            /\ Reach(next, next[b]) \subseteq list
         /\ \A b \in Block : next[b] # b /\ b \notin Reach(next, next[b])
         /\ \A b \in list : prev[Head] \in Reach(next, b)
<1> USE FromReach
<1>1. DOMAIN next = Node /\ DOMAIN prev = Node
  BY DEF IInv, Cells
<1>2. pool \subseteq Block /\ list \subseteq Block
  BY ReachLeads
<1>3. \A b \in Block : b \in pool <=> b \notin list
  BY DEF IInv, Parted
<1>4. ASSUME NEW b \in pool
      PROVE  /\ Reach(next, next[b]) \subseteq pool
             /\ next[b] \in pool \cup {NULL}
  <2>1. Reach(next, next[b]) \subseteq pool
    BY ReachTrans
  <2>2. next[b] \in Block \cup {NULL}
    BY <1>2, NodeTypes DEF IInv, Cells, Parted
  <2>3. next[b] \in Block => next[b] \in pool
    BY <2>1, ReachLeads
  <2> QED
    BY <2>1, <2>2, <2>3
<1>5. ASSUME NEW b \in list
      PROVE  /\ Reach(next, b) \subseteq list
             /\ Reach(next, next[b]) \subseteq list
             /\ prev[Head] \in Reach(next, b)
  BY ReachTrans DEF IInv, ToTheLast
<1>6. ASSUME NEW b \in Block
      PROVE  next[b] # b /\ b \notin Reach(next, next[b])
  <2>1. b \notin Reach(next, next[b])
    BY DEF IInv, NoCycle
  <2> QED
    BY <2>1, ReachLeads
<1> QED
  BY <1>1, <1>2, <1>3, <1>4, <1>5, <1>6

(* object_pool_create chains all blocks, in the order of their addresses.  *)
LEMMA Least ==
  ASSUME NEW S \in SUBSET Nat, S # {}
  PROVE  \E x \in S : \A y \in S : x <= y
<1> DEFINE R == OpToRel(<, Nat)
<1>1. IsWellFoundedOn(R, Nat)
  BY NatLessThanWellFounded
<1>2. \A x, y \in Nat : y < x => <<y, x>> \in R
  BY DEF OpToRel
<1> HIDE DEF R
<1>3. PICK x \in S : \A y \in S : <<y, x>> \notin R
  BY <1>1, WFMin
<1>4. x \in Nat
  OBVIOUS
<1>5. ASSUME NEW y \in S PROVE x <= y
  <2>1. y \in Nat /\ <<y, x>> \notin R
    BY <1>3
  <2>2. ~(y < x)
    BY <1>2, <1>4, <2>1
  <2> QED
    BY <1>4, <2>1, <2>2
<1> QED
  BY <1>5

LEMMA Initially == Init => IInv /\ Sets!Init
<1> SUFFICES ASSUME Init PROVE IInv /\ Sets!Init
  OBVIOUS
<1> USE FromReach, NodeTypes
<1>1. /\ N \in Nat /\ N >= 1 /\ available = 1 /\ 1 \in Block
      /\ next[Head] = Head /\ prev[Head] = Head
      /\ \A b \in Block : next[b] = IF b = N THEN NULL ELSE b + 1
      /\ node = NULL /\ closed = {}
  BY BlocksAssumption DEF Init, Block
<1>2. list = {}
  BY <1>1, ReachLeads
<1>3. pool = Block
  <2> DEFINE T == Block \ pool
  <2>1. SUFFICES ASSUME T # {} PROVE FALSE
    BY ReachLeads
  <2>2. T \in SUBSET Nat
    BY DEF Block
  <2>3. PICK b \in T : \A y \in T : b <= y
    BY <2>1, <2>2, Least
  <2>4. b # 1 /\ b \in Block
    BY <1>1, ReachLeads
  <2>5. b - 1 \in Block /\ b - 1 # N /\ b - 1 + 1 = b /\ ~(b <= b - 1)
    BY <1>1, <2>4 DEF Block
  <2>6. b - 1 \in pool
    BY <2>3, <2>5
  <2>7. next[b - 1] = b
    BY <1>1, <2>5
  <2>8. Leads(next, pool)
    BY ReachLeads
  <2> QED
    BY <2>4, <2>6, <2>7, <2>8 DEF Leads
<1>4. NoCycle
  <2> SUFFICES ASSUME NEW b \in Block PROVE b \notin Reach(next, next[b])
    BY DEF NoCycle
  <2> DEFINE S == { c \in Block : c > b }
  <2>1. \A c \in Block : c \in Nat
    BY DEF Block
  <2>2. Leads(next, S)
    <3> SUFFICES ASSUME NEW c \in S, next[c] \in Block PROVE next[c] \in S
      BY DEF Leads
    <3>1. next[c] = c + 1
      BY <1>1
    <3> QED
      BY <2>1, <3>1
  <2>3. next[b] \in Block => next[b] \in S
    <3>1. next[b] \in Block => next[b] = b + 1
      BY <1>1
    <3> QED
      BY <2>1, <3>1
  <2>4. b \notin S
    BY <2>1
  <2> QED
    BY <2>2, <2>3, <2>4, ReachMin
<1>5. Cells
  <2>1. next \in [Node -> Node \cup {NULL}]
    BY <1>1 DEF Init, Block
  <2>2. prev \in [Node -> Node \cup {NULL}]
    BY DEF Init
  <2> QED
    BY <1>1, <2>1, <2>2 DEF Cells
<1>6. Ring /\ ToTheLast /\ Parted
  <2>1. Ring /\ ToTheLast
    BY <1>1, <1>2 DEF Ring, ToTheLast
  <2>2. ASSUME NEW b \in Block PROVE next[b] # Head
    <3>1. next[b] = NULL \/ next[b] = b + 1
      BY <1>1
    <3>2. b + 1 # 0
      BY DEF Block
    <3> QED
      BY <3>1, <3>2 DEF Head
  <2> QED
    BY <1>2, <1>3, <2>1, <2>2 DEF Parted
<1>7. Sets!Init
  BY <1>1, <1>2, <1>3, ReachLeads DEF Sets!Init, pool
<1> QED
  BY <1>4, <1>5, <1>6, <1>7 DEF IInv

-----------------------------------------------------------------------------
(* What the operations do to the walks.                                    *)

(* A connection is appended: the head of the pool goes behind the last.    *)
LEMMA AdmitWalks ==
  ASSUME IInv, Admit
  PROVE  LET b == available
             l == prev[Head]
         IN /\ b \in pool /\ pool' = pool \ {b} /\ list' = list \cup {b}
            /\ b \notin list /\ l \in list \cup {Head} /\ next[l] = Head
            /\ (l = Head) <=> (list = {})
            /\ next'[b] = Head /\ next'[l] = b
            /\ prev'[b] = l /\ prev'[Head] = b
            /\ \A n \in Node : n # b /\ n # l => next'[n] = next[n]
            /\ \A n \in Node : n # b /\ n # Head => prev'[n] = prev[n]
            /\ \A n \in list : Reach(next', n) = Reach(next, n) \cup {b}
            /\ Reach(next', b) = {b}
<1> DEFINE b == available
           l == prev[Head]
<1> USE FromReach, NodeTypes
<1>1. /\ b \in Block /\ available' = next[b]
      /\ next' = [next EXCEPT ![b] = Head, ![l] = b]
      /\ prev' = [prev EXCEPT ![b] = l, ![Head] = b]
  BY DEF Admit, IInv, Cells
<1>2. /\ DOMAIN next = Node /\ DOMAIN prev = Node
      /\ pool \subseteq Block /\ list \subseteq Block
      /\ \A c \in Block : c \in pool <=> c \notin list
      /\ \A c \in pool : Reach(next, next[c]) \subseteq pool
      /\ \A c \in list : Reach(next, c) \subseteq list
      /\ \A c \in Block : c \notin Reach(next, next[c])
      /\ \A c \in list : l \in Reach(next, c)
  BY Standing
<1>3. b \in pool /\ b \notin list
  BY <1>1, <1>2, ReachLeads
<1>4. l \in list \cup {Head} /\ next[l] = Head /\ l # b /\ l \notin pool
  BY <1>2, <1>3 DEF IInv, Ring
<1>5. /\ next'[b] = Head /\ next'[l] = b /\ prev'[b] = l /\ prev'[Head] = b
      /\ \A n \in Node : n # b /\ n # l => next'[n] = next[n]
      /\ \A n \in Node : n # b /\ n # Head => prev'[n] = prev[n]
  BY <1>1, <1>2, <1>4
<1>6. (l = Head) <=> (list = {})
  <2>1. CASE list = {}
    BY <1>4, <2>1
  <2>2. CASE l = Head
    <3>1. next[Head] = Head
      BY <1>4, <2>2
    <3> QED
      BY <2>2, <3>1, ReachLeads
  <2> QED
    BY <2>1, <2>2
<1> HIDE DEF b, l
<1>7. pool' = pool \ {b}
  <2>1. Reach(next, next[b]) \subseteq pool /\ b \notin Reach(next, next[b])
    BY <1>1, <1>2, <1>3
  <2>2. \A c \in Reach(next, next[b]) : next'[c] = next[c]
    BY <1>2, <1>4, <1>5, <2>1
  <2>3. Reach(next', next[b]) = Reach(next, next[b])
    BY <2>2, ReachSame
  <2>4. pool = {b} \cup Reach(next, next[b])
    BY <1>1, ReachUnfold DEF b
  <2> QED
    BY <1>1, <2>1, <2>3, <2>4
<1>8. Reach(next', b) = {b}
  <2>1. Reach(next', b) = {b} \cup Reach(next', next'[b])
    <3> HIDE FromReach, NodeTypes
    <3> QED
      BY <1>1, ReachUnfold
  <2> QED
    BY <1>5, <2>1, ReachLeads
<1>9. ASSUME NEW n \in list
      PROVE  Reach(next', n) = Reach(next, n) \cup {b}
  <2>1. n \in Block /\ l \in Reach(next, n) /\ Reach(next, n) \subseteq list
    BY <1>2
  <2>2. \A c \in Reach(next, n) : c # l => next'[c] = next[c]
    BY <1>2, <1>3, <1>5, <2>1
  <2>3. b \notin Reach(next, n) /\ next[l] \notin Block /\ next'[b] \notin Block
    BY <1>3, <1>4, <1>5, <2>1
  <2> HIDE FromReach, NodeTypes
  <2>4. b \in Block /\ next'[l] = b
    BY <1>1, <1>5
  <2> QED
    BY <2>1, <2>2, <2>3, <2>4, ReachGrow
<1>10. list' = list \cup {b}
  <2>1. CASE list = {}
    <3>1. next'[Head] = b
      BY <1>5, <1>6, <2>1
    <3> QED
      BY <1>8, <2>1, <3>1
  <2>2. CASE list # {}
    <3>1. next[Head] \in Block
      BY <2>2, ReachLeads
    <3>2. next'[Head] = next[Head]
      BY <1>1, <1>5, <1>6, <2>2
    <3>3. next[Head] \in list
      BY <3>1, ReachLeads
    <3> QED
      BY <1>9, <3>2, <3>3
  <2> QED
    BY <2>1, <2>2
<1> QED
  BY <1>3, <1>4, <1>5, <1>6, <1>7, <1>8, <1>9, <1>10 DEF b, l

(* The block under list_traverse is unlinked and put in front of the pool. *)
LEMMA ReclaimWalks ==
  ASSUME IInv, Reclaim
  PROVE  LET b == node
             p == prev[b]
             q == next[b]
         IN /\ b \in list /\ list' = list \ {b} /\ pool' = pool \cup {b}
            /\ p \in (list \ {b}) \cup {Head} /\ q \in (list \ {b}) \cup {Head}
            /\ next[p] = b /\ prev[q] = b
            /\ next'[b] = available /\ next'[p] = q /\ prev'[q] = p
            /\ \A n \in Node : n # b /\ n # p => next'[n] = next[n]
            /\ \A n \in Node : n # q => prev'[n] = prev[n]
            /\ \A n \in list \ {b} : Reach(next', n) = Reach(next, n) \ {b}
            /\ Reach(next', available) = pool
<1> DEFINE b == node
           p == prev[b]
           q == next[b]
<1> USE FromReach, NodeTypes
<1>1. /\ b \in list /\ b \in Block /\ available' = b /\ node' = q
      /\ next' = [next EXCEPT ![p] = q, ![b] = available]
      /\ prev' = [prev EXCEPT ![q] = p]
  BY DEF Reclaim, Remove, IInv, Cells
<1>2. /\ DOMAIN next = Node /\ DOMAIN prev = Node
      /\ pool \subseteq Block /\ list \subseteq Block
      /\ \A c \in Block : c \in pool <=> c \notin list
      /\ \A c \in list : Reach(next, c) \subseteq list
      /\ \A c \in Block : next[c] # c /\ c \notin Reach(next, next[c])
  BY Standing
<1>3. /\ p \in (list \ {b}) \cup {Head} /\ q \in (list \ {b}) \cup {Head}
      /\ next[p] = b /\ prev[q] = b
  BY <1>1, <1>2 DEF IInv, Ring
<1>a. \A c \in list : next[c] = b => c = p
  BY DEF IInv, Ring
<1>b. prev[next[Head]] = Head
  BY DEF IInv, Ring
<1>4. /\ next'[b] = available /\ next'[p] = q /\ prev'[q] = p
      /\ \A n \in Node : n # b /\ n # p => next'[n] = next[n]
      /\ \A n \in Node : n # q => prev'[n] = prev[n]
  <2>1. p \in Node /\ q \in Node /\ b \in Node /\ p # b
    BY <1>1, <1>2, <1>3
  <2> HIDE DEF p, q, b
  <2> QED
    BY <1>1, <1>2, <2>1
<1>5. Reach(next', available) = pool
  <2>1. \A c \in Reach(next, available) : next'[c] = next[c]
    BY <1>1, <1>2, <1>3, <1>4
  <2> QED
    BY <2>1, ReachSame
<1>6. pool' = pool \cup {b}
  <2>1. Reach(next', b) = {b} \cup Reach(next', next'[b])
    <3> HIDE FromReach, NodeTypes
    <3> QED
      BY <1>1, ReachUnfold
  <2> QED
    BY <1>1, <1>4, <1>5, <2>1
<1>c. q # b /\ p # b
  BY <1>1, <1>2, <1>3
<1>d. b \notin Reach(next, q) /\ list \subseteq Block
  BY <1>1, <1>2
<1> HIDE DEF p, q
<1>7. ASSUME NEW n \in list \ {b}
      PROVE  Reach(next', n) = Reach(next, n) \ {b}
  <2>1. Reach(next, n) \subseteq list
    BY <1>2
  <2>2. \A c \in Reach(next, n) : next[c] = b => c = p
    BY <1>a, <2>1 DEF p
  <2>3. \A c \in Reach(next, n) : c # b /\ c # p => next'[c] = next[c]
    BY <1>2, <1>4, <2>1 DEF p
  <2>4. next[b] # b /\ next'[p] = next[b]
    BY <1>4, <1>c DEF q
  <2>5. b \in Block /\ n # b /\ next[p] = b
    BY <1>1, <1>3 DEF p
  <2> HIDE FromReach, NodeTypes
  <2> HIDE DEF b
  <2> QED
    BY <1>c, <2>2, <2>3, <2>4, <2>5, ReachCut
<1>8. list' = list \ {b}
  <2>1. CASE p = Head
    <3>1. next'[Head] = q /\ next[Head] = b
      BY <1>3, <1>4, <2>1 DEF p, q
    <3>2. list = {b} \cup Reach(next, q)
      BY <1>1, <3>1, ReachUnfold DEF q
    <3>3. \A c \in Reach(next, q) : c \in Block /\ c # b /\ c # p
      BY <1>d, <2>1, <3>2
    <3>4. \A c \in Reach(next, q) : next'[c] = next[c]
      BY <1>4, <3>3
    <3>5. Reach(next', q) = Reach(next, q)
      BY <3>4, ReachSame
    <3> QED
      BY <1>d, <3>1, <3>2, <3>5
  <2>2. CASE p # Head
    <3>1. next'[Head] = next[Head]
      BY <1>1, <1>4, <2>2
    <3>2. next[Head] # b
      BY <1>b, <2>2 DEF p
    <3>3. list # {}
      BY <1>1
    <3>4. next[Head] \in Block
      BY <3>3, ReachLeads
    <3>5. next[Head] \in list \ {b}
      BY <3>2, <3>4, ReachLeads
    <3> QED
      BY <1>7, <3>1, <3>5
  <2> QED
    BY <2>1, <2>2
<1> QED
  BY <1>1, <1>3, <1>4, <1>5, <1>6, <1>7, <1>8 DEF p, q

-----------------------------------------------------------------------------
(* Each operation keeps chain and ring, and is one of BlockSets.           *)
LEMMA AdmitStep ==
  ASSUME IInv, Admit
  PROVE  IInv' /\ Sets!Admit(available)
<1> DEFINE b == available
           l == prev[Head]
<1>1. /\ b \in pool /\ pool' = pool \ {b} /\ list' = list \cup {b}
      /\ b \notin list /\ l \in list \cup {Head} /\ next[l] = Head
      /\ (l = Head) <=> (list = {})
      /\ next'[b] = Head /\ next'[l] = b
      /\ prev'[b] = l /\ prev'[Head] = b
      /\ \A n \in Node : n # b /\ n # l => next'[n] = next[n]
      /\ \A n \in Node : n # b /\ n # Head => prev'[n] = prev[n]
      /\ \A n \in list : Reach(next', n) = Reach(next, n) \cup {b}
      /\ Reach(next', b) = {b}
  BY AdmitWalks
<1>2. /\ pool \subseteq Block /\ list \subseteq Block
      /\ \A c \in Block : c \in pool <=> c \notin list
      /\ \A c \in pool : /\ Reach(next, next[c]) \subseteq pool
                         /\ next[c] \in pool \cup {NULL}
      /\ \A c \in Block : next[c] # c /\ c \notin Reach(next, next[c])
  BY Standing
<1>3. /\ available' = next[b] /\ node' = next'[Head] /\ closed' \subseteq Block
      /\ node = NULL
      /\ next' = [next EXCEPT ![b] = Head, ![l] = b]
      /\ prev' = [prev EXCEPT ![b] = l, ![Head] = b]
  BY DEF Admit, IInv, Cells
<1>4. \A n \in list \cup {Head} :
          /\ next[n] \in list \cup {Head} /\ prev[n] \in list \cup {Head}
          /\ prev[next[n]] = n /\ next[prev[n]] = n
  BY DEF IInv, Ring
<1>5. next \in [Node -> Node \cup {NULL}] /\ prev \in [Node -> Node \cup {NULL}]
  BY DEF IInv, Cells
<1>a. b \in Block /\ b \in Node
  BY <1>1, <1>2, NodeTypes
<1>b. pool = Reach(next, b)
  BY FromReach
<1> HIDE DEF b, l
<1>6. ASSUME NEW n \in list \cup {b, Head}
      PROVE  /\ next'[n] \in list \cup {b, Head} /\ prev'[n] \in list \cup {b, Head}
             /\ prev'[next'[n]] = n /\ next'[prev'[n]] = n
  <2>1. CASE n = b
    BY <1>1, <2>1, NodeTypes
  <2>2. CASE n = l /\ n # b
    BY <1>1, <1>2, <1>4, <2>2, NodeTypes DEF l
  <2>3. CASE n # l /\ n # b
    <3>1. n \in list \cup {Head} /\ n \in Node /\ next'[n] = next[n]
      BY <1>1, <1>2, <2>3, NodeTypes
    <3>2. next[n] # Head /\ next[n] \in list /\ next[n] # b /\ next[n] \in Node
      BY <1>1, <1>2, <1>4, <2>3, <3>1, NodeTypes DEF l
    <3>3. prev'[next'[n]] = n
      BY <1>1, <1>4, <3>1, <3>2
    <3>4. CASE n = Head
      BY <1>1, <3>1, <3>2, <3>3, <3>4
    <3>5. CASE n # Head
      <4>1. prev'[n] = prev[n] /\ prev[n] # l /\ prev[n] # b /\ prev[n] \in Node
            /\ prev[n] \in list \cup {Head}
        BY <1>1, <1>2, <1>4, <2>3, <3>1, <3>5, NodeTypes
      <4>2. next'[prev'[n]] = n
        BY <1>1, <1>4, <3>1, <4>1
      <4> QED
        BY <3>1, <3>2, <3>3, <4>1, <4>2
    <3> QED
      BY <3>4, <3>5
  <2> QED
    BY <2>1, <2>2, <2>3
<1>7. Ring'
  BY <1>1, <1>6 DEF Ring
<1>8. Parted'
  BY <1>1, <1>2, NodeTypes DEF Parted
<1>9. ASSUME NEW c \in Block PROVE c \notin Reach(next', next'[c])
  <2>1. CASE c = b
    BY <1>1, <2>1, ReachLeads, NodeTypes
  <2>2. CASE c = l /\ c # b
    BY <1>1, <2>2
  <2>3. CASE c \in pool /\ c # b
    <3>1. next'[c] = next[c]
      BY <1>1, <1>2, <2>3, NodeTypes
    <3>2. b \notin Reach(next, next[c])
      <4>1. b \notin Reach(next, next[b]) /\ pool = {b} \cup Reach(next, next[b])
        BY <1>2, <1>a, <1>b, ReachUnfold
      <4>2. c \in Reach(next, next[b])
        BY <2>3, <4>1
      <4>3. Reach(next, next[c]) \subseteq Reach(next, next[b])
        BY <4>2, ReachTrans
      <4> QED
        BY <4>1, <4>3
    <3>3. \A d \in Reach(next, next[c]) : next'[d] = next[d]
      BY <1>1, <1>2, <2>3, <3>2, NodeTypes
    <3>4. Reach(next', next[c]) = Reach(next, next[c])
      BY <3>3, ReachSame
    <3> QED
      BY <1>2, <3>1, <3>4
  <2>4. CASE c \in list /\ c # l /\ c # b
    <3>1. next'[c] = next[c] /\ next[c] \in list \cup {Head}
      BY <1>1, <1>4, <2>4, NodeTypes
    <3>2. CASE next[c] = Head
      BY <3>1, <3>2, ReachLeads, NodeTypes
    <3>3. CASE next[c] \in list
      <4>1. Reach(next', next[c]) = Reach(next, next[c]) \cup {b}
        BY <1>1, <3>3
      <4>2. c \notin Reach(next, next[c])
        BY <1>2
      <4> QED
        BY <2>4, <3>1, <4>1, <4>2
    <3> QED
      BY <3>1, <3>2, <3>3
  <2> QED
    BY <1>2, <2>1, <2>2, <2>3, <2>4
<1>10. NoCycle'
  BY <1>9, FromReach DEF NoCycle
<1>11. ToTheLast'
  <2>1. ASSUME NEW c \in list' PROVE b \in Reach(next', c)
    BY <1>1
  <2> QED
    BY <1>1, <2>1, FromReach DEF ToTheLast
<1>12. Cells'
  <2>1. next' \in [Node -> Node \cup {NULL}]
    BY <1>3, <1>5, <1>a, NodeTypes
  <2>2. prev' \in [Node -> Node \cup {NULL}]
    <3>1. l \in Node
      BY <1>1, <1>2, NodeTypes
    <3> QED
      BY <1>3, <1>5, <1>a, <3>1, NodeTypes
  <2>3. available' \in Block \cup {NULL}
    BY <1>1, <1>2, <1>3
  <2>4. node' \in list' \cup {Head, NULL}
    <3>1. next'[Head] \in list \cup {b, Head}
      <4>1. Head \in list \cup {b, Head}
        OBVIOUS
      <4> QED
        BY <1>6, <4>1
    <3>2. node' = next'[Head] /\ list' = list \cup {b}
      BY <1>1, <1>3
    <3> QED
      BY <3>1, <3>2
  <2> QED
    BY <1>3, <2>1, <2>2, <2>3, <2>4 DEF Cells
<1>13. Sets!Admit(b)
  <2>1. From(node) = {} /\ From(node)' = list'
    <3>1. From(node) = {}
      BY <1>3, FromReach, ReachLeads, NodeTypes
    <3>2. From(node)' = list'
      BY <1>3 DEF From, list, Entire, Head
    <3> QED
      BY <3>1, <3>2
  <2> QED
    BY <1>1, <2>1 DEF Sets!Admit, pool
<1> QED
  BY <1>7, <1>8, <1>10, <1>11, <1>12, <1>13 DEF IInv, b

LEMMA ReclaimStep ==
  ASSUME IInv, Reclaim
  PROVE  node \in Block /\ IInv' /\ Sets!Reclaim(node)
<1> DEFINE b == node
           p == prev[b]
           q == next[b]
<1>1. /\ b \in list /\ list' = list \ {b} /\ pool' = pool \cup {b}
      /\ p \in (list \ {b}) \cup {Head} /\ q \in (list \ {b}) \cup {Head}
      /\ next[p] = b /\ prev[q] = b
      /\ next'[b] = available /\ next'[p] = q /\ prev'[q] = p
      /\ \A n \in Node : n # b /\ n # p => next'[n] = next[n]
      /\ \A n \in Node : n # q => prev'[n] = prev[n]
      /\ \A n \in list \ {b} : Reach(next', n) = Reach(next, n) \ {b}
      /\ Reach(next', available) = pool
  BY ReclaimWalks
<1>2. /\ pool \subseteq Block /\ list \subseteq Block
      /\ \A c \in Block : c \in pool <=> c \notin list
      /\ \A c \in pool : /\ Reach(next, next[c]) \subseteq pool
                         /\ next[c] \in pool \cup {NULL}
      /\ \A c \in Block : next[c] # c /\ c \notin Reach(next, next[c])
      /\ \A c \in list : prev[Head] \in Reach(next, c)
  BY Standing
<1>3. /\ available' = b /\ node' = q /\ closed' \subseteq Block
      /\ next' = [next EXCEPT ![p] = q, ![b] = available]
      /\ prev' = [prev EXCEPT ![q] = p]
  BY DEF Reclaim, Remove, IInv, Cells
<1>4. \A n \in list \cup {Head} :
          /\ next[n] \in list \cup {Head} /\ prev[n] \in list \cup {Head}
          /\ prev[next[n]] = n /\ next[prev[n]] = n
  BY DEF IInv, Ring
<1>5. /\ next \in [Node -> Node \cup {NULL}] /\ prev \in [Node -> Node \cup {NULL}]
      /\ available \in Block \cup {NULL}
  BY DEF IInv, Cells
<1>a. b \in Block /\ b \in Node /\ b # Head
  BY <1>1, <1>2, NodeTypes
<1>b. available \in Block => available \in pool
  BY FromReach, ReachLeads
<1>6. ASSUME NEW n \in (list \ {b}) \cup {Head}
      PROVE  /\ next'[n] \in (list \ {b}) \cup {Head}
             /\ prev'[n] \in (list \ {b}) \cup {Head}
             /\ prev'[next'[n]] = n /\ next'[prev'[n]] = n
  <2>1. n \in list \cup {Head} /\ n # b /\ n \in Node
    BY <1>2, <1>a, NodeTypes
  <2>2. next'[n] \in (list \ {b}) \cup {Head} /\ prev'[next'[n]] = n
    <3>1. CASE n = p
      BY <1>1, <3>1
    <3>2. CASE n # p
      <4>1. next'[n] = next[n]
        BY <1>1, <2>1, <3>2
      <4>2. next[n] # b /\ next[n] \in list \cup {Head} /\ prev[next[n]] = n
        BY <1>4, <2>1, <3>2
      <4>3. next[n] # q
        BY <1>1, <2>1, <4>2
      <4>4. prev'[next[n]] = prev[next[n]]
        BY <1>1, <1>2, <4>2, <4>3, NodeTypes
      <4> QED
        BY <4>1, <4>2, <4>4
    <3> QED
      BY <3>1, <3>2
  <2>3. prev'[n] \in (list \ {b}) \cup {Head} /\ next'[prev'[n]] = n
    <3>1. CASE n = q
      BY <1>1, <3>1
    <3>2. CASE n # q
      <4>1. prev'[n] = prev[n]
        BY <1>1, <2>1, <3>2
      <4>2. prev[n] # b /\ prev[n] \in list \cup {Head} /\ next[prev[n]] = n
        BY <1>4, <2>1, <3>2
      <4>3. prev[n] # p
        BY <1>1, <2>1, <4>2
      <4>4. next'[prev[n]] = next[prev[n]]
        BY <1>1, <1>2, <4>2, <4>3, NodeTypes
      <4> QED
        BY <4>1, <4>2, <4>4
    <3> QED
      BY <3>1, <3>2
  <2> QED
    BY <2>2, <2>3
<1>7. Ring'
  BY <1>1, <1>6 DEF Ring
<1>8. Parted'
  <2>1. ASSUME NEW c \in pool \cup {b} PROVE next'[c] # Head
    <3>1. CASE c = b
      BY <1>1, <1>5, <3>1, NodeTypes
    <3>2. CASE c # b
      <4>1. c \in pool /\ c \in Node /\ c # p /\ next[c] # Head
        BY <1>1, <1>2, <3>2, NodeTypes
      <4> QED
        BY <1>1, <3>2, <4>1
    <3> QED
      BY <3>1, <3>2
  <2> QED
    BY <1>1, <1>2, <1>a, <2>1 DEF Parted
<1>9. ASSUME NEW c \in Block PROVE c \notin Reach(next', next'[c])
  <2>1. CASE c = b
    BY <1>1, <1>2, <2>1
  <2>2. CASE c = p /\ c # b
    <3>1. CASE q = Head
      BY <1>1, <2>2, <3>1, ReachLeads, NodeTypes
    <3>2. CASE q # Head
      <4>1. Reach(next', q) = Reach(next, q) \ {b}
        BY <1>1, <3>2
      <4>2. Reach(next, q) \subseteq Reach(next, b)
        BY <1>a, ReachLeads, ReachTrans
      <4>3. c \notin Reach(next, b)
        BY <1>1, <1>2, <2>2
      <4> QED
        BY <1>1, <2>2, <4>1, <4>2, <4>3
    <3> QED
      BY <3>1, <3>2
  <2>3. CASE c \in pool
    <3>1. next'[c] = next[c]
      BY <1>1, <1>2, <2>3, NodeTypes
    <3>2. \A d \in Reach(next, next[c]) : next'[d] = next[d]
      BY <1>1, <1>2, <2>3, NodeTypes
    <3>3. Reach(next', next[c]) = Reach(next, next[c])
      BY <3>2, ReachSame
    <3> QED
      BY <1>2, <3>1, <3>3
  <2>4. CASE c \in list /\ c # p /\ c # b
    <3>1. next'[c] = next[c] /\ next[c] \in list \cup {Head} /\ next[c] # b
      BY <1>1, <1>4, <2>4, NodeTypes
    <3>2. CASE next[c] = Head
      BY <3>1, <3>2, ReachLeads, NodeTypes
    <3>3. CASE next[c] \in list
      <4>1. Reach(next', next[c]) = Reach(next, next[c]) \ {b}
        BY <1>1, <3>1, <3>3
      <4>2. c \notin Reach(next, next[c])
        BY <1>2
      <4> QED
        BY <3>1, <4>1, <4>2
    <3> QED
      BY <3>1, <3>2, <3>3
  <2> QED
    BY <1>2, <2>1, <2>2, <2>3, <2>4
<1>10. NoCycle'
  BY <1>9, FromReach DEF NoCycle
<1>11. ToTheLast'
  <2>1. ASSUME NEW c \in list' PROVE prev'[Head] \in Reach(next', c)
    <3>1. c \in list /\ c # b /\ Reach(next', c) = Reach(next, c) \ {b}
      BY <1>1
    <3>2. CASE q = Head
      <4>1. prev'[Head] = p /\ prev[Head] = b
        BY <1>1, <3>2
      <4>2. b \in Reach(next, c)
        BY <1>2, <3>1, <4>1
      <4>3. PICK d \in Reach(next, c) : next[d] = b
        BY <3>1, <4>2, ReachBefore
      <4>4. Reach(next, c) \subseteq list
        BY <3>1, Standing
      <4>5. d = p
        BY <1>4, <4>3, <4>4
      <4>6. p # b
        BY <1>1, <1>a
      <4> QED
        BY <3>1, <4>1, <4>3, <4>5, <4>6
    <3>3. CASE q # Head
      <4>1. prev'[Head] = prev[Head]
        BY <1>1, <3>3, NodeTypes
      <4>2. prev[Head] # b
        BY <1>4, <3>3
      <4> QED
        BY <1>2, <3>1, <4>1, <4>2
    <3> QED
      BY <3>2, <3>3
  <2> QED
    BY <2>1, FromReach DEF ToTheLast, Head
<1>12. Cells'
  <2>1. p \in Node /\ q \in Node
    BY <1>1, <1>2, NodeTypes
  <2> HIDE DEF p, q, b
  <2>2. next' \in [Node -> Node \cup {NULL}]
    BY <1>3, <1>5, <2>1, NodeTypes
  <2>3. prev' \in [Node -> Node \cup {NULL}]
    BY <1>3, <1>5, <2>1
  <2>4. node' \in list' \cup {Head, NULL}
    BY <1>1, <1>3
  <2> QED
    BY <1>3, <1>a, <2>2, <2>3, <2>4 DEF Cells
<1>13. Sets!Reclaim(b)
  <2>1. From(node) = {b} \cup Reach(next, q) /\ b \notin Reach(next, q)
    <3>1. From(node) = Reach(next, b)
      BY FromReach
    <3>2. Reach(next, b) = {b} \cup Reach(next, q)
      BY <1>a, ReachUnfold
    <3> QED
      BY <1>2, <1>a, <3>1, <3>2
  <2>2. From(node)' = Reach(next', q)
    BY <1>3 DEF From, Reach, Entire, Leads
  <2>3. Reach(next', q) = Reach(next, q)
    <3>1. CASE q = Head
      BY <3>1, ReachLeads, NodeTypes
    <3>2. CASE q # Head
      BY <1>1, <2>1, <3>2
    <3> QED
      BY <3>1, <3>2
  <2> QED
    BY <1>1, <2>1, <2>2, <2>3 DEF Sets!Reclaim, pool
<1> QED
  BY <1>7, <1>8, <1>10, <1>11, <1>12, <1>13, <1>a DEF IInv

(* Steps that leave the links alone.                                       *)
LEMMA LinksKept ==
  ASSUME IInv, UNCHANGED <<next, prev, available>>,
         node' \in list \cup {Head, NULL}, closed' \subseteq Block
  PROVE  IInv' /\ pool' = pool /\ list' = list
<1>1. pool' = pool /\ list' = list /\ \A n : From(n)' = From(n)
  BY DEF pool, list, From, Entire
<1> QED
  BY <1>1 DEF IInv, Cells, Ring, Parted, NoCycle, ToTheLast

LEMMA Step == IInv /\ [Next]_vars => IInv' /\ [Sets!Next]_(Sets!blockVars)
<1> SUFFICES ASSUME IInv, [Next]_vars
             PROVE  IInv' /\ [Sets!Next]_(Sets!blockVars)
  OBVIOUS
<1>a. Cells /\ Ring /\ list \subseteq Block
  BY Standing DEF IInv
<1>1. CASE Admit
  <2>1. available \in Block
    BY <1>1 DEF Admit, IInv, Cells
  <2> QED
    BY <1>1, <2>1, AdmitStep DEF Sets!Next
<1>2. CASE Reclaim
  BY <1>2, ReclaimStep DEF Sets!Next
<1>3. CASE Begin
  <2>1. node' \in list \cup {Head, NULL} /\ closed' \subseteq Block
    BY <1>3, <1>a DEF Begin, Ring, Cells
  <2>2. IInv' /\ pool' = pool /\ list' = list
    BY <1>3, <2>1, LinksKept DEF Begin
  <2>3. From(node) = {}
    BY <1>3, FromReach, ReachLeads, NodeTypes DEF Begin
  <2>4. From(node)' = list
    BY <1>3 DEF Begin, From, list, Entire
  <2> QED
    BY <2>2, <2>3, <2>4 DEF Sets!Next, Sets!Begin, pool
<1>4. CASE Pass
  <2>1. /\ node \in list /\ node \in Block /\ node' = next[node]
        /\ next' = next
    BY <1>4, <1>a, NodeTypes DEF Pass, Cells
  <2>2. node' \in list \cup {Head, NULL} /\ closed' \subseteq Block
    BY <1>4, <1>a, <2>1 DEF Pass, Ring, Cells
  <2>3. IInv' /\ pool' = pool /\ list' = list
    BY <1>4, <2>2, LinksKept DEF Pass
  <2>4. From(node) = {node} \cup Reach(next, next[node])
    BY <2>1, FromReach, ReachUnfold
  <2>5. node \notin Reach(next, next[node])
    BY <2>1, Standing
  <2>6. From(node)' = Reach(next, next[node])
    BY <2>1 DEF From, Reach, Entire, Leads
  <2>7. Sets!Pass(node)
    BY <2>3, <2>4, <2>5, <2>6 DEF Sets!Pass, pool
  <2> QED
    BY <2>1, <2>3, <2>7 DEF Sets!Next
<1>5. CASE End
  <2>1. IInv' /\ pool' = pool /\ list' = list
    BY <1>5, <1>a, LinksKept DEF End, Cells
  <2>2. From(node) = {} /\ From(node)' = {}
    <3>1. node = Head /\ node' = NULL
      BY <1>5 DEF End
    <3>2. From(node) = {}
      BY <3>1, FromReach, ReachLeads, NodeTypes
    <3>3. From(node)' = Reach(next', NULL)
      BY <3>1 DEF From, Reach, Entire, Leads
    <3> QED
      BY <3>2, <3>3, ReachLeads, NodeTypes
  <2> QED
    BY <2>1, <2>2 DEF Sets!blockVars, pool
<1>6. CASE (\E b \in Block : Close(b)) \/ UNCHANGED vars
  <2>1. /\ next' = next /\ prev' = prev /\ available' = available
        /\ node' = node /\ closed' \subseteq Block
    BY <1>6, <1>a DEF Close, vars, Cells
  <2>2. IInv' /\ pool' = pool /\ list' = list
    BY <1>a, <2>1, LinksKept DEF Cells
  <2>3. From(node)' = From(node)
    BY <2>1 DEF From, Entire
  <2> QED
    BY <2>2, <2>3 DEF Sets!blockVars, pool
<1> QED
  BY <1>1, <1>2, <1>3, <1>4, <1>5, <1>6 DEF Next

-----------------------------------------------------------------------------
(* However many blocks there are and in whatever order connections come    *)
(* and go, the ring of list.c can be walked both ways, the chain of        *)
(* object_pool.c ends, and list_traverse stands in the ring, also after    *)
(* its visitor has given back the block it stood on.                       *)
THEOREM TypeSafe == Spec => []TypeOK
<1>1. IInv => TypeOK
  BY DEF IInv, Cells, Ring, TypeOK
<1> QED
  BY <1>1, Initially, Step, PTL DEF Spec

(* The links do what BlockSets promises the server: no block is lost,      *)
(* doubled, or in the pool and in the list at once, and a traversal visits *)
(* each listed block once.                                                 *)
THEOREM CellsAreSets == Spec => SetsSpec
  BY Initially, Step, PTL DEF Spec, SetsSpec, Sets!Spec
=============================================================================
