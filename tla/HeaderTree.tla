----------------------------- MODULE HeaderTree -----------------------------
(***************************************************************************)
(* The headers of a message: the height-balanced tree of btree.c, keyed by *)
(* the header's number, as http_header.c fills, prints and frees it.       *)
(*                                                                         *)
(* A node without a right child may use its right link as a thread to the  *)
(* next node in order (rflag).  Threads are built when headers are printed *)
(* and stay while further headers are added, so every insertion, rotation  *)
(* and traversal has to tell a thread from a child.                        *)
(*                                                                         *)
(* A tree is a record [key, l, r, thr, bf]: `thr' is the key the thread    *)
(* leads to, 0 for rflag = 0, and `r' is Nil when there is a thread.  The  *)
(* buffer of http_header_to_str is large enough for all headers, which is  *)
(* how http_request_log, http_response_log and http_response_gen call it.  *)
(***************************************************************************)
EXTENDS Integers, FiniteSetsExt, SequencesExt

CONSTANT Key   (* the numbers of the headers messages have *)

ASSUME HeaderTreeAssumption == Key \subseteq Nat \ {0} /\ IsFiniteSet(Key)

VARIABLES tree,   (* headers->header_tree.root *)
          added,  (* the numbers of the headers that were added *)
          out,    (* what http_header_to_str has just printed *)
          sound   (* no assertion of btree_internal_insert has failed *)

treeVars == <<tree, added, out, sound>>

Nil == [key |-> 0]
IsNil(t) == t.key = 0
Leaf(k) == [key |-> k, l |-> Nil, r |-> Nil, thr |-> 0, bf |-> 0]

(* Trees of n levels, and of as many as the keys need, and one more.       *)
Levels == Cardinality(Key) + 1
Trees[n \in 0 .. Levels] ==
    IF n = 0 THEN {Nil}
    ELSE LET lower == Trees[n - 1]
         IN {Nil} \cup [key : Key, l : lower, r : lower, thr : Key \cup {0}, bf : Int]
Tree == Trees[Levels]

TreeInit ==
    /\ tree = Nil
    /\ added = {}
    /\ out = <<>>
    /\ sound = TRUE

-----------------------------------------------------------------------------
(* Rotations; both fix the two balance factors one after the other.        *)
(* Faulty: adds one, whatever the other factor is.                         *)
LeftRotateByOne(t) ==
    LET n == t.r
        low == [t EXCEPT !.r = n.l, !.bf = @ + 1]
    IN [n EXCEPT !.l = low, !.bf = @ + 1]

LeftRotate(t) ==
    LET n == t.r
        low == [t EXCEPT !.r = n.l,
                         !.bf = @ + IF n.bf < 0 THEN 1 - n.bf ELSE 1]
    IN [n EXCEPT !.l = low, !.bf = @ + IF low.bf > 0 THEN 1 + low.bf ELSE 1]

(* Faulty: rflag of the new root is left set.                              *)
RightRotateKeepsFlag(t) ==
    LET n == t.l
        low == [t EXCEPT !.l = n.r,
                         !.bf = @ - IF n.bf > 0 THEN 1 + n.bf ELSE 1]
    IN [n EXCEPT !.r = low, !.bf = @ - IF low.bf < 0 THEN 1 - low.bf ELSE 1]

(* The thread of the left child is no child: its root gets none.           *)
RightRotate(t) ==
    LET n == t.l
        low == [t EXCEPT !.l = n.r,
                         !.bf = @ - IF n.bf > 0 THEN 1 + n.bf ELSE 1]
    IN [n EXCEPT !.thr = 0, !.r = low,
                 !.bf = @ - IF low.bf < 0 THEN 1 - low.bf ELSE 1]

UnthreadNot(t) == t   (* Faulty *)

(* The right child of a node that gets one is no thread any more.          *)
Unthread(t) == [t EXCEPT !.thr = 0]

(* btree_internal_insert behind its call for a subtree, which has returned *)
(* the new subtree, the result that tells whether and where it has grown,  *)
(* and whether the assertions held.                                        *)
InRight(t, i) ==
    LET s == [Unthread(t) EXCEPT !.r = i.tree]
        u == [s EXCEPT !.bf = @ - 1]
        v == IF i.ret = "left" THEN [u EXCEPT !.r = RightRotate(@)] ELSE u
        w == IF u.bf = -2 THEN LeftRotate(v) ELSE u
    IN IF i.ret \in {"exist", "balanced"}
       THEN [i EXCEPT !.tree = s]
       ELSE [tree |-> w,
             ret |-> IF w.bf = 0 THEN "balanced" ELSE "right",
             sound |-> i.sound /\ (u.bf = -2 => w.bf = 0)]

InLeft(t, i) ==
    LET s == [t EXCEPT !.l = i.tree]
        u == [s EXCEPT !.bf = @ + 1]
        v == IF i.ret = "right" THEN [u EXCEPT !.l = LeftRotate(@)] ELSE u
        w == IF u.bf = 2 THEN RightRotate(v) ELSE u
    IN IF i.ret \in {"exist", "balanced"}
       THEN [i EXCEPT !.tree = s]
       ELSE [tree |-> w,
             ret |-> IF w.bf = 0 THEN "balanced" ELSE "left",
             sound |-> i.sound /\ (u.bf = 2 => w.bf = 0)]

Insert(t, k) ==
    LET insert[s \in Tree] ==
            IF IsNil(s) THEN [tree |-> Leaf(k), ret |-> "ok", sound |-> TRUE]
            ELSE IF k = s.key THEN [tree |-> s, ret |-> "exist", sound |-> TRUE]
            ELSE IF k > s.key THEN InRight(s, insert[s.r]) ELSE InLeft(s, insert[s.l])
    IN insert[t]

-----------------------------------------------------------------------------
(* Traversals; a thread is never followed as if it were a child.           *)
InOrder(t) ==
    LET inOrder[s \in Tree] ==
            IF IsNil(s) THEN <<>>
            ELSE inOrder[s.l] \o <<s.key>>
                     \o (IF s.thr # 0 THEN <<>> ELSE inOrder[s.r])
    IN inOrder[t]

PreOrder(t) ==
    LET preOrder[s \in Tree] ==
            IF IsNil(s) THEN <<>>
            ELSE <<s.key>> \o preOrder[s.l]
                     \o (IF s.thr # 0 THEN <<>> ELSE preOrder[s.r])
    IN preOrder[t]

(* btree_build_in_order_threading: an old thread is dropped, and a node    *)
(* without a right child gets one to the node visited next; the last node  *)
(* of the whole tree gets none.                                            *)
Follower(order, k) ==
    IF k = Last(order) THEN 0
    ELSE order[1 + CHOOSE i \in DOMAIN order : order[i] = k]

(* Faulty: an old thread is dropped and no new one is built in its place.  *)
ThreadedOnce(t, order) ==
    LET threaded[s \in Tree] ==
            IF IsNil(s) THEN Nil
            ELSE [s EXCEPT !.l = threaded[@], !.r = threaded[@],
                           !.thr = IF IsNil(s.r) /\ @ = 0
                                   THEN Follower(order, s.key) ELSE 0]
    IN threaded[t]

Threaded(t, order) ==
    LET threaded[s \in Tree] ==
            IF IsNil(s) THEN Nil
            ELSE [s EXCEPT !.l = threaded[@], !.r = threaded[@],
                           !.thr = IF IsNil(s.r) THEN Follower(order, s.key) ELSE 0]
    IN threaded[t]

Nodes(t) ==
    LET nodes[s \in Tree] == IF IsNil(s) THEN {} ELSE {s} \cup nodes[s.l] \cup nodes[s.r]
    IN nodes[t]

(* btree_thread_traverse: down to the left, along the threads, then to the *)
(* right.  A walk that does not end shows as one that is too long.         *)
Leftmost(t) ==
    LET leftmost[s \in Tree] == IF IsNil(s) \/ IsNil(s.l) THEN s ELSE leftmost[s.l]
    IN leftmost[t]

After(t, n) ==
    IF n.thr # 0 THEN CHOOSE m \in Nodes(t) : m.key = n.thr ELSE Leftmost(n.r)

Walk(t) ==
    LET node[v \in 1 .. Levels] ==
            IF v = 1 THEN Leftmost(t)
            ELSE LET n == node[v - 1] IN IF IsNil(n) THEN Nil ELSE After(t, n)
        visited == { v \in DOMAIN node : ~IsNil(node[v]) }
    IN [v \in 1 .. Cardinality(visited) |-> node[v].key]

-----------------------------------------------------------------------------
(* http_header_add_by_id; a header that is there already keeps its value.  *)
Add(k) ==
    LET i == Insert(tree, k) IN
    /\ tree' = i.tree
    /\ sound' = (sound /\ i.sound)
    /\ added' = added \cup {k}
    /\ out' = <<>>

(* http_header_to_str: rebuild the threads and print along them.           *)
ToStr ==
    /\ tree' = Threaded(tree, InOrder(tree))
    /\ out' = Walk(tree')
    /\ UNCHANGED <<added, sound>>

(* http_header_destroy.                                                    *)
Destroy ==
    /\ tree' = Nil
    /\ added' = {}
    /\ out' = <<>>
    /\ UNCHANGED sound

-----------------------------------------------------------------------------
Height(t) ==
    LET height[s \in Tree] ==
            IF IsNil(s) THEN 0
            ELSE LET a == height[s.l]
                     b == height[s.r]
                 IN 1 + IF a > b THEN a ELSE b
    IN height[t]

(* The type invariant: the right link of a node is a child or a thread,    *)
(* never both.                                                             *)
TypeOK ==
    /\ \A n \in Nodes(tree) :
          /\ n.key \in Key /\ n.bf \in -1 .. 1 /\ n.thr \in Key \cup {0}
          /\ n.thr # 0 => IsNil(n.r)
    /\ added \subseteq Key
    /\ out \in Seq(Key)
    /\ sound \in BOOLEAN

(* A thread leads to the next header in order, also when others were added *)
(* and rotated since it was built.                                         *)
ThreadsLeadOn == \A n \in Nodes(tree) :
    n.thr # 0 => n.thr = Min({ k \in added : k > n.key })

(* Balance factors, which are only ever adjusted, are the differences of   *)
(* the heights, and so the assertion balance_factor == 0 (btree.c:112,     *)
(* 131) holds after every rotation: the tree is balanced after any         *)
(* sequence of insertions with threads in any state.                       *)
Balanced == sound /\ \A n \in Nodes(tree) : n.bf = Height(n.l) - Height(n.r)

(* What a call of http_header_to_str has done, and the recursive calls of  *)
(* http_header_len and http_header_destroy reach.                          *)
Printed ==
    /\ ToSet(out') = added /\ \A v \in 1 .. Len(out') - 1 : out'[v] < out'[v + 1]
    /\ IsInjective(PreOrder(tree)) /\ ToSet(PreOrder(tree)) = added

(* Printing, which goes along threads built over the remains of older      *)
(* ones, prints every header once and in order, and the recursive          *)
(* traversals still reach each of them once after any rotations:           *)
(* http_header_len, from which the loggers size their buffers, counts what *)
(* is printed, and http_header_destroy frees each block once.              *)
PrintsAll == [][ToStr => Printed]_treeVars
=============================================================================
