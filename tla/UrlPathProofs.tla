--------------------------- MODULE UrlPathProofs ---------------------------
(***************************************************************************)
(* Whatever URLs of whatever length are asked for, in whatever order: the  *)
(* file that is opened lies below the root and is the one that the URL     *)
(* means, and the list of a query holds its items.                         *)
(*                                                                         *)
(* What a URL means is a recursion over its segments.  Induction over them *)
(* rests on the theorem that the order of the naturals is well founded.    *)
(***************************************************************************)
EXTENDS UrlPath, FiniteSetTheorems, SequenceTheorems, WellFoundedInduction, TLAPS

USE DEF Empty

(* What makes the types inductive: a URL is there when it is parsed and    *)
(* only then, and no `.' or `..' is ever put on the stack.                 *)
Asked == part = "idle" <=> url = <<>>
NoDots == \A i \in 1 .. Len(stack) : stack[i].name \in Name \cup {Empty}

IInv == TypeOK /\ Asked /\ NoDots

-----------------------------------------------------------------------------
LEMMA Chars ==
    ASSUME TypeOK
    PROVE  /\ char # "end" => at \in 1 .. Len(url) /\ char \in Mark \cup Word
           /\ char = "end" <=> at = Len(url) + 1
<1>1. Len(url) \in Nat /\ at \in 1 .. Len(url) + 1 /\ url \in Seq(Mark \cup Word)
  BY DEF TypeOK
<1>2. "end" \notin Mark \cup Word
  BY UrlPathAssumption DEF Mark, Word
<1>3. CASE at = Len(url) + 1
  BY <1>1, <1>3 DEF char
<1>4. CASE at \in 1 .. Len(url)
  <2>1. url[at] \in Mark \cup Word
    BY <1>1, <1>4
  <2> QED
    BY <1>1, <1>2, <1>4, <2>1 DEF char
<1> QED
  BY <1>1, <1>3, <1>4

LEMMA StackTypes ==
    ASSUME TypeOK, NoDots
    PROVE  /\ Len(stack) \in Nat
           /\ \A i \in 1 .. Len(stack) :
                 /\ stack[i] \in [name : Name \cup {Empty, ".", ".."}, mark : {"/", "end"}]
                 /\ stack[i].name \in Name \cup {Empty}
<1>1. stack \in Seq([name : Name \cup {Empty, ".", ".."}, mark : {"/", "end"}])
  BY DEF TypeOK
<1> DEFINE Entry == [name : Name \cup {Empty, ".", ".."}, mark : {"/", "end"}]
<1>2. \A S, s : s \in Seq(S) => Len(s) \in Nat /\ \A i \in 1 .. Len(s) : s[i] \in S
  OBVIOUS
<1>3. Len(stack) \in Nat /\ \A i \in 1 .. Len(stack) : stack[i] \in Entry
  <2> HIDE DEF Entry
  <2>1. stack \in Seq(Entry)
    BY <1>1 DEF Entry
  <2> QED
    BY <1>2, <2>1
<1> QED
  BY <1>3 DEF NoDots

LEMMA FrontOfSeq ==
    ASSUME NEW S, NEW s \in Seq(S), s # <<>>
    PROVE  /\ SubSeq(s, 1, Len(s) - 1) \in Seq(S)
           /\ Len(SubSeq(s, 1, Len(s) - 1)) = Len(s) - 1 /\ Len(s) \in Nat
           /\ \A k \in 1 .. Len(s) - 1 : SubSeq(s, 1, Len(s) - 1)[k] = s[k]
<1>1. Len(s) \in Nat /\ Len(s) > 0
  OBVIOUS
<1>2. \A k \in 1 .. Len(s) - 1 : s[k] \in S
  BY <1>1
<1> DEFINE n == Len(s) - 1
<1>3. /\ SubSeq(s, 1, n) \in Seq(S)
      /\ Len(SubSeq(s, 1, n)) = IF 1 <= n THEN n - 1 + 1 ELSE 0
      /\ \A k \in 1 .. n - 1 + 1 : SubSeq(s, 1, n)[k] = s[1 + k - 1]
  <2>1. n \in Int /\ 1 \in Int
    BY <1>1
  <2>2. \A k \in 1 .. n : s[k] \in S
    BY <1>2
  <2> HIDE DEF n
  <2> QED
    BY <2>1, <2>2, SubSeqProperties
<1>4. n - 1 + 1 = n /\ n \in Nat /\ \A k \in 1 .. n : 1 + k - 1 = k
  BY <1>1
<1> HIDE DEF n
<1>5. Len(SubSeq(s, 1, n)) = n /\ \A k \in 1 .. n : SubSeq(s, 1, n)[k] = s[k]
  BY <1>3, <1>4
<1> QED
  BY <1>1, <1>3, <1>5 DEF n

LEMMA SameElements ==
    ASSUME NEW S, NEW s \in Seq(S), NEW t \in Seq(S), Len(s) = Len(t),
           \A i \in 1 .. Len(s) : s[i] = t[i]
    PROVE  s = t
<1> QED
  OBVIOUS

LEMMA Initially == Init => IInv
<1> SUFFICES ASSUME Init PROVE IInv
  OBVIOUS
<1> QED
  BY DEF Init, IInv, TypeOK, Asked, NoDots

(* A step that moves on in the URL and leaves the stack alone.             *)
LEMMA Moving ==
    ASSUME IInv, part # "idle", stack' = stack, url' = url,
           NEW p \in {"path", "query", "done"}, p = "path" => part \in {"host", "path"},
           NEW i \in 1 .. Len(url) + 1, GoTo(p, i),
           {ns, ne, vs}' \subseteq 0 .. Len(url)
    PROVE  IInv'
<1>1. /\ part' = p /\ at' = i /\ seg' = Empty /\ result' \in {"ok", "parsing"}
  BY DEF GoTo
<1>2. \A k \in 1 .. Len(stack) :
         stack[k].mark = "/" \/ (k = Len(stack) /\ p \in {"query", "done"})
  BY DEF IInv, TypeOK
<1> QED
  BY <1>1, <1>2 DEF IInv, TypeOK, Asked, NoDots

LEMMA Failing == ASSUME IInv, part # "idle", Fail PROVE IInv'
<1>1. \A k \in 1 .. Len(stack) : stack[k].mark = "/" \/ k = Len(stack)
  BY DEF IInv, TypeOK
<1> QED
  BY <1>1 DEF Fail, itemVars, IInv, TypeOK, Asked, NoDots

(* An end of a segment with any stack that is well formed.                 *)
LEMMA Advancing ==
    ASSUME IInv, AtEndOfSegment, Advance,
           stack' \in Seq([name : Name \cup {Empty, ".", ".."}, mark : {"/", "end"}]),
           NoDots',
           \A k \in 1 .. Len(stack') :
               stack'[k].mark = "/" \/ (k = Len(stack') /\ char # "/")
    PROVE  IInv'
<1>1. at \in 1 .. Len(url) + 1 /\ Len(url) \in Nat
  BY DEF IInv, TypeOK
<1>2. char \in {"/", "?"} => at \in 1 .. Len(url)
  BY Chars DEF IInv
<1>3. /\ part' \in {"path", "query", "done"} /\ (part' = "path" => char = "/")
      /\ at' \in 1 .. Len(url) + 1 /\ seg' = Empty /\ result' \in {"ok", "parsing"}
      /\ url' = url /\ ns' = ns /\ ne' = ne /\ vs' = vs
  BY <1>1, <1>2 DEF AtEndOfSegment, Advance, GoTo, itemVars
<1>4. \A k \in 1 .. Len(stack') :
         stack'[k].mark = "/" \/ (k = Len(stack') /\ part' \in {"query", "done"})
  BY <1>3
<1>5. part = "path"
  BY DEF AtEndOfSegment
<1> QED
  BY <1>3, <1>4, <1>5 DEF IInv, TypeOK, Asked

LEMMA Step == IInv /\ [Next]_vars => IInv'
<1> SUFFICES ASSUME IInv, [Next]_vars PROVE IInv'
  OBVIOUS
<1>t. /\ TypeOK /\ Asked /\ NoDots
      /\ Len(url) \in Nat /\ at \in 1 .. Len(url) + 1
      /\ {ns, ne, vs} \subseteq 0 .. Len(url)
  BY DEF IInv, TypeOK
<1>p. part = "path" => \A k \in 1 .. Len(stack) : stack[k].mark = "/"
  BY <1>t DEF TypeOK
<1>1. ASSUME NEW u \in Urls, Ask(u) PROVE IInv'
  <2>1. u \in Seq(Mark \cup Word) /\ u # <<>> /\ Len(u) \in Nat
    BY UrlPathAssumption
  <2>2. Len(url) = 0
    BY <1>1, <1>t DEF Ask, Asked
  <2>3. at = 1 /\ ns = 0 /\ ne = 0 /\ vs = 0
    BY <1>t, <2>2
  <2>4. /\ url' = u /\ part' = "host" /\ at' = 1 /\ ns' = 0 /\ ne' = 0 /\ vs' = 0
        /\ seg' = seg /\ stack' = stack /\ result' = result /\ part = "idle"
    BY <1>1, <2>3 DEF Ask, itemVars
  <2> QED
    BY <1>t, <2>1, <2>4 DEF IInv, TypeOK, Asked, NoDots
<1>2. CASE SkipHost
  <2>1. PICK k \in Slashes : GoTo("path", k + 1)
    BY <1>2 DEF SkipHost
  <2>2. k + 1 \in 1 .. Len(url) + 1
    BY <1>t DEF Slashes, TypeOK
  <2> QED
    BY <1>2, <1>t, <2>1, <2>2, Moving DEF SkipHost, itemVars
<1>3. CASE OnlyHost
  BY <1>3, <1>t, Moving DEF OnlyHost, itemVars
<1>4. CASE NoHost
  <2>1. 2 \in 1 .. Len(url) + 1
    BY <1>4, <1>t DEF NoHost, Asked, TypeOK
  <2>2. GoTo("done", Len(url) + 1) \/ GoTo("path", 2)
    BY <1>4 DEF NoHost
  <2> QED
    BY <1>4, <1>t, <2>1, <2>2, Moving DEF NoHost, itemVars
<1>5. CASE NoPath
  BY <1>5, Failing DEF NoPath
<1>6. CASE Letters
  <2>1. at \in 1 .. Len(url)
    BY <1>6, <1>t, Chars, UrlPathAssumption DEF Letters
  <2> QED
    BY <1>6, <1>t, <2>1 DEF Letters, itemVars, IInv, TypeOK, Asked, NoDots
<1>7. CASE NonPath
  BY <1>7, Failing DEF NonPath
<1>8. CASE Up
  <2>1. /\ stack' = SubSeq(stack, 1, Len(stack) - 1) /\ stack # <<>>
        /\ AtEndOfSegment /\ Advance /\ part = "path"
    BY <1>8 DEF Up, Front, AtEndOfSegment
  <2>2. stack \in Seq([name : Name \cup {Empty, ".", ".."}, mark : {"/", "end"}])
    BY <1>t DEF TypeOK
  <2>3. /\ stack' \in Seq([name : Name \cup {Empty, ".", ".."}, mark : {"/", "end"}])
        /\ Len(stack') = Len(stack) - 1 /\ Len(stack) \in Nat
        /\ \A k \in 1 .. Len(stack') : stack'[k] = stack[k]
    <3> DEFINE Entry == [name : Name \cup {Empty, ".", ".."}, mark : {"/", "end"}]
    <3> HIDE DEF Entry
    <3>2. stack \in Seq(Entry)
      BY <2>2 DEF Entry
    <3>3. /\ stack' \in Seq(Entry)
          /\ Len(stack') = Len(stack) - 1 /\ Len(stack) \in Nat
          /\ \A k \in 1 .. Len(stack') : stack'[k] = stack[k]
      BY <2>1, <3>2, FrontOfSeq
    <3> QED
      BY <3>3 DEF Entry
  <2>4. NoDots'
    BY <1>t, <2>3 DEF NoDots
  <2>5. \A k \in 1 .. Len(stack') : stack'[k].mark = "/"
    BY <1>p, <2>1, <2>3
  <2> QED
    BY <2>1, <2>3, <2>4, <2>5, Advancing
<1>9. CASE UpFromRoot
  BY <1>9, Failing DEF UpFromRoot, AtEndOfSegment
<1>10. CASE Here
  <2>1. /\ stack' = stack /\ AtEndOfSegment /\ Advance /\ part = "path"
    BY <1>10 DEF Here, AtEndOfSegment
  <2> QED
    BY <1>t, <1>p, <2>1, Advancing DEF TypeOK, NoDots
<1>11. CASE Down
  <2>1. /\ stack' = Append(stack, [name |-> seg, mark |-> SlashOrEnd])
        /\ AtEndOfSegment /\ Advance /\ part = "path"
    BY <1>11 DEF Down, AtEndOfSegment
  <2>2. seg \in Name \cup {Empty}
    BY <1>11, <1>t DEF Down, IsUp, IsHere, TypeOK
  <2>3. stack \in Seq([name : Name \cup {Empty, ".", ".."}, mark : {"/", "end"}])
    BY <1>t DEF TypeOK
  <2>4. [name |-> seg, mark |-> SlashOrEnd] \in [name : Name \cup {Empty, ".", ".."}, mark : {"/", "end"}]
    BY <2>2 DEF SlashOrEnd
  <2>5. /\ stack' \in Seq([name : Name \cup {Empty, ".", ".."}, mark : {"/", "end"}])
        /\ Len(stack') = Len(stack) + 1 /\ Len(stack) \in Nat
        /\ \A k \in 1 .. Len(stack) : stack'[k] = stack[k]
        /\ stack'[Len(stack) + 1] = [name |-> seg, mark |-> SlashOrEnd]
    BY <2>1, <2>3, <2>4
  <2>6. NoDots'
    <3> SUFFICES ASSUME NEW k \in 1 .. Len(stack) + 1
                 PROVE  stack'[k].name \in Name \cup {Empty}
      BY <2>5 DEF NoDots
    <3>1. CASE k = Len(stack) + 1
      BY <2>2, <2>5, <3>1
    <3>2. CASE k # Len(stack) + 1
      <4>1. k \in 1 .. Len(stack)
        BY <2>5, <3>2
      <4> QED
        BY <1>t, <2>5, <4>1 DEF NoDots
    <3> QED
      BY <3>1, <3>2
  <2>7. \A k \in 1 .. Len(stack') :
           stack'[k].mark = "/" \/ (k = Len(stack') /\ char # "/")
    BY <1>p, <2>1, <2>5 DEF SlashOrEnd
  <2> QED
    BY <2>1, <2>5, <2>6, <2>7, Advancing
<1>12. CASE Item
  <2>1. char # "end" => at + 1 \in 1 .. Len(url) + 1
    BY <1>t, Chars
  <2> QED
    BY <1>12, <1>t, <2>1, Moving DEF Item, AtEndOfItem
<1>13. CASE NoItem
  BY <1>13, <1>t, Moving DEF NoItem, AtEndOfItem, itemVars
<1>14. CASE InItem
  <2>1. at \in 1 .. Len(url)
    BY <1>14, <1>t, Chars DEF InItem, AtEndOfItem
  <2>2. {ns, ne, vs}' \subseteq 0 .. Len(url)
    BY <1>14, <1>t, <2>1 DEF InItem
  <2> QED
    BY <1>14, <1>t, <2>1, <2>2, Moving DEF InItem
<1>15. CASE Reset
  BY <1>15 DEF Reset, IInv, TypeOK, Asked, NoDots
<1>16. CASE UNCHANGED vars
  BY <1>16, <1>t DEF vars, itemVars, IInv, TypeOK, Asked, NoDots
<1> QED
  BY <1>1, <1>2, <1>3, <1>4, <1>5, <1>6, <1>7, <1>8, <1>9, <1>10, <1>11,
     <1>12, <1>13, <1>14, <1>15, <1>16 DEF Next

LEMMA Invariant == Spec => []IInv
<1> QED
  BY Initially, Step, PTL DEF Spec

-----------------------------------------------------------------------------
(* The parser stays inside the URL, and gen_path may put the segments one  *)
(* behind the other: all but the last end with a `/'.                      *)
THEOREM TypeSafe == Spec => []TypeOK
<1> QED
  BY Invariant, PTL DEF IInv

(* No sequence of URLs, with any `..', `.', hosts and errors before it,    *)
(* makes server_process_get open a file above the root.                    *)
THEOREM NeverAboveRoot == Spec => []StaysBelowRoot
<1>1. IInv => StaysBelowRoot
  <2> SUFFICES ASSUME IInv PROVE ToSet(File) \cap {".", ".."} = {}
    BY DEF StaysBelowRoot
  <2> DEFINE names == [i \in DOMAIN stack |-> stack[i].name]
  <2>1. /\ Len(stack) \in Nat /\ DOMAIN stack = 1 .. Len(stack)
        /\ \A i \in 1 .. Len(stack) : names[i] \in Name \cup {Empty}
    BY StackTypes DEF IInv, TypeOK
  <2>2. names \in Seq(Name \cup {Empty}) /\ Len(names) = Len(stack)
    BY <2>1
  <2>3. {".", ".."} \cap (Name \cup {Empty, "index.html"}) = {}
    BY UrlPathAssumption
  <2>4. ToSet(names) \subseteq Name \cup {Empty}
    BY <2>1 DEF ToSet
  <2>5. ToSet(Append(names, "index.html")) \subseteq Name \cup {Empty, "index.html"}
    <3>1. Append(names, "index.html") \in Seq(Name \cup {Empty, "index.html"})
      BY <2>2
    <3> QED
      BY <3>1 DEF ToSet
  <2>6. File = names \/ File = Append(names, "index.html")
    BY DEF File
  <2> QED
    BY <2>3, <2>4, <2>5, <2>6
<1> QED
  BY <1>1, Invariant, PTL

-----------------------------------------------------------------------------
(* Induction, in a form that is about a set and not about an operator.     *)
LEMMA Least ==
    ASSUME NEW T, T \subseteq Nat, T # {}
    PROVE  \E x \in T : \A y \in T : x <= y
<1> DEFINE R == OpToRel(<, Nat)
<1>1. IsWellFoundedOn(R, Nat)
  BY NatLessThanWellFounded
<1>2. \A x, y \in Nat : x < y => <<x, y>> \in R
  BY DEF OpToRel
<1> HIDE DEF R
<1>3. PICK x \in T : \A y \in T : ~ (<<y, x>> \in R)
  BY <1>1, WFMin
<1>4. \A y \in T : x <= y
  <2> TAKE y \in T
  <2>1. x \in Nat /\ y \in Nat /\ ~ (y < x)
    BY <1>2, <1>3
  <2> QED
    BY <2>1
<1> QED
  BY <1>4

LEMMA Induction ==
    ASSUME NEW S, 0 \in S, \A n \in Nat : n \in S => n + 1 \in S
    PROVE  \A n \in Nat : n \in S
<1> SUFFICES ASSUME Nat \ S # {} PROVE FALSE
  OBVIOUS
<1>1. PICK x \in Nat \ S : \A y \in Nat \ S : x <= y
  BY Least
<1>2. x # 0 /\ x - 1 \in Nat /\ x - 1 + 1 = x
  BY <1>1
<1>3. x - 1 \in S
  BY <1>1, <1>2
<1> QED
  BY <1>2, <1>3

-----------------------------------------------------------------------------
(* What is between two marks of a sequence that follow each other.         *)
Cuts(s, m) == { i \in DOMAIN s : s[i] = m } \cup {0, Len(s) + 1}
Rank(s, m, i) == Cardinality({ c \in Cuts(s, m) : c < i })

LEMMA RankIncreases ==
    ASSUME NEW T, NEW s \in Seq(T), NEW m,
           NEW i \in Cuts(s, m), NEW j \in Cuts(s, m), i < j
    PROVE  /\ IsFiniteSet(Cuts(s, m)) /\ Cuts(s, m) \subseteq 0 .. Len(s) + 1
           /\ Rank(s, m, i) \in Nat /\ Rank(s, m, j) \in Nat
           /\ Rank(s, m, i) + 1 <= Rank(s, m, j)
           /\ (\A c \in Cuts(s, m) : c <= i \/ j <= c) => Rank(s, m, j) = Rank(s, m, i) + 1
<1> DEFINE C == Cuts(s, m)
           before(x) == { c \in C : c < x }
<1>1. C \subseteq 0 .. Len(s) + 1 /\ Len(s) \in Nat
  BY DEF Cuts
<1>2. IsFiniteSet(C)
  <2>1. 0 \in Int /\ Len(s) + 1 \in Int /\ C \in SUBSET (0 .. Len(s) + 1)
    BY <1>1
  <2> HIDE DEF C
  <2> QED
    BY <2>1, FS_Interval, FS_Subset
<1>3. C \subseteq Int
  BY <1>1
<1> HIDE DEF C
<1>4. \A x : IsFiniteSet(before(x)) /\ Cardinality(before(x)) \in Nat
  BY <1>2, FS_Subset, FS_CardinalityType
<1>5. /\ i \in C /\ j \in C /\ i \in Int /\ j \in Int
  BY <1>3 DEF C
<1>6. /\ before(i) \cup {i} \subseteq before(j)
      /\ i \notin before(i)
  <2>1. \A c \in C : c < i => c < j
    BY <1>3, <1>5
  <2>2. ~ (i < i)
    BY <1>5
  <2> QED
    BY <1>5, <2>1, <2>2
<1>7. Cardinality(before(i) \cup {i}) = Cardinality(before(i)) + 1
  BY <1>4, <1>6, FS_AddElement
<1>8. Cardinality(before(i)) + 1 <= Cardinality(before(j))
  BY <1>4, <1>6, <1>7, FS_Subset
<1>9. ASSUME \A c \in C : c <= i \/ j <= c PROVE before(j) = before(i) \cup {i}
  <2>1. \A c \in C : c < j => c < i \/ c = i
    BY <1>3, <1>5, <1>9
  <2> QED
    BY <1>6, <2>1
<1> QED
  BY <1>1, <1>2, <1>4, <1>7, <1>8, <1>9 DEF Rank, C

LEMMA RankOf ==
    ASSUME NEW T, NEW s \in Seq(T), NEW m
    PROVE  /\ Rank(s, m, 0) = 0
           /\ Cardinality(Cuts(s, m)) \in Nat
           /\ Rank(s, m, Len(s) + 1) = Cardinality(Cuts(s, m)) - 1
<1>1. Cuts(s, m) \subseteq 0 .. Len(s) + 1 /\ Len(s) \in Nat /\ Len(s) + 1 \in Cuts(s, m)
  BY DEF Cuts
<1>2. IsFiniteSet(Cuts(s, m))
  <2>1. 0 \in Int /\ Len(s) + 1 \in Int /\ Cuts(s, m) \in SUBSET (0 .. Len(s) + 1)
    BY <1>1
  <2> QED
    BY <2>1, FS_Interval, FS_Subset
<1>3. { c \in Cuts(s, m) : c < 0 } = {}
  BY <1>1
<1>4. { c \in Cuts(s, m) : c < Len(s) + 1 } = Cuts(s, m) \ {Len(s) + 1}
  BY <1>1
<1>5. Cardinality(Cuts(s, m) \ {Len(s) + 1}) = Cardinality(Cuts(s, m)) - 1
  BY <1>1, <1>2, FS_RemoveElement
<1> QED
  BY <1>2, <1>3, <1>4, <1>5, FS_EmptySet, FS_CardinalityType DEF Rank

LEMMA SplitAt ==
    ASSUME NEW T, NEW s \in Seq(T), NEW m,
           NEW i \in Cuts(s, m), NEW j \in Cuts(s, m), i < j,
           \A c \in Cuts(s, m) : c <= i \/ j <= c
    PROVE  /\ Rank(s, m, j) \in DOMAIN Split(s, m) /\ Rank(s, m, i) \in Nat
           /\ Rank(s, m, j) = Rank(s, m, i) + 1
           /\ Split(s, m)[Rank(s, m, j)] = SubSeq(s, i + 1, j - 1)
           /\ Rank(s, m, j) = Len(Split(s, m)) <=> j = Len(s) + 1
<1> DEFINE C == Cuts(s, m)
           n == Len(s) + 1
           cut(k) == CHOOSE x \in C : Rank(s, m, x) = k
<1>1. C \subseteq Int /\ n \in C /\ j <= n /\ n \in Int
  BY DEF Cuts
<1>2. /\ Rank(s, m, i) \in Nat /\ Rank(s, m, j) \in Nat
      /\ Rank(s, m, j) = Rank(s, m, i) + 1
  BY RankIncreases
<1>3. j # n => Rank(s, m, j) + 1 <= Rank(s, m, n)
  BY <1>1, RankIncreases
<1>4. \A x, y \in C : Rank(s, m, x) = Rank(s, m, y) => x = y
  <2> SUFFICES ASSUME NEW x \in C, NEW y \in C, x < y PROVE Rank(s, m, x) # Rank(s, m, y)
    BY <1>1
  <2> QED
    BY RankIncreases
<1>5. Cardinality(C) \in Nat /\ Rank(s, m, n) = Cardinality(C) - 1
  BY RankOf
<1>6. cut(Rank(s, m, i)) = i /\ cut(Rank(s, m, j)) = j
  BY <1>4
<1>7. Split(s, m) = [k \in 1 .. Cardinality(C) - 1 |-> SubSeq(s, cut(k - 1) + 1, cut(k) - 1)]
  BY Zenon DEF Split, Cuts, Rank
<1> HIDE DEF cut, C
<1>8. Rank(s, m, j) \in 1 .. Cardinality(C) - 1 /\ Rank(s, m, j) - 1 = Rank(s, m, i)
  BY <1>2, <1>3, <1>5, <1>1 DEF n
<1>9. Len(Split(s, m)) = Cardinality(C) - 1
  BY <1>7, <1>8, <1>5
<1>10. Rank(s, m, j) = Cardinality(C) - 1 <=> j = n
  BY <1>2, <1>3, <1>5
<1> QED
  BY <1>2, <1>6, <1>7, <1>8, <1>9, <1>10

LEMMA SplitIs ==
    ASSUME NEW T, NEW s \in Seq(T), NEW m
    PROVE  Len(Split(s, m)) \in Nat /\ DOMAIN Split(s, m) = 1 .. Len(Split(s, m))
<1> DEFINE n == Cardinality(Cuts(s, m)) - 1
           cut(k) == CHOOSE x \in Cuts(s, m) : Rank(s, m, x) = k
<1>1. n \in Nat
  <2>1. /\ Len(s) + 1 \in Cuts(s, m) /\ 0 \in Cuts(s, m)
        /\ Len(s) \in Nat /\ 0 < Len(s) + 1
    BY DEF Cuts
  <2>2. Rank(s, m, Len(s) + 1) \in Nat
    BY <2>1, RankIncreases
  <2> QED
    BY <2>2, RankOf
<1>2. Split(s, m) = [k \in 1 .. n |-> SubSeq(s, cut(k - 1) + 1, cut(k) - 1)]
  BY Zenon DEF Split, Cuts, Rank
<1> HIDE DEF n, cut
<1> QED
  BY <1>1, <1>2

LEMMA EmptySplit ==
    ASSUME NEW m
    PROVE  Len(Split(<<>>, m)) = 1 /\ Split(<<>>, m)[1] = <<>>
<1> DEFINE s == <<>>
<1>1. s \in Seq({}) /\ Cuts(s, m) = {0, 1} /\ Len(s) = 0 /\ SubSeq(s, 1, 0) = <<>>
  BY DEF Cuts
<1>2. /\ 0 \in Cuts(s, m) /\ 1 \in Cuts(s, m) /\ 0 < 1 /\ 0 + 1 = 1 /\ 1 - 1 = 0
      /\ \A c \in Cuts(s, m) : c <= 0 \/ 1 <= c
      /\ 1 = Len(s) + 1 /\ s \in Seq({})
  BY <1>1
<1>3. Rank(s, m, 0) = 0
  BY <1>1, RankOf
<1> HIDE DEF s
<1>4. /\ Rank(s, m, 1) = Rank(s, m, 0) + 1
      /\ Split(s, m)[Rank(s, m, 1)] = SubSeq(s, 0 + 1, 1 - 1)
      /\ Rank(s, m, 1) = Len(Split(s, m)) <=> 1 = Len(s) + 1
  BY ONLY <1>2, SplitAt
<1>5. Len(Split(s, m)) = 1 /\ Split(s, m)[1] = <<>>
  <2>1. Rank(s, m, 1) = 1
    BY <1>3, <1>4
  <2> QED
    BY <1>1, <1>2, <1>4, <2>1
<1> QED
  BY <1>5 DEF s

-----------------------------------------------------------------------------
(* The recursion that says what a path means has a solution.               *)
Dirs(segs) ==
    CHOOSE dir : dir = [i \in 0 .. Len(segs) |->
        IF i = 0 THEN <<>> ELSE Enter(dir[i - 1], segs[i], i = Len(segs))]

LEMMA DirsEnter ==
    ASSUME NEW segs, Len(segs) \in Nat
    PROVE  /\ Dirs(segs)[0] = <<>>
           /\ \A i \in 1 .. Len(segs) :
                 Dirs(segs)[i] = Enter(Dirs(segs)[i - 1], segs[i], i = Len(segs))
<1> DEFINE Value(i, dir) == IF i = 0 THEN <<>> ELSE Enter(dir[i - 1], segs[i], i = Len(segs))
           Solves(n, dir) == dir = [i \in 0 .. n |-> Value(i, dir)]
           S == { n \in Nat : \E dir : Solves(n, dir) }
<1>1. 0 \in S
  <2>1. Solves(0, [i \in 0 .. 0 |-> <<>>])
    OBVIOUS
  <2> QED
    BY <2>1
<1>2. ASSUME NEW n \in Nat, n \in S PROVE n + 1 \in S
  <2>1. PICK dir : Solves(n, dir)
    BY <1>2
  <2> DEFINE longer == [i \in 0 .. n + 1 |-> IF i = n + 1 THEN Value(i, dir) ELSE dir[i]]
  <2>2. \A i \in 0 .. n : dir[i] = Value(i, dir) /\ longer[i] = dir[i]
    BY <2>1
  <2>3. \A i \in 0 .. n + 1 : longer[i] = Value(i, longer)
    <3> TAKE i \in 0 .. n + 1
    <3>1. i # 0 => i - 1 \in 0 .. n /\ longer[i - 1] = dir[i - 1]
      BY <2>2
    <3>2. Value(i, longer) = Value(i, dir)
      BY <3>1
    <3>3. longer[i] = Value(i, dir)
      <4> HIDE DEF Value
      <4>1. i = n + 1 \/ i \in 0 .. n
        OBVIOUS
      <4> QED
        BY <2>2, <4>1
    <3> QED
      BY <3>2, <3>3
  <2>4. Solves(n + 1, longer)
    <3> HIDE DEF Value
    <3>1. longer = [i \in 0 .. n + 1 |-> longer[i]]
      OBVIOUS
    <3> HIDE DEF longer
    <3> QED
      BY <2>3, <3>1
  <2> HIDE DEF Solves
  <2> QED
    BY <2>4
<1>3. Len(segs) \in S
  <2> HIDE DEF S
  <2> QED
    BY <1>1, <1>2, Induction
<1>4. Solves(Len(segs), Dirs(segs))
  BY <1>3 DEF Dirs
<1> QED
  BY <1>4

-----------------------------------------------------------------------------
(* The mark in front of the segment that is being read.                    *)
Cut == IF seg = Empty THEN at - 1 ELSE at - 2
Stop == Stops({"?", "#"})
Names == [i \in DOMAIN stack |-> stack[i].name]

(* What the URL is and what is there before it is parsed.                  *)
Known == url # <<>> => url \in Urls
Fresh == part \in {"idle", "host"} =>
            /\ stack = <<>> /\ seg = Empty /\ result = "parsing" /\ at = 1
            /\ ns = 0 /\ ne = 0 /\ vs = 0 /\ items = <<>>

(* Where the parser is in the path of a plain URL: behind a `/', with at   *)
(* most one word since, and with the stack that the segments so far mean.  *)
Walks ==
    /\ PathAt <= Cut /\ at <= Stop /\ url[PathAt] = "/" /\ url[Cut] = "/"
    /\ seg # Empty => url[at - 1] = seg
    /\ \A i \in PathAt + 1 .. at - 1 : url[i] \notin {"=", "&", Scheme}
    /\ Last(Segments) # "." => Dirs(Segments)[Rank(Path, "/", Cut - PathAt)] = Names

(* Where it came out.                                                      *)
Opened ==
    IF result = "error" THEN Unclean \/ Meaning = Above
    ELSE /\ ~Unclean /\ Meaning = Names /\ Names # Above
         /\ (stack = <<>> \/ Last(stack).mark = "/") <=> Last(Segments) \in {Empty, ".."}

Results ==
    /\ part \in {"path", "query"} => result = "parsing"
    /\ part = "done" => result \in {"ok", "error"}

PathInv ==
    /\ IInv /\ Known /\ Fresh /\ Results
    /\ part = "path" /\ Plain => Walks
    /\ part \in {"query", "done"} /\ Plain /\ url # <<Scheme>> /\ Last(Segments) # "."
          => Opened

-----------------------------------------------------------------------------
LEMMA FirstIs ==
    ASSUME NEW S, S \subseteq Nat, S # {}
    PROVE  First(S) \in S /\ \A k \in S : First(S) <= k
<1>1. PICK x \in S : \A y \in S : x <= y
  BY Least
<1> QED
  BY <1>1 DEF First

LEMMA OneElement ==
    ASSUME NEW T, NEW s \in Seq(T), NEW k \in 1 .. Len(s)
    PROVE  SubSeq(s, k, k) # <<>> /\ SubSeq(s, k, k)[1] = s[k]
<1>1. \A x \in k .. k : s[x] \in T
  OBVIOUS
<1>2. /\ Len(SubSeq(s, k, k)) = k - k + 1
      /\ \A x \in 1 .. k - k + 1 : SubSeq(s, k, k)[x] = s[k + x - 1]
  BY <1>1, SubSeqProperties
<1>3. k - k + 1 = 1 /\ k + 1 - 1 = k
  OBVIOUS
<1> QED
  BY <1>2, <1>3

LEMMA StopsAt ==
    ASSUME TypeOK, NEW S, PathAt <= Len(url) + 1
    PROVE  /\ Stops(S) \in PathAt .. Len(url) + 1
           /\ Stops(S) <= Len(url) => url[Stops(S)] \in S
           /\ \A i \in PathAt .. Stops(S) - 1 : url[i] \notin S
<1> DEFINE ends == { i \in PathAt .. Len(url) : url[i] \in S } \cup {Len(url) + 1}
<1>1. Len(url) \in Nat /\ PathAt \in Nat
  BY DEF TypeOK, PathAt
<1>2. ends \subseteq PathAt .. Len(url) + 1 /\ ends \subseteq Nat /\ ends # {}
  BY <1>1
<1>3. Stops(S) = First(ends)
  BY DEF Stops
<1> HIDE DEF ends
<1>4. Stops(S) \in ends /\ \A k \in ends : Stops(S) <= k
  BY <1>2, <1>3, FirstIs
<1>5. Stops(S) \in PathAt .. Len(url) + 1 /\ (Stops(S) <= Len(url) => url[Stops(S)] \in S)
  BY <1>1, <1>2, <1>4 DEF ends
<1>6. ASSUME NEW i \in PathAt .. Stops(S) - 1, url[i] \in S PROVE FALSE
  <2>1. i \in PathAt .. Len(url)
    BY <1>1, <1>5
  <2>2. i \in ends
    BY <1>6, <2>1 DEF ends
  <2> QED
    BY <1>1, <1>4, <1>5, <2>1, <2>2
<1> QED
  BY <1>5, <1>6

LEMMA PathIs ==
    ASSUME TypeOK, PathAt < Stop, PathAt <= Len(url) + 1
    PROVE  /\ Path \in Seq(Mark \cup Word) /\ Len(Path) = Stop - 1 - PathAt
           /\ \A i \in 1 .. Len(Path) : Path[i] = url[PathAt + i]
<1>1. /\ Len(url) \in Nat /\ PathAt \in Nat \ {0} /\ url \in Seq(Mark \cup Word)
      /\ Stop \in PathAt + 1 .. Len(url) + 1
  BY StopsAt DEF TypeOK, PathAt, Stop
<1>2. Path = SubSeq(url, PathAt + 1, Stop - 1)
  BY DEF Path, Stop
<1>3. \A i \in PathAt + 1 .. Stop - 1 : url[i] \in Mark \cup Word
  BY <1>1
<1> DEFINE m == PathAt + 1
           n == Stop - 1
<1>4. m \in Int /\ n \in Int /\ n - m + 1 = Stop - 1 - PathAt /\ n - m + 1 \in Nat
  BY <1>1
<1>5. /\ Path \in Seq(Mark \cup Word)
      /\ Len(Path) = IF m <= n THEN n - m + 1 ELSE 0
      /\ \A i \in 1 .. n - m + 1 : Path[i] = url[m + i - 1]
  <2> HIDE DEF m, n
  <2> QED
    BY <1>2, <1>3, <1>4, SubSeqProperties DEF m, n
<1>6. Len(Path) = n - m + 1
  BY <1>1, <1>5
<1> QED
  BY <1>1, <1>4, <1>5, <1>6

LEMMA Places ==
    ASSUME TypeOK, Walks, part = "path"
    PROVE  /\ Len(url) \in Nat /\ PathAt \in Nat \ {0} /\ PathAt <= Len(url) + 1
           /\ at \in PathAt + 1 .. Stop /\ Stop \in PathAt + 1 .. Len(url) + 1
           /\ Cut \in PathAt .. at - 1 /\ Cut \in {at - 1, at - 2}
           /\ at = Stop <=> char \in {"?", "#", "end"}
<1>1. Len(url) \in Nat /\ PathAt \in Nat \ {0} /\ PathAt <= Len(url) + 1 /\ at \in 1 .. Len(url) + 1
  BY DEF TypeOK, PathAt, Absolute
<1>2. /\ Stop \in PathAt .. Len(url) + 1
      /\ Stop <= Len(url) => url[Stop] \in {"?", "#"}
      /\ \A i \in PathAt .. Stop - 1 : url[i] \notin {"?", "#"}
  BY <1>1, StopsAt DEF Stop
<1>3. Cut \in {at - 1, at - 2} /\ PathAt <= Cut /\ at <= Stop
  BY DEF Cut, Walks
<1>4. at = Stop => char \in {"?", "#", "end"}
  BY <1>1, <1>2 DEF char
<1>5. ASSUME char \in {"?", "#", "end"} PROVE at = Stop
  <2>1. at = Len(url) + 1 \/ (at \in 1 .. Len(url) /\ url[at] = char /\ char # "end")
    BY <1>1, Chars DEF char
  <2>2. CASE at = Len(url) + 1
    BY <1>1, <1>2, <1>3, <2>2
  <2>3. CASE at \in 1 .. Len(url) /\ url[at] = char /\ char # "end"
    <3>1. at \notin PathAt .. Stop - 1
      BY <1>2, <1>5, <2>3
    <3> QED
      BY <1>1, <1>2, <1>3, <3>1
  <2> QED
    BY <2>1, <2>2, <2>3
<1> QED
  BY <1>1, <1>2, <1>3, <1>4, <1>5

LEMMA SegmentsAre ==
    ASSUME NEW T, Path \in Seq(T)
    PROVE  /\ Len(Segments) \in Nat
           /\ Len(Segments) = Len(Split(Path, "/"))
           /\ DOMAIN Split(Path, "/") = 1 .. Len(Segments)
           /\ \A k \in 1 .. Len(Segments) : Segments[k] = WordOf(Split(Path, "/")[k])
<1> DEFINE split == Split(Path, "/")
<1>1. Len(split) \in Nat /\ DOMAIN split = 1 .. Len(split)
  BY SplitIs
<1>2. Segments = [k \in DOMAIN split |-> WordOf(split[k])]
  BY DEF Segments
<1> HIDE DEF split
<1>3. Segments = [k \in 1 .. Len(split) |-> WordOf(split[k])]
  BY <1>1, <1>2
<1>4. Len(Segments) = Len(split)
  BY <1>1, <1>3
<1> QED
  BY <1>1, <1>3, <1>4 DEF split

(* A segment that ends where the parser is.                                *)
LEMMA SegmentEnds ==
    ASSUME TypeOK, Walks, AtEndOfSegment
    PROVE  /\ Rank(Path, "/", Cut - PathAt) \in Nat
           /\ Rank(Path, "/", at - PathAt) = Rank(Path, "/", Cut - PathAt) + 1
           /\ Len(Segments) \in Nat
           /\ Rank(Path, "/", at - PathAt) \in 1 .. Len(Segments)
           /\ Segments[Rank(Path, "/", at - PathAt)] = seg
           /\ Rank(Path, "/", at - PathAt) = Len(Segments) <=> char # "/"
<1> DEFINE i == Cut - PathAt
           j == at - PathAt
           split == Split(Path, "/")
<1>1. /\ PathAt \in Nat \ {0} /\ Len(url) \in Nat
      /\ at \in PathAt + 1 .. Stop /\ Stop \in PathAt + 1 .. Len(url) + 1
      /\ Cut \in PathAt .. at - 1 /\ Cut \in {at - 1, at - 2}
      /\ at = Stop <=> char \in {"?", "#", "end"}
  BY Places DEF AtEndOfSegment
<1>2. /\ Path \in Seq(Mark \cup Word) /\ Len(Path) = Stop - 1 - PathAt
      /\ \A k \in 1 .. Len(Path) : Path[k] = url[PathAt + k]
  BY <1>1, PathIs
<1>3. at = Stop <=> char # "/"
  BY <1>1 DEF AtEndOfSegment
<1>4. i \in Nat /\ j \in Nat /\ i < j /\ i + 1 \in {j, j - 1} /\ j <= Len(Path) + 1
  BY <1>1, <1>2
<1>5. i \in Cuts(Path, "/")
  <2>1. i = 0 \/ (i \in 1 .. Len(Path) /\ Path[i] = url[Cut])
    BY <1>1, <1>2, <1>4
  <2> QED
    BY <1>2, <2>1 DEF Cuts, Walks
<1>6. j \in Cuts(Path, "/")
  <2>1. CASE at = Stop
    <3>1. j = Len(Path) + 1
      BY <1>1, <1>2, <2>1
    <3> QED
      BY <3>1 DEF Cuts
  <2>2. CASE char = "/"
    <3>1. j \in 1 .. Len(Path) /\ Path[j] = url[at]
      BY <1>1, <1>2, <1>3, <2>2
    <3>2. url[at] = "/"
      BY <1>1, <2>2 DEF char
    <3> QED
      BY <1>2, <3>1, <3>2 DEF Cuts
  <2> QED
    BY <1>3, <2>1, <2>2
<1>7. i + 1 = j - 1 => /\ seg # Empty /\ i + 1 \in 1 .. Len(Path) /\ Path[i + 1] = seg
  BY <1>1, <1>2, <1>4 DEF Cut, Walks
<1>8. i + 1 = j => seg = Empty
  BY <1>1 DEF Cut
<1>9. \A c \in Cuts(Path, "/") : c <= i \/ j <= c
  <2> SUFFICES ASSUME NEW c \in Cuts(Path, "/"), i < c, c < j PROVE FALSE
    BY <1>2, <1>4 DEF Cuts
  <2>1. c = i + 1 /\ i + 1 = j - 1
    BY <1>2, <1>4 DEF Cuts
  <2>2. seg = "/"
    BY <1>2, <1>4, <1>7, <2>1 DEF Cuts
  <2> QED
    BY <1>7, <2>1, <2>2, UrlPathAssumption DEF TypeOK, Mark
<1> HIDE DEF i, j
<1>10. /\ Rank(Path, "/", j) \in DOMAIN split /\ Rank(Path, "/", i) \in Nat
       /\ Rank(Path, "/", j) = Rank(Path, "/", i) + 1
       /\ split[Rank(Path, "/", j)] = SubSeq(Path, i + 1, j - 1)
       /\ Rank(Path, "/", j) = Len(split) <=> j = Len(Path) + 1
  BY <1>2, <1>4, <1>5, <1>6, <1>9, SplitAt
<1>11. WordOf(SubSeq(Path, i + 1, j - 1)) = seg
  <2>1. CASE i + 1 = j
    BY <1>2, <1>4, <1>8, <2>1 DEF WordOf
  <2>2. CASE i + 1 = j - 1
    <3>1. SubSeq(Path, i + 1, j - 1) # <<>> /\ SubSeq(Path, i + 1, j - 1)[1] = Path[i + 1]
      <4>1. i + 1 \in 1 .. Len(Path) /\ Path \in Seq(Mark \cup Word) /\ j - 1 = i + 1
        BY <1>2, <1>7, <2>2
      <4> QED
        BY <4>1, OneElement
    <3> QED
      BY <1>7, <2>2, <3>1 DEF WordOf
  <2> QED
    BY <1>4, <2>1, <2>2
<1>12. /\ Len(Segments) \in Nat /\ Len(Segments) = Len(split)
       /\ DOMAIN split = 1 .. Len(Segments)
       /\ \A k \in 1 .. Len(Segments) : Segments[k] = WordOf(split[k])
  BY <1>2, SegmentsAre
<1>16. Segments[Rank(Path, "/", j)] = seg
  BY <1>10, <1>11, <1>12
<1>17. j = Len(Path) + 1 <=> char # "/"
  BY <1>1, <1>2, <1>3 DEF j
<1> QED
  BY <1>10, <1>12, <1>16, <1>17 DEF i, j

LEMMA Same ==
    ASSUME url' = url
    PROVE  /\ Segments' = Segments /\ Path' = Path /\ PathAt' = PathAt /\ Stop' = Stop
           /\ Plain' <=> Plain
           /\ Unclean' <=> Unclean
           /\ Meaning' = Meaning
<1>1. /\ PathAt' = PathAt /\ (Absolute' <=> Absolute) /\ DoubleSlash' = DoubleSlash
  BY DEF PathAt, Absolute, DoubleSlash
<1>2. Stop' = Stop /\ Path' = Path
  BY <1>1 DEF Stop, Path, Stops
<1>3. Segments' = Segments
  BY <1>2 DEF Segments
<1>4. Meaning' = Meaning
  BY <1>3 DEF Meaning
<1>5. (Plain' <=> Plain) /\ (Unclean' <=> Unclean)
  BY <1>1, <1>2 DEF Plain, Unclean
<1> QED
  BY <1>1, <1>2, <1>3, <1>4, <1>5

LEMMA MeaningIs == Meaning = Dirs(Segments)[Len(Segments)]
<1> QED
  BY Zenon DEF Meaning, Dirs

(* The directory behind the segment that ends where the parser is.         *)
LEMMA Entered ==
    ASSUME TypeOK, Walks, AtEndOfSegment, Last(Segments) # "."
    PROVE  Dirs(Segments)[Rank(Path, "/", at - PathAt)] = Enter(Names, seg, char # "/")
<1> DEFINE r == Rank(Path, "/", at - PathAt)
<1>1. /\ Len(Segments) \in Nat /\ r \in 1 .. Len(Segments) /\ Segments[r] = seg
      /\ r = Len(Segments) <=> char # "/"
      /\ r - 1 = Rank(Path, "/", Cut - PathAt)
  BY SegmentEnds
<1>2. Dirs(Segments)[r - 1] = Names
  BY <1>1 DEF Walks
<1> HIDE DEF r
<1>3. Dirs(Segments)[r] = Enter(Dirs(Segments)[r - 1], Segments[r], r = Len(Segments))
  BY <1>1, DirsEnter
<1>4. (r = Len(Segments)) = (char # "/")
  BY <1>1
<1> QED
  BY <1>1, <1>2, <1>3, <1>4 DEF r

(* On from one segment to the next, or out of the path.                    *)
LEMMA Onward ==
    ASSUME TypeOK, Plain, Walks, AtEndOfSegment, Advance, result = "parsing",
           Last(Segments) # "." => Enter(Names, seg, char # "/") = Names' /\ Names' # Above,
           char # "/" /\ Last(Segments) # "." =>
               ((stack' = <<>> \/ Last(stack').mark = "/") <=> seg \in {Empty, ".."})
    PROVE  /\ part' = "path" => Walks'
           /\ part' \in {"query", "done"} /\ Last(Segments) # "." => Opened'
<1>1. url' = url
  BY DEF Advance
<1>2. /\ Segments' = Segments /\ Path' = Path /\ PathAt' = PathAt /\ Stop' = Stop
      /\ Plain' <=> Plain
      /\ Unclean' <=> Unclean
      /\ Meaning' = Meaning
  BY <1>1, Same
<1>3. /\ PathAt \in Nat \ {0} /\ Len(url) \in Nat
      /\ at \in PathAt + 1 .. Stop /\ Stop \in PathAt + 1 .. Len(url) + 1
      /\ at = Stop <=> char \in {"?", "#", "end"}
  BY Places DEF AtEndOfSegment
<1>4. Last(Segments) # "." => Dirs(Segments)[Rank(Path, "/", at - PathAt)] = Names'
  BY Entered
<1>5. ASSUME part' = "path" PROVE Walks'
  <2>1. char = "/" /\ at' = at + 1 /\ seg' = Empty
    BY <1>5 DEF Advance, GoTo
  <2>2. Cut' = at /\ at + 1 <= Stop /\ url[at] = "/"
    BY <1>3, <2>1 DEF Cut, char
  <2>3. \A i \in PathAt + 1 .. at : url[i] \notin {"=", "&", Scheme}
    <3>1. \A i \in PathAt + 1 .. at : i = at \/ i \in PathAt + 1 .. at - 1
      BY <1>3
    <3>2. "/" \notin {"=", "&", Scheme}
      BY UrlPathAssumption DEF Mark
    <3> QED
      BY <2>2, <3>1, <3>2 DEF Walks
  <2>4. PathAt <= at /\ at + 1 - 1 = at
    BY <1>3
  <2>5. Last(Segments') # "." => Dirs(Segments')[Rank(Path', "/", Cut' - PathAt')] = Names'
    BY <1>2, <1>4, <2>2
  <2>6. /\ PathAt' <= Cut' /\ at' <= Stop' /\ url'[PathAt'] = "/" /\ url'[Cut'] = "/"
        /\ seg' # Empty => url'[at' - 1] = seg'
    BY <1>1, <1>2, <2>1, <2>2, <2>4 DEF Walks
  <2>7. \A i \in PathAt' + 1 .. at' - 1 : url'[i] \notin {"=", "&", Scheme}
    <3>1. PathAt' = PathAt /\ at' - 1 = at /\ url' = url
      BY <1>1, <1>2, <1>3, <2>1
    <3> QED
      BY <2>3, <3>1
  <2> QED
    BY <2>5, <2>6, <2>7 DEF Walks
<1>6. ASSUME part' \in {"query", "done"}, Last(Segments) # "." PROVE Opened'
  <2>1. char # "/" /\ at = Stop /\ result' # "error"
    BY <1>3, <1>6 DEF Advance, GoTo, AtEndOfSegment
  <2>2. /\ Rank(Path, "/", at - PathAt) = Len(Segments)
        /\ Segments[Rank(Path, "/", at - PathAt)] = seg
    BY <2>1, SegmentEnds
  <2>3. Meaning = Names'
    BY <1>4, <1>6, <2>2, MeaningIs
  <2>4. Last(Segments) = seg
    BY <2>2 DEF Last
  <2>5. ~Unclean
    <3>1. /\ Path \in Seq(Mark \cup Word) /\ Len(Path) = Stop - 1 - PathAt
          /\ \A i \in 1 .. Len(Path) : Path[i] = url[PathAt + i]
      BY <1>3, PathIs
    <3>2. \A i \in 1 .. Len(Path) : Path[i] \notin {"=", "&", Scheme}
      <4> TAKE i \in 1 .. Len(Path)
      <4>1. PathAt + i \in PathAt + 1 .. at - 1
        BY <1>3, <2>1, <3>1
      <4> QED
        BY <3>1, <4>1 DEF Walks
    <3>3. ToSet(Path) \cap {"=", "&", Scheme} = {}
      BY <3>1, <3>2 DEF ToSet
    <3>4. url[1] = "/" \/ Absolute
      BY DEF Walks, PathAt
    <3> QED
      BY <3>3, <3>4 DEF Unclean
  <2>6. (stack' = <<>> \/ Last(stack').mark = "/") <=> Last(Segments) \in {Empty, ".."}
    BY <1>6, <2>1, <2>4
  <2>7. (stack = <<>> \/ Last(stack).mark = "/")' <=> (stack' = <<>> \/ Last(stack').mark = "/")
    BY DEF Last
  <2> QED
    BY <1>2, <1>6, <2>1, <2>3, <2>5, <2>6, <2>7 DEF Opened
<1> QED
  BY <1>5, <1>6

(* A path that left the root stays outside.                                *)
LEMMA StaysAbove ==
    ASSUME NEW segs, Len(segs) \in Nat, NEW r \in 0 .. Len(segs), Dirs(segs)[r] = Above
    PROVE  Dirs(segs)[Len(segs)] = Above
<1> DEFINE S == { k \in Nat : r + k <= Len(segs) => Dirs(segs)[r + k] = Above }
<1>1. 0 \in S
  OBVIOUS
<1>2. ASSUME NEW k \in Nat, k \in S PROVE k + 1 \in S
  <2> SUFFICES ASSUME r + (k + 1) <= Len(segs) PROVE Dirs(segs)[r + (k + 1)] = Above
    OBVIOUS
  <2>1. /\ r + (k + 1) \in 1 .. Len(segs) /\ r + (k + 1) - 1 = r + k
        /\ r + k <= Len(segs)
    OBVIOUS
  <2>2. Dirs(segs)[r + k] = Above
    BY <1>2, <2>1
  <2>3. Dirs(segs)[r + (k + 1)]
          = Enter(Dirs(segs)[r + k], segs[r + (k + 1)], r + (k + 1) = Len(segs))
    BY <2>1, DirsEnter
  <2> QED
    BY <2>2, <2>3 DEF Enter
<1>3. Len(segs) - r \in S
  <2> HIDE DEF S
  <2> QED
    BY <1>1, <1>2, Induction
<1> QED
  BY <1>3

(* Where the path begins, nothing is on the stack.                         *)
LEMMA Starts ==
    ASSUME TypeOK, Fresh, part = "host", url # <<>>, Plain, UNCHANGED <<url, stack>>,
           PathAt <= Len(url), url[PathAt] = "/", GoTo("path", PathAt + 1)
    PROVE  Walks'
<1>1. /\ Segments' = Segments /\ Path' = Path /\ PathAt' = PathAt /\ Stop' = Stop
  BY Same
<1>2. /\ PathAt \in Nat \ {0} /\ PathAt <= Len(url) + 1 /\ Len(url) \in Nat
  BY DEF TypeOK, PathAt, Absolute
<1>3. /\ Stop \in PathAt .. Len(url) + 1
      /\ Stop <= Len(url) => url[Stop] \in {"?", "#"}
  BY <1>2, StopsAt DEF Stop
<1>4. PathAt + 1 <= Stop /\ Len(url) \in Nat
  BY <1>2, <1>3
<1>5. part' = "path" /\ at' = PathAt + 1 /\ seg' = Empty /\ Cut' = PathAt
  BY <1>2 DEF GoTo, Cut
<1>6. Names' = <<>>
  BY DEF Fresh, Names
<1>7. Dirs(Segments)[Rank(Path, "/", 0)] = <<>>
  <2>1. Path \in Seq(Mark \cup Word)
    <3>1. PathAt < Stop
      BY <1>2, <1>3, <1>4
    <3> QED
      BY <1>2, <3>1, PathIs
  <2>2. Len(Segments) \in Nat
    BY <2>1, SegmentsAre
  <2> QED
    BY <2>1, <2>2, RankOf, DirsEnter
<1>8. Cut' - PathAt' = 0 /\ at' - 1 = PathAt /\ at' <= Stop' /\ PathAt' <= Cut'
  BY <1>1, <1>2, <1>4, <1>5
<1>9. Dirs(Segments')[Rank(Path', "/", Cut' - PathAt')] = Names'
  BY <1>1, <1>6, <1>7, <1>8
<1>10. \A i \in PathAt' + 1 .. at' - 1 : url'[i] \notin {"=", "&", Scheme}
  BY <1>1, <1>2, <1>8
<1> QED
  BY <1>1, <1>5, <1>8, <1>9, <1>10 DEF Walks

LEMMA NamesOf ==
    ASSUME TypeOK, NoDots
    PROVE  /\ Names \in Seq(Name \cup {Empty}) /\ Len(Names) = Len(stack)
           /\ Names # Above
           /\ Names = <<>> <=> stack = <<>>
<1>1. /\ Len(stack) \in Nat /\ DOMAIN stack = 1 .. Len(stack)
      /\ \A i \in 1 .. Len(stack) : stack[i].name \in Name \cup {Empty}
      /\ Len(stack) = 0 <=> stack = <<>>
  BY StackTypes DEF TypeOK
<1>2. Names \in Seq(Name \cup {Empty}) /\ Len(Names) = Len(stack)
  BY <1>1 DEF Names
<1>3. Names # Above
  <2> SUFFICES ASSUME Names = Above PROVE FALSE
    OBVIOUS
  <2>1. Len(Names) = 1 /\ Names[1] = "above"
    BY DEF Above
  <2>2. "above" \in Name \cup {Empty}
    BY <1>2, <2>1
  <2> QED
    BY <2>2, UrlPathAssumption
<1>4. Len(Names) = 0 <=> Names = <<>>
  BY <1>2
<1> QED
  BY <1>1, <1>2, <1>3, <1>4

LEMMA PathInitially == Init => PathInv
<1> SUFFICES ASSUME Init PROVE PathInv
  OBVIOUS
<1> QED
  BY Initially DEF Init, PathInv, Known, Fresh, Results

(* Nothing that Opened speaks of changes after the path.                   *)
LEMMA StillOpened ==
    ASSUME PathInv, UNCHANGED <<url, stack>>, part \in {"query", "done"},
           part' \in {"query", "done"},
           result' = "error" <=> result = "error"
    PROVE  part' \in {"query", "done"} /\ Plain' /\ url' # <<Scheme>> /\ Last(Segments') # "."
               => Opened'
<1>1. /\ Segments' = Segments /\ Path' = Path /\ PathAt' = PathAt /\ Stop' = Stop
      /\ Plain' <=> Plain
      /\ Unclean' <=> Unclean
      /\ Meaning' = Meaning
  BY Same
<1>2. Names' = Names
  BY DEF Names
<1>3. Last(stack)' = Last(stack)
  BY DEF Last
<1>4. Last(Segments') = Last(Segments)
  BY <1>1 DEF Last
<1> QED
  BY <1>1, <1>2, <1>3, <1>4 DEF PathInv, Opened

(* A plain URL whose path is looked for.                                   *)
LEMMA Begins ==
    ASSUME TypeOK, url # <<>>, Plain
    PROVE  /\ Absolute <=> DoubleSlash # {}
           /\ Absolute => /\ Slashes = { k \in DOMAIN url : k >= 4 /\ url[k] = "/" }
                          /\ Len(url) > 4 => url[5] = "/" /\ \A k \in Slashes : 5 <= k
                          /\ Len(url) = 4 => Slashes = {}
                          /\ Len(url) = 4 \/ Len(url) > 4
<1>1. Len(url) \in Nat /\ url \in Seq(Mark \cup Word) /\ Len(url) > 0
  BY DEF TypeOK
<1>2. ASSUME Absolute
      PROVE  /\ 2 \in DoubleSlash /\ 1 \notin DoubleSlash
  <2> DEFINE beginning == SubSeq(url, 1, 3)
  <2>1. Len(url) > 3 /\ beginning = <<Scheme, "/", "/">>
    BY <1>2 DEF Absolute
  <2>4. /\ beginning[1] = url[1] /\ beginning[2] = url[2] /\ beginning[3] = url[3]
    BY <1>1, <2>1
  <2> HIDE DEF beginning
  <2>2. url[1] = Scheme /\ url[2] = "/" /\ url[3] = "/"
    BY <2>1, <2>4
  <2>3. Scheme # "/"
    BY UrlPathAssumption DEF Mark
  <2> QED
    BY <1>1, <1>2, <2>2, <2>3 DEF DoubleSlash, Absolute
<1>3. ASSUME Absolute PROVE Host = 4
  <2>1. DoubleSlash \subseteq Nat /\ DoubleSlash # {}
    <3>1. DoubleSlash \subseteq Nat
      BY <1>1 DEF DoubleSlash
    <3> QED
      BY <1>2, <1>3, <3>1
  <2>2. First(DoubleSlash) \in DoubleSlash /\ First(DoubleSlash) <= 2
    BY <1>2, <1>3, <2>1, FirstIs
  <2>3. First(DoubleSlash) = 2
    BY <1>1, <1>2, <1>3, <2>1, <2>2 DEF DoubleSlash
  <2> QED
    BY <2>3 DEF Host
<1>4. ASSUME Absolute
      PROVE  /\ Slashes = { k \in DOMAIN url : k >= 4 /\ url[k] = "/" }
             /\ Len(url) > 4 => url[5] = "/" /\ \A k \in Slashes : 5 <= k
             /\ Len(url) = 4 => Slashes = {}
  <2>1. Slashes = { k \in DOMAIN url : k >= 4 /\ url[k] = "/" }
    BY <1>3, <1>4 DEF Slashes
  <2>2. url[4] # "/"
    BY <1>4, UrlPathAssumption DEF Plain, Word, Mark
  <2>3. \A k \in Slashes : 5 <= k /\ k <= Len(url)
    BY <1>1, <2>1, <2>2
  <2> QED
    BY <1>1, <1>4, <2>1, <2>3 DEF Plain
<1>5. ASSUME Absolute PROVE Len(url) = 4 \/ Len(url) > 4
  <2>1. Len(url) > 3
    BY <1>5 DEF Absolute
  <2>2. \A n \in Nat : n > 3 => n = 4 \/ n > 4
    OBVIOUS
  <2> QED
    BY <1>1, <2>1, <2>2
<1> QED
  BY <1>2, <1>4, <1>5 DEF Plain

(* What a host without a path means.                                       *)
LEMMA HostMeansRoot ==
    ASSUME TypeOK, Plain, Absolute, Len(url) = 4
    PROVE  Path = <<>> /\ Meaning = <<>> /\ Last(Segments) = Empty
<1>1. PathAt = 5 /\ url \in Seq(Mark \cup Word)
  BY DEF PathAt, TypeOK
<1>2. Stop = 5
  BY <1>1, StopsAt DEF Stop
<1>3. Path = <<>>
  BY <1>1, <1>2 DEF Path, Stop
<1>4. Path \in Seq({})
  BY <1>3
<1>5. Len(Split(Path, "/")) = 1 /\ Split(Path, "/")[1] = <<>>
  BY <1>3, EmptySplit
<1>6. Len(Segments) = 1 /\ Segments[1] = Empty
  BY <1>4, <1>5, SegmentsAre DEF WordOf
<1>7. Dirs(Segments)[1] = Enter(Dirs(Segments)[0], Segments[1], TRUE) /\ Dirs(Segments)[0] = <<>>
  <2>1. 1 \in 1 .. Len(Segments) /\ 1 - 1 = 0 /\ (1 = Len(Segments)) = TRUE /\ Len(Segments) \in Nat
    BY <1>6
  <2> QED
    BY <2>1, DirsEnter
<1>8. Dirs(Segments)[1] = <<>>
  BY <1>6, <1>7 DEF Enter, Above
<1> QED
  BY <1>3, <1>6, <1>8, MeaningIs DEF Last

LEMMA FailsWell ==
    ASSUME PathInv, IInv', Fail, part \in {"host", "path"},
           Plain /\ url # <<Scheme>> /\ Last(Segments) # "." => Unclean \/ Meaning = Above
    PROVE  PathInv'
<1>1. /\ Segments' = Segments /\ (Plain' <=> Plain) /\ (Unclean' <=> Unclean)
      /\ Meaning' = Meaning /\ url' = url
  BY Same DEF Fail
<1>2. Last(Segments') = Last(Segments)
  BY <1>1 DEF Last
<1> QED
  BY <1>1, <1>2 DEF PathInv, Fail, Known, Fresh, Results, Opened

(* An end of a segment that the parser gets over.                          *)
LEMMA PassesOn ==
    ASSUME PathInv, IInv', AtEndOfSegment, Advance,
           Last(Segments) # "." /\ Plain => Enter(Names, seg, char # "/") = Names',
           char # "/" /\ Last(Segments) # "." /\ Plain
               => ((stack' = <<>> \/ Last(stack').mark = "/") <=> seg \in {Empty, ".."})
    PROVE  PathInv'
<1>1. /\ url' = url /\ part = "path" /\ part' \in {"path", "query", "done"}
      /\ part' \in {"path", "query"} => result' = "parsing"
      /\ part' = "done" => result' = "ok"
      /\ result = "parsing"
  BY DEF Advance, GoTo, AtEndOfSegment, PathInv, Results
<1>2. /\ Segments' = Segments /\ (Plain' <=> Plain)
  BY <1>1, Same
<1>3. Last(Segments') = Last(Segments)
  BY <1>2 DEF Last
<1>4. Names' # Above
  <2>1. (TypeOK /\ NoDots)' => (Names # Above)'
    BY NamesOf, PTL
  <2> QED
    BY <2>1 DEF IInv
<1>5. ASSUME Plain
      PROVE  /\ part' = "path" => Walks'
             /\ part' \in {"query", "done"} /\ Last(Segments) # "." => Opened'
  <2>1. TypeOK /\ Walks
    BY <1>1, <1>5 DEF PathInv, IInv
  <2> QED
    BY <1>1, <1>4, <1>5, <2>1, Onward
<1> QED
  BY <1>1, <1>2, <1>3, <1>5 DEF PathInv, Known, Fresh, Results

LEMMA EnterIs ==
    ASSUME TypeOK, NoDots, AtEndOfSegment, NEW last \in BOOLEAN, last <=> char # "/"
    PROVE  /\ IsUp /\ ~(seg = "." /\ last) /\ stack # <<>> => Enter(Names, seg, last) = Front(Names)
           /\ IsUp /\ ~(seg = "." /\ last) /\ stack = <<>> => Enter(Names, seg, last) = Above
           /\ ~IsUp /\ IsHere => Enter(Names, seg, last) = Names
           /\ ~IsUp /\ ~IsHere => Enter(Names, seg, last) = Append(Names, seg)
<1>1. Names # Above /\ (Names = <<>> <=> stack = <<>>)
  BY NamesOf
<1>2. "." # ".." /\ Empty # "." /\ Empty # ".."
  OBVIOUS
<1> QED
  BY <1>1, <1>2 DEF Enter, IsUp, IsHere

LEMMA PathStep == PathInv /\ [Next]_vars => PathInv'
<1> SUFFICES ASSUME PathInv, [Next]_vars PROVE PathInv'
  OBVIOUS
<1>i. IInv' /\ IInv /\ TypeOK /\ Asked /\ NoDots /\ Known /\ Fresh /\ Results
  BY Step DEF PathInv, IInv
<1>l. Len(url) \in Nat /\ at \in 1 .. Len(url) + 1 /\ url \in Seq(Mark \cup Word)
  BY <1>i DEF TypeOK
<1>n. Names \in Seq(Name \cup {Empty}) /\ Len(Names) = Len(stack) /\ Len(stack) \in Nat
      /\ stack \in Seq([name : Name \cup {Empty, ".", ".."}, mark : {"/", "end"}])
  BY <1>i, NamesOf, StackTypes DEF TypeOK
<1>h. ASSUME part = "host", Plain
      PROVE  /\ url # <<>>
             /\ Absolute <=> DoubleSlash # {}
             /\ Absolute => /\ Slashes = { k \in DOMAIN url : k >= 4 /\ url[k] = "/" }
                            /\ Len(url) > 4 => url[5] = "/" /\ \A k \in Slashes : 5 <= k
                            /\ Len(url) = 4 => Slashes = {}
                            /\ Len(url) = 4 \/ Len(url) > 4
  BY <1>h, <1>i, Begins DEF Asked
<1>1. ASSUME NEW u \in Urls, Ask(u) PROVE PathInv'
  BY <1>1, <1>i DEF Ask, itemVars, PathInv, Known, Fresh, Results
<1>2. CASE SkipHost
  <2>1. PICK k \in Slashes : (\A i \in Slashes : k <= i) /\ GoTo("path", k + 1)
    BY <1>2 DEF SkipHost
  <2>2. /\ part = "host" /\ DoubleSlash # {} /\ UNCHANGED <<url, stack>> /\ part' = "path"
        /\ result' = "parsing"
    BY <1>2, <2>1 DEF SkipHost, GoTo
  <2>3. ASSUME Plain PROVE Walks'
    <3>1. Absolute /\ PathAt = 5 /\ (Len(url) = 4 \/ Len(url) > 4)
      BY <1>h, <2>2, <2>3 DEF PathAt
    <3>2. k >= 4 /\ k <= Len(url) /\ k \in Nat /\ url[k] = "/"
      BY <1>l, <1>h, <2>2, <2>3, <3>1
    <3>3. Len(url) > 4
      BY <1>h, <1>l, <2>2, <2>3, <3>1, <3>2
    <3>4. 5 \in Slashes /\ 5 <= k /\ url[5] = "/"
      BY <1>h, <1>l, <2>2, <2>3, <3>1, <3>3
    <3>5. k = 5
      BY <2>1, <3>2, <3>4
    <3> QED
      BY <1>h, <1>i, <1>l, <2>1, <2>2, <2>3, <3>1, <3>3, <3>4, <3>5, Starts
  <2>4. Plain' <=> Plain
    BY <2>2, Same
  <2> QED
    BY <1>i, <2>2, <2>3, <2>4 DEF PathInv, Known, Fresh, Results
<1>3. CASE OnlyHost
  <2>1. /\ part = "host" /\ DoubleSlash # {} /\ Slashes = {} /\ part' = "done" /\ result' = "ok"
        /\ UNCHANGED <<url, stack>>
    BY <1>3 DEF OnlyHost, GoTo
  <2>2. /\ Segments' = Segments /\ (Plain' <=> Plain) /\ (Unclean' <=> Unclean)
        /\ Meaning' = Meaning
    BY <2>1, Same
  <2>3. ASSUME Plain PROVE Opened'
    <3>1. Absolute /\ (Len(url) = 4 \/ Len(url) > 4)
      BY <1>h, <2>1, <2>3
    <3>2. Len(url) = 4
      <4> SUFFICES ASSUME Len(url) > 4 PROVE FALSE
        BY <3>1
      <4>1. 5 \in { k \in DOMAIN url : k >= 4 /\ url[k] = "/" }
        BY <1>h, <1>l, <2>1, <2>3, <3>1
      <4> QED
        BY <1>h, <2>1, <2>3, <3>1, <4>1
    <3>3. Path = <<>> /\ Meaning = <<>> /\ Last(Segments) = Empty
      BY <1>i, <2>3, <3>1, <3>2, HostMeansRoot
    <3>4. stack' = <<>> /\ Names' = <<>> /\ Names' # Above
      BY <1>i, <2>1 DEF Fresh, Names, Above
    <3>5. ~Unclean
      BY <3>1, <3>3 DEF Unclean, ToSet
    <3>6. Last(Segments') = Empty
      BY <2>2, <3>3 DEF Last
    <3> QED
      BY <2>1, <2>2, <3>3, <3>4, <3>5, <3>6 DEF Opened
  <2> QED
    BY <1>i, <2>1, <2>2, <2>3 DEF PathInv, Known, Fresh, Results
<1>4. CASE NoHost
  <2>1. CASE url = <<Scheme>> /\ GoTo("done", Len(url) + 1)
    BY <1>4, <1>i, <2>1 DEF NoHost, GoTo, PathInv, Known, Fresh, Results
  <2>2. CASE url[1] = "/" /\ GoTo("path", 2)
    <3>1. part = "host" /\ DoubleSlash = {} /\ UNCHANGED <<url, stack>>
      BY <1>4 DEF NoHost
    <3>2. ASSUME Plain PROVE Walks'
      <4>1. url # <<>> /\ PathAt = 1
        BY <1>h, <3>1, <3>2 DEF PathAt
      <4>2. PathAt <= Len(url) /\ PathAt + 1 = 2
        BY <1>l, <4>1
      <4> QED
        BY <1>i, <2>2, <3>1, <3>2, <4>1, <4>2, Starts
    <3>3. Plain' <=> Plain
      BY <3>1, Same
    <3> QED
      BY <1>i, <2>2, <3>1, <3>2, <3>3 DEF GoTo, PathInv, Known, Fresh, Results
  <2> QED
    BY <1>4, <2>1, <2>2 DEF NoHost
<1>5. CASE NoPath
  <2>1. Plain => ~Absolute
    BY <1>5, <1>h DEF NoPath
  <2> QED
    BY <1>5, <1>i, <2>1, FailsWell DEF NoPath, Unclean
<1>6. CASE Letters
  <2>1. /\ part = "path" /\ char \in Name \cup {".", ".."} /\ seg' = char /\ at' = at + 1
        /\ UNCHANGED <<url, part, stack, result>>
    BY <1>6 DEF Letters
  <2>2. at \in 1 .. Len(url) /\ url[at] = char
    BY <1>i, <2>1, Chars, UrlPathAssumption DEF char
  <2>3. /\ Segments' = Segments /\ Path' = Path /\ PathAt' = PathAt /\ Stop' = Stop
        /\ Plain' <=> Plain
    BY <2>1, Same
  <2>4. char \notin Mark \cup {Empty, Scheme}
    BY <2>1, UrlPathAssumption DEF Mark
  <2>5. ASSUME Plain PROVE Walks'
    <3>1. Walks
      BY <2>1, <2>5 DEF PathInv
    <3>2. /\ PathAt \in Nat \ {0} /\ at \in PathAt + 1 .. Stop /\ Stop \in PathAt + 1 .. Len(url) + 1
          /\ Cut \in PathAt .. at - 1 /\ (at = Stop <=> char \in {"?", "#", "end"})
      BY <1>i, <2>1, <3>1, Places
    <3>3. at + 1 <= Stop
      BY <1>l, <2>1, <3>2, UrlPathAssumption DEF Mark
    <3>4. seg = Empty
      <4> SUFFICES ASSUME seg # Empty PROVE FALSE
        OBVIOUS
      <4>1. url[at - 1] = seg /\ at - 1 \in 1 .. Len(url) - 1 /\ at - 1 + 1 = at
        BY <2>2, <3>1, <3>2 DEF Walks
      <4>2. url # <<>>
        BY <2>2
      <4>3. url[at - 1] \in Mark \/ url[at - 1 + 1] \in Mark
        BY <1>i, <4>1, <4>2, UrlPathAssumption DEF Known
      <4>4. seg \notin Mark
        BY <1>i, UrlPathAssumption DEF TypeOK, Mark
      <4> QED
        BY <2>2, <2>4, <4>1, <4>3, <4>4
    <3>5. Cut' = Cut /\ at' - 1 = at
      BY <1>l, <2>1, <2>4, <3>2, <3>4 DEF Cut
    <3>6. Dirs(Segments')[Rank(Path', "/", Cut' - PathAt')] = Names' \/ Last(Segments') = "."
      <4>1. Names' = Names /\ Last(Segments') = Last(Segments)
        BY <2>1, <2>3 DEF Names, Last
      <4> QED
        BY <2>3, <3>1, <3>5, <4>1 DEF Walks
    <3>7. \A i \in PathAt' + 1 .. at' - 1 : url'[i] \notin {"=", "&", Scheme}
      <4>1. \A i \in PathAt + 1 .. at : i = at \/ i \in PathAt + 1 .. at - 1
        BY <3>2
      <4>2. char \notin {"=", "&", Scheme}
        BY <2>4 DEF Mark
      <4>3. \A i \in PathAt + 1 .. at : url[i] \notin {"=", "&", Scheme}
        BY <2>2, <3>1, <4>1, <4>2 DEF Walks
      <4> QED
        BY <2>1, <2>3, <3>5, <4>3
    <3>8. /\ PathAt' <= Cut' /\ at' <= Stop' /\ url'[PathAt'] = "/" /\ url'[Cut'] = "/"
          /\ seg' # Empty => url'[at' - 1] = seg'
      BY <2>1, <2>2, <2>3, <3>1, <3>3, <3>5 DEF Walks
    <3> QED
      BY <3>6, <3>7, <3>8 DEF Walks
  <2> QED
    BY <1>i, <2>1, <2>3, <2>5 DEF PathInv, Known, Fresh, Results
<1>7. CASE NonPath
  <2>1. /\ part = "path" /\ char \in {"=", "&", Scheme} /\ Fail
    BY <1>7 DEF NonPath
  <2>2. ASSUME Plain PROVE Unclean
    <3>1. Walks
      BY <2>1, <2>2 DEF PathInv
    <3>2. /\ PathAt \in Nat \ {0} /\ at \in PathAt + 1 .. Stop /\ Stop \in PathAt + 1 .. Len(url) + 1
          /\ PathAt <= Len(url) + 1
          /\ (at = Stop <=> char \in {"?", "#", "end"})
      BY <1>i, <2>1, <3>1, Places
    <3>3. at # Stop /\ char # "end"
      BY <2>1, <3>2, UrlPathAssumption DEF Mark
    <3>4. /\ Path \in Seq(Mark \cup Word) /\ Len(Path) = Stop - 1 - PathAt
          /\ \A i \in 1 .. Len(Path) : Path[i] = url[PathAt + i]
      BY <1>i, <3>2, PathIs
    <3>5. at - PathAt \in 1 .. Len(Path) /\ PathAt + (at - PathAt) = at
      BY <1>l, <3>2, <3>3, <3>4
    <3>6. Path[at - PathAt] = char
      BY <3>3, <3>4, <3>5 DEF char
    <3>7. char \in ToSet(Path)
      BY <3>4, <3>5, <3>6 DEF ToSet
    <3> QED
      BY <2>1, <3>7 DEF Unclean
  <2> QED
    BY <1>i, <2>1, <2>2, FailsWell
<1>8. CASE Up
  <2>1. /\ AtEndOfSegment /\ IsUp /\ stack # <<>> /\ stack' = Front(stack) /\ Advance
        /\ part = "path"
    BY <1>8 DEF Up, AtEndOfSegment
  <2>2. /\ Len(stack') = Len(stack) - 1
        /\ \A k \in 1 .. Len(stack) - 1 : stack'[k] = stack[k]
        /\ stack' \in Seq([name : Name \cup {Empty, ".", ".."}, mark : {"/", "end"}])
    <3> DEFINE Entry == [name : Name \cup {Empty, ".", ".."}, mark : {"/", "end"}]
    <3> HIDE DEF Entry
    <3>1. stack \in Seq(Entry)
      BY <1>n DEF Entry
    <3>2. /\ Len(stack') = Len(stack) - 1
          /\ \A k \in 1 .. Len(stack) - 1 : stack'[k] = stack[k]
          /\ stack' \in Seq(Entry)
      BY <2>1, <3>1, FrontOfSeq DEF Front
    <3> QED
      BY <3>2 DEF Entry
  <2>3. Names' = Front(Names)
    <3>1. Names # <<>>
      BY <1>i, <2>1, NamesOf
    <3>2. /\ Front(Names) \in Seq(Name \cup {Empty}) /\ Len(Front(Names)) = Len(Names) - 1
          /\ \A k \in 1 .. Len(Names) - 1 : Front(Names)[k] = Names[k]
      BY <1>n, <3>1, FrontOfSeq DEF Front
    <3>3. /\ Names' \in Seq(Name \cup {Empty}) /\ Len(Names') = Len(stack')
      <4>1. (TypeOK /\ NoDots)' => (Names \in Seq(Name \cup {Empty}) /\ Len(Names) = Len(stack))'
        BY NamesOf, PTL
      <4> QED
        BY <1>i, <4>1 DEF IInv
    <3>4. \A k \in 1 .. Len(stack) - 1 : Names'[k] = Names[k]
      <4>1. DOMAIN stack' = 1 .. Len(stack) - 1 /\ DOMAIN stack = 1 .. Len(stack)
        BY <1>n, <2>2
      <4>2. \A k \in 1 .. Len(stack) - 1 : k \in 1 .. Len(stack)
        BY <1>n
      <4> QED
        BY <2>2, <4>1, <4>2 DEF Names
    <3>5. Len(Names') = Len(Front(Names))
      BY <1>n, <2>2, <3>2, <3>3
    <3>6. \A k \in 1 .. Len(Names') : Names'[k] = Front(Names)[k]
      BY <1>n, <2>2, <3>2, <3>3, <3>4
    <3> QED
      BY <3>2, <3>3, <3>5, <3>6
  <2>4. part = "path" => \A k \in 1 .. Len(stack) : stack[k].mark = "/"
    BY <1>i DEF TypeOK
  <2>5. stack' = <<>> \/ Last(stack').mark = "/"
    <3>1. stack' # <<>> => Len(stack') \in 1 .. Len(stack) - 1
      BY <1>n, <2>2
    <3> QED
      BY <1>n, <2>1, <2>2, <2>4, <3>1 DEF Last
  <2>6. ASSUME Plain, Last(Segments) # "."
        PROVE  ~(seg = "." /\ char # "/")
    <3>1. Walks
      BY <2>1, <2>6 DEF PathInv
    <3> QED
      BY <1>i, <2>1, <2>6, <3>1, SegmentEnds DEF Last
  <2>7. Plain /\ Last(Segments) # "." => Enter(Names, seg, char # "/") = Names'
    BY <1>i, <2>1, <2>3, <2>6, EnterIs
  <2>8. char # "/" /\ Last(Segments) # "." /\ Plain => seg \in {Empty, ".."}
    BY <2>1, <2>6 DEF IsUp
  <2> QED
    BY <1>i, <2>1, <2>5, <2>7, <2>8, PassesOn
<1>9. CASE UpFromRoot
  <2>1. /\ AtEndOfSegment /\ IsUp /\ stack = <<>> /\ Fail /\ part = "path"
    BY <1>9 DEF UpFromRoot, AtEndOfSegment
  <2>2. ASSUME Plain, Last(Segments) # "." PROVE Meaning = Above
    <3>1. Walks
      BY <2>1, <2>2 DEF PathInv
    <3>2. ~(seg = "." /\ char # "/")
      BY <1>i, <2>1, <2>2, <3>1, SegmentEnds DEF Last
    <3>3. Enter(Names, seg, char # "/") = Above
      BY <1>i, <2>1, <3>2, EnterIs
    <3>4. Dirs(Segments)[Rank(Path, "/", at - PathAt)] = Above
      BY <1>i, <2>1, <2>2, <3>1, <3>3, Entered
    <3>5. /\ Rank(Path, "/", at - PathAt) \in 0 .. Len(Segments) /\ Len(Segments) \in Nat
      BY <1>i, <2>1, <3>1, SegmentEnds
    <3> QED
      BY <3>4, <3>5, StaysAbove, MeaningIs
  <2> QED
    BY <1>i, <2>1, <2>2, FailsWell
<1>10. CASE Here
  <2>1. /\ AtEndOfSegment /\ ~IsUp /\ IsHere /\ stack' = stack /\ Advance /\ part = "path"
    BY <1>10 DEF Here, AtEndOfSegment
  <2>2. Names' = Names
    BY <2>1 DEF Names
  <2>3. Enter(Names, seg, char # "/") = Names'
    BY <1>i, <2>1, <2>2, EnterIs
  <2>4. stack' = <<>> \/ Last(stack').mark = "/"
    <3>1. stack # <<>> => Len(stack) \in 1 .. Len(stack)
      BY <1>n
    <3>2. \A k \in 1 .. Len(stack) : stack[k].mark = "/"
      BY <1>i, <2>1 DEF TypeOK
    <3> QED
      BY <2>1, <3>1, <3>2 DEF Last
  <2>5. char # "/" => seg = Empty
    BY <2>1 DEF IsHere
  <2> QED
    BY <1>i, <2>1, <2>3, <2>4, <2>5, PassesOn
<1>11. CASE Down
  <2>1. /\ AtEndOfSegment /\ ~IsUp /\ ~IsHere /\ Advance /\ part = "path"
        /\ stack' = Append(stack, [name |-> seg, mark |-> SlashOrEnd])
    BY <1>11 DEF Down, AtEndOfSegment
  <2>2. /\ stack' # <<>> /\ Len(stack') = Len(stack) + 1
        /\ stack'[Len(stack) + 1] = [name |-> seg, mark |-> SlashOrEnd]
        /\ \A k \in 1 .. Len(stack) : stack'[k] = stack[k]
        /\ DOMAIN stack' = 1 .. Len(stack) + 1 /\ DOMAIN stack = 1 .. Len(stack)
    <3> DEFINE Entry == [name : Name \cup {Empty, ".", ".."}, mark : {"/", "end"}]
               new == [name |-> seg, mark |-> SlashOrEnd]
    <3>1. new \in Entry
      BY <1>i DEF SlashOrEnd, TypeOK
    <3>2. stack \in Seq(Entry) /\ stack' = Append(stack, new)
      BY <1>n, <2>1
    <3> HIDE DEF Entry, new
    <3>3. /\ stack' # <<>> /\ Len(stack') = Len(stack) + 1
          /\ stack'[Len(stack) + 1] = new
          /\ \A k \in 1 .. Len(stack) : stack'[k] = stack[k]
          /\ DOMAIN stack' = 1 .. Len(stack) + 1 /\ DOMAIN stack = 1 .. Len(stack)
      BY <3>1, <3>2
    <3> QED
      BY <3>3 DEF new
  <2>3. Names' = Append(Names, seg)
    <3>1. seg \in Name \cup {Empty}
      BY <1>i, <2>1 DEF IsUp, IsHere, TypeOK
    <3>2. /\ Append(Names, seg) \in Seq(Name \cup {Empty}) /\ Len(Append(Names, seg)) = Len(stack) + 1
          /\ Append(Names, seg)[Len(stack) + 1] = seg
          /\ \A k \in 1 .. Len(stack) : Append(Names, seg)[k] = Names[k]
      BY <1>n, <3>1
    <3>3. /\ Names' \in Seq(Name \cup {Empty}) /\ Len(Names') = Len(stack')
      <4>1. (TypeOK /\ NoDots)' => (Names \in Seq(Name \cup {Empty}) /\ Len(Names) = Len(stack))'
        BY NamesOf, PTL
      <4> QED
        BY <1>i, <4>1 DEF IInv
    <3>4. Names'[Len(stack) + 1] = seg /\ \A k \in 1 .. Len(stack) : Names'[k] = Names[k]
      <4>1. Len(stack) + 1 \in 1 .. Len(stack) + 1 /\ \A k \in 1 .. Len(stack) : k \in 1 .. Len(stack) + 1
        BY <1>n
      <4> QED
        BY <2>2, <4>1 DEF Names
    <3>5. \A k \in 1 .. Len(stack) + 1 : k = Len(stack) + 1 \/ k \in 1 .. Len(stack)
      BY <1>n
    <3>6. \A k \in 1 .. Len(Names') : Names'[k] = Append(Names, seg)[k]
      BY <2>2, <3>2, <3>3, <3>4, <3>5
    <3> QED
      BY <2>2, <3>2, <3>3, <3>6
  <2>4. Enter(Names, seg, char # "/") = Names'
    BY <1>i, <2>1, <2>3, EnterIs
  <2>5. char # "/" => ~(stack' = <<>> \/ Last(stack').mark = "/")
    BY <2>2 DEF Last, SlashOrEnd
  <2>6. char # "/" => seg \notin {Empty, ".."}
    BY <2>1 DEF IsUp, IsHere
  <2> QED
    BY <1>i, <2>1, <2>4, <2>5, <2>6, PassesOn
<1>12. CASE Item \/ NoItem \/ InItem
  <2>1. /\ part = "query" /\ part' \in {"query", "done"} /\ UNCHANGED <<url, stack>>
        /\ part' = "query" => result' = "parsing"
        /\ part' = "done" => result' = "ok"
    BY <1>12 DEF Item, NoItem, InItem, AtEndOfItem, GoTo
  <2>2. result' # "error" /\ result # "error"
    BY <1>i, <2>1 DEF Results
  <2> QED
    BY <1>i, <2>1, <2>2, StillOpened DEF PathInv, Known, Fresh, Results
<1>13. CASE Reset
  BY <1>13, <1>i DEF Reset, PathInv, Known, Fresh, Results
<1>14. CASE UNCHANGED vars
  <2>1. UNCHANGED <<url, part, at, seg, stack, ns, ne, vs, items, result>>
    BY <1>14 DEF vars, itemVars
  <2>2. (Walks' <=> Walks) /\ (Opened' <=> Opened) /\ (Plain' <=> Plain) /\ Segments' = Segments
    <3>1. /\ Segments' = Segments /\ Path' = Path /\ PathAt' = PathAt /\ Stop' = Stop
          /\ (Plain' <=> Plain) /\ (Unclean' <=> Unclean) /\ Meaning' = Meaning
      BY <2>1, Same
    <3>2. Cut' = Cut /\ Names' = Names /\ Last(Segments') = Last(Segments) /\ Last(stack') = Last(stack)
      BY <2>1, <3>1 DEF Cut, Names, Last
    <3> QED
      BY <2>1, <3>1, <3>2 DEF Walks, Opened
  <2> QED
    BY <1>i, <2>1, <2>2 DEF PathInv, Known, Fresh, Results, Last
<1> QED
  BY <1>1, <1>2, <1>3, <1>4, <1>5, <1>6, <1>7, <1>8, <1>9, <1>10, <1>11,
     <1>12, <1>13, <1>14 DEF Next

LEMMA PathInvariant == Spec => []PathInv
<1> QED
  BY PathInitially, PathStep, PTL DEF Spec

(* Whatever was asked for before, a plain URL of any length opens the file *)
(* it means, and none if it leaves the root.                               *)
THEOREM OpensTheRightFile == Spec => []OpensWhatIsMeant
<1>1. PathInv => OpensWhatIsMeant
  <2> SUFFICES ASSUME PathInv, part = "done", Plain, url # <<Scheme>>, Last(Segments) # "."
               PROVE  IF Unclean \/ Meaning = Above THEN result = "error"
                      ELSE /\ result = "ok"
                           /\ File = IF Last(Segments) \in {Empty, ".."}
                                     THEN Append(Meaning, "index.html") ELSE Meaning
    BY DEF OpensWhatIsMeant
  <2>1. Opened /\ result \in {"ok", "error"}
    BY DEF PathInv, Results
  <2>2. File = IF stack = <<>> \/ Last(stack).mark = "/" THEN Append(Names, "index.html") ELSE Names
    BY DEF File, Names
  <2> QED
    BY <2>1, <2>2 DEF Opened
<1> QED
  BY <1>1, PathInvariant, PTL

-----------------------------------------------------------------------------
QueryAt == Stops({"?"})
Pieces == Split(Query, "&")

(* The queries that ListsTheQuery speaks of.                               *)
Simple ==
    /\ Plain /\ "#" \notin ToSet(url)
    /\ \A item \in ToSet(Pieces) : 1 \notin Equals(item) /\ Cardinality(Equals(item)) < 2

(* The mark in front of the item that is being read.                       *)
Amp == IF ns = 0 THEN at - 1 ELSE ns - 1

Listed(n) ==
    /\ items \in Seq([name : Nat \X Nat, value : Nat \X Nat]) /\ Len(items) = n
    /\ \A k \in 1 .. n :
          /\ HasValue(Pieces[k])
          /\ SubSeq(url, items[k].name[1], items[k].name[2] - 1) = NameOf(Pieces[k])

(* Where the parser is in a simple query, and what it has listed.          *)
Reads ==
    /\ QueryAt <= Amp /\ ns < at
    /\ Amp = QueryAt \/ url[Amp] = "&"
    /\ \A i \in Amp + 1 .. at - 1 : url[i] # "&"
    /\ ne = 0 => \A i \in Amp + 1 .. at - 1 : url[i] # "="
    /\ ne # 0 => ne \in Amp + 1 .. at - 1 /\ url[ne] = "="
    /\ vs = IF ne # 0 /\ ne < at - 1 THEN at - 1 ELSE 0
    /\ Listed(Rank(Query, "&", Amp - QueryAt))

Untouched == part = "path" => ns = 0 /\ ne = 0 /\ vs = 0 /\ items = <<>>

QueryInv ==
    /\ PathInv /\ Untouched
    /\ part = "query" /\ Simple => Reads
    /\ ListsTheQuery

-----------------------------------------------------------------------------
LEMMA PathAtIs ==
    ASSUME TypeOK
    PROVE  Len(url) \in Nat /\ PathAt \in Nat \ {0} /\ PathAt <= Len(url) + 1
<1>1. Len(url) \in Nat
  BY DEF TypeOK
<1>2. CASE Absolute
  <2>1. Len(url) > 3
    BY <1>2 DEF Absolute
  <2> QED
    BY <1>1, <1>2, <2>1 DEF PathAt
<1>3. CASE ~Absolute
  BY <1>1, <1>3 DEF PathAt
<1> QED
  BY <1>2, <1>3, <1>1

LEMMA QueryBegins ==
    ASSUME TypeOK
    PROVE  /\ QueryAt \in PathAt .. Len(url) + 1
           /\ QueryAt <= Len(url) => url[QueryAt] = "?"
           /\ Stop <= Len(url) /\ url[Stop] = "?" => QueryAt = Stop
           /\ "#" \notin ToSet(url) => QueryAt = Stop
<1>1. Len(url) \in Nat /\ PathAt \in Nat \ {0} /\ PathAt <= Len(url) + 1
  BY PathAtIs
<1>2. /\ QueryAt \in PathAt .. Len(url) + 1
      /\ QueryAt <= Len(url) => url[QueryAt] \in {"?"}
      /\ \A i \in PathAt .. QueryAt - 1 : url[i] \notin {"?"}
  BY <1>1, StopsAt DEF QueryAt
<1>3. /\ Stop \in PathAt .. Len(url) + 1
      /\ Stop <= Len(url) => url[Stop] \in {"?", "#"}
      /\ \A i \in PathAt .. Stop - 1 : url[i] \notin {"?", "#"}
  BY <1>1, StopsAt DEF Stop
<1>4. Stop <= QueryAt
  <2> SUFFICES ASSUME QueryAt < Stop PROVE FALSE
    BY <1>2, <1>3
  <2>1. QueryAt \in PathAt .. Stop - 1 /\ QueryAt <= Len(url)
    BY <1>1, <1>2, <1>3
  <2> QED
    BY <1>2, <1>3, <2>1
<1>5. ASSUME Stop < QueryAt PROVE Stop <= Len(url) /\ url[Stop] # "?" /\ url[Stop] = "#"
  <2>1. Stop \in PathAt .. QueryAt - 1 /\ Stop <= Len(url)
    BY <1>1, <1>2, <1>3, <1>5
  <2> QED
    BY <1>2, <1>3, <2>1
<1>6. "#" \notin ToSet(url) => ~(Stop < QueryAt)
  <2>1. Stop <= Len(url) => url[Stop] \in ToSet(url)
    BY <1>1, <1>3 DEF ToSet, TypeOK
  <2> QED
    BY <1>5, <2>1
<1> QED
  BY <1>2, <1>3, <1>4, <1>5, <1>6

LEMMA QueryIs ==
    ASSUME TypeOK, QueryAt <= Len(url)
    PROVE  /\ Query \in Seq(Mark \cup Word) /\ Len(Query) = Len(url) - QueryAt
           /\ \A i \in 1 .. Len(Query) : Query[i] = url[QueryAt + i]
<1>1. /\ Len(url) \in Nat /\ url \in Seq(Mark \cup Word) /\ QueryAt \in 1 .. Len(url)
  BY QueryBegins, PathAtIs DEF TypeOK
<1> DEFINE m == QueryAt + 1
           n == Len(url)
<1>3. \A i \in m .. n : url[i] \in Mark \cup Word
  BY <1>1
<1>4. m \in Int /\ n \in Int /\ n - m + 1 = Len(url) - QueryAt /\ n - m + 1 \in Nat
  BY <1>1
<1>2. Query = SubSeq(url, m, n)
  BY DEF Query, QueryAt
<1>5. /\ Query \in Seq(Mark \cup Word)
      /\ Len(Query) = IF m <= n THEN n - m + 1 ELSE 0
      /\ \A i \in 1 .. n - m + 1 : Query[i] = url[m + i - 1]
  <2> HIDE DEF m, n
  <2> QED
    BY <1>2, <1>3, <1>4, SubSeqProperties DEF m, n
<1>6. Len(Query) = n - m + 1
  BY <1>1, <1>5
<1>7. \A i \in 1 .. n - m + 1 : m + i - 1 = QueryAt + i
  BY <1>1
<1> HIDE DEF m, n
<1> QED
  BY <1>4, <1>5, <1>6, <1>7

LEMMA SameQuery ==
    ASSUME url' = url
    PROVE  QueryAt' = QueryAt /\ Query' = Query /\ Pieces' = Pieces /\ (Simple' <=> Simple)
<1>1. QueryAt' = QueryAt /\ Query' = Query
  BY DEF QueryAt, Query, Stops, PathAt, Absolute
<1>2. Pieces' = Pieces /\ (Plain' <=> Plain)
  BY <1>1, Same DEF Pieces
<1> QED
  BY <1>1, <1>2 DEF Simple

LEMMA AtMostOne ==
    ASSUME NEW S, IsFiniteSet(S), Cardinality(S) < 2, NEW x \in S, NEW y \in S
    PROVE  x = y
<1> SUFFICES ASSUME x # y PROVE FALSE
  OBVIOUS
<1>1. Cardinality({x}) = 1 /\ IsFiniteSet({x})
  BY FS_Singleton
<1>2. Cardinality({x} \cup {y}) = 2
  BY <1>1, FS_AddElement
<1>3. {x} \cup {y} \in SUBSET S
  OBVIOUS
<1>4. Cardinality({x} \cup {y}) <= Cardinality(S)
  BY <1>3, FS_Subset
<1>5. Cardinality(S) \in Nat
  BY FS_CardinalityType
<1> QED
  BY <1>2, <1>4, <1>5

(* The piece that is being read: where it ends and what it consists of.    *)
LEMMA Piece ==
    ASSUME TypeOK, part = "query", Simple, Reads,
           NEW r, r = Rank(Query, "&", Amp - QueryAt)
    PROVE  /\ Len(url) \in Nat /\ QueryAt \in 1 .. Len(url) /\ at \in 1 .. Len(url) + 1
           /\ Amp \in QueryAt .. at - 1 /\ ns \in 0 .. at - 1 /\ ne \in 0 .. at - 1
           /\ ns # 0 => Amp = ns - 1
           /\ r \in Nat /\ Len(Pieces) \in Nat /\ DOMAIN Pieces = 1 .. Len(Pieces)
           /\ r + 1 \in 1 .. Len(Pieces)
           /\ Pieces[r + 1] \in Seq(Mark \cup Word)
           /\ at - 1 - Amp <= Len(Pieces[r + 1])
           /\ \A i \in 1 .. Len(Pieces[r + 1]) : Pieces[r + 1][i] = url[Amp + i]
           /\ 1 \notin Equals(Pieces[r + 1])
           /\ \A x, y \in Equals(Pieces[r + 1]) : x = y
           /\ at <= Len(url) /\ url[at] # "&" => at - Amp <= Len(Pieces[r + 1])
           /\ at = Len(url) + 1 \/ url[at] = "&" =>
                 /\ Rank(Query, "&", at - QueryAt) = r + 1
                 /\ Len(Pieces[r + 1]) = at - 1 - Amp
           /\ at = Len(url) + 1 => r + 1 = Len(Pieces)
<1> DEFINE a == Amp - QueryAt
           here == at - QueryAt
           later == { c \in Cuts(Query, "&") : here <= c }
<1>1. /\ Len(url) \in Nat /\ at \in 1 .. Len(url) + 1 /\ ns \in 0 .. Len(url) /\ ne \in 0 .. Len(url)
  BY DEF TypeOK
<1>2. /\ Amp \in QueryAt .. at - 1 /\ ns \in 0 .. at - 1 /\ QueryAt \in 1 .. Len(url)
      /\ ns # 0 => Amp = ns - 1
  <2>1. QueryAt \in PathAt .. Len(url) + 1 /\ PathAt \in Nat \ {0}
    BY QueryBegins, PathAtIs
  <2>2. Amp \in Int /\ Amp <= at - 1 /\ ns <= at - 1 /\ QueryAt <= Amp
    BY <1>1 DEF Amp, Reads
  <2> QED
    BY <1>1, <2>1, <2>2 DEF Amp
<1>3. /\ Query \in Seq(Mark \cup Word) /\ Len(Query) = Len(url) - QueryAt
      /\ \A i \in 1 .. Len(Query) : Query[i] = url[QueryAt + i]
  BY <1>1, <1>2, QueryIs
<1>4. /\ a \in Nat /\ here \in Nat /\ a < here /\ here <= Len(Query) + 1 /\ Len(Query) \in Nat
  BY <1>1, <1>2, <1>3
<1>a. /\ QueryAt + a = Amp /\ QueryAt + here = at
      /\ a = 0 \/ a \in 1 .. Len(Query)
      /\ here \in 1 .. Len(Query) <=> at <= Len(url)
      /\ here = Len(Query) + 1 <=> at = Len(url) + 1
      /\ \A c \in Int : a < c /\ c < here => QueryAt + c \in Amp + 1 .. at - 1
  <2>1. Len(Query) = Len(url) - QueryAt
    BY <1>3
  <2> QED
    BY <1>1, <1>2, <2>1
<1>5. a \in Cuts(Query, "&")
  <2>1. a = 0 \/ (a \in 1 .. Len(Query) /\ Query[a] = url[Amp])
    <3> HIDE DEF a
    <3> QED
      BY <1>3, <1>a
  <2>2. a = 0 <=> Amp = QueryAt
    BY <1>2
  <2> QED
    BY <1>3, <2>1, <2>2 DEF Cuts, Reads
<1>6. ASSUME NEW c \in Cuts(Query, "&") PROVE c <= a \/ here <= c
  <2> SUFFICES ASSUME a < c, c < here PROVE FALSE
    BY <1>4, <1>3 DEF Cuts
  <2>1. c \in 1 .. Len(Query) /\ Query[c] = "&"
    BY <1>3, <1>4 DEF Cuts
  <2>2. QueryAt + c \in Amp + 1 .. at - 1
    BY <1>a, <2>1
  <2> QED
    BY <1>3, <2>1, <2>2 DEF Reads
<1>7. /\ Len(Query) + 1 \in later /\ later \subseteq Nat /\ later \subseteq Cuts(Query, "&")
  BY <1>3, <1>4 DEF Cuts
<1>8. PICK j \in later : \A c \in later : j <= c
  BY <1>7, Least
<1>9. /\ j \in Cuts(Query, "&") /\ j \in Nat /\ here <= j /\ j <= Len(Query) + 1
      /\ \A c \in Cuts(Query, "&") : c <= a \/ j <= c
  BY <1>6, <1>7, <1>8
<1> DEFINE item == Pieces[r + 1]
<1>10. /\ Rank(Query, "&", j) \in DOMAIN Pieces /\ r \in Nat
       /\ Rank(Query, "&", j) = r + 1
       /\ item = SubSeq(Query, a + 1, j - 1)
       /\ r + 1 = Len(Pieces) <=> j = Len(Query) + 1
  <2>1. a < j
    BY <1>4, <1>9
  <2>2. r = Rank(Query, "&", a)
    OBVIOUS
  <2> HIDE DEF a, here, later
  <2>3. /\ Rank(Query, "&", j) \in DOMAIN Split(Query, "&") /\ Rank(Query, "&", a) \in Nat
        /\ Rank(Query, "&", j) = Rank(Query, "&", a) + 1
        /\ Split(Query, "&")[Rank(Query, "&", j)] = SubSeq(Query, a + 1, j - 1)
        /\ Rank(Query, "&", j) = Len(Split(Query, "&")) <=> j = Len(Query) + 1
    BY <1>3, <1>5, <1>9, <2>1, SplitAt
  <2> QED
    BY <2>2, <2>3 DEF Pieces
<1>11. Len(Pieces) \in Nat /\ DOMAIN Pieces = 1 .. Len(Pieces)
  BY <1>3, SplitIs DEF Pieces
<1>12. /\ item \in Seq(Mark \cup Word) /\ Len(item) = j - 1 - a
       /\ \A i \in 1 .. Len(item) : item[i] = url[Amp + i]
  <2> DEFINE m == a + 1
             n == j - 1
  <2>1. /\ m \in Int /\ n \in Int /\ n - m + 1 = j - 1 - a /\ n - m + 1 \in Nat
        /\ \A i \in m .. n : Query[i] \in Mark \cup Word
        /\ item = SubSeq(Query, m, n)
    <3>1. /\ a \in Nat /\ j \in Nat /\ a < j /\ j <= Len(Query) + 1 /\ Len(Query) \in Nat
          /\ Query \in Seq(Mark \cup Word) /\ item = SubSeq(Query, m, n)
      BY <1>3, <1>4, <1>9, <1>10
    <3> HIDE DEF a, item
    <3> QED
      BY <3>1
  <2>2. /\ item \in Seq(Mark \cup Word)
        /\ Len(item) = IF m <= n THEN n - m + 1 ELSE 0
        /\ \A i \in 1 .. n - m + 1 : item[i] = Query[m + i - 1]
    <3> HIDE DEF m, n, item
    <3> QED
      BY <2>1, SubSeqProperties
  <2>3. Len(item) = j - 1 - a
    BY <2>1, <2>2
  <2>4. ASSUME NEW i \in 1 .. j - 1 - a PROVE item[i] = url[Amp + i]
    <3>1. m + i - 1 = a + i /\ a + i \in 1 .. Len(Query) /\ QueryAt + (a + i) = Amp + i
      BY <1>2, <1>4, <1>9
    <3>2. item[i] = Query[a + i]
      BY <2>1, <2>2, <3>1
    <3> QED
      BY <1>3, <3>1, <3>2
  <2> QED
    BY <2>2, <2>3, <2>4
<1>13. item \in ToSet(Pieces)
  BY <1>10, <1>11 DEF ToSet
<1>14. 1 \notin Equals(item) /\ Cardinality(Equals(item)) < 2
  BY <1>13 DEF Simple
<1>15. \A x, y \in Equals(item) : x = y
  <2>1. Equals(item) \in SUBSET (1 .. Len(item)) /\ Len(item) \in Int /\ 1 \in Int
    BY <1>12 DEF Equals
  <2>2. IsFiniteSet(Equals(item))
    BY <2>1, FS_Interval, FS_Subset
  <2> QED
    BY <1>14, <2>2, AtMostOne
<1>16. ASSUME at <= Len(url), url[at] # "&" PROVE here < j
  <2>1. here \in 1 .. Len(Query) /\ Query[here] = url[at]
    BY <1>3, <1>a, <1>16
  <2>2. here \notin Cuts(Query, "&")
    BY <1>3, <1>4, <1>16, <2>1 DEF Cuts
  <2> QED
    BY <1>9, <1>4, <2>2
<1>17. ASSUME at = Len(url) + 1 \/ url[at] = "&" PROVE j = here
  <2>1. CASE at = Len(url) + 1
    <3>1. here = Len(Query) + 1
      BY <1>a, <2>1
    <3> HIDE DEF here
    <3> QED
      BY <1>4, <1>9, <3>1
  <2>2. CASE at # Len(url) + 1
    <3>1. here \in 1 .. Len(Query) /\ Query[here] = "&"
      <4>1. at <= Len(url)
        BY <1>1, <2>2
      <4>2. here \in 1 .. Len(Query)
        BY <1>a, <4>1
      <4> HIDE DEF here
      <4> QED
        BY <1>3, <1>a, <1>17, <2>2, <4>2
    <3>2. here \in later
      BY <1>3, <1>4, <3>1 DEF Cuts
    <3> QED
      BY <1>8, <1>9, <1>4, <3>2
  <2> QED
    BY <2>1, <2>2
<1>18. at = Len(url) + 1 => here = Len(Query) + 1
  BY <1>1, <1>2, <1>3
<1>19. here - 1 - a = at - 1 - Amp /\ here - a = at - Amp
  BY <1>1, <1>2
<1> HIDE DEF a, here, later, item
<1>20. /\ at - 1 - Amp <= Len(item)
       /\ at <= Len(url) /\ url[at] # "&" => at - Amp <= Len(item)
  BY <1>4, <1>9, <1>12, <1>16, <1>19
<1>21. ASSUME at = Len(url) + 1 \/ url[at] = "&"
       PROVE  Rank(Query, "&", here) = r + 1 /\ Len(item) = at - 1 - Amp
  BY <1>10, <1>12, <1>17, <1>19, <1>21
<1>22. at = Len(url) + 1 => r + 1 = Len(Pieces)
  BY <1>10, <1>17, <1>18
<1>23. ne \in 0 .. at - 1
  BY <1>1, <1>2 DEF Reads
<1>24. r + 1 \in 1 .. Len(Pieces)
  BY <1>10, <1>11
<1>25. item = Pieces[r + 1] /\ here = at - QueryAt
  BY DEF item, here
<1> QED
  BY <1>1, <1>2, <1>10, <1>11, <1>12, <1>14, <1>15, <1>20, <1>21, <1>22, <1>23, <1>24, <1>25

(* A piece that ends where the parser is.                                  *)
LEMMA PieceEnds ==
    ASSUME TypeOK, part = "query", Simple, Reads, at = Len(url) + 1 \/ url[at] = "&",
           NEW r, r = Rank(Query, "&", Amp - QueryAt)
    PROVE  /\ HasValue(Pieces[r + 1]) <=> vs # 0
           /\ vs # 0 => NameOf(Pieces[r + 1]) = SubSeq(url, ns, ne - 1)
<1> DEFINE item == Pieces[r + 1]
           e == ne - Amp
<1>1. /\ Len(url) \in Nat /\ at \in 1 .. Len(url) + 1 /\ Amp \in Nat
      /\ Amp <= at - 1 /\ ns \in 0 .. at - 1 /\ ne \in 0 .. at - 1
      /\ ns # 0 => Amp = ns - 1
      /\ item \in Seq(Mark \cup Word) /\ Len(item) = at - 1 - Amp
      /\ \A i \in 1 .. Len(item) : item[i] = url[Amp + i]
      /\ \A x, y \in Equals(item) : x = y
  <2>1. QueryAt \in 1 .. Len(url) /\ Amp \in QueryAt .. at - 1 => Amp \in Nat /\ Amp <= at - 1
    BY DEF TypeOK
  <2> QED
    BY <2>1, Piece
<1> HIDE DEF item
<1>2. Equals(item) = { i \in 1 .. Len(item) : item[i] = "=" }
  BY <1>1 DEF Equals
<1>3. ASSUME vs # 0
      PROVE  /\ e \in 1 .. Len(item) /\ e < Len(item) /\ e \in Equals(item)
             /\ ns = Amp + 1 /\ ne = Amp + e
  <2>1. ne # 0 /\ ne < at - 1 /\ ne \in Amp + 1 .. at - 1 /\ url[ne] = "="
    BY <1>3 DEF Reads
  <2>2. e \in 1 .. Len(item) /\ e < Len(item) /\ Amp + e = ne
    BY <1>1, <2>1
  <2>3. ns # 0
    BY <1>1, <2>1 DEF Amp
  <2> HIDE DEF e
  <2>4. item[e] = "="
    BY <1>1, <2>1, <2>2
  <2> QED
    BY <1>1, <1>2, <2>2, <2>3, <2>4
<1>4. ASSUME vs # 0 PROVE HasValue(item)
  BY <1>3, <1>4 DEF HasValue
<1>5. ASSUME HasValue(item) PROVE vs # 0
  <2>1. PICK i \in Equals(item) : i < Len(item)
    BY <1>5 DEF HasValue
  <2>2. i \in 1 .. Len(item) /\ item[i] = "=" /\ Amp + i \in Amp + 1 .. at - 1
    BY <1>1, <1>2, <2>1
  <2>3. url[Amp + i] = "="
    BY <1>1, <2>2
  <2>4. ne # 0 /\ ne \in Amp + 1 .. at - 1 /\ url[ne] = "="
    BY <2>2, <2>3 DEF Reads
  <2>5. e \in 1 .. Len(item) /\ Amp + e = ne
    BY <1>1, <2>4
  <2>6. item[e] = "="
    <3> HIDE DEF e
    <3> QED
      BY <1>1, <2>4, <2>5
  <2>7. e = i
    <3> HIDE DEF e
    <3> QED
      BY <1>1, <1>2, <2>1, <2>5, <2>6
  <2>8. ne < at - 1
    BY <1>1, <2>1, <2>7
  <2> QED
    BY <1>1, <2>4, <2>8 DEF Reads
<1>6. ASSUME vs # 0 PROVE NameOf(item) = SubSeq(url, ns, ne - 1)
  <2>1. First(Equals(item)) = e
    <3>1. Equals(item) \subseteq Nat /\ Equals(item) # {}
      BY <1>2, <1>3, <1>6
    <3>2. First(Equals(item)) \in Equals(item)
      BY <3>1, FirstIs
    <3> HIDE DEF e
    <3> QED
      BY <1>1, <1>3, <1>6, <3>2
  <2>2. NameOf(item) = SubSeq(item, 1, e - 1)
    BY <2>1 DEF NameOf
  <2> HIDE DEF e
  <2> DEFINE m == e - 1
             p == ns
             q == ne - 1
  <2>3. /\ m \in Nat /\ p \in Int /\ q \in Int /\ 1 \in Int /\ m - 1 + 1 = m /\ q - p + 1 = m
        /\ 1 <= m <=> p <= q
        /\ \A i \in 1 .. m : i \in 1 .. Len(item)
        /\ \A i \in p .. q : i \in 1 .. Len(url)
        /\ \A i \in 1 .. m : 1 + i - 1 = i /\ p + i - 1 = Amp + i
    <3>1. /\ Len(item) \in Nat /\ e \in 1 .. Len(item) /\ e < Len(item) /\ Amp \in Nat
          /\ ns = Amp + 1 /\ ne = Amp + e /\ Amp + Len(item) <= Len(url) /\ Len(url) \in Nat
      BY <1>1, <1>3, <1>6
    <3> HIDE DEF item, e
    <3> QED
      BY <3>1
  <2>4. url \in Seq(Mark \cup Word)
    BY DEF TypeOK
  <2> HIDE DEF m, p, q
  <2>5. /\ SubSeq(item, 1, m) \in Seq(Mark \cup Word)
        /\ Len(SubSeq(item, 1, m)) = IF 1 <= m THEN m - 1 + 1 ELSE 0
        /\ \A i \in 1 .. m - 1 + 1 : SubSeq(item, 1, m)[i] = item[1 + i - 1]
    <3>1. \A i \in 1 .. m : item[i] \in Mark \cup Word
      BY <1>1, <2>3
    <3> QED
      BY <2>3, <3>1, SubSeqProperties
  <2>6. /\ SubSeq(url, p, q) \in Seq(Mark \cup Word)
        /\ Len(SubSeq(url, p, q)) = IF p <= q THEN q - p + 1 ELSE 0
        /\ \A i \in 1 .. q - p + 1 : SubSeq(url, p, q)[i] = url[p + i - 1]
    <3>1. \A i \in p .. q : url[i] \in Mark \cup Word
      BY <2>3, <2>4
    <3> QED
      BY <2>3, <3>1, SubSeqProperties
  <2>7. Len(SubSeq(item, 1, m)) = m /\ Len(SubSeq(url, p, q)) = m
    BY <2>3, <2>5, <2>6
  <2>8. ASSUME NEW i \in 1 .. m PROVE SubSeq(item, 1, m)[i] = SubSeq(url, p, q)[i]
    <3>1. SubSeq(item, 1, m)[i] = item[1 + i - 1] /\ 1 + i - 1 = i
      BY <2>3, <2>5
    <3>2. SubSeq(url, p, q)[i] = url[p + i - 1] /\ p + i - 1 = Amp + i
      BY <2>3, <2>6
    <3>3. item[i] = url[Amp + i]
      BY <1>1, <2>3
    <3> QED
      BY <3>1, <3>2, <3>3
  <2>9. SubSeq(item, 1, m) = SubSeq(url, p, q)
    <3> DEFINE s == SubSeq(item, 1, m)
               t == SubSeq(url, p, q)
    <3>1. /\ s \in Seq(Mark \cup Word) /\ t \in Seq(Mark \cup Word) /\ Len(s) = m /\ Len(t) = m
          /\ \A i \in 1 .. m : s[i] = t[i]
      BY <2>5, <2>6, <2>7, <2>8
    <3> HIDE DEF s, t
    <3>2. s = t
      BY <3>1, SameElements
    <3> QED
      BY <3>2 DEF s, t
  <2> QED
    BY <2>2, <2>9 DEF m, p, q
<1> QED
  BY <1>4, <1>5, <1>6 DEF item

(* Everything that has a value was listed.                                 *)
Complete ==
    /\ DOMAIN Pieces = 1 .. Len(Pieces) /\ Len(Pieces) \in Nat
    /\ Len(items) \in 0 .. Len(Pieces) /\ Listed(Len(items))
    /\ Len(items) < Len(Pieces) => ~HasValue(Pieces[Len(items) + 1])

LEMMA AllListed == Complete => ListsTheQuery
<1> DEFINE listed == { k \in DOMAIN Pieces : \A i \in 1 .. k : HasValue(Pieces[i]) }
           n == Len(items)
<1> SUFFICES ASSUME Complete PROVE ListsTheQuery
  OBVIOUS
<1>n. /\ n \in Nat /\ n \in 0 .. Len(Pieces) /\ Listed(n) /\ Len(Pieces) \in Nat
      /\ DOMAIN Pieces = 1 .. Len(Pieces)
      /\ n < Len(Pieces) => ~HasValue(Pieces[n + 1])
  BY DEF Complete
<1>2. DOMAIN items = 1 .. n
  BY <1>n DEF Listed
<1> HIDE DEF n
<1>1. listed = 1 .. n
  <2>1. ASSUME NEW k \in DOMAIN Pieces, k <= n PROVE k \in listed
    BY <1>n, <2>1 DEF Listed
  <2>2. ASSUME NEW k \in listed PROVE k <= n
    <3> SUFFICES ASSUME ~(k <= n) PROVE FALSE
      OBVIOUS
    <3>0. k \in 1 .. Len(Pieces)
      BY <1>n
    <3>1. n + 1 \in 1 .. k /\ n < Len(Pieces)
      BY <1>n, <3>0
    <3>2. HasValue(Pieces[n + 1])
      BY <3>1
    <3> QED
      BY <1>n, <3>1, <3>2
  <2>3. \A k \in 1 .. n : k \in DOMAIN Pieces /\ k <= n
    BY <1>n
  <2>4. listed \subseteq 1 .. n
    BY <1>n, <2>2
  <2> QED
    BY <2>1, <2>3, <2>4
<1> HIDE DEF listed
<1>3. [k \in DOMAIN items |-> SubSeq(url, items[k].name[1], items[k].name[2] - 1)]
        = [k \in listed |-> NameOf(Pieces[k])]
  BY <1>1, <1>2, <1>n DEF Listed
<1> QED
  BY <1>3 DEF ListsTheQuery, listed, Pieces

(* A URL without a query.                                                  *)
LEMMA NoQuery ==
    ASSUME TypeOK, QueryAt = Len(url) + 1, items = <<>>
    PROVE  Complete
<1>1. Query = <<>>
  <2>1. Query = SubSeq(url, Len(url) + 1 + 1, Len(url)) /\ Len(url) \in Nat
    BY DEF Query, QueryAt, TypeOK
  <2> DEFINE m == Len(url) + 1 + 1
             n == Len(url)
  <2>2. m \in Int /\ n \in Int /\ ~(m <= n) /\ \A i \in m .. n : url[i] \in {}
    BY <2>1
  <2>3. SubSeq(url, m, n) \in Seq({}) /\ Len(SubSeq(url, m, n)) = 0
    <3> HIDE DEF m, n
    <3> QED
      BY <2>2, SubSeqProperties
  <2> QED
    BY <2>1, <2>3
<1>2. Len(Pieces) = 1 /\ Pieces[1] = <<>> /\ DOMAIN Pieces = 1 .. Len(Pieces)
  <2>1. Query \in Seq({})
    BY <1>1
  <2> QED
    BY <1>1, <2>1, EmptySplit, SplitIs DEF Pieces
<1>3. ~HasValue(Pieces[1])
  BY <1>2 DEF HasValue, Equals
<1>4. Len(items) = 0 /\ items \in Seq([name : Nat \X Nat, value : Nat \X Nat])
  OBVIOUS
<1> QED
  BY <1>2, <1>3, <1>4 DEF Complete, Listed

LEMMA QueryStarts ==
    ASSUME TypeOK, Walks, part = "path", Untouched, char = "?", GoTo("query", at + 1),
           UNCHANGED <<url, itemVars>>
    PROVE  Reads'
<1>1. QueryAt' = QueryAt /\ Query' = Query /\ Pieces' = Pieces
  BY SameQuery
<1>2. at \in 1 .. Len(url) /\ url[at] = "?" /\ Len(url) \in Nat
  BY Chars DEF char, TypeOK
<1>3. QueryAt = at
  <2>1. at = Stop
    BY Places
  <2> QED
    BY <1>2, <2>1, QueryBegins
<1>4. /\ ns' = 0 /\ ne' = 0 /\ vs' = 0 /\ items' = <<>> /\ at' = at + 1 /\ url' = url
  BY DEF itemVars, Untouched, GoTo
<1>5. Amp' = at
  BY <1>2, <1>4 DEF Amp
<1>6. Rank(Query, "&", 0) = 0
  BY <1>2, <1>3, QueryIs, RankOf
<1>7. Listed(0)'
  BY <1>4 DEF Listed
<1>8. Amp' - QueryAt' = 0 /\ Amp' + 1 .. at' - 1 = {}
  BY <1>1, <1>2, <1>3, <1>4, <1>5
<1>9. Listed(Rank(Query, "&", Amp - QueryAt))'
  BY <1>1, <1>6, <1>7, <1>8
<1> QED
  BY <1>1, <1>2, <1>3, <1>4, <1>5, <1>8, <1>9 DEF Reads

LEMMA Reading ==
    ASSUME TypeOK, Simple, Reads, InItem
    PROVE  Reads'
<1> DEFINE r == Rank(Query, "&", Amp - QueryAt)
           item == Pieces[r + 1]
<1>1. /\ Len(url) \in Nat /\ QueryAt \in 1 .. Len(url) /\ at \in 1 .. Len(url) + 1
      /\ Amp \in QueryAt .. at - 1 /\ ns \in 0 .. at - 1 /\ ne \in 0 .. at - 1
      /\ ns # 0 => Amp = ns - 1
      /\ at - 1 - Amp <= Len(item)
      /\ \A i \in 1 .. Len(item) : item[i] = url[Amp + i]
      /\ 1 \notin Equals(item)
      /\ \A x, y \in Equals(item) : x = y
      /\ at <= Len(url) /\ url[at] # "&" => at - Amp <= Len(item)
      /\ item \in Seq(Mark \cup Word)
  BY Piece DEF InItem
<1>2. char \notin {"&", "#", "end"} /\ part = "query"
  BY DEF InItem, AtEndOfItem
<1>3. at \in 1 .. Len(url) /\ url[at] = char
  BY <1>2, Chars DEF char
<1>4. at - Amp \in 1 .. Len(item) /\ item[at - Amp] = char /\ Len(item) \in Nat
  <2>1. at - Amp \in 1 .. Len(item) /\ Amp + (at - Amp) = at
    BY <1>1, <1>2, <1>3
  <2> HIDE DEF item
  <2> QED
    BY <1>1, <1>3, <2>1
<1>5. Equals(item) = { i \in 1 .. Len(item) : item[i] = "=" }
  BY <1>1 DEF Equals
<1> HIDE DEF item
<1>6. ns = 0 => char # "=" /\ Amp = at - 1
  <2>1. ns = 0 => Amp = at - 1 /\ at - Amp = 1
    BY <1>3 DEF Amp
  <2> QED
    BY <1>1, <1>4, <1>5, <2>1
<1>7. ns' = (IF ns = 0 THEN at ELSE ns) /\ ne' = (IF char = "=" THEN at ELSE ne)
      /\ vs' = (IF ns # 0 /\ ne # 0 /\ char # "=" THEN at ELSE vs)
      /\ at' = at + 1 /\ UNCHANGED <<url, items>>
  BY <1>6 DEF InItem, GoTo
<1>8. Amp' = Amp
  BY <1>1, <1>3, <1>6, <1>7 DEF Amp
<1>9. QueryAt' = QueryAt /\ Query' = Query /\ Pieces' = Pieces
  BY <1>7, SameQuery
<1>10. at' - 1 = at /\ \A i \in Amp + 1 .. at : i = at \/ i \in Amp + 1 .. at - 1
  BY <1>1, <1>7
<1>11. Listed(Rank(Query, "&", Amp - QueryAt))'
  BY <1>7, <1>8, <1>9 DEF Reads, Listed
<1>12. ne # 0 => ne \in Amp + 1 .. at - 1 /\ url[ne] = "="
  BY DEF Reads
<1>13. ne # 0 => ns # 0 /\ char # "="
  <2> SUFFICES ASSUME ne # 0 PROVE ns # 0 /\ char # "="
    OBVIOUS
  <2>1. ns # 0
    BY <1>1, <1>6, <1>12
  <2>2. /\ ne - Amp \in 1 .. Len(item) /\ Amp + (ne - Amp) = ne /\ ne - Amp # at - Amp
    BY <1>1, <1>4, <1>12
  <2>3. ne - Amp \in Equals(item)
    BY <1>1, <1>5, <1>12, <2>2
  <2>4. char = "=" => at - Amp \in Equals(item)
    BY <1>4, <1>5
  <2> QED
    BY <1>1, <2>1, <2>2, <2>3, <2>4
<1>14. vs' = IF ne' # 0 /\ ne' < at' - 1 THEN at' - 1 ELSE 0
  <2>1. vs = IF ne # 0 /\ ne < at - 1 THEN at - 1 ELSE 0
    BY DEF Reads
  <2>2. CASE char = "="
    BY <1>3, <1>7, <1>10, <1>13, <2>1, <2>2
  <2>3. CASE char # "=" /\ ne # 0
    BY <1>1, <1>3, <1>7, <1>10, <1>12, <1>13, <2>1, <2>3
  <2>4. CASE char # "=" /\ ne = 0
    BY <1>7, <2>1, <2>4
  <2> QED
    BY <2>2, <2>3, <2>4
<1>15. ne' = 0 => \A i \in Amp + 1 .. at : url[i] # "="
  BY <1>3, <1>7, <1>10 DEF Reads
<1>16. ne' # 0 => ne' \in Amp + 1 .. at /\ url[ne'] = "="
  BY <1>1, <1>3, <1>7, <1>12
<1>17. \A i \in Amp + 1 .. at : url[i] # "&"
  BY <1>2, <1>3, <1>10 DEF Reads
<1>18. ns' < at' /\ QueryAt' <= Amp' /\ (Amp' = QueryAt' \/ url'[Amp'] = "&")
  BY <1>1, <1>7, <1>8, <1>9 DEF Reads
<1>19. /\ \A i \in Amp' + 1 .. at' - 1 : url'[i] # "&"
       /\ ne' = 0 => \A i \in Amp' + 1 .. at' - 1 : url'[i] # "="
       /\ ne' # 0 => ne' \in Amp' + 1 .. at' - 1 /\ url'[ne'] = "="
  BY <1>7, <1>8, <1>10, <1>15, <1>16, <1>17
<1> QED
  BY <1>11, <1>14, <1>18, <1>19 DEF Reads

LEMMA NoMoreParts ==
    ASSUME TypeOK, Simple
    PROVE  char # "#"
<1>1. char # "end" => at \in 1 .. Len(url) /\ char = url[at] /\ DOMAIN url = 1 .. Len(url)
  BY Chars DEF char, TypeOK
<1>2. char # "end" => char \in ToSet(url)
  BY <1>1 DEF ToSet
<1> QED
  BY <1>2 DEF Simple

LEMMA Listing ==
    ASSUME TypeOK, Simple, Reads, Item
    PROVE  /\ part' = "query" => Reads'
           /\ part' = "done" => Complete'
<1>0. PICK r : r = Rank(Query, "&", Amp - QueryAt)
  OBVIOUS
<1> DEFINE new == [name |-> <<ns, ne>>, value |-> <<vs, at>>]
<1>1. part = "query" /\ char \in {"&", "end"} /\ vs # 0 /\ items' = Append(items, new)
      /\ ns' = 0 /\ ne' = 0 /\ vs' = 0 /\ UNCHANGED <<url, stack>>
      /\ part' = (IF char = "end" THEN "done" ELSE "query")
      /\ at' = (IF char = "end" THEN at ELSE at + 1)
  BY NoMoreParts DEF Item, AtEndOfItem, GoTo
<1>2. at = Len(url) + 1 \/ url[at] = "&"
  BY <1>1, Chars DEF char
<1>3. /\ Len(url) \in Nat /\ QueryAt \in 1 .. Len(url) /\ at \in 1 .. Len(url) + 1
      /\ r \in Nat /\ Len(Pieces) \in Nat /\ DOMAIN Pieces = 1 .. Len(Pieces)
      /\ Amp \in QueryAt .. at - 1
      /\ r + 1 \in 1 .. Len(Pieces) /\ Rank(Query, "&", at - QueryAt) = r + 1
      /\ at = Len(url) + 1 => r + 1 = Len(Pieces)
  BY <1>0, <1>1, <1>2, Piece
<1>a. r \in Nat /\ Len(Pieces) \in Nat /\ at \in Nat /\ QueryAt \in Nat /\ QueryAt <= at
  <2>1. QueryAt \in 1 .. Len(url) /\ Len(url) \in Nat /\ Amp \in QueryAt .. at - 1 /\ at \in 1 .. Len(url) + 1
    BY <1>3
  <2>2. at \in Nat /\ QueryAt \in Nat /\ QueryAt <= at
    BY <2>1
  <2> QED
    BY <1>3, <2>2
<1>4. HasValue(Pieces[r + 1]) /\ NameOf(Pieces[r + 1]) = SubSeq(url, ns, ne - 1)
  BY <1>0, <1>1, <1>2, PieceEnds
<1>5. QueryAt' = QueryAt /\ Query' = Query /\ Pieces' = Pieces
  BY <1>1, SameQuery
<1>6. Listed(r)
  BY <1>0 DEF Reads
<1>7. Listed(r + 1)'
  <2> DEFINE Entry == [name : Nat \X Nat, value : Nat \X Nat]
  <2>1. new \in Entry
    BY DEF TypeOK
  <2>2. items \in Seq(Entry) /\ Len(items) = r
    BY <1>6 DEF Listed
  <2>3. new.name[1] = ns /\ new.name[2] = ne
    OBVIOUS
  <2> HIDE DEF Entry, new
  <2>4. /\ items' \in Seq(Entry) /\ Len(items') = r + 1
        /\ items'[r + 1] = new
        /\ \A k \in 1 .. r : items'[k] = items[k]
    BY <1>1, <2>1, <2>2
  <2>5. ASSUME NEW k \in 1 .. r + 1
        PROVE  /\ HasValue(Pieces[k])
               /\ SubSeq(url, items'[k].name[1], items'[k].name[2] - 1) = NameOf(Pieces[k])
    <3>1. CASE k = r + 1
      BY <1>4, <2>3, <2>4, <3>1
    <3>2. CASE k # r + 1
      <4>1. k \in 1 .. r
        BY <1>a, <3>2
      <4> QED
        BY <1>6, <2>4, <4>1 DEF Listed
    <3> QED
      BY <3>1, <3>2
  <2> QED
    BY <1>1, <1>5, <2>4, <2>5 DEF Listed, Entry
<1>8. ASSUME part' = "query" PROVE Reads'
  <2>1. char = "&" /\ at' = at + 1 /\ url[at] = "&"
    BY <1>1, <1>8, Chars DEF char
  <2>2. Amp' = at
    BY <1>1, <1>a, <2>1 DEF Amp
  <2>3. Amp' + 1 .. at' - 1 = {} /\ QueryAt <= at /\ 0 < at + 1
    BY <1>a, <2>1, <2>2
  <2>4. Listed(Rank(Query, "&", Amp - QueryAt))'
    BY <1>3, <1>5, <1>7, <2>2
  <2> QED
    BY <1>1, <1>5, <2>1, <2>2, <2>3, <2>4 DEF Reads
<1>9. ASSUME part' = "done" PROVE Complete'
  <2>1. at = Len(url) + 1
    BY <1>1, <1>9, Chars
  <2>2. Len(items') = r + 1 /\ r + 1 = Len(Pieces)
    BY <1>3, <1>7, <2>1 DEF Listed
  <2>3. /\ Len(items') \in 0 .. Len(Pieces) /\ ~(Len(items') < Len(Pieces))
        /\ Listed(Len(items))' /\ Len(Pieces) \in Nat
    BY <1>a, <1>7, <2>2
  <2> QED
    BY <1>3, <1>5, <2>3 DEF Complete
<1> QED
  BY <1>8, <1>9

LEMMA Unlisted ==
    ASSUME TypeOK, Simple, Reads, NoItem
    PROVE  Complete'
<1>0. PICK r : r = Rank(Query, "&", Amp - QueryAt)
  OBVIOUS
<1>1. part = "query" /\ char \in {"&", "end"} /\ vs = 0 /\ UNCHANGED <<url, items>>
  BY NoMoreParts DEF NoItem, AtEndOfItem, itemVars
<1>2. at = Len(url) + 1 \/ url[at] = "&"
  BY <1>1, Chars DEF char
<1>3. /\ r \in Nat /\ Len(Pieces) \in Nat /\ DOMAIN Pieces = 1 .. Len(Pieces)
      /\ r + 1 \in 1 .. Len(Pieces)
  BY <1>0, <1>1, Piece
<1>4. ~HasValue(Pieces[r + 1])
  BY <1>0, <1>1, <1>2, PieceEnds
<1>5. Listed(r) /\ Len(items) = r
  BY <1>0 DEF Reads, Listed
<1>6. Pieces' = Pieces
  BY <1>1, SameQuery
<1>7. r \in 0 .. Len(Pieces)
  BY <1>3
<1>8. Listed(r)'
  BY <1>1, <1>5, <1>6 DEF Listed
<1> QED
  BY <1>1, <1>3, <1>4, <1>5, <1>6, <1>7, <1>8 DEF Complete

-----------------------------------------------------------------------------
LEMMA QueryInitially == Init => QueryInv
<1> QED
  BY PathInitially DEF Init, QueryInv, Untouched, ListsTheQuery

LEMMA ListsNothing ==
    TypeOK /\ QueryAt = Len(url) + 1 /\ items = <<>> => ListsTheQuery
<1> QED
  BY NoQuery, AllListed

(* A simple URL that is done without a query.                              *)
LEMMA DoneAtOnce ==
    ASSUME TypeOK', UNCHANGED url, items' = <<>>, QueryAt = Len(url) + 1
    PROVE  ListsTheQuery'
<1>1. (TypeOK /\ QueryAt = Len(url) + 1 /\ items = <<>> => ListsTheQuery)'
  BY ListsNothing, PTL
<1>2. QueryAt' = QueryAt
  BY SameQuery
<1> QED
  BY <1>1, <1>2

LEMMA QueryStep == QueryInv /\ [Next]_vars => QueryInv'
<1> SUFFICES ASSUME QueryInv, [Next]_vars PROVE QueryInv'
  OBVIOUS
<1>i. PathInv' /\ PathInv /\ TypeOK /\ TypeOK' /\ Fresh /\ Results /\ Fresh' /\ Results'
      /\ Asked /\ Untouched
  BY PathStep DEF QueryInv, PathInv, IInv
<1>v. part' # "done" \/ result' # "ok" => ListsTheQuery'
  BY <1>i DEF Fresh, Results, ListsTheQuery, TypeOK
<1>s. ASSUME ~Simple', PathInv', Untouched' PROVE QueryInv'
  BY <1>s DEF QueryInv, ListsTheQuery, Simple, Pieces
<1>c. Complete' => ListsTheQuery'
  BY AllListed, PTL
<1>q. UNCHANGED url => (Simple' <=> Simple)
  BY SameQuery
<1>1. ASSUME NEW u \in Urls, Ask(u) PROVE QueryInv'
  BY <1>1, <1>i, <1>v DEF Ask, QueryInv, Untouched
<1>2. CASE SkipHost \/ NoPath \/ Letters \/ NonPath \/ UpFromRoot \/ Reset
  <2>1. part' # "query" /\ (part' # "done" \/ result' # "ok") /\ Untouched'
    <3>1. SkipHost => part' = "path" /\ part = "host" /\ UNCHANGED itemVars
      BY DEF SkipHost, GoTo
    <3> QED
      BY <1>2, <1>i, <3>1 DEF NoPath, Letters, NonPath, UpFromRoot, Reset, Fail, Untouched,
         Fresh, itemVars
  <2> QED
    BY <1>i, <1>v, <2>1 DEF QueryInv
<1>3. CASE OnlyHost \/ NoHost
  <2>1. /\ part = "host" /\ UNCHANGED <<url, itemVars>> /\ part' \in {"path", "done"}
        /\ part' = "done" => \/ DoubleSlash # {} /\ Slashes = {}
                             \/ DoubleSlash = {} /\ url = <<Scheme>>
    BY <1>3 DEF OnlyHost, NoHost, GoTo
  <2>2. items' = <<>> /\ Untouched'
    BY <1>i, <2>1 DEF Fresh, Untouched, itemVars
  <2>3. ASSUME part' = "done", Simple PROVE QueryAt = Len(url) + 1
    <3>1. QueryAt \in PathAt .. Len(url) + 1 /\ (QueryAt <= Len(url) => url[QueryAt] = "?")
          /\ Len(url) \in Nat /\ PathAt \in Nat \ {0}
      BY <1>i, QueryBegins, PathAtIs
    <3>2. CASE DoubleSlash # {} /\ Slashes = {}
      <4>1. url # <<>> /\ Plain
        BY <1>i, <2>1, <2>3 DEF Asked, Simple
      <4>2. Absolute /\ (Len(url) = 4 \/ Len(url) > 4)
        BY <1>i, <3>2, <4>1, Begins
      <4>3. Len(url) > 4 => url[5] = "/" /\ 5 \in Slashes
        <5>1. DOMAIN url = 1 .. Len(url) /\ Len(url) \in Nat
          BY <1>i DEF TypeOK
        <5> QED
          BY <1>i, <3>2, <4>1, <4>2, <5>1, Begins
      <4>4. Len(url) = 4
        BY <3>2, <4>2, <4>3
      <4> QED
        BY <3>1, <4>2, <4>4 DEF PathAt
    <3>3. CASE DoubleSlash = {} /\ url = <<Scheme>>
      <4>1. Scheme # "?" /\ Len(url) = 1 /\ url[1] = Scheme
        BY <3>3, UrlPathAssumption DEF Mark
      <4>2. QueryAt # 1
        BY <3>1, <4>1
      <4> QED
        BY <3>1, <4>1, <4>2
    <3> QED
      BY <2>1, <2>3, <3>2, <3>3
  <2>4. part' = "done" /\ Simple => ListsTheQuery'
    BY <1>i, <2>1, <2>2, <2>3, DoneAtOnce
  <2> QED
    BY <1>i, <1>v, <1>s, <1>q, <2>1, <2>2, <2>4 DEF QueryInv
<1>4. CASE Up \/ Here \/ Down
  <2>1. AtEndOfSegment /\ Advance /\ part = "path" /\ UNCHANGED <<url, itemVars>>
    BY <1>4 DEF Up, Here, Down, AtEndOfSegment, Advance
  <2>2. /\ part' \in {"path", "query", "done"}
        /\ part' = "query" => char = "?" /\ GoTo("query", at + 1)
        /\ part' = "done" => char \in {"#", "end"}
    BY <2>1 DEF Advance, GoTo, AtEndOfSegment
  <2>3. items' = <<>> /\ Untouched'
    BY <1>i, <2>1 DEF Untouched, itemVars
  <2>4. ASSUME Simple, part' = "query" PROVE Reads'
    <3>1. Walks
      BY <1>i, <2>1, <2>4 DEF PathInv, Simple
    <3> QED
      BY <1>i, <2>1, <2>2, <2>4, <3>1, QueryStarts
  <2>5. ASSUME Simple, part' = "done" PROVE ListsTheQuery'
    <3>1. char = "end"
      BY <1>i, <2>2, <2>5, NoMoreParts
    <3>2. Walks
      BY <1>i, <2>1, <2>5 DEF PathInv, Simple
    <3>3. at = Stop /\ at = Len(url) + 1
      BY <1>i, <2>1, <3>1, <3>2, Places, Chars
    <3>4. QueryAt = Len(url) + 1
      BY <1>i, <2>5, <3>3, QueryBegins DEF Simple
    <3> QED
      BY <1>i, <2>1, <2>3, <3>4, DoneAtOnce
  <2> QED
    BY <1>i, <1>v, <1>s, <1>q, <2>1, <2>2, <2>3, <2>4, <2>5 DEF QueryInv
<1>5. CASE Item \/ NoItem \/ InItem
  <2>1. /\ part = "query" /\ part' \in {"query", "done"} /\ UNCHANGED url
        /\ NoItem => part' = "done"
        /\ InItem => part' = "query"
    BY <1>5 DEF Item, NoItem, InItem, AtEndOfItem, GoTo
  <2>2. Simple => Reads
    BY <2>1 DEF QueryInv
  <2>3. Simple => /\ part' = "query" => Reads'
                  /\ part' = "done" => ListsTheQuery'
    BY <1>5, <1>i, <1>c, <2>1, <2>2, Reading, Listing, Unlisted
  <2>4. Untouched'
    BY <2>1 DEF Untouched
  <2> QED
    BY <1>i, <1>v, <1>s, <1>q, <2>1, <2>3, <2>4 DEF QueryInv
<1>6. CASE UNCHANGED vars
  <2>1. UNCHANGED <<url, part, at, seg, stack, ns, ne, vs, items, result>>
    BY <1>6 DEF vars, itemVars
  <2>2. QueryAt' = QueryAt /\ Query' = Query /\ Pieces' = Pieces /\ (Simple' <=> Simple)
        /\ (Plain' <=> Plain)
    BY <2>1, SameQuery, Same
  <2>3. Amp' = Amp
    BY <2>1 DEF Amp
  <2>4. Reads' <=> Reads
    BY <2>1, <2>2, <2>3 DEF Reads, Listed
  <2>5. ListsTheQuery' <=> ListsTheQuery
    BY <2>1, <2>2 DEF ListsTheQuery
  <2> QED
    BY <1>i, <2>1, <2>2, <2>4, <2>5 DEF QueryInv, Untouched
<1> QED
  BY <1>1, <1>2, <1>3, <1>4, <1>5, <1>6 DEF Next

(* Whatever was asked for before, the list of a simple query holds its     *)
(* items in order up to the first one without a value.                     *)
THEOREM ListsEveryItem == Spec => []ListsTheQuery
<1>1. QueryInv => ListsTheQuery
  BY DEF QueryInv
<1> QED
  BY <1>1, QueryInitially, QueryStep, PTL DEF Spec
=============================================================================
