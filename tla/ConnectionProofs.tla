-------------------------- MODULE ConnectionProofs --------------------------
(***************************************************************************)
(* For buffers of any size, elements of any length, packets of any length  *)
(* and any number of requests: as long as none of the mishaps that mix up  *)
(* the stream has happened, no byte is lost or doubled on its way to the   *)
(* parser, the parser is in step with the stream, and the responses are    *)
(* the right ones in the right order.                                      *)
(***************************************************************************)
EXTENDS Connection, TLAPS, SequenceTheorems

(* The elements of a request that is not malformed, ...                    *)
MethodOf(r) == IF r = "put" THEN "Pmethod" ELSE "method"
LineOf(r) == IF r = "longGet" THEN "long" ELSE "line"

(* ... and how much of the stream is in front of the one behind each.      *)
AfterMethod(n) == Start(n) + Size[MethodOf(requests[n])]
AfterUrl(n) == AfterMethod(n) + Size["url"]
AfterVersion(n) == AfterUrl(n) + Size["version"]
AfterLine(n) == AfterVersion(n) + Size[LineOf(requests[n])]

(* An element of that kind stands behind the first p bytes of w.           *)
Stands(w, k, p) ==
    /\ p + Size[k] <= Len(w)
    /\ \A i \in 1 .. Size[k] : w[p + i] = <<k, i>>

(* The text is the requests one behind the other.                          *)
LaidOut(n) ==
    LET r == requests[n] IN
    /\ Start(n) < ends[n] /\ ends[n] <= Len(text)
    /\ r \in BadMethods => Stands(text, Wrong(r), Start(n))
    /\ r \notin BadMethods => Stands(text, MethodOf(r), Start(n))
    /\ r \in BadUrls => Stands(text, Wrong(r), AfterMethod(n))
    /\ r \notin BadMethods \cup BadUrls => Stands(text, "url", AfterMethod(n))
    /\ r \in BadVersions => Stands(text, Wrong(r), AfterUrl(n))
    /\ r \notin Bad =>
          /\ Stands(text, "version", AfterUrl(n))
          /\ Stands(text, LineOf(r), AfterVersion(n))
          /\ Stands(text, "blank", AfterLine(n))
          /\ ends[n] = AfterLine(n) + Size["blank"]

Laid ==
    /\ Start(Len(requests) + 1) = Len(text)
    /\ \A n \in 1 .. Len(requests) : LaidOut(n)

(* Which statuses go with which place of the code; only a version that is  *)
(* not there at all moves the parser beyond the end of rbuf.               *)
Control ==
    /\ pc \in {"armed", "recv", "parse"} =>
          status \in {"method", "url", "version", "header"}
    /\ pc = "parsed" => status # "error"
    /\ pc = "reply" => status \in {"complete", "error"}
    /\ pc = "reply" /\ status = "complete" => off = 0
    /\ pc = "parse" => off <= Len(rbuf)
    /\ pc = "parse" => off < Len(rbuf) \/ plen > 0

(* Intact, byte by byte.                                                   *)
Flow == Serving =>
    /\ taken + Len(Held) + Len(wire) = sent
    /\ \A i \in 1 .. Len(Held) : Held[i] = taken + i
    /\ \A i \in 1 .. Len(wire) : wire[i] = taken + Len(Held) + i

(* Where in which request the parser stands.                               *)
At(n) ==
    LET r == requests[n] IN
    /\ n <= Len(requests) + 1
    /\ status = "method" => taken = Start(n)
    /\ status # "method" =>
          n <= Len(requests) /\ r \notin BadMethods /\ method = MethodOf(r)
    /\ status = "url" => taken = AfterMethod(n)
    /\ status = "version" => taken = AfterUrl(n) /\ r \notin BadUrls
    /\ status = "header" =>
          taken \in {AfterVersion(n), AfterLine(n)} /\ r \notin Bad
    /\ status = "complete" => taken = ends[n] /\ r \notin Bad

Where == Serving /\ off <= Len(rbuf) => At(Len(answers) + 1)

(* What is refused deserves it.                                            *)
Deserved(n) == n <= Len(requests) /\ requests[n] \in Bad /\ Start(n) < sent
Refused == Sound /\ status = "error" => Deserved(Len(answers) + 1)

(* The answers so far.                                                     *)
Replied == Sound => Len(answers) <= Len(requests) /\ AnswersInOrder

IInv == TypeOK /\ Control /\ Laid /\ Flow /\ Where /\ Refused /\ Replied

-----------------------------------------------------------------------------
(* The bytes of the elements.                                              *)
LEMMA SizeType == \A k \in Kinds : Size[k] \in Nat /\ Size[k] > 0
  BY ConnectionAssumption

LEMMA KindsType ==
  /\ {"method", "Pmethod", "url", "version", "blank", "line", "long"} \cup Foreign
        = Kinds
  /\ \A r : Wrong(r) \in Foreign
  /\ Foreign \cap (Methods \cup Lines \cup {"url", "version", "blank"}) = {}
  /\ \A r : MethodOf(r) \in Methods /\ LineOf(r) \in Lines
  /\ Methods \subseteq Kinds /\ Lines \subseteq Kinds
  BY DEF Kinds, Lines, Methods, MethodOf, LineOf, Foreign, Wrong

(* What text consists of.                                                  *)
Letter == Kinds \X Nat

LEMMA PartsType ==
  ASSUME NEW k \in Kinds
  PROVE  /\ Parts(k) \in Seq(Letter)
         /\ Len(Parts(k)) = Size[k]
         /\ Stands(Parts(k), k, 0)
<1> Size[k] \in Nat
  BY SizeType
<1> QED
  BY DEF Parts, Letter, Stands

(* Two pieces of text, one behind the other.                               *)
LEMMA Join ==
  ASSUME NEW s \in Seq(Letter), NEW t \in Seq(Letter)
  PROVE  /\ s \o t \in Seq(Letter)
         /\ Len(s \o t) = Len(s) + Len(t)
         /\ \A i \in 1 .. Len(s) : (s \o t)[i] = s[i]
         /\ \A k \in Kinds, p \in Nat :
               /\ Stands(s, k, p) => Stands(s \o t, k, p)
               /\ Stands(t, k, p) => Stands(s \o t, k, Len(s) + p)
<1> DEFINE w == s \o t
<1>1. Len(s) \in Nat /\ Len(t) \in Nat
  OBVIOUS
<1>2. w \in Seq(Letter) /\ Len(w) = Len(s) + Len(t)
  BY ConcatProperties
<1>3. \A i \in 1 .. Len(s) + Len(t) :
         w[i] = IF i <= Len(s) THEN s[i] ELSE t[i - Len(s)]
  BY ConcatProperties
<1> HIDE DEF w
<1>4. ASSUME NEW i \in 1 .. Len(s) PROVE w[i] = s[i]
  BY <1>1, <1>3
<1>5. ASSUME NEW k \in Kinds, NEW p \in Nat, Stands(s, k, p)
      PROVE  Stands(w, k, p)
  <2>1. Size[k] \in Nat
    BY SizeType
  <2>2. p + Size[k] <= Len(w)
    BY <1>1, <1>2, <1>5, <2>1 DEF Stands
  <2>3. ASSUME NEW i \in 1 .. Size[k] PROVE w[p + i] = <<k, i>>
    <3>1. s[p + i] = <<k, i>> /\ p + i \in 1 .. Len(s)
      BY <1>1, <1>5, <2>1 DEF Stands
    <3> QED
      BY <1>4, <3>1
  <2> QED
    BY <2>2, <2>3 DEF Stands
<1>6. ASSUME NEW k \in Kinds, NEW p \in Nat, Stands(t, k, p)
      PROVE  Stands(w, k, Len(s) + p)
  <2>1. Size[k] \in Nat
    BY SizeType
  <2>2. Len(s) + p + Size[k] <= Len(w)
    BY <1>1, <1>2, <1>6, <2>1 DEF Stands
  <2>3. ASSUME NEW i \in 1 .. Size[k] PROVE w[Len(s) + p + i] = <<k, i>>
    <3>1. t[p + i] = <<k, i>> /\ p + i \in 1 .. Len(t)
      BY <1>1, <1>6, <2>1 DEF Stands
    <3>2. w[Len(s) + (p + i)] = t[p + i]
      BY <1>1, <1>3, <3>1
    <3>3. Len(s) + (p + i) = Len(s) + p + i
      BY <1>1
    <3> QED
      BY <3>1, <3>2, <3>3
  <2> QED
    BY <2>2, <2>3 DEF Stands
<1> QED
  BY <1>2, <1>4, <1>5, <1>6 DEF w

(* An element behind a piece of text.                                      *)
LEMMA JoinParts ==
  ASSUME NEW s \in Seq(Letter), NEW k \in Kinds
  PROVE  /\ s \o Parts(k) \in Seq(Letter)
         /\ Len(s \o Parts(k)) = Len(s) + Size[k]
         /\ Stands(s \o Parts(k), k, Len(s))
         /\ \A K \in Kinds, p \in Nat :
               Stands(s, K, p) => Stands(s \o Parts(k), K, p)
<1>1. /\ Parts(k) \in Seq(Letter) /\ Len(Parts(k)) = Size[k]
      /\ Stands(Parts(k), k, 0)
  BY PartsType
<1> DEFINE t == Parts(k)
<1> HIDE DEF t
<1>2. Len(s) + 0 = Len(s) /\ 0 \in Nat
  OBVIOUS
<1>3. /\ s \o t \in Seq(Letter) /\ Len(s \o t) = Len(s) + Len(t)
      /\ Stands(t, k, 0) => Stands(s \o t, k, Len(s) + 0)
      /\ \A K \in Kinds, p \in Nat : Stands(s, K, p) => Stands(s \o t, K, p)
  <2>1. t \in Seq(Letter)
    BY <1>1 DEF t
  <2> QED
    BY <1>2, <2>1, Join
<1> QED
  BY <1>1, <1>2, <1>3 DEF t

LEMMA RegularBytes ==
  ASSUME NEW m \in Kinds, NEW l \in Kinds
  PROVE  LET w == Regular(m, l)
             a == Size[m]
             b == a + Size["url"]
             c == b + Size["version"]
             d == c + Size[l]
         IN /\ w \in Seq(Letter)
            /\ Len(w) = d + Size["blank"]
            /\ Stands(w, m, 0) /\ Stands(w, "url", a)
            /\ Stands(w, "version", b) /\ Stands(w, l, c)
            /\ Stands(w, "blank", d)
<1> DEFINE a == Size[m]
           b == a + Size["url"]
           c == b + Size["version"]
           d == c + Size[l]
           p1 == Parts(m)
           p2 == p1 \o Parts("url")
           p3 == p2 \o Parts("version")
           p4 == p3 \o Parts(l)
           p5 == p4 \o Parts("blank")
<1>0. "url" \in Kinds /\ "version" \in Kinds /\ "blank" \in Kinds
  BY KindsType
<1>a. a \in Nat /\ b \in Nat /\ c \in Nat /\ d \in Nat
  BY <1>0, SizeType
<1>b. /\ b = a + Size["url"] /\ c = b + Size["version"] /\ d = c + Size[l]
      /\ a = Size[m]
  OBVIOUS
<1>p. /\ p1 = Parts(m) /\ p2 = p1 \o Parts("url") /\ p3 = p2 \o Parts("version")
      /\ p4 = p3 \o Parts(l) /\ p5 = p4 \o Parts("blank")
  OBVIOUS
<1>w. p5 = Regular(m, l)
  BY DEF Regular
<1> HIDE DEF a, b, c, d, p1, p2, p3, p4, p5
<1>1. p1 \in Seq(Letter) /\ Len(p1) = a /\ Stands(p1, m, 0)
  BY <1>b, <1>p, PartsType
<1>2. /\ p2 \in Seq(Letter) /\ Len(p2) = b
      /\ Stands(p2, m, 0) /\ Stands(p2, "url", a)
  BY <1>0, <1>a, <1>b, <1>p, <1>1, JoinParts
<1>3. /\ p3 \in Seq(Letter) /\ Len(p3) = c
      /\ Stands(p3, m, 0) /\ Stands(p3, "url", a) /\ Stands(p3, "version", b)
  BY <1>0, <1>a, <1>b, <1>p, <1>2, JoinParts
<1>4. /\ p4 \in Seq(Letter) /\ Len(p4) = d
      /\ Stands(p4, m, 0) /\ Stands(p4, "url", a) /\ Stands(p4, "version", b)
      /\ Stands(p4, l, c)
  BY <1>0, <1>a, <1>b, <1>p, <1>3, JoinParts
<1>5. /\ p5 \in Seq(Letter) /\ Len(p5) = d + Size["blank"]
      /\ Stands(p5, m, 0) /\ Stands(p5, "url", a) /\ Stands(p5, "version", b)
      /\ Stands(p5, l, c) /\ Stands(p5, "blank", d)
  BY <1>0, <1>a, <1>b, <1>p, <1>4, JoinParts
<1> QED
  BY <1>5, <1>w DEF a, b, c, d

LEMMA ThreeBytes ==
  ASSUME NEW k1 \in Kinds, NEW k2 \in Kinds, NEW k3 \in Kinds
  PROVE  LET w == Parts(k1) \o Parts(k2) \o Parts(k3)
         IN /\ w \in Seq(Letter)
            /\ Len(w) = Size[k1] + Size[k2] + Size[k3]
            /\ Stands(w, k1, 0) /\ Stands(w, k2, Size[k1])
            /\ Stands(w, k3, Size[k1] + Size[k2])
<1> DEFINE p1 == Parts(k1)
           p2 == p1 \o Parts(k2)
           p3 == p2 \o Parts(k3)
           a == Size[k1]
           b == a + Size[k2]
<1>a. a \in Nat /\ b \in Nat /\ 0 \in Nat
  BY SizeType
<1>b. b = a + Size[k2] /\ a = Size[k1]
  OBVIOUS
<1>p. p1 = Parts(k1) /\ p2 = p1 \o Parts(k2) /\ p3 = p2 \o Parts(k3)
  OBVIOUS
<1>w. p3 = Parts(k1) \o Parts(k2) \o Parts(k3)
  OBVIOUS
<1> HIDE DEF a, b, p1, p2, p3
<1>1. p1 \in Seq(Letter) /\ Len(p1) = a /\ Stands(p1, k1, 0)
  BY <1>b, <1>p, PartsType
<1>2. /\ p2 \in Seq(Letter) /\ Len(p2) = b
      /\ Stands(p2, k1, 0) /\ Stands(p2, k2, a)
  BY <1>a, <1>b, <1>p, <1>1, JoinParts
<1>3. /\ p3 \in Seq(Letter) /\ Len(p3) = b + Size[k3]
      /\ Stands(p3, k1, 0) /\ Stands(p3, k2, a) /\ Stands(p3, k3, b)
  BY <1>a, <1>b, <1>p, <1>2, JoinParts
<1> QED
  BY <1>3, <1>w DEF a, b

(* What the bytes of a request are, for each of the sorts.                 *)
LEMMA Shape ==
  ASSUME NEW r \in Sorts
  PROVE  LET w == Bytes(r)
             a == Size[MethodOf(r)]
             b == a + Size["url"]
             c == b + Size["version"]
             d == c + Size[LineOf(r)]
         IN /\ w \in Seq(Letter) /\ Len(w) > 0
            /\ r \in BadMethods => Stands(w, Wrong(r), 0)
            /\ r \notin BadMethods => Stands(w, MethodOf(r), 0)
            /\ r \in BadUrls => Stands(w, Wrong(r), a)
            /\ r \notin BadMethods \cup BadUrls => Stands(w, "url", a)
            /\ r \in BadVersions => Stands(w, Wrong(r), b)
            /\ r \notin Bad =>
                  /\ Stands(w, "version", b) /\ Stands(w, LineOf(r), c)
                  /\ Stands(w, "blank", d) /\ Len(w) = d + Size["blank"]
<1> USE SizeType, KindsType
<1>1. CASE r \notin Bad
  <2> DEFINE m == MethodOf(r)
             l == LineOf(r)
  <2>1. m \in Kinds /\ l \in Kinds
    OBVIOUS
  <2>2. Bytes(r) = Regular(m, l)
    BY <1>1 DEF Bytes, Sorts, Bad, MethodOf, LineOf
  <2>3. r \notin BadMethods /\ r \notin BadUrls /\ r \notin BadVersions
    BY <1>1 DEF Bad
  <2> HIDE DEF m, l
  <2>4. /\ Size[m] \in Nat /\ Size[l] \in Nat /\ Size["url"] \in Nat
        /\ Size["version"] \in Nat
        /\ Size["blank"] \in Nat /\ Size["blank"] > 0
    BY <2>1
  <2>5. Size[m] + Size["url"] + Size["version"] + Size[l] + Size["blank"] > 0
    BY <2>4
  <2> HIDE SizeType, KindsType
  <2> QED
    BY <1>1, <2>1, <2>2, <2>3, <2>5, RegularBytes DEF m, l
<1>2. CASE r \in BadMethods
  BY <1>2, PartsType DEF Bytes, Bad, BadMethods, BadUrls, BadVersions
<1>3. CASE r \in BadUrls
  <2> DEFINE x == Wrong(r)
  <2>1. Bytes(r) = Parts("method") \o Parts(x) \o Parts("url")
        /\ MethodOf(r) = "method" /\ r \in Bad
        /\ r \notin BadMethods /\ r \notin BadVersions
    BY <1>3 DEF Bytes, MethodOf, Bad, BadMethods, BadUrls, BadVersions
  <2> DEFINE w == Parts("method") \o Parts(x) \o Parts("url")
  <2>2. "method" \in Kinds /\ x \in Kinds /\ "url" \in Kinds
    OBVIOUS
  <2> HIDE SizeType, KindsType
  <2>3. /\ w \in Seq(Letter)
        /\ Len(w) = Size["method"] + Size[x] + Size["url"]
        /\ Stands(w, "method", 0) /\ Stands(w, x, Size["method"])
    BY <2>2, ThreeBytes
  <2> HIDE DEF w, x
  <2>4. Len(w) > 0
    BY <2>2, <2>3, SizeType
  <2> QED
    BY <1>3, <2>1, <2>3, <2>4 DEF w, x
<1>4. CASE r \in BadVersions
  <2> DEFINE x == Wrong(r)
  <2>1. Bytes(r) = Parts("method") \o Parts("url") \o Parts(x)
        /\ MethodOf(r) = "method" /\ r \in Bad
        /\ r \notin BadMethods /\ r \notin BadUrls
    BY <1>4 DEF Bytes, MethodOf, Bad, BadMethods, BadUrls, BadVersions
  <2> DEFINE w == Parts("method") \o Parts("url") \o Parts(x)
  <2>2. "method" \in Kinds /\ "url" \in Kinds /\ x \in Kinds
    OBVIOUS
  <2> HIDE SizeType, KindsType
  <2>3. /\ w \in Seq(Letter)
        /\ Len(w) = Size["method"] + Size["url"] + Size[x]
        /\ Stands(w, "method", 0) /\ Stands(w, "url", Size["method"])
        /\ Stands(w, x, Size["method"] + Size["url"])
    BY <2>2, ThreeBytes
  <2> HIDE DEF w, x
  <2>4. Len(w) > 0
    BY <2>2, <2>3, SizeType
  <2> QED
    BY <1>4, <2>1, <2>3, <2>4 DEF w, x
<1> QED
  BY <1>1, <1>2, <1>3, <1>4 DEF Bad

-----------------------------------------------------------------------------
(* The type invariant.                                                     *)
LEMMA TailOf ==
  ASSUME NEW T, NEW b \in Seq(T), NEW o \in Nat
  PROVE  LET t == SubSeq(b, o + 1, Len(b))
         IN /\ t \in Seq(T)
            /\ Len(t) = IF o <= Len(b) THEN Len(b) - o ELSE 0
            /\ \A i \in 1 .. Len(t) : t[i] = b[o + i]
<1>1. \A i \in o + 1 .. Len(b) : b[i] \in T
  OBVIOUS
<1>2. Len(b) \in Nat
  OBVIOUS
<1> DEFINE t == SubSeq(b, o + 1, Len(b))
<1>3. /\ t \in Seq(T)
      /\ Len(t) = IF o + 1 <= Len(b) THEN Len(b) - (o + 1) + 1 ELSE 0
      /\ \A i \in 1 .. Len(b) - (o + 1) + 1 : t[i] = b[o + 1 + i - 1]
  BY <1>1, <1>2, SubSeqProperties
<1> QED
  BY <1>2, <1>3

LEMMA RestType ==
  ASSUME NEW T, rbuf \in Seq(T), off \in Nat
  PROVE  /\ Rest \in Seq(T)
         /\ Len(Rest) = IF off <= Len(rbuf) THEN Len(rbuf) - off ELSE 0
         /\ \A i \in 1 .. Len(Rest) : Rest[i] = rbuf[off + i]
  BY TailOf DEF Rest

LEMMA TypeInit == Init => TypeOK
<1> SUFFICES ASSUME Init PROVE TypeOK
  OBVIOUS
<1>1. \A T : <<>> \in Seq(T)
  OBVIOUS
<1>2. Len(<<>>) = 0 /\ 0 <= DBuf /\ 0 <= RBuf
  BY ConnectionAssumption
<1>3. sent \in 0 .. Len(text) /\ Len(data) <= DBuf /\ Len(rbuf) <= RBuf
  BY <1>2 DEF Init
<1> QED
  BY <1>1, <1>3 DEF Init, TypeOK, Statuses, Places, Damages

(* The stream grows, and the positions in it stay positions in it.         *)
LEMMA Grown ==
  ASSUME TypeOK, NEW r \in Sorts, Ask(r)
  PROVE  /\ text' \in Seq(Letter) /\ Len(text') > Len(text)
         /\ Len(text) \in Nat /\ Len(text') = Len(text) + Len(Bytes(r))
         /\ \A T : T \in Seq(1 .. Len(text)) => T \in Seq(1 .. Len(text'))
<1>1. Bytes(r) \in Seq(Letter) /\ Len(Bytes(r)) > 0 /\ text \in Seq(Letter)
  BY Shape DEF TypeOK, Letter
<1>2. Len(text) \in Nat /\ Len(Bytes(r)) \in Nat
  BY <1>1
<1>3. text' \in Seq(Letter) /\ Len(text') = Len(text) + Len(Bytes(r))
  BY <1>1, Join DEF Ask
<1>4. 1 .. Len(text) \subseteq 1 .. Len(text')
  BY <1>1, <1>2, <1>3
<1> QED
  BY <1>1, <1>2, <1>3, <1>4, SeqMonotonic

LEMMA Typed ==
  ASSUME TypeOK
  PROVE  LET T == 1 .. Len(text) IN
         /\ wire \in Seq(T) /\ data \in Seq(T) /\ rbuf \in Seq(T)
         /\ Len(wire) \in Nat /\ Len(rbuf) \in Nat /\ Len(data) \in Nat
         /\ Len(text) \in Nat /\ sent \in Nat /\ off \in Nat /\ taken \in Nat
         /\ Rest \in Seq(T) /\ Len(Rest) \in Nat /\ DOMAIN Rest = 1 .. Len(Rest)
         /\ Len(Rest) = IF off <= Len(rbuf) THEN Len(rbuf) - off ELSE 0
         /\ \A i \in 1 .. Len(Rest) : Rest[i] = rbuf[off + i]
<1> DEFINE T == 1 .. Len(text)
<1>1. /\ wire \in Seq(T) /\ data \in Seq(T) /\ rbuf \in Seq(T)
      /\ text \in Seq(Kinds \X Nat) /\ off \in Nat /\ taken \in Nat
  BY DEF TypeOK
<1>2. /\ Len(wire) \in Nat /\ Len(rbuf) \in Nat /\ Len(data) \in Nat
      /\ Len(text) \in Nat
  BY <1>1
<1>3. sent \in Nat
  BY <1>2 DEF TypeOK
<1>4. /\ Rest \in Seq(T)
      /\ Len(Rest) = IF off <= Len(rbuf) THEN Len(rbuf) - off ELSE 0
      /\ \A i \in 1 .. Len(Rest) : Rest[i] = rbuf[off + i]
  BY <1>1, RestType
<1>5. Len(Rest) \in Nat /\ DOMAIN Rest = 1 .. Len(Rest)
  BY <1>4
<1> QED
  BY <1>1, <1>2, <1>3, <1>4, <1>5

(* recv moves at least one byte, and no more than there is room for.       *)
LEMMA Received ==
  ASSUME TypeOK, RecvBytes
  PROVE  LET T == 1 .. Len(text) IN
         \E n \in 1 .. Len(wire) :
            /\ rbuf' \in Seq(T) /\ wire' \in Seq(T)
            /\ Len(rbuf') = Len(rbuf) + n /\ Len(rbuf') <= RBuf
            /\ Len(wire') = Len(wire) - n
            /\ \A i \in 1 .. Len(rbuf) : rbuf'[i] = rbuf[i]
            /\ \A i \in 1 .. n : rbuf'[Len(rbuf) + i] = wire[i]
            /\ \A i \in 1 .. Len(wire) - n : wire'[i] = wire[n + i]
<1> DEFINE T == 1 .. Len(text)
           n == IF Len(wire) < Room THEN Len(wire) ELSE Room
           front == SubSeq(wire, 1, n)
<1>1. /\ wire \in Seq(T) /\ rbuf \in Seq(T)
      /\ Len(wire) \in Nat /\ Len(rbuf) \in Nat
  BY Typed
<1>2. Len(wire) > 0
  BY <1>1, EmptySeq DEF RecvBytes
<1>3. n \in 1 .. Len(wire) /\ Len(rbuf) + n <= RBuf
  BY <1>1, <1>2, ConnectionAssumption DEF RecvBytes, Room
<1>4. rbuf' = rbuf \o front /\ wire' = SubSeq(wire, n + 1, Len(wire))
  BY DEF RecvBytes
<1> HIDE DEF n, T
<1>5. \A i \in 1 .. Len(wire) : wire[i] \in T
  BY <1>1
<1>6. /\ front \in Seq(T) /\ Len(front) = n
      /\ \A i \in 1 .. n : front[i] = wire[i]
  <2>1. \A i \in 1 .. n : wire[i] \in T
    BY <1>1, <1>3, <1>5
  <2>2. /\ front \in Seq(T) /\ Len(front) = IF 1 <= n THEN n - 1 + 1 ELSE 0
        /\ \A i \in 1 .. n - 1 + 1 : front[i] = wire[1 + i - 1]
    BY <1>1, <1>3, <2>1, SubSeqProperties
  <2> QED
    BY <1>1, <1>3, <2>2
<1> HIDE DEF front
<1>7. /\ wire' \in Seq(T) /\ Len(wire') = Len(wire) - n
      /\ \A i \in 1 .. Len(wire) - n : wire'[i] = wire[n + i]
  <2> DEFINE t == SubSeq(wire, n + 1, Len(wire))
  <2>1. n \in Nat
    BY <1>3
  <2>2. /\ t \in Seq(T)
        /\ Len(t) = IF n <= Len(wire) THEN Len(wire) - n ELSE 0
        /\ \A i \in 1 .. Len(t) : t[i] = wire[n + i]
    BY <1>1, <2>1, TailOf
  <2> HIDE DEF t
  <2>3. Len(t) = Len(wire) - n
    BY <1>1, <1>3, <2>2
  <2>4. wire' = t
    BY <1>4 DEF t
  <2> QED
    BY <2>2, <2>3, <2>4
<1>8. /\ rbuf' \in Seq(T) /\ Len(rbuf') = Len(rbuf) + n
      /\ \A i \in 1 .. Len(rbuf) + n : rbuf'[i] =
            IF i <= Len(rbuf) THEN rbuf[i] ELSE front[i - Len(rbuf)]
  <2> DEFINE w == rbuf \o front
  <2>1. /\ w \in Seq(T) /\ Len(w) = Len(rbuf) + Len(front)
        /\ \A i \in 1 .. Len(rbuf) + Len(front) : w[i] =
              IF i <= Len(rbuf) THEN rbuf[i] ELSE front[i - Len(rbuf)]
    BY <1>1, <1>6, ConcatProperties
  <2> HIDE DEF w
  <2>2. rbuf' = w /\ Len(front) = n
    BY <1>4, <1>6 DEF w
  <2> QED
    BY <2>1, <2>2
<1>9. ASSUME NEW i \in 1 .. Len(rbuf) PROVE rbuf'[i] = rbuf[i]
  BY <1>1, <1>3, <1>8
<1>10. ASSUME NEW i \in 1 .. n PROVE rbuf'[Len(rbuf) + i] = wire[i]
  <2>1. rbuf'[Len(rbuf) + i] = front[i]
    BY <1>1, <1>3, <1>8, SMTT(30)
  <2> QED
    BY <1>6, <2>1
<1> QED
  BY <1>3, <1>7, <1>8, <1>9, <1>10 DEF T

LEMMA TypeStep == TypeOK /\ Control /\ [Next]_vars => TypeOK'
<1> SUFFICES ASSUME TypeOK, Control, [Next]_vars PROVE TypeOK'
  OBVIOUS
<1> USE DEF clientVars
<1> DEFINE T == 1 .. Len(text)
<1>0. /\ wire \in Seq(T) /\ data \in Seq(T) /\ rbuf \in Seq(T)
      /\ Len(wire) \in Nat /\ Len(rbuf) \in Nat /\ Len(data) \in Nat
      /\ Len(text) \in Nat /\ off \in Nat /\ taken \in Nat
  BY Typed
<1>a. /\ Rest \in Seq(T) /\ Len(Rest) \in Nat /\ DOMAIN Rest = 1 .. Len(Rest)
  BY Typed
<1>1. ASSUME NEW r \in Sorts, Ask(r) PROVE TypeOK'
  <2>1. /\ text' \in Seq(Kinds \X Nat) /\ Len(text') \in Nat
        /\ Len(text) <= Len(text')
        /\ wire \in Seq(1 .. Len(text')) /\ data \in Seq(1 .. Len(text'))
        /\ rbuf \in Seq(1 .. Len(text'))
    BY <1>1, Grown, SMTT(30) DEF TypeOK, Letter
  <2>2. ends \in Seq(Nat) /\ requests \in Seq(Sorts) /\ Len(ends) = Len(requests)
    BY DEF TypeOK
  <2>3. /\ requests' \in Seq(Sorts) /\ ends' \in Seq(Nat)
        /\ Len(ends') = Len(requests')
    BY <1>1, <2>1, <2>2 DEF Ask
  <2> QED
    BY <1>1, <2>1, <2>3 DEF Ask, TypeOK
<1>2. ASSUME NEW n \in 1 .. Len(text), Send(n) PROVE TypeOK'
  <2>1. sent + n \in 0 .. Len(text)
    BY <1>2 DEF Send, TypeOK
  <2>2. [i \in 1 .. n |-> sent + i] \in Seq(T)
    BY <2>1 DEF TypeOK
  <2>3. wire' \in Seq(T)
    BY <1>0, <1>2, <2>2, ConcatProperties DEF Send
  <2> QED
    BY <1>2, <2>1, <2>3 DEF Send, TypeOK
<1>3. ASSUME HangUp \/ Serve \/ RecvEnd PROVE TypeOK'
  <2>1. CASE HangUp \/ RecvEnd
    BY <2>1 DEF HangUp, RecvEnd, TypeOK, Places
  <2>2. CASE Serve
    <3>1. Len(data) <= RBuf /\ off = 0
      BY <1>0, <2>2, ConnectionAssumption DEF Serve, TypeOK
    <3> QED
      BY <2>2, <3>1 DEF Serve, TypeOK, Places
  <2> QED
    BY <1>3, <2>1, <2>2
<1>4. ASSUME RecvBytes PROVE TypeOK'
  <2>1. rbuf' \in Seq(T) /\ Len(rbuf') <= RBuf /\ wire' \in Seq(T)
    BY <1>4, Received
  <2> QED
    BY <1>4, <2>1 DEF RecvBytes, TypeOK, Places
<1>5. ASSUME RecvNothing PROVE TypeOK'
  <2>1. data' \in Seq(T) /\ Len(data') <= DBuf
    <3>1. CASE rbuf = <<>>
      BY <1>5, <3>1 DEF RecvNothing, TypeOK
    <3>2. CASE rbuf # <<>>
      <4> DEFINE m == IF Len(rbuf) > DBuf THEN DBuf ELSE Len(rbuf)
      <4>1. m \in 0 .. Len(rbuf) /\ m <= DBuf
        BY <1>0, ConnectionAssumption
      <4>2. data' = SubSeq(rbuf, 1, m)
        BY <1>5, <3>2 DEF RecvNothing
      <4> HIDE DEF m
      <4> QED
        BY <1>0, <4>1, <4>2
    <3> QED
      BY <3>1, <3>2
  <2>2. <<>> \in Seq(T) /\ Len(<<>>) = 0 /\ 0 <= RBuf
    BY ConnectionAssumption
  <2>3. damaged' \subseteq Damages
    BY <1>5 DEF RecvNothing, TypeOK, Damages, Waits
  <2>4. off = 0
    BY <1>5 DEF RecvNothing, TypeOK
  <2> QED
    BY <1>5, <2>1, <2>2, <2>3, <2>4 DEF RecvNothing, TypeOK, Places
<1>6. ASSUME NEW n \in Nat, NEW next \in Statuses, Consume(n, next),
             method' \in Methods \cup {"none"}, pc = "parse"
      PROVE  TypeOK'
  BY <1>0, <1>6 DEF Consume, TypeOK
<1>7. ASSUME Pause, damaged' \subseteq Damages PROVE TypeOK'
  BY <1>7 DEF Pause, TypeOK, Places
<1>8. ASSUME Reject, damaged' \subseteq Damages PROVE TypeOK'
  BY <1>8 DEF Reject, TypeOK, Places, Statuses
<1>9. ASSUME ParseStep PROVE TypeOK'
  <2> USE SizeType, KindsType
  <2>1. CASE ParseMethod
    BY <1>6, <2>1 DEF ParseMethod, Parsing, Statuses
  <2>2. CASE ParseUrl \/ ParseVersion
    BY <1>6, <2>2 DEF ParseUrl, ParseVersion, Parsing, Statuses, TypeOK
  <2>3. CASE ParseLine
    BY <1>6, <2>3 DEF ParseLine, Parsing, Statuses, TypeOK
  <2>4. CASE ParseMangled
    <3>1. CASE Reject /\ UNCHANGED damaged
      BY <1>8, <3>1 DEF TypeOK
    <3>2. ASSUME NEW j \in DOMAIN Rest, Consume(j, "header"), UNCHANGED method
          PROVE  TypeOK'
      <4>1. j \in Nat /\ pc = "parse" /\ method' \in Methods \cup {"none"}
        BY <1>a, <2>4, <3>2 DEF ParseMangled, Parsing, TypeOK
      <4> QED
        BY <1>6, <3>2, <4>1 DEF Statuses
    <3> QED
      BY <1>7, <2>4, <3>1, <3>2 DEF ParseMangled, TypeOK
  <2>5. CASE MethodPause \/ UrlPause \/ VersionPause \/ HeaderPause
             \/ MethodStuck \/ UrlStuck \/ VersionWaits
    BY <1>7, <2>5
       DEF MethodPause, UrlPause, VersionPause, HeaderPause, MethodStuck,
           UrlStuck, VersionWaits, TypeOK, Damages, Waits
  <2>6. CASE MethodError \/ LonePError \/ UrlError \/ VersionError
    BY <1>8, <2>6
       DEF MethodError, LonePError, UrlError, VersionError, TypeOK, Damages
  <2>7. CASE VersionOverrun \/ ParseBlank
    BY <1>0, <2>7, SMTT(30) DEF VersionOverrun, ParseBlank, TypeOK, Statuses, Places
  <2> QED
    BY <1>9, <2>1, <2>2, <2>3, <2>4, <2>5, <2>6, <2>7 DEF ParseStep
<1>10. ASSUME Shift PROVE TypeOK'
  <2>1. rbuf' \in Seq(T) /\ Len(rbuf') <= RBuf
    <3>1. Len(Rest) <= Len(rbuf)
      BY <1>0, RestType
    <3>2. rbuf' = rbuf \/ rbuf' = Rest
      BY <1>10 DEF Shift
    <3> QED
      BY <1>0, <1>a, <3>1, <3>2, ConnectionAssumption DEF TypeOK
  <2>2. damaged' \subseteq Damages /\ pc' \in Places
    BY <1>10 DEF Shift, TypeOK, Damages, Places
  <2> QED
    BY <1>10, <2>1, <2>2 DEF Shift, TypeOK
<1>11. ASSUME Reply PROVE TypeOK'
  <2>1. answers' \in Seq({"200", "400", "405"})
    <3>1. Verdict \in {"200", "400", "405"}
      BY DEF Verdict
    <3>2. answers \in Seq({"200", "400", "405"})
      BY DEF TypeOK
    <3> QED
      BY <1>11, <3>1, <3>2 DEF Reply
  <2>2. pc' \in Places /\ status' \in Statuses
    BY <1>11 DEF Reply, Places, Statuses
  <2>3. pc' = "recv" => off = 0
    BY <1>11 DEF Reply, Control
  <2> QED
    BY <1>11, <2>1, <2>2, <2>3 DEF Reply, TypeOK
<1>12. CASE UNCHANGED vars
  BY <1>12 DEF vars, TypeOK
<1> QED
  BY <1>1, <1>2, <1>3, <1>4, <1>5, <1>9, <1>10, <1>11, <1>12
     DEF Next, ServerStep

-----------------------------------------------------------------------------
(* What every step of the parser is: it consumes some of what it sees,     *)
(* waits, refuses, or runs beyond the end.                                 *)
LEMMA ParseKinds ==
  ASSUME TypeOK, ParseStep
  PROVE  /\ pc = "parse"
         /\ \/ \E n \in 1 .. Len(Rest), next \in Statuses :
                  /\ Consume(n, next)
                  /\ next \in {"url", "version", "header"}
            \/ /\ ParseBlank
               /\ Size["blank"] \in 1 .. Len(Rest)
            \/ Pause /\ damaged \subseteq damaged'
            \/ Reject /\ damaged \subseteq damaged'
            \/ VersionOverrun
<1>1. Len(Rest) \in Nat /\ DOMAIN Rest = 1 .. Len(Rest)
  BY RestType DEF TypeOK
<1>2. ASSUME NEW k \in Kinds, Whole(k) PROVE Size[k] \in 1 .. Len(Rest)
  BY <1>1, <1>2, SizeType DEF Whole
<1>3. {"url", "version", "header"} \subseteq Statuses
  BY DEF Statuses
<1>4. pc = "parse"
  BY DEF ParseStep, Parsing, ParseMethod, MethodError, LonePError, MethodPause,
         MethodStuck, ParseUrl, UrlError, UrlPause, UrlStuck, VersionWaits,
         ParseVersion, VersionError, VersionPause,
         VersionOverrun, ParseLine, ParseBlank, HeaderPause, ParseMangled
<1>5. CASE ParseMethod
  BY <1>2, <1>3, <1>4, <1>5, KindsType DEF ParseMethod
<1>6. CASE ParseUrl \/ ParseVersion
  BY <1>2, <1>3, <1>4, <1>6, KindsType DEF ParseUrl, ParseVersion
<1>7. CASE ParseLine
  BY <1>2, <1>3, <1>4, <1>7, KindsType DEF ParseLine
<1>8. CASE ParseBlank
  BY <1>2, <1>4, <1>8, KindsType DEF ParseBlank
<1>9. CASE ParseMangled
  BY <1>1, <1>3, <1>4, <1>9 DEF ParseMangled
<1>10. CASE MethodPause \/ UrlPause \/ VersionPause \/ HeaderPause
            \/ MethodStuck \/ UrlStuck \/ VersionWaits
  BY <1>4, <1>10
     DEF MethodPause, UrlPause, VersionPause, HeaderPause, MethodStuck, UrlStuck,
         VersionWaits
<1>11. CASE MethodError \/ LonePError \/ UrlError \/ VersionError
  BY <1>4, <1>11 DEF MethodError, LonePError, UrlError, VersionError
<1> QED
  BY <1>4, <1>5, <1>6, <1>7, <1>8, <1>9, <1>10, <1>11 DEF ParseStep

LEMMA ControlStep == TypeOK /\ Control /\ [Next]_vars => Control'
<1> SUFFICES ASSUME TypeOK, Control, [Next]_vars PROVE Control'
  OBVIOUS
<1> USE DEF Control
<1>0. /\ Len(wire) \in Nat /\ Len(rbuf) \in Nat /\ off \in Nat
      /\ Len(Rest) = IF off <= Len(rbuf) THEN Len(rbuf) - off ELSE 0
  BY Typed
<1>1. ASSUME NEW r \in Sorts, Ask(r) PROVE Control'
  BY <1>1 DEF Ask
<1>2. ASSUME NEW n \in 1 .. Len(text), Send(n) PROVE Control'
  BY <1>2 DEF Send
<1>3. CASE HangUp \/ Serve \/ RecvNothing \/ RecvEnd
  BY <1>3 DEF HangUp, Serve, RecvNothing, RecvEnd
<1>4. CASE RecvBytes
  <2>1. Len(rbuf') \in Nat /\ Len(rbuf') > 0
    BY <1>0, <1>4, Received
  <2>2. pc = "recv" /\ pc' = "parse" /\ off' = 0 /\ status' = status
    BY <1>4 DEF RecvBytes
  <2> QED
    BY <2>1, <2>2
<1>5. CASE ParseStep
  <2>1. CASE Pause \/ Reject \/ VersionOverrun
    BY <1>5, <2>1, ParseKinds DEF Pause, Reject, VersionOverrun
  <2>2. ASSUME NEW n \in 1 .. Len(Rest), NEW next \in {"url", "version", "header"},
               Consume(n, next)
        PROVE  Control'
    BY <1>0, <1>5, <2>2, ParseKinds DEF Consume
  <2>3. CASE ParseBlank
    BY <2>3 DEF ParseBlank
  <2> QED
    BY <1>5, <2>1, <2>2, <2>3, ParseKinds
<1>6. CASE Shift
  <2>1. off' = 0 /\ status' = status /\ pc' \in {"crashed", "recv", "reply"}
    BY <1>6 DEF Shift
  <2>2. pc' = "reply" => status = "complete"
    BY <1>6 DEF Shift
  <2>3. pc' = "recv" => status # "complete" /\ status # "error"
    BY <1>6 DEF Shift
  <2>4. status \in Statuses
    BY DEF TypeOK
  <2> QED
    BY <2>1, <2>2, <2>3, <2>4 DEF Statuses
<1>7. CASE Reply
  BY <1>7 DEF Reply
<1>8. CASE UNCHANGED vars
  BY <1>8 DEF vars
<1> QED
  BY <1>1, <1>2, <1>3, <1>4, <1>5, <1>6, <1>7, <1>8 DEF Next, ServerStep

-----------------------------------------------------------------------------
(* The way of the bytes to the parser.                                     *)

(* Consuming shortens what the parser sees from the front.                 *)
LEMMA Consumed ==
  ASSUME TypeOK, NEW n \in 0 .. Len(Rest), rbuf' = rbuf, off' = off + n,
         off <= Len(rbuf)
  PROVE  /\ Len(Rest') = Len(Rest) - n
         /\ \A i \in 1 .. Len(Rest) - n : Rest'[i] = Rest[n + i]
         /\ off' <= Len(rbuf')
<1>1. /\ rbuf \in Seq(1 .. Len(text)) /\ off \in Nat /\ Len(rbuf) \in Nat
      /\ Len(Rest) = Len(rbuf) - off /\ off + n \in Nat
      /\ \A i \in 1 .. Len(Rest) : Rest[i] = rbuf[off + i]
  BY Typed
<1>2. Rest' = SubSeq(rbuf, off + n + 1, Len(rbuf))
  BY DEF Rest
<1>3. /\ Len(Rest') = IF off + n <= Len(rbuf) THEN Len(rbuf) - (off + n) ELSE 0
      /\ \A i \in 1 .. Len(Rest') : Rest'[i] = rbuf[off + n + i]
  BY <1>1, <1>2, TailOf
<1>4. Len(Rest') = Len(Rest) - n
  BY <1>1, <1>3
<1>5. ASSUME NEW i \in 1 .. Len(Rest) - n PROVE Rest'[i] = Rest[n + i]
  <2>1. n + i \in 1 .. Len(Rest) /\ i \in 1 .. Len(Rest') /\ off + n + i = off + (n + i)
    BY <1>1, <1>4
  <2> QED
    BY <1>1, <1>3, <2>1
<1> QED
  BY <1>1, <1>4, <1>5

(* Nothing happens to the bytes.                                           *)
LEMMA FlowKept ==
  ASSUME Flow, Serving, Held' = Held, wire' = wire, sent' = sent,
         taken' = taken
  PROVE  Flow'
  BY DEF Flow

LEMMA FlowConsumed ==
  ASSUME TypeOK, Flow, Serving, pc = "parse", pc' # "armed",
         NEW n \in 0 .. Len(Rest), off <= Len(rbuf),
         rbuf' = rbuf, off' = off + n, taken' = taken + n,
         wire' = wire, sent' = sent
  PROVE  Flow'
<1>1. Held = Rest /\ Held' = Rest'
  BY DEF Held
<1>2. /\ Len(Rest) \in Nat /\ Len(wire) \in Nat /\ taken \in Nat
  BY Typed
<1>3. /\ taken + Len(Rest) + Len(wire) = sent
      /\ \A i \in 1 .. Len(Rest) : Rest[i] = taken + i
      /\ \A i \in 1 .. Len(wire) : wire[i] = taken + Len(Rest) + i
  BY <1>1 DEF Flow
<1>4. /\ Len(Rest') = Len(Rest) - n
      /\ \A i \in 1 .. Len(Rest) - n : Rest'[i] = Rest[n + i]
  BY Consumed
<1>5. ASSUME NEW i \in 1 .. Len(Rest') PROVE Rest'[i] = taken' + i
  <2>1. n + i \in 1 .. Len(Rest)
    BY <1>2, <1>4
  <2> QED
    BY <1>2, <1>3, <1>4, <2>1
<1>6. taken' + Len(Rest') + Len(wire') = sent'
  BY <1>2, <1>3, <1>4
<1>7. ASSUME NEW i \in 1 .. Len(wire')
      PROVE  wire'[i] = taken' + Len(Rest') + i
  BY <1>2, <1>3, <1>4
<1> QED
  BY <1>1, <1>5, <1>6, <1>7 DEF Flow

(* What has happened is not undone: a step that leaves the stream sound    *)
(* and the connection served found them so.                                *)
LEMMA SoundBefore ==
  ASSUME TypeOK, Control, [Next]_vars
  PROVE  /\ Sound' => Sound
         /\ Serving' => Serving
<1> USE DEF clientVars, Sound, Serving
<1>1. damaged \subseteq damaged' /\ (pc \in {"closed", "crashed"} => pc' = pc)
      /\ (status = "error" => pc = "reply" \/ pc \in {"closed", "crashed"})
      /\ (status = "error" => status' = "error" \/ pc' = "closed")
  <2>1. status \in Statuses /\ pc \in Places
    BY DEF TypeOK
  <2>2. status = "error" => pc = "reply" \/ pc \in {"closed", "crashed"}
    BY <2>1 DEF Control, Places
  <2>3. ASSUME NEW r \in Sorts, Ask(r)
        PROVE  damaged' = damaged /\ pc' = pc /\ status' = status
    BY <2>3 DEF Ask
  <2>4. ASSUME NEW n \in 1 .. Len(text), Send(n)
        PROVE  damaged' = damaged /\ pc' = pc /\ status' = status
    BY <2>4 DEF Send
  <2>5. CASE HangUp \/ UNCHANGED vars
    BY <2>2, <2>5 DEF HangUp, vars
  <2>6. CASE Serve \/ RecvBytes \/ RecvNothing \/ RecvEnd
    BY <2>2, <2>6 DEF Serve, RecvBytes, RecvNothing, RecvEnd
  <2>7. CASE ParseStep
    <3>1. pc = "parse" /\ damaged \subseteq damaged'
      BY <2>7, ParseKinds
         DEF Consume, ParseBlank, Pause, VersionOverrun
    <3> QED
      BY <2>2, <3>1
  <2>8. CASE Shift
    BY <2>2, <2>8 DEF Shift
  <2>9. CASE Reply
    BY <2>2, <2>9 DEF Reply
  <2> QED
    BY <2>2, <2>3, <2>4, <2>5, <2>6, <2>7, <2>8, <2>9 DEF Next, ServerStep
<1> QED
  BY <1>1

LEMMA FlowStep ==
  TypeOK /\ Control /\ Flow /\ [Next]_vars => Flow'
<1> SUFFICES ASSUME TypeOK, Control, Flow, [Next]_vars, Serving' PROVE Flow'
  BY DEF Flow
<1> USE DEF clientVars
<1>0. Serving /\ Sound /\ pc' \notin {"closed", "crashed"} /\ status' # "error"
  BY SoundBefore DEF Serving
<1>a. /\ wire \in Seq(1 .. Len(text)) /\ rbuf \in Seq(1 .. Len(text))
      /\ data \in Seq(1 .. Len(text))
      /\ Len(wire) \in Nat /\ Len(rbuf) \in Nat /\ Len(data) \in Nat
      /\ Len(Rest) \in Nat /\ sent \in Nat /\ taken \in Nat /\ off \in Nat
      /\ Len(Rest) = IF off <= Len(rbuf) THEN Len(rbuf) - off ELSE 0
      /\ \A i \in 1 .. Len(Rest) : Rest[i] = rbuf[off + i]
  BY Typed
<1>b. off = 0 => Rest = rbuf
  BY <1>a, SubSeqFull DEF Rest
<1>1. ASSUME NEW r \in Sorts, Ask(r) PROVE Flow'
  <2>1. Held' = Held
    BY <1>1 DEF Ask, Held, Rest
  <2> QED
    BY <1>0, <1>1, <2>1, FlowKept DEF Ask
<1>2. ASSUME NEW n \in 1 .. Len(text), Send(n) PROVE Flow'
  <2>1. Held' = Held /\ taken' = taken
    BY <1>2 DEF Send, Held, Rest
  <2> DEFINE more == [i \in 1 .. n |-> sent + i]
  <2>2. n \in Nat /\ more \in Seq(Nat) /\ Len(more) = n
    BY <1>a
  <2>3. \A i \in 1 .. n : more[i] = sent + i
    OBVIOUS
  <2>4. wire' = wire \o more /\ sent' = sent + n
    BY <1>2 DEF Send
  <2>5. wire \in Seq(Nat)
    BY <1>a, SeqMonotonic
  <2> HIDE DEF more
  <2>6. /\ Len(wire') = Len(wire) + n
        /\ \A i \in 1 .. Len(wire) + n : wire'[i] =
              IF i <= Len(wire) THEN wire[i] ELSE more[i - Len(wire)]
    <3> DEFINE w == wire \o more
    <3>1. /\ Len(w) = Len(wire) + Len(more)
          /\ \A i \in 1 .. Len(wire) + Len(more) : w[i] =
                IF i <= Len(wire) THEN wire[i] ELSE more[i - Len(wire)]
      BY <2>2, <2>5, ConcatProperties
    <3> HIDE DEF w
    <3>2. wire' = w
      BY <2>4 DEF w
    <3> QED
      BY <2>2, <3>1, <3>2
  <2>7. Held \in Seq(1 .. Len(text)) /\ Len(Held) \in Nat
    BY <1>a, Typed DEF Held
  <2>8. /\ taken + Len(Held) + Len(wire) = sent
        /\ \A i \in 1 .. Len(Held) : Held[i] = taken + i
        /\ \A i \in 1 .. Len(wire) : wire[i] = taken + Len(Held) + i
    BY <1>0 DEF Flow
  <2>9. ASSUME NEW i \in 1 .. Len(wire')
        PROVE  wire'[i] = taken + Len(Held) + i
    <3>a. /\ taken \in Nat /\ Len(Held) \in Nat /\ Len(wire) \in Nat
          /\ i \in Nat /\ i >= 1 /\ i <= Len(wire) + n
      BY <1>a, <2>2, <2>6, <2>7
    <3>b. taken + Len(Held) + Len(wire) = sent
      BY <2>8
    <3>1. CASE i <= Len(wire)
      <4>1. i \in 1 .. Len(wire) /\ i \in 1 .. Len(wire) + n
        BY <2>2, <3>a, <3>1
      <4> QED
        BY <2>6, <2>8, <3>1, <4>1
    <3>2. CASE i > Len(wire)
      <4>1. i - Len(wire) \in 1 .. n /\ i \in 1 .. Len(wire) + n
        BY <2>2, <3>a, <3>2
      <4>2. wire'[i] = more[i - Len(wire)]
        BY <2>6, <3>a, <3>2, <4>1
      <4>3. wire'[i] = sent + (i - Len(wire))
        BY <2>3, <4>1, <4>2
      <4> QED
        BY <3>a, <3>b, <4>3
    <3> QED
      BY <3>a, <3>1, <3>2
  <2>10. taken + Len(Held) + Len(wire') = sent'
    <3>1. /\ taken \in Nat /\ Len(Held) \in Nat /\ Len(wire) \in Nat
          /\ n \in Nat /\ sent \in Nat
      BY <1>a, <2>2, <2>7
    <3>2. Len(wire') = Len(wire) + n
      BY <2>6
    <3>3. sent' = sent + n
      BY <2>4
    <3>4. taken + Len(Held) + Len(wire) = sent
      BY <2>8
    <3> QED
      BY <3>1, <3>2, <3>3, <3>4
  <2> QED
    BY <2>1, <2>8, <2>9, <2>10 DEF Flow
<1>3. CASE HangUp \/ UNCHANGED vars
  <2>1. Held' = Held /\ wire' = wire /\ sent' = sent /\ taken' = taken
    BY <1>3 DEF HangUp, vars, Held, Rest
  <2> QED
    BY <1>0, <2>1, FlowKept
<1>4. CASE Serve
  <2>1. off = 0 /\ off' = 0 /\ rbuf' = data /\ pc = "armed" /\ pc' = "recv"
    BY <1>4 DEF Serve, TypeOK
  <2>2. Held = data /\ Held' = SubSeq(data, 1, Len(data))
    BY <2>1 DEF Held, Rest
  <2>3. Held' = Held
    BY <1>a, <2>2, SubSeqFull
  <2> QED
    BY <1>0, <1>4, <2>3, FlowKept DEF Serve
<1>5. CASE RecvBytes
  <2>1. /\ off = 0 /\ off' = 0 /\ pc = "recv" /\ pc' = "parse"
        /\ sent' = sent /\ taken' = taken
    BY <1>5 DEF RecvBytes, TypeOK
  <2>2. Held = rbuf
    BY <1>b, <2>1 DEF Held
  <2>3. /\ taken + Len(rbuf) + Len(wire) = sent
        /\ \A i \in 1 .. Len(rbuf) : rbuf[i] = taken + i
        /\ \A i \in 1 .. Len(wire) : wire[i] = taken + Len(rbuf) + i
    BY <1>0, <2>2 DEF Flow
  <2>4. PICK n \in 1 .. Len(wire) :
            /\ rbuf' \in Seq(1 .. Len(text))
            /\ Len(rbuf') = Len(rbuf) + n
            /\ Len(wire') = Len(wire) - n
            /\ \A i \in 1 .. Len(rbuf) : rbuf'[i] = rbuf[i]
            /\ \A i \in 1 .. n : rbuf'[Len(rbuf) + i] = wire[i]
            /\ \A i \in 1 .. Len(wire) - n : wire'[i] = wire[n + i]
    BY <1>5, Received
  <2>5. Held' = rbuf'
    BY <2>1, <2>4, SubSeqFull DEF Held, Rest
  <2>a. /\ taken \in Nat /\ Len(rbuf) \in Nat /\ Len(wire) \in Nat
        /\ n \in Nat /\ n <= Len(wire) /\ n >= 1
    BY <1>a
  <2>b. taken + Len(rbuf) + Len(wire) = sent
    BY <2>3
  <2>c. Len(rbuf') = Len(rbuf) + n /\ Len(wire') = Len(wire) - n
    BY <2>4
  <2>6. taken + Len(rbuf') + Len(wire') = sent
    BY <2>a, <2>b, <2>c
  <2>7. ASSUME NEW i \in 1 .. Len(rbuf') PROVE rbuf'[i] = taken + i
    <3>1. CASE i <= Len(rbuf)
      BY <1>a, <2>3, <2>4, <3>1
    <3>2. CASE i > Len(rbuf)
      <4> DEFINE j == i - Len(rbuf)
      <4>1. j \in 1 .. n /\ j \in 1 .. Len(wire) /\ i = Len(rbuf) + j
        BY <2>a, <2>c, <3>2
      <4>2. rbuf'[Len(rbuf) + j] = wire[j] /\ wire[j] = taken + Len(rbuf) + j
        BY <2>3, <2>4, <4>1
      <4> QED
        BY <1>a, <4>1, <4>2
    <3> QED
      BY <1>a, <2>4, <3>1, <3>2
  <2>8. ASSUME NEW i \in 1 .. Len(wire')
        PROVE  wire'[i] = taken + Len(rbuf') + i
    <3>1. i \in 1 .. Len(wire) - n /\ n + i \in 1 .. Len(wire)
      BY <1>a, <2>4
    <3>2. wire'[i] = wire[n + i] /\ wire[n + i] = taken + Len(rbuf) + (n + i)
      BY <2>3, <2>4, <3>1
    <3> QED
      BY <1>a, <2>4, <3>1, <3>2
  <2> QED
    BY <2>1, <2>5, <2>6, <2>7, <2>8 DEF Flow
<1>6. CASE RecvNothing
  <2>1. /\ off = 0 /\ pc = "recv" /\ pc' = "armed"
        /\ sent' = sent /\ taken' = taken /\ wire' = wire
    BY <1>6 DEF RecvNothing, TypeOK
  <2>2. Held = rbuf /\ Held' = data'
    BY <1>b, <2>1 DEF Held
  <2>3. data' = rbuf
    <3>1. CASE rbuf = <<>>
      BY <1>6, <3>1 DEF RecvNothing, Serving, Sound, Waits
    <3>2. CASE rbuf # <<>>
      <4>1. ~(Len(rbuf) > DBuf)
        <5>1. "cut" \notin damaged'
          BY DEF Serving, Sound, Waits
        <5>2. Len(rbuf) > DBuf => "cut" \in damaged'
          BY <1>6, <3>2 DEF RecvNothing
        <5> QED
          BY <5>1, <5>2
      <4>2. data' = SubSeq(rbuf, 1, Len(rbuf))
        BY <1>6, <3>2, <4>1 DEF RecvNothing
      <4> QED
        BY <1>a, <4>2, SubSeqFull
    <3> QED
      BY <3>1, <3>2
  <2> QED
    BY <1>0, <2>1, <2>2, <2>3, FlowKept
<1>7. CASE ParseStep
  <2>1. pc = "parse" /\ off <= Len(rbuf)
    BY <1>7, ParseKinds DEF Control
  <2>2. ASSUME NEW n \in 1 .. Len(Rest), NEW next \in Statuses, Consume(n, next)
        PROVE  Flow'
    <3>1. n \in 0 .. Len(Rest)
      BY <1>a
    <3> QED
      BY <1>0, <2>1, <2>2, <3>1, FlowConsumed DEF Consume
  <2>3. CASE ParseBlank /\ Size["blank"] \in 1 .. Len(Rest)
    <3>1. Size["blank"] \in 0 .. Len(Rest)
      BY <1>a, <2>3
    <3> QED
      BY <1>0, <2>1, <2>3, <3>1, FlowConsumed DEF ParseBlank
  <2>4. CASE Pause
    <3>1. Held' = Held
      BY <2>1, <2>4 DEF Pause, Held, Rest
    <3> QED
      BY <1>0, <2>4, <3>1, FlowKept DEF Pause
  <2>5. CASE VersionOverrun
    <3>1. Rest = <<>> /\ plen \in Nat /\ rbuf' = rbuf /\ off' = off + plen
          /\ off' \in Nat /\ pc' = "parsed"
      BY <1>a, <2>5 DEF VersionOverrun, TypeOK
    <3>2. off = Len(rbuf)
      BY <1>a, <2>1, <3>1
    <3>3. Rest' = SubSeq(rbuf, off' + 1, Len(rbuf)) /\ Len(rbuf) < off' + 1
      BY <1>a, <3>1, <3>2 DEF Rest
    <3>4. Rest' = <<>>
      BY <1>a, <3>1, <3>3, SubSeqEmpty
    <3>5. Held' = Held
      BY <2>1, <3>1, <3>4 DEF Held
    <3> QED
      BY <1>0, <2>5, <3>5, FlowKept DEF VersionOverrun
  <2>6. CASE Reject
    BY <1>0, <2>6 DEF Reject
  <2> QED
    BY <1>7, <2>2, <2>3, <2>4, <2>5, <2>6, ParseKinds
<1>8. CASE Shift
  <2>1. /\ ~(off > Len(rbuf)) /\ rbuf' = Rest /\ off' = 0 /\ pc = "parsed"
        /\ pc' \in {"reply", "recv"}
    BY <1>0, <1>8 DEF Shift
  <2>2. Rest' = SubSeq(Rest, 1, Len(Rest))
    BY <2>1 DEF Rest
  <2>3. Rest' = Rest
    BY <2>2, SubSeqFull, Typed
  <2>4. Held' = Held
    BY <2>1, <2>3 DEF Held
  <2> QED
    BY <1>0, <1>8, <2>4, FlowKept DEF Shift
<1>9. CASE Reply
  <2>1. Held' = Held
    BY <1>0, <1>9 DEF Reply, Held, Rest
  <2> QED
    BY <1>0, <1>9, <2>1, FlowKept DEF Reply
<1>10. CASE RecvEnd
  BY <1>0, <1>10 DEF RecvEnd
<1> QED
  BY <1>1, <1>2, <1>3, <1>4, <1>5, <1>6, <1>7, <1>8, <1>9, <1>10
     DEF Next, ServerStep

(* Flow is Intact.                                                         *)
LEMMA FlowIntact == TypeOK /\ Flow => Intact
<1> SUFFICES ASSUME TypeOK, Flow, Serving
             PROVE  Held \o wire = [i \in 1 .. sent - taken |-> taken + i]
  BY DEF Intact
<1>1. /\ Held \in Seq(1 .. Len(text)) /\ wire \in Seq(1 .. Len(text))
      /\ Len(Held) \in Nat /\ Len(wire) \in Nat /\ taken \in Nat
  BY Typed DEF Held
<1>2. /\ taken + Len(Held) + Len(wire) = sent
      /\ \A i \in 1 .. Len(Held) : Held[i] = taken + i
      /\ \A i \in 1 .. Len(wire) : wire[i] = taken + Len(Held) + i
  BY DEF Flow
<1> DEFINE n == Len(Held) + Len(wire)
           t == [i \in 1 .. n |-> taken + i]
           w == Held \o wire
<1>3. n \in Nat /\ sent - taken = n
  BY <1>1, <1>2
<1>4. /\ w \in Seq(1 .. Len(text)) /\ Len(w) = n
      /\ \A i \in 1 .. n : w[i] =
            IF i <= Len(Held) THEN Held[i] ELSE wire[i - Len(Held)]
  BY <1>1, ConcatProperties
<1> HIDE DEF w
<1>5. w \in Seq(Nat) /\ t \in Seq(Nat) /\ Len(t) = n
  BY <1>1, <1>3, <1>4, SeqMonotonic
<1>6. ASSUME NEW i \in 1 .. n PROVE w[i] = taken + i
  <2>a. /\ taken \in Nat /\ Len(Held) \in Nat /\ Len(wire) \in Nat
        /\ i \in Nat /\ i >= 1 /\ i <= Len(Held) + Len(wire)
    BY <1>1
  <2>1. CASE i <= Len(Held)
    <3>1. i \in 1 .. Len(Held)
      BY <2>a, <2>1
    <3> QED
      BY <1>2, <1>4, <2>1, <3>1
  <2>2. CASE i > Len(Held)
    <3> DEFINE j == i - Len(Held)
    <3>1. j \in 1 .. Len(wire) /\ i = Len(Held) + j
      BY <2>a, <2>2
    <3>2. w[i] = wire[j] /\ wire[j] = taken + Len(Held) + j
      BY <1>2, <1>4, <2>a, <2>2, <3>1
    <3> QED
      BY <2>a, <3>1, <3>2
  <2> QED
    BY <2>a, <2>1, <2>2
<1>7. w = t
  BY <1>4, <1>5, <1>6, SeqEqual
<1> QED
  BY <1>3, <1>7 DEF w

-----------------------------------------------------------------------------
(* What the client sends.                                                  *)

(* A next request changes nothing about those in front of it.              *)
LEMMA Asked ==
  ASSUME TypeOK, NEW r \in Sorts, Ask(r)
  PROVE  LET m == Len(requests) IN
         /\ m \in Nat /\ Len(requests') = m + 1
         /\ requests'[m + 1] = r /\ ends'[m + 1] = Len(text')
         /\ \A n \in 1 .. m : requests'[n] = requests[n] /\ ends'[n] = ends[n]
         /\ \A n \in 1 .. m + 1 : Start(n)' = Start(n)
         /\ \A k \in Kinds, p \in Nat :
               /\ Stands(text, k, p) => Stands(text', k, p)
               /\ Stands(Bytes(r), k, p) => Stands(text', k, Len(text) + p)
<1> DEFINE m == Len(requests)
<1>1. /\ requests \in Seq(Sorts) /\ ends \in Seq(Nat) /\ Len(ends) = m
      /\ text \in Seq(Letter) /\ m \in Nat
  BY DEF TypeOK, Letter
<1>2. Len(text') \in Nat /\ Bytes(r) \in Seq(Letter)
  BY Grown, Shape
<1>3. /\ requests' = Append(requests, r) /\ ends' = Append(ends, Len(text'))
      /\ text' = text \o Bytes(r)
  BY DEF Ask
<1>4. /\ Len(requests') = m + 1 /\ requests'[m + 1] = r
      /\ \A n \in 1 .. m : requests'[n] = requests[n]
  BY <1>1, <1>3
<1>5. /\ ends'[m + 1] = Len(text')
      /\ \A n \in 1 .. m : ends'[n] = ends[n]
  BY <1>1, <1>2, <1>3
<1>6. ASSUME NEW n \in 1 .. m + 1 PROVE Start(n)' = Start(n)
  <2>1. CASE n = 1
    BY <2>1 DEF Start
  <2>2. CASE n # 1
    <3>1. n - 1 \in 1 .. m
      BY <1>1, <2>2
    <3> QED
      BY <1>5, <2>2, <3>1 DEF Start
  <2> QED
    BY <2>1, <2>2
<1>7. \A k \in Kinds, p \in Nat :
         /\ Stands(text, k, p) => Stands(text', k, p)
         /\ Stands(Bytes(r), k, p) => Stands(text', k, Len(text) + p)
  BY <1>1, <1>2, <1>3, Join
<1> QED
  BY <1>1, <1>4, <1>5, <1>6, <1>7

(* Where the elements are, in numbers.                                     *)
LEMMA AfterType ==
  ASSUME TypeOK, NEW n \in 1 .. Len(requests)
  PROVE  /\ requests[n] \in Sorts /\ ends[n] \in Nat /\ Start(n) \in Nat
         /\ AfterMethod(n) \in Nat /\ AfterMethod(n) > Start(n)
         /\ AfterUrl(n) \in Nat /\ AfterUrl(n) > AfterMethod(n)
         /\ AfterVersion(n) \in Nat /\ AfterVersion(n) > AfterUrl(n)
         /\ AfterLine(n) \in Nat /\ AfterLine(n) > AfterVersion(n)
<1>1. /\ requests \in Seq(Sorts) /\ ends \in Seq(Nat)
      /\ Len(ends) = Len(requests) /\ Len(requests) \in Nat
  BY DEF TypeOK
<1>2. requests[n] \in Sorts /\ ends[n] \in Nat
  BY <1>1
<1>3. Start(n) \in Nat
  <2>1. CASE n = 1
    BY <2>1 DEF Start
  <2>2. CASE n # 1
    <3>1. n - 1 \in 1 .. Len(ends)
      BY <1>1, <2>2
    <3> QED
      BY <1>1, <2>2, <3>1 DEF Start
  <2> QED
    BY <2>1, <2>2
<1> DEFINE sm == Size[MethodOf(requests[n])]
           su == Size["url"]
           sv == Size["version"]
           sl == Size[LineOf(requests[n])]
<1>4. /\ sm \in Nat /\ sm > 0 /\ su \in Nat /\ su > 0
      /\ sv \in Nat /\ sv > 0 /\ sl \in Nat /\ sl > 0
  BY SizeType, KindsType
<1>5. /\ AfterMethod(n) = Start(n) + sm /\ AfterUrl(n) = AfterMethod(n) + su
      /\ AfterVersion(n) = AfterUrl(n) + sv
      /\ AfterLine(n) = AfterVersion(n) + sl
  BY DEF AfterMethod, AfterUrl, AfterVersion, AfterLine
<1> HIDE DEF sm, su, sv, sl
<1>6. AfterMethod(n) \in Nat /\ AfterMethod(n) > Start(n)
  BY <1>3, <1>4, <1>5
<1>7. AfterUrl(n) \in Nat /\ AfterUrl(n) > AfterMethod(n)
  BY <1>4, <1>5, <1>6
<1>8. AfterVersion(n) \in Nat /\ AfterVersion(n) > AfterUrl(n)
  BY <1>4, <1>5, <1>7
<1>9. AfterLine(n) \in Nat /\ AfterLine(n) > AfterVersion(n)
  BY <1>4, <1>5, <1>8
<1> QED
  BY <1>2, <1>3, <1>6, <1>7, <1>8, <1>9

LEMMA LaidStep == TypeOK /\ Laid /\ [Next]_vars => Laid'
<1> SUFFICES ASSUME TypeOK, Laid, [Next]_vars PROVE Laid'
  OBVIOUS
<1>1. ASSUME requests' = requests, text' = text, ends' = ends PROVE Laid'
  <2>1. \A n : /\ Start(n)' = Start(n)
               /\ AfterMethod(n)' = AfterMethod(n) /\ AfterUrl(n)' = AfterUrl(n)
               /\ AfterVersion(n)' = AfterVersion(n)
               /\ AfterLine(n)' = AfterLine(n)
    BY <1>1 DEF Start, AfterMethod, AfterUrl, AfterVersion, AfterLine
  <2> QED
    BY <1>1, <2>1 DEF Laid, LaidOut
<1>2. ASSUME NEW r \in Sorts, Ask(r) PROVE Laid'
  <2>a. Len(requests) \in Nat
    BY DEF TypeOK
  <2>b. PICK m \in Nat : m = Len(requests)
    BY <2>a
  <2>1. /\ Len(requests') = m + 1
        /\ requests'[m + 1] = r /\ ends'[m + 1] = Len(text')
        /\ \A n \in 1 .. m : requests'[n] = requests[n] /\ ends'[n] = ends[n]
        /\ \A n \in 1 .. m + 1 : Start(n)' = Start(n)
    BY <1>2, <2>b, Asked
  <2>2. \A k \in Kinds, p \in Nat :
           /\ Stands(text, k, p) => Stands(text', k, p)
           /\ Stands(Bytes(r), k, p) => Stands(text', k, Len(text) + p)
    BY <1>2, Asked
  <2>3. /\ Len(text) \in Nat /\ Len(text') \in Nat /\ Len(text') > Len(text)
        /\ Len(text') = Len(text) + Len(Bytes(r))
    BY <1>2, Grown
  <2>4. PICK k \in Nat : k = m + 1
    OBVIOUS
  <2>5. Start(k)' = Len(text)
    BY <2>b, <2>1, <2>4 DEF Laid
  <2>6. Start(Len(requests) + 1)' = Len(text')
    <3>1. Len(requests') + 1 # 1 /\ Len(requests') + 1 - 1 = m + 1
      BY <2>1
    <3> QED
      BY <2>1, <3>1 DEF Start
  <2>7. \A n \in 1 .. m :
           /\ AfterMethod(n)' = AfterMethod(n) /\ AfterUrl(n)' = AfterUrl(n)
           /\ AfterVersion(n)' = AfterVersion(n)
           /\ AfterLine(n)' = AfterLine(n)
    <3> TAKE n \in 1 .. m
    <3>1. Start(n)' = Start(n) /\ requests'[n] = requests[n]
      BY <2>1
    <3> QED
      BY <3>1 DEF AfterMethod, AfterUrl, AfterVersion, AfterLine
  <2>8. ASSUME NEW n \in 1 .. m PROVE LaidOut(n)'
    <3>1. LaidOut(n)
      BY <2>b DEF Laid
    <3>2. /\ requests'[n] = requests[n] /\ ends'[n] = ends[n]
          /\ Start(n)' = Start(n)
          /\ AfterMethod(n)' = AfterMethod(n) /\ AfterUrl(n)' = AfterUrl(n)
          /\ AfterVersion(n)' = AfterVersion(n)
          /\ AfterLine(n)' = AfterLine(n)
      BY <2>1, <2>7
    <3>3. /\ Start(n) \in Nat /\ AfterMethod(n) \in Nat /\ AfterUrl(n) \in Nat
          /\ AfterVersion(n) \in Nat /\ AfterLine(n) \in Nat /\ ends[n] \in Nat
      BY <2>b, AfterType
    <3>4. ends[n] <= Len(text')
      BY <2>3, <3>1, <3>3 DEF LaidOut
    <3> QED
      BY <2>2, <3>1, <3>2, <3>3, <3>4, KindsType DEF LaidOut
  <2>9. LaidOut(k)'
    <3> DEFINE w == Bytes(r)
               z == Len(text)
               a == Size[MethodOf(r)]
               b == a + Size["url"]
               c == b + Size["version"]
               d == c + Size[LineOf(r)]
    <3>1. /\ Len(w) > 0
          /\ r \in BadMethods => Stands(w, Wrong(r), 0)
          /\ r \notin BadMethods => Stands(w, MethodOf(r), 0)
          /\ r \in BadUrls => Stands(w, Wrong(r), a)
          /\ r \notin BadMethods \cup BadUrls => Stands(w, "url", a)
          /\ r \in BadVersions => Stands(w, Wrong(r), b)
          /\ r \notin Bad =>
                /\ Stands(w, "version", b) /\ Stands(w, LineOf(r), c)
                /\ Stands(w, "blank", d) /\ Len(w) = d + Size["blank"]
      BY Shape
    <3>a. /\ Size[MethodOf(r)] \in Nat /\ Size["url"] \in Nat
          /\ Size["version"] \in Nat /\ Size[LineOf(r)] \in Nat
          /\ Size["blank"] \in Nat
      BY SizeType, KindsType
    <3>2. a \in Nat /\ b \in Nat /\ c \in Nat /\ d \in Nat /\ 0 \in Nat
      BY <3>a
    <3>b. requests'[k] = r
      BY <2>1, <2>4
    <3>3. Start(k)' = z + 0
      BY <2>3, <2>5
    <3>4. AfterMethod(k)' = z + a
      BY <2>5, <3>b DEF AfterMethod
    <3>5. AfterUrl(k)' = z + b
      BY <2>3, <3>a, <3>4 DEF AfterUrl
    <3>6. AfterVersion(k)' = z + c
      BY <2>3, <3>a, <3>5 DEF AfterVersion
    <3>7. AfterLine(k)' = z + d
      BY <2>3, <3>a, <3>b, <3>6 DEF AfterLine
    <3>8. Start(k)' < ends'[k] /\ ends'[k] <= Len(text')
      BY <2>1, <2>3, <2>4, <2>5
    <3>9. r \notin Bad => ends'[k] = z + d + Size["blank"]
      <4>1. ends'[k] = z + Len(w)
        BY <2>1, <2>3, <2>4
      <4>2. r \notin Bad => Len(w) = d + Size["blank"]
        BY <3>1
      <4>3. z \in Nat /\ d \in Nat /\ Size["blank"] \in Nat
        BY <2>3, <3>2, <3>a
      <4> HIDE DEF w, z, d
      <4> QED
        BY <4>1, <4>2, <4>3
    <3> HIDE DEF w, z, a, b, c, d
    <3>10. \A K \in Kinds, p \in Nat : Stands(w, K, p) => Stands(text', K, z + p)
      BY <2>2 DEF w, z
    <3>11. /\ Wrong(r) \in Kinds /\ "url" \in Kinds /\ "version" \in Kinds
           /\ "blank" \in Kinds /\ MethodOf(r) \in Kinds /\ LineOf(r) \in Kinds
      BY KindsType
    <3>12. /\ r \in BadMethods => Stands(text', Wrong(r), z + 0)
           /\ r \notin BadMethods => Stands(text', MethodOf(r), z + 0)
      BY <3>1, <3>2, <3>10, <3>11
    <3>13. /\ r \in BadUrls => Stands(text', Wrong(r), z + a)
           /\ r \notin BadMethods \cup BadUrls => Stands(text', "url", z + a)
      BY <3>1, <3>2, <3>10, <3>11
    <3>14. r \in BadVersions => Stands(text', Wrong(r), z + b)
      BY <3>1, <3>2, <3>10, <3>11
    <3>15. r \notin Bad =>
              /\ Stands(text', "version", z + b) /\ Stands(text', LineOf(r), z + c)
              /\ Stands(text', "blank", z + d)
      BY <3>1, <3>2, <3>10, <3>11
    <3>16. r \notin Bad => ends'[k] = AfterLine(k)' + Size["blank"]
      BY <3>7, <3>9
    <3> QED
      BY <3>b, <3>3, <3>4, <3>5, <3>6, <3>7, <3>8, <3>12, <3>13, <3>14, <3>15,
         <3>16 DEF LaidOut
  <2>10. ASSUME NEW n \in 1 .. Len(requests') PROVE LaidOut(n)'
    <3>1. n \in 1 .. m \/ n = k
      BY <2>1, <2>4
    <3> QED
      BY <2>8, <2>9, <3>1
  <2> QED
    BY <2>6, <2>10 DEF Laid
<1>3. CASE \E n \in 1 .. Len(text) : Send(n)
  BY <1>1, <1>3 DEF Send
<1>4. CASE HangUp \/ ServerStep \/ UNCHANGED vars
  <2>1. requests' = requests /\ text' = text /\ ends' = ends
    BY <1>4
       DEF HangUp, ServerStep, vars, clientVars, Serve, RecvBytes, RecvNothing,
           RecvEnd, ParseStep, Shift, Reply, ParseMethod, MethodError,
           LonePError, MethodPause, MethodStuck, ParseUrl, UrlError, UrlPause,
             UrlStuck, VersionWaits, ParseVersion,
           VersionError, VersionPause, VersionOverrun, ParseLine, ParseBlank,
           HeaderPause, ParseMangled, Consume, Pause, Reject
  <2> QED
    BY <1>1, <2>1
<1> QED
  BY <1>2, <1>3, <1>4 DEF Next

-----------------------------------------------------------------------------
(* Where the parser stands.                                                *)

(* What has been sent stays, and only a reply is a reply.                  *)
LEMMA Later ==
  ASSUME TypeOK, [Next]_vars
  PROVE  /\ Len(requests) \in Nat /\ Len(requests') \in Nat
         /\ Len(requests') >= Len(requests)
         /\ \A n \in 1 .. Len(requests) :
               /\ requests'[n] = requests[n] /\ ends'[n] = ends[n]
               /\ AfterMethod(n)' = AfterMethod(n) /\ AfterUrl(n)' = AfterUrl(n)
               /\ AfterVersion(n)' = AfterVersion(n)
               /\ AfterLine(n)' = AfterLine(n)
         /\ \A n \in 1 .. Len(requests) + 1 : Start(n)' = Start(n)
         /\ sent \in Nat /\ sent' \in Nat /\ sent' >= sent
         /\ answers' = answers \/ Reply
<1> USE DEF clientVars
<1>1. Len(requests) \in Nat /\ sent \in Nat
  BY DEF TypeOK
<1>2. ASSUME requests' = requests, ends' = ends, sent' = sent
      PROVE  /\ \A n \in 1 .. Len(requests) :
                   requests'[n] = requests[n] /\ ends'[n] = ends[n]
             /\ \A n \in 1 .. Len(requests) + 1 : Start(n)' = Start(n)
             /\ Len(requests') \in Nat /\ Len(requests') >= Len(requests)
             /\ sent' \in Nat /\ sent' >= sent
  BY <1>1, <1>2 DEF Start
<1>3. /\ \A n \in 1 .. Len(requests) :
            requests'[n] = requests[n] /\ ends'[n] = ends[n]
      /\ \A n \in 1 .. Len(requests) + 1 : Start(n)' = Start(n)
      /\ Len(requests') \in Nat /\ Len(requests') >= Len(requests)
      /\ sent' \in Nat /\ sent' >= sent
      /\ answers' = answers \/ Reply
  <2>1. ASSUME NEW r \in Sorts, Ask(r)
        PROVE  /\ \A n \in 1 .. Len(requests) :
                   requests'[n] = requests[n] /\ ends'[n] = ends[n]
               /\ \A n \in 1 .. Len(requests) + 1 : Start(n)' = Start(n)
               /\ Len(requests') \in Nat /\ Len(requests') >= Len(requests)
               /\ sent' = sent /\ answers' = answers
    <3>1. Len(requests') = Len(requests) + 1
      BY <2>1, Asked
    <3>2. Len(requests') \in Nat /\ Len(requests') >= Len(requests)
      BY <1>1, <3>1
    <3>3. sent' = sent /\ answers' = answers
      BY <2>1 DEF Ask
    <3> QED
      BY <2>1, <3>2, <3>3, Asked
  <2>2. ASSUME NEW n \in 1 .. Len(text), Send(n)
        PROVE  /\ requests' = requests /\ ends' = ends /\ answers' = answers
               /\ sent' \in Nat /\ sent' >= sent
    <3>1. n \in Nat /\ sent' = sent + n
      BY <2>2 DEF Send, TypeOK
    <3> QED
      BY <1>1, <2>2, <3>1 DEF Send
  <2>3. CASE ~Reply /\ (HangUp \/ ServerStep \/ UNCHANGED vars)
    <3>1. /\ requests' = requests /\ ends' = ends /\ sent' = sent
          /\ answers' = answers
      BY <2>3
         DEF HangUp, ServerStep, vars, Serve, RecvBytes, RecvNothing,
             RecvEnd, ParseStep, Shift, ParseMethod, MethodError,
             LonePError, MethodPause, MethodStuck, ParseUrl, UrlError, UrlPause,
             UrlStuck, VersionWaits, ParseVersion,
             VersionError, VersionPause, VersionOverrun, ParseLine, ParseBlank,
             HeaderPause, ParseMangled, Consume, Pause, Reject
    <3> QED
      BY <1>2, <3>1
  <2>4. CASE Reply
    BY <1>2, <2>4 DEF Reply
  <2>5. CASE \E n \in 1 .. Len(text) : Send(n)
    BY <1>1, <2>2, <2>5 DEF Start
  <2> QED
    BY <1>1, <2>1, <2>3, <2>4, <2>5 DEF Next
<1>4. ASSUME NEW n \in 1 .. Len(requests)
      PROVE  /\ AfterMethod(n)' = AfterMethod(n) /\ AfterUrl(n)' = AfterUrl(n)
             /\ AfterVersion(n)' = AfterVersion(n)
             /\ AfterLine(n)' = AfterLine(n)
  <2>1. n \in 1 .. Len(requests) + 1
    BY <1>1
  <2>2. Start(n)' = Start(n) /\ requests'[n] = requests[n]
    BY <1>3, <2>1
  <2> QED
    BY <2>2 DEF AfterMethod, AfterUrl, AfterVersion, AfterLine
<1> QED
  BY <1>1, <1>3, <1>4

(* What the parser sees is the next bytes of the stream.                   *)
LEMMA Seen ==
  ASSUME TypeOK, Flow, Serving, pc = "parse"
  PROVE  /\ \A i \in 1 .. Len(Rest) : Rest[i] = taken + i
         /\ Len(Rest) \in Nat /\ DOMAIN Rest = 1 .. Len(Rest)
         /\ taken \in Nat /\ taken + Len(Rest) <= sent
         /\ taken = Len(text) => Len(Rest) = 0
<1>1. Held = Rest
  BY DEF Held
<1>2. /\ Len(Rest) \in Nat /\ DOMAIN Rest = 1 .. Len(Rest)
      /\ Len(wire) \in Nat /\ taken \in Nat /\ Len(text) \in Nat /\ sent \in Nat
  BY Typed
<1>3. /\ taken + Len(Rest) + Len(wire) = sent
      /\ \A i \in 1 .. Len(Rest) : Rest[i] = taken + i
  BY <1>1 DEF Flow
<1>4. sent <= Len(text)
  BY <1>2 DEF TypeOK
<1>5. taken + Len(Rest) <= sent
  BY <1>2, <1>3
<1>6. taken = Len(text) => Len(Rest) = 0
  BY <1>2, <1>4, <1>5
<1> QED
  BY <1>2, <1>3, <1>5, <1>6

(* An element that stands at the parser's place is recognised, and none    *)
(* that does not is taken for it, unless there is nothing to see.          *)
LEMMA Sees ==
  ASSUME TypeOK, Flow, Serving, pc = "parse",
         NEW k \in Kinds, Stands(text, k, taken)
  PROVE  /\ Agrees(k)
         /\ \A j \in Kinds : j # k /\ Len(Rest) > 0 => ~Agrees(j)
<1>1. /\ \A i \in 1 .. Len(Rest) : Rest[i] = taken + i
      /\ Len(Rest) \in Nat /\ DOMAIN Rest = 1 .. Len(Rest)
  BY Seen
<1>2. ASSUME NEW i \in DOMAIN Rest, i <= Size[k] PROVE text[Rest[i]] = <<k, i>>
  <2>1. i \in 1 .. Size[k] /\ Rest[i] = taken + i
    BY <1>1, <1>2, SizeType
  <2> QED
    BY <2>1 DEF Stands
<1>3. Agrees(k)
  BY <1>2 DEF Agrees
<1>4. ASSUME NEW j \in Kinds, j # k, Len(Rest) > 0 PROVE ~Agrees(j)
  <2>1. 1 \in DOMAIN Rest /\ 1 <= Size[k] /\ 1 <= Size[j]
    BY <1>1, <1>4, SizeType
  <2>2. text[Rest[1]] = <<k, 1>>
    BY <1>2, <2>1
  <2>3. <<k, 1>> # <<j, 1>>
    BY <1>4
  <2> QED
    BY <2>1, <2>2, <2>3 DEF Agrees
<1> QED
  BY <1>3, <1>4

(* In front of the blank behind a URL there is no NUL.                     *)
LEMMA NoNul ==
  ASSUME TypeOK, Flow, Serving, pc = "parse", Stands(text, "url", taken)
  PROVE  ~HasNul
<1> SUFFICES ASSUME HasNul PROVE FALSE
  OBVIOUS
<1>1. /\ \A i \in 1 .. Len(Rest) : Rest[i] = taken + i
      /\ Len(Rest) \in Nat /\ DOMAIN Rest = 1 .. Len(Rest)
  BY Seen
<1>2. PICK i \in DOMAIN Rest : /\ text[Rest[i]] = <<"nul", 1>>
                              /\ \A j \in 1 .. i - 1 : text[Rest[j]] \notin Blanks
  BY DEF HasNul
<1>3. \A j \in 1 .. Size["url"] : text[taken + j] = <<"url", j>>
  BY DEF Stands
<1>4. PICK b \in Nat : b = Size["url"] /\ b > 0
  BY SizeType, KindsType
<1>5. CASE i <= b
  <2>1. text[Rest[i]] = <<"url", i>>
    BY <1>1, <1>3, <1>4, <1>5
  <2> QED
    BY <1>2, <2>1
<1>6. CASE i > b
  <2>1. b \in 1 .. i - 1 /\ b \in 1 .. Len(Rest)
    BY <1>1, <1>4, <1>6
  <2>2. text[Rest[b]] = <<"url", b>>
    BY <1>1, <1>3, <1>4, <2>1
  <2>3. <<"url", b>> \in Blanks
    BY <1>4 DEF Blanks
  <2> QED
    BY <1>2, <2>1, <2>2, <2>3
<1> QED
  BY <1>1, <1>4, <1>5, <1>6

LEMMA WhereKept ==
  ASSUME TypeOK, Where, [Next]_vars, Serving, off <= Len(rbuf),
         answers' = answers, status' = status, method' = method, taken' = taken
  PROVE  Where'
<1>1. Len(answers) \in Nat /\ Len(requests) \in Nat
  BY DEF TypeOK
<1>2. PICK n \in Nat : n = Len(answers) + 1
  BY <1>1
<1>3. At(n)
  BY <1>2 DEF Where
<1>4. /\ Len(requests') \in Nat /\ Len(requests') >= Len(requests)
      /\ \A k \in 1 .. Len(requests) :
               /\ requests'[k] = requests[k] /\ ends'[k] = ends[k]
               /\ AfterMethod(k)' = AfterMethod(k) /\ AfterUrl(k)' = AfterUrl(k)
               /\ AfterVersion(k)' = AfterVersion(k)
               /\ AfterLine(k)' = AfterLine(k)
      /\ \A k \in 1 .. Len(requests) + 1 : Start(k)' = Start(k)
  BY Later
<1>5. n <= Len(requests') + 1 /\ Start(n)' = Start(n)
  <2>1. n \in 1 .. Len(requests) + 1
    BY <1>1, <1>2, <1>3 DEF At
  <2> QED
    BY <1>1, <1>4, <2>1
<1>6. CASE n <= Len(requests)
  <2>1. n \in 1 .. Len(requests) /\ n <= Len(requests')
    BY <1>1, <1>2, <1>4, <1>6
  <2>2. /\ requests'[n] = requests[n] /\ ends'[n] = ends[n]
        /\ AfterMethod(n)' = AfterMethod(n) /\ AfterUrl(n)' = AfterUrl(n)
        /\ AfterVersion(n)' = AfterVersion(n)
        /\ AfterLine(n)' = AfterLine(n)
    BY <1>4, <2>1
  <2>3. At(n)'
    BY <1>3, <1>5, <2>1, <2>2 DEF At
  <2> QED
    BY <1>2, <2>3 DEF Where
<1>7. CASE ~(n <= Len(requests))
  <2>1. status = "method" /\ taken = Start(n)
    <3>1. status = "method"
      BY <1>3, <1>7 DEF At
    <3> QED
      BY <1>3, <3>1 DEF At
  <2>2. At(n)'
    BY <1>5, <2>1 DEF At
  <2> QED
    BY <1>2, <2>2 DEF Where
<1> QED
  BY <1>6, <1>7

(* What stands in front of the parser, for each status: an element that    *)
(* belongs there, or what the client sent in its place; and after the last *)
(* request there is nothing to see.                                        *)
LEMMA Ahead ==
  ASSUME TypeOK, Laid, Flow, Serving, NEW n \in Nat, n >= 1, At(n)
  PROVE  LET r == requests[n] IN
         /\ status = "method" /\ pc = "parse" /\ Len(Rest) > 0 =>
               /\ n <= Len(requests) /\ taken = Start(n)
               /\ r \in BadMethods => Stands(text, Wrong(r), taken)
               /\ r \notin BadMethods => Stands(text, MethodOf(r), taken)
         /\ status = "url" =>
               /\ n <= Len(requests) /\ taken = AfterMethod(n)
               /\ r \in BadUrls => Stands(text, Wrong(r), taken)
               /\ r \notin BadUrls => Stands(text, "url", taken)
         /\ status = "version" =>
               /\ n <= Len(requests) /\ taken = AfterUrl(n)
               /\ r \in BadVersions => Stands(text, Wrong(r), taken)
               /\ r \notin BadVersions => r \notin Bad /\ Stands(text, "version", taken)
         /\ status = "header" =>
               /\ n <= Len(requests) /\ r \notin Bad
               /\ \/ taken = AfterVersion(n) /\ Stands(text, LineOf(r), taken)
                  \/ /\ taken = AfterLine(n) /\ Stands(text, "blank", taken)
                     /\ ends[n] = taken + Size["blank"]
<1> DEFINE r == requests[n]
<1>1. Len(requests) \in Nat /\ (status # "method" => n <= Len(requests))
  BY DEF TypeOK, At
<1>2. n <= Len(requests) => LaidOut(n)
  BY <1>1 DEF Laid
<1>3. CASE status = "method" /\ pc = "parse" /\ Len(Rest) > 0
  <2>1. taken = Start(n)
    BY <1>3 DEF At
  <2>2. n <= Len(requests)
    <3>1. SUFFICES ASSUME n = Len(requests) + 1 PROVE FALSE
      BY <1>1 DEF At
    <3>2. taken = Len(text)
      BY <2>1, <3>1 DEF Laid
    <3>3. Len(Rest) = 0
      BY <1>3, <3>2, Seen
    <3> QED
      BY <1>3, <3>3
  <2> QED
    BY <1>2, <1>3, <2>1, <2>2 DEF LaidOut
<1>4. CASE status = "url"
  BY <1>1, <1>2, <1>4 DEF LaidOut, At
<1>5. CASE status = "version"
  BY <1>1, <1>2, <1>5 DEF LaidOut, At, Bad
<1>6. CASE status = "header"
  BY <1>1, <1>2, <1>6 DEF LaidOut, At
<1> QED
  BY <1>3, <1>4, <1>5, <1>6

(* A line never looks like a foreign element.                              *)
LEMMA NoMangling ==
  ASSUME TypeOK, Laid, Flow, Serving, NEW n \in Nat, n >= 1, At(n)
  PROVE  ~ParseMangled
<1> SUFFICES ASSUME ParseMangled PROVE FALSE
  OBVIOUS
<1>1. pc = "parse" /\ status = "header"
  BY DEF ParseMangled, Parsing
<1>2. PICK k \in Lines \cup {"blank"} : Stands(text, k, taken)
  BY <1>1, Ahead, KindsType
<1>3. Agrees(k)
  BY <1>1, <1>2, Sees, KindsType
<1> QED
  BY <1>3 DEF ParseMangled

LEMMA WhereStep ==
  TypeOK /\ Control /\ Laid /\ Flow /\ Where /\ [Next]_vars => Where'
<1> SUFFICES ASSUME TypeOK, Control, Laid, Flow, Where, [Next]_vars, Serving',
                    off' <= Len(rbuf')
             PROVE  Where'
  BY DEF Where
<1> USE DEF clientVars
<1>0. Serving /\ Sound /\ pc' \notin {"closed", "crashed"} /\ status' # "error"
  BY SoundBefore DEF Serving
<1>a. Len(answers) \in Nat /\ Len(requests) \in Nat /\ Len(rbuf) \in Nat
      /\ taken \in Nat /\ off \in Nat
  BY DEF TypeOK
<1>1. ASSUME NEW r \in Sorts, Ask(r) PROVE Where'
  BY <1>0, <1>1, WhereKept DEF Ask
<1>2. ASSUME NEW n \in 1 .. Len(text), Send(n) PROVE Where'
  BY <1>0, <1>2, WhereKept DEF Send
<1>3. CASE HangUp \/ UNCHANGED vars
  BY <1>0, <1>3, WhereKept DEF HangUp, vars
<1>4. CASE Serve \/ RecvBytes \/ RecvNothing
  <2>1. off <= Len(rbuf)
    BY <1>4, <1>a DEF TypeOK, Serve, RecvBytes, RecvNothing
  <2> QED
    BY <1>0, <1>4, <2>1, WhereKept DEF Serve, RecvBytes, RecvNothing
<1>5. CASE RecvEnd
  BY <1>0, <1>5 DEF RecvEnd
<1>6. CASE Shift
  <2>1. off <= Len(rbuf)
    BY <1>0, <1>6, <1>a DEF Shift
  <2> QED
    BY <1>0, <1>6, <2>1, WhereKept DEF Shift
<1>7. CASE ParseStep
  <2>1. pc = "parse" /\ off <= Len(rbuf)
    BY <1>7, ParseKinds DEF Control
  <2>2. PICK n \in Nat : n = Len(answers) + 1 /\ n >= 1
    BY <1>a
  <2>3. At(n)
    BY <1>0, <2>1, <2>2 DEF Where
  <2> DEFINE r == requests[n]
  <2>4. /\ requests' = requests /\ ends' = ends /\ answers' = answers
        /\ Start(n)' = Start(n) /\ AfterMethod(n)' = AfterMethod(n)
        /\ AfterUrl(n)' = AfterUrl(n) /\ AfterVersion(n)' = AfterVersion(n)
        /\ AfterLine(n)' = AfterLine(n)
    <3>1. requests' = requests /\ ends' = ends /\ answers' = answers
      BY <1>7 DEF ParseStep, ParseMethod, MethodError,
             LonePError, MethodPause, MethodStuck, ParseUrl, UrlError, UrlPause,
             UrlStuck, VersionWaits, ParseVersion,
             VersionError, VersionPause, VersionOverrun, ParseLine, ParseBlank,
             HeaderPause, ParseMangled, Consume, Pause, Reject
    <3> QED
      BY <3>1 DEF Start, AfterMethod, AfterUrl, AfterVersion, AfterLine
  <2>5. SUFFICES ASSUME ~Pause, ~Reject PROVE At(n)'
    <3>1. CASE Pause
      BY <1>0, <2>1, <3>1, WhereKept DEF Pause
    <3>2. CASE Reject
      BY <1>0, <3>2 DEF Reject
    <3>3. CASE At(n)'
      BY <2>2, <2>4, <3>3 DEF Where
    <3> QED
      BY <2>5, <3>1, <3>2, <3>3
  <2>6. \A k \in Kinds : Whole(k) => Len(Rest) > 0 /\ Agrees(k)
    BY <1>0, <2>1, Seen, SizeType DEF Whole
  <2>7. \A k \in Kinds, j \in Kinds :
            Stands(text, k, taken) /\ Len(Rest) > 0 /\ Agrees(j) => j = k
    BY <1>0, <2>1, Sees
  <2>8. CASE ParseMethod
    <3>1. PICK m \in Methods :
              /\ Whole(m) /\ status = "method"
              /\ taken' = taken + Size[m] /\ status' = "url" /\ method' = m
      BY <2>8 DEF ParseMethod, Consume, Parsing
    <3>2. Len(Rest) > 0 /\ Agrees(m) /\ m \in Kinds /\ m \notin Foreign
      BY <2>6, <3>1, KindsType
    <3>3. /\ n <= Len(requests) /\ taken = Start(n)
          /\ r \in BadMethods => Stands(text, Wrong(r), taken)
          /\ r \notin BadMethods => Stands(text, MethodOf(r), taken)
      BY <1>0, <2>1, <2>2, <2>3, <3>1, <3>2, Ahead
    <3>4. r \notin BadMethods /\ m = MethodOf(r)
      BY <2>7, <3>2, <3>3, KindsType
    <3>5. taken' = AfterMethod(n)
      BY <3>1, <3>3, <3>4 DEF AfterMethod
    <3> QED
      BY <1>a, <2>4, <3>1, <3>3, <3>4, <3>5 DEF At
  <2>9. CASE ParseUrl
    <3>1. /\ Whole("url") /\ status = "url" /\ method' = method
          /\ taken' = taken + Size["url"] /\ status' = "version"
      BY <2>9 DEF ParseUrl, Consume, Parsing
    <3>2. Len(Rest) > 0 /\ Agrees("url")
      BY <2>6, <3>1, KindsType
    <3>3. /\ n <= Len(requests) /\ taken = AfterMethod(n)
          /\ r \in BadUrls => Stands(text, Wrong(r), taken)
      BY <1>0, <2>1, <2>2, <2>3, <3>1, Ahead
    <3>4. r \notin BadUrls
      BY <2>7, <3>2, <3>3, KindsType
    <3>5. taken' = AfterUrl(n)
      BY <3>1, <3>3 DEF AfterUrl
    <3>6. r \notin BadMethods /\ method = MethodOf(r)
      BY <2>3, <3>1 DEF At
    <3> QED
      BY <1>a, <2>4, <3>1, <3>3, <3>4, <3>5, <3>6 DEF At
  <2>10. CASE ParseVersion
    <3>1. /\ Whole("version") /\ status = "version" /\ method' = method
          /\ taken' = taken + Size["version"] /\ status' = "header"
      BY <2>10 DEF ParseVersion, Consume, Parsing
    <3>2. Len(Rest) > 0 /\ Agrees("version")
      BY <2>6, <3>1, KindsType
    <3>3. /\ n <= Len(requests) /\ taken = AfterUrl(n)
          /\ r \in BadVersions => Stands(text, Wrong(r), taken)
          /\ r \notin BadVersions => r \notin Bad
      BY <1>0, <2>1, <2>2, <2>3, <3>1, Ahead
    <3>4. r \notin Bad
      BY <2>7, <3>2, <3>3, KindsType
    <3>5. taken' = AfterVersion(n)
      BY <3>1, <3>3 DEF AfterVersion
    <3>6. r \notin BadMethods /\ method = MethodOf(r)
      BY <2>3, <3>1 DEF At
    <3> QED
      BY <1>a, <2>4, <3>1, <3>3, <3>4, <3>5, <3>6 DEF At
  <2>11. CASE ParseLine
    <3>1. PICK k \in Lines :
              /\ Whole(k) /\ status = "header" /\ method' = method
              /\ taken' = taken + Size[k] /\ status' = "header"
      BY <2>11 DEF ParseLine, Consume, Parsing
    <3>2. Len(Rest) > 0 /\ Agrees(k) /\ k \in Kinds /\ k # "blank"
      BY <2>6, <3>1, KindsType DEF Lines
    <3>3. /\ n <= Len(requests) /\ r \notin Bad
          /\ \/ taken = AfterVersion(n) /\ Stands(text, LineOf(r), taken)
             \/ Stands(text, "blank", taken)
      BY <1>0, <2>1, <2>2, <2>3, <3>1, Ahead
    <3>4. taken = AfterVersion(n) /\ k = LineOf(r)
      BY <2>7, <3>2, <3>3, KindsType
    <3>5. taken' = AfterLine(n)
      BY <3>1, <3>4 DEF AfterLine
    <3>6. r \notin BadMethods /\ method = MethodOf(r)
      BY <2>3, <3>1 DEF At
    <3> QED
      BY <1>a, <2>4, <3>1, <3>3, <3>5, <3>6 DEF At
  <2>12. CASE ParseBlank
    <3>1. /\ Whole("blank") /\ status = "header" /\ method' = method
          /\ taken' = taken + Size["blank"] /\ status' = "complete"
      BY <2>12 DEF ParseBlank, Parsing
    <3>2. Len(Rest) > 0 /\ Agrees("blank") /\ LineOf(r) # "blank"
      BY <2>6, <3>1, KindsType DEF LineOf
    <3>3. /\ n <= Len(requests) /\ r \notin Bad
          /\ \/ Stands(text, LineOf(r), taken)
             \/ ends[n] = taken + Size["blank"]
      BY <1>0, <2>1, <2>2, <2>3, <3>1, Ahead
    <3>4. taken' = ends[n]
      BY <2>7, <3>1, <3>2, <3>3, KindsType
    <3>5. r \notin BadMethods /\ method = MethodOf(r)
      BY <2>3, <3>1 DEF At
    <3> QED
      BY <1>a, <2>4, <3>1, <3>3, <3>4, <3>5 DEF At
  <2>13. CASE VersionOverrun
    <3>1. Rest = <<>> /\ off' = off + plen /\ rbuf' = rbuf /\ plen \in Nat
      BY <2>13 DEF VersionOverrun, TypeOK
    <3>2. off = Len(rbuf)
      <4>1. Len(Rest) = Len(rbuf) - off
        BY <2>1, Typed
      <4> QED
        BY <1>a, <3>1, <4>1
    <3>3. plen > 0
      BY <1>a, <2>1, <3>2 DEF Control
    <3> QED
      BY <1>a, <3>1, <3>2, <3>3
  <2>14. CASE ParseMangled
    BY <1>0, <2>2, <2>3, <2>14, NoMangling
  <2> QED
    BY <1>7, <2>5, <2>8, <2>9, <2>10, <2>11, <2>12, <2>13, <2>14
       DEF ParseStep, MethodError, LonePError, MethodPause, MethodStuck, UrlError,
           UrlPause, UrlStuck, VersionWaits,
           VersionError, VersionPause, HeaderPause
<1>8. CASE Reply
  <2>1. /\ status = "complete" /\ pc = "reply" /\ off = 0
    <3>1. pc = "reply"
      BY <1>8 DEF Reply
    <3> QED
      BY <1>0, <3>1 DEF Control, Serving
  <2>2. At(Len(answers) + 1)
    BY <1>0, <1>a, <2>1 DEF Where
  <2>3. PICK n \in Nat : n = Len(answers) + 1
    BY <1>a
  <2>4. taken = ends[n] /\ n <= Len(requests)
    BY <2>1, <2>2, <2>3 DEF At
  <2>5. /\ answers' = Append(answers, Verdict) /\ status' = "method"
        /\ taken' = taken /\ ends' = ends /\ requests' = requests
    BY <1>0, <1>8 DEF Reply
  <2>6. Len(answers') = n
    <3>1. answers \in Seq({"200", "400", "405"}) /\ Verdict \in {"200", "400", "405"}
      BY DEF TypeOK, Verdict
    <3> QED
      BY <2>3, <2>5, <3>1
  <2>7. PICK k \in Nat : k = n + 1
    OBVIOUS
  <2>8. Start(k)' = taken'
    <3>1. k # 1 /\ k - 1 = n
      BY <1>a, <2>3, <2>7
    <3> QED
      BY <2>4, <2>5, <3>1 DEF Start
  <2>9. At(k)'
    BY <1>a, <2>4, <2>5, <2>7, <2>8 DEF At
  <2> QED
    BY <2>6, <2>7, <2>9 DEF Where
<1> QED
  BY <1>1, <1>2, <1>3, <1>4, <1>5, <1>6, <1>7, <1>8 DEF Next, ServerStep

-----------------------------------------------------------------------------
(* What comes back.                                                        *)
LEMMA RefusedStep ==
  TypeOK /\ Control /\ Laid /\ Flow /\ Where /\ Refused /\ [Next]_vars => Refused'
<1> SUFFICES ASSUME TypeOK, Control, Laid, Flow, Where, Refused, [Next]_vars,
                    Sound', status' = "error"
             PROVE  Refused'
  BY DEF Refused
<1> USE DEF clientVars
<1>a. Len(answers) \in Nat /\ Len(requests) \in Nat /\ Len(rbuf) \in Nat
  BY DEF TypeOK
<1>b. PICK n \in Nat : n = Len(answers) + 1 /\ n >= 1
  BY <1>a
<1>c. Sound
  BY SoundBefore
<1>1. CASE status = "error"
  <2>1. Deserved(n)
    BY <1>1, <1>b, <1>c DEF Refused
  <2>2. n \in 1 .. Len(requests) /\ n \in 1 .. Len(requests) + 1
    BY <1>a, <1>b, <2>1 DEF Deserved
  <2>3. /\ requests'[n] = requests[n] /\ Start(n)' = Start(n)
        /\ n <= Len(requests') /\ sent' >= sent
        /\ sent \in Nat /\ sent' \in Nat
    <3>1. Len(requests') \in Nat /\ Len(requests') >= Len(requests)
      BY Later
    <3>2. n <= Len(requests')
      BY <1>a, <2>2, <3>1
    <3> QED
      BY <2>2, <3>2, Later
  <2>4. Start(n) \in Nat
    BY <2>2, AfterType
  <2>5. answers' = answers
    BY Later DEF Reply
  <2>6. Start(n)' < sent'
    BY <2>1, <2>3, <2>4 DEF Deserved
  <2>7. Deserved(n)'
    BY <2>1, <2>3, <2>6 DEF Deserved
  <2> QED
    BY <1>b, <2>5, <2>7 DEF Refused
<1>2. CASE status # "error"
  <2>1. ParseStep
    <3>1. ASSUME NEW r \in Sorts, Ask(r) PROVE FALSE
      BY <1>2, <3>1 DEF Ask
    <3>2. ASSUME NEW k \in 1 .. Len(text), Send(k) PROVE FALSE
      BY <1>2, <3>2 DEF Send
    <3> QED
      BY <1>2, <3>1, <3>2
         DEF Next, ServerStep, HangUp, Serve, RecvBytes, RecvNothing, RecvEnd,
             Shift, Reply, vars
  <2>2. pc = "parse" /\ Serving /\ off <= Len(rbuf)
    BY <1>2, <1>c, <2>1, ParseKinds DEF Control, Serving
  <2>3. At(n)
    BY <1>b, <2>2 DEF Where
  <2>4. /\ Len(Rest) \in Nat /\ DOMAIN Rest = 1 .. Len(Rest)
        /\ taken + Len(Rest) <= sent /\ taken \in Nat /\ sent \in Nat
    BY <2>2, Seen, Typed
  <2>5. ASSUME NEW k \in Kinds, ~Agrees(k) PROVE Len(Rest) > 0
    BY <2>4, <2>5 DEF Agrees
  <2>6. \A k \in Kinds : Stands(text, k, taken) => Agrees(k)
    BY <2>2, Sees
  <2> DEFINE r == requests[n]
  <2>7. SUFFICES ASSUME Reject
                 PROVE  /\ n <= Len(requests) /\ r \in Bad
                        /\ taken >= Start(n) /\ Len(Rest) > 0
    <3>1. Reject
      <4>1. ASSUME NEW k \in Nat, NEW next, Consume(k, next),
                   next \in {"url", "version", "header"}
            PROVE  FALSE
        BY <4>1 DEF Consume
      <4>2. Len(Rest) \in Nat
        BY <2>4
      <4>3. ~ParseBlank /\ ~Pause /\ ~VersionOverrun
        BY <1>2 DEF ParseBlank, Pause, VersionOverrun
      <4> QED
        BY <2>1, <4>1, <4>2, <4>3, ParseKinds
    <3>2. /\ requests' = requests /\ ends' = ends /\ answers' = answers
          /\ sent' = sent
      BY <3>1 DEF Reject
    <3>3. n <= Len(requests) /\ r \in Bad /\ taken >= Start(n) /\ Len(Rest) > 0
      BY <2>7, <3>1
    <3>4. n \in 1 .. Len(requests)
      BY <1>a, <1>b, <3>3
    <3>5. Start(n) \in Nat
      BY <3>4, AfterType
    <3>6. Start(n) < sent
      BY <2>4, <3>3, <3>5
    <3>7. Deserved(n)'
      BY <3>2, <3>3, <3>6 DEF Deserved, Start
    <3> QED
      BY <1>b, <3>2, <3>7 DEF Refused
  <2>8. CASE MethodError
    <3>1. status = "method" /\ \A m \in Methods : ~Agrees(m)
      BY <2>8 DEF MethodError, Parsing
    <3>2. Len(Rest) > 0
      BY <2>5, <3>1, KindsType DEF Methods
    <3>3. /\ n <= Len(requests) /\ taken = Start(n)
          /\ r \notin BadMethods => Stands(text, MethodOf(r), taken)
      BY <1>b, <2>2, <2>3, <3>1, <3>2, Ahead
    <3>4. r \in BadMethods
      BY <2>6, <3>1, <3>3, KindsType
    <3>5. n \in 1 .. Len(requests)
      BY <1>a, <1>b, <3>3
    <3>6. Start(n) \in Nat
      BY <3>5, AfterType
    <3>7. taken >= Start(n)
      BY <3>3, <3>6
    <3> QED
      BY <3>2, <3>3, <3>4, <3>7 DEF Bad
  <2>9. CASE LonePError
    BY <2>9 DEF LonePError, Sound, Waits
  <2>10. CASE UrlError
    <3>1. status = "url" /\ (HasNul \/ ~Agrees("url"))
      BY <2>10 DEF UrlError, Parsing
    <3>2. Len(Rest) > 0
      BY <2>4, <2>5, <3>1, KindsType DEF HasNul
    <3>3. /\ n <= Len(requests) /\ taken = AfterMethod(n)
          /\ r \notin BadUrls => Stands(text, "url", taken)
      BY <1>b, <2>2, <2>3, <3>1, Ahead
    <3>4. r \in BadUrls
      BY <2>2, <2>6, <3>1, <3>3, NoNul, KindsType
    <3>5. n \in 1 .. Len(requests)
      BY <1>a, <1>b, <3>3
    <3>6. Start(n) \in Nat /\ AfterMethod(n) \in Nat /\ AfterMethod(n) > Start(n)
      BY <3>5, AfterType
    <3>7. taken >= Start(n)
      BY <3>3, <3>6
    <3> QED
      BY <3>2, <3>3, <3>4, <3>7 DEF Bad
  <2>11. CASE VersionError
    <3>1. status = "version" /\ ~Agrees("version")
      BY <2>11 DEF VersionError, Parsing
    <3>2. Len(Rest) > 0
      BY <2>5, <3>1, KindsType
    <3>3. /\ n <= Len(requests) /\ taken = AfterUrl(n)
          /\ r \notin BadVersions => Stands(text, "version", taken)
      BY <1>b, <2>2, <2>3, <3>1, Ahead
    <3>4. r \in BadVersions
      BY <2>6, <3>1, <3>3, KindsType
    <3>5. n \in 1 .. Len(requests)
      BY <1>a, <1>b, <3>3
    <3>6. /\ Start(n) \in Nat /\ AfterMethod(n) \in Nat /\ AfterMethod(n) > Start(n)
          /\ AfterUrl(n) \in Nat /\ AfterUrl(n) > AfterMethod(n)
      BY <3>5, AfterType
    <3>7. taken >= Start(n)
      BY <3>3, <3>6
    <3> QED
      BY <3>2, <3>3, <3>4, <3>7 DEF Bad
  <2>12. CASE ParseMangled
    BY <1>b, <2>2, <2>3, <2>12, NoMangling
  <2>13. status' = "error" /\ status # "error"
    BY <1>2
  <2> QED
    BY <2>1, <2>8, <2>9, <2>10, <2>11, <2>12, <2>13
       DEF ParseStep, ParseMethod, MethodPause, MethodStuck, ParseUrl, UrlPause,
           UrlStuck, VersionWaits,
           ParseVersion, VersionPause, VersionOverrun, ParseLine, ParseBlank,
           HeaderPause, Consume, Pause
<1> QED
  BY <1>1, <1>2

(* The k-th answer is right, as far as the client has sent and been served. *)
LEMMA AnswersKept ==
  ASSUME TypeOK, Replied, Sound, [Next]_vars, NEW k \in DOMAIN answers
  PROVE  /\ k <= Len(requests') /\ answers[k] = Due(requests'[k])
         /\ IF answers[k] = "400"
            THEN k = Len(answers) /\ pc = "closed" /\ Start(k)' < sent'
            ELSE ends'[k] <= sent'
<1>1. /\ Len(answers) \in Nat /\ Len(answers) <= Len(requests)
      /\ DOMAIN answers = 1 .. Len(answers)
  BY DEF TypeOK, Replied
<1>2. /\ answers[k] = Due(requests[k])
      /\ IF answers[k] = "400"
         THEN k = Len(answers) /\ pc = "closed" /\ Start(k) < sent
         ELSE ends[k] <= sent
  BY DEF Replied, AnswersInOrder
<1>3. Len(requests) \in Nat
  BY DEF TypeOK
<1>4. k \in 1 .. Len(requests) /\ k \in 1 .. Len(requests) + 1
  BY <1>1, <1>3
<1>5. /\ requests'[k] = requests[k] /\ ends'[k] = ends[k] /\ Start(k)' = Start(k)
      /\ sent \in Nat /\ sent' \in Nat /\ sent' >= sent
      /\ Len(requests') \in Nat /\ Len(requests') >= Len(requests)
  BY <1>4, Later
<1>6. Start(k) \in Nat /\ ends[k] \in Nat
  BY <1>4, AfterType
<1>7. k <= Len(requests')
  BY <1>4, <1>5
<1>8. (Start(k) < sent => Start(k)' < sent') /\ (ends[k] <= sent => ends'[k] <= sent')
  BY <1>5, <1>6
<1> QED
  BY <1>2, <1>5, <1>7, <1>8

LEMMA RepliedStep ==
  TypeOK /\ Control /\ Laid /\ Flow /\ Where /\ Refused /\ Replied /\ [Next]_vars
    => Replied'
<1> SUFFICES ASSUME TypeOK, Control, Laid, Flow, Where, Refused, Replied,
                    [Next]_vars, Sound'
             PROVE  Len(answers') <= Len(requests') /\ AnswersInOrder'
  BY DEF Replied
<1> USE DEF clientVars
<1>a. Len(answers) \in Nat /\ Len(requests) \in Nat /\ DOMAIN answers = 1 .. Len(answers)
  BY DEF TypeOK
<1>b. PICK n \in Nat : n = Len(answers) + 1 /\ n >= 1
  BY <1>a
<1>c. Sound /\ Len(answers) <= Len(requests)
  BY SoundBefore DEF Replied
<1>d. Len(requests') \in Nat /\ Len(requests') >= Len(requests)
  BY Later
<1>1. CASE answers' = answers
  <2>1. pc = "closed" => pc' = "closed"
    <3>1. ASSUME NEW r \in Sorts, Ask(r), pc = "closed" PROVE pc' = "closed"
      BY <3>1 DEF Ask
    <3>2. ASSUME NEW k \in 1 .. Len(text), Send(k), pc = "closed"
          PROVE  pc' = "closed"
      BY <3>2 DEF Send
    <3>3. ParseStep => pc = "parse"
      BY ParseKinds
    <3> QED
      BY <3>1, <3>2, <3>3
         DEF Next, ServerStep, HangUp, Serve, RecvBytes, RecvNothing, RecvEnd,
             Shift, Reply, vars
  <2>2. \A k \in DOMAIN answers :
           /\ answers[k] = Due(requests'[k])
           /\ IF answers[k] = "400"
              THEN k = Len(answers) /\ pc = "closed" /\ Start(k)' < sent'
              ELSE ends'[k] <= sent'
    BY <1>c, AnswersKept
  <2>3. \A k \in DOMAIN answers : Due(requests[k])' = Due(requests'[k])
    BY DEF Due
  <2>4. AnswersInOrder'
    BY <1>1, <2>1, <2>2, <2>3 DEF AnswersInOrder
  <2> QED
    BY <1>1, <1>a, <1>c, <1>d, <2>4
<1>2. CASE answers' # answers
  <2>1. /\ Reply /\ pc = "reply" /\ answers' = Append(answers, Verdict)
        /\ pc' = IF status = "error" THEN "closed" ELSE "recv"
        /\ requests' = requests /\ ends' = ends /\ sent' = sent
    BY <1>2, Later DEF Reply
  <2>2. /\ DOMAIN answers' = 1 .. n /\ answers'[n] = Verdict /\ Len(answers') = n
        /\ \A k \in 1 .. Len(answers) : answers'[k] = answers[k]
    <3>1. answers \in Seq({"200", "400", "405"}) /\ Verdict \in {"200", "400", "405"}
      BY DEF TypeOK, Verdict
    <3> QED
      BY <1>a, <1>b, <2>1, <3>1
  <2>3. /\ n <= Len(requests) /\ Verdict = Due(requests[n])
        /\ IF Verdict = "400"
           THEN pc' = "closed" /\ Start(n) < sent
           ELSE ends[n] <= sent
    <3>1. CASE status = "error"
      <4>1. Deserved(n)
        BY <1>b, <1>c, <3>1 DEF Refused
      <4>2. Verdict = "400" /\ pc' = "closed"
        BY <2>1, <3>1 DEF Verdict
      <4> QED
        BY <4>1, <4>2 DEF Deserved, Due, Bad, BadMethods, BadUrls, BadVersions
    <3>2. CASE status = "complete"
      <4>1. Serving /\ off = 0 /\ Len(rbuf) \in Nat
        BY <1>c, <2>1, <3>2 DEF Serving, Control, TypeOK
      <4>2. At(n)
        BY <1>b, <4>1 DEF Where
      <4>3. /\ n <= Len(requests) /\ requests[n] \notin Bad /\ taken = ends[n]
            /\ method = MethodOf(requests[n])
        BY <3>2, <4>2 DEF At
      <4>4. requests[n] \in {"get", "put", "longGet"}
        <5>1. n \in 1 .. Len(requests)
          BY <1>a, <1>b, <4>3
        <5> QED
          BY <4>3, <5>1, AfterType DEF Sorts
      <4>5. Verdict = Due(requests[n]) /\ Verdict # "400"
        BY <3>2, <4>3, <4>4 DEF Verdict, Due, MethodOf
      <4>6. taken <= sent
        <5>1. taken + Len(Held) + Len(wire) = sent
          BY <4>1 DEF Flow
        <5>2. taken \in Nat /\ Len(Held) \in Nat /\ Len(wire) \in Nat
          BY Typed DEF Held
        <5> QED
          BY <5>1, <5>2
      <4> QED
        BY <4>3, <4>5, <4>6
    <3> QED
      BY <2>1, <3>1, <3>2 DEF Control
  <2>4. ASSUME NEW k \in DOMAIN answers'
        PROVE  /\ answers'[k] = Due(requests'[k])
               /\ IF answers'[k] = "400"
                  THEN k = Len(answers') /\ pc' = "closed" /\ Start(k)' < sent'
                  ELSE ends'[k] <= sent'
    <3>1. CASE k = n
      BY <2>1, <2>2, <2>3, <3>1 DEF Start
    <3>2. CASE k # n
      <4>1. k \in DOMAIN answers /\ k \in 1 .. Len(answers)
        BY <1>a, <1>b, <2>2, <3>2
      <4>2. /\ answers[k] = Due(requests'[k])
            /\ IF answers[k] = "400"
               THEN k = Len(answers) /\ pc = "closed" /\ Start(k)' < sent'
               ELSE ends'[k] <= sent'
        BY <1>c, <4>1, AnswersKept
      <4> QED
        BY <2>1, <2>2, <4>1, <4>2
    <3> QED
      BY <3>1, <3>2
  <2>5. \A k \in DOMAIN answers' :
           /\ answers'[k] = Due(requests'[k])
           /\ IF answers'[k] = "400"
              THEN k = Len(answers') /\ pc' = "closed" /\ Start(k)' < sent'
              ELSE ends'[k] <= sent'
    BY <2>4
  <2>6. AnswersInOrder'
    BY <2>5 DEF AnswersInOrder, Due
  <2> QED
    BY <2>1, <2>2, <2>3, <2>6
<1> QED
  BY <1>1, <1>2

-----------------------------------------------------------------------------
LEMMA Inits == Init => IInv
<1> SUFFICES ASSUME Init PROVE IInv
  OBVIOUS
<1>1. TypeOK
  BY TypeInit
<1>2. Control
  BY DEF Init, Control
<1>3. Laid
  BY DEF Init, Laid, Start
<1>4. Flow
  BY DEF Init, Flow, Held
<1>5. Where
  BY DEF Init, Where, At, Start
<1>6. Refused /\ Replied
  BY DEF Init, Refused, Replied, AnswersInOrder
<1> QED
  BY <1>1, <1>2, <1>3, <1>4, <1>5, <1>6 DEF IInv

LEMMA Steps == IInv /\ [Next]_vars => IInv'
  BY TypeStep, ControlStep, LaidStep, FlowStep, WhereStep, RefusedStep,
     RepliedStep DEF IInv

LEMMA Always == Spec => []IInv
  BY Inits, Steps, PTL DEF Spec

(* The parser is where the stream has the element it expects.              *)
LEMMA WhereInStep == IInv => InStep
<1> SUFFICES ASSUME TypeOK, Laid, Flow, Serving, Where, off <= Len(rbuf)
             PROVE  CASE status = "method"   -> taken = Start(Len(answers) + 1)
                      [] status = "header"   ->
                            text[taken + 1] \in
                               { <<k, 1>> : k \in Lines \cup {"blank"} }
                      [] status = "complete" -> taken = ends[Len(answers) + 1]
                      [] OTHER -> text[taken + 1] \in
                               { <<k, 1>> : k \in {status} \cup Foreign }
  BY DEF IInv, InStep
<1>1. Len(answers) \in Nat /\ taken \in Nat
  BY DEF TypeOK
<1>2. PICK n \in Nat : n = Len(answers) + 1 /\ n >= 1
  BY <1>1
<1>3. At(n)
  BY <1>2 DEF Where
<1>4. ASSUME NEW k \in Kinds, Stands(text, k, taken)
      PROVE  text[taken + 1] = <<k, 1>>
  BY <1>4, SizeType DEF Stands
<1>5. CASE status = "method"
  BY <1>2, <1>3, <1>5 DEF At
<1>6. CASE status = "header"
  <2>1. PICK k \in Lines \cup {"blank"} : Stands(text, k, taken)
    BY <1>2, <1>3, <1>6, Ahead, KindsType
  <2>2. text[taken + 1] = <<k, 1>>
    BY <1>4, <2>1, KindsType
  <2> QED
    BY <1>6, <2>2
<1>7. CASE status = "complete"
  BY <1>2, <1>3, <1>7 DEF At
<1>8. CASE status \in {"url", "version"}
  <2>1. \E k \in {status} \cup Foreign : Stands(text, k, taken)
    BY <1>2, <1>3, <1>8, Ahead, KindsType
  <2> QED
    BY <1>4, <1>8, <2>1, KindsType
<1> QED
  BY <1>5, <1>6, <1>7, <1>8 DEF Serving, TypeOK, Statuses

(* data_buffer and rbuf are never filled beyond their sizes, whatever is   *)
(* saved, restored and received, and off is rested outside the parser.     *)
THEOREM TypeSafe == Spec => []TypeOK
  BY Always, PTL DEF IInv

(* However the bytes are cut into packets and wherever recv and the parser *)
(* give up, server_serv_client holds every byte that is sent and not yet   *)
(* consumed exactly once and in order, between rbuf or data_buffer and the *)
(* socket, unless one of the mishaps that mix up the stream has happened.  *)
THEOREM NoByteLost == Spec => []Intact
<1>1. IInv => Intact
  BY FlowIntact DEF IInv
<1> QED
  BY <1>1, Always, PTL

(* parse_status names the element whose first byte comes next, in every    *)
(* call of http_request_parse, however many calls a request takes.         *)
THEOREM StaysInStep == Spec => []InStep
  BY Always, WhereInStep, PTL

(* Every response is the one its request calls for, in the order of the    *)
(* requests; a 400 is the last one, and only for a request that deserves   *)
(* it.                                                                     *)
THEOREM RightAnswers == Spec => []AnswersInOrder
<1>1. IInv => AnswersInOrder
  BY DEF IInv, Replied, AnswersInOrder
<1> QED
  BY <1>1, Always, PTL
=============================================================================
