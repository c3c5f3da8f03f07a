----------------------------- MODULE FramesProofs -----------------------------
(***************************************************************************)
(* Proofs about WireFrames and RTUFrames, for every content.               *)
(*                                                                         *)
(* An ASCII frame is decoded to what it was made of (FrameIsCarried), and  *)
(* its LRC finds every change of one character (ChangeIsFound).            *)
(*                                                                         *)
(* Exclusive or adds the bits of two numbers, and shifting one bit out of  *)
(* a sum shifts it out of the parts.  So an entry of the tables of crc.go  *)
(* is a byte after eight shifts (TableIsRight, every entry of which is     *)
(* looked at), both CRCs of the library come to the same sums, and both    *)
(* RTU encoders make the same frame (EncodersAreOne).  Nothing is lost in a*)
(* shift, so the CRC finds every change of one byte in a frame whose end is*)
(* known (RTUChangeIsFound).                                               *)
(*                                                                         *)
(* The frames are folds of byte strings; induction over one is the choice  *)
(* of a smallest counterexample (Least), and the values of a fold exist by *)
(* the same argument (Recursion).                                          *)
(***************************************************************************)
EXTENDS RTUFrames, WellFoundedInduction, TLAPS

\* Induction over a finite piece of data is a smallest counterexample.
LEMMA Least ==
    ASSUME NEW T, T \subseteq Nat, T # {}
    PROVE  \E x \in T : \A y \in T : x <= y
<1> DEFINE R == OpToRel(<, Nat)
<1>1. IsWellFoundedOn(R, Nat)
  BY NatLessThanWellFounded
<1>2. \A x, y \in Nat : x < y => <<x, y>> \in R
  BY DEF OpToRel
<1> HIDE DEF R
<1>3. PICK x \in T : \A y \in T : ~(<<y, x>> \in R)
  BY <1>1, WFMin
<1>4. ASSUME NEW y \in T PROVE x <= y
  <2>1. x \in Nat /\ y \in Nat /\ ~(<<y, x>> \in R)
    BY <1>3
  <2>2. ~(y < x)
    BY <1>2, <2>1
  <2> QED BY <2>1, <2>2
<1> QED BY <1>4

\* A function defined by recursion over 0..n exists.
Recurses(f, n, c, step) == f = [k \in 0..n |-> IF k = 0 THEN c ELSE step[k][f[k - 1]]]

LEMMA Recursion ==
    ASSUME NEW n \in Nat, NEW S, NEW c \in S, NEW step \in [1..n -> [S -> S]]
    PROVE  \E f \in [0..n -> S] : Recurses(f, n, c, step)
<1> DEFINE Upto(m, f) == /\ f \in [0..m -> S]
                         /\ f[0] = c
                         /\ \A k \in 1..m : f[k] = step[k][f[k - 1]]
           Short == {m \in 0..n : ~\E f : Upto(m, f)}
<1>1. ASSUME Short # {} PROVE FALSE
  <2>1. Short \subseteq Nat
    OBVIOUS
  <2>2. PICK m \in Short : \A j \in Short : m <= j
    BY <1>1, <2>1, Least
  <2>3. m # 0
    <3>1. Upto(0, [k \in 0..0 |-> c])
      OBVIOUS
    <3> QED BY <2>2, <3>1
  <2>4. m \in 1..n /\ m - 1 \in 0..n /\ ~(m <= m - 1)
    BY <2>2, <2>3
  <2>5. PICK f : Upto(m - 1, f)
    BY <2>2, <2>4
  <2> DEFINE h == [k \in 0..m |-> IF k = m THEN step[m][f[m - 1]] ELSE f[k]]
  <2>6. f[m - 1] \in S /\ step[m][f[m - 1]] \in S
    BY <2>4, <2>5
  <2>7. h \in [0..m -> S]
    <3>1. \A k \in 0..m : k # m => k \in 0..(m - 1)
      BY <2>4
    <3> QED BY <2>4, <2>5, <2>6, <3>1
  <2>8. h[0] = c
    BY <2>4, <2>5
  <2>9. ASSUME NEW k \in 1..m PROVE h[k] = step[k][h[k - 1]]
    <3>1. k \in 0..m /\ k - 1 \in 0..m /\ k - 1 # m /\ h[k - 1] = f[k - 1]
      BY <2>4
    <3>2. CASE k = m
      BY <3>1, <3>2
    <3>3. CASE k # m
      <4>1. k \in 1..(m - 1)
        BY <2>4, <3>3
      <4> QED BY <2>5, <3>1, <3>3, <4>1
    <3> QED BY <3>2, <3>3
  <2> HIDE DEF h
  <2>10. Upto(m, h)
    BY <2>7, <2>8, <2>9
  <2> QED BY <2>2, <2>10
<1>2. PICK f : Upto(n, f)
  <2> HIDE DEF Upto
  <2>1. n \in 0..n
    OBVIOUS
  <2> QED BY <1>1, <2>1
<1>3. Recurses(f, n, c, step)
  BY <1>2 DEF Recurses
<1> QED BY <1>2, <1>3

-----------------------------------------------------------------------------
(***************************************************************************)
(* ASCII frames.  The sum that the LRC is the complement of is that of the *)
(* bytes, and shows the change of any one of them.                         *)
(***************************************************************************)
\* The sum that the LRC is the complement of.
SumsUp(h, bs) ==
    /\ h \in [0..Len(bs) -> Byte]
    /\ h[0] = 0
    /\ \A k \in 1..Len(bs) : h[k] = (h[k - 1] + bs[k]) % 256

LEMMA LRCComplements ==
    ASSUME NEW bs \in Seq(Byte)
    PROVE  \E h : SumsUp(h, bs) /\ LRC(bs) = (256 - h[Len(bs)]) % 256
<1> DEFINE n == Len(bs)
           step == [k \in 1..n |-> [s \in Byte |-> (s + bs[k]) % 256]]
           Sums(s) == [k \in 0..n |-> IF k = 0 THEN 0 ELSE (s[k - 1] + bs[k]) % 256]
           f == CHOOSE s : s = Sums(s)
<1>1. n \in Nat /\ 0 \in Byte /\ \A k \in 1..n : bs[k] \in Byte
  <2>1. 0 \in Byte
    BY DEF Byte
  <2> QED BY <2>1
<1>2. step \in [1..n -> [Byte -> Byte]]
  <2>1. \A u, v \in Byte : (u + v) % 256 \in Byte
    BY DEF Byte
  <2> QED BY <1>1, <2>1
<1>3. PICK h \in [0..n -> Byte] :
        h = [k \in 0..n |-> IF k = 0 THEN 0 ELSE step[k][h[k - 1]]]
  <2> HIDE DEF n, step, Sums, f
  <2>1. \E h \in [0..n -> Byte] : Recurses(h, n, 0, step)
    BY <1>1, <1>2, Recursion
  <2> QED BY <2>1 DEF Recurses
<1>4. \A k \in 1..n : k - 1 \in 0..n /\ h[k - 1] \in Byte
  <2> HIDE DEF n, step
  <2>1. \A k \in 1..n : k - 1 \in 0..n
    BY <1>1
  <2> QED BY <1>3, <2>1
<1>5. \A k \in 1..n : step[k][h[k - 1]] = (h[k - 1] + bs[k]) % 256
  <2> HIDE DEF n
  <2> QED BY <1>4
<1>6. h = Sums(h)
  <2> HIDE DEF n, step
  <2>1. \A k \in 0..n : h[k] = Sums(h)[k]
    <3> SUFFICES ASSUME NEW k \in 0..n PROVE h[k] = Sums(h)[k]
      OBVIOUS
    <3>1. CASE k = 0
      BY <1>3, <3>1
    <3>2. CASE k # 0
      <4>1. k \in 1..n
        BY <1>1, <3>2
      <4> QED BY <1>3, <1>5, <3>2, <4>1
    <3> QED BY <3>1, <3>2
  <2> QED BY <1>3, <2>1
<1>7. f = Sums(f)
  <2> HIDE DEF Sums
  <2> QED BY <1>6
<1>8. LRC(bs) = (256 - f[n]) % 256
  BY DEF LRC
<1> HIDE DEF f, step
<1> DEFINE Other == {k \in 0..n : f[k] # h[k]}
<1>9. ASSUME Other # {} PROVE FALSE
  <2>1. Other \subseteq Nat
    BY <1>1
  <2>2. PICK k \in Other : \A j \in Other : k <= j
    BY <1>9, <2>1, Least
  <2>3. k # 0
    BY <1>6, <1>7, <2>2
  <2>4. k - 1 \in 0..n /\ ~(k <= k - 1)
    BY <1>1, <2>2, <2>3
  <2>5. f[k - 1] = h[k - 1]
    BY <2>2, <2>4
  <2> QED BY <1>6, <1>7, <2>2, <2>3, <2>5
<1>10. f[n] = h[n]
  BY <1>1, <1>9
<1>11. h[0] = 0 /\ \A k \in 1..n : h[k] = (h[k - 1] + bs[k]) % 256
  <2> HIDE DEF n
  <2> QED BY <1>1, <1>6
<1>12. SumsUp(h, bs)
  BY <1>3, <1>11 DEF SumsUp
<1> QED BY <1>8, <1>10, <1>12

LEMMA AddedByteShows ==
    /\ \A u, v, w \in Byte : (u + w) % 256 = (v + w) % 256 => u = v
    /\ \A u, v, w \in Byte : (w + u) % 256 = (w + v) % 256 => u = v
    /\ \A u, v \in Byte : (256 - u) % 256 = (256 - v) % 256 => u = v
<1>1. \A u, v \in Byte : (256 - u) % 256 = (256 - v) % 256 => u = v
  <2> SUFFICES ASSUME NEW u \in Byte, NEW v \in Byte, (256 - u) % 256 = (256 - v) % 256
               PROVE  u = v
    OBVIOUS
  <2>1. \A w \in Byte : (256 - w) % 256 = IF w = 0 THEN 0 ELSE 256 - w
    BY DEF Byte
  <2>2. (IF u = 0 THEN 0 ELSE 256 - u) = (IF v = 0 THEN 0 ELSE 256 - v)
    BY <2>1
  <2>3. u \in 0..255 /\ v \in 0..255
    BY DEF Byte
  <2> QED BY <2>2, <2>3
<1>2. \A u, w \in Byte : (u + w) % 256 = IF u + w < 256 THEN u + w ELSE u + w - 256
  BY DEF Byte
<1>3. ASSUME NEW u \in Byte, NEW v \in Byte, NEW w \in Byte, (u + w) % 256 = (v + w) % 256
      PROVE  u = v
  <2>1. (IF u + w < 256 THEN u + w ELSE u + w - 256) = (IF v + w < 256 THEN v + w ELSE v + w - 256)
    BY <1>2, <1>3
  <2> QED BY <2>1 DEF Byte
<1>4. ASSUME NEW u \in Byte, NEW v \in Byte, NEW w \in Byte, (w + u) % 256 = (w + v) % 256
      PROVE  u = v
  <2>1. u + w = w + u /\ v + w = w + v
    BY DEF Byte
  <2>2. (u + w) % 256 = (v + w) % 256
    BY <1>4, <2>1
  <2> QED BY <1>3, <2>2
<1> QED BY <1>1, <1>3, <1>4

\* Byte strings of one length that differ in at most one byte, and whose last
\* byte is the LRC of the others, are the same.
LEMMA LRCFindsChange ==
    ASSUME NEW n \in Nat \ {0}, NEW p \in 1..n,
           NEW x \in [1..n -> Byte], NEW y \in [1..n -> Byte],
           \A k \in 1..n : k # p => x[k] = y[k],
           LRC(SubSeq(x, 1, n - 1)) = x[n], LRC(SubSeq(y, 1, n - 1)) = y[n]
    PROVE  x[p] = y[p]
<1> DEFINE m == n - 1
           s == SubSeq(x, 1, m)
           t == SubSeq(y, 1, m)
<1>1. m \in Nat /\ n = m + 1
  OBVIOUS
<1>2. x \in Seq(Byte) /\ y \in Seq(Byte) /\ Len(x) = n /\ Len(y) = n
  OBVIOUS
<1>3. \A k \in 1..m : s[k] = x[k] /\ t[k] = y[k]
  BY <1>1, <1>2
<1>4. s \in Seq(Byte) /\ t \in Seq(Byte) /\ Len(s) = m /\ Len(t) = m
  BY <1>1, <1>2
<1> HIDE DEF s, t
<1>5. PICK h : SumsUp(h, s) /\ LRC(s) = (256 - h[m]) % 256
  BY <1>4, LRCComplements
<1>6. PICK e : SumsUp(e, t) /\ LRC(t) = (256 - e[m]) % 256
  BY <1>4, LRCComplements
<1>7. /\ h \in [0..m -> Byte] /\ h[0] = 0
      /\ \A k \in 1..m : h[k] = (h[k - 1] + x[k]) % 256
  BY <1>3, <1>4, <1>5 DEF SumsUp
<1>8. /\ e \in [0..m -> Byte] /\ e[0] = 0
      /\ \A k \in 1..m : e[k] = (e[k - 1] + y[k]) % 256
  BY <1>3, <1>4, <1>6 DEF SumsUp
<1>9. LRC(s) = x[n] /\ LRC(t) = y[n]
  BY DEF s, t
<1> HIDE DEF m
<1>10. CASE p = n
  <2>1. \A k \in 1..m : s[k] = t[k]
    <3>1. \A k \in 1..m : k \in 1..n /\ k # n
      BY <1>1
    <3> QED BY <1>3, <1>10, <3>1
  <2>2. s = t
    BY <1>4, <2>1
  <2>3. x[n] = y[n]
    BY <1>9, <2>2
  <2> QED BY <1>10, <2>3
<1>11. ASSUME p # n, x[p] # y[p] PROVE FALSE
  <2> DEFINE Early == {k \in 0..(p - 1) : h[k] # e[k]}
             Late == {k \in p..m : h[k] = e[k]}
  <2>1. p \in 1..m /\ m \in p..m /\ p - 1 \in 0..(p - 1) /\ \A k \in 1..m : k \in 1..n
    BY <1>1, <1>11
  <2>2. ASSUME Early # {} PROVE FALSE
    <3>1. Early \subseteq Nat
      BY <2>1
    <3>2. PICK k \in Early : \A j \in Early : k <= j
      BY <2>2, <3>1, Least
    <3>3. k # 0
      BY <1>7, <1>8, <3>2
    <3>4. k - 1 \in 0..(p - 1) /\ ~(k <= k - 1) /\ k \in 1..m /\ k # p
      BY <2>1, <3>2, <3>3
    <3>5. h[k - 1] = e[k - 1]
      BY <3>2, <3>4
    <3>6. x[k] = y[k]
      BY <2>1, <3>4
    <3> QED BY <1>7, <1>8, <3>2, <3>4, <3>5, <3>6
  <2>3. ASSUME Late # {} PROVE FALSE
    <3>1. Late \subseteq Nat
      BY <2>1
    <3>2. PICK k \in Late : \A j \in Late : k <= j
      BY <2>3, <3>1, Least
    <3>3. /\ k \in 1..m /\ k - 1 \in 0..m /\ ~(k <= k - 1)
          /\ k = p \/ k - 1 \in p..m
      BY <2>1, <3>2
    <3>4. /\ h[k - 1] \in Byte /\ e[k - 1] \in Byte
          /\ x[k] \in Byte /\ y[k] \in Byte
      BY <1>7, <1>8, <2>1, <3>3
    <3>5. (h[k - 1] + x[k]) % 256 = (e[k - 1] + y[k]) % 256
      BY <1>7, <1>8, <3>2, <3>3
    <3>6. CASE k = p
      <4>1. h[p - 1] = e[p - 1]
        BY <2>1, <2>2
      <4> QED BY <1>11, <3>4, <3>5, <3>6, <4>1, AddedByteShows
    <3>7. CASE k # p
      <4>1. x[k] = y[k]
        BY <2>1, <3>3, <3>7
      <4>2. h[k - 1] # e[k - 1]
        BY <3>2, <3>3, <3>7
      <4> QED BY <3>4, <3>5, <4>1, <4>2, AddedByteShows
    <3> QED BY <3>6, <3>7
  <2>4. h[m] # e[m]
    BY <2>1, <2>3
  <2>5. h[m] \in Byte /\ e[m] \in Byte
    BY <1>1, <1>7, <1>8
  <2>6. x[n] = y[n]
    <3>1. n \in 1..n
      OBVIOUS
    <3> QED BY <1>11, <3>1
  <2> QED BY <1>5, <1>6, <1>9, <2>4, <2>5, <2>6, AddedByteShows
<1> QED BY <1>10, <1>11

Contents == [slave : Byte, code : Byte, data : Seq(Byte)]

LEMMA ContentOfBody ==
    ASSUME NEW a \in Contents
    PROVE  /\ Body(a) \in Seq(Byte) /\ Len(Body(a)) >= 2
           /\ Content(Body(a)) = a
<1> DEFINE d == a.data
           b == Body(a)
<1>1. a.slave \in Byte /\ a.code \in Byte /\ d \in Seq(Byte) /\ Len(d) \in Nat
  BY DEF Contents
<1>2. b = <<a.slave, a.code>> \o d
  BY DEF Body
<1> HIDE DEF b, d
<1>3. <<a.slave, a.code>> \in Seq(Byte) /\ Len(<<a.slave, a.code>>) = 2
  BY <1>1
<1>4. b \in Seq(Byte) /\ Len(b) = 2 + Len(d)
  BY <1>1, <1>2, <1>3
<1>5. b[1] = a.slave /\ b[2] = a.code
  BY <1>1, <1>2, <1>3
<1>6. SubSeq(b, 3, Len(b)) = d
  <2>1. \A k \in 1..Len(d) : b[k + 2] = d[k]
    BY <1>1, <1>2, <1>3
  <2> DEFINE t == SubSeq(b, 3, Len(b))
  <2>2. t \in Seq(Byte) /\ Len(t) = Len(d)
    BY <1>1, <1>4
  <2>3. \A k \in 1..Len(d) : t[k] = d[k]
    BY <1>1, <1>4, <2>1
  <2> HIDE DEF t
  <2>4. t = d
    BY <1>1, <2>2, <2>3
  <2> QED BY <2>4 DEF t
<1>7. Content(b) = [slave |-> a.slave, code |-> a.code, data |-> d]
  BY <1>5, <1>6 DEF Content
<1>8. a = [slave |-> a.slave, code |-> a.code, data |-> d]
  BY DEF Contents, d
<1> QED BY <1>1, <1>4, <1>7, <1>8 DEF b

LEMMA LRCIsByte == ASSUME NEW bs \in Seq(Byte) PROVE LRC(bs) \in Byte
<1>1. PICK h : SumsUp(h, bs) /\ LRC(bs) = (256 - h[Len(bs)]) % 256
  BY LRCComplements
<1>2. h[Len(bs)] \in Byte
  BY <1>1 DEF SumsUp
<1>3. \A u \in Byte : (256 - u) % 256 \in Byte
  BY DEF Byte
<1> QED BY <1>1, <1>2, <1>3

\* What is sent after the colon, as bytes.
Checked(a) == Body(a) \o <<LRC(Body(a))>>

LEMMA CheckedFacts ==
    ASSUME NEW a \in Contents
    PROVE  LET n == Len(Checked(a)) IN
           /\ n \in Nat /\ n >= 3
           /\ Checked(a) \in [1..n -> Byte]
           /\ SubSeq(Checked(a), 1, n - 1) = Body(a)
           /\ LRC(Body(a)) = Checked(a)[n]
<1> DEFINE b == Body(a)
           l == LRC(b)
           x == Checked(a)
<1>1. b \in Seq(Byte) /\ Len(b) \in Nat /\ Len(b) >= 2 /\ l \in Byte
  BY ContentOfBody, LRCIsByte
<1>2. x = b \o <<l>>
  BY DEF Checked
<1> HIDE DEF b, l, x
<1>3. x \in Seq(Byte) /\ Len(x) = Len(b) + 1 /\ x[Len(x)] = l
  BY <1>1, <1>2
<1>4. \A k \in 1..Len(b) : x[k] = b[k]
  BY <1>1, <1>2
<1>5. SubSeq(x, 1, Len(x) - 1) = b
  <2>1. Len(x) - 1 = Len(b)
    BY <1>1, <1>3
  <2> DEFINE t == SubSeq(x, 1, Len(b))
  <2>2. t \in Seq(Byte) /\ Len(t) = Len(b)
    BY <1>1, <1>3
  <2>3. \A k \in 1..Len(b) : t[k] = b[k]
    BY <1>1, <1>3, <1>4
  <2> HIDE DEF t
  <2>4. t = b
    BY <1>1, <2>2, <2>3
  <2> QED BY <2>1, <2>4 DEF t
<1>6. x \in [1..Len(x) -> Byte] /\ Len(x) \in Nat /\ Len(x) >= 3
  BY <1>1, <1>3
<1> QED BY <1>3, <1>5, <1>6 DEF b, l, x

\* The characters of a frame.
LEMMA FrameOf ==
    ASSUME NEW a \in Contents
    PROVE  LET n == Len(Checked(a))
               f == ASCIIEncode(a)
           IN /\ f \in Seq(Nat) /\ Len(f) = 2 * n + 3
              /\ f[1] = Colon /\ f[2 * n + 2] = CR /\ f[2 * n + 3] = LF
              /\ \A i \in 1..n : /\ f[2 * i] = Checked(a)[i] \div 16
                                 /\ f[2 * i + 1] = Checked(a)[i] % 16
<1> DEFINE x == Checked(a)
           n == Len(x)
           w == writeHex(x)
           f == ASCIIEncode(a)
<1>1. n \in Nat /\ x \in [1..n -> Byte]
  BY CheckedFacts
<1>2. f = <<Colon>> \o w \o <<CR, LF>>
  BY DEF ASCIIEncode, Checked
<1>3. w = [k \in 1..(2 * n) |->
              IF k % 2 = 1 THEN x[(k + 1) \div 2] \div 16 ELSE x[k \div 2] % 16]
  BY DEF writeHex
<1> HIDE DEF w, f, n, x
<1>4. \A u \in Byte : u \div 16 \in Nat /\ u % 16 \in Nat
  BY DEF Byte
<1>5. \A i \in 1..n : /\ 2 * i \in 1..(2 * n) /\ (2 * i) % 2 # 1 /\ (2 * i) \div 2 = i
                      /\ 2 * i - 1 \in 1..(2 * n) /\ (2 * i - 1) % 2 = 1
                      /\ ((2 * i - 1) + 1) \div 2 = i
  BY <1>1
<1>6. \A i \in 1..n : w[2 * i - 1] = x[i] \div 16 /\ w[2 * i] = x[i] % 16
  BY <1>3, <1>5
<1>7. w \in Seq(Nat) /\ Len(w) = 2 * n
  <2>1. \A k \in 1..(2 * n) : k % 2 = 1 => (k + 1) \div 2 \in 1..n
    BY <1>1
  <2>2. \A k \in 1..(2 * n) : k % 2 # 1 => k \div 2 \in 1..n
    BY <1>1
  <2>3. \A k \in 1..(2 * n) : w[k] \in Nat
    <3> SUFFICES ASSUME NEW k \in 1..(2 * n) PROVE w[k] \in Nat
      OBVIOUS
    <3>1. CASE k % 2 = 1
      <4>1. w[k] = x[(k + 1) \div 2] \div 16 /\ x[(k + 1) \div 2] \in Byte
        BY <1>1, <1>3, <2>1, <3>1
      <4> QED BY <1>4, <4>1
    <3>2. CASE k % 2 # 1
      <4>1. w[k] = x[k \div 2] % 16 /\ x[k \div 2] \in Byte
        BY <1>1, <1>3, <2>2, <3>2
      <4> QED BY <1>4, <4>1
    <3> QED BY <3>1, <3>2
  <2>4. w \in [1..(2 * n) -> Nat]
    <3>1. DOMAIN w = 1..(2 * n) /\ w = [k \in DOMAIN w |-> w[k]]
      BY <1>3
    <3> QED BY <2>3, <3>1
  <2> QED BY <1>1, <2>4
<1>8. f \in Seq(Nat) /\ Len(f) = 2 * n + 3
  <2>1. <<Colon>> \in Seq(Nat) /\ <<CR, LF>> \in Seq(Nat)
    BY DEF Colon, CR, LF
  <2>2. Len(<<Colon>>) = 1 /\ Len(<<CR, LF>>) = 2
    OBVIOUS
  <2> DEFINE front == <<Colon>>  back == <<CR, LF>>
  <2> HIDE DEF front, back
  <2>3. front \o w \in Seq(Nat) /\ Len(front \o w) = 1 + 2 * n
    BY <1>1, <1>7, <2>1, <2>2 DEF front
  <2>4. (front \o w) \o back \in Seq(Nat) /\ Len((front \o w) \o back) = 2 * n + 3
    BY <1>1, <2>1, <2>2, <2>3 DEF back
  <2> QED BY <1>2, <2>4 DEF front, back
<1>9. f[1] = Colon /\ f[2 * n + 2] = CR /\ f[2 * n + 3] = LF
  BY <1>1, <1>2, <1>7 DEF Colon, CR, LF
<1>10. \A k \in 1..(2 * n) : f[k + 1] = w[k]
  BY <1>1, <1>2, <1>7 DEF Colon, CR, LF
<1>11. \A i \in 1..n : f[2 * i] = w[2 * i - 1] /\ f[2 * i + 1] = w[2 * i]
  <2>1. \A i \in 1..n : (2 * i - 1) + 1 = 2 * i
    BY <1>1
  <2> QED BY <1>5, <1>10, <2>1
<1> QED BY <1>6, <1>8, <1>9, <1>11 DEF f, n, x

\* The bytes a frame is read as.
LEMMA ReadAs ==
    ASSUME NEW n \in Nat, NEW f \in Seq(Nat), Len(f) = 2 * n + 3
    PROVE  LET bs == readHex(Digits(f)) IN
           /\ Len(bs) = n
           /\ bs = [i \in 1..n |-> 16 * f[2 * i] + f[2 * i + 1]]
           /\ DOMAIN Digits(f) = 1..(2 * n)
           /\ \A k \in 1..(2 * n) : Digits(f)[k] = f[k + 1]
<1> DEFINE d == Digits(f)
           bs == readHex(d)
<1>1. d = SubSeq(f, 2, Len(f) - 2) /\ Len(f) - 2 = 2 * n + 1
  BY DEF Digits
<1> HIDE DEF d
<1>2. d \in Seq(Nat) /\ Len(d) = 2 * n /\ \A k \in 1..(2 * n) : d[k] = f[k + 1]
  BY <1>1
<1>3. (2 * n) \div 2 = n
  OBVIOUS
<1>4. bs = [k \in 1..n |-> 16 * d[2 * k - 1] + d[2 * k]]
  BY <1>2, <1>3 DEF readHex
<1>5. \A i \in 1..n : d[2 * i - 1] = f[2 * i] /\ d[2 * i] = f[2 * i + 1]
  <2>1. \A i \in 1..n : /\ 2 * i - 1 \in 1..(2 * n) /\ 2 * i \in 1..(2 * n)
                        /\ (2 * i - 1) + 1 = 2 * i
    OBVIOUS
  <2> QED BY <1>2, <2>1
<1>6. bs = [i \in 1..n |-> 16 * f[2 * i] + f[2 * i + 1]]
  BY <1>4, <1>5
<1>7. Len(bs) = n
  BY <1>6
<1>8. DOMAIN d = 1..(2 * n)
  BY <1>2
<1> QED BY <1>2, <1>6, <1>7, <1>8 DEF d

LEMMA HexDigits ==
    /\ \A u \in Byte : 16 * (u \div 16) + (u % 16) = u /\ u \div 16 \in 0..15 /\ u % 16 \in 0..15
    /\ \A i, j \in 0..15 : /\ 16 * i + j \in Byte
                           /\ (16 * i + j) \div 16 = i /\ (16 * i + j) % 16 = j
<1>1. \A u \in Byte : 16 * (u \div 16) + (u % 16) = u /\ u \div 16 \in 0..15 /\ u % 16 \in 0..15
  BY DEF Byte
<1>2. \A i, j \in 0..15 : 16 * i + j \in Byte
  BY DEF Byte
<1>3. \A i, j \in 0..15 : (16 * i + j) \div 16 = i /\ (16 * i + j) % 16 = j
  OBVIOUS
<1> QED BY <1>1, <1>2, <1>3

\* A packed frame passes the checks and is decoded to the content it was made
\* of (ASCIIPackager.Encode, Verify and Decode of asciiclient.go), for every
\* content.
THEOREM FrameIsCarried ==
    ASSUME NEW a \in Contents
    PROVE  ASCIIIntact(ASCIIEncode(a)) /\ ASCIIDecode(ASCIIEncode(a)) = a
<1> DEFINE x == Checked(a)
           n == Len(x)
           f == ASCIIEncode(a)
           bs == readHex(Digits(f))
<1>1. /\ n \in Nat /\ n >= 3 /\ x \in [1..n -> Byte]
      /\ SubSeq(x, 1, n - 1) = Body(a) /\ LRC(Body(a)) = x[n]
  BY CheckedFacts
<1>2. /\ f \in Seq(Nat) /\ Len(f) = 2 * n + 3
      /\ f[1] = Colon /\ f[2 * n + 2] = CR /\ f[2 * n + 3] = LF
      /\ \A i \in 1..n : f[2 * i] = x[i] \div 16 /\ f[2 * i + 1] = x[i] % 16
  BY FrameOf
<1> HIDE DEF x, n, f
<1>3. /\ Len(bs) = n
      /\ bs = [i \in 1..n |-> 16 * f[2 * i] + f[2 * i + 1]]
      /\ DOMAIN Digits(f) = 1..(2 * n)
      /\ \A k \in 1..(2 * n) : Digits(f)[k] = f[k + 1]
  BY <1>1, <1>2, ReadAs
<1> HIDE DEF bs
<1>4. \A i \in 1..n : f[2 * i] \in 0..15 /\ f[2 * i + 1] \in 0..15 /\ 16 * f[2 * i] + f[2 * i + 1] = x[i]
  <2> SUFFICES ASSUME NEW i \in 1..n
               PROVE  f[2 * i] \in 0..15 /\ f[2 * i + 1] \in 0..15 /\ 16 * f[2 * i] + f[2 * i + 1] = x[i]
    OBVIOUS
  <2>1. x[i] \in Byte
    BY <1>1
  <2>2. f[2 * i] = x[i] \div 16 /\ f[2 * i + 1] = x[i] % 16
    BY <1>2
  <2>3. 16 * (x[i] \div 16) + (x[i] % 16) = x[i] /\ x[i] \div 16 \in 0..15 /\ x[i] % 16 \in 0..15
    BY <2>1, HexDigits
  <2> QED BY <2>2, <2>3
<1>5. bs = x
  BY <1>1, <1>3, <1>4
<1>6. \A k \in 1..(2 * n) : f[k + 1] \in 0..15
  <2> SUFFICES ASSUME NEW k \in 1..(2 * n) PROVE f[k + 1] \in 0..15
    OBVIOUS
  <2>1. \E i \in 1..n : k + 1 = 2 * i \/ k + 1 = 2 * i + 1
    <3>1. \/ k \div 2 \in 1..n /\ k + 1 = 2 * (k \div 2) + 1
          \/ (k + 1) \div 2 \in 1..n /\ k + 1 = 2 * ((k + 1) \div 2)
      BY <1>1
    <3> QED BY <3>1
  <2> QED BY <1>4, <2>1
<1>7. Len(f) >= 9 /\ Len(f) % 2 = 1
  BY <1>1, <1>2
<1>8. SubSeq(f, Len(f) - 1, Len(f)) = <<CR, LF>>
  <2> DEFINE m == 2 * n + 2
  <2>1. m \in Nat \ {0} /\ Len(f) = m + 1 /\ Len(f) - 1 = m /\ 2 * n + 3 = m + 1
    BY <1>1, <1>2
  <2>2. f[m] = CR /\ f[m + 1] = LF
    BY <1>2, <2>1
  <2> HIDE DEF m
  <2> DEFINE t == SubSeq(f, m, m + 1)
  <2>3. t \in Seq(Nat)
    BY <1>2, <2>1
  <2>4. Len(t) = 2
    BY <1>2, <2>1
  <2>5. t[1] = f[m]
    BY <1>2, <2>1
  <2>6. t[2] = f[m + 1]
    BY <1>2, <2>1
  <2> HIDE DEF t
  <2>7. t = <<f[m], f[m + 1]>>
    BY <2>3, <2>4, <2>5, <2>6
  <2> QED BY <2>1, <2>2, <2>7 DEF t
<1>9. \A k \in DOMAIN Digits(f) : Digits(f)[k] < 16
  BY <1>3, <1>6
<1>10. LRC(SubSeq(bs, 1, Len(bs) - 1)) = bs[Len(bs)]
  BY <1>1, <1>3, <1>5
<1>11. ASCIIIntact(f)
  BY <1>2, <1>7, <1>8, <1>9, <1>10 DEF ASCIIIntact, bs
<1>12. ASCIIDecode(f) = a
  <2>1. SubSeq(bs, 1, Len(bs) - 1) = Body(a)
    BY <1>1, <1>3, <1>5
  <2> QED BY <2>1, ContentOfBody DEF ASCIIDecode, bs
<1> QED BY <1>11, <1>12 DEF f

\* If one character of a frame is changed on the line into any other, the
\* checks of Verify and Decode refuse the frame: what passes them is the frame
\* that was sent.
THEOREM ChangeIsFound ==
    ASSUME NEW a \in Contents, NEW p \in 1..Len(ASCIIEncode(a)), NEW c \in Nat,
           ASCIIIntact([ASCIIEncode(a) EXCEPT ![p] = c])
    PROVE  [ASCIIEncode(a) EXCEPT ![p] = c] = ASCIIEncode(a)
<1> DEFINE x == Checked(a)
           n == Len(x)
           f == ASCIIEncode(a)
           e == [f EXCEPT ![p] = c]
           bs == readHex(Digits(e))
<1>1. /\ n \in Nat /\ n >= 3 /\ x \in [1..n -> Byte]
      /\ LRC(SubSeq(x, 1, n - 1)) = x[n]
  BY CheckedFacts
<1>2. /\ f \in Seq(Nat) /\ Len(f) = 2 * n + 3
      /\ f[1] = Colon /\ f[2 * n + 2] = CR /\ f[2 * n + 3] = LF
      /\ \A i \in 1..n : f[2 * i] = x[i] \div 16 /\ f[2 * i + 1] = x[i] % 16
  BY FrameOf
<1>3. p \in 1..Len(f) /\ ASCIIIntact(e)
  OBVIOUS
<1> SUFFICES e = f
  OBVIOUS
<1> HIDE DEF x, n, f
<1>4. /\ e \in Seq(Nat) /\ Len(e) = 2 * n + 3
      /\ e[p] = c /\ \A k \in 1..(2 * n + 3) : k # p => e[k] = f[k]
  BY <1>1, <1>2, <1>3
<1>5. c = f[p] => e = f
  BY <1>2, <1>3
<1> HIDE DEF e
<1>6. /\ Len(bs) = n
      /\ bs = [i \in 1..n |-> 16 * e[2 * i] + e[2 * i + 1]]
      /\ DOMAIN Digits(e) = 1..(2 * n)
      /\ \A k \in 1..(2 * n) : Digits(e)[k] = e[k + 1]
  BY <1>1, <1>4, ReadAs
<1>7. /\ e[1] = Colon /\ SubSeq(e, Len(e) - 1, Len(e)) = <<CR, LF>>
      /\ \A k \in DOMAIN Digits(e) : Digits(e)[k] < 16
      /\ LRC(SubSeq(bs, 1, Len(bs) - 1)) = bs[Len(bs)]
  BY <1>3 DEF ASCIIIntact
<1> HIDE DEF bs
<1>8. CASE p = 1
  BY <1>2, <1>4, <1>5, <1>7, <1>8
<1>9. CASE p = 2 * n + 2 \/ p = 2 * n + 3
  <2> DEFINE t == SubSeq(e, 2 * n + 2, 2 * n + 3)
  <2>1. t = <<CR, LF>>
    <3>1. Len(e) - 1 = 2 * n + 2
      BY <1>1, <1>4
    <3> QED BY <1>4, <1>7, <3>1
  <2>2. t[1] = e[2 * n + 2] /\ t[2] = e[2 * n + 3]
    BY <1>1, <1>4
  <2> HIDE DEF t
  <2>3. e[2 * n + 2] = CR /\ e[2 * n + 3] = LF
    BY <2>1, <2>2
  <2> QED BY <1>2, <1>4, <1>5, <1>9, <2>3
<1>10. CASE p \in 2..(2 * n + 1)
  <2>1. \A k \in 2..(2 * n + 1) : e[k] \in 0..15
    <3> SUFFICES ASSUME NEW k \in 2..(2 * n + 1) PROVE e[k] \in 0..15
      OBVIOUS
    <3>1. k - 1 \in 1..(2 * n) /\ (k - 1) + 1 = k /\ k \in 1..Len(e)
      BY <1>1, <1>4
    <3>2. e[k] < 16
      BY <1>6, <1>7, <3>1
    <3>3. e[k] \in Nat
      BY <1>4, <3>1
    <3>4. \A v \in Nat : v < 16 => v \in 0..15
      OBVIOUS
    <3> QED BY <3>2, <3>3, <3>4
  <2>2. \A i \in 1..n : /\ 2 * i \in 2..(2 * n + 1) /\ 2 * i + 1 \in 2..(2 * n + 1)
                        /\ 2 * i \in 1..(2 * n + 3) /\ 2 * i + 1 \in 1..(2 * n + 3)
    BY <1>1
  <2>3. bs \in [1..n -> Byte]
    <3>1. \A i \in 1..n : 16 * e[2 * i] + e[2 * i + 1] \in Byte
      BY <2>1, <2>2, HexDigits
    <3> QED BY <1>6, <3>1
  <2>4. PICK q \in 1..n : p = 2 * q \/ p = 2 * q + 1
    <3>1. p \div 2 \in 1..n /\ (p = 2 * (p \div 2) \/ p = 2 * (p \div 2) + 1)
      BY <1>1, <1>10
    <3> QED BY <3>1
  <2>5. \A i \in 1..n : i # q => bs[i] = x[i]
    <3> SUFFICES ASSUME NEW i \in 1..n, i # q PROVE bs[i] = x[i]
      OBVIOUS
    <3>1. 2 * i # p /\ 2 * i + 1 # p
      BY <1>1, <2>4
    <3>2. e[2 * i] = x[i] \div 16 /\ e[2 * i + 1] = x[i] % 16
      BY <1>2, <1>4, <2>2, <3>1
    <3>3. bs[i] = 16 * e[2 * i] + e[2 * i + 1] /\ x[i] \in Byte
      BY <1>1, <1>6
    <3> QED BY <3>2, <3>3, HexDigits
  <2>6. bs[q] = x[q]
    <3>1. LRC(SubSeq(bs, 1, n - 1)) = bs[n]
      BY <1>6, <1>7
    <3>2. n \in Nat \ {0}
      BY <1>1
    <3> QED BY <1>1, <2>3, <2>5, <3>1, <3>2, LRCFindsChange
  <2>7. /\ e[2 * q] \in 0..15 /\ e[2 * q + 1] \in 0..15
        /\ x[q] = 16 * e[2 * q] + e[2 * q + 1]
    BY <1>6, <2>1, <2>2, <2>6
  <2>8. x[q] \div 16 = e[2 * q] /\ x[q] % 16 = e[2 * q + 1]
    <3>1. \A i, j \in 0..15 : (16 * i + j) \div 16 = i /\ (16 * i + j) % 16 = j
      BY HexDigits
    <3>2. /\ (16 * e[2 * q] + e[2 * q + 1]) \div 16 = e[2 * q]
          /\ (16 * e[2 * q] + e[2 * q + 1]) % 16 = e[2 * q + 1]
      BY <2>7, <3>1
    <3> QED BY <2>7, <3>2
  <2>9. f[2 * q] = e[2 * q] /\ f[2 * q + 1] = e[2 * q + 1]
    BY <1>2, <2>8
  <2> QED BY <1>4, <1>5, <2>4, <2>9
<1>11. p = 1 \/ p = 2 * n + 2 \/ p = 2 * n + 3 \/ p \in 2..(2 * n + 1)
  BY <1>1, <1>2, <1>3
<1> QED BY <1>8, <1>9, <1>10, <1>11

-----------------------------------------------------------------------------
(***************************************************************************)
(* The CRC.  A byte is its bits, and exclusive or adds them: so it is a    *)
(* sum that is undone by itself, and one bit shifted out of a sum is the   *)
(* sum of the bits shifted out of its parts.  An entry of the tables is a  *)
(* byte after eight shifts, and a byte enters a register of the tables as  *)
(* it enters that of CRC16: both come to the same sum.                     *)
(***************************************************************************)
\* A byte and its bits.
Bits == [0..7 -> {0, 1}]
OfBits(b) ==
    b[0] + 2 * b[1] + 4 * b[2] + 8 * b[3] + 16 * b[4] + 32 * b[5] + 64 * b[6] + 128 * b[7]
PlusBits(b, c) == [i \in 0..7 |-> (b[i] + c[i]) % 2]

LEMMA BitsAre ==
    ASSUME NEW b \in Bits
    PROVE  /\ b[0] \in 0..1 /\ b[1] \in 0..1 /\ b[2] \in 0..1 /\ b[3] \in 0..1
           /\ b[4] \in 0..1 /\ b[5] \in 0..1 /\ b[6] \in 0..1 /\ b[7] \in 0..1
<1>1. \A i \in 0..7 : b[i] \in 0..1
  BY DEF Bits
<1> QED BY <1>1

LEMMA OfBitsIsByte == ASSUME NEW b \in Bits PROVE OfBits(b) \in Byte
<1> DEFINE b0 == b[0]  b1 == b[1]  b2 == b[2]  b3 == b[3]
           b4 == b[4]  b5 == b[5]  b6 == b[6]  b7 == b[7]
<1>1. /\ b0 \in 0..1 /\ b1 \in 0..1 /\ b2 \in 0..1 /\ b3 \in 0..1
      /\ b4 \in 0..1 /\ b5 \in 0..1 /\ b6 \in 0..1 /\ b7 \in 0..1
  BY BitsAre
<1> SUFFICES b0 + 2 * b1 + 4 * b2 + 8 * b3 + 16 * b4 + 32 * b5 + 64 * b6 + 128 * b7 \in 0..255
  BY DEF OfBits, Byte
<1> HIDE DEF b0, b1, b2, b3, b4, b5, b6, b7
<1> QED BY <1>1

\* Each bit is found in the byte.
LEMMA BitOf ==
    ASSUME NEW b0 \in 0..1, NEW b1 \in 0..1, NEW b2 \in 0..1, NEW b3 \in 0..1,
           NEW b4 \in 0..1, NEW b5 \in 0..1, NEW b6 \in 0..1, NEW b7 \in 0..1
    PROVE  LET m == b0 + 2 * b1 + 4 * b2 + 8 * b3 + 16 * b4 + 32 * b5 + 64 * b6 + 128 * b7 IN
           /\ m \div 1 = b0 + 2 * b1 + 4 * b2 + 8 * b3 + 16 * b4 + 32 * b5 + 64 * b6 + 128 * b7
           /\ m \div 2 = b1 + 2 * b2 + 4 * b3 + 8 * b4 + 16 * b5 + 32 * b6 + 64 * b7
           /\ m \div 4 = b2 + 2 * b3 + 4 * b4 + 8 * b5 + 16 * b6 + 32 * b7
           /\ m \div 8 = b3 + 2 * b4 + 4 * b5 + 8 * b6 + 16 * b7
           /\ m \div 16 = b4 + 2 * b5 + 4 * b6 + 8 * b7
           /\ m \div 32 = b5 + 2 * b6 + 4 * b7
           /\ m \div 64 = b6 + 2 * b7
           /\ m \div 128 = b7
<1> DEFINE m == b0 + 2 * b1 + 4 * b2 + 8 * b3 + 16 * b4 + 32 * b5 + 64 * b6 + 128 * b7
<1>1. m \div 1 = b0 + 2 * b1 + 4 * b2 + 8 * b3 + 16 * b4 + 32 * b5 + 64 * b6 + 128 * b7
  OBVIOUS
<1>2. m \div 2 = b1 + 2 * b2 + 4 * b3 + 8 * b4 + 16 * b5 + 32 * b6 + 64 * b7
  OBVIOUS
<1>3. m \div 4 = b2 + 2 * b3 + 4 * b4 + 8 * b5 + 16 * b6 + 32 * b7
  OBVIOUS
<1>4. m \div 8 = b3 + 2 * b4 + 4 * b5 + 8 * b6 + 16 * b7
  OBVIOUS
<1>5. m \div 16 = b4 + 2 * b5 + 4 * b6 + 8 * b7
  OBVIOUS
<1>6. m \div 32 = b5 + 2 * b6 + 4 * b7
  OBVIOUS
<1>7. m \div 64 = b6 + 2 * b7
  OBVIOUS
<1>8. m \div 128 = b7
  OBVIOUS
<1> QED BY <1>1, <1>2, <1>3, <1>4, <1>5, <1>6, <1>7, <1>8

LEMMA XorOfBits ==
    ASSUME NEW b \in Bits, NEW c \in Bits
    PROVE  /\ PlusBits(b, c) \in Bits
           /\ ByteXor[OfBits(b)][OfBits(c)] = OfBits(PlusBits(b, c))
<1> DEFINE m == OfBits(b)
           n == OfBits(c)
           bit(i) == i * (((m \div i) + (n \div i)) % 2)
           p == PlusBits(b, c)
           b0 == b[0]  c0 == c[0]
           b1 == b[1]  c1 == c[1]
           b2 == b[2]  c2 == c[2]
           b3 == b[3]  c3 == c[3]
           b4 == b[4]  c4 == c[4]
           b5 == b[5]  c5 == c[5]
           b6 == b[6]  c6 == c[6]
           b7 == b[7]  c7 == c[7]
<1>1. m \in Byte /\ n \in Byte
  BY OfBitsIsByte
<1>2. ByteXor[m][n] = bit(1) + bit(2) + bit(4) + bit(8) + bit(16) + bit(32) + bit(64) + bit(128)
  BY <1>1 DEF ByteXor
<1>3. p \in Bits /\ \A i \in 0..7 : p[i] = (b[i] + c[i]) % 2
  <2>1. \A u, v \in {0, 1} : (u + v) % 2 \in {0, 1}
    OBVIOUS
  <2> QED BY <2>1 DEF PlusBits, Bits
<1>4. /\ b0 \in 0..1 /\ c0 \in 0..1
      /\ b1 \in 0..1 /\ c1 \in 0..1
      /\ b2 \in 0..1 /\ c2 \in 0..1
      /\ b3 \in 0..1 /\ c3 \in 0..1
      /\ b4 \in 0..1 /\ c4 \in 0..1
      /\ b5 \in 0..1 /\ c5 \in 0..1
      /\ b6 \in 0..1 /\ c6 \in 0..1
      /\ b7 \in 0..1 /\ c7 \in 0..1
  BY BitsAre
<1>5. \A x, y \in Int : \A u, v \in 0..1 : ((u + 2 * x) + (v + 2 * y)) % 2 = (u + v) % 2
  OBVIOUS
<1>6. /\ m = b0 + 2 * b1 + 4 * b2 + 8 * b3 + 16 * b4 + 32 * b5 + 64 * b6 + 128 * b7
      /\ n = c0 + 2 * c1 + 4 * c2 + 8 * c3 + 16 * c4 + 32 * c5 + 64 * c6 + 128 * c7
  BY DEF OfBits
<1> HIDE DEF m, n, p, b0, c0, b1, c1, b2, c2, b3, c3, b4, c4, b5, c5, b6, c6, b7, c7
<1>7. /\ m \div 1 = b0 + 2 * b1 + 4 * b2 + 8 * b3 + 16 * b4 + 32 * b5 + 64 * b6 + 128 * b7
      /\ m \div 2 = b1 + 2 * b2 + 4 * b3 + 8 * b4 + 16 * b5 + 32 * b6 + 64 * b7
      /\ m \div 4 = b2 + 2 * b3 + 4 * b4 + 8 * b5 + 16 * b6 + 32 * b7
      /\ m \div 8 = b3 + 2 * b4 + 4 * b5 + 8 * b6 + 16 * b7
      /\ m \div 16 = b4 + 2 * b5 + 4 * b6 + 8 * b7
      /\ m \div 32 = b5 + 2 * b6 + 4 * b7
      /\ m \div 64 = b6 + 2 * b7
      /\ m \div 128 = b7
  BY <1>4, <1>6, BitOf
<1>8. /\ n \div 1 = c0 + 2 * c1 + 4 * c2 + 8 * c3 + 16 * c4 + 32 * c5 + 64 * c6 + 128 * c7
      /\ n \div 2 = c1 + 2 * c2 + 4 * c3 + 8 * c4 + 16 * c5 + 32 * c6 + 64 * c7
      /\ n \div 4 = c2 + 2 * c3 + 4 * c4 + 8 * c5 + 16 * c6 + 32 * c7
      /\ n \div 8 = c3 + 2 * c4 + 4 * c5 + 8 * c6 + 16 * c7
      /\ n \div 16 = c4 + 2 * c5 + 4 * c6 + 8 * c7
      /\ n \div 32 = c5 + 2 * c6 + 4 * c7
      /\ n \div 64 = c6 + 2 * c7
      /\ n \div 128 = c7
  BY <1>4, <1>6, BitOf
<1>9. bit(1) = 1 * ((b0 + c0) % 2)
  <2> DEFINE x == b1 + 2 * b2 + 4 * b3 + 8 * b4 + 16 * b5 + 32 * b6 + 64 * b7
             y == c1 + 2 * c2 + 4 * c3 + 8 * c4 + 16 * c5 + 32 * c6 + 64 * c7
  <2>1. m \div 1 = b0 + 2 * x /\ n \div 1 = c0 + 2 * y /\ x \in Int /\ y \in Int
    BY <1>4, <1>6, <1>7, <1>8
  <2>2. ((b0 + 2 * x) + (c0 + 2 * y)) % 2 = (b0 + c0) % 2
    <3> HIDE DEF x, y
    <3> QED BY <1>4, <1>5, <2>1
  <2> HIDE DEF x, y
  <2> QED BY <2>1, <2>2
<1>10. bit(2) = 2 * ((b1 + c1) % 2)
  <2> DEFINE x == b2 + 2 * b3 + 4 * b4 + 8 * b5 + 16 * b6 + 32 * b7
             y == c2 + 2 * c3 + 4 * c4 + 8 * c5 + 16 * c6 + 32 * c7
  <2>1. m \div 2 = b1 + 2 * x /\ n \div 2 = c1 + 2 * y /\ x \in Int /\ y \in Int
    BY <1>4, <1>6, <1>7, <1>8
  <2>2. ((b1 + 2 * x) + (c1 + 2 * y)) % 2 = (b1 + c1) % 2
    <3> HIDE DEF x, y
    <3> QED BY <1>4, <1>5, <2>1
  <2> HIDE DEF x, y
  <2> QED BY <2>1, <2>2
<1>11. bit(4) = 4 * ((b2 + c2) % 2)
  <2> DEFINE x == b3 + 2 * b4 + 4 * b5 + 8 * b6 + 16 * b7
             y == c3 + 2 * c4 + 4 * c5 + 8 * c6 + 16 * c7
  <2>1. m \div 4 = b2 + 2 * x /\ n \div 4 = c2 + 2 * y /\ x \in Int /\ y \in Int
    BY <1>4, <1>6, <1>7, <1>8
  <2>2. ((b2 + 2 * x) + (c2 + 2 * y)) % 2 = (b2 + c2) % 2
    <3> HIDE DEF x, y
    <3> QED BY <1>4, <1>5, <2>1
  <2> HIDE DEF x, y
  <2> QED BY <2>1, <2>2
<1>12. bit(8) = 8 * ((b3 + c3) % 2)
  <2> DEFINE x == b4 + 2 * b5 + 4 * b6 + 8 * b7
             y == c4 + 2 * c5 + 4 * c6 + 8 * c7
  <2>1. m \div 8 = b3 + 2 * x /\ n \div 8 = c3 + 2 * y /\ x \in Int /\ y \in Int
    BY <1>4, <1>6, <1>7, <1>8
  <2>2. ((b3 + 2 * x) + (c3 + 2 * y)) % 2 = (b3 + c3) % 2
    <3> HIDE DEF x, y
    <3> QED BY <1>4, <1>5, <2>1
  <2> HIDE DEF x, y
  <2> QED BY <2>1, <2>2
<1>13. bit(16) = 16 * ((b4 + c4) % 2)
  <2> DEFINE x == b5 + 2 * b6 + 4 * b7
             y == c5 + 2 * c6 + 4 * c7
  <2>1. m \div 16 = b4 + 2 * x /\ n \div 16 = c4 + 2 * y /\ x \in Int /\ y \in Int
    BY <1>4, <1>6, <1>7, <1>8
  <2>2. ((b4 + 2 * x) + (c4 + 2 * y)) % 2 = (b4 + c4) % 2
    <3> HIDE DEF x, y
    <3> QED BY <1>4, <1>5, <2>1
  <2> HIDE DEF x, y
  <2> QED BY <2>1, <2>2
<1>14. bit(32) = 32 * ((b5 + c5) % 2)
  <2> DEFINE x == b6 + 2 * b7
             y == c6 + 2 * c7
  <2>1. m \div 32 = b5 + 2 * x /\ n \div 32 = c5 + 2 * y /\ x \in Int /\ y \in Int
    BY <1>4, <1>6, <1>7, <1>8
  <2>2. ((b5 + 2 * x) + (c5 + 2 * y)) % 2 = (b5 + c5) % 2
    <3> HIDE DEF x, y
    <3> QED BY <1>4, <1>5, <2>1
  <2> HIDE DEF x, y
  <2> QED BY <2>1, <2>2
<1>15. bit(64) = 64 * ((b6 + c6) % 2)
  <2> DEFINE x == b7
             y == c7
  <2>1. m \div 64 = b6 + 2 * x /\ n \div 64 = c6 + 2 * y /\ x \in Int /\ y \in Int
    BY <1>4, <1>6, <1>7, <1>8
  <2>2. ((b6 + 2 * x) + (c6 + 2 * y)) % 2 = (b6 + c6) % 2
    <3> HIDE DEF x, y
    <3> QED BY <1>4, <1>5, <2>1
  <2> HIDE DEF x, y
  <2> QED BY <2>1, <2>2
<1>16. bit(128) = 128 * ((b7 + c7) % 2)
  <2> DEFINE x == 0
             y == 0
  <2>1. m \div 128 = b7 + 2 * x /\ n \div 128 = c7 + 2 * y /\ x \in Int /\ y \in Int
    BY <1>4, <1>6, <1>7, <1>8
  <2>2. ((b7 + 2 * x) + (c7 + 2 * y)) % 2 = (b7 + c7) % 2
    <3> HIDE DEF x, y
    <3> QED BY <1>4, <1>5, <2>1
  <2> HIDE DEF x, y
  <2> QED BY <2>1, <2>2
<1>17. OfBits(p) = ((b0 + c0) % 2) + 2 * ((b1 + c1) % 2) + 4 * ((b2 + c2) % 2) + 8 * ((b3 + c3) % 2) + 16 * ((b4 + c4) % 2) + 32 * ((b5 + c5) % 2) + 64 * ((b6 + c6) % 2) + 128 * ((b7 + c7) % 2)
  <2>1. /\ p[0] = (b0 + c0) % 2
        /\ p[1] = (b1 + c1) % 2
        /\ p[2] = (b2 + c2) % 2
        /\ p[3] = (b3 + c3) % 2
        /\ p[4] = (b4 + c4) % 2
        /\ p[5] = (b5 + c5) % 2
        /\ p[6] = (b6 + c6) % 2
        /\ p[7] = (b7 + c7) % 2
    BY <1>3 DEF b0, c0, b1, c1, b2, c2, b3, c3, b4, c4, b5, c5, b6, c6, b7, c7
  <2> QED BY <2>1 DEF OfBits
<1>18. bit(1) = (b0 + c0) % 2
  BY <1>4, <1>9
<1> HIDE DEF bit
<1> QED BY <1>2, <1>3, <1>10, <1>11, <1>12, <1>13, <1>14, <1>15, <1>16, <1>17, <1>18 DEF m, n, p

\* Every byte has bits.
LEMMA HasBits == ASSUME NEW m \in Byte PROVE \E b \in Bits : m = OfBits(b)
<1> DEFINE f == [i \in 0..7 |-> CASE i = 0 -> (m \div 1) % 2 [] i = 1 -> (m \div 2) % 2 [] i = 2 -> (m \div 4) % 2 [] i = 3 -> (m \div 8) % 2 [] i = 4 -> (m \div 16) % 2 [] i = 5 -> (m \div 32) % 2 [] i = 6 -> (m \div 64) % 2 [] i = 7 -> (m \div 128) % 2]
<1>1. m \in 0..255
  BY DEF Byte
<1>2. /\ f[0] = (m \div 1) % 2
      /\ f[1] = (m \div 2) % 2
      /\ f[2] = (m \div 4) % 2
      /\ f[3] = (m \div 8) % 2
      /\ f[4] = (m \div 16) % 2
      /\ f[5] = (m \div 32) % 2
      /\ f[6] = (m \div 64) % 2
      /\ f[7] = (m \div 128) % 2
  OBVIOUS
<1>3. f \in Bits
  <2>1. \A x \in Nat : x % 2 \in {0, 1}
    OBVIOUS
  <2>2. \A i \in 0..7 : f[i] \in {0, 1}
    <3> SUFFICES ASSUME NEW i \in 0..7 PROVE f[i] \in {0, 1}
      OBVIOUS
    <3>1. /\ (m \div 1) % 2 \in {0, 1}
          /\ (m \div 2) % 2 \in {0, 1}
          /\ (m \div 4) % 2 \in {0, 1}
          /\ (m \div 8) % 2 \in {0, 1}
          /\ (m \div 16) % 2 \in {0, 1}
          /\ (m \div 32) % 2 \in {0, 1}
          /\ (m \div 64) % 2 \in {0, 1}
          /\ (m \div 128) % 2 \in {0, 1}
      BY <1>1
    <3>2. i = 0 \/ i = 1 \/ i = 2 \/ i = 3 \/ i = 4 \/ i = 5 \/ i = 6 \/ i = 7
      OBVIOUS
    <3> HIDE DEF f
    <3> QED BY <1>2, <3>1, <3>2
  <2>3. f = [i \in 0..7 |-> f[i]]
    OBVIOUS
  <2> HIDE DEF f
  <2> QED BY <2>2, <2>3 DEF Bits
<1> HIDE DEF f
<1>4. m = ((m \div 1) % 2) + 2 * ((m \div 2) % 2) + 4 * ((m \div 4) % 2) + 8 * ((m \div 8) % 2) + 16 * ((m \div 16) % 2) + 32 * ((m \div 32) % 2) + 64 * ((m \div 64) % 2) + 128 * ((m \div 128) % 2)
  BY <1>1
<1>5. m = OfBits(f)
  BY <1>2, <1>4 DEF OfBits
<1> QED BY <1>3, <1>5

\* What addition of bits obeys.
LEMMA BitsAdd ==
    ASSUME NEW u \in {0, 1}, NEW v \in {0, 1}, NEW w \in {0, 1}
    PROVE  /\ (u + v) % 2 \in {0, 1}
           /\ (u + v) % 2 = (v + u) % 2
           /\ (((u + v) % 2) + w) % 2 = (u + ((v + w) % 2)) % 2
           /\ (u + u) % 2 = 0
           /\ (u + 0) % 2 = u
OBVIOUS

NoBits == [i \in 0..7 |-> 0]

LEMMA PlusBitsFacts ==
    ASSUME NEW b \in Bits, NEW c \in Bits, NEW d \in Bits
    PROVE  /\ NoBits \in Bits /\ OfBits(NoBits) = 0
           /\ PlusBits(b, c) = PlusBits(c, b)
           /\ PlusBits(PlusBits(b, c), d) = PlusBits(b, PlusBits(c, d))
           /\ PlusBits(b, b) = NoBits
           /\ PlusBits(b, NoBits) = b
<1>1. \A i \in 0..7 : b[i] \in {0, 1} /\ c[i] \in {0, 1} /\ d[i] \in {0, 1}
  BY DEF Bits
<1>2. NoBits \in Bits /\ OfBits(NoBits) = 0
  BY DEF NoBits, Bits, OfBits
<1>3. PlusBits(b, c) = PlusBits(c, b)
  <2>1. \A i \in 0..7 : (b[i] + c[i]) % 2 = (c[i] + b[i]) % 2
    BY <1>1, BitsAdd
  <2> QED BY <2>1 DEF PlusBits
<1>4. PlusBits(PlusBits(b, c), d) = PlusBits(b, PlusBits(c, d))
  <2>1. \A i \in 0..7 : (((b[i] + c[i]) % 2) + d[i]) % 2 = (b[i] + ((c[i] + d[i]) % 2)) % 2
    BY <1>1, BitsAdd
  <2>2. \A i \in 0..7 : PlusBits(b, c)[i] = (b[i] + c[i]) % 2 /\ PlusBits(c, d)[i] = (c[i] + d[i]) % 2
    BY DEF PlusBits
  <2>3. \A i \in 0..7 : (PlusBits(b, c)[i] + d[i]) % 2 = (b[i] + PlusBits(c, d)[i]) % 2
    <3> SUFFICES ASSUME NEW i \in 0..7 PROVE (PlusBits(b, c)[i] + d[i]) % 2 = (b[i] + PlusBits(c, d)[i]) % 2
      OBVIOUS
    <3>1. PlusBits(b, c)[i] = (b[i] + c[i]) % 2 /\ PlusBits(c, d)[i] = (c[i] + d[i]) % 2
      BY <2>2
    <3>2. (((b[i] + c[i]) % 2) + d[i]) % 2 = (b[i] + ((c[i] + d[i]) % 2)) % 2
      BY <2>1
    <3> QED BY <3>1, <3>2, Zenon
  <2> DEFINE x == PlusBits(b, c)
             y == PlusBits(c, d)
  <2> HIDE DEF x, y
  <2>4. \A i \in 0..7 : (x[i] + d[i]) % 2 = (b[i] + y[i]) % 2
    BY <2>3, Zenon DEF x, y
  <2>5. PlusBits(x, d) = PlusBits(b, y)
    BY <2>4 DEF PlusBits
  <2> QED BY <2>5, Zenon DEF x, y
<1>5. PlusBits(b, b) = NoBits
  <2>1. \A i \in 0..7 : (b[i] + b[i]) % 2 = 0
    BY <1>1, BitsAdd
  <2> QED BY <2>1 DEF PlusBits, NoBits
<1>6. PlusBits(b, NoBits) = b
  <2>1. \A i \in 0..7 : (b[i] + NoBits[i]) % 2 = b[i]
    BY <1>1, BitsAdd DEF NoBits
  <2>2. b = [i \in 0..7 |-> b[i]]
    BY DEF Bits
  <2> HIDE DEF NoBits
  <2>3. PlusBits(b, NoBits) = [i \in 0..7 |-> b[i]]
    BY <2>1 DEF PlusBits
  <2> QED BY <2>2, <2>3
<1> QED BY <1>2, <1>3, <1>4, <1>5, <1>6

\* Exclusive or of bytes: a byte, in any order, and undone by itself.
LEMMA ByteXorFacts ==
    ASSUME NEW m \in Byte, NEW n \in Byte, NEW q \in Byte
    PROVE  /\ ByteXor[m][n] \in Byte
           /\ ByteXor[m][n] = ByteXor[n][m]
           /\ ByteXor[ByteXor[m][n]][q] = ByteXor[m][ByteXor[n][q]]
           /\ ByteXor[m][m] = 0
           /\ ByteXor[m][0] = m
<1>1. PICK b \in Bits : m = OfBits(b)
  BY HasBits
<1>2. PICK c \in Bits : n = OfBits(c)
  BY HasBits
<1>3. PICK d \in Bits : q = OfBits(d)
  BY HasBits
<1>4. /\ PlusBits(b, c) \in Bits /\ ByteXor[m][n] = OfBits(PlusBits(b, c))
      /\ PlusBits(c, d) \in Bits /\ ByteXor[n][q] = OfBits(PlusBits(c, d))
      /\ ByteXor[n][m] = OfBits(PlusBits(c, b))
  BY <1>1, <1>2, <1>3, XorOfBits
<1>5. ByteXor[m][n] \in Byte
  BY <1>4, OfBitsIsByte
<1>6. ByteXor[m][n] = ByteXor[n][m]
  BY <1>4, PlusBitsFacts
<1>7. ByteXor[ByteXor[m][n]][q] = ByteXor[m][ByteXor[n][q]]
  <2>1. ByteXor[ByteXor[m][n]][q] = OfBits(PlusBits(PlusBits(b, c), d))
    BY <1>3, <1>4, XorOfBits
  <2>2. ByteXor[m][ByteXor[n][q]] = OfBits(PlusBits(b, PlusBits(c, d)))
    BY <1>1, <1>4, XorOfBits
  <2> QED BY <2>1, <2>2, PlusBitsFacts
<1>8. ByteXor[m][m] = 0
  <2>1. ByteXor[m][m] = OfBits(PlusBits(b, b))
    BY <1>1, XorOfBits
  <2> QED BY <2>1, PlusBitsFacts
<1>9. ByteXor[m][0] = m
  <2>1. NoBits \in Bits /\ OfBits(NoBits) = 0
    BY <1>1, PlusBitsFacts
  <2>2. ByteXor[m][OfBits(NoBits)] = OfBits(PlusBits(b, NoBits))
    BY <1>1, <2>1, XorOfBits
  <2> QED BY <1>1, <2>1, <2>2, PlusBitsFacts
<1> QED BY <1>5, <1>6, <1>7, <1>8, <1>9

\* The bounds of a 16-bit number, by its bytes.
LEMMA Between == \A t \in Nat : \A x : x \in 0..t <=> x \in Int /\ 0 <= x /\ x <= t
OBVIOUS

LEMMA Uint16Top == \A x : x \in Uint16 <=> x \in Int /\ 0 <= x /\ x <= 256 * 255 + 255
<1> DEFINE t == 256 * 255 + 255
<1>1. t \in Nat
  OBVIOUS
<1>2. Uint16 = 0..t
  <2>1. 65535 = 256 * 255 + 255
    BY SMTT(60)
  <2> QED BY <2>1 DEF Uint16
<1> HIDE DEF t
<1>3. \A x : x \in Uint16 <=> x \in Int /\ 0 <= x /\ x <= t
  BY <1>1, <1>2, Between
<1> QED BY <1>3 DEF t

\* A 16-bit number is its two bytes.
LEMMA Halves ==
    ASSUME NEW m \in Uint16
    PROVE  m \div 256 \in Byte /\ m % 256 \in Byte /\ m = 256 * (m \div 256) + (m % 256)
<1>1. m \in Int /\ 0 <= m /\ m <= 256 * 255 + 255
  BY Uint16Top
<1>2. m \div 256 \in 0..255
  BY <1>1, SMT
<1>3. m % 256 \in 0..255
  BY <1>1, SMT
<1>4. m = 256 * (m \div 256) + (m % 256)
  BY <1>1, SMT
<1> QED BY <1>2, <1>3, <1>4 DEF Byte

LEMMA OfHalves ==
    ASSUME NEW h \in Byte, NEW l \in Byte
    PROVE  /\ 256 * h + l \in Uint16
           /\ (256 * h + l) \div 256 = h /\ (256 * h + l) % 256 = l
<1>1. h \in 0..255 /\ l \in 0..255
  BY DEF Byte
<1>2. 256 * h + l \in Uint16
  BY <1>1, Uint16Top, SMT
<1>3. (256 * h + l) \div 256 = h
  BY <1>1, SMT
<1>4. (256 * h + l) % 256 = l
  BY <1>1, SMT
<1> QED BY <1>2, <1>3, <1>4

LEMMA XorHalves ==
    ASSUME NEW m \in Uint16, NEW n \in Uint16
    PROVE  /\ Xor(m, n) \in Uint16
           /\ Xor(m, n) \div 256 = ByteXor[m \div 256][n \div 256]
           /\ Xor(m, n) % 256 = ByteXor[m % 256][n % 256]
<1>1. /\ m \div 256 \in Byte /\ m % 256 \in Byte
      /\ n \div 256 \in Byte /\ n % 256 \in Byte
  BY Halves
<1>2. ByteXor[m \div 256][n \div 256] \in Byte /\ ByteXor[m % 256][n % 256] \in Byte
  BY <1>1, ByteXorFacts
<1> DEFINE h == ByteXor[m \div 256][n \div 256]
           l == ByteXor[m % 256][n % 256]
<1>3. Xor(m, n) = 256 * h + l
  BY DEF Xor
<1> HIDE DEF h, l
<1>4. h \in Byte /\ l \in Byte
  BY <1>2 DEF h, l
<1>5. /\ 256 * h + l \in Uint16
      /\ (256 * h + l) \div 256 = h /\ (256 * h + l) % 256 = l
  BY <1>4, OfHalves
<1>6. /\ Xor(m, n) \in Uint16
      /\ Xor(m, n) \div 256 = h /\ Xor(m, n) % 256 = l
  BY <1>3, <1>5, Zenon
<1> QED BY <1>6, Zenon DEF h, l

LEMMA SameHalves ==
    ASSUME NEW m \in Uint16, NEW n \in Uint16,
           m \div 256 = n \div 256, m % 256 = n % 256
    PROVE  m = n
<1>1. m = 256 * (m \div 256) + (m % 256) /\ n = 256 * (n \div 256) + (n % 256)
  BY Halves
<1> QED BY <1>1

\* The same of 16-bit numbers.
LEMMA XorFacts ==
    ASSUME NEW m \in Uint16, NEW n \in Uint16, NEW q \in Uint16
    PROVE  /\ Xor(m, n) \in Uint16
           /\ Xor(m, n) = Xor(n, m)
           /\ Xor(Xor(m, n), q) = Xor(m, Xor(n, q))
           /\ Xor(m, m) = 0
           /\ Xor(m, 0) = m
<1>1. /\ m \div 256 \in Byte /\ m % 256 \in Byte
      /\ n \div 256 \in Byte /\ n % 256 \in Byte
      /\ q \div 256 \in Byte /\ q % 256 \in Byte
  BY Halves
<1>2. Xor(m, n) \in Uint16 /\ Xor(n, m) \in Uint16 /\ Xor(n, q) \in Uint16
  BY XorHalves
<1>3. Xor(m, n) = Xor(n, m)
  <2>1. /\ Xor(m, n) \div 256 = ByteXor[m \div 256][n \div 256]
        /\ Xor(m, n) % 256 = ByteXor[m % 256][n % 256]
        /\ Xor(n, m) \div 256 = ByteXor[n \div 256][m \div 256]
        /\ Xor(n, m) % 256 = ByteXor[n % 256][m % 256]
    BY XorHalves
  <2>2. /\ ByteXor[m \div 256][n \div 256] = ByteXor[n \div 256][m \div 256]
        /\ ByteXor[m % 256][n % 256] = ByteXor[n % 256][m % 256]
    BY <1>1, ByteXorFacts
  <2>3. Xor(m, n) \div 256 = Xor(n, m) \div 256 /\ Xor(m, n) % 256 = Xor(n, m) % 256
    BY <2>1, <2>2, Zenon
  <2> QED BY <1>2, <2>3, SameHalves
<1>4. Xor(Xor(m, n), q) = Xor(m, Xor(n, q))
  <2>1. /\ Xor(m, n) \div 256 = ByteXor[m \div 256][n \div 256]
        /\ Xor(m, n) % 256 = ByteXor[m % 256][n % 256]
        /\ Xor(n, q) \div 256 = ByteXor[n \div 256][q \div 256]
        /\ Xor(n, q) % 256 = ByteXor[n % 256][q % 256]
    BY XorHalves
  <2>2. /\ Xor(Xor(m, n), q) \in Uint16
        /\ Xor(Xor(m, n), q) \div 256 = ByteXor[Xor(m, n) \div 256][q \div 256]
        /\ Xor(Xor(m, n), q) % 256 = ByteXor[Xor(m, n) % 256][q % 256]
    BY <1>2, XorHalves
  <2>3. /\ Xor(m, Xor(n, q)) \in Uint16
        /\ Xor(m, Xor(n, q)) \div 256 = ByteXor[m \div 256][Xor(n, q) \div 256]
        /\ Xor(m, Xor(n, q)) % 256 = ByteXor[m % 256][Xor(n, q) % 256]
    BY <1>2, XorHalves
  <2>4. /\ ByteXor[ByteXor[m \div 256][n \div 256]][q \div 256]
             = ByteXor[m \div 256][ByteXor[n \div 256][q \div 256]]
        /\ ByteXor[ByteXor[m % 256][n % 256]][q % 256]
             = ByteXor[m % 256][ByteXor[n % 256][q % 256]]
    BY <1>1, ByteXorFacts
  <2>5. /\ Xor(Xor(m, n), q) \div 256 = Xor(m, Xor(n, q)) \div 256
        /\ Xor(Xor(m, n), q) % 256 = Xor(m, Xor(n, q)) % 256
    BY <2>1, <2>2, <2>3, <2>4
  <2> QED BY <2>2, <2>3, <2>5, SameHalves
<1>5. Xor(m, m) = 0
  <2>1. ByteXor[m \div 256][m \div 256] = 0 /\ ByteXor[m % 256][m % 256] = 0
    BY <1>1, ByteXorFacts
  <2>2. Xor(m, m) = 256 * 0 + 0
    BY <2>1, Zenon DEF Xor
  <2> QED BY <2>2
<1>6. Xor(m, 0) = m
  <2>1. 0 \div 256 = 0 /\ 0 % 256 = 0
    OBVIOUS
  <2>2. ByteXor[m \div 256][0] = m \div 256 /\ ByteXor[m % 256][0] = m % 256
    BY <1>1, ByteXorFacts
  <2>3. Xor(m, 0) = 256 * (m \div 256) + (m % 256)
    BY <2>1, <2>2, Zenon DEF Xor
  <2> QED BY <2>3, Halves
<1> QED BY <1>2, <1>3, <1>4, <1>5, <1>6

\* Half a 16-bit number, by its bits.
HighHalf(h) == [i \in 0..7 |-> IF i = 7 THEN 0 ELSE h[i + 1]]
LowHalf(h, l) == [i \in 0..7 |-> IF i = 7 THEN h[0] ELSE l[i + 1]]

LEMMA HalfOfBits ==
    ASSUME NEW h \in Bits, NEW l \in Bits
    PROVE  /\ HighHalf(h) \in Bits /\ LowHalf(h, l) \in Bits
           /\ (256 * OfBits(h) + OfBits(l)) \div 2
                = 256 * OfBits(HighHalf(h)) + OfBits(LowHalf(h, l))
           /\ (256 * OfBits(h) + OfBits(l)) % 2 = l[0]
<1> DEFINE x == HighHalf(h)
           y == LowHalf(h, l)
           h0 == h[0]  l0 == l[0]
           h1 == h[1]  l1 == l[1]
           h2 == h[2]  l2 == l[2]
           h3 == h[3]  l3 == l[3]
           h4 == h[4]  l4 == l[4]
           h5 == h[5]  l5 == l[5]
           h6 == h[6]  l6 == l[6]
           h7 == h[7]  l7 == l[7]
<1>1. /\ h0 \in 0..1 /\ h1 \in 0..1 /\ h2 \in 0..1 /\ h3 \in 0..1
      /\ h4 \in 0..1 /\ h5 \in 0..1 /\ h6 \in 0..1 /\ h7 \in 0..1
      /\ l0 \in 0..1 /\ l1 \in 0..1 /\ l2 \in 0..1 /\ l3 \in 0..1
      /\ l4 \in 0..1 /\ l5 \in 0..1 /\ l6 \in 0..1 /\ l7 \in 0..1
  BY BitsAre
<1>2. x \in Bits /\ y \in Bits
  <2>1. \A i \in 0..7 : h[i] \in {0, 1} /\ l[i] \in {0, 1}
    BY DEF Bits
  <2>2. \A i \in 0..7 : i # 7 => i + 1 \in 0..7
    OBVIOUS
  <2>3. 0 \in 0..7
    OBVIOUS
  <2> QED BY <2>1, <2>2, <2>3 DEF HighHalf, LowHalf, Bits
<1>3. /\ x[0] = h1 /\ x[1] = h2 /\ x[2] = h3 /\ x[3] = h4
      /\ x[4] = h5 /\ x[5] = h6 /\ x[6] = h7 /\ x[7] = 0
      /\ y[0] = l1 /\ y[1] = l2 /\ y[2] = l3 /\ y[3] = l4
      /\ y[4] = l5 /\ y[5] = l6 /\ y[6] = l7 /\ y[7] = h0
  BY DEF HighHalf, LowHalf
<1>4. OfBits(h) = h0 + 2 * h1 + 4 * h2 + 8 * h3 + 16 * h4 + 32 * h5 + 64 * h6 + 128 * h7
  BY DEF OfBits
<1>5. OfBits(l) = l0 + 2 * l1 + 4 * l2 + 8 * l3 + 16 * l4 + 32 * l5 + 64 * l6 + 128 * l7
  BY DEF OfBits
<1> HIDE DEF h0, h1, h2, h3, h4, h5, h6, h7, l0, l1, l2, l3, l4, l5, l6, l7
<1> HIDE DEF x, y
<1>6. OfBits(x) = h1 + 2 * h2 + 4 * h3 + 8 * h4 + 16 * h5 + 32 * h6 + 64 * h7 + 128 * 0
  BY <1>3 DEF OfBits
<1>7. OfBits(y) = l1 + 2 * l2 + 4 * l3 + 8 * l4 + 16 * l5 + 32 * l6 + 64 * l7 + 128 * h0
  BY <1>3 DEF OfBits
<1> DEFINE p == OfBits(h)
           q == OfBits(l)
           u == OfBits(x)
           v == OfBits(y)
<1>8. /\ 256 * p + q = l0 + 2 * (256 * u + v)
      /\ 256 * u + v \in Int
  <2> SUFFICES
        /\ 256 * (h0 + 2 * h1 + 4 * h2 + 8 * h3 + 16 * h4 + 32 * h5 + 64 * h6 + 128 * h7)
             + (l0 + 2 * l1 + 4 * l2 + 8 * l3 + 16 * l4 + 32 * l5 + 64 * l6 + 128 * l7)
             = l0 + 2 * (256 * (h1 + 2 * h2 + 4 * h3 + 8 * h4 + 16 * h5 + 32 * h6 + 64 * h7 + 128 * 0)
                         + (l1 + 2 * l2 + 4 * l3 + 8 * l4 + 16 * l5 + 32 * l6 + 64 * l7 + 128 * h0))
        /\ 256 * (h1 + 2 * h2 + 4 * h3 + 8 * h4 + 16 * h5 + 32 * h6 + 64 * h7 + 128 * 0)
             + (l1 + 2 * l2 + 4 * l3 + 8 * l4 + 16 * l5 + 32 * l6 + 64 * l7 + 128 * h0) \in Int
    BY <1>4, <1>5, <1>6, <1>7
  <2> QED BY <1>1
<1>9. \A t \in Int : (l0 + 2 * t) \div 2 = t /\ (l0 + 2 * t) % 2 = l0
  BY <1>1
<1> HIDE DEF p, q, u, v
<1> DEFINE t == 256 * u + v
<1> HIDE DEF t
<1>10. t \in Int /\ 256 * p + q = l0 + 2 * t
  BY <1>8 DEF t
<1>11. (256 * p + q) \div 2 = 256 * u + v
  BY <1>9, <1>10 DEF t
<1>12. (256 * p + q) % 2 = l0
  BY <1>9, <1>10
<1> QED BY <1>2, <1>11, <1>12 DEF x, y, p, q, u, v, l0

LEMMA HalfOfPlus ==
    ASSUME NEW h \in Bits, NEW l \in Bits, NEW g \in Bits, NEW k \in Bits
    PROVE  /\ HighHalf(PlusBits(h, g)) = PlusBits(HighHalf(h), HighHalf(g))
           /\ LowHalf(PlusBits(h, g), PlusBits(l, k)) = PlusBits(LowHalf(h, l), LowHalf(g, k))
           /\ PlusBits(l, k)[0] = (l[0] + k[0]) % 2
<1> DEFINE hg == PlusBits(h, g)
           lk == PlusBits(l, k)
           hh == HighHalf(h)
           gg == HighHalf(g)
           hl == LowHalf(h, l)
           gk == LowHalf(g, k)
<1>1. \A i \in 0..7 : hg[i] = (h[i] + g[i]) % 2 /\ lk[i] = (l[i] + k[i]) % 2
  BY DEF PlusBits
<1>2. \A i \in 0..7 : /\ hh[i] = (IF i = 7 THEN 0 ELSE h[i + 1])
                      /\ gg[i] = (IF i = 7 THEN 0 ELSE g[i + 1])
                      /\ hl[i] = (IF i = 7 THEN h[0] ELSE l[i + 1])
                      /\ gk[i] = (IF i = 7 THEN g[0] ELSE k[i + 1])
  BY DEF HighHalf, LowHalf
<1> HIDE DEF hg, lk, hh, gg, hl, gk
<1>3. \A i \in 0..7 : i # 7 => i + 1 \in 0..7
  OBVIOUS
<1>4. 0 \in 0..7 /\ (0 + 0) % 2 = 0
  OBVIOUS
<1>5. \A i \in 0..7 : (IF i = 7 THEN 0 ELSE hg[i + 1]) = (hh[i] + gg[i]) % 2
  BY <1>1, <1>2, <1>3, <1>4
<1>6. \A i \in 0..7 : (IF i = 7 THEN hg[0] ELSE lk[i + 1]) = (hl[i] + gk[i]) % 2
  BY <1>1, <1>2, <1>3, <1>4
<1>7. HighHalf(hg) = PlusBits(hh, gg)
  BY <1>5 DEF HighHalf, PlusBits
<1>8. LowHalf(hg, lk) = PlusBits(hl, gk)
  BY <1>6 DEF LowHalf, PlusBits
<1>9. lk[0] = (l[0] + k[0]) % 2
  BY <1>1, <1>4
<1> QED BY <1>7, <1>8, <1>9 DEF hg, lk, hh, gg, hl, gk

\* Exclusive or and half.
LEMMA XorHalf ==
    ASSUME NEW m \in Uint16, NEW n \in Uint16
    PROVE  /\ Xor(m, n) \div 2 = Xor(m \div 2, n \div 2)
           /\ Xor(m, n) % 2 = ((m % 2) + (n % 2)) % 2
           /\ m % 2 \in {0, 1}
<1>1. /\ m \div 256 \in Byte /\ m % 256 \in Byte /\ m = 256 * (m \div 256) + (m % 256)
      /\ n \div 256 \in Byte /\ n % 256 \in Byte /\ n = 256 * (n \div 256) + (n % 256)
  BY Halves
<1>2. PICK h \in Bits, l \in Bits : m \div 256 = OfBits(h) /\ m % 256 = OfBits(l)
  BY <1>1, HasBits
<1>3. PICK g \in Bits, k \in Bits : n \div 256 = OfBits(g) /\ n % 256 = OfBits(k)
  BY <1>1, HasBits
<1> DEFINE hg == PlusBits(h, g)
           lk == PlusBits(l, k)
<1>4. /\ hg \in Bits /\ ByteXor[OfBits(h)][OfBits(g)] = OfBits(hg)
      /\ lk \in Bits /\ ByteXor[OfBits(l)][OfBits(k)] = OfBits(lk)
  BY XorOfBits
<1>5. Xor(m, n) = 256 * OfBits(hg) + OfBits(lk)
  BY <1>2, <1>3, <1>4 DEF Xor
<1>6. /\ (256 * OfBits(hg) + OfBits(lk)) \div 2
           = 256 * OfBits(HighHalf(hg)) + OfBits(LowHalf(hg, lk))
      /\ (256 * OfBits(hg) + OfBits(lk)) % 2 = lk[0]
  BY <1>4, HalfOfBits
<1> DEFINE hh == HighHalf(h)
           gg == HighHalf(g)
           hl == LowHalf(h, l)
           gk == LowHalf(g, k)
<1>7. /\ hh \in Bits /\ hl \in Bits
      /\ (256 * OfBits(h) + OfBits(l)) \div 2 = 256 * OfBits(hh) + OfBits(hl)
      /\ (256 * OfBits(h) + OfBits(l)) % 2 = l[0]
      /\ gg \in Bits /\ gk \in Bits
      /\ (256 * OfBits(g) + OfBits(k)) \div 2 = 256 * OfBits(gg) + OfBits(gk)
      /\ (256 * OfBits(g) + OfBits(k)) % 2 = k[0]
  BY HalfOfBits
<1>8. /\ HighHalf(hg) = PlusBits(hh, gg) /\ LowHalf(hg, lk) = PlusBits(hl, gk)
      /\ lk[0] = (l[0] + k[0]) % 2
  BY HalfOfPlus
<1> HIDE DEF hg, lk, hh, gg, hl, gk
<1>9. /\ m \div 2 = 256 * OfBits(hh) + OfBits(hl) /\ m % 2 = l[0]
      /\ n \div 2 = 256 * OfBits(gg) + OfBits(gk) /\ n % 2 = k[0]
  BY <1>1, <1>2, <1>3, <1>7
<1>10. /\ OfBits(hh) \in Byte /\ OfBits(hl) \in Byte
       /\ OfBits(gg) \in Byte /\ OfBits(gk) \in Byte
  BY <1>7, OfBitsIsByte
<1>11. /\ (m \div 2) \div 256 = OfBits(hh) /\ (m \div 2) % 256 = OfBits(hl)
       /\ (n \div 2) \div 256 = OfBits(gg) /\ (n \div 2) % 256 = OfBits(gk)
  BY <1>9, <1>10, OfHalves
<1>12. /\ ByteXor[OfBits(hh)][OfBits(gg)] = OfBits(PlusBits(hh, gg))
       /\ ByteXor[OfBits(hl)][OfBits(gk)] = OfBits(PlusBits(hl, gk))
  BY <1>7, XorOfBits
<1>13. Xor(m \div 2, n \div 2) = 256 * OfBits(PlusBits(hh, gg)) + OfBits(PlusBits(hl, gk))
  BY <1>11, <1>12 DEF Xor
<1>14. Xor(m, n) \div 2 = Xor(m \div 2, n \div 2)
  BY <1>5, <1>6, <1>8, <1>13
<1>15. Xor(m, n) % 2 = (l[0] + k[0]) % 2
  BY <1>5, <1>6, <1>8
<1>16. l[0] \in {0, 1}
  BY BitsAre
<1> QED BY <1>9, <1>14, <1>15, <1>16

Polynomial == 40961

LEMMA PolynomialIs == Polynomial \in Uint16
BY Uint16Top, SMT DEF Polynomial

\* One bit shifted out.
LEMMA ShiftIs ==
    ASSUME NEW m \in Uint16
    PROVE  /\ m \div 2 \in Uint16
           /\ m % 2 = 1 => Shift[m] = Xor(m \div 2, Polynomial)
           /\ m % 2 = 0 => Shift[m] = m \div 2
           /\ Shift[m] \in Uint16
<1>1. m \div 2 \in Uint16
  BY Uint16Top, SMT
<1>2. Shift[m] = (IF m % 2 = 1 THEN Xor(m \div 2, Polynomial) ELSE m \div 2)
  BY SMT DEF Shift, Polynomial
<1>3. Xor(m \div 2, Polynomial) \in Uint16
  BY <1>1, PolynomialIs, XorFacts
<1> QED BY <1>1, <1>2, <1>3

LEMMA ShiftOfXor ==
    ASSUME NEW m \in Uint16, NEW n \in Uint16
    PROVE  Shift[Xor(m, n)] = Xor(Shift[m], Shift[n])
<1> DEFINE a == m \div 2
           b == n \div 2
           p == Polynomial
<1>1. /\ Xor(m, n) \in Uint16
      /\ Xor(m, n) \div 2 = Xor(a, b)
      /\ Xor(m, n) % 2 = ((m % 2) + (n % 2)) % 2
      /\ m % 2 \in {0, 1} /\ n % 2 \in {0, 1}
  BY XorHalf, XorFacts
<1>2. a \in Uint16 /\ b \in Uint16 /\ p \in Uint16
  BY ShiftIs, PolynomialIs
<1>3. /\ m % 2 = 1 => Shift[m] = Xor(a, p)
      /\ m % 2 = 0 => Shift[m] = a
      /\ n % 2 = 1 => Shift[n] = Xor(b, p)
      /\ n % 2 = 0 => Shift[n] = b
  BY ShiftIs
<1>4. /\ Xor(m, n) % 2 = 1 => Shift[Xor(m, n)] = Xor(Xor(a, b), p)
      /\ Xor(m, n) % 2 = 0 => Shift[Xor(m, n)] = Xor(a, b)
  BY <1>1, ShiftIs
<1>5. /\ (0 + 0) % 2 = 0 /\ (0 + 1) % 2 = 1
      /\ (1 + 0) % 2 = 1 /\ (1 + 1) % 2 = 0
  OBVIOUS
<1> HIDE DEF a, b, p
<1>6. Xor(Xor(a, b), p) = Xor(a, Xor(b, p))
  BY <1>2, XorFacts
<1>7. Xor(Xor(a, b), p) = Xor(Xor(a, p), b)
  <2>1. Xor(b, p) = Xor(p, b)
    BY <1>2, XorFacts
  <2>2. Xor(Xor(a, p), b) = Xor(a, Xor(p, b))
    BY <1>2, XorFacts
  <2> QED BY <1>6, <2>1, <2>2
<1>8. Xor(a, b) = Xor(Xor(a, p), Xor(b, p))
  <2>1. Xor(a, b) \in Uint16 /\ Xor(a, p) \in Uint16 /\ Xor(b, p) \in Uint16
    BY <1>2, XorFacts
  <2>2. Xor(Xor(a, p), Xor(b, p)) = Xor(Xor(Xor(a, p), b), p)
    BY <1>2, <2>1, XorFacts
  <2>3. Xor(Xor(Xor(a, b), p), p) = Xor(Xor(a, b), Xor(p, p))
    BY <1>2, <2>1, XorFacts
  <2>4. Xor(p, p) = 0 /\ Xor(Xor(a, b), 0) = Xor(a, b)
    BY <1>2, <2>1, XorFacts
  <2> QED BY <1>7, <2>2, <2>3, <2>4
<1>9. CASE m % 2 = 0 /\ n % 2 = 0
  BY <1>1, <1>3, <1>4, <1>5, <1>9
<1>10. CASE m % 2 = 1 /\ n % 2 = 0
  BY <1>1, <1>3, <1>4, <1>5, <1>7, <1>10
<1>11. CASE m % 2 = 0 /\ n % 2 = 1
  BY <1>1, <1>3, <1>4, <1>5, <1>6, <1>11
<1>12. CASE m % 2 = 1 /\ n % 2 = 1
  BY <1>1, <1>3, <1>4, <1>5, <1>8, <1>12
<1> QED BY <1>1, <1>9, <1>10, <1>11, <1>12

\* Eight bits shifted out.
LEMMA ShiftedOfXor ==
    ASSUME NEW m \in Uint16, NEW n \in Uint16
    PROVE  Shifted(m) \in Uint16 /\ Shifted(Xor(m, n)) = Xor(Shifted(m), Shifted(n))
<1> DEFINE m1 == Shift[m]   n1 == Shift[n]
           m2 == Shift[m1]  n2 == Shift[n1]
           m3 == Shift[m2]  n3 == Shift[n2]
           m4 == Shift[m3]  n4 == Shift[n3]
           m5 == Shift[m4]  n5 == Shift[n4]
           m6 == Shift[m5]  n6 == Shift[n5]
           m7 == Shift[m6]  n7 == Shift[n6]
           m8 == Shift[m7]  n8 == Shift[n7]
<1>1. m1 \in Uint16 /\ n1 \in Uint16 /\ Shift[Xor(m, n)] = Xor(m1, n1)
  BY ShiftIs, ShiftOfXor
<1> HIDE DEF m1, n1
<1>2. m2 \in Uint16 /\ n2 \in Uint16 /\ Shift[Xor(m1, n1)] = Xor(m2, n2)
  BY <1>1, ShiftIs, ShiftOfXor
<1> HIDE DEF m2, n2
<1>3. m3 \in Uint16 /\ n3 \in Uint16 /\ Shift[Xor(m2, n2)] = Xor(m3, n3)
  BY <1>2, ShiftIs, ShiftOfXor
<1> HIDE DEF m3, n3
<1>4. m4 \in Uint16 /\ n4 \in Uint16 /\ Shift[Xor(m3, n3)] = Xor(m4, n4)
  BY <1>3, ShiftIs, ShiftOfXor
<1> HIDE DEF m4, n4
<1>5. m5 \in Uint16 /\ n5 \in Uint16 /\ Shift[Xor(m4, n4)] = Xor(m5, n5)
  BY <1>4, ShiftIs, ShiftOfXor
<1> HIDE DEF m5, n5
<1>6. m6 \in Uint16 /\ n6 \in Uint16 /\ Shift[Xor(m5, n5)] = Xor(m6, n6)
  BY <1>5, ShiftIs, ShiftOfXor
<1> HIDE DEF m6, n6
<1>7. m7 \in Uint16 /\ n7 \in Uint16 /\ Shift[Xor(m6, n6)] = Xor(m7, n7)
  BY <1>6, ShiftIs, ShiftOfXor
<1> HIDE DEF m7, n7
<1>8. m8 \in Uint16 /\ n8 \in Uint16 /\ Shift[Xor(m7, n7)] = Xor(m8, n8)
  BY <1>7, ShiftIs, ShiftOfXor
<1> HIDE DEF m8, n8
<1>9. Shifted(m) = m8 /\ Shifted(n) = n8
  BY Zenon DEF Shifted, m1, m2, m3, m4, m5, m6, m7, m8, n1, n2, n3, n4, n5, n6, n7, n8
<1>10. Shifted(Xor(m, n)) = Xor(m8, n8)
  BY <1>1, <1>2, <1>3, <1>4, <1>5, <1>6, <1>7, <1>8, Zenon DEF Shifted
<1> QED BY <1>8, <1>9, <1>10, Zenon

LEMMA ShiftDouble ==
    ASSUME NEW x \in Nat, NEW m, m = 2 * x, m \in Uint16
    PROVE  Shift[m] = x
<1>1. m % 2 = 0 /\ m \div 2 = x
  BY SMT
<1> QED BY <1>1, ShiftIs

\* A high byte is shifted down.
LEMMA ShiftedHigh == ASSUME NEW h \in Byte PROVE Shifted(256 * h) = h
<1>0. h \in Nat /\ h \in 0..255
  BY DEF Byte
<1>1. /\ 256 * h = 2 * (128 * h) /\ 128 * h = 2 * (64 * h) /\ 64 * h = 2 * (32 * h)
      /\ 32 * h = 2 * (16 * h) /\ 16 * h = 2 * (8 * h) /\ 8 * h = 2 * (4 * h)
      /\ 4 * h = 2 * (2 * h)
      /\ 128 * h \in Nat /\ 64 * h \in Nat /\ 32 * h \in Nat /\ 16 * h \in Nat
      /\ 8 * h \in Nat /\ 4 * h \in Nat /\ 2 * h \in Nat
  BY <1>0
<1>2. /\ 256 * h \in Uint16 /\ 128 * h \in Uint16 /\ 64 * h \in Uint16 /\ 32 * h \in Uint16
      /\ 16 * h \in Uint16 /\ 8 * h \in Uint16 /\ 4 * h \in Uint16 /\ 2 * h \in Uint16
  <2>1. 256 * h \in Uint16
    BY <1>0, Uint16Top, SMT
  <2>2. 128 * h \in Uint16
    BY <1>0, Uint16Top, SMT
  <2>3. 64 * h \in Uint16
    BY <1>0, Uint16Top, SMT
  <2>4. 32 * h \in Uint16
    BY <1>0, Uint16Top, SMT
  <2>5. 16 * h \in Uint16
    BY <1>0, Uint16Top, SMT
  <2>6. 8 * h \in Uint16
    BY <1>0, Uint16Top, SMT
  <2>7. 4 * h \in Uint16
    BY <1>0, Uint16Top, SMT
  <2>8. 2 * h \in Uint16
    BY <1>0, Uint16Top, SMT
  <2> QED BY <2>1, <2>2, <2>3, <2>4, <2>5, <2>6, <2>7, <2>8
<1> DEFINE h8 == 256 * h  h7 == 128 * h  h6 == 64 * h  h5 == 32 * h
           h4 == 16 * h   h3 == 8 * h    h2 == 4 * h   h1 == 2 * h
<1>3. /\ h8 = 2 * h7 /\ h7 = 2 * h6 /\ h6 = 2 * h5 /\ h5 = 2 * h4
      /\ h4 = 2 * h3 /\ h3 = 2 * h2 /\ h2 = 2 * h1 /\ h1 = 2 * h
      /\ h7 \in Nat /\ h6 \in Nat /\ h5 \in Nat /\ h4 \in Nat
      /\ h3 \in Nat /\ h2 \in Nat /\ h1 \in Nat /\ h \in Nat
      /\ h8 \in Uint16 /\ h7 \in Uint16 /\ h6 \in Uint16 /\ h5 \in Uint16
      /\ h4 \in Uint16 /\ h3 \in Uint16 /\ h2 \in Uint16 /\ h1 \in Uint16
  BY <1>0, <1>1, <1>2
<1> HIDE DEF h8, h7, h6, h5, h4, h3, h2, h1
<1>4. /\ Shift[h8] = h7 /\ Shift[h7] = h6 /\ Shift[h6] = h5 /\ Shift[h5] = h4
      /\ Shift[h4] = h3 /\ Shift[h3] = h2 /\ Shift[h2] = h1 /\ Shift[h1] = h
  BY <1>3, ShiftDouble
<1>5. Shifted(h8) = h
  BY <1>4, Zenon DEF Shifted
<1> QED BY <1>5 DEF h8

LEMMA OneByte ==
    ASSUME NEW x \in Byte
    PROVE  x \in Uint16 /\ x \div 256 = 0 /\ x % 256 = x
<1>1. x \in 0..255
  BY DEF Byte
<1>2. x \in Uint16
  BY <1>1, Uint16Top, SMT
<1>3. x \div 256 = 0 /\ x % 256 = x
  BY <1>1, SMT
<1> QED BY <1>2, <1>3

\* A byte enters: the next sum is its high byte and what the lower byte is
\* shifted to.
LEMMA ByteEnters ==
    ASSUME NEW h \in Byte, NEW l \in Byte, NEW b \in Byte
    PROVE  LET i == ByteXor[l][b]
               t == Shifted(i) IN
           /\ i \in Byte /\ t \in Uint16
           /\ Shifted(Xor(256 * h + l, b)) = 256 * (t \div 256) + ByteXor[h][t % 256]
<1> DEFINE i == ByteXor[l][b]
           t == Shifted(i)
<1>1. i \in Byte
  BY ByteXorFacts
<1>2. \A x \in Byte : x \in Uint16 /\ x \div 256 = 0 /\ x % 256 = x
  BY OneByte
<1>3. 0 \in Byte
  BY DEF Byte
<1>4. /\ 256 * h + l \in Uint16 /\ (256 * h + l) \div 256 = h /\ (256 * h + l) % 256 = l
      /\ 256 * h + 0 \in Uint16 /\ (256 * h + 0) \div 256 = h /\ (256 * h + 0) % 256 = 0
  BY <1>3, OfHalves
<1> HIDE DEF i
<1>5. t \in Uint16
  BY <1>1, <1>2, ShiftedOfXor
<1>6. /\ ByteXor[h][0] = h /\ ByteXor[0][i] = ByteXor[i][0] /\ ByteXor[i][0] = i
  BY <1>1, <1>3, ByteXorFacts
<1>7. Xor(256 * h + l, b) = 256 * h + i
  BY <1>2, <1>4, <1>6 DEF Xor, i
<1>8. Xor(256 * h + 0, i) = 256 * h + i
  BY <1>1, <1>2, <1>4, <1>6 DEF Xor
<1>9. 256 * h + 0 = 256 * h
  BY DEF Byte
<1>10. Shifted(Xor(256 * h + 0, i)) = Xor(Shifted(256 * h + 0), t)
  BY <1>1, <1>2, <1>4, ShiftedOfXor
<1>11. Shifted(256 * h + 0) = h
  BY <1>9, ShiftedHigh
<1> HIDE DEF t
<1>12. t \div 256 \in Byte /\ t % 256 \in Byte
  BY <1>5, Halves
<1>13. ByteXor[0][t \div 256] = t \div 256
  <2>1. ByteXor[0][t \div 256] = ByteXor[t \div 256][0]
    BY <1>3, <1>12, ByteXorFacts
  <2>2. ByteXor[t \div 256][0] = t \div 256
    BY <1>12, ByteXorFacts
  <2> QED BY <2>1, <2>2
<1>14. h \div 256 = 0 /\ h % 256 = h
  BY <1>2
<1>15. Xor(h, t) = 256 * (t \div 256) + ByteXor[h][t % 256]
  BY <1>13, <1>14 DEF Xor
<1> QED BY <1>1, <1>5, <1>7, <1>8, <1>10, <1>11, <1>15 DEF i, t

LEMMA XorIs ==
    ASSUME NEW m \in Byte, NEW n \in Byte
    PROVE  ByteXor[m][n] = 1 * (((m \div 1) + (n \div 1)) % 2)
             + 2 * (((m \div 2) + (n \div 2)) % 2)
             + 4 * (((m \div 4) + (n \div 4)) % 2)
             + 8 * (((m \div 8) + (n \div 8)) % 2)
             + 16 * (((m \div 16) + (n \div 16)) % 2)
             + 32 * (((m \div 32) + (n \div 32)) % 2)
             + 64 * (((m \div 64) + (n \div 64)) % 2)
             + 128 * (((m \div 128) + (n \div 128)) % 2)
BY DEF ByteXor

LEMMA Sixteen ==
    ASSUME NEW c \in 0..15
    PROVE  \/ c = 0 \/ c = 1 \/ c = 2 \/ c = 3 \/ c = 4 \/ c = 5 \/ c = 6 \/ c = 7
           \/ c = 8 \/ c = 9 \/ c = 10 \/ c = 11 \/ c = 12 \/ c = 13 \/ c = 14 \/ c = 15
OBVIOUS

LEMMA TablesHoldBytes ==
    ASSUME NEW i \in Byte
    PROVE  crcLowBytes[i + 1] \in Byte /\ crcHighBytes[i + 1] \in Byte
<1>1. i + 1 \in 1..256
  BY DEF Byte
<1>2. \A k \in 1..256 : crcLowBytes[k] \in 0..255
  BY DEF crcLowBytes
<1>3. \A k \in 1..256 : crcHighBytes[k] \in 0..255
  BY DEF crcHighBytes
<1> QED BY <1>1, <1>2, <1>3 DEF Byte

\* How the entries of the tables combine: the sixteen first of them, ...
LEMMA FirstEntries ==
    ASSUME NEW p \in {1, 2, 4, 8}, NEW c \in 0..15, c < p
    PROVE  /\ ByteXor[p][c] = p + c /\ p + c \in Byte
           /\ crcLowBytes[p + c + 1] = ByteXor[crcLowBytes[p + 1]][crcLowBytes[c + 1]]
           /\ crcHighBytes[p + c + 1] = ByteXor[crcHighBytes[p + 1]][crcHighBytes[c + 1]]
<1>1. p \in Byte /\ c \in Byte /\ p + c \in Byte
  BY DEF Byte
<1>2. ByteXor[p][c] = p + c
  <2>1. /\ 0 \in Byte /\ 1 \in Byte /\ 2 \in Byte /\ 3 \in Byte /\ 4 \in Byte
        /\ 5 \in Byte /\ 6 \in Byte /\ 7 \in Byte /\ 8 \in Byte
    BY DEF Byte
  <2>2. /\ ByteXor[1][0] = 1 /\ ByteXor[2][0] = 2 /\ ByteXor[2][1] = 3
        /\ ByteXor[4][0] = 4 /\ ByteXor[4][1] = 5 /\ ByteXor[4][2] = 6
        /\ ByteXor[4][3] = 7 /\ ByteXor[8][0] = 8 /\ ByteXor[8][1] = 9
        /\ ByteXor[8][2] = 10 /\ ByteXor[8][3] = 11 /\ ByteXor[8][4] = 12
        /\ ByteXor[8][5] = 13 /\ ByteXor[8][6] = 14 /\ ByteXor[8][7] = 15
    BY <2>1, XorIs
  <2> QED BY <2>2, Sixteen
<1>3. /\ crcLowBytes[p + 1] \in Byte /\ crcLowBytes[c + 1] \in Byte
      /\ crcHighBytes[p + 1] \in Byte /\ crcHighBytes[c + 1] \in Byte
  BY <1>1, TablesHoldBytes
<1>4. crcLowBytes[p + c + 1] = ByteXor[crcLowBytes[p + 1]][crcLowBytes[c + 1]]
  BY Sixteen, <1>3, XorIs, SMTT(120) DEF crcLowBytes
<1>5. crcHighBytes[p + c + 1] = ByteXor[crcHighBytes[p + 1]][crcHighBytes[c + 1]]
  BY Sixteen, <1>3, XorIs, SMTT(120) DEF crcHighBytes
<1> QED BY <1>1, <1>2, <1>4, <1>5

\* ... every sixteenth, ...
LEMMA RowEntries ==
    ASSUME NEW p \in {1, 2, 4, 8}, NEW c \in 0..15, c < p
    PROVE  /\ ByteXor[16 * p][16 * c] = 16 * p + 16 * c
           /\ 16 * p \in Byte /\ 16 * c \in Byte /\ 16 * p + 16 * c \in Byte
           /\ crcLowBytes[16 * p + 16 * c + 1]
                = ByteXor[crcLowBytes[16 * p + 1]][crcLowBytes[16 * c + 1]]
           /\ crcHighBytes[16 * p + 16 * c + 1]
                = ByteXor[crcHighBytes[16 * p + 1]][crcHighBytes[16 * c + 1]]
<1>1. 16 * p \in Byte /\ 16 * c \in Byte /\ 16 * p + 16 * c \in Byte
  BY DEF Byte
<1>2. ByteXor[16 * p][16 * c] = 16 * p + 16 * c
  <2>1. /\ 0 \in Byte /\ 16 \in Byte /\ 32 \in Byte /\ 48 \in Byte /\ 64 \in Byte
        /\ 80 \in Byte /\ 96 \in Byte /\ 112 \in Byte /\ 128 \in Byte
    BY DEF Byte
  <2>2. /\ ByteXor[16][0] = 16 /\ ByteXor[32][0] = 32 /\ ByteXor[32][16] = 48
        /\ ByteXor[64][0] = 64 /\ ByteXor[64][16] = 80 /\ ByteXor[64][32] = 96
        /\ ByteXor[64][48] = 112 /\ ByteXor[128][0] = 128 /\ ByteXor[128][16] = 144
        /\ ByteXor[128][32] = 160 /\ ByteXor[128][48] = 176 /\ ByteXor[128][64] = 192
        /\ ByteXor[128][80] = 208 /\ ByteXor[128][96] = 224 /\ ByteXor[128][112] = 240
    BY <2>1, XorIs
  <2> QED BY <2>2, Sixteen
<1>3. /\ crcLowBytes[16 * p + 1] \in Byte /\ crcLowBytes[16 * c + 1] \in Byte
      /\ crcHighBytes[16 * p + 1] \in Byte /\ crcHighBytes[16 * c + 1] \in Byte
  BY <1>1, TablesHoldBytes
<1>4. crcLowBytes[16 * p + 16 * c + 1] = ByteXor[crcLowBytes[16 * p + 1]][crcLowBytes[16 * c + 1]]
  BY Sixteen, <1>3, XorIs, SMTT(120) DEF crcLowBytes
<1>5. crcHighBytes[16 * p + 16 * c + 1] = ByteXor[crcHighBytes[16 * p + 1]][crcHighBytes[16 * c + 1]]
  BY Sixteen, <1>3, XorIs, SMTT(120) DEF crcHighBytes
<1> QED BY <1>1, <1>2, <1>4, <1>5

\* ... and all of them.
LEMMA AllEntries ==
    ASSUME NEW r \in 0..15, NEW c \in 0..15
    PROVE  /\ ByteXor[16 * r][c] = 16 * r + c
           /\ 16 * r \in Byte /\ c \in Byte /\ 16 * r + c \in Byte
           /\ crcLowBytes[16 * r + c + 1]
                = ByteXor[crcLowBytes[16 * r + 1]][crcLowBytes[c + 1]]
           /\ crcHighBytes[16 * r + c + 1]
                = ByteXor[crcHighBytes[16 * r + 1]][crcHighBytes[c + 1]]
<1>1. 16 * r \in Byte /\ c \in Byte /\ 16 * r + c \in Byte
  BY DEF Byte
<1>2. ByteXor[16 * r][c] = 16 * r + c
  <2> DEFINE m == 16 * r
  <2>1. /\ m \div 1 = 16 * r /\ m \div 2 = 8 * r /\ m \div 4 = 4 * r /\ m \div 8 = 2 * r
        /\ m \div 16 = r /\ m \div 32 = r \div 2 /\ m \div 64 = r \div 4 /\ m \div 128 = r \div 8
    OBVIOUS
  <2>2. /\ c \div 16 = 0 /\ c \div 32 = 0 /\ c \div 64 = 0 /\ c \div 128 = 0
    OBVIOUS
  <2> HIDE DEF m
  <2>3. m \in Byte
    BY <1>1 DEF m
  <2>4. ByteXor[m][c] = 1 * (((m \div 1) + (c \div 1)) % 2)
          + 2 * (((m \div 2) + (c \div 2)) % 2)
          + 4 * (((m \div 4) + (c \div 4)) % 2)
          + 8 * (((m \div 8) + (c \div 8)) % 2)
          + 16 * (((m \div 16) + (c \div 16)) % 2)
          + 32 * (((m \div 32) + (c \div 32)) % 2)
          + 64 * (((m \div 64) + (c \div 64)) % 2)
          + 128 * (((m \div 128) + (c \div 128)) % 2)
    <3>1. c \in Byte
      BY DEF Byte
    <3> QED BY <2>3, <3>1 DEF ByteXor
  <2>5. /\ (16 * r + (c \div 1)) % 2 = (c \div 1) % 2
        /\ (8 * r + (c \div 2)) % 2 = (c \div 2) % 2
        /\ (4 * r + (c \div 4)) % 2 = (c \div 4) % 2
        /\ (2 * r + (c \div 8)) % 2 = (c \div 8) % 2
    OBVIOUS
  <2>6. c = ((c \div 1) % 2) + 2 * ((c \div 2) % 2) + 4 * ((c \div 4) % 2) + 8 * ((c \div 8) % 2)
    OBVIOUS
  <2>7. 16 * r = 16 * ((r + 0) % 2) + 32 * (((r \div 2) + 0) % 2)
             + 64 * (((r \div 4) + 0) % 2) + 128 * (((r \div 8) + 0) % 2)
    OBVIOUS
  <2> QED BY <2>1, <2>2, <2>5, <2>6, <2>7, <2>4 DEF m
<1>3. /\ crcLowBytes[16 * r + 1] \in Byte /\ crcLowBytes[c + 1] \in Byte
      /\ crcHighBytes[16 * r + 1] \in Byte /\ crcHighBytes[c + 1] \in Byte
  BY <1>1, TablesHoldBytes
<1>4. crcLowBytes[16 * r + c + 1] = ByteXor[crcLowBytes[16 * r + 1]][crcLowBytes[c + 1]]
  BY Sixteen, <1>3, XorIs, SMTT(180) DEF crcLowBytes
<1>5. crcHighBytes[16 * r + c + 1] = ByteXor[crcHighBytes[16 * r + 1]][crcHighBytes[c + 1]]
  BY Sixteen, <1>3, XorIs, SMTT(180) DEF crcHighBytes
<1> QED BY <1>1, <1>2, <1>4, <1>5

TwoBytes(h, l) == 256 * h + l

\* A bit that leaves an odd number brings in the polynomial, byte by byte.
LEMMA ShiftOdd ==
    ASSUME NEW h \in Byte, NEW l \in Byte, l % 2 = 1
    PROVE  Shift[TwoBytes(h, l)]
             = TwoBytes(ByteXor[h \div 2][160], ByteXor[128 * (h % 2) + (l \div 2)][1])
<1>1. 160 \in Byte /\ 1 \in Byte
  BY DEF Byte
<1>2. Polynomial \div 256 = 160 /\ Polynomial % 256 = 1
  BY SMT DEF Polynomial
<1> DEFINE m == 256 * h + l
           p == h \div 2
           q == 128 * (h % 2) + (l \div 2)
<1>3. m \in Uint16
  BY OfHalves
<1>4. m % 2 = 1 /\ m \div 2 = 256 * p + q /\ p \in 0..255 /\ q \in 0..255
  BY DEF Byte
<1> HIDE DEF m, p, q
<1>5. p \in Byte /\ q \in Byte
  BY <1>4 DEF Byte
<1>6. (m \div 2) \div 256 = p /\ (m \div 2) % 256 = q
  BY <1>4, <1>5, OfHalves
<1>7. Xor(m \div 2, Polynomial) = 256 * ByteXor[p][160] + ByteXor[q][1]
  BY <1>2, <1>6 DEF Xor
<1>8. Shift[m] = TwoBytes(ByteXor[p][160], ByteXor[q][1])
  BY <1>3, <1>4, <1>7, ShiftIs DEF TwoBytes
<1> QED BY <1>8, Zenon DEF m, p, q, TwoBytes

\* One bit on its way through the register.
LEMMA OneShifted ==
    /\ Shift[TwoBytes(0, 1)] = TwoBytes(160, 1) /\ Shift[TwoBytes(160, 1)] = TwoBytes(240, 1)
    /\ Shift[TwoBytes(240, 1)] = TwoBytes(216, 1) /\ Shift[TwoBytes(216, 1)] = TwoBytes(204, 1)
    /\ Shift[TwoBytes(204, 1)] = TwoBytes(198, 1) /\ Shift[TwoBytes(198, 1)] = TwoBytes(195, 1)
    /\ Shift[TwoBytes(195, 1)] = TwoBytes(193, 129) /\ Shift[TwoBytes(193, 129)] = TwoBytes(192, 193)
<1>1. /\ 0 \in Byte /\ 1 \in Byte /\ 80 \in Byte /\ 96 \in Byte /\ 97 \in Byte /\ 99 \in Byte
      /\ 102 \in Byte /\ 108 \in Byte /\ 120 \in Byte /\ 128 \in Byte /\ 129 \in Byte /\ 160 \in Byte
      /\ 192 \in Byte /\ 193 \in Byte /\ 195 \in Byte /\ 198 \in Byte /\ 204 \in Byte /\ 216 \in Byte
      /\ 240 \in Byte
  BY DEF Byte
<1>2. /\ ByteXor[0][160] = 160
      /\ ByteXor[80][160] = 240
      /\ ByteXor[120][160] = 216
      /\ ByteXor[108][160] = 204
      /\ ByteXor[102][160] = 198
      /\ ByteXor[99][160] = 195
      /\ ByteXor[97][160] = 193
      /\ ByteXor[96][160] = 192
      /\ ByteXor[0][1] = 1 /\ ByteXor[128][1] = 129 /\ ByteXor[192][1] = 193
  BY <1>1, XorIs
<1>3. Shift[TwoBytes(0, 1)] = TwoBytes(160, 1)
  BY <1>1, <1>2, ShiftOdd
<1>4. Shift[TwoBytes(160, 1)] = TwoBytes(240, 1)
  BY <1>1, <1>2, ShiftOdd
<1>5. Shift[TwoBytes(240, 1)] = TwoBytes(216, 1)
  BY <1>1, <1>2, ShiftOdd
<1>6. Shift[TwoBytes(216, 1)] = TwoBytes(204, 1)
  BY <1>1, <1>2, ShiftOdd
<1>7. Shift[TwoBytes(204, 1)] = TwoBytes(198, 1)
  BY <1>1, <1>2, ShiftOdd
<1>8. Shift[TwoBytes(198, 1)] = TwoBytes(195, 1)
  BY <1>1, <1>2, ShiftOdd
<1>9. Shift[TwoBytes(195, 1)] = TwoBytes(193, 129)
  BY <1>1, <1>2, ShiftOdd
<1>10. Shift[TwoBytes(193, 129)] = TwoBytes(192, 193)
  BY <1>1, <1>2, ShiftOdd
<1> QED BY <1>3, <1>4, <1>5, <1>6, <1>7, <1>8, <1>9, <1>10

\* What the tables hold: a byte after eight shifts.
Entry(i) == Shifted(i) = TwoBytes(crcLowBytes[i + 1], crcHighBytes[i + 1])

LEMMA PowerEntries ==
    /\ Entry(0) /\ Entry(1) /\ Entry(2) /\ Entry(4) /\ Entry(8)
    /\ Entry(16) /\ Entry(32) /\ Entry(64) /\ Entry(128)
<1>1. /\ Shift[2] = 1 /\ Shift[4] = 2 /\ Shift[8] = 4 /\ Shift[16] = 8
      /\ Shift[32] = 16 /\ Shift[64] = 32 /\ Shift[128] = 64
  <2>1. \A x \in Nat : 2 * x \in Byte => Shift[2 * x] = x
    BY OneByte, ShiftDouble
  <2>2. /\ 2 * 1 \in Byte /\ 2 * 2 \in Byte /\ 2 * 4 \in Byte /\ 2 * 8 \in Byte
        /\ 2 * 16 \in Byte /\ 2 * 32 \in Byte /\ 2 * 64 \in Byte
    BY DEF Byte
  <2>3. /\ Shift[2 * 1] = 1 /\ Shift[2 * 2] = 2 /\ Shift[2 * 4] = 4 /\ Shift[2 * 8] = 8
        /\ Shift[2 * 16] = 16 /\ Shift[2 * 32] = 32 /\ Shift[2 * 64] = 64
    <3> DEFINE D(x) == 2 * x
    <3>1. \A x \in Nat : D(x) \in Byte => Shift[D(x)] = x
      BY <2>1
    <3>2. /\ D(1) \in Byte /\ D(2) \in Byte /\ D(4) \in Byte /\ D(8) \in Byte
          /\ D(16) \in Byte /\ D(32) \in Byte /\ D(64) \in Byte
      BY <2>2
    <3> HIDE DEF D
    <3>3. /\ Shift[D(1)] = 1 /\ Shift[D(2)] = 2 /\ Shift[D(4)] = 4 /\ Shift[D(8)] = 8
          /\ Shift[D(16)] = 16 /\ Shift[D(32)] = 32 /\ Shift[D(64)] = 64
      BY <3>1, <3>2
    <3> QED BY <3>3 DEF D
  <2> QED BY <2>3
<1>2. TwoBytes(0, 1) = 1
  BY DEF TwoBytes
<1>3. /\ Shifted(1) = TwoBytes(192, 193) /\ Shifted(2) = TwoBytes(193, 129)
      /\ Shifted(4) = TwoBytes(195, 1) /\ Shifted(8) = TwoBytes(198, 1)
      /\ Shifted(16) = TwoBytes(204, 1) /\ Shifted(32) = TwoBytes(216, 1)
      /\ Shifted(64) = TwoBytes(240, 1) /\ Shifted(128) = TwoBytes(160, 1)
  <2> DEFINE w1 == TwoBytes(160, 1)  w2 == TwoBytes(240, 1)
             w3 == TwoBytes(216, 1)  w4 == TwoBytes(204, 1)
             w5 == TwoBytes(198, 1)  w6 == TwoBytes(195, 1)
             w7 == TwoBytes(193, 129)  w8 == TwoBytes(192, 193)
             v0 == 1   v1 == 2   v2 == 4   v3 == 8   v4 == 16   v5 == 32   v6 == 64   v7 == 128
  <2>1. /\ Shift[v0] = w1 /\ Shift[w1] = w2 /\ Shift[w2] = w3 /\ Shift[w3] = w4
        /\ Shift[w4] = w5 /\ Shift[w5] = w6 /\ Shift[w6] = w7 /\ Shift[w7] = w8
    BY <1>2, OneShifted
  <2>2. /\ Shift[v1] = v0 /\ Shift[v2] = v1 /\ Shift[v3] = v2 /\ Shift[v4] = v3
        /\ Shift[v5] = v4 /\ Shift[v6] = v5 /\ Shift[v7] = v6
    BY <1>1
  <2> HIDE DEF w1, w2, w3, w4, w5, w6, w7, w8, v0, v1, v2, v3, v4, v5, v6, v7
  <2>3. /\ Shifted(v0) = w8 /\ Shifted(v1) = w7 /\ Shifted(v2) = w6 /\ Shifted(v3) = w5
        /\ Shifted(v4) = w4 /\ Shifted(v5) = w3 /\ Shifted(v6) = w2 /\ Shifted(v7) = w1
    BY <2>1, <2>2 DEF Shifted
  <2> QED BY <2>3 DEF w1, w2, w3, w4, w5, w6, w7, w8, v0, v1, v2, v3, v4, v5, v6, v7
<1>4. Shifted(0) = 0
  <2>1. 0 \in Byte /\ 256 * 0 = 0
    BY DEF Byte
  <2> QED BY <2>1, ShiftedHigh
<1>5. TwoBytes(0, 0) = 0
  BY DEF TwoBytes
<1>6. /\ crcLowBytes[0 + 1] = 0 /\ crcLowBytes[1 + 1] = 192 /\ crcLowBytes[2 + 1] = 193
      /\ crcLowBytes[4 + 1] = 195 /\ crcLowBytes[8 + 1] = 198 /\ crcLowBytes[16 + 1] = 204
      /\ crcLowBytes[32 + 1] = 216 /\ crcLowBytes[64 + 1] = 240 /\ crcLowBytes[128 + 1] = 160
  BY DEF crcLowBytes
<1>7. /\ crcHighBytes[0 + 1] = 0 /\ crcHighBytes[1 + 1] = 193 /\ crcHighBytes[2 + 1] = 129
      /\ crcHighBytes[4 + 1] = 1 /\ crcHighBytes[8 + 1] = 1 /\ crcHighBytes[16 + 1] = 1
      /\ crcHighBytes[32 + 1] = 1 /\ crcHighBytes[64 + 1] = 1 /\ crcHighBytes[128 + 1] = 1
  BY DEF crcHighBytes
<1>8. Entry(0) /\ Entry(1) /\ Entry(2)
  BY <1>3, <1>4, <1>5, <1>6, <1>7, Zenon DEF Entry
<1>9. Entry(4) /\ Entry(8) /\ Entry(16)
  BY <1>3, <1>6, <1>7, Zenon DEF Entry
<1>10. Entry(32) /\ Entry(64) /\ Entry(128)
  BY <1>3, <1>6, <1>7, Zenon DEF Entry
<1> QED BY <1>8, <1>9, <1>10

LEMMA TwoBytesAre ==
    ASSUME NEW h \in Byte, NEW l \in Byte
    PROVE  /\ TwoBytes(h, l) \in Uint16
           /\ TwoBytes(h, l) \div 256 = h /\ TwoBytes(h, l) % 256 = l
BY OfHalves DEF TwoBytes

\* Two entries make a third.
LEMMA EntryOfTwo ==
    ASSUME NEW i \in Byte, NEW j \in Byte, Entry(i), Entry(j),
           i + j \in Byte, ByteXor[i][j] = i + j,
           crcLowBytes[i + j + 1] = ByteXor[crcLowBytes[i + 1]][crcLowBytes[j + 1]],
           crcHighBytes[i + j + 1] = ByteXor[crcHighBytes[i + 1]][crcHighBytes[j + 1]]
    PROVE  Entry(i + j)
<1>1. /\ i \in Uint16 /\ i \div 256 = 0 /\ i % 256 = i
      /\ j \in Uint16 /\ j \div 256 = 0 /\ j % 256 = j
  BY OneByte
<1>2. 0 \in Byte
  BY DEF Byte
<1>3. ByteXor[0][0] = 0
  BY <1>2, ByteXorFacts
<1>4. Xor(i, j) = 256 * 0 + (i + j)
  BY <1>1, <1>3 DEF Xor
<1>5. Xor(i, j) = i + j
  BY <1>4 DEF Byte
<1>6. Shifted(i + j) = Xor(Shifted(i), Shifted(j))
  BY <1>1, <1>5, ShiftedOfXor
<1> DEFINE p == crcLowBytes[i + 1]   q == crcHighBytes[i + 1]
           r == crcLowBytes[j + 1]   s == crcHighBytes[j + 1]
<1>7. p \in Byte /\ q \in Byte /\ r \in Byte /\ s \in Byte
  BY TablesHoldBytes
<1>8. Shifted(i) = TwoBytes(p, q) /\ Shifted(j) = TwoBytes(r, s)
  BY DEF Entry
<1> HIDE DEF p, q, r, s
<1>9. Xor(TwoBytes(p, q), TwoBytes(r, s)) = TwoBytes(ByteXor[p][r], ByteXor[q][s])
  <2>1. /\ TwoBytes(p, q) \div 256 = p /\ TwoBytes(p, q) % 256 = q
        /\ TwoBytes(r, s) \div 256 = r /\ TwoBytes(r, s) % 256 = s
    BY <1>7, TwoBytesAre
  <2>2. Xor(TwoBytes(p, q), TwoBytes(r, s)) = 256 * ByteXor[p][r] + ByteXor[q][s]
    BY <2>1 DEF Xor
  <2> QED BY <2>2, Zenon DEF TwoBytes
<1>10. Shifted(i + j) = TwoBytes(ByteXor[p][r], ByteXor[q][s])
  BY <1>6, <1>8, <1>9
<1> QED BY <1>10 DEF Entry, p, q, r, s

\* The tables of crc.go hold every byte after eight shifts.
LEMMA TableIsRight == ASSUME NEW i \in Byte PROVE Entry(i)
<1>1. \A c \in 0..15 : Entry(c)
  <2>1. \A p \in {1, 2, 4, 8}, c \in 0..15 : Entry(p) /\ Entry(c) /\ c < p => Entry(p + c)
    <3> SUFFICES ASSUME NEW p \in {1, 2, 4, 8}, NEW c \in 0..15, Entry(p), Entry(c), c < p
                 PROVE  Entry(p + c)
      OBVIOUS
    <3>1. p \in Byte /\ c \in Byte
      BY DEF Byte
    <3> QED BY <3>1, FirstEntries, EntryOfTwo
  <2> DEFINE E(c) == Entry(c)
  <2>2. \A p \in {1, 2, 4, 8}, c \in 0..15 : E(p) /\ E(c) /\ c < p => E(p + c)
    BY <2>1
  <2>3. E(0) /\ E(1) /\ E(2) /\ E(4) /\ E(8)
    BY PowerEntries
  <2> HIDE DEF E
  <2>4. E(2 + 1) /\ E(4 + 1) /\ E(4 + 2) /\ E(8 + 1) /\ E(8 + 2) /\ E(8 + 4)
    BY <2>2, <2>3
  <2>5. E(3) /\ E(5) /\ E(6) /\ E(9) /\ E(10) /\ E(12)
    BY <2>4
  <2>6. E(4 + 3) /\ E(8 + 3) /\ E(8 + 5) /\ E(8 + 6)
    BY <2>2, <2>3, <2>5
  <2>7. E(7) /\ E(11) /\ E(13) /\ E(14)
    BY <2>6
  <2>8. E(8 + 7)
    BY <2>2, <2>3, <2>7
  <2>9. E(15)
    BY <2>8
  <2>10. \A c \in 0..15 : E(c)
    BY <2>3, <2>5, <2>7, <2>9, Sixteen
  <2> QED BY <2>10 DEF E
<1>2. \A r \in 0..15 : Entry(16 * r)
  <2> DEFINE E(c) == Entry(16 * c)
  <2>1. \A p \in {1, 2, 4, 8}, c \in 0..15 : E(p) /\ E(c) /\ c < p => E(p + c)
    <3> SUFFICES ASSUME NEW p \in {1, 2, 4, 8}, NEW c \in 0..15, E(p), E(c), c < p
                 PROVE  E(p + c)
      OBVIOUS
    <3> DEFINE x == 16 * p
               y == 16 * c
    <3>1. /\ ByteXor[x][y] = x + y /\ x \in Byte /\ y \in Byte /\ x + y \in Byte
          /\ crcLowBytes[x + y + 1] = ByteXor[crcLowBytes[x + 1]][crcLowBytes[y + 1]]
          /\ crcHighBytes[x + y + 1] = ByteXor[crcHighBytes[x + 1]][crcHighBytes[y + 1]]
      BY RowEntries
    <3>2. Entry(x) /\ Entry(y)
      OBVIOUS
    <3>3. Entry(x + y)
      <4> HIDE DEF x, y
      <4> QED BY <3>1, <3>2, EntryOfTwo
    <3>4. x + y = 16 * (p + c)
      OBVIOUS
    <3> QED BY <3>3, <3>4
  <2>2. E(0) /\ E(1) /\ E(2) /\ E(4) /\ E(8)
    BY PowerEntries
  <2> HIDE DEF E
  <2>3. E(2 + 1) /\ E(4 + 1) /\ E(4 + 2) /\ E(8 + 1) /\ E(8 + 2) /\ E(8 + 4)
    BY <2>1, <2>2
  <2>4. E(3) /\ E(5) /\ E(6) /\ E(9) /\ E(10) /\ E(12)
    BY <2>3
  <2>5. E(4 + 3) /\ E(8 + 3) /\ E(8 + 5) /\ E(8 + 6)
    BY <2>1, <2>2, <2>4
  <2>6. E(7) /\ E(11) /\ E(13) /\ E(14)
    BY <2>5
  <2>7. E(8 + 7)
    BY <2>1, <2>2, <2>6
  <2>8. E(15)
    BY <2>7
  <2>9. \A c \in 0..15 : E(c)
    BY <2>2, <2>4, <2>6, <2>8, Sixteen
  <2> QED BY <2>9 DEF E
<1> DEFINE r == i \div 16
           c == i % 16
<1>3. r \in 0..15 /\ c \in 0..15 /\ i = 16 * r + c
  BY DEF Byte
<1> HIDE DEF r, c
<1> DEFINE x == 16 * r
<1>4. /\ ByteXor[x][c] = x + c /\ x \in Byte /\ c \in Byte /\ x + c \in Byte
      /\ crcLowBytes[x + c + 1] = ByteXor[crcLowBytes[x + 1]][crcLowBytes[c + 1]]
      /\ crcHighBytes[x + c + 1] = ByteXor[crcHighBytes[x + 1]][crcHighBytes[c + 1]]
  BY <1>3, AllEntries
<1>5. Entry(x) /\ Entry(c)
  BY <1>1, <1>2, <1>3
<1> HIDE DEF x
<1>6. Entry(x + c)
  BY <1>4, <1>5, EntryOfTwo
<1> QED BY <1>3, <1>6 DEF x

CRCSums(h, bs) ==
    /\ h \in [0..Len(bs) -> Uint16]
    /\ h[0] = TwoBytes(255, 255)
    /\ \A k \in 1..Len(bs) : h[k] = Shifted(Xor(h[k - 1], bs[k]))

LEMMA SumsExist == ASSUME NEW bs \in Seq(Byte) PROVE \E h : CRCSums(h, bs)
<1> DEFINE n == Len(bs)
           c == TwoBytes(255, 255)
           step == [k \in 1..n |-> [s \in Uint16 |-> Shifted(Xor(s, bs[k]))]]
<1>1. n \in Nat /\ \A k \in 1..n : bs[k] \in Byte
  OBVIOUS
<1>2. c \in Uint16
  <2>1. 255 \in Byte
    BY DEF Byte
  <2> QED BY <2>1, TwoBytesAre
<1>3. step \in [1..n -> [Uint16 -> Uint16]]
  <2> SUFFICES ASSUME NEW k \in 1..n, NEW s \in Uint16 PROVE Shifted(Xor(s, bs[k])) \in Uint16
    OBVIOUS
  <2>1. bs[k] \in Uint16
    BY <1>1, OneByte
  <2>2. Xor(s, bs[k]) \in Uint16
    BY <2>1, XorFacts
  <2> QED BY <2>2, ShiftedOfXor
<1>4. \A k \in 1..n, s \in Uint16 : step[k][s] = Shifted(Xor(s, bs[k]))
  OBVIOUS
<1> HIDE DEF n, c, step
<1>5. PICK h \in [0..n -> Uint16] : Recurses(h, n, c, step)
  BY <1>1, <1>2, <1>3, Recursion
<1>6. h = [k \in 0..n |-> IF k = 0 THEN c ELSE step[k][h[k - 1]]]
  BY <1>5 DEF Recurses
<1>7. h[0] = c
  BY <1>1, <1>6
<1>8. ASSUME NEW k \in 1..n PROVE h[k] = Shifted(Xor(h[k - 1], bs[k]))
  <2>1. k \in 0..n /\ k # 0 /\ k - 1 \in 0..n
    BY <1>1
  <2>2. h[k] = step[k][h[k - 1]] /\ h[k - 1] \in Uint16
    BY <1>5, <1>6, <2>1
  <2> QED BY <1>4, <2>2
<1> QED BY <1>5, <1>7, <1>8 DEF CRCSums, n, c

\* What CRC16 returns is the last sum, its bytes swapped.
LEMMA CRC16IsSum ==
    ASSUME NEW bs \in Seq(Byte), NEW h, CRCSums(h, bs)
    PROVE  CRC16(bs) = TwoBytes(h[Len(bs)] % 256, h[Len(bs)] \div 256)
<1> DEFINE n == Len(bs)
           ones == 65535
           Sums(s) == [k \in 0..n |-> IF k = 0 THEN ones ELSE Shifted(Xor(s[k - 1], bs[k]))]
           f == CHOOSE s : s = Sums(s)
<1>1. CRC16(bs) = 256 * (f[n] % 256) + (f[n] \div 256)
  BY DEF CRC16
<1>2. n \in Nat
  OBVIOUS
<1>3. TwoBytes(255, 255) = 65535
  BY SMTT(60) DEF TwoBytes
<1>4. /\ h \in [0..n -> Uint16] /\ h[0] = ones
      /\ \A k \in 1..n : h[k] = Shifted(Xor(h[k - 1], bs[k]))
  BY <1>3 DEF CRCSums
<1> HIDE DEF ones, n
<1>5. \A s : Sums(s) = [k \in 0..n |-> IF k = 0 THEN ones ELSE Shifted(Xor(s[k - 1], bs[k]))]
  OBVIOUS
<1>6. h = Sums(h)
  <2> DEFINE g == Sums(h)
  <2>1. g = [k \in 0..n |-> IF k = 0 THEN ones ELSE Shifted(Xor(h[k - 1], bs[k]))]
    BY <1>5
  <2> HIDE DEF Sums, g
  <2>2. \A k \in 0..n : k = 0 \/ k \in 1..n
    BY <1>2
  <2>3. \A k \in 0..n : h[k] = g[k]
    BY <1>4, <2>1, <2>2
  <2>4. g = [k \in 0..n |-> g[k]]
    BY <2>1
  <2>5. h = [k \in 0..n |-> h[k]]
    BY <1>4
  <2> QED BY <2>3, <2>4, <2>5 DEF g
<1>7. f = Sums(f)
  <2> DEFINE Solves(s) == s = Sums(s)
  <2> HIDE DEF Sums
  <2>1. \E s : Solves(s)
    BY <1>6
  <2> QED BY <2>1
<1> HIDE DEF f
<1>8. f = [k \in 0..n |-> IF k = 0 THEN ones ELSE Shifted(Xor(f[k - 1], bs[k]))]
  BY <1>5, <1>7
<1> HIDE DEF Sums
<1> DEFINE Other == {k \in 0..n : f[k] # h[k]}
<1>9. ASSUME Other # {} PROVE FALSE
  <2>1. Other \subseteq Nat
    BY <1>2
  <2>2. PICK k \in Other : \A j \in Other : k <= j
    BY <1>9, <2>1, Least
  <2>3. k # 0
    BY <1>4, <1>8, <2>2
  <2>4. k - 1 \in 0..n /\ ~(k <= k - 1) /\ k \in 1..n
    BY <1>2, <2>2, <2>3
  <2>5. f[k - 1] = h[k - 1]
    BY <2>2, <2>4
  <2> QED BY <1>4, <1>8, <2>2, <2>3, <2>4, <2>5
<1>10. f[n] = h[n]
  BY <1>2, <1>9
<1> QED BY <1>1, <1>10 DEF TwoBytes, n

\* What a byte does to the register of the tables.
LEMMA PushedByte ==
    ASSUME NEW s \in Uint16, NEW b \in Byte
    PROVE  LET t == Shifted(Xor(s, b)) IN
           /\ t \in Uint16
           /\ PushByte([low |-> s % 256, high |-> s \div 256], b)
                = [low |-> t % 256, high |-> t \div 256]
<1> DEFINE h == s \div 256
           l == s % 256
           i == ByteXor[l][b]
           p == crcLowBytes[i + 1]
           q == crcHighBytes[i + 1]
           u == Shifted(i)
           t == Shifted(Xor(s, b))
           w == ByteXor[h][q]
<1>1. h \in Byte /\ l \in Byte /\ s = 256 * h + l
  BY Halves
<1> HIDE DEF h, l
<1>2. i \in Byte /\ u \in Uint16 /\ t = 256 * (u \div 256) + ByteXor[h][u % 256]
  BY <1>1, ByteEnters
<1>3. u = TwoBytes(p, q)
  BY <1>2, TableIsRight DEF Entry
<1>4. p \in Byte /\ q \in Byte
  BY <1>2, TablesHoldBytes
<1>5. PushByte([low |-> l, high |-> h], b) = [low |-> w, high |-> p]
  BY DEF PushByte
<1> HIDE DEF i, p, q, u, t
<1>6. u \div 256 = p /\ u % 256 = q
  BY <1>3, <1>4, TwoBytesAre
<1>7. w \in Byte
  BY <1>1, <1>4, ByteXorFacts
<1>8. t = 256 * p + w
  BY <1>2, <1>6
<1> HIDE DEF w
<1>9. t \in Uint16 /\ t \div 256 = p /\ t % 256 = w
  BY <1>4, <1>7, <1>8, OfHalves
<1> QED BY <1>5, <1>9, Zenon DEF h, l, t

\* And that of the tables is the last sum.
LEMMA TableCRCIsSum ==
    ASSUME NEW bs \in Seq(Byte), NEW h, CRCSums(h, bs)
    PROVE  TableCRC(bs) = h[Len(bs)] /\ h[Len(bs)] \in Uint16
<1> DEFINE n == Len(bs)
           Sums(s) == [k \in 0..n |-> IF k = 0 THEN [low |-> 255, high |-> 255] ELSE PushByte(s[k - 1], bs[k])]
           f == CHOOSE s : s = Sums(s)
           Register(m) == [low |-> m % 256, high |-> m \div 256]
           r == [k \in 0..n |-> Register(h[k])]
<1>1. TableCRC(bs) = 256 * f[n].high + f[n].low
  BY DEF TableCRC
<1>2. n \in Nat /\ \A k \in 1..n : bs[k] \in Byte
  OBVIOUS
<1>3. /\ h \in [0..n -> Uint16] /\ h[0] = TwoBytes(255, 255)
      /\ \A k \in 1..n : h[k] = Shifted(Xor(h[k - 1], bs[k]))
  BY DEF CRCSums
<1>4. Register(h[0]) = [low |-> 255, high |-> 255]
  <2>1. 255 \in Byte
    BY DEF Byte
  <2>2. TwoBytes(255, 255) \div 256 = 255 /\ TwoBytes(255, 255) % 256 = 255
    BY <2>1, TwoBytesAre
  <2> QED BY <1>3, <2>2
<1> DEFINE ones == [low |-> 255, high |-> 255]
<1> HIDE DEF n, ones
<1>5. ASSUME NEW k \in 1..n PROVE Register(h[k]) = PushByte(Register(h[k - 1]), bs[k])
  <2>1. k - 1 \in 0..n
    BY <1>2
  <2>2. h[k - 1] \in Uint16 /\ bs[k] \in Byte /\ h[k] = Shifted(Xor(h[k - 1], bs[k]))
    BY <1>2, <1>3, <2>1
  <2> QED BY <2>2, PushedByte
<1> HIDE DEF Register
<1>6. \A s : Sums(s) = [k \in 0..n |-> IF k = 0 THEN ones ELSE PushByte(s[k - 1], bs[k])]
  BY Zenon DEF ones
<1>7. r[0] = ones /\ \A k \in 1..n : r[k] = PushByte(r[k - 1], bs[k])
  <2>1. 0 \in 0..n /\ \A k \in 1..n : k \in 0..n /\ k - 1 \in 0..n
    BY <1>2
  <2>2. \A k \in 0..n : r[k] = Register(h[k])
    OBVIOUS
  <2> HIDE DEF r
  <2> QED BY <1>4, <1>5, <2>1, <2>2 DEF ones
<1>8. r = Sums(r)
  <2> DEFINE g == Sums(r)
  <2>1. g = [k \in 0..n |-> IF k = 0 THEN ones ELSE PushByte(r[k - 1], bs[k])]
    BY <1>6
  <2>5. r = [k \in 0..n |-> r[k]]
    OBVIOUS
  <2> HIDE DEF Sums, g, r
  <2>2. \A k \in 0..n : k = 0 \/ k \in 1..n
    BY <1>2
  <2>3. \A k \in 0..n : r[k] = g[k]
    BY <1>7, <2>1, <2>2
  <2>4. g = [k \in 0..n |-> g[k]]
    BY <2>1
  <2> QED BY <2>3, <2>4, <2>5 DEF g
<1>9. f = Sums(f)
  <2> HIDE DEF Sums, r
  <2> QED BY <1>8
<1> HIDE DEF f
<1>10. f = [k \in 0..n |-> IF k = 0 THEN ones ELSE PushByte(f[k - 1], bs[k])]
  BY <1>6, <1>9
<1>11. r[n] = Register(h[n])
  BY <1>2
<1> HIDE DEF Sums, r
<1> DEFINE Other == {k \in 0..n : f[k] # r[k]}
<1>12. ASSUME Other # {} PROVE FALSE
  <2>1. Other \subseteq Nat
    BY <1>2
  <2>2. PICK k \in Other : \A j \in Other : k <= j
    BY <1>12, <2>1, Least
  <2>3. k # 0
    BY <1>7, <1>10, <2>2
  <2>4. k - 1 \in 0..n /\ ~(k <= k - 1) /\ k \in 1..n
    BY <1>2, <2>2, <2>3
  <2>5. f[k - 1] = r[k - 1]
    BY <2>2, <2>4
  <2> QED BY <1>7, <1>10, <2>2, <2>3, <2>4, <2>5
<1>13. f[n] = Register(h[n])
  BY <1>2, <1>11, <1>12
<1>14. h[n] \in Uint16
  BY <1>2, <1>3
<1>15. 256 * (h[n] \div 256) + (h[n] % 256) = h[n]
  BY <1>14, Halves
<1> QED BY <1>1, <1>13, <1>14, <1>15 DEF Register, n

\* The two CRCs of the library are one, but for the order of the bytes.
LEMMA CRCsAgree ==
    ASSUME NEW bs \in Seq(Byte)
    PROVE  /\ TableCRC(bs) \in Uint16
           /\ CRC16(bs) \div 256 = TableCRC(bs) % 256
           /\ CRC16(bs) % 256 = TableCRC(bs) \div 256
<1>1. PICK h : CRCSums(h, bs)
  BY SumsExist
<1> DEFINE s == h[Len(bs)]
<1>2. TableCRC(bs) = s /\ s \in Uint16 /\ CRC16(bs) = TwoBytes(s % 256, s \div 256)
  BY <1>1, CRC16IsSum, TableCRCIsSum
<1> HIDE DEF s
<1>3. s % 256 \in Byte /\ s \div 256 \in Byte
  BY <1>2, Halves
<1>4. /\ TwoBytes(s % 256, s \div 256) \div 256 = s % 256
      /\ TwoBytes(s % 256, s \div 256) % 256 = s \div 256
  BY <1>3, TwoBytesAre
<1> QED BY <1>2, <1>4

\* rtuPackager and the packager of the handler, one with the tables of crc.go
\* and one bit by bit, make the same frame of every content.
THEOREM EncodersAreOne == ASSUME NEW a \in Contents PROVE RTUEncode(a) = Pack(a)
<1> DEFINE b == Body(a)
           s == TableCRC(b)
           t == CRC16(b)
<1>1. b \in Seq(Byte)
  BY ContentOfBody
<1>2. t \div 256 = s % 256 /\ t % 256 = s \div 256
  BY <1>1, CRCsAgree
<1>3. RTUEncode(a) = b \o <<s % 256, s \div 256>> /\ Pack(a) = b \o <<t \div 256, t % 256>>
  BY DEF RTUEncode, Pack
<1> HIDE DEF b, s, t
<1> QED BY <1>2, <1>3

-----------------------------------------------------------------------------
(***************************************************************************)
(* The CRC finds the change of a byte: nothing that is added or shifted    *)
(* out is lost, so that two registers which differ once stay different.    *)
(***************************************************************************)
LEMMA XorCancels ==
    ASSUME NEW m \in Uint16, NEW n \in Uint16, NEW q \in Uint16, Xor(m, q) = Xor(n, q)
    PROVE  m = n
<1>1. Xor(Xor(m, q), q) = m
  <2>1. Xor(Xor(m, q), q) = Xor(m, Xor(q, q)) /\ Xor(q, q) = 0 /\ Xor(m, 0) = m
    BY XorFacts
  <2> QED BY <2>1
<1>2. Xor(Xor(n, q), q) = n
  <2>1. Xor(Xor(n, q), q) = Xor(n, Xor(q, q)) /\ Xor(q, q) = 0 /\ Xor(n, 0) = n
    BY XorFacts
  <2> QED BY <2>1
<1> QED BY <1>1, <1>2

LEMMA ShiftKeeps == ASSUME NEW m \in Uint16, Shift[m] = 0 PROVE m = 0
<1>1. m \in Nat /\ m <= 256 * 255 + 255 /\ m % 2 \in {0, 1}
  BY Uint16Top, SMT
<1>2. CASE m % 2 = 0
  <2>1. m \div 2 = 0
    BY <1>2, ShiftIs
  <2> QED BY <1>1, <1>2, <2>1, SMT
<1>3. CASE m % 2 = 1
  <2> DEFINE h == m \div 2
  <2>1. Xor(h, Polynomial) = 0 /\ h \in Uint16
    BY <1>3, ShiftIs
  <2>2. Xor(Polynomial, Polynomial) = 0 /\ Polynomial \in Uint16
    BY PolynomialIs, XorFacts
  <2> HIDE DEF h
  <2>3. h = Polynomial
    BY <2>1, <2>2, XorCancels
  <2>4. h # 40961
    BY <1>1, SMT DEF h
  <2> QED BY <2>3, <2>4, SMT DEF Polynomial
<1> QED BY <1>1, <1>2, <1>3

LEMMA ShiftInjective ==
    ASSUME NEW m \in Uint16, NEW n \in Uint16, Shift[m] = Shift[n]
    PROVE  m = n
<1>1. Shift[m] \in Uint16 /\ Shift[n] \in Uint16
  BY ShiftIs
<1>2. Xor(m, n) \in Uint16 /\ Xor(n, n) = 0
  BY XorFacts
<1>3. Shift[Xor(m, n)] = Xor(Shift[m], Shift[n])
  BY ShiftOfXor
<1>4. Xor(Shift[m], Shift[n]) = 0
  BY <1>1, XorFacts
<1>5. Xor(m, n) = Xor(n, n)
  BY <1>2, <1>3, <1>4, ShiftKeeps
<1> QED BY <1>5, XorCancels

LEMMA ShiftedInjective ==
    ASSUME NEW m \in Uint16, NEW n \in Uint16, Shifted(m) = Shifted(n)
    PROVE  m = n
<1> DEFINE m1 == Shift[m]   n1 == Shift[n]
           m2 == Shift[m1]  n2 == Shift[n1]
           m3 == Shift[m2]  n3 == Shift[n2]
           m4 == Shift[m3]  n4 == Shift[n3]
           m5 == Shift[m4]  n5 == Shift[n4]
           m6 == Shift[m5]  n6 == Shift[n5]
           m7 == Shift[m6]  n7 == Shift[n6]
<1>1. Shift[m7] = Shift[n7]
  BY DEF Shifted
<1>2. m1 \in Uint16 /\ n1 \in Uint16
  BY ShiftIs
<1>3. (m1 = n1) => m = n
  BY ShiftInjective
<1> HIDE DEF m1, n1
<1>4. m2 \in Uint16 /\ n2 \in Uint16 /\ (m2 = n2 => m1 = n1)
  BY <1>2, ShiftIs, ShiftInjective
<1> HIDE DEF m2, n2
<1>5. m3 \in Uint16 /\ n3 \in Uint16 /\ (m3 = n3 => m2 = n2)
  BY <1>4, ShiftIs, ShiftInjective
<1> HIDE DEF m3, n3
<1>6. m4 \in Uint16 /\ n4 \in Uint16 /\ (m4 = n4 => m3 = n3)
  BY <1>5, ShiftIs, ShiftInjective
<1> HIDE DEF m4, n4
<1>7. m5 \in Uint16 /\ n5 \in Uint16 /\ (m5 = n5 => m4 = n4)
  BY <1>6, ShiftIs, ShiftInjective
<1> HIDE DEF m5, n5
<1>8. m6 \in Uint16 /\ n6 \in Uint16 /\ (m6 = n6 => m5 = n5)
  BY <1>7, ShiftIs, ShiftInjective
<1> HIDE DEF m6, n6
<1>9. m7 \in Uint16 /\ n7 \in Uint16 /\ (m7 = n7 => m6 = n6)
  BY <1>8, ShiftIs, ShiftInjective
<1> HIDE DEF m7, n7
<1>10. m7 = n7
  BY <1>1, <1>9, ShiftInjective
<1> QED BY <1>3, <1>4, <1>5, <1>6, <1>7, <1>8, <1>9, <1>10

\* A difference of the registers or of the bytes is one of the new registers.
LEMMA EnteredByteShows ==
    ASSUME NEW s \in Uint16, NEW t \in Uint16, NEW b \in Byte, NEW c \in Byte
    PROVE  /\ Shifted(Xor(s, b)) = Shifted(Xor(t, b)) => s = t
           /\ Shifted(Xor(s, b)) = Shifted(Xor(s, c)) => b = c
<1>1. b \in Uint16 /\ c \in Uint16
  BY OneByte
<1>2. /\ Xor(s, b) \in Uint16 /\ Xor(t, b) \in Uint16 /\ Xor(s, c) \in Uint16
      /\ Xor(s, b) = Xor(b, s) /\ Xor(s, c) = Xor(c, s)
  BY <1>1, XorFacts
<1>3. Shifted(Xor(s, b)) = Shifted(Xor(t, b)) => s = t
  BY <1>1, <1>2, ShiftedInjective, XorCancels
<1>4. Shifted(Xor(s, b)) = Shifted(Xor(s, c)) => b = c
  BY <1>1, <1>2, ShiftedInjective, XorCancels
<1> QED BY <1>3, <1>4

\* A byte string of length n that ends in the CRC of the rest, low byte first.
Signed(x, n) == TableCRC(SubSeq(x, 1, n - 2)) = TwoBytes(x[n], x[n - 1])

\* Two of one length that differ in at most one byte are the same.
LEMMA CRCFindsChange ==
    ASSUME NEW n \in Nat, n >= 2, NEW p \in 1..n,
           NEW x \in [1..n -> Byte], NEW y \in [1..n -> Byte],
           \A k \in 1..n : k # p => x[k] = y[k],
           Signed(x, n), Signed(y, n)
    PROVE  x[p] = y[p]
<1> DEFINE m == n - 2
           s == SubSeq(x, 1, m)
           t == SubSeq(y, 1, m)
<1>1. m \in Nat /\ n = m + 2
  OBVIOUS
<1>2. x \in Seq(Byte) /\ y \in Seq(Byte) /\ Len(x) = n /\ Len(y) = n
  OBVIOUS
<1>3. \A k \in 1..m : s[k] = x[k] /\ t[k] = y[k]
  BY <1>1, <1>2
<1>4. s \in Seq(Byte) /\ t \in Seq(Byte) /\ Len(s) = m /\ Len(t) = m
  BY <1>1, <1>2
<1>5. TableCRC(s) = TwoBytes(x[n], x[n - 1]) /\ TableCRC(t) = TwoBytes(y[n], y[n - 1])
  BY DEF s, t, Signed
<1> HIDE DEF s, t
<1>6. PICK h : CRCSums(h, s)
  BY <1>4, SumsExist
<1>7. PICK e : CRCSums(e, t)
  BY <1>4, SumsExist
<1>8. TableCRC(s) = h[m] /\ TableCRC(t) = e[m]
  BY <1>4, <1>6, <1>7, TableCRCIsSum
<1> DEFINE ones == TwoBytes(255, 255)
<1>9. /\ h \in [0..m -> Uint16] /\ h[0] = ones
      /\ \A k \in 1..m : h[k] = Shifted(Xor(h[k - 1], x[k]))
  BY <1>3, <1>4, <1>6 DEF CRCSums
<1>10. /\ e \in [0..m -> Uint16] /\ e[0] = ones
       /\ \A k \in 1..m : e[k] = Shifted(Xor(e[k - 1], y[k]))
  BY <1>3, <1>4, <1>7 DEF CRCSums
<1> HIDE DEF m, ones
<1>11. /\ n \in 1..n /\ n - 1 \in 1..n
       /\ x[n] \in Byte /\ x[n - 1] \in Byte /\ y[n] \in Byte /\ y[n - 1] \in Byte
  <2>1. n \in 1..n /\ n - 1 \in 1..n
    OBVIOUS
  <2> QED BY <2>1
<1>12. CASE p \in {n, n - 1}
  <2>1. \A k \in 1..m : s[k] = t[k]
    <3>1. \A k \in 1..m : k \in 1..n /\ k # n /\ k # n - 1
      BY <1>1
    <3> QED BY <1>3, <1>12, <3>1
  <2>2. s = t
    BY <1>4, <2>1
  <2>3. TwoBytes(x[n], x[n - 1]) = TwoBytes(y[n], y[n - 1])
    BY <1>5, <2>2
  <2>4. x[n] = y[n] /\ x[n - 1] = y[n - 1]
    BY <1>11, <2>3, TwoBytesAre
  <2> QED BY <1>12, <2>4
<1>13. ASSUME p \notin {n, n - 1}, x[p] # y[p] PROVE FALSE
  <2> DEFINE Early == {k \in 0..(p - 1) : h[k] # e[k]}
             Late == {k \in p..m : h[k] = e[k]}
  <2>1. p \in 1..m /\ m \in p..m /\ p - 1 \in 0..(p - 1) /\ \A k \in 1..m : k \in 1..n
    BY <1>1, <1>13
  <2>2. ASSUME Early # {} PROVE FALSE
    <3>1. Early \subseteq Nat
      BY <2>1
    <3>2. PICK k \in Early : \A j \in Early : k <= j
      BY <2>2, <3>1, Least
    <3>3. k # 0
      BY <1>9, <1>10, <3>2
    <3>4. k - 1 \in 0..(p - 1) /\ ~(k <= k - 1) /\ k \in 1..m /\ k # p
      BY <2>1, <3>2, <3>3
    <3>5. h[k - 1] = e[k - 1]
      BY <3>2, <3>4
    <3>6. x[k] = y[k]
      BY <2>1, <3>4
    <3> QED BY <1>9, <1>10, <3>2, <3>4, <3>5, <3>6
  <2>3. ASSUME Late # {} PROVE FALSE
    <3>1. Late \subseteq Nat
      BY <2>1
    <3>2. PICK k \in Late : \A j \in Late : k <= j
      BY <2>3, <3>1, Least
    <3>3. /\ k \in 1..m /\ k - 1 \in 0..m /\ ~(k <= k - 1)
          /\ k = p \/ k - 1 \in p..m
      BY <2>1, <3>2
    <3>4. /\ h[k - 1] \in Uint16 /\ e[k - 1] \in Uint16
          /\ x[k] \in Byte /\ y[k] \in Byte
      BY <1>9, <1>10, <2>1, <3>3
    <3>5. Shifted(Xor(h[k - 1], x[k])) = Shifted(Xor(e[k - 1], y[k]))
      BY <1>9, <1>10, <3>2, <3>3
    <3>6. CASE k = p
      <4>1. h[p - 1] = e[p - 1]
        BY <2>1, <2>2
      <4> QED BY <1>13, <3>4, <3>5, <3>6, <4>1, EnteredByteShows
    <3>7. CASE k # p
      <4>1. x[k] = y[k]
        BY <2>1, <3>3, <3>7
      <4>2. h[k - 1] # e[k - 1]
        BY <3>2, <3>3, <3>7
      <4> QED BY <3>4, <3>5, <4>1, <4>2, EnteredByteShows
    <3> QED BY <3>6, <3>7
  <2>4. h[m] # e[m]
    BY <2>1, <2>3
  <2>5. x[n] = y[n] /\ x[n - 1] = y[n - 1]
    BY <1>11, <1>13
  <2> QED BY <1>5, <1>8, <2>4, <2>5
<1> QED BY <1>12, <1>13

LEMMA TwoAtEnd ==
    ASSUME NEW S, NEW x \in Seq(S), NEW u \in S, NEW v \in S
    PROVE  LET e == x \o <<u, v>>
               m == Len(x) IN
           /\ e \in Seq(S) /\ Len(e) = m + 2
           /\ \A k \in 1..m : e[k] = x[k]
           /\ e[m + 1] = u /\ e[m + 2] = v
<1> DEFINE t == <<u, v>>
<1>1. t \in Seq(S) /\ Len(t) = 2 /\ t[1] = u /\ t[2] = v
  OBVIOUS
<1> HIDE DEF t
<1> QED BY <1>1 DEF t

\* An RTU frame: the content and the CRC of it, the low byte first.
LEMMA RTUFrameOf ==
    ASSUME NEW a \in Contents
    PROVE  LET e == RTUEncode(a)
               n == Len(e) IN
           /\ e \in Seq(Byte) /\ n \in Nat /\ n = Len(a.data) + 4 /\ n >= 4
           /\ SubSeq(e, 1, n - 2) = Body(a)
           /\ TableCRC(Body(a)) = TwoBytes(e[n], e[n - 1])
           /\ Signed(e, n)
           /\ e[2] = a.code
           /\ a.data # <<>> => e[3] = a.data[1]
<1> DEFINE b == Body(a)
           d == a.data
           l == Len(d)
           c == TableCRC(b)
           low == c % 256
           high == c \div 256
           tail == <<low, high>>
           e == b \o tail
<1>1. b \in Seq(Byte) /\ b = <<a.slave, a.code>> \o d /\ d \in Seq(Byte) /\ l \in Nat
      /\ a.slave \in Byte /\ a.code \in Byte
  <2>1. d \in Seq(Byte) /\ a.slave \in Byte /\ a.code \in Byte
    BY DEF Contents
  <2> QED BY <2>1, ContentOfBody DEF Body
<1>2. c \in Uint16 /\ c = TwoBytes(high, low) /\ high \in Byte /\ low \in Byte
  <2>1. c \in Uint16
    BY <1>1, CRCsAgree
  <2> HIDE DEF c
  <2> QED BY <2>1, Halves DEF TwoBytes
<1>3. RTUEncode(a) = e
  BY DEF RTUEncode
<1> HIDE DEF b, d, c, low, high
<1>4. Len(b) = l + 2 /\ b[2] = a.code /\ (d # <<>> => b[3] = d[1])
  <2> DEFINE two == <<a.slave, a.code>>
  <2>1. two \in Seq(Byte) /\ Len(two) = 2 /\ two[2] = a.code
    BY <1>1
  <2> HIDE DEF two
  <2>2. b = two \o d
    BY <1>1 DEF two
  <2>3. d # <<>> => l >= 1
    BY <1>1
  <2> QED BY <1>1, <2>1, <2>2, <2>3
<1>5. tail \in Seq(Byte) /\ Len(tail) = 2 /\ tail[1] = low /\ tail[2] = high
  BY <1>2
<1> HIDE DEF tail, l
<1>6. /\ e \in Seq(Byte) /\ Len(e) = l + 4
      /\ \A k \in 1..(l + 2) : e[k] = b[k]
      /\ e[l + 3] = low /\ e[l + 4] = high
  <2> DEFINE m == Len(b)
  <2>1. m \in Nat /\ m = l + 2
    BY <1>1, <1>4
  <2>2. /\ e \in Seq(Byte) /\ Len(e) = m + 2
        /\ \A k \in 1..m : e[k] = b[k]
        /\ e[m + 1] = low /\ e[m + 2] = high
    BY <1>1, <1>2, TwoAtEnd DEF tail
  <2> HIDE DEF e, m
  <2>4. Len(e) = l + 4 /\ l + 3 = m + 1 /\ l + 4 = m + 2
    BY <1>1, <2>1, <2>2
  <2> QED BY <2>1, <2>2, <2>4
<1>7. SubSeq(e, 1, l + 2) = b
  <2> HIDE DEF e
  <2> DEFINE t == SubSeq(e, 1, l + 2)
  <2>1. t \in Seq(Byte) /\ Len(t) = l + 2 /\ \A k \in 1..(l + 2) : t[k] = e[k]
    BY <1>1, <1>6
  <2> HIDE DEF t
  <2>2. t \in Seq(Byte) /\ b \in Seq(Byte) /\ Len(t) = Len(b)
    BY <1>1, <1>4, <2>1
  <2>3. \A k \in 1..Len(b) : t[k] = b[k]
    BY <1>4, <1>6, <2>1
  <2>4. t = b
    BY <2>2, <2>3
  <2> QED BY <2>4 DEF t
<1>8. e[2] = a.code /\ (d # <<>> => e[3] = d[1])
  <2> HIDE DEF e
  <2>1. 2 \in 1..(l + 2) /\ (d # <<>> => 3 \in 1..(l + 2))
    <3>1. d # <<>> => l >= 1
      BY <1>1 DEF l
    <3> QED BY <1>1, <3>1
  <2> QED BY <1>4, <1>6, <2>1
<1> HIDE DEF e
<1> DEFINE n == Len(e)
<1>9. n = l + 4 /\ n \in Nat /\ n >= 4 /\ n - 2 = l + 2 /\ n - 1 = l + 3
  BY <1>1, <1>6
<1> HIDE DEF n
<1>10. SubSeq(e, 1, n - 2) = b /\ c = TwoBytes(e[n], e[n - 1])
  BY <1>2, <1>6, <1>7, <1>9
<1>11. Signed(e, n)
  BY <1>10 DEF Signed, c
<1> QED BY <1>3, <1>6, <1>8, <1>9, <1>10, <1>11 DEF n, b, c, d, l

\* rtuclient's Decode takes the end of the frame from the byte count when the
\* function code is below 5; where that is the end, the content is the one sent.
THEOREM RTUFrameIsCarried ==
    ASSUME NEW a \in Contents, a.code < 5 => a.data # <<>> /\ a.data[1] = Len(a.data) - 1
    PROVE  RTUIntact(RTUEncode(a)) /\ RTUDecode(RTUEncode(a)) = a
<1> DEFINE e == RTUEncode(a)
           n == Len(e)
           l == Len(a.data)
<1>1. /\ n = l + 4 /\ n \in Nat /\ SubSeq(e, 1, n - 2) = Body(a)
      /\ TableCRC(Body(a)) = TwoBytes(e[n], e[n - 1]) /\ e[2] = a.code
      /\ a.data # <<>> => e[3] = a.data[1]
  BY RTUFrameOf
<1>2. l \in Nat
  BY DEF Contents
<1> HIDE DEF e, n, l
<1>3. RealLength(e) = n
  <2>1. CASE a.code < 5
    <3>1. e[3] = l - 1
      BY <1>1, <2>1 DEF l
    <3>2. e[3] + 5 = n
      BY <1>1, <1>2, <3>1
    <3> QED BY <1>1, <2>1, <3>2 DEF RealLength
  <2>2. CASE ~(a.code < 5)
    BY <1>1, <2>2 DEF RealLength, n
  <2> QED BY <2>1, <2>2
<1>4. RTUIntact(e)
  <2>1. n <= Len(e)
    BY <1>1 DEF n
  <2> QED BY <1>1, <1>3, <2>1 DEF RTUIntact, TwoBytes
<1>5. RTUDecode(e) = a
  BY <1>1, <1>3, ContentOfBody DEF RTUDecode
<1> QED BY <1>4, <1>5 DEF e

\* A frame that is taken for whole differs in no byte from the one that was
\* sent, if its own byte count, where Decode uses it, still is that of the frame.
THEOREM RTUChangeIsFound ==
    ASSUME NEW a \in Contents, NEW p \in 1..Len(RTUEncode(a)), NEW g \in Byte,
           NEW f, f = [RTUEncode(a) EXCEPT ![p] = g],
           RealLength(f) = Len(f), RTUIntact(f)
    PROVE  f = RTUEncode(a)
<1> DEFINE e == RTUEncode(a)
           n == Len(e)
<1>1. e \in Seq(Byte) /\ n \in Nat /\ n >= 2 /\ Signed(e, n)
  BY RTUFrameOf
<1>2. p \in 1..n /\ f = [e EXCEPT ![p] = g]
  OBVIOUS
<1> HIDE DEF e
<1>3. e \in [1..n -> Byte]
  BY <1>1
<1> HIDE DEF n
<1>4. f \in [1..n -> Byte] /\ \A k \in 1..n : k # p => f[k] = e[k]
  BY <1>2, <1>3
<1>5. Len(f) = n
  BY <1>1, <1>4
<1>6. Signed(f, n)
  BY <1>5 DEF RTUIntact, Signed, TwoBytes
<1>7. f[p] = e[p]
  <2>1. n \in Nat /\ n >= 2 /\ p \in 1..n /\ Signed(e, n)
    BY <1>1, <1>2
  <2> QED BY <1>3, <1>4, <1>6, <2>1, CRCFindsChange
<1>8. \A k \in 1..n : f[k] = e[k]
  BY <1>4, <1>7
<1>9. f = e
  BY <1>3, <1>4, <1>8
<1> QED BY <1>9 DEF e

LEMMA ContentCode == ASSUME NEW bs PROVE Content(bs).code = bs[2]
  BY DEF Content
===============================================================================
