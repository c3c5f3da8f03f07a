--------------------------- MODULE TCPClientProofs ---------------------------
(***************************************************************************)
(* Proofs about TCPClient, for every set of goroutines, every width of the *)
(* counter and of the transmitted transaction id, every idle timeout, and  *)
(* with or without frames cut by the deadline.                             *)
(***************************************************************************)
EXTENDS TCPClient, TLAPS

-----------------------------------------------------------------------------
(***************************************************************************)
(* Arithmetic: what agreement of the low 16 bits says about the counter.   *)
(***************************************************************************)
\* Division with remainder.
LEMMA Division ==
    ASSUME NEW n \in Nat, NEW k \in Nat \ {0}
    PROVE  n % k \in 0..(k-1) /\ n \div k \in Nat /\ n = k * (n \div k) + (n % k)
  OBVIOUS

\* A larger factor makes the product larger by at least one k.
LEMMA ProductGap ==
    ASSUME NEW k \in Nat \ {0}, NEW x \in Nat, NEW y \in Nat, x < y
    PROVE  k * y >= k * x + k
  OBVIOUS

\* Two counter values with the same low bits are equal or at least TidSpace
\* apart, counted from the older to the newer across the wrap.
LEMMA SameTidFarApart ==
    ASSUME NEW C \in Nat \ {0}, NEW k \in Nat \ {0}, C % k = 0,
           NEW a \in 0..(C-1), NEW b \in 0..(C-1), a % k = b % k, a # b
    PROVE  (b - a) % C >= k
<1> DEFINE qa == a \div k
           qb == b \div k
           qc == C \div k
<1>1. /\ qa \in Nat /\ qb \in Nat /\ qc \in Nat
      /\ a = k * qa + (a % k) /\ b = k * qb + (b % k) /\ C = k * qc
  <2>1. a \in Nat /\ b \in Nat
    OBVIOUS
  <2>2. qa \in Nat /\ a = k * qa + (a % k)
    BY <2>1, Division
  <2>3. qb \in Nat /\ b = k * qb + (b % k)
    BY <2>1, Division
  <2>4. qc \in Nat /\ C = k * qc + (C % k)
    BY Division
  <2> QED BY <2>2, <2>3, <2>4
<1>2. a % k \in Nat /\ b % k = a % k
  BY Division
<1> HIDE DEF qa, qb, qc
<1>3. CASE a < b
  <2>1. qa < qb
    <3>1. CASE qb < qa
      BY <1>1, <1>2, <1>3, <3>1, ProductGap
    <3>2. CASE qb = qa
      BY <1>1, <1>2, <1>3, <3>2
    <3> QED BY <1>1, <3>1, <3>2
  <2>2. b - a >= k
    <3>1. k * qb >= k * qa + k
      BY <1>1, <2>1, ProductGap
    <3> QED BY <1>1, <1>2, <3>1
  <2>3. (b - a) % C = b - a
    BY <1>3
  <2> QED BY <2>2, <2>3
<1>4. CASE b < a
  <2>1. (b - a) % C = C - (a - b)
    BY <1>4
  <2>2. C - (a - b) = k * qc - (k * qa - k * qb)
    BY <1>1, <1>2
  <2>3. qa < qc + qb
    <3>1. CASE qa = qc + qb
      BY <1>1, <2>2, <1>4, <3>1
    <3>2. CASE qc + qb < qa
      <4>1. k * qa >= k * (qc + qb) + k
        BY <1>1, <3>2, ProductGap
      <4> QED BY <1>1, <2>2, <1>4, <4>1
    <3> QED BY <1>1, <3>1, <3>2
  <2>4. k * (qb + qc) >= k * qa + k
    BY <1>1, <2>3, ProductGap
  <2> QED BY <1>1, <2>1, <2>2, <2>4
<1> QED BY <1>3, <1>4

-----------------------------------------------------------------------------
(***************************************************************************)
(* The inductive invariant: the mutex is held exactly during an exchange,  *)
(* and an exchange has a connection.                                       *)
(***************************************************************************)
LockInv ==
    /\ \A c \in Clients : Busy(c) <=> mu = c
    /\ \A c \in Clients : Busy(c) => connected
    /\ alive => connected

Inv == TypeOK /\ LockInv

\* A fresh stream is well typed.
LEMMA NewStreamType ==
    NewStream => pending' \subseteq Requests /\ inbound' \in Seq(Frames) /\ torn' \in BOOLEAN
<1> SUFFICES ASSUME NewStream
             PROVE  pending' \subseteq Requests /\ inbound' \in Seq(Frames) /\ torn' \in BOOLEAN
  OBVIOUS
<1>1. <<>> \in Seq(Frames)
  OBVIOUS
<1> QED BY <1>1 DEF NewStream

\* Every step of the client, the timer and the server is well typed.
LEMMA NextType == TypeOK /\ [Next]_vars => TypeOK'
<1>0. NoOne \notin Clients /\ CounterSpace \in Nat \ {0} /\ IdleTimeout \in Nat \ {0}
        /\ MaxClosers \in Nat /\ 0 \in Requests
  BY TCPClientAssumption DEF TCPClientAssumption, Requests
<1> SUFFICES ASSUME TypeOK, [Next]_vars PROVE TypeOK'
  OBVIOUS
<1> USE <1>0
<1> USE DEF Outcomes, Points, timeVars, wireVars, callVars, Finish
<1>1. ASSUME NEW c \in Clients, Encode(c) PROVE TypeOK'
  <2>1. transactionId' \in Requests
    BY <1>1 DEF Encode, NextId, TypeOK, Requests
  <2> QED BY <1>1, <2>1 DEF Encode, TypeOK
<1>2. ASSUME NEW c \in Clients, DialFails(c) \/ IOError(c) PROVE TypeOK'
  BY <1>2 DEF DialFails, IOError, TypeOK
<1>3. ASSUME NEW c \in Clients, SendBegin(c) PROVE TypeOK'
  <2>1. /\ pending' \subseteq Requests /\ inbound' \in Seq(Frames) /\ torn' \in BOOLEAN
        /\ alive' \in BOOLEAN
    BY <1>3, NewStreamType DEF SendBegin, TypeOK
  <2> QED BY <1>3, <2>1 DEF SendBegin, TypeOK
<1>4. ASSUME NEW c \in Clients, StartCloseTimer(c) \/ Write(c) PROVE TypeOK'
  BY <1>4 DEF StartCloseTimer, Write, ArmedTimer, TypeOK
<1>5. ASSUME NEW c \in Clients, Timeout(c) PROVE TypeOK'
  BY <1>5 DEF Timeout, TypeOK
<1>6. ASSUME NEW c \in Clients, ReadFrame(c) PROVE TypeOK'
  <2>1. Head(inbound) \in Frames /\ Tail(inbound) \in Seq(Frames)
    BY <1>6 DEF ReadFrame, TypeOK
  <2>2. Result(req[c], Head(inbound)) \in Outcomes
    BY DEF Result
  <2> QED BY <1>6, <2>1, <2>2 DEF ReadFrame, TypeOK
<1>7. ASSUME NEW c \in Clients, ReadMalformed(c) PROVE TypeOK'
  <2>1. PICK k \in 0..Len(inbound) :
          /\ inbound' = SubSeq(inbound, k + 1, Len(inbound))
          /\ torn' \in (IF k = 0 THEN {TRUE} ELSE BOOLEAN)
    BY <1>7 DEF ReadMalformed, Flush
  <2>2. inbound' \in Seq(Frames)
    BY <2>1 DEF TypeOK
  <2>3. torn' \in BOOLEAN
    BY <2>1
  <2> QED BY <1>7, <2>2, <2>3 DEF ReadMalformed, TypeOK
<1>8. ASSUME NEW c \in Clients, ReadTorn(c) PROVE TypeOK'
  <2>1. PICK garbage \in Frames : Finish(c, Result(req[c], garbage))
    BY <1>8 DEF ReadTorn
  <2>2. Result(req[c], garbage) \in Outcomes
    BY DEF Result
  <2>3. inbound' \in Seq(Frames)
    BY <1>8 DEF ReadTorn, TypeOK
  <2> QED BY <1>8, <2>1, <2>2, <2>3 DEF ReadTorn, TypeOK
<1>9. CASE Connect \/ Close
  BY <1>9, NewStreamType DEF Connect, Close, Closed, TypeOK
<1>10. CASE CloseIdle
  <2>1. /\ pending' \subseteq Requests /\ inbound' \in Seq(Frames) /\ torn' \in BOOLEAN
        /\ connected' \in BOOLEAN /\ alive' \in BOOLEAN
    BY <1>10, NewStreamType DEF CloseIdle, Closed, TypeOK
  <2>2. closers' \in 0..MaxClosers
    BY <1>10 DEF CloseIdle, TypeOK
  <2> QED BY <1>10, <2>1, <2>2 DEF CloseIdle, TypeOK
<1>11. CASE Fire \/ Tick
  BY <1>11 DEF Fire, Tick, TypeOK, Unarmed
<1>12. ASSUME NEW n \in Requests, Answer(n) PROVE TypeOK'
  <2>1. {Reply(n), Malformed} \subseteq Frames
    <3>1. 0 \in Requests
      BY TCPClientAssumption DEF Requests
    <3> QED BY <3>1 DEF Frames, Kinds, Reply, Malformed
  <2>2. inbound' \in Seq(Frames)
    BY <1>12, <2>1 DEF Answer, TypeOK
  <2> QED BY <1>12, <2>2 DEF Answer, TypeOK
<1>13. CASE PeerClose
  BY <1>13 DEF PeerClose, TypeOK
<1>14. CASE UNCHANGED vars
  BY <1>14 DEF vars, TypeOK
<1> QED BY <1>1, <1>2, <1>3, <1>4, <1>5, <1>6, <1>7, <1>8, <1>9, <1>10, <1>11, <1>12,
           <1>13, <1>14 DEF Next, SendNext

\* Every step keeps exchanges apart and their connection open.
LEMMA NextLock == TypeOK /\ LockInv /\ [Next]_vars => LockInv'
<1> USE TCPClientAssumption DEF TCPClientAssumption
<1> SUFFICES ASSUME TypeOK, LockInv, [Next]_vars PROVE LockInv'
  OBVIOUS
<1> USE DEF LockInv, TypeOK, Busy, Free, timeVars, wireVars, callVars, Finish
<1>1. ASSUME NEW c \in Clients, Encode(c) PROVE LockInv'
  BY <1>1 DEF Encode
<1>2. ASSUME NEW c \in Clients, DialFails(c) PROVE LockInv'
  BY <1>2 DEF DialFails
<1>3. ASSUME NEW c \in Clients, SendBegin(c) PROVE LockInv'
  BY <1>3 DEF SendBegin
<1>4. ASSUME NEW c \in Clients, StartCloseTimer(c) \/ Write(c) PROVE LockInv'
  BY <1>4 DEF StartCloseTimer, Write
<1>5. ASSUME NEW c \in Clients, IOError(c) \/ Timeout(c) PROVE LockInv'
  BY <1>5 DEF IOError, Timeout
<1>6. ASSUME NEW c \in Clients, ReadFrame(c) \/ ReadMalformed(c) PROVE LockInv'
  BY <1>6 DEF ReadFrame, ReadMalformed
<1>7. ASSUME NEW c \in Clients, ReadTorn(c) PROVE LockInv'
  BY <1>7 DEF ReadTorn
<1>8. CASE Connect \/ Close
  BY <1>8 DEF Connect, Close, Closed
<1>9. CASE CloseIdle
  BY <1>9 DEF CloseIdle, Closed
<1>10. CASE Fire \/ Tick \/ PeerClose \/ \E n \in Requests : Answer(n)
  BY <1>10 DEF Fire, Tick, PeerClose, Answer
<1>11. CASE UNCHANGED vars
  BY <1>11 DEF vars
<1> QED BY <1>1, <1>2, <1>3, <1>4, <1>5, <1>6, <1>7, <1>8, <1>9, <1>10, <1>11
        DEF Next, SendNext

\* A call is answered only with a frame that passed Verify, and on a stream
\* with its frame boundaries that is the frame at its head.
LEMMA AcceptsHead ==
    ASSUME TypeOK, Next, NEW c \in Clients, Accepts(c), ~torn
    PROVE  /\ inbound # <<>>
           /\ TidOf(Head(inbound).to) = TidOf(req[c])
<1> USE DEF Accepts, TypeOK, callVars, wireVars, timeVars
<1>1. ASSUME NEW d \in Clients, Encode(d) \/ SendBegin(d) \/ StartCloseTimer(d) \/ Write(d)
      PROVE  FALSE
  BY <1>1 DEF Encode, SendBegin, StartCloseTimer, Write
<1>2. ASSUME NEW d \in Clients, DialFails(d) \/ IOError(d) \/ Timeout(d) \/ ReadMalformed(d)
      PROVE  FALSE
  BY <1>2 DEF DialFails, IOError, Timeout, ReadMalformed, Finish
<1>3. ASSUME NEW d \in Clients, ReadTorn(d) PROVE FALSE
  BY <1>3 DEF ReadTorn
<1>4. CASE Connect \/ Close \/ CloseIdle \/ Fire \/ Tick \/ PeerClose \/ \E n \in Requests : Answer(n)
  BY <1>4 DEF Connect, Close, CloseIdle, Fire, Tick, PeerClose, Answer
<1>5. ASSUME NEW d \in Clients, ReadFrame(d)
      PROVE  inbound # <<>> /\ TidOf(Head(inbound).to) = TidOf(req[c])
  <2>1. d = c
    BY <1>5 DEF ReadFrame, Finish
  <2>2. Result(req[c], Head(inbound)) = "reply"
    BY <1>5, <2>1 DEF ReadFrame, Finish
  <2> QED BY <1>5, <2>2 DEF ReadFrame, Result, Verify
<1> QED BY <1>1, <1>2, <1>3, <1>4, <1>5 DEF Next, SendNext

-----------------------------------------------------------------------------
\* Inv is an inductive invariant of the TCP client.
THEOREM Invariance == Spec => []Inv
<1>1. Init => Inv
  <2>0. NoOne \notin Clients /\ CounterSpace \in Nat \ {0} /\ IdleTimeout \in Nat \ {0}
          /\ MaxClosers \in Nat
    BY TCPClientAssumption DEF TCPClientAssumption
  <2> SUFFICES ASSUME Init PROVE Inv
    OBVIOUS
  <2> USE <2>0
  <2>1. TypeOK
    <3>1. 0 \in Requests
      BY DEF Requests
    <3>2. inbound \in Seq(Frames)
      BY DEF Init
    <3>3. idleFor \in 0..IdleTimeout /\ closers \in 0..MaxClosers
      BY DEF Init
    <3>4. /\ pc \in [Clients -> Points] /\ req \in [Clients -> Requests]
          /\ outcome \in [Clients -> Outcomes]
      BY <3>1 DEF Init, Points, Outcomes
    <3> QED BY <3>1, <3>2, <3>3, <3>4 DEF Init, TypeOK
  <2>2. LockInv
    BY DEF Init, LockInv, Busy
  <2> QED BY <2>1, <2>2 DEF Inv
<1>2. Inv /\ [Next]_vars => Inv'
  BY NextType, NextLock DEF Inv
<1> QED BY <1>1, <1>2, PTL DEF Spec

\* Every reachable state of the TCP client is well typed; the counter wraps.
THEOREM TypeCorrect == Spec => []TypeOK
<1>1. Inv => TypeOK
  BY DEF Inv
<1> QED BY <1>1, Invariance, PTL

\* One exchange at a time has the connection, and nobody closes it meanwhile.
THEOREM ConnectionOwned == Spec => []ExchangeOwnsConnection
<1>1. Inv => ExchangeOwnsConnection
  BY DEF Inv, LockInv, ExchangeOwnsConnection
<1> QED BY <1>1, Invariance, PTL

\* An accepted frame is the caller's own, unless 2^16 requests came between:
\* for every width of the counter and of the transmitted id.
THEOREM AcceptedIsOwn == Spec => OwnReply
<1>1. Inv /\ [Next]_vars =>
        [\A c \in Clients :
           Accepts(c) /\ ~torn
             => LET n == Head(inbound).to IN
                n = req[c] \/ (req[c] - n) % CounterSpace >= TidSpace]_vars
  <2> SUFFICES ASSUME Inv, Next, NEW c \in Clients, Accepts(c), ~torn,
                      Head(inbound).to # req[c]
               PROVE  (req[c] - Head(inbound).to) % CounterSpace >= TidSpace
    OBVIOUS
  <2>1. inbound # <<>> /\ TidOf(Head(inbound).to) = TidOf(req[c])
    BY AcceptsHead DEF Inv
  <2>2. Head(inbound).to \in Requests
    <3>1. Head(inbound) \in Frames
      BY <2>1 DEF Inv, TypeOK
    <3> QED BY <3>1 DEF Frames
  <2>3. req[c] \in Requests
    BY DEF Inv, TypeOK
  <2>4. Head(inbound).to % TidSpace = req[c] % TidSpace
    BY <2>1 DEF TidOf
  <2> QED BY <2>2, <2>3, <2>4, SameTidFarApart, TCPClientAssumption
          DEF TCPClientAssumption, Requests
<1> QED BY <1>1, Invariance, PTL DEF Spec, OwnReply
=============================================================================
