------------------------- MODULE SerialExchangeProofs -------------------------
(***************************************************************************)
(* Proofs about SerialExchange, for every set of slaves and functions, any *)
(* lengths of replies, and any number of requests and of frames on the     *)
(* line.                                                                   *)
(***************************************************************************)
EXTENDS SerialExchange, SequenceTheorems, TLAPS

\* A byte on the line or in the buffer belongs to the reply to a request that
\* was made.
Known(n) == [to : 1..n, kind : Kinds, at : Nat]
KnownFrames(n) == [to : 1..n, kind : Kinds]

\* The type invariant, with that and the states in which there is a request.
Typed ==
    /\ link \in {"serial", "tcp"} /\ protocol \in {"rtu", "ascii"}
    /\ port \in {"nil", "open", "closed"}
    /\ pc \in {"idle", "write", "read", "rest"}
    /\ target \in Seq(Targets) /\ Len(target) <= MaxRequests
    /\ pending \subseteq 1..Req
    /\ line \in Seq(Known(Req)) /\ buf \in Seq(Known(Req))
    /\ want \in {0, ExceptionSize} \cup Sizes
    /\ outcome \in Outcomes
    /\ got \in KnownFrames(Req) \cup {NoFrame}
    /\ troubled \in BOOLEAN
    /\ pc # "idle" => Req > 0

\* What has been read where: nothing before the first read of an RTU reply, and
\* less than is wanted, but something, before the second.
ReadSoFar ==
    /\ pc = "write" \/ (pc = "read" /\ protocol = "rtu") => buf = <<>>
    /\ pc = "rest" => Len(buf) > 0 /\ Len(buf) < want

IInv == Typed /\ ReadSoFar /\ DataIsAddressed

-----------------------------------------------------------------------------
(***************************************************************************)
(* Sequences and frames.                                                   *)
(***************************************************************************)
LEMMA SeqTake ==
    ASSUME NEW S, NEW s \in Seq(S), NEW n \in 0..Len(s)
    PROVE  /\ SubSeq(s, 1, n) \in Seq(S) /\ Len(SubSeq(s, 1, n)) = n
           /\ \A i \in 1..n : SubSeq(s, 1, n)[i] = s[i]
           /\ SubSeq(s, n + 1, Len(s)) \in Seq(S)
<1>1. Len(s) \in Nat /\ \A i \in 1..Len(s) : s[i] \in S
  OBVIOUS
<1>2. \A i \in 1..n : s[i] \in S
  BY <1>1
<1>3. \A i \in n+1..Len(s) : s[i] \in S
  BY <1>1
<1>4. SubSeq(s, 1, n) \in Seq(S) /\ Len(SubSeq(s, 1, n)) = (IF 1 <= n THEN n - 1 + 1 ELSE 0)
      /\ \A i \in 1..n - 1 + 1 : SubSeq(s, 1, n)[i] = s[1 + i - 1]
  BY <1>2, SubSeqProperties
<1>5. SubSeq(s, n + 1, Len(s)) \in Seq(S)
  BY <1>1, <1>3, SubSeqProperties
<1> QED BY <1>4, <1>5

LEMMA SeqJoin ==
    ASSUME NEW S, NEW s \in Seq(S), NEW t \in Seq(S)
    PROVE  s \o t \in Seq(S)
  BY ConcatProperties

\* More requests make more bytes possible and none impossible.
LEMMA KnownGrows ==
    ASSUME NEW m \in Nat, NEW n \in Nat, m <= n
    PROVE  /\ \A s \in Seq(Known(m)) : s \in Seq(Known(n))
           /\ KnownFrames(m) \subseteq KnownFrames(n)
<1>1. 1..m \subseteq 1..n
  OBVIOUS
<1>2. Known(m) \subseteq Known(n) /\ KnownFrames(m) \subseteq KnownFrames(n)
  BY <1>1 DEF Known, KnownFrames
<1> QED BY <1>2, SeqMonotonic

LEMMA RequestsTyped ==
    ASSUME Typed
    PROVE  /\ Req \in Nat /\ Req <= MaxRequests
           /\ \A n \in 1..Req : target[n] \in Targets /\ target[n].size \in Sizes
<1>1. Req \in Nat /\ \A n \in 1..Req : target[n] \in Targets
  BY DEF Typed, Req
<1>2. \A t \in Targets : t.size \in Sizes
  BY DEF Targets
<1> QED BY <1>1, <1>2 DEF Typed, Req

\* A frame has at least one byte, and its first byte is number 1.
LEMMA FrameTyped ==
    ASSUME Typed, NEW n \in 1..Req, NEW kind \in Kinds
    PROVE  /\ Size(n, kind) \in Nat /\ Size(n, kind) > 0
           /\ Frame(n, kind) \in Seq(Known(Req))
           /\ Len(Frame(n, kind)) = Size(n, kind)
           /\ Frame(n, kind)[1] = [to |-> n, kind |-> kind, at |-> 1]
<1>1. Size(n, kind) \in Nat /\ Size(n, kind) > 0
  <2>1. target[n].size \in Nat /\ target[n].size > ExceptionSize
    BY RequestsTyped, SerialAssumption
  <2>2. ExceptionSize \in Nat /\ ExceptionSize > 0
    BY SerialAssumption
  <2> QED BY <2>1, <2>2 DEF Size
<1>2. \A i \in 1..Size(n, kind) : [to |-> n, kind |-> kind, at |-> i] \in Known(Req)
  BY <1>1 DEF Known
<1>3. Frame(n, kind) \in [1..Size(n, kind) -> Known(Req)]
  BY <1>2 DEF Frame
<1>4. Frame(n, kind) \in Seq(Known(Req)) /\ Len(Frame(n, kind)) = Size(n, kind)
  BY <1>1, <1>3
<1>5. Frame(n, kind)[1] = [to |-> n, kind |-> kind, at |-> 1]
  BY <1>1 DEF Frame
<1> QED BY <1>1, <1>4, <1>5

\* What passes the checksum begins with the first byte of a frame.
LEMMA IntactBegins ==
    ASSUME Typed, NEW b \in Seq(Known(Req)), Len(b) > 0, Intact(b)
    PROVE  b[1].at = 1
<1> DEFINE f == Frame(b[1].to, b[1].kind)
<1>1. b[1] \in Known(Req) /\ Len(b) \in Nat
  OBVIOUS
<1>2. b[1].to \in 1..Req /\ b[1].kind \in Kinds
  BY <1>1 DEF Known
<1>3. Len(f) \in Nat /\ Len(f) > 0 /\ f[1] = [to |-> b[1].to, kind |-> b[1].kind, at |-> 1]
  BY <1>2, FrameTyped
<1>4. Len(f) <= Len(b) /\ SubSeq(b, 1, Len(f)) = f
  BY DEF Intact
<1> HIDE DEF f
<1>5. Len(f) \in 0..Len(b) /\ 1 \in 1..Len(f)
  BY <1>1, <1>3, <1>4
<1>6. SubSeq(b, 1, Len(f))[1] = b[1]
  BY <1>5, SeqTake
<1>7. b[1] = f[1]
  BY <1>4, <1>6
<1> QED BY <1>3, <1>7

-----------------------------------------------------------------------------
(***************************************************************************)
(* The end of an exchange.                                                 *)
(***************************************************************************)
\* What an exchange may leave behind when it ends.
Ended ==
    /\ pc' = "idle" /\ outcome' \in Outcomes
    /\ got' \in KnownFrames(Req) \cup {NoFrame} /\ troubled' \in BOOLEAN
    /\ outcome' = "data" =>
         /\ got'.kind = "data"
         /\ target[got'.to].slave = target[Req].slave
         /\ target[got'.to].function = target[Req].function

LEMMA FailEnds ==
    ASSUME Typed, NEW result \in Outcomes \ {"data"}, Fail(result)
    PROVE  Ended
  BY DEF Typed, Fail, Finish, Ended, Good

LEMMA DeliverEnds ==
    ASSUME Typed, NEW b \in Seq(Known(Req)), Len(b) > 0, Deliver(b)
    PROVE  Ended
<1>1. PICK ok \in Verify(b) :
        IF ~ok THEN Fail("mismatch")
        ELSE IF ~Intact(b) THEN Fail("checksum")
        ELSE Finish(IF Answered(b) THEN "data" ELSE "exception",
                    [to |-> b[1].to, kind |-> b[1].kind])
  BY DEF Deliver
<1>2. {"mismatch", "checksum"} \subseteq Outcomes \ {"data"}
  BY DEF Outcomes
<1>3. CASE ~ok
  BY <1>1, <1>2, <1>3, FailEnds
<1>4. CASE ok /\ ~Intact(b)
  BY <1>1, <1>2, <1>4, FailEnds
<1>5. CASE ok /\ Intact(b)
  <2>1. b[1].at = 1
    BY <1>5, IntactBegins
  <2>2. target[b[1].to].slave = target[Req].slave
    BY <1>1, <1>5, <2>1 DEF Verify
  <2>3. [to |-> b[1].to, kind |-> b[1].kind] \in KnownFrames(Req)
    <3>1. b[1] \in Known(Req)
      OBVIOUS
    <3> QED BY <3>1 DEF Known, KnownFrames
  <2>4. Finish(IF Answered(b) THEN "data" ELSE "exception",
               [to |-> b[1].to, kind |-> b[1].kind])
    BY <1>1, <1>5
  <2>5. CASE Answered(b)
    BY <2>2, <2>3, <2>4, <2>5 DEF Finish, Answered, Ended, Outcomes, Typed, Good
  <2>6. CASE ~Answered(b)
    BY <2>3, <2>4, <2>6 DEF Finish, Ended, Outcomes, Typed, Good
  <2> QED BY <2>5, <2>6
<1> QED BY <1>3, <1>4, <1>5

\* Reading keeps to bytes of replies to requests that were made.
LEMMA TakeTyped ==
    ASSUME Typed, NEW n \in 0..Len(line), Take(n)
    PROVE  /\ line' \in Seq(Known(Req)) /\ buf' \in Seq(Known(Req))
           /\ Len(buf') = Len(buf) + n
<1> USE DEF Typed
<1>1. /\ SubSeq(line, 1, n) \in Seq(Known(Req)) /\ Len(SubSeq(line, 1, n)) = n
      /\ SubSeq(line, n + 1, Len(line)) \in Seq(Known(Req))
  BY SeqTake
<1>2. /\ buf \o SubSeq(line, 1, n) \in Seq(Known(Req))
      /\ Len(buf \o SubSeq(line, 1, n)) = Len(buf) + n
  BY <1>1, ConcatProperties
<1> QED BY <1>1, <1>2 DEF Take

-----------------------------------------------------------------------------
(***************************************************************************)
(* The invariant, step by step.                                            *)
(***************************************************************************)
LEMMA InitIInv == Init => IInv
<1> SUFFICES ASSUME Init PROVE IInv
  OBVIOUS
<1>1. /\ target \in Seq(Targets) /\ Len(target) <= MaxRequests
      /\ line \in Seq(Known(Req)) /\ buf \in Seq(Known(Req))
  BY SerialAssumption DEF Init
<1>2. Typed
  BY <1>1 DEF Init, Typed, Outcomes
<1> QED BY <1>2 DEF Init, IInv, ReadSoFar, DataIsAddressed

\* The end of an exchange keeps the invariant, whatever it read.
LEMMA EndKeepsIInv ==
    ASSUME IInv, Ended,
           line' \in Seq(Known(Req)), buf' \in Seq(Known(Req)),
           UNCHANGED <<linkVars, port, target, pending, want>>
    PROVE  IInv'
<1>1. Req' = Req
  BY DEF Req
<1>2. Typed'
  BY <1>1 DEF IInv, Typed, Ended, linkVars
<1> QED BY <1>1, <1>2 DEF IInv, Ended, ReadSoFar, DataIsAddressed

\* A read that does not end the exchange.
LEMMA ReadKeepsIInv ==
    ASSUME IInv, NEW n \in 0..Len(line), Take(n), Len(buf) + n > 0,
           UNCHANGED <<linkVars, port, target, pending, outcome, got, troubled>>,
           \/ protocol = "ascii" /\ pc = "read" /\ UNCHANGED <<pc, want>>
           \/ pc # "idle" /\ pc' = "rest" /\ want' \in Sizes \cup {ExceptionSize} /\ Len(buf) + n < want'
    PROVE  IInv'
<1>1. Req' = Req
  BY DEF Req
<1>2. line' \in Seq(Known(Req)) /\ buf' \in Seq(Known(Req)) /\ Len(buf') = Len(buf) + n
  BY TakeTyped DEF IInv
<1>3. Typed'
  <2>1. want' \in {0, ExceptionSize} \cup Sizes /\ pc' \in {"read", "rest"}
    BY DEF IInv, Typed
  <2>2. Req > 0
    BY DEF IInv, Typed
  <2> QED BY <1>1, <1>2, <2>1, <2>2 DEF IInv, Typed, linkVars
<1>4. ReadSoFar'
  BY <1>2 DEF IInv, ReadSoFar, linkVars
<1> QED BY <1>1, <1>3, <1>4 DEF IInv, DataIsAddressed


LEMMA FailKeepsIInv ==
    ASSUME IInv, NEW result \in Outcomes \ {"data"}, Fail(result),
           line' \in Seq(Known(Req)), buf' \in Seq(Known(Req)),
           UNCHANGED <<linkVars, port, target, pending, want>>
    PROVE  IInv'
<1>1. Ended
  BY FailEnds DEF IInv
<1> QED BY <1>1, EndKeepsIInv

\* What was read last is delivered.
LEMMA DeliverKeepsIInv ==
    ASSUME IInv, NEW n \in 0..Len(line), Take(n), Len(buf) + n > 0, Deliver(buf'),
           UNCHANGED <<linkVars, port, target, pending, want>>
    PROVE  IInv'
<1>1. line' \in Seq(Known(Req)) /\ buf' \in Seq(Known(Req)) /\ Len(buf') = Len(buf) + n
  BY TakeTyped DEF IInv
<1>2. PICK b : b = buf'
  OBVIOUS
<1>3. Deliver(b)
  BY <1>2
<1>4. b \in Seq(Known(Req)) /\ Len(b) > 0
  BY <1>1, <1>2
<1>5. Ended
  BY <1>3, <1>4, DeliverEnds DEF IInv
<1> QED BY <1>1, <1>5, EndKeepsIInv

LEMMA BeginKeepsIInv ==
    ASSUME IInv, Begin
    PROVE  IInv'
<1>1. PICK t \in Targets : target' = Append(target, t)
  BY DEF Begin
<1>2. /\ target' \in Seq(Targets) /\ Len(target') <= MaxRequests
      /\ Req \in Nat /\ Req' = Req + 1
  BY <1>1, SerialAssumption DEF Begin, IInv, Typed, Req
<1>3. line' \in Seq(Known(Req')) /\ buf' \in Seq(Known(Req'))
  <2>1. line' \in Seq(Known(Req))
    BY DEF Begin, IInv, Typed
  <2>2. buf' = <<>> /\ <<>> \in Seq(Known(Req'))
    BY DEF Begin
  <2> QED BY <1>2, <2>1, <2>2, KnownGrows
<1>4. pending' \subseteq 1..Req'
  BY <1>2 DEF Begin, IInv, Typed
<1>5. Typed'
  BY <1>2, <1>3, <1>4 DEF Begin, IInv, Typed, linkVars, Outcomes
<1>6. ReadSoFar' /\ DataIsAddressed'
  BY DEF Begin, ReadSoFar, DataIsAddressed
<1> QED BY <1>5, <1>6 DEF IInv

LEMMA OpenFailsKeepsIInv ==
    ASSUME IInv, OpenFails
    PROVE  IInv'
<1>1. Req' = Req
  BY DEF Req, OpenFails
<1>2. Typed'
  BY <1>1 DEF IInv, Typed, OpenFails, linkVars, Outcomes
<1> QED BY <1>1, <1>2 DEF IInv, OpenFails, ReadSoFar, DataIsAddressed, linkVars

LEMMA WriteKeepsIInv ==
    ASSUME IInv, Write
    PROVE  IInv'
<1>1. Req' = Req
  BY DEF Req, Write
<1>2. pending' \subseteq 1..Req /\ Req > 0
  <2>1. Req \in 1..Req /\ Req > 0
    BY RequestsTyped DEF IInv, Typed, Write
  <2> QED BY <2>1 DEF IInv, Typed, Write
<1>3. Typed'
  BY <1>1, <1>2 DEF IInv, Typed, Write, linkVars
<1> QED BY <1>1, <1>3 DEF IInv, Write, ReadSoFar, DataIsAddressed, linkVars

\* The first read of an RTU reply is into an empty buffer.
LEMMA ReadFirstKeepsIInv ==
    ASSUME IInv, ReadFirst
    PROVE  IInv'
<1>1. PICK n \in MinSize..Len(line) :
        /\ Take(n)
        /\ \E byte \in FunctionByte(buf') :
             IF n < Wanted(byte)
             THEN /\ pc' = "rest" /\ want' = Wanted(byte)
                  /\ UNCHANGED <<outcome, got, troubled>>
             ELSE Deliver(buf') /\ UNCHANGED want
  BY DEF ReadFirst
<1>2. n \in 0..Len(line) /\ n > 0
  BY SerialAssumption
<1>3. Len(buf) = 0
  BY DEF IInv, ReadSoFar, ReadFirst
<1>4. PICK byte \in FunctionByte(buf') :
        IF n < Wanted(byte)
        THEN /\ pc' = "rest" /\ want' = Wanted(byte)
             /\ UNCHANGED <<outcome, got, troubled>>
        ELSE Deliver(buf') /\ UNCHANGED want
  BY <1>1
<1>5. CASE n < Wanted(byte)
  <2>1. Wanted(byte) \in Sizes \cup {ExceptionSize}
    <3>1. Req \in 1..Req
      BY RequestsTyped DEF IInv, Typed, ReadFirst
    <3>2. target[Req].size \in Sizes
      BY <3>1, RequestsTyped DEF IInv
    <3>3. Wanted(byte) \in {target[Req].size, MinSize, ExceptionSize, 0}
      BY DEF Wanted, BytesToRead
    <3>4. Wanted(byte) \notin {MinSize, 0}
      <4>1. MinSize \in Nat /\ n >= MinSize
        BY SerialAssumption
      <4> QED BY <1>5, <4>1
    <3> QED BY <3>2, <3>3, <3>4
  <2> QED BY <1>1, <1>2, <1>3, <1>4, <1>5, <2>1, ReadKeepsIInv DEF ReadFirst
<1>6. CASE ~(n < Wanted(byte))
  BY <1>1, <1>2, <1>3, <1>4, <1>6, DeliverKeepsIInv DEF ReadFirst
<1> QED BY <1>5, <1>6

\* The second read of an RTU reply takes what is missing.
LEMMA ReadRestKeepsIInv ==
    ASSUME IInv, ReadRest
    PROVE  IInv'
<1>1. want \in Nat /\ Len(buf) \in Nat /\ Len(line) \in Nat
  BY SerialAssumption DEF IInv, Typed
<1>2. Len(buf) > 0 /\ Len(buf) < want
  BY DEF IInv, ReadSoFar, ReadRest
<1>3. want - Len(buf) \in 0..Len(line) /\ Len(buf) + (want - Len(buf)) > 0
  BY <1>1, <1>2 DEF ReadRest
<1> QED BY <1>3, DeliverKeepsIInv DEF ReadRest

LEMMA ReadChunkKeepsIInv ==
    ASSUME IInv, ReadChunk
    PROVE  IInv'
<1>1. PICK n \in 1..Len(line) : Take(n)
  BY DEF ReadChunk
<1>2. n \in 0..Len(line) /\ Len(buf) + n > 0
  BY DEF IInv, Typed
<1>3. CASE Terminated(buf')
  BY <1>1, <1>2, <1>3, DeliverKeepsIInv DEF ReadChunk
<1>4. CASE ~Terminated(buf')
  BY <1>1, <1>2, <1>4, ReadKeepsIInv DEF ReadChunk
<1> QED BY <1>3, <1>4

LEMMA TimeoutKeepsIInv ==
    ASSUME IInv, Timeout
    PROVE  IInv'
<1>1. PICK n \in 0..Len(line) : Take(n)
  BY DEF Timeout
<1>2. line' \in Seq(Known(Req)) /\ buf' \in Seq(Known(Req))
  BY <1>1, TakeTyped DEF IInv
<1>3. "timeout" \in Outcomes \ {"data"}
  BY DEF Outcomes
<1> QED BY <1>2, <1>3, FailKeepsIInv DEF Timeout

LEMMA IOErrorKeepsIInv ==
    ASSUME IInv, IOError
    PROVE  IInv'
<1>1. line' \in Seq(Known(Req)) /\ buf' \in Seq(Known(Req))
  BY DEF IInv, Typed, IOError
<1>2. "ioError" \in Outcomes \ {"data"}
  BY DEF Outcomes
<1> QED BY <1>1, <1>2, FailKeepsIInv DEF IOError

\* The device puts a whole frame on the line.
LEMMA AnswerKeepsIInv ==
    ASSUME IInv, NEW n \in Ids, Answer(n)
    PROVE  IInv'
<1>1. Req' = Req
  BY DEF Req, Answer
<1>2. PICK kind \in Kinds :
        line' = IF port = "open" THEN line \o Frame(n, kind) ELSE line
  BY DEF Answer
<1>3. n \in 1..Req /\ pending' \subseteq 1..Req
  BY DEF Answer, IInv, Typed
<1>4. line' \in Seq(Known(Req))
  BY <1>2, <1>3, FrameTyped, SeqJoin DEF IInv, Typed
<1>5. Typed'
  BY <1>1, <1>3, <1>4 DEF IInv, Typed, Answer, linkVars
<1> QED BY <1>1, <1>5 DEF IInv, Answer, ReadSoFar, DataIsAddressed, linkVars

LEMMA ClosedKeepsIInv ==
    ASSUME IInv, Closed,
           UNCHANGED <<linkVars, pc, target, buf, want, outcome, got, troubled>>
    PROVE  IInv'
<1>1. Req' = Req
  BY DEF Req
<1>2. line' \in Seq(Known(Req)) /\ pending' \subseteq 1..Req
  BY DEF Closed, IInv, Typed
<1>3. port' \in {"nil", "closed"}
  BY DEF Closed, AfterClose
<1>4. Typed'
  BY <1>1, <1>2, <1>3 DEF IInv, Typed, linkVars
<1> QED BY <1>1, <1>4 DEF IInv, ReadSoFar, DataIsAddressed, linkVars

LEMMA StutterKeepsIInv == IInv /\ UNCHANGED vars => IInv'
<1> SUFFICES ASSUME IInv, UNCHANGED vars PROVE IInv'
  OBVIOUS
<1>1. Req' = Req
  BY DEF Req, vars
<1> QED BY <1>1 DEF vars, linkVars, IInv, Typed, ReadSoFar, DataIsAddressed

LEMMA NextIInv == IInv /\ [Next]_vars => IInv'
<1> SUFFICES ASSUME IInv, [Next]_vars PROVE IInv'
  OBVIOUS
<1>1. CASE Begin
  BY <1>1, BeginKeepsIInv
<1>2. CASE OpenFails
  BY <1>2, OpenFailsKeepsIInv
<1>3. CASE Write
  BY <1>3, WriteKeepsIInv
<1>4. CASE IOError
  BY <1>4, IOErrorKeepsIInv
<1>5. CASE ReadFirst
  BY <1>5, ReadFirstKeepsIInv
<1>6. CASE ReadRest
  BY <1>6, ReadRestKeepsIInv
<1>7. CASE ReadChunk
  BY <1>7, ReadChunkKeepsIInv
<1>8. CASE Timeout
  BY <1>8, TimeoutKeepsIInv
<1>9. CASE \E n \in Ids : Answer(n)
  BY <1>9, AnswerKeepsIInv
<1>10. CASE CloseIdle
  BY <1>10, ClosedKeepsIInv DEF CloseIdle
<1>11. CASE Close
  BY <1>11, ClosedKeepsIInv DEF Close
<1>12. CASE UNCHANGED vars
  BY <1>12, StutterKeepsIInv
<1> QED
  BY <1>1, <1>2, <1>3, <1>4, <1>5, <1>6, <1>7, <1>8, <1>9, <1>10, <1>11, <1>12
  DEF Next, SendNext

-----------------------------------------------------------------------------
(***************************************************************************)
(* A port on which no exchange has failed.                                 *)
(***************************************************************************)
\* read and then rest are the frame that answers request `to'.
Split(to, kind, read, rest) ==
    /\ Len(read) + Len(rest) = Size(to, kind)
    /\ \A i \in 1..Len(read) : read[i] = [to |-> to, kind |-> kind, at |-> i]
    /\ \A i \in 1..Len(rest) : rest[i] = [to |-> to, kind |-> kind, at |-> Len(read) + i]

\* The line and the buffer hold the reply to this request and nothing else.
ReplyComes ==
    /\ pc \in {"read", "rest"} /\ pending = {}
    /\ \E kind \in Kinds :
         /\ Split(Req, kind, buf, line)
         /\ pc = "rest" => kind = "data" /\ want = target[Req].size

\* Only what is open has a line, and as long as nothing failed, it is empty
\* between exchanges and carries one reply in each.
CleanInv ==
    /\ port = "nil" => pc = "idle" /\ line = <<>> /\ pending = {}
    /\ ~troubled /\ port = "open" =>
         \/ pc \in {"idle", "write"} /\ pending = {} /\ line = <<>>
         \/ pc = "read" /\ pending = {Req} /\ line = <<>> /\ buf = <<>>
         \/ ReplyComes

CInv == CleanInv /\ CleanLineIsTrusted

\* Reading some of the line moves the cut in the frame.
LEMMA TakeSplits ==
    ASSUME Typed, NEW kind \in Kinds, Split(Req, kind, buf, line),
           NEW n \in 0..Len(line), Take(n)
    PROVE  /\ Split(Req, kind, buf', line')
           /\ Len(buf') = Len(buf) + n /\ Len(line') = Len(line) - n
<1> DEFINE k == Len(buf)
           m == Len(line)
<1>1. k \in Nat /\ m \in Nat /\ n \in Nat /\ n <= m
  BY DEF Typed
<1>2. buf \in Seq(Known(Req)) /\ line \in Seq(Known(Req))
  BY DEF Typed
<1>3. /\ k + m = Size(Req, kind)
      /\ \A i \in 1..k : buf[i] = [to |-> Req, kind |-> kind, at |-> i]
      /\ \A i \in 1..m : line[i] = [to |-> Req, kind |-> kind, at |-> k + i]
  BY DEF Split
<1>4. /\ SubSeq(line, 1, n) \in Seq(Known(Req)) /\ Len(SubSeq(line, 1, n)) = n
      /\ \A i \in 1..n : SubSeq(line, 1, n)[i] = line[i]
  BY <1>2, SeqTake
<1>5. /\ Len(line') = m - n
      /\ \A i \in 1..m - n : line'[i] = line[n + i]
  <2>1. n + 1 \in Int /\ m \in Int /\ \A i \in n + 1..m : line[i] \in Known(Req)
    BY <1>1, <1>2
  <2>2. /\ Len(SubSeq(line, n + 1, m)) = IF n + 1 <= m THEN m - (n + 1) + 1 ELSE 0
        /\ \A i \in 1..m - (n + 1) + 1 : SubSeq(line, n + 1, m)[i] = line[n + 1 + i - 1]
    BY <2>1, SubSeqProperties
  <2>3. line' = SubSeq(line, n + 1, m)
    BY DEF Take
  <2> HIDE DEF m
  <2>4. m - (n + 1) + 1 = m - n /\ \A i \in 1..m - n : n + 1 + i - 1 = n + i
    BY <1>1
  <2> QED BY <1>1, <2>2, <2>3, <2>4
<1>6. /\ Len(buf') = k + n
      /\ \A i \in 1..k + n : buf'[i] = IF i <= k THEN buf[i] ELSE SubSeq(line, 1, n)[i - k]
  BY <1>2, <1>4, ConcatProperties DEF Take
<1> HIDE DEF k, m
<1>7. Len(buf') + Len(line') = Size(Req, kind)
  BY <1>1, <1>3, <1>5, <1>6
<1>8. ASSUME NEW i \in 1..Len(buf') PROVE buf'[i] = [to |-> Req, kind |-> kind, at |-> i]
  <2>1. CASE i <= k
    <3>1. i \in 1..k /\ i \in 1..k + n
      BY <1>1, <1>6, <2>1
    <3>2. buf'[i] = buf[i]
      BY <1>6, <2>1, <3>1
    <3> QED BY <1>3, <3>1, <3>2
  <2>2. CASE ~(i <= k)
    <3>1. i - k \in 1..n /\ i - k \in 1..m /\ k + (i - k) = i
      BY <1>1, <1>6, <2>2
    <3>2. buf'[i] = line[i - k]
      BY <1>4, <1>6, <2>2, <3>1
    <3>3. line[i - k] = [to |-> Req, kind |-> kind, at |-> k + (i - k)]
      BY <1>3, <3>1
    <3> QED BY <3>1, <3>2, <3>3
  <2> QED BY <2>1, <2>2
<1>9. ASSUME NEW i \in 1..Len(line')
      PROVE line'[i] = [to |-> Req, kind |-> kind, at |-> Len(buf') + i]
  <2>1. i \in 1..m - n /\ n + i \in 1..m /\ k + (n + i) = (k + n) + i
    BY <1>1, <1>5
  <2>2. line'[i] = line[n + i]
    BY <1>5, <2>1
  <2>3. line[n + i] = [to |-> Req, kind |-> kind, at |-> k + (n + i)]
    BY <1>3, <2>1
  <2> QED BY <1>6, <2>1, <2>2, <2>3
<1> QED BY <1>5, <1>6, <1>7, <1>8, <1>9 DEF Split, k, m

\* What was read of the frame is delivered: all of it as what the device sent,
\* less of it as a checksum error.
LEMMA SplitDelivered ==
    ASSUME Typed, Req > 0, NEW kind \in Kinds, NEW b \in Seq(Known(Req)), NEW rest,
           Split(Req, kind, b, rest), Len(b) > 0, Len(rest) \in Nat, Deliver(b)
    PROVE  /\ pc' = "idle"
           /\ \/ /\ Len(rest) = 0
                 /\ outcome' = kind /\ got' = [to |-> Req, kind |-> kind]
              \/ troubled'
<1> DEFINE f == Frame(Req, kind)
<1>1. Req \in 1..Req
  BY RequestsTyped
<1>2. /\ f \in Seq(Known(Req)) /\ Len(f) = Size(Req, kind) /\ Len(f) \in Nat
      /\ \A i \in 1..Len(f) : f[i] = [to |-> Req, kind |-> kind, at |-> i]
  BY <1>1, FrameTyped DEF Frame
<1>3. /\ Len(b) \in Nat /\ Len(b) + Len(rest) = Len(f)
      /\ \A i \in 1..Len(b) : b[i] = [to |-> Req, kind |-> kind, at |-> i]
      /\ b[1] = [to |-> Req, kind |-> kind, at |-> 1]
  <2>1. Len(b) \in Nat /\ 1 \in 1..Len(b)
    OBVIOUS
  <2> QED BY <1>2, <2>1 DEF Split
<1> DEFINE t == [to |-> Req, kind |-> kind]
<1>4. /\ Frame(b[1].to, b[1].kind) = f /\ Verify(b) = {TRUE}
      /\ [to |-> b[1].to, kind |-> b[1].kind] = t
      /\ Answered(b) <=> kind = "data"
  <2>1. b[1].to = Req /\ b[1].kind = kind /\ b[1].at = 1
    BY <1>3
  <2>2. Verify(b) = {TRUE}
    BY <2>1 DEF Verify
  <2>3. Answered(b) <=> kind = "data"
    BY <2>1 DEF Answered
  <2> QED BY <2>1, <2>2, <2>3
<1>5. IF ~Intact(b) THEN Fail("checksum")
      ELSE Finish(IF Answered(b) THEN "data" ELSE "exception", t)
  BY <1>4 DEF Deliver
<1>6. Intact(b) => Len(f) <= Len(b)
  BY <1>4 DEF Intact
<1> HIDE DEF f, t
<1>7. CASE Len(rest) = 0
  <2>1. Len(b) = Len(f)
    BY <1>2, <1>3, <1>7
  <2>2. SubSeq(b, 1, Len(f)) = f
    <3>1. Len(f) \in 0..Len(b)
      BY <1>2, <2>1
    <3>2. /\ SubSeq(b, 1, Len(f)) \in Seq(Known(Req)) /\ Len(SubSeq(b, 1, Len(f))) = Len(f)
          /\ \A i \in 1..Len(f) : SubSeq(b, 1, Len(f))[i] = f[i]
      BY <1>2, <1>3, <2>1, <3>1, SeqTake
    <3> QED BY <1>2, <3>2, SeqEqual
  <2>3. Intact(b)
    BY <1>2, <1>4, <2>1, <2>2 DEF Intact
  <2>4. Finish(kind, t)
    BY <1>4, <1>5, <2>3 DEF Kinds
  <2>5. kind \in Good
    BY DEF Kinds, Good
  <2> QED BY <1>7, <2>4, <2>5 DEF Finish, t, Typed
<1>8. CASE Len(rest) > 0
  <2>1. ~Intact(b)
    BY <1>2, <1>3, <1>6, <1>8
  <2>2. Fail("checksum")
    BY <1>5, <2>1
  <2> QED BY <2>2 DEF Fail, Finish, Good
<1> QED BY <1>7, <1>8

\* Nothing is promised of a port on which an exchange failed.
LEMMA TroubledKeepsClean ==
    ASSUME troubled', port' # "nil"
    PROVE  CInv'
  BY DEF CInv, CleanInv, CleanLineIsTrusted

LEMMA FailKeepsClean ==
    ASSUME CInv, pc # "idle", NEW result \in Outcomes \ Good, Fail(result), UNCHANGED port
    PROVE  CInv'
<1>1. port # "nil"
  BY DEF CInv, CleanInv
<1>2. troubled'
  BY DEF Fail, Finish
<1> QED BY <1>1, <1>2, TroubledKeepsClean

\* A step that leaves the last answer alone, on the same requests.
LEMMA AnswerStays ==
    ASSUME CInv, CleanInv', UNCHANGED <<target, outcome, got, troubled>>
    PROVE  CInv'
  BY DEF CInv, CleanLineIsTrusted, Req

\* An exchange that delivers after what went well before.
LEMMA DeliverKeepsClean ==
    ASSUME IInv, port = "open", pc # "idle", pending = {},
           NEW kind \in Kinds, Split(Req, kind, buf, line),
           NEW n \in 0..Len(line), Take(n), Len(buf) + n > 0, Deliver(buf'),
           UNCHANGED <<port, target, pending>>
    PROVE  CInv'
<1>1. Typed /\ Req > 0 /\ Req' = Req
  BY DEF IInv, Typed, Req
<1>2. /\ Split(Req, kind, buf', line')
      /\ line' \in Seq(Known(Req)) /\ buf' \in Seq(Known(Req)) /\ Len(buf') = Len(buf) + n
  BY <1>1, TakeSplits, TakeTyped
<1>3. PICK b, rest : b = buf' /\ rest = line'
  OBVIOUS
<1>4. /\ b \in Seq(Known(Req)) /\ Len(b) > 0 /\ Deliver(b)
      /\ Split(Req, kind, b, rest) /\ Len(rest) \in Nat
  BY <1>2, <1>3
<1>5. /\ pc' = "idle"
      /\ \/ Len(rest) = 0 /\ outcome' = kind /\ got' = [to |-> Req, kind |-> kind]
         \/ troubled'
  BY <1>1, <1>4, SplitDelivered
<1>6. CASE troubled'
  BY <1>6, TroubledKeepsClean
<1>7. CASE Len(rest) = 0 /\ outcome' = kind /\ got' = [to |-> Req, kind |-> kind]
  <2>1. line' = <<>>
    BY <1>2, <1>3, <1>7
  <2>2. CleanInv'
    BY <1>5, <2>1 DEF CleanInv
  <2>3. CleanLineIsTrusted'
    BY <1>1, <1>7 DEF CleanLineIsTrusted
  <2> QED BY <2>2, <2>3 DEF CInv
<1> QED BY <1>5, <1>6, <1>7

\* Deliver cannot mend a port.
LEMMA DeliverStaysTroubled ==
    ASSUME NEW b, Deliver(b), troubled
    PROVE  troubled'
  BY DEF Deliver, Fail, Finish

LEMMA ReadFirstKeepsClean ==
    ASSUME IInv, CInv, ReadFirst
    PROVE  CInv'
<1>1. PICK n \in MinSize..Len(line) :
        /\ Take(n)
        /\ \E byte \in FunctionByte(buf') :
             IF n < Wanted(byte)
             THEN /\ pc' = "rest" /\ want' = Wanted(byte)
                  /\ UNCHANGED <<outcome, got, troubled>>
             ELSE Deliver(buf') /\ UNCHANGED want
  BY DEF ReadFirst
<1>2. PICK b : b = buf'
  OBVIOUS
<1>3. PICK byte \in FunctionByte(b) :
        IF n < Wanted(byte)
        THEN /\ pc' = "rest" /\ want' = Wanted(byte)
             /\ UNCHANGED <<outcome, got, troubled>>
        ELSE Deliver(b) /\ UNCHANGED want
  BY <1>1, <1>2
<1>4. /\ protocol = "rtu" /\ pc = "read" /\ port = "open" /\ port' = "open"
      /\ UNCHANGED <<port, target, pending>>
  BY DEF ReadFirst
<1>5. CASE troubled
  <2>1. troubled'
    BY <1>3, <1>5, DeliverStaysTroubled
  <2> QED BY <1>4, <2>1, TroubledKeepsClean
<1>6. CASE ~troubled
  <2>1. n \in Nat /\ n \in 0..Len(line) /\ n >= 2 /\ buf = <<>> /\ Len(buf) = 0 /\ Typed
    BY <1>4, SerialAssumption DEF IInv, ReadSoFar
  <2>2. ReplyComes
    <3>1. line # <<>>
      BY <2>1
    <3> QED BY <1>4, <1>6, <3>1 DEF CInv, CleanInv
  <2>3. PICK kind \in Kinds : Split(Req, kind, buf, line)
    BY <2>2 DEF ReplyComes
  <2>4. Split(Req, kind, buf', line') /\ Len(buf') = n
    BY <1>1, <2>1, <2>3, TakeSplits
  <2>5. CASE n < Wanted(byte)
    <3>1. b[2] = [to |-> Req, kind |-> kind, at |-> 2]
      <4>1. 2 \in 1..Len(b)
        BY <1>2, <2>1, <2>4
      <4> QED BY <1>2, <2>4, <4>1 DEF Split
    <3>2. kind = "data" /\ byte = "function"
      <4>1. byte = IF kind = "data" THEN "function" ELSE "other"
        <5>1. b[2].at = 2 /\ b[2].kind = kind /\ b[2].to = Req
          BY <3>1
        <5> QED BY <1>3, <5>1 DEF FunctionByte
      <4>2. byte # "other"
        BY <2>1, <2>5 DEF Wanted
      <4> QED BY <4>1, <4>2
    <3>3. want' = target[Req].size
      <4>1. want' = BytesToRead /\ n < BytesToRead
        BY <1>3, <2>5, <3>2 DEF Wanted
      <4>2. MinSize \in Nat /\ n >= MinSize
        BY SerialAssumption
      <4> QED BY <2>1, <4>1, <4>2 DEF BytesToRead
    <3>4. Req' = Req /\ UNCHANGED <<target, outcome, got, troubled>> /\ pc' = "rest" /\ pending' = {}
      BY <1>3, <1>4, <2>2, <2>5 DEF Req, ReplyComes
    <3>5. ReplyComes'
      BY <2>4, <3>2, <3>3, <3>4 DEF ReplyComes, Split, Size
    <3>6. CleanInv'
      BY <1>4, <3>5 DEF CleanInv
    <3> QED BY <3>4, <3>6, AnswerStays
  <2>6. CASE ~(n < Wanted(byte))
    <3>1. Deliver(buf')
      BY <1>2, <1>3, <2>6
    <3>2. pending = {} /\ Len(buf) + n > 0
      BY <2>1, <2>2 DEF ReplyComes
    <3> QED BY <1>1, <1>4, <2>1, <2>3, <3>1, <3>2, DeliverKeepsClean
  <2> QED BY <2>5, <2>6
<1> QED BY <1>5, <1>6

LEMMA ReadRestKeepsClean ==
    ASSUME IInv, CInv, ReadRest
    PROVE  CInv'
<1>1. /\ pc = "rest" /\ port = "open" /\ want - Len(buf) <= Len(line)
      /\ Take(want - Len(buf)) /\ Deliver(buf')
      /\ UNCHANGED <<port, target, pending>>
  BY DEF ReadRest
<1>2. want \in Nat /\ Len(buf) \in Nat /\ Len(line) \in Nat
  BY SerialAssumption DEF IInv, Typed
<1>3. Len(buf) > 0 /\ Len(buf) < want
  BY <1>1 DEF IInv, ReadSoFar
<1>4. want - Len(buf) \in 0..Len(line) /\ Len(buf) + (want - Len(buf)) > 0
  BY <1>1, <1>2, <1>3
<1>5. CASE troubled
  <2>1. PICK b : b = buf'
    OBVIOUS
  <2>2. troubled' /\ port' # "nil"
    BY <1>1, <1>5, <2>1, DeliverStaysTroubled
  <2> QED BY <2>2, TroubledKeepsClean
<1>6. CASE ~troubled
  <2>1. ReplyComes
    BY <1>1, <1>6 DEF CInv, CleanInv
  <2>2. PICK kind \in Kinds : Split(Req, kind, buf, line)
    BY <2>1 DEF ReplyComes
  <2> QED BY <1>1, <1>4, <2>1, <2>2, DeliverKeepsClean DEF ReplyComes
<1> QED BY <1>5, <1>6

LEMMA ReadChunkKeepsClean ==
    ASSUME IInv, CInv, ReadChunk
    PROVE  CInv'
<1>1. PICK n \in 1..Len(line) : Take(n)
  BY DEF ReadChunk
<1>2. /\ pc = "read" /\ port = "open"
      /\ IF Terminated(buf') THEN Deliver(buf') ELSE UNCHANGED <<pc, outcome, got, troubled>>
      /\ UNCHANGED <<port, target, pending>>
  BY DEF ReadChunk
<1>3. n \in 0..Len(line) /\ Len(buf) + n > 0 /\ Typed
  BY DEF IInv, Typed
<1>4. CASE troubled
  <2>1. PICK b : b = buf'
    OBVIOUS
  <2>2. troubled' /\ port' # "nil"
    BY <1>2, <1>4, <2>1, DeliverStaysTroubled
  <2> QED BY <2>2, TroubledKeepsClean
<1>5. CASE ~troubled
  <2>1. ReplyComes
    <3>1. line # <<>>
      BY DEF IInv, Typed
    <3> QED BY <1>2, <1>5, <3>1 DEF CInv, CleanInv
  <2>2. PICK kind \in Kinds : Split(Req, kind, buf, line)
    BY <2>1 DEF ReplyComes
  <2>3. CASE Terminated(buf')
    BY <1>1, <1>2, <1>3, <2>1, <2>2, <2>3, DeliverKeepsClean DEF ReplyComes
  <2>4. CASE ~Terminated(buf')
    <3>1. Split(Req, kind, buf', line')
      BY <1>1, <1>3, <2>2, TakeSplits
    <3>2. Req' = Req /\ UNCHANGED <<pc, target, outcome, got, troubled>> /\ pending' = {}
      BY <1>2, <2>1, <2>4 DEF Req, ReplyComes
    <3>3. ReplyComes'
      BY <1>2, <3>1, <3>2 DEF ReplyComes, Split, Size
    <3>4. CleanInv'
      BY <1>2, <3>3 DEF CleanInv
    <3> QED BY <3>2, <3>4, AnswerStays
  <2> QED BY <2>3, <2>4
<1> QED BY <1>4, <1>5

LEMMA BeginKeepsClean ==
    ASSUME IInv, CInv, Begin
    PROVE  CInv'
<1>1. CleanLineIsTrusted'
  BY DEF Begin, CleanLineIsTrusted
<1>2. CleanInv'
  <2>1. /\ pc = "idle" /\ pc' = "write" /\ port' = (IF port = "nil" THEN "open" ELSE port)
        /\ troubled' = (troubled /\ port # "nil") /\ UNCHANGED <<pending, line>>
    BY DEF Begin
  <2>2. ~troubled' /\ port' = "open" => pending = {} /\ line = <<>>
    BY <2>1 DEF CInv, CleanInv, ReplyComes
  <2> QED BY <2>1, <2>2 DEF CleanInv
<1> QED BY <1>1, <1>2 DEF CInv

LEMMA OpenFailsKeepsClean ==
    ASSUME CInv, OpenFails
    PROVE  CInv'
  BY DEF OpenFails, CInv, CleanInv, CleanLineIsTrusted

LEMMA WriteKeepsClean ==
    ASSUME IInv, CInv, Write
    PROVE  CInv'
<1>1. /\ pc = "write" /\ port = "open" /\ pending' = pending \cup {Req} /\ pc' = "read"
      /\ UNCHANGED <<port, target, line, buf, outcome, got, troubled>> /\ Req' = Req
  BY DEF Write, Req
<1>2. buf = <<>>
  BY <1>1 DEF IInv, ReadSoFar
<1>3. ~troubled => pending = {} /\ line = <<>>
  BY <1>1 DEF CInv, CleanInv, ReplyComes
<1>4. CleanInv'
  BY <1>1, <1>2, <1>3 DEF CleanInv
<1> QED BY <1>1, <1>4, AnswerStays

\* The device answers the one request it has, on an empty line.
LEMMA AnswerKeepsClean ==
    ASSUME IInv, CInv, NEW n \in Ids, Answer(n)
    PROVE  CInv'
<1>1. PICK kind \in Kinds :
        line' = IF port = "open" THEN line \o Frame(n, kind) ELSE line
  BY DEF Answer
<1>2. /\ n \in pending /\ pending' = pending \ {n} /\ Req' = Req
      /\ UNCHANGED <<port, pc, target, buf, want, outcome, got, troubled>>
  BY DEF Answer, Req
<1>3. port # "nil"
  BY <1>2 DEF CInv, CleanInv
<1>4. ASSUME ~troubled, port = "open" PROVE ReplyComes'
  <2>1. pc = "read" /\ pending = {Req} /\ line = <<>> /\ buf = <<>> /\ n = Req
    BY <1>2, <1>4 DEF CInv, CleanInv, ReplyComes
  <2>2. Req \in 1..Req
    BY <2>1, RequestsTyped DEF IInv, Typed
  <2>3. /\ Frame(Req, kind) \in Seq(Known(Req)) /\ Len(Frame(Req, kind)) = Size(Req, kind)
        /\ Size(Req, kind) \in Nat
    BY <2>2, FrameTyped DEF IInv
  <2>4. line' = Frame(Req, kind)
    BY <1>1, <1>4, <2>1, <2>3
  <2>5. \A i \in 1..Size(Req, kind) :
          Frame(Req, kind)[i] = [to |-> Req, kind |-> kind, at |-> i]
    BY DEF Frame
  <2>6. Len(buf) = 0 /\ \A i \in 1..Size(Req, kind) : i = Len(buf) + i
    BY <2>1
  <2>7. Split(Req, kind, buf, line')
    BY <2>3, <2>4, <2>5, <2>6 DEF Split
  <2>8. pending' = {} /\ pc' = "read"
    BY <1>2, <2>1
  <2> QED BY <1>2, <2>7, <2>8 DEF ReplyComes, Split, Size
<1>5. CleanInv'
  BY <1>2, <1>3, <1>4 DEF CleanInv
<1> QED BY <1>2, <1>5, AnswerStays

\* A port that is forgotten is forgotten between exchanges.
LEMMA ClosedKeepsClean ==
    ASSUME CInv, Closed, link = "tcp" => pc = "idle",
           link \in {"serial", "tcp"},
           UNCHANGED <<pc, target, buf, want, outcome, got, troubled>>
    PROVE  CInv'
<1>1. CleanInv'
  BY DEF Closed, AfterClose, CleanInv
<1> QED BY <1>1, AnswerStays

LEMMA NextClean == IInv /\ CInv /\ [Next]_vars => CInv'
<1> SUFFICES ASSUME IInv, CInv, [Next]_vars PROVE CInv'
  OBVIOUS
<1> "ioError" \in Outcomes \ Good /\ "timeout" \in Outcomes \ Good
  BY DEF Outcomes, Good
<1>1. CASE Begin
  BY <1>1, BeginKeepsClean
<1>2. CASE OpenFails
  BY <1>2, OpenFailsKeepsClean
<1>3. CASE Write
  BY <1>3, WriteKeepsClean
<1>4. CASE IOError
  BY <1>4, FailKeepsClean DEF IOError
<1>5. CASE ReadFirst
  BY <1>5, ReadFirstKeepsClean
<1>6. CASE ReadRest
  BY <1>6, ReadRestKeepsClean
<1>7. CASE ReadChunk
  BY <1>7, ReadChunkKeepsClean
<1>8. CASE Timeout
  BY <1>8, FailKeepsClean DEF Timeout
<1>9. CASE \E n \in Ids : Answer(n)
  BY <1>9, AnswerKeepsClean
<1>10. CASE CloseIdle
  BY <1>10, ClosedKeepsClean DEF CloseIdle, IInv, Typed
<1>11. CASE Close
  <2>1. link = "tcp" => pc = "idle"
    BY <1>11 DEF Close, CloseLocked
  <2> QED BY <1>11, <2>1, ClosedKeepsClean DEF Close, IInv, Typed
<1>12. CASE UNCHANGED vars
  BY <1>12 DEF vars, CInv, CleanInv, CleanLineIsTrusted, ReplyComes, Split, Size, Req
<1> QED
  BY <1>1, <1>2, <1>3, <1>4, <1>5, <1>6, <1>7, <1>8, <1>9, <1>10, <1>11, <1>12
  DEF Next, SendNext

-----------------------------------------------------------------------------
(***************************************************************************)
(* The theorems.                                                           *)
(***************************************************************************)
THEOREM ExchangeInvariant == Spec => []IInv
  BY InitIInv, NextIInv, PTL DEF Spec

\* Every variable keeps its type (Send's locals and the port in the code).
THEOREM ExchangeTypeOK == Spec => []TypeOK
<1>1. IInv => TypeOK
  <2> SUFFICES ASSUME IInv PROVE TypeOK
    OBVIOUS
  <2>1. Req \in Nat /\ Req <= MaxRequests
    BY RequestsTyped DEF IInv
  <2>2. Known(Req) \subseteq Bytes /\ KnownFrames(Req) \subseteq [to : Ids, kind : Kinds]
    <3>1. 1..Req \subseteq Ids
      BY <2>1, SerialAssumption DEF Ids
    <3> QED BY <3>1 DEF Known, KnownFrames, Bytes
  <2>3. line \in Seq(Bytes) /\ buf \in Seq(Bytes)
    BY <2>2, SeqMonotonic DEF IInv, Typed
  <2>4. got \in [to : Ids, kind : Kinds] \cup {NoFrame}
    BY <2>2 DEF IInv, Typed
  <2> QED BY <2>3, <2>4 DEF IInv, Typed, TypeOK, Req
<1> QED BY <1>1, ExchangeInvariant, PTL

\* Data is returned only from a reply of the slave and the function that were
\* asked, whatever is left on the line and wherever reads cut the frames
\* (Verify, Decode and client.send).
THEOREM ExchangeDataIsAddressed == Spec => []DataIsAddressed
<1>1. IInv => DataIsAddressed
  BY DEF IInv
<1> QED BY <1>1, ExchangeInvariant, PTL

\* As long as no exchange on a port has failed, the reply that Send returns
\* answers the request it wrote, and a Modbus error is one the device sent: it
\* takes a failure before the missing flush of the line can matter.
THEOREM ExchangeTrustsCleanLine == Spec => []CleanLineIsTrusted
<1>1. Init => CInv
  BY DEF Init, CInv, CleanInv, CleanLineIsTrusted
<1>2. CInv => CleanLineIsTrusted
  BY DEF CInv
<1> QED BY <1>1, <1>2, ExchangeInvariant, NextClean, PTL DEF Spec

\* While an exchange reads, its port stays open: Close waits for the mutex and
\* the idle timer for the exchange, on every handler but the serial ASCII one,
\* whose Close is serialPort.Close and takes no mutex.
THEOREM ExchangeHoldsPort == Spec => []PortHeld
<1>1. Init => PortHeld
  BY DEF Init, PortHeld
<1>2. PortHeld /\ [Next]_vars => PortHeld'
  <2> SUFFICES ASSUME PortHeld, [Next]_vars  PROVE  PortHeld'
    OBVIOUS
  <2>1. CASE Begin
    BY <2>1 DEF Begin, PortHeld
  <2>2. CASE OpenFails
    BY <2>2 DEF OpenFails, PortHeld, linkVars
  <2>3. CASE Write
    BY <2>3 DEF Write, PortHeld
  <2>4. CASE IOError
    BY <2>4 DEF IOError, Fail, Finish, PortHeld
  <2>5. CASE ReadFirst \/ ReadRest
    <3>1. port = "open" /\ port' = port
      BY <2>5 DEF ReadFirst, ReadRest
    <3> QED  BY <3>1 DEF PortHeld
  <2>6. CASE ReadChunk \/ Timeout
    <3>1. port = "open" /\ port' = port
      BY <2>6 DEF ReadChunk, Timeout
    <3> QED  BY <3>1 DEF PortHeld
  <2>7. CASE \E n \in Ids : Answer(n)
    <3>1. UNCHANGED <<linkVars, port, pc>>
      BY <2>7 DEF Answer
    <3> QED  BY <3>1 DEF PortHeld, linkVars
  <2>8. CASE CloseIdle
    BY <2>8 DEF CloseIdle, PortHeld
  <2>9. CASE Close
    BY <2>9 DEF Close, CloseLocked, PortHeld, linkVars
  <2>10. CASE UNCHANGED vars
    BY <2>10 DEF vars, linkVars, PortHeld
  <2> QED  BY <2>1, <2>2, <2>3, <2>4, <2>5, <2>6, <2>7, <2>8, <2>9, <2>10 DEF Next, SendNext
<1> QED  BY <1>1, <1>2, PTL DEF Spec
=============================================================================
