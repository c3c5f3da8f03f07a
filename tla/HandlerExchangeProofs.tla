------------------------- MODULE HandlerExchangeProofs -------------------------
(***************************************************************************)
(* Safety of ModbusHandler for any number of callers, slaves, exchanges    *)
(* and scans, over either transporter.                                     *)
(*                                                                         *)
(* Whatever callers tear apart, a field that is on the line or in a buffer *)
(* answers a request that was made (CameInv), and only a frame in step is  *)
(* judged.  As long as nothing failed or overlapped, what is on its way    *)
(* is exactly the one frame its reader waits for (QuietInv), and a scan    *)
(* has accounted for every id it is past (ScanInv).                        *)
(***************************************************************************)
EXTENDS HandlerExchange, TLAPS

InExchange == {"sending", "reading"}
Probes == {Probe(id) : id \in ScanIds}

\* Where a caller is tells what it is in; the scanner's exchanges are probes.
CallInv ==
    /\ Len(requests) + Len(scan) <= MaxRequests
    /\ \A c \in Callers :
         /\ pc[c] \in InExchange => mine[c] # 0
         /\ pc[c] # "reading" => buf[c] = <<>>
         /\ pc[c] = "next" => scanner = c
         /\ scanner = c => pc[c] \notin {"idle", "panicked"}
         /\ scanner = c /\ pc[c] \in InExchange => requests[mine[c]] \in Probes

\* A field answers a request, and an answered probe is in the history.
Came(f) ==
    /\ f.to \in 1..Len(requests)
    /\ Function(f.to) = 17 => <<Unit(f.to), f.kind>> \in identities
CameInv ==
    /\ \A i \in 1..Len(stream) : Came(stream[i])
    /\ \A c \in Callers : buf[c] # Torn => \A i \in 1..Len(buf[c]) : Came(buf[c][i])

\* The frame that answers n, partly read and partly still to come.
Split(n, kind, read, rest) ==
    /\ Len(read) + Len(rest) = FrameSize
    /\ \A i \in 1..Len(read) : read[i] = [to |-> n, kind |-> kind, at |-> i]
    /\ \A i \in 1..Len(rest) : rest[i] = [to |-> n, kind |-> kind, at |-> Len(read) + i]

QuietInv ==
    ~troubled =>
        /\ \A c, d \in Callers : pc[c] \in InExchange /\ pc[d] \in InExchange => c = d
        /\ (\A c \in Callers : pc[c] # "reading") => pending = {} /\ stream = <<>>
        /\ \A c \in Callers : pc[c] = "reading" /\ open =>
             \/ pending = {mine[c]} /\ stream = <<>> /\ buf[c] = <<>>
             \/ pending = {} /\ \E kind \in Kinds : Split(mine[c], kind, buf[c], stream)

\* The exchange that ended last was one, and so was what its reply answered.
LastInv ==
    /\ last.result = "data" =>
         /\ last.of \in 1..Len(requests)
         /\ (mode = "TCP" /\ last.reply = Garbage) \/ last.reply.to \in 1..Len(requests)
    /\ ReplyIsAddressed
    /\ TurnsAreSafe

\* A slave the scan is past is listed or has refused.
PastOrToCome(s) ==
    \/ s \in active
    \/ <<s, "exception">> \in identities
    \/ \E i \in 1..Len(scan) : scan[i] = s
    \/ pc[scanner] \in InExchange /\ requests[mine[scanner]].slave = s
ScanInv ==
    /\ ~garbled => \A s \in active : <<s, "data">> \in identities
    /\ scanner # NoOne /\ ~troubled /\ mode = "TCP" => \A s \in range : PastOrToCome(s)

Inv == TypeOK /\ CallInv /\ CameInv /\ QuietInv /\ LastInv /\ ScanInv

-----------------------------------------------------------------------------
(***************************************************************************)
(* The steps, with those of sendAndReceive told apart by what they do to   *)
(* the exchange: it ends, or it goes on to the next field.                 *)
(***************************************************************************)
FrameOf(b) == [to |-> b[1].to, kind |-> b[1].kind]

Judged(c, result, reply) ==
    \/ result = "error" /\ reply = NoReply
    \/ ~InStep(Taken(c)) /\ result \in OfGarbage /\ reply = Garbage
    \/ InStep(Taken(c)) /\ Whole(Taken(c)) /\ reply = FrameOf(Taken(c)) /\ Verdict(c, reply, result)
TakesField(c) ==
    /\ pc[c] = "reading" /\ open /\ stream # <<>>
    /\ stream' = Tail(stream)
Ends(c, result, reply) ==
    /\ pc[c] \in InExchange
    /\ Return(c, result, reply)
    /\ \/ stream' = stream /\ result = "error" /\ reply = NoReply
       \/ TakesField(c) /\ Judged(c, result, reply)
    /\ UNCHANGED <<pending, identities>>
GoesOn(c) ==
    /\ TakesField(c)
    /\ \/ ~InStep(Taken(c)) /\ GoOn(c, Torn)
       \/ InStep(Taken(c)) /\ ~Whole(Taken(c)) /\ GoOn(c, Taken(c))
    /\ UNCHANGED <<pending, identities>>
Panics(c) ==
    /\ TakesField(c) /\ ~InStep(Taken(c)) /\ scanner # c
    /\ buf' = [buf EXCEPT ![c] = <<>>]
    /\ pc' = [pc EXCEPT ![c] = "panicked"]
    /\ UNCHANGED <<given, open, requests, mine, last, scanVars, pending, identities, history>>

LEMMA ReadFieldCases ==
    ASSUME NEW c \in Callers, ReadField(c)
    PROVE  GoesOn(c) \/ \E result, reply : Ends(c, result, reply)
<1>1. TakesField(c) /\ pc[c] \in InExchange /\ UNCHANGED <<pending, identities>>
  BY DEF ReadField, TakesField, InExchange
<1>2. \/ ~InStep(Taken(c)) /\ GoOn(c, Torn)
      \/ ~InStep(Taken(c)) /\ \E result \in OfGarbage : Return(c, result, Garbage)
      \/ Fail(c)
      \/ /\ InStep(Taken(c)) /\ Whole(Taken(c))
         /\ \E result : Verdict(c, FrameOf(Taken(c)), result) /\ Return(c, result, FrameOf(Taken(c)))
      \/ InStep(Taken(c)) /\ ~Whole(Taken(c)) /\ GoOn(c, Taken(c))
  BY DEF ReadField, Taken, FrameOf
<1>3. CASE ~InStep(Taken(c)) /\ GoOn(c, Torn)
  BY <1>1, <1>3 DEF GoesOn
<1>4. CASE ~InStep(Taken(c)) /\ \E result \in OfGarbage : Return(c, result, Garbage)
  BY <1>1, <1>4 DEF Ends, Judged
<1>5. CASE Fail(c)
  BY <1>1, <1>5 DEF Ends, Judged, Fail
<1>6. CASE /\ InStep(Taken(c)) /\ Whole(Taken(c))
           /\ \E result : Verdict(c, FrameOf(Taken(c)), result) /\ Return(c, result, FrameOf(Taken(c)))
  BY <1>1, <1>6 DEF Ends, Judged
<1>7. CASE InStep(Taken(c)) /\ ~Whole(Taken(c)) /\ GoOn(c, Taken(c))
  BY <1>1, <1>7 DEF GoesOn
<1> QED BY <1>2, <1>3, <1>4, <1>5, <1>6, <1>7

LEMMA StepCases ==
    ASSUME CallInv, [Next]_vars
    PROVE  \/ \E c \in Callers : Call(c) \/ ScanSlaves(c) \/ ScanNext(c) \/ ScanOver(c) \/ Send(c)
           \/ \E c \in Callers : GoesOn(c) \/ Panics(c)
           \/ \E c \in Callers : \E result, reply : Ends(c, result, reply)
           \/ \E n \in Ids : Answer(n)
           \/ Lose
           \/ UNCHANGED vars
<1>1. ASSUME NEW c \in Callers, IOError(c) \/ Timeout(c)
      PROVE  Ends(c, "error", NoReply)
  BY <1>1 DEF IOError, Timeout, Fail, Ends, InExchange, lineVars
<1>2. ASSUME NEW c \in Callers, EmptyReply(c)
      PROVE  Panics(c)
  <2>1. scanner # c
    <3>1. \A q \in Probes : q.op = "identity"
      BY DEF Probes, Probe
    <3>2. pc[c] = "reading" /\ requests[mine[c]].op # "identity"
      BY <1>2 DEF EmptyReply
    <3> QED BY <3>1, <3>2 DEF CallInv, InExchange
  <2> QED BY <1>2, <2>1 DEF EmptyReply, Panics, TakesField, Taken
<1> QED BY <1>1, <1>2, ReadFieldCases DEF Next, CallerNext

\* What was taken is either torn or the buffer with one more field.
LEMMA TakenIsField ==
    ASSUME TypeOK, NEW c \in Callers, stream # <<>>
    PROVE  /\ Taken(c) \in Seq(Fields) \cup {Torn}
           /\ InStep(Taken(c)) =>
                /\ buf[c] # Torn /\ Taken(c) = Append(buf[c], Head(stream)) /\ Taken(c) \in Seq(Fields)
                /\ Len(Taken(c)) = Len(buf[c]) + 1
                /\ Taken(c)[Len(buf[c]) + 1] = stream[1]
                /\ \A i \in 1..Len(buf[c]) : Taken(c)[i] = buf[c][i]
                /\ FrameOf(Taken(c)) \in Replies
<1>1. stream \in Seq(Fields) /\ Head(stream) \in Fields /\ Head(stream) = stream[1]
  BY DEF TypeOK
<1>2. CASE buf[c] = Torn
  BY <1>2 DEF Taken, InStep
<1>3. CASE buf[c] # Torn
  <2>1. buf[c] \in Seq(Fields)
    BY <1>3 DEF TypeOK
  <2>2. /\ Taken(c) = Append(buf[c], Head(stream)) /\ Taken(c) \in Seq(Fields)
        /\ Len(Taken(c)) = Len(buf[c]) + 1
        /\ Taken(c)[Len(buf[c]) + 1] = stream[1]
        /\ \A i \in 1..Len(buf[c]) : Taken(c)[i] = buf[c][i]
    BY <1>1, <1>3, <2>1 DEF Taken
  <2>3. Taken(c)[1] \in Fields
    <3>1. 1 \in 1..Len(Taken(c))
      BY <2>1, <2>2
    <3> QED BY <2>2, <3>1
  <2>4. FrameOf(Taken(c)) \in Replies
    BY <2>3 DEF FrameOf, Fields, Replies
  <2> QED BY <1>3, <2>2, <2>4
<1> QED BY <1>2, <1>3

\* The low byte of what a method is given; an id that is probed is one itself.
LEMMA ByteFacts ==
    /\ \A x \in Nat : Byte(x) \in Nat
    /\ \A id \in ScanIds : Byte(id) = id
    /\ Byte(17) = 17
<1>1. \A x \in Nat : Byte(x) \in Nat
  BY DEF Byte
<1>2. \A id \in ScanIds : Byte(id) = id
  BY HandlerAssumption DEF Byte, ScanIds
<1>3. Byte(17) = 17
  BY DEF Byte
<1> QED BY <1>1, <1>2, <1>3

LEMMA WordFacts == Word \subseteq Nat /\ \A id \in Nat : id <= 247 => id \in Word
<1>1. 247 <= 256 * 256 - 1
  BY SMT
<1> DEFINE most == 256 * 256 - 1
<1>2. Word = 0..most /\ most \in Nat
  BY DEF Word
<1> HIDE DEF most
<1>3. 247 <= most
  BY <1>1 DEF most
<1> QED BY <1>2, <1>3

LEMMA RequestFields ==
    /\ \A q \in Requests : q.slave \in Nat
    /\ \A id \in ScanIds : Probe(id) \in Requests
    /\ \A q \in Calls : q \in Requests
<1> DEFINE W == Word
<1>1. W \subseteq Nat
  BY WordFacts
<1>2. ScanIds \subseteq W
  <2>1. \A id \in Nat : id <= 247 => id \in Word
    BY WordFacts
  <2>2. \A id \in ScanIds : id \in Nat /\ id <= 247
    BY HandlerAssumption DEF ScanIds
  <2> QED BY <2>1, <2>2
<1>3. Requests = [op : {"read"}, code : {1, 2, 3, 4}, slave : W, point : {0}]
           \cup [op : {"write"}, code : {5, 6, 15, 16}, slave : W, point : Nat]
           \cup [op : {"status"}, code : {7}, slave : W, point : {0}]
           \cup [op : {"identity"}, code : {17}, slave : W, point : {0}]
           \cup [op : {"custom"}, code : W, slave : W, point : Nat]
  BY Zenon DEF Requests, ReadRequests, WriteRequests, StatusRequests, IdentityRequests, CustomRequests
<1> HIDE DEF W
<1>4. \A q \in Requests : q.slave \in Nat
  BY <1>1, <1>3
<1>5. \A id \in ScanIds : Probe(id) \in Requests
  BY <1>2, <1>3 DEF Probe
<1> QED BY <1>4, <1>5, CallsAssumption

LEMMA AppendFacts ==
    ASSUME NEW S, NEW s \in Seq(S), NEW x \in S
    PROVE  /\ Append(s, x) \in Seq(S) /\ Len(s) \in Nat /\ Len(Append(s, x)) = Len(s) + 1
           /\ Append(s, x)[Len(s) + 1] = x
           /\ \A i \in 1..Len(s) : Append(s, x)[i] = s[i]
  OBVIOUS

LEMMA TailFacts ==
    ASSUME NEW S, NEW s \in Seq(S), s # <<>>
    PROVE  /\ Tail(s) \in Seq(S) /\ Len(s) \in Nat /\ Len(s) >= 1 /\ Len(Tail(s)) = Len(s) - 1
           /\ Head(s) \in S /\ Head(s) = s[1]
           /\ \A i \in 1..Len(Tail(s)) : i + 1 \in 1..Len(s) /\ Tail(s)[i] = s[i + 1]
  OBVIOUS

LEMMA ConcatFacts ==
    ASSUME NEW S, NEW s \in Seq(S), NEW t \in Seq(S)
    PROVE  /\ s \o t \in Seq(S) /\ Len(s) \in Nat /\ Len(t) \in Nat /\ Len(s \o t) = Len(s) + Len(t)
           /\ \A i \in 1..Len(s) : (s \o t)[i] = s[i]
           /\ \A i \in 1..Len(t) : (s \o t)[Len(s) + i] = t[i]
  OBVIOUS

LEMMA FrameFacts ==
    ASSUME NEW n \in Ids, NEW kind \in Kinds
    PROVE  /\ Frame(n, kind) \in Seq(Fields) /\ Len(Frame(n, kind)) = FrameSize
           /\ \A i \in 1..FrameSize : Frame(n, kind)[i] = [to |-> n, kind |-> kind, at |-> i]
<1> DEFINE f == [i \in 1..FrameSize |-> [to |-> n, kind |-> kind, at |-> i]]
<1>1. FrameSize \in Nat /\ \A i \in 1..FrameSize : [to |-> n, kind |-> kind, at |-> i] \in Fields
  BY DEF FrameSize, Fields
<1>2. f \in Seq(Fields) /\ Len(f) = FrameSize
  BY <1>1
<1> QED BY <1>2 DEF Frame

LEMMA ProbeFacts ==
    ASSUME NEW lo \in ScanIds, NEW hi \in ScanIds, lo <= hi
    PROVE  /\ ToProbe(lo, hi) \in Seq(ScanIds) /\ lo..hi \subseteq ScanIds
           /\ Len(ToProbe(lo, hi)) \in Nat
           /\ \A s \in lo..hi : \E i \in 1..Len(ToProbe(lo, hi)) : ToProbe(lo, hi)[i] = s
<1> USE HandlerAssumption DEF ScanIds
<1> DEFINE n == hi - lo + 1
           probe == [i \in 1..n |-> lo + i - 1]
<1>1. lo \in Nat /\ hi \in Nat /\ n \in Nat
  OBVIOUS
<1>2. \A i \in 1..n : lo + i - 1 \in 1..MaxScanId
  OBVIOUS
<1>3. probe \in Seq(1..MaxScanId) /\ Len(probe) = n
  <2> HIDE DEF n
  <2> QED BY <1>1, <1>2
<1>4. \A s \in lo..hi : s - lo + 1 \in 1..n /\ probe[s - lo + 1] = s
  OBVIOUS
<1>5. ToProbe(lo, hi) = probe
  BY DEF ToProbe
<1> HIDE DEF n, probe
<1> QED BY <1>1, <1>3, <1>4, <1>5

-----------------------------------------------------------------------------
(***************************************************************************)
(* Types, and where callers are.                                           *)
(***************************************************************************)
LEMMA Asked ==
    ASSUME TypeOK, CallInv, NEW c \in Callers, pc[c] \in InExchange
    PROVE  mine[c] \in 1..Len(requests) /\ requests[mine[c]] \in Requests /\ Len(requests) \in Nat
<1>1. requests \in Seq(Requests) /\ mine[c] \in 0..Len(requests) /\ mine[c] # 0
  BY DEF TypeOK, CallInv
<1> QED BY <1>1

LEMMA Began ==
    ASSUME TypeOK, CallInv, NEW c \in Callers, NEW request, Begin(c, request),
           \/ pc[c] = "idle" /\ request \in Requests /\ Len(requests) + Len(scan) < MaxRequests
           \/ scan # <<>> /\ request = Probe(Head(scan))
    PROVE  /\ request \in Requests
           /\ Len(requests) \in Nat /\ Len(requests') = Len(requests) + 1 /\ Len(requests') <= MaxRequests
           /\ requests' \in Seq(Requests)
           /\ \A i \in 1..Len(requests) : requests'[i] = requests[i]
           /\ requests'[Len(requests')] = request
           /\ \A d \in Callers : /\ pc'[d] = IF d = c THEN "sending" ELSE pc[d]
                                 /\ mine'[d] = IF d = c THEN Len(requests') ELSE mine[d]
           /\ pc' \in [Callers -> {"idle", "next", "sending", "reading", "panicked"}]
           /\ mine' \in [Callers -> 0..Len(requests')]
<1> USE HandlerAssumption
<1>1. requests \in Seq(Requests) /\ scan \in Seq(ScanIds) /\ Len(requests) \in Nat /\ Len(scan) \in Nat
  BY DEF TypeOK
<1>2. request \in Requests /\ Len(requests) < MaxRequests
  <2>1. CASE scan # <<>> /\ request = Probe(Head(scan))
    <3>1. Head(scan) \in ScanIds /\ Len(scan) >= 1
      BY <1>1, <2>1, TailFacts
    <3>2. Len(requests) + Len(scan) <= MaxRequests
      BY DEF CallInv
    <3> QED BY <1>1, <2>1, <3>1, <3>2, RequestFields
  <2>2. CASE request \in Requests /\ Len(requests) + Len(scan) < MaxRequests
    BY <1>1, <2>2
  <2> QED BY <2>1, <2>2
<1>3. /\ requests' = Append(requests, request)
      /\ pc' = [pc EXCEPT ![c] = "sending"] /\ mine' = [mine EXCEPT ![c] = Len(requests')]
  BY DEF Begin
<1>4. /\ requests' \in Seq(Requests) /\ Len(requests') = Len(requests) + 1
      /\ requests'[Len(requests) + 1] = request
      /\ \A i \in 1..Len(requests) : requests'[i] = requests[i]
  BY <1>1, <1>2, <1>3, AppendFacts
<1>5. \A d \in Callers : /\ pc'[d] = IF d = c THEN "sending" ELSE pc[d]
                         /\ mine'[d] = IF d = c THEN Len(requests') ELSE mine[d]
  BY <1>3 DEF TypeOK
<1>6. pc' \in [Callers -> {"idle", "next", "sending", "reading", "panicked"}]
  BY <1>3 DEF TypeOK
<1>7. mine' \in [Callers -> 0..Len(requests')]
  <2>1. mine \in [Callers -> 0..Len(requests')] /\ Len(requests') \in 0..Len(requests')
    BY <1>1, <1>4 DEF TypeOK
  <2> QED BY <1>3, <2>1
<1>8. Len(requests') <= MaxRequests
  BY <1>1, <1>2, <1>4
<1> QED BY <1>1, <1>2, <1>4, <1>5, <1>6, <1>7, <1>8

LEMMA CallBegins ==
    ASSUME NEW c \in Callers, Call(c)
    PROVE  /\ \E request \in Requests : Begin(c, request)
           /\ pc[c] = "idle" /\ Len(requests) + Len(scan) < MaxRequests
           /\ UNCHANGED <<given, open, buf, last, scanVars, lineVars, garbled>>
  BY RequestFields DEF Call

\* Requests are only added, and answers to probes only recorded.
LEMMA RequestsGrow ==
    ASSUME TypeOK, CallInv, [Next]_vars
    PROVE  /\ \A i \in 1..Len(requests) : i \in 1..Len(requests') /\ requests'[i] = requests[i]
           /\ identities \subseteq identities'
<1>1. CASE requests' = requests /\ identities \subseteq identities'
  BY <1>1
<1>2. ASSUME NEW c \in Callers, Call(c)
      PROVE  \A i \in 1..Len(requests) : i \in 1..Len(requests') /\ requests'[i] = requests[i]
  <2>1. PICK request \in Requests : Begin(c, request)
    BY <1>2, CallBegins
  <2>2. pc[c] = "idle" /\ Len(requests) + Len(scan) < MaxRequests
    BY <1>2, CallBegins
  <2>3. /\ Len(requests) \in Nat /\ Len(requests') = Len(requests) + 1
        /\ \A i \in 1..Len(requests) : requests'[i] = requests[i]
    BY <2>1, <2>2, Began
  <2> QED BY <2>3
<1>3. ASSUME NEW c \in Callers, ScanNext(c)
      PROVE  \A i \in 1..Len(requests) : i \in 1..Len(requests') /\ requests'[i] = requests[i]
  <2> DEFINE request == Probe(Head(scan))
  <2>1. scan # <<>> /\ Begin(c, request)
    BY <1>3 DEF ScanNext
  <2>2. /\ Len(requests) \in Nat /\ Len(requests') = Len(requests) + 1
        /\ \A i \in 1..Len(requests) : requests'[i] = requests[i]
    BY <2>1, Began
  <2> QED BY <2>2
<1>4. ASSUME NEW c \in Callers, Call(c) \/ ScanNext(c) PROVE identities' = identities
  BY <1>4 DEF Call, ScanNext, lineVars
<1>5. ASSUME NEW c \in Callers,
             ScanSlaves(c) \/ ScanOver(c) \/ Send(c) \/ GoesOn(c) \/ Panics(c)
               \/ (\E result, reply : Ends(c, result, reply))
      PROVE  requests' = requests /\ identities' = identities
  BY <1>5 DEF ScanSlaves, ScanOver, Send, GoesOn, GoOn, Panics, Ends, Return, lineVars
<1>6. ASSUME (\E n \in Ids : Answer(n)) \/ Lose \/ UNCHANGED vars
      PROVE  requests' = requests /\ identities \subseteq identities'
  BY <1>6 DEF Answer, Lose, vars, callVars, lineVars
<1> QED BY <1>1, <1>2, <1>3, <1>4, <1>5, <1>6, StepCases

LEMMA InitType == Init => TypeOK
<1> SUFFICES ASSUME Init PROVE TypeOK
  OBVIOUS
<1> USE HandlerAssumption DEF Init
<1>1. Len(requests) = 0 /\ requests \in Seq(Requests) /\ stream \in Seq(Fields) /\ scan \in Seq(ScanIds)
  OBVIOUS
<1>2. 0 \in 0..Len(requests) /\ 0 \in 0..MaxScans
  BY <1>1
<1>3. last \in [of : 0..Len(requests), result : Kinds \cup {"none", "error"},
               reply : Replies \cup {NoReply, Garbage}]
  BY <1>2
<1>4. /\ pc \in [Callers -> {"idle", "next", "sending", "reading", "panicked"}]
      /\ mine \in [Callers -> 0..Len(requests)]
      /\ buf \in [Callers -> Seq(Fields) \cup {Torn}]
  BY <1>2
<1>5. /\ mode \in Modes /\ portTimesOut \in BOOLEAN /\ open \in BOOLEAN /\ Len(requests) <= MaxRequests
      /\ scanner \in Callers \cup {NoOne} /\ range \subseteq ScanIds /\ active \subseteq ScanIds
      /\ scans \in 0..MaxScans
  BY <1>1, <1>2
<1>6. /\ pending \subseteq 1..Len(requests) /\ identities \subseteq Nat \X Kinds
      /\ troubled \in BOOLEAN /\ garbled \in BOOLEAN
  BY <1>1, <1>2
<1> QED BY ONLY <1>1, <1>3, <1>4, <1>5, <1>6 DEF TypeOK

LEMMA NextType == TypeOK /\ CallInv /\ [Next]_vars => TypeOK'
<1> SUFFICES ASSUME TypeOK, CallInv, [Next]_vars PROVE TypeOK'
  OBVIOUS
<1> USE HandlerAssumption
<1>0. Len(requests) \in Nat /\ requests \in Seq(Requests) /\ scan \in Seq(ScanIds)
  BY DEF TypeOK
\* A new request.
<1>1. ASSUME NEW c \in Callers, NEW request, Begin(c, request),
             \/ pc[c] = "idle" /\ request \in Requests /\ Len(requests) + Len(scan) < MaxRequests
             \/ scan # <<>> /\ request = Probe(Head(scan)),
             scan' \in Seq(ScanIds),
             UNCHANGED <<given, open, buf, last, scanner, range, active, scans, lineVars, garbled>>
      PROVE  TypeOK'
  <2>1. /\ Len(requests') = Len(requests) + 1 /\ Len(requests') <= MaxRequests
        /\ requests' \in Seq(Requests)
        /\ pc' \in [Callers -> {"idle", "next", "sending", "reading", "panicked"}]
        /\ mine' \in [Callers -> 0..Len(requests')]
    BY <1>1, Began
  <2>2. 0..Len(requests) \subseteq 0..Len(requests') /\ 1..Len(requests) \subseteq 1..Len(requests')
    BY <1>0, <2>1
  <2>3. /\ last' \in [of : 0..Len(requests'), result : Kinds \cup {"none", "error"},
                      reply : Replies \cup {NoReply, Garbage}]
        /\ pending' \subseteq 1..Len(requests')
    BY <1>1, <2>2 DEF TypeOK, given, lineVars
  <2>4. troubled' \in BOOLEAN
    BY <1>1 DEF Begin, TypeOK
  <2> QED BY <1>1, <2>1, <2>3, <2>4 DEF TypeOK, given, lineVars
<1>2. ASSUME NEW c \in Callers, Call(c) PROVE TypeOK'
  <2>1. PICK request \in Requests : Begin(c, request)
    BY <1>2, CallBegins
  <2>2. /\ pc[c] = "idle" /\ Len(requests) + Len(scan) < MaxRequests
        /\ UNCHANGED <<given, open, buf, last, scanner, range, active, scans, lineVars, garbled>>
        /\ scan' = scan
    BY <1>2, CallBegins DEF scanVars
  <2> QED BY <1>0, <1>1, <2>1, <2>2
<1>3. ASSUME NEW c \in Callers, ScanNext(c) PROVE TypeOK'
  <2> DEFINE request == Probe(Head(scan))
  <2>1. /\ scan # <<>> /\ Begin(c, request) /\ scan' = Tail(scan)
        /\ UNCHANGED <<given, open, buf, last, scanner, range, active, scans, lineVars, garbled>>
    BY <1>3 DEF ScanNext
  <2>2. scan' \in Seq(ScanIds)
    BY <1>0, <2>1, TailFacts
  <2> QED BY <1>1, <2>1, <2>2
<1>4. ASSUME NEW c \in Callers, ScanSlaves(c) PROVE TypeOK'
  <2>1. PICK lo \in ScanIds, hi \in ScanIds : lo <= hi /\ scan' = ToProbe(lo, hi) /\ range' = lo..hi
    BY <1>4 DEF ScanSlaves
  <2>2. scan' \in Seq(ScanIds) /\ range' \subseteq ScanIds
    BY <2>1, ProbeFacts
  <2>3. scanner' = c /\ active' = {} /\ scans' \in 0..MaxScans /\ pc' = [pc EXCEPT ![c] = "next"]
    BY <1>4 DEF ScanSlaves, TypeOK
  <2>4. UNCHANGED <<given, open, requests, mine, buf, last, lineVars, history>>
    BY <1>4 DEF ScanSlaves
  <2> QED BY <2>2, <2>3, <2>4 DEF TypeOK, given, lineVars, history
<1>5. ASSUME NEW c \in Callers, ScanOver(c) PROVE TypeOK'
  BY <1>5 DEF ScanOver, TypeOK, given, lineVars, history
<1>6. ASSUME NEW c \in Callers, Send(c) PROVE TypeOK'
  <2>1. mine[c] \in 1..Len(requests)
    BY <1>6, Asked DEF Send, InExchange
  <2>2. /\ pc' = [pc EXCEPT ![c] = "reading"] /\ pending' = pending \cup {mine[c]}
        /\ UNCHANGED <<given, open, requests, mine, buf, last, scanVars, stream, identities, history>>
    BY <1>6 DEF Send
  <2>3. pc' \in [Callers -> {"idle", "next", "sending", "reading", "panicked"}]
    BY <2>2 DEF TypeOK
  <2>4. pending' \subseteq 1..Len(requests)
    BY <2>1, <2>2 DEF TypeOK
  <2> QED BY <2>2, <2>3, <2>4 DEF TypeOK, given, scanVars, history
<1>7. ASSUME NEW c \in Callers, GoesOn(c) PROVE TypeOK'
  <2>1. stream # <<>> /\ stream' = Tail(stream)
    BY <1>7 DEF GoesOn, TakesField
  <2>2. stream' \in Seq(Fields)
    BY <2>1, TailFacts DEF TypeOK
  <2>3. PICK b \in Seq(Fields) \cup {Torn} : GoOn(c, b)
    BY <1>7, <2>1, TakenIsField DEF GoesOn
  <2>4. /\ buf' = [buf EXCEPT ![c] = b]
        /\ UNCHANGED <<given, open, requests, pc, mine, last, scanVars, history, pending, identities>>
    BY <1>7, <2>3 DEF GoesOn, GoOn
  <2>5. buf' \in [Callers -> Seq(Fields) \cup {Torn}]
    BY <2>3, <2>4 DEF TypeOK
  <2> QED BY <2>2, <2>4, <2>5 DEF TypeOK, given, scanVars, history
<1>8. ASSUME NEW c \in Callers, NEW result, NEW reply, Ends(c, result, reply) PROVE TypeOK'
  <2>1. /\ mine[c] \in 1..Len(requests)
        /\ scanner = c => requests[mine[c]].slave \in ScanIds
    <3>1. pc[c] \in InExchange
      BY <1>8 DEF Ends
    <3>2. mine[c] \in 1..Len(requests)
      BY <3>1, Asked
    <3>3. scanner = c => requests[mine[c]] \in Probes
      BY <3>1 DEF CallInv
    <3> QED BY <3>2, <3>3 DEF Probes, Probe
  <2>2. stream' \in Seq(Fields)
    <3>1. stream \in Seq(Fields) /\ (stream' = stream \/ (stream # <<>> /\ stream' = Tail(stream)))
      BY <1>8 DEF Ends, TakesField, TypeOK
    <3> QED BY <3>1, TailFacts
  <2>3. result \in Kinds \cup {"none", "error"} /\ reply \in Replies \cup {NoReply, Garbage}
    <3>1. CASE result = "error" /\ reply = NoReply
      BY <3>1
    <3>2. CASE result \in OfGarbage /\ reply = Garbage
      BY <3>2 DEF OfGarbage, Kinds
    <3>3. CASE stream # <<>> /\ InStep(Taken(c)) /\ reply = FrameOf(Taken(c)) /\ Verdict(c, reply, result)
      BY <3>3, TakenIsField DEF Verdict, Kinds
    <3> QED BY <1>8, <3>1, <3>2, <3>3 DEF Ends, Judged, TakesField
  <2>4. /\ pc' = [pc EXCEPT ![c] = IF scanner = c THEN "next" ELSE "idle"]
        /\ last' = [of |-> mine[c], result |-> result, reply |-> reply]
        /\ mine' = [mine EXCEPT ![c] = 0] /\ buf' = [buf EXCEPT ![c] = <<>>]
        /\ active' = active \/ (scanner = c /\ active' = active \cup {requests[mine[c]].slave})
        /\ troubled' \in BOOLEAN /\ garbled' \in BOOLEAN
        /\ UNCHANGED <<given, open, requests, scanner, scan, range, scans, pending, identities>>
    BY <1>8 DEF Ends, Return, TypeOK
  <2>5. last' \in [of : 0..Len(requests), result : Kinds \cup {"none", "error"},
                   reply : Replies \cup {NoReply, Garbage}]
    BY <1>0, <2>1, <2>3, <2>4
  <2>6. mine' \in [Callers -> 0..Len(requests)]
    BY <1>0, <2>4 DEF TypeOK
  <2>7. active' \subseteq ScanIds
    BY <2>1, <2>4 DEF TypeOK
  <2>8. pc' \in [Callers -> {"idle", "next", "sending", "reading", "panicked"}]
    BY <2>4 DEF TypeOK
  <2>9. buf' \in [Callers -> Seq(Fields) \cup {Torn}]
    BY <2>4 DEF TypeOK
  <2> QED BY <2>2, <2>4, <2>5, <2>6, <2>7, <2>8, <2>9 DEF TypeOK, given
<1>9. ASSUME NEW n \in Ids, Answer(n) PROVE TypeOK'
  <2>1. PICK kind \in Kinds :
          /\ stream' = stream \o Frame(n, kind)
          /\ identities' = IF Function(n) = 17
                           THEN identities \cup {<<Unit(n), kind>>} ELSE identities
    BY <1>9 DEF Answer
  <2>2. n \in 1..Len(requests) /\ pending' = pending \ {n}
    BY <1>9 DEF Answer, TypeOK
  <2>3. Unit(n) \in Nat
    <3>1. requests[n] \in Requests
      BY <1>0, <2>2
    <3> QED BY <3>1, RequestFields, ByteFacts DEF Unit
  <2>4. stream' \in Seq(Fields)
    BY <2>1, FrameFacts, ConcatFacts DEF TypeOK
  <2>5. identities' \subseteq Nat \X Kinds
    BY <2>1, <2>3 DEF TypeOK
  <2> QED BY <1>9, <2>2, <2>4, <2>5 DEF TypeOK, Answer, given, callVars, scanVars, history
<1>10. CASE Lose
  <2>1. /\ open' = FALSE /\ stream' = <<>> /\ pending' = {}
        /\ UNCHANGED <<mode, portTimesOut, requests, pc, mine, buf, last, scanner, scan, range, active, scans,
                       identities, troubled, garbled>>
    BY <1>10 DEF Lose, given, callVars, scanVars, history
  <2>2. stream' \in Seq(Fields)
    BY <2>1
  <2>3. pending' \subseteq 1..Len(requests) /\ open' \in BOOLEAN
    BY <2>1
  <2> QED BY <2>1, <2>2, <2>3 DEF TypeOK
<1>11. CASE UNCHANGED vars
  BY <1>11 DEF TypeOK, vars, given, callVars, scanVars, lineVars, history
<1>12. ASSUME NEW c \in Callers, Panics(c) PROVE TypeOK'
  <2>1. /\ stream # <<>> /\ stream' = Tail(stream)
        /\ buf' = [buf EXCEPT ![c] = <<>>] /\ pc' = [pc EXCEPT ![c] = "panicked"]
        /\ UNCHANGED <<given, open, requests, mine, last, scanVars, pending, identities, history>>
    BY <1>12 DEF Panics, TakesField
  <2>2. stream' \in Seq(Fields)
    BY <2>1, TailFacts DEF TypeOK
  <2>3. /\ buf' \in [Callers -> Seq(Fields) \cup {Torn}]
        /\ pc' \in [Callers -> {"idle", "next", "sending", "reading", "panicked"}]
    BY <2>1 DEF TypeOK
  <2> QED BY <2>1, <2>2, <2>3 DEF TypeOK, given, scanVars, history
<1> QED
  BY <1>2, <1>3, <1>4, <1>5, <1>6, <1>7, <1>8, <1>9, <1>10, <1>11, <1>12, StepCases

LEMMA NextCall == TypeOK /\ CallInv /\ [Next]_vars => CallInv'
<1> SUFFICES ASSUME TypeOK, CallInv, [Next]_vars PROVE CallInv'
  OBVIOUS
<1> USE HandlerAssumption
<1>0. Len(requests) \in Nat /\ scan \in Seq(ScanIds) /\ Len(scan) \in Nat
  BY DEF TypeOK
<1>1. ASSUME NEW c \in Callers, Call(c) PROVE CallInv'
  <2>1. PICK request \in Requests : Begin(c, request)
    BY <1>1, CallBegins
  <2>2. /\ pc[c] = "idle" /\ Len(requests) + Len(scan) < MaxRequests
        /\ UNCHANGED <<buf, scanner, scan>>
    BY <1>1, CallBegins DEF scanVars
  <2>3. /\ Len(requests') = Len(requests) + 1
        /\ \A i \in 1..Len(requests) : requests'[i] = requests[i]
        /\ \A d \in Callers : /\ pc'[d] = IF d = c THEN "sending" ELSE pc[d]
                              /\ mine'[d] = IF d = c THEN Len(requests') ELSE mine[d]
    BY <2>1, <2>2, Began
  <2>4. Len(requests') + Len(scan') <= MaxRequests
    BY <1>0, <2>2, <2>3
  <2>5. scanner # c
    BY <2>2 DEF CallInv
  <2>6. ASSUME NEW d \in Callers
        PROVE  /\ pc'[d] \in InExchange => mine'[d] # 0
               /\ pc'[d] # "reading" => buf'[d] = <<>>
               /\ pc'[d] = "next" => scanner' = d
               /\ scanner' = d => pc'[d] \notin {"idle", "panicked"}
               /\ scanner' = d /\ pc'[d] \in InExchange => requests'[mine'[d]] \in Probes
    <3>1. CASE d = c
      BY <1>0, <2>2, <2>3, <2>5, <3>1 DEF CallInv
    <3>2. CASE d # c
      <4>1. pc[d] \in InExchange => mine[d] \in 1..Len(requests)
        BY Asked
      <4> QED BY <2>2, <2>3, <3>2, <4>1 DEF CallInv
    <3> QED BY <3>1, <3>2
  <2> QED BY <2>4, <2>6 DEF CallInv
<1>2. ASSUME NEW c \in Callers, ScanNext(c) PROVE CallInv'
  <2> DEFINE request == Probe(Head(scan))
  <2>1. pc[c] = "next" /\ scan # <<>> /\ Begin(c, request) /\ scan' = Tail(scan) /\ UNCHANGED <<buf, scanner>>
    BY <1>2 DEF ScanNext
  <2>2. /\ Len(requests') = Len(requests) + 1
        /\ \A i \in 1..Len(requests) : requests'[i] = requests[i]
        /\ requests'[Len(requests')] = request
        /\ \A d \in Callers : /\ pc'[d] = IF d = c THEN "sending" ELSE pc[d]
                              /\ mine'[d] = IF d = c THEN Len(requests') ELSE mine[d]
    BY <2>1, Began
  <2>3. Len(scan') = Len(scan) - 1
    BY <1>0, <2>1, TailFacts
  <2>4. Len(requests') + Len(scan') <= MaxRequests
    BY <1>0, <2>2, <2>3 DEF CallInv
  <2>5. request \in Probes
    BY <1>0, <2>1, TailFacts DEF Probes
  <2>6. ASSUME NEW d \in Callers
        PROVE  /\ pc'[d] \in InExchange => mine'[d] # 0
               /\ pc'[d] # "reading" => buf'[d] = <<>>
               /\ pc'[d] = "next" => scanner' = d
               /\ scanner' = d => pc'[d] \notin {"idle", "panicked"}
               /\ scanner' = d /\ pc'[d] \in InExchange => requests'[mine'[d]] \in Probes
    <3>1. CASE d = c
      BY <1>0, <2>1, <2>2, <2>5, <3>1 DEF CallInv
    <3>2. CASE d # c
      <4>1. pc[d] \in InExchange => mine[d] \in 1..Len(requests)
        BY Asked
      <4> QED BY <2>1, <2>2, <3>2, <4>1 DEF CallInv
    <3> QED BY <3>1, <3>2
  <2> QED BY <2>4, <2>6 DEF CallInv
<1>3. ASSUME NEW c \in Callers, ScanSlaves(c) PROVE CallInv'
  <2>1. Len(requests) + Len(scan') <= MaxRequests
    BY <1>3 DEF ScanSlaves
  <2>2. /\ pc[c] = "idle" /\ scanner = NoOne /\ scanner' = c /\ UNCHANGED <<requests, mine, buf>>
        /\ \A d \in Callers : pc'[d] = IF d = c THEN "next" ELSE pc[d]
    BY <1>3 DEF ScanSlaves, TypeOK
  <2> QED BY <2>1, <2>2 DEF CallInv, InExchange
<1>4. ASSUME NEW c \in Callers, ScanOver(c) PROVE CallInv'
  <2>1. /\ pc[c] = "next" /\ scanner' = NoOne /\ UNCHANGED <<requests, mine, buf, scan>>
        /\ \A d \in Callers : pc'[d] = IF d = c THEN "idle" ELSE pc[d]
    BY <1>4 DEF ScanOver, TypeOK
  <2>2. scanner = c
    BY <2>1 DEF CallInv
  <2> QED BY <2>1, <2>2 DEF CallInv, InExchange
<1>5. ASSUME NEW c \in Callers, Send(c) PROVE CallInv'
  <2>1. /\ pc[c] = "sending" /\ UNCHANGED <<requests, mine, buf, scanner, scan>>
        /\ \A d \in Callers : pc'[d] = IF d = c THEN "reading" ELSE pc[d]
    BY <1>5 DEF Send, TypeOK, scanVars
  <2> QED BY <2>1 DEF CallInv, InExchange
<1>6. ASSUME NEW c \in Callers, GoesOn(c) PROVE CallInv'
  <2>1. /\ pc[c] = "reading" /\ UNCHANGED <<requests, pc, mine, scanner, scan>>
        /\ \A d \in Callers \ {c} : buf'[d] = buf[d]
    BY <1>6 DEF GoesOn, TakesField, GoOn, TypeOK, scanVars
  <2> QED BY <2>1 DEF CallInv, InExchange
<1>7. ASSUME NEW c \in Callers, NEW result, NEW reply, Ends(c, result, reply) PROVE CallInv'
  <2>1. /\ pc[c] \in InExchange /\ UNCHANGED <<requests, scanner, scan>>
        /\ \A d \in Callers : /\ pc'[d] = IF d = c THEN IF scanner = c THEN "next" ELSE "idle" ELSE pc[d]
                              /\ mine'[d] = IF d = c THEN 0 ELSE mine[d]
                              /\ buf'[d] = IF d = c THEN <<>> ELSE buf[d]
    BY <1>7 DEF Ends, Return, TypeOK
  <2> QED BY <2>1 DEF CallInv, InExchange
<1>8. ASSUME UNCHANGED <<requests, scan, pc, mine, buf, scanner>> PROVE CallInv'
  BY <1>8 DEF CallInv
<1>9. ASSUME (\E n \in Ids : Answer(n)) \/ Lose \/ UNCHANGED vars PROVE CallInv'
  BY <1>8, <1>9 DEF Answer, Lose, vars, callVars, scanVars
<1>10. ASSUME NEW c \in Callers, Panics(c) PROVE CallInv'
  <2>1. /\ pc[c] = "reading" /\ scanner # c /\ UNCHANGED <<requests, mine, scanner, scan>>
        /\ \A d \in Callers : /\ pc'[d] = IF d = c THEN "panicked" ELSE pc[d]
                              /\ buf'[d] = IF d = c THEN <<>> ELSE buf[d]
    BY <1>10 DEF Panics, TakesField, TypeOK, scanVars
  <2> QED BY <2>1 DEF CallInv, InExchange
<1> QED
  BY <1>1, <1>2, <1>3, <1>4, <1>5, <1>6, <1>7, <1>9, <1>10, StepCases

-----------------------------------------------------------------------------
(***************************************************************************)
(* Every field answers a request.                                          *)
(***************************************************************************)
LEMMA NextCame == TypeOK /\ CallInv /\ CameInv /\ [Next]_vars => CameInv'
<1> SUFFICES ASSUME TypeOK, CallInv, CameInv, [Next]_vars PROVE CameInv'
  OBVIOUS
<1> USE HandlerAssumption
<1> DEFINE Stays(f) == /\ f.to \in 1..Len(requests')
                       /\ Byte(requests'[f.to].code) = 17
                            => <<Byte(requests'[f.to].slave), f.kind>> \in identities'
<1>1. \A f : Came(f) => Stays(f)
  BY RequestsGrow DEF Came, Unit, Function
<1>2. ASSUME \A i \in 1..Len(stream') : Stays(stream'[i]),
             \A c \in Callers : buf'[c] # Torn => \A i \in 1..Len(buf'[c]) : Stays(buf'[c][i])
      PROVE  CameInv'
  BY <1>2 DEF CameInv, Came, Unit, Function
<1>3. /\ \A i \in 1..Len(stream) : Stays(stream[i])
      /\ \A c \in Callers : buf[c] # Torn => \A i \in 1..Len(buf[c]) : Stays(buf[c][i])
  BY <1>1 DEF CameInv
<1> HIDE DEF Stays
<1>4. ASSUME UNCHANGED <<stream, buf>> PROVE CameInv'
  BY <1>2, <1>3, <1>4
<1>5. ASSUME stream # <<>>
      PROVE  /\ Stays(stream[1])
             /\ \A i \in 1..Len(Tail(stream)) : Stays(Tail(stream)[i])
  <2>1. /\ Len(stream) \in Nat /\ Len(stream) >= 1
        /\ \A i \in 1..Len(Tail(stream)) : i + 1 \in 1..Len(stream) /\ Tail(stream)[i] = stream[i + 1]
    BY <1>5, TailFacts DEF TypeOK
  <2>2. 1 \in 1..Len(stream)
    BY <2>1
  <2> QED BY <1>3, <2>1, <2>2
<1>6. ASSUME NEW c \in Callers, GoesOn(c) PROVE CameInv'
  <2>1. /\ stream # <<>> /\ stream' = Tail(stream)
        /\ \/ buf' = [buf EXCEPT ![c] = Torn]
           \/ InStep(Taken(c)) /\ buf' = [buf EXCEPT ![c] = Taken(c)]
    BY <1>6 DEF GoesOn, TakesField, GoOn
  <2>2. InStep(Taken(c)) => \A i \in 1..Len(Taken(c)) : Stays(Taken(c)[i])
    <3> SUFFICES ASSUME InStep(Taken(c)), NEW i \in 1..Len(Taken(c)) PROVE Stays(Taken(c)[i])
      OBVIOUS
    <3>1. /\ buf[c] # Torn
          /\ Len(Taken(c)) = Len(buf[c]) + 1
          /\ Taken(c)[Len(buf[c]) + 1] = stream[1]
          /\ \A j \in 1..Len(buf[c]) : Taken(c)[j] = buf[c][j]
      BY <2>1, TakenIsField
    <3>2. Len(buf[c]) \in Nat
      BY <3>1 DEF TypeOK
    <3>3. i \in 1..Len(buf[c]) \/ i = Len(buf[c]) + 1
      BY <3>1, <3>2
    <3> QED BY <1>3, <1>5, <2>1, <3>1, <3>3
  <2>3. \A d \in Callers \ {c} : buf'[d] = buf[d]
    BY <2>1 DEF TypeOK
  <2>4. buf'[c] # Torn => \A i \in 1..Len(buf'[c]) : Stays(buf'[c][i])
    <3>1. buf'[c] = Torn \/ (InStep(Taken(c)) /\ buf'[c] = Taken(c))
      BY <2>1 DEF TypeOK
    <3> QED BY <2>2, <3>1
  <2> QED BY <1>2, <1>3, <1>5, <2>1, <2>3, <2>4
<1>7. ASSUME NEW c \in Callers, NEW result, NEW reply, Ends(c, result, reply) PROVE CameInv'
  <2>1. /\ stream' = stream \/ (stream # <<>> /\ stream' = Tail(stream))
        /\ \A d \in Callers : buf'[d] = IF d = c THEN <<>> ELSE buf[d]
    BY <1>7 DEF Ends, TakesField, Return, TypeOK
  <2>2. \A i \in 1..Len(stream') : Stays(stream'[i])
    BY <1>3, <1>5, <2>1
  <2>3. \A d \in Callers : buf'[d] # Torn => \A i \in 1..Len(buf'[d]) : Stays(buf'[d][i])
    BY <1>3, <2>1
  <2> QED BY <1>2, <2>2, <2>3
<1>8. ASSUME NEW n \in Ids, Answer(n) PROVE CameInv'
  <2>1. PICK kind \in Kinds :
          /\ stream' = stream \o Frame(n, kind)
          /\ identities' = IF Function(n) = 17
                           THEN identities \cup {<<Unit(n), kind>>} ELSE identities
    BY <1>8 DEF Answer
  <2>2. n \in 1..Len(requests) /\ requests' = requests /\ buf' = buf
    BY <1>8 DEF Answer, TypeOK, callVars
  <2>3. \A i \in 1..FrameSize : Stays(Frame(n, kind)[i])
    <3> SUFFICES ASSUME NEW i \in 1..FrameSize PROVE Stays(Frame(n, kind)[i])
      OBVIOUS
    <3> DEFINE f == Frame(n, kind)
    <3>0. f[i] = [to |-> n, kind |-> kind, at |-> i]
      BY FrameFacts
    <3> HIDE DEF f
    <3>1. f[i].to = n /\ f[i].kind = kind
      BY <3>0
    <3>2. Byte(requests[n].code) = 17 => <<Byte(requests[n].slave), kind>> \in identities'
      BY <2>1 DEF Unit, Function
    <3> QED BY <2>2, <3>1, <3>2 DEF Stays, f
  <2>4. /\ Len(stream) \in Nat /\ Len(stream') = Len(stream) + FrameSize
        /\ \A i \in 1..Len(stream) : stream'[i] = stream[i]
        /\ \A i \in 1..FrameSize : stream'[Len(stream) + i] = Frame(n, kind)[i]
    <3> DEFINE f == Frame(n, kind)
    <3>1. stream \in Seq(Fields) /\ f \in Seq(Fields) /\ Len(f) = FrameSize
      BY FrameFacts DEF TypeOK
    <3>2. stream' = stream \o f
      BY <2>1
    <3> HIDE DEF f
    <3>3. /\ Len(stream) \in Nat /\ Len(stream \o f) = Len(stream) + Len(f)
          /\ \A i \in 1..Len(stream) : (stream \o f)[i] = stream[i]
          /\ \A i \in 1..Len(f) : (stream \o f)[Len(stream) + i] = f[i]
      BY <3>1
    <3> QED BY <3>1, <3>2, <3>3 DEF f
  <2>5. ASSUME NEW i \in 1..Len(stream') PROVE Stays(stream'[i])
    <3>1. CASE i \in 1..Len(stream)
      BY <1>3, <2>4, <3>1
    <3>2. CASE i \notin 1..Len(stream)
      <4>1. i - Len(stream) \in 1..FrameSize /\ i = Len(stream) + (i - Len(stream))
        BY <2>4, <3>2 DEF FrameSize
      <4> QED BY <2>3, <2>4, <4>1
    <3> QED BY <3>1, <3>2
  <2> QED BY <1>2, <1>3, <2>2, <2>5
<1>9. CASE Lose
  <2>1. Len(stream') = 0 /\ buf' = buf
    BY <1>9 DEF Lose, callVars
  <2> QED BY <1>2, <1>3, <2>1
<1>10. ASSUME NEW c \in Callers, Call(c) \/ ScanSlaves(c) \/ ScanNext(c) \/ ScanOver(c) \/ Send(c)
       PROVE  CameInv'
  BY <1>4, <1>10 DEF Call, ScanSlaves, ScanNext, ScanOver, Send, lineVars
<1>11. CASE UNCHANGED vars
  BY <1>4, <1>11 DEF vars, callVars, lineVars
<1>12. ASSUME NEW c \in Callers, Panics(c) PROVE CameInv'
  <2>1. /\ stream # <<>> /\ stream' = Tail(stream)
        /\ \A d \in Callers : buf'[d] = IF d = c THEN <<>> ELSE buf[d]
    BY <1>12 DEF Panics, TakesField, TypeOK
  <2>2. \A i \in 1..Len(stream') : Stays(stream'[i])
    BY <1>5, <2>1
  <2>3. \A d \in Callers : buf'[d] # Torn => \A i \in 1..Len(buf'[d]) : Stays(buf'[d][i])
    BY <1>3, <2>1
  <2> QED BY <1>2, <2>2, <2>3
<1> QED BY <1>6, <1>7, <1>8, <1>9, <1>10, <1>11, <1>12, StepCases

-----------------------------------------------------------------------------
(***************************************************************************)
(* Quiet: one exchange, one frame.                                         *)
(***************************************************************************)
\* The frame of an exchange, one field further.  Taking a field that is in
\* its place yields what InStep asks for.
LEMMA SplitTaken ==
    ASSUME TypeOK, NEW c \in Callers, NEW n \in Ids, NEW kind \in Kinds, stream # <<>>,
           Split(n, kind, buf[c], stream)
    PROVE  /\ InStep(Taken(c))
           /\ Split(n, kind, Taken(c), Tail(stream))
           /\ FrameOf(Taken(c)) = [to |-> n, kind |-> kind]
<1> DEFINE t == Taken(c)
           rest == Tail(stream)
<1>1. /\ Len(stream) \in Nat /\ Len(stream) >= 1 /\ Len(rest) = Len(stream) - 1
      /\ \A i \in 1..Len(rest) : i + 1 \in 1..Len(stream) /\ rest[i] = stream[i + 1]
  BY TailFacts DEF TypeOK
<1>2. /\ Len(buf[c]) + Len(stream) = FrameSize
      /\ \A i \in 1..Len(buf[c]) : buf[c][i] = [to |-> n, kind |-> kind, at |-> i]
      /\ \A i \in 1..Len(stream) : stream[i] = [to |-> n, kind |-> kind, at |-> Len(buf[c]) + i]
  BY DEF Split
<1>3. buf[c] # Torn
  <2> SUFFICES ASSUME buf[c] = Torn PROVE FALSE
    OBVIOUS
  <2>1. Len(Torn) = 1 /\ Torn[1].to = 0
    BY DEF Torn
  <2>2. Torn[1].to = n
    BY <1>2, <2>1
  <2> QED BY <2>1, <2>2 DEF Ids
<1>4. buf[c] \in Seq(Fields) /\ Len(buf[c]) \in Nat
  BY <1>3 DEF TypeOK
<1>5. Head(stream) \in Fields /\ Head(stream) = stream[1]
  BY TailFacts DEF TypeOK
<1>6. /\ t \in Seq(Fields) /\ Len(t) = Len(buf[c]) + 1 /\ t[Len(buf[c]) + 1] = stream[1]
      /\ \A i \in 1..Len(buf[c]) : t[i] = buf[c][i]
  BY <1>3, <1>4, <1>5 DEF Taken
<1> HIDE DEF t, rest
<1>7. ASSUME NEW i \in 1..Len(t) PROVE t[i] = [to |-> n, kind |-> kind, at |-> i]
  <2>1. CASE i \in 1..Len(buf[c])
    BY <1>2, <1>6, <2>1
  <2>2. CASE i = Len(buf[c]) + 1
    BY <1>1, <1>2, <1>6, <2>2
  <2> QED BY <1>4, <1>6, <2>1, <2>2
<1>8. Len(t) + Len(rest) = FrameSize
  BY <1>1, <1>2, <1>4, <1>6
<1>9. ASSUME NEW i \in 1..Len(rest) PROVE rest[i] = [to |-> n, kind |-> kind, at |-> Len(t) + i]
  <2> DEFINE k == Len(buf[c])
  <2>1. k \in Nat /\ Len(t) = k + 1 /\ i \in Nat
    BY <1>4, <1>6
  <2>2. rest[i] = [to |-> n, kind |-> kind, at |-> k + (i + 1)]
    BY <1>1, <1>2
  <2> HIDE DEF k
  <2>3. k + (i + 1) = Len(t) + i
    BY <2>1
  <2> QED BY <2>2, <2>3
<1>10. Split(n, kind, t, rest)
  BY <1>7, <1>8, <1>9 DEF Split
<1>11. t[1] = [to |-> n, kind |-> kind, at |-> 1] /\ Len(t) \in 1..FrameSize
  BY <1>1, <1>4, <1>6, <1>7, <1>8
<1>12. FrameOf(t) = [to |-> n, kind |-> kind]
  BY <1>11 DEF FrameOf
<1>13. InStep(t)
  <2> DEFINE whole == Frame(n, kind)
             begun == SubSeq(whole, 1, Len(t))
  <2>1. /\ whole \in Seq(Fields) /\ Len(whole) = FrameSize
        /\ \A i \in 1..FrameSize : whole[i] = [to |-> n, kind |-> kind, at |-> i]
    BY FrameFacts
  <2> HIDE DEF whole
  <2>2. begun \in Seq(Fields) /\ Len(begun) = Len(t) /\ \A i \in 1..Len(t) : begun[i] = whole[i]
    <3> DEFINE k == Len(t)
    <3>1. k \in 1..Len(whole) /\ Len(whole) \in Nat
      BY <1>11, <2>1 DEF FrameSize
    <3> HIDE DEF k
    <3>2. /\ SubSeq(whole, 1, k) \in Seq(Fields) /\ Len(SubSeq(whole, 1, k)) = k
          /\ \A i \in 1..k : SubSeq(whole, 1, k)[i] = whole[i]
      BY <2>1, <3>1
    <3> QED BY <3>2 DEF k
  <2> HIDE DEF begun
  <2>3. \A i \in 1..Len(t) : t[i] = begun[i]
    <3> SUFFICES ASSUME NEW i \in 1..Len(t) PROVE t[i] = begun[i]
      OBVIOUS
    <3> DEFINE k == Len(t)
    <3>1. k \in 1..FrameSize /\ i \in 1..k
      BY <1>11
    <3> HIDE DEF k
    <3>2. i \in 1..FrameSize
      BY <3>1 DEF FrameSize
    <3>3. begun[i] = whole[i]
      BY <2>2
    <3>4. whole[i] = [to |-> n, kind |-> kind, at |-> i]
      BY <2>1, <3>2
    <3>5. t[i] = [to |-> n, kind |-> kind, at |-> i]
      BY <1>7
    <3> QED BY <3>3, <3>4, <3>5
  <2>4. t = begun
    BY <1>6, <2>2, <2>3
  <2>5. t # Torn
    <3>1. Torn[1].to = 0
      BY DEF Torn
    <3> QED BY <1>11, <3>1 DEF Ids
  <2> QED BY <1>11, <2>4, <2>5 DEF InStep, begun, whole
<1> QED BY <1>10, <1>12, <1>13 DEF t, rest

\* What ends an undisturbed exchange is its own frame, taken to its end.
LEMMA QuietEnd ==
    ASSUME TypeOK, CallInv, QuietInv, NEW c \in Callers, NEW result, NEW reply, Ends(c, result, reply),
           ~troubled'
    PROVE  /\ pending = {} /\ stream' = <<>> /\ stream # <<>> /\ InStep(Taken(c))
           /\ result \in Kinds /\ reply = [to |-> mine[c], kind |-> result]
           /\ reply = FrameOf(Taken(c))
<1>1. troubled' = (troubled \/ result = "error") /\ pc[c] \in InExchange
  BY DEF Ends, Return
<1>2. ~troubled /\ result # "error"
  BY <1>1
<1>3. TakesField(c) /\ Judged(c, result, reply)
  BY <1>2 DEF Ends
<1>4. pc[c] = "reading" /\ open /\ stream # <<>> /\ stream' = Tail(stream)
  BY <1>3 DEF TakesField
<1>5. pending = {} /\ \E kind \in Kinds : Split(mine[c], kind, buf[c], stream)
  BY <1>2, <1>4 DEF QuietInv
<1>6. PICK kind \in Kinds : Split(mine[c], kind, buf[c], stream)
  BY <1>5
<1>7. mine[c] \in Ids /\ mine[c] \in 1..Len(requests)
  <2>1. mine[c] \in 1..Len(requests) /\ Len(requests) \in Nat
    BY <1>1, Asked
  <2>2. Len(requests) <= MaxRequests
    BY DEF TypeOK
  <2> QED BY <2>1, <2>2, HandlerAssumption DEF Ids
<1>8. /\ InStep(Taken(c)) /\ FrameOf(Taken(c)) = [to |-> mine[c], kind |-> kind]
      /\ Split(mine[c], kind, Taken(c), Tail(stream))
  BY <1>4, <1>6, <1>7, SplitTaken
<1>9. /\ Whole(Taken(c)) /\ reply = [to |-> mine[c], kind |-> kind]
      /\ Verdict(c, reply, result)
  BY <1>2, <1>3, <1>8 DEF Judged
<1>10. stream' = <<>>
  <2>1. Len(Taken(c)) = FrameSize /\ Len(Taken(c)) + Len(Tail(stream)) = FrameSize
    BY <1>8, <1>9 DEF Whole, Split
  <2>2. Tail(stream) \in Seq(Fields) /\ Len(Tail(stream)) \in Nat
    BY <1>4, TailFacts DEF TypeOK
  <2>3. Len(Tail(stream)) = 0
    <3> DEFINE k == Len(Tail(stream))
    <3>1. k \in Nat /\ FrameSize + k = FrameSize
      BY <2>1, <2>2
    <3> HIDE DEF k
    <3>2. k = 0
      BY <3>1 DEF FrameSize
    <3> QED BY <3>2 DEF k
  <2> QED BY <1>4, <2>2, <2>3
<1>11. result = kind
  <2>1. reply.to = mine[c] /\ reply.kind = kind
    BY <1>9
  <2>2. SlaveMatches(c, reply.to)
    BY <2>1 DEF SlaveMatches
  <2> QED BY <1>2, <1>9, <2>1, <2>2 DEF Verdict, Accepts
<1> QED BY <1>4, <1>5, <1>8, <1>9, <1>10, <1>11

LEMMA NextQuiet == TypeOK /\ CallInv /\ QuietInv /\ [Next]_vars => QuietInv'
<1> SUFFICES ASSUME TypeOK, CallInv, QuietInv, [Next]_vars, ~troubled'
             PROVE  /\ \A c, d \in Callers : pc'[c] \in InExchange /\ pc'[d] \in InExchange => c = d
                    /\ (\A c \in Callers : pc'[c] # "reading") => pending' = {} /\ stream' = <<>>
                    /\ \A c \in Callers : pc'[c] = "reading" /\ open' =>
                         \/ pending' = {mine'[c]} /\ stream' = <<>> /\ buf'[c] = <<>>
                         \/ pending' = {} /\ \E kind \in Kinds : Split(mine'[c], kind, buf'[c], stream')
  BY DEF QuietInv
<1> DEFINE Alone == \A c, d \in Callers : pc'[c] \in InExchange /\ pc'[d] \in InExchange => c = d
           Empty == pending' = {} /\ stream' = <<>>
           Waits(c) == \/ pending' = {mine'[c]} /\ stream' = <<>> /\ buf'[c] = <<>>
                       \/ pending' = {} /\ \E kind \in Kinds : Split(mine'[c], kind, buf'[c], stream')
           Quiet == /\ Alone
                    /\ (\A c \in Callers : pc'[c] # "reading") => Empty
                    /\ \A c \in Callers : pc'[c] = "reading" /\ open' => Waits(c)
<1> USE DEF InExchange
\* Nothing on the line moves, and whoever reads did so before.
<1>1. ASSUME ~troubled, UNCHANGED <<mine, open, buf, pending, stream>>,
             \A c \in Callers : /\ pc'[c] \in InExchange <=> pc[c] \in InExchange
                                /\ pc'[c] = "reading" <=> pc[c] = "reading"
      PROVE  Quiet
  BY <1>1 DEF QuietInv
<1>2. ASSUME NEW c \in Callers, NEW request, Begin(c, request), pc[c] \notin InExchange,
             \/ pc[c] = "idle" /\ request \in Requests /\ Len(requests) + Len(scan) < MaxRequests
             \/ scan # <<>> /\ request = Probe(Head(scan)),
             UNCHANGED <<pending, stream>>
      PROVE  Quiet
  <2>1. /\ ~troubled
        /\ \A d \in Callers \ {c} : pc[d] \notin InExchange
    BY <1>2 DEF Begin
  <2>2. \A d \in Callers : pc'[d] = IF d = c THEN "sending" ELSE pc[d]
    BY <1>2, Began
  <2>3. Empty
    BY <1>2, <2>1 DEF QuietInv
  <2> QED BY <2>1, <2>2, <2>3
<1>3. ASSUME NEW c \in Callers, Call(c) PROVE Quiet
  <2>1. PICK request \in Requests : Begin(c, request)
    BY <1>3, CallBegins
  <2>2. pc[c] = "idle" /\ Len(requests) + Len(scan) < MaxRequests /\ UNCHANGED <<pending, stream>>
    BY <1>3, CallBegins DEF lineVars
  <2> QED BY <1>2, <2>1, <2>2
<1>4. ASSUME NEW c \in Callers, ScanNext(c) PROVE Quiet
  <2> DEFINE request == Probe(Head(scan))
  <2>1. pc[c] = "next" /\ scan # <<>> /\ Begin(c, request) /\ UNCHANGED <<pending, stream>>
    BY <1>4 DEF ScanNext, lineVars
  <2> QED BY <1>2, <2>1
<1>5. ASSUME NEW c \in Callers, ScanSlaves(c) \/ ScanOver(c) PROVE Quiet
  BY <1>1, <1>5 DEF ScanSlaves, ScanOver, lineVars, history, TypeOK
<1>6. ASSUME NEW c \in Callers, Send(c) PROVE Quiet
  <2>1. /\ pc[c] = "sending" /\ pending' = pending \cup {mine[c]}
        /\ UNCHANGED <<stream, buf, mine, open>> /\ ~troubled
        /\ \A d \in Callers : pc'[d] = IF d = c THEN "reading" ELSE pc[d]
    BY <1>6 DEF Send, history, TypeOK
  <2>2. \A d \in Callers \ {c} : pc[d] \notin InExchange
    BY <2>1 DEF QuietInv
  <2>3. pending = {} /\ stream = <<>> /\ buf[c] = <<>>
    <3>1. \A d \in Callers : pc[d] # "reading"
      BY <2>1, <2>2
    <3> QED BY <2>1, <3>1 DEF QuietInv, CallInv
  <2> QED BY <2>1, <2>2, <2>3
<1>7. ASSUME NEW c \in Callers, GoesOn(c) PROVE Quiet
  <2>1. /\ pc[c] = "reading" /\ open /\ stream # <<>> /\ stream' = Tail(stream)
        /\ UNCHANGED <<pending, mine, pc, open, troubled>>
        /\ InStep(Taken(c)) => buf' = [buf EXCEPT ![c] = Taken(c)]
    BY <1>7 DEF GoesOn, TakesField, GoOn, history
  <2>2. pending = {} /\ \E kind \in Kinds : Split(mine[c], kind, buf[c], stream)
    BY <2>1 DEF QuietInv
  <2>3. PICK kind \in Kinds : Split(mine[c], kind, buf[c], stream)
    BY <2>2
  <2>4. mine[c] \in Ids
    <3>1. mine[c] \in 1..Len(requests) /\ Len(requests) \in Nat
      BY <2>1, Asked
    <3>2. Len(requests) <= MaxRequests
      BY DEF TypeOK
    <3> QED BY <3>1, <3>2, HandlerAssumption DEF Ids
  <2>5. InStep(Taken(c)) /\ Split(mine[c], kind, Taken(c), Tail(stream))
    BY <2>1, <2>3, <2>4, SplitTaken
  <2>6. buf'[c] = Taken(c)
    BY <2>1, <2>5 DEF TypeOK
  <2>7. Waits(c)
    BY <2>1, <2>2, <2>5, <2>6
  <2>8. \A d \in Callers \ {c} : pc[d] \notin InExchange
    BY <2>1 DEF QuietInv
  <2> QED BY <2>1, <2>7, <2>8
<1>8. ASSUME NEW c \in Callers, NEW result, NEW reply, Ends(c, result, reply) PROVE Quiet
  <2>1. pending' = {} /\ stream' = <<>>
    BY <1>8, QuietEnd DEF Ends
  <2>2. /\ pc[c] \in InExchange /\ ~troubled
        /\ \A d \in Callers : pc'[d] = IF d = c THEN IF scanner = c THEN "next" ELSE "idle" ELSE pc[d]
    BY <1>8 DEF Ends, Return, TypeOK
  <2>3. \A d \in Callers \ {c} : pc[d] \notin InExchange
    BY <2>2 DEF QuietInv
  <2>4. \A d \in Callers : pc'[d] \notin InExchange
    BY <2>2, <2>3
  <2> QED BY <2>1, <2>4
<1>9. ASSUME NEW n \in Ids, Answer(n) PROVE Quiet
  <2>1. PICK kind \in Kinds : stream' = stream \o Frame(n, kind)
    BY <1>9 DEF Answer
  <2>2. /\ n \in pending /\ open /\ pending' = pending \ {n} /\ ~troubled
        /\ UNCHANGED <<pc, mine, buf, open>>
    BY <1>9 DEF Answer, callVars, history
  <2>3. PICK c \in Callers : pc[c] = "reading"
    BY <2>2 DEF QuietInv
  <2>4. pending = {mine[c]} /\ stream = <<>> /\ buf[c] = <<>>
    BY <2>2, <2>3 DEF QuietInv
  <2>5. n = mine[c] /\ pending' = {}
    BY <2>2, <2>4
  <2>6. Split(n, kind, <<>>, Frame(n, kind))
    <3> DEFINE f == Frame(n, kind)
    <3>1. Len(f) = FrameSize /\ \A i \in 1..FrameSize : f[i] = [to |-> n, kind |-> kind, at |-> i]
      BY FrameFacts
    <3> HIDE DEF f
    <3>2. Len(<<>>) = 0 /\ Len(<<>>) + Len(f) = FrameSize
      BY <3>1 DEF FrameSize
    <3>3. \A i \in 1..Len(f) : Len(<<>>) + i = i
      BY <3>1, <3>2 DEF FrameSize
    <3> QED BY <3>1, <3>2, <3>3 DEF Split, f
  <2>7. stream' = Frame(n, kind)
    <3> DEFINE f == Frame(n, kind)
    <3>1. f \in Seq(Fields)
      BY FrameFacts
    <3> HIDE DEF f
    <3>2. <<>> \o f = f
      BY <3>1
    <3> QED BY <2>1, <2>4, <3>2 DEF f
  <2>8. Waits(c)
    <3>1. Split(mine'[c], kind, buf'[c], stream')
      BY <2>2, <2>4, <2>5, <2>6, <2>7
    <3> QED BY <2>5, <3>1
  <2>9. \A d \in Callers \ {c} : pc[d] \notin InExchange
    BY <2>2, <2>3 DEF QuietInv
  <2> QED BY <2>2, <2>3, <2>8, <2>9
<1>10. CASE Lose
  <2>1. Empty /\ open' = FALSE /\ UNCHANGED <<pc, troubled>>
    BY <1>10 DEF Lose, callVars, history
  <2> QED BY <2>1 DEF QuietInv
<1>11. CASE UNCHANGED vars
  BY <1>1, <1>11 DEF vars, callVars, lineVars, history
\* (With every field in its place it cannot panic.)
<1>12. ASSUME NEW c \in Callers, Panics(c) PROVE Quiet
  <2>1. pc[c] = "reading" /\ open /\ stream # <<>> /\ ~InStep(Taken(c)) /\ ~troubled
    BY <1>12 DEF Panics, TakesField, history
  <2>2. \E kind \in Kinds : Split(mine[c], kind, buf[c], stream)
    BY <2>1 DEF QuietInv
  <2>3. mine[c] \in Ids
    <3>1. mine[c] \in 1..Len(requests) /\ Len(requests) \in Nat
      BY <2>1, Asked
    <3>2. Len(requests) <= MaxRequests
      BY DEF TypeOK
    <3> QED BY <3>1, <3>2, HandlerAssumption DEF Ids
  <2> QED BY <2>1, <2>2, <2>3, SplitTaken
<1>13. Quiet
  BY <1>3, <1>4, <1>5, <1>6, <1>7, <1>8, <1>9, <1>10, <1>11, <1>12, StepCases
<1> QED BY <1>13

-----------------------------------------------------------------------------
(***************************************************************************)
(* What was accepted.                                                      *)
(***************************************************************************)
LEMMA TakenCame ==
    ASSUME TypeOK, CameInv, NEW c \in Callers, stream # <<>>, InStep(Taken(c))
    PROVE  Came(FrameOf(Taken(c)))
<1>1. /\ buf[c] # Torn /\ Len(Taken(c)) = Len(buf[c]) + 1
      /\ Taken(c)[Len(buf[c]) + 1] = stream[1]
      /\ \A i \in 1..Len(buf[c]) : Taken(c)[i] = buf[c][i]
  BY TakenIsField
<1>2. Len(buf[c]) \in Nat /\ Len(stream) \in Nat /\ Len(stream) >= 1
  BY <1>1, TailFacts DEF TypeOK
<1>3. Came(Taken(c)[1])
  <2>1. CASE Len(buf[c]) = 0
    <3>1. Taken(c)[1] = stream[1] /\ 1 \in 1..Len(stream)
      BY <1>1, <1>2, <2>1
    <3> QED BY <3>1 DEF CameInv
  <2>2. CASE Len(buf[c]) # 0
    <3>1. 1 \in 1..Len(buf[c])
      BY <1>2, <2>2
    <3> QED BY <1>1, <3>1 DEF CameInv
  <2> QED BY <2>1, <2>2
<1> QED BY <1>3 DEF Came, FrameOf

\* Data is accepted from garbage over TCP, or from a reply that answers a
\* request like the one of the exchange.
LEMMA AcceptedData ==
    ASSUME TypeOK, CameInv, NEW c \in Callers, NEW reply, Ends(c, "data", reply)
    PROVE  \/ mode = "TCP" /\ reply = Garbage
           \/ /\ Came(reply) /\ reply.kind = "data"
              /\ Unit(reply.to) = Unit(mine[c]) /\ Function(reply.to) = Function(mine[c])
              /\ requests[mine[c]].op = "write" =>
                   requests[reply.to].point = requests[mine[c]].point
<1>1. TakesField(c) /\ Judged(c, "data", reply)
  BY DEF Ends
<1>2. CASE "data" \in OfGarbage /\ reply = Garbage
  BY <1>2, HandlerAssumption DEF OfGarbage, TypeOK
<1>3. CASE InStep(Taken(c)) /\ reply = FrameOf(Taken(c)) /\ Verdict(c, reply, "data")
  <2>1. Came(reply)
    BY <1>1, <1>3, TakenCame DEF TakesField
  <2>2. Accepts(c, reply)
    BY <1>3 DEF Verdict
  <2> QED BY <2>1, <2>2 DEF Accepts, SlaveMatches, Echoed
<1> QED BY <1>1, <1>2, <1>3 DEF Judged

LEMMA NextLast ==
    TypeOK /\ CallInv /\ CameInv /\ QuietInv /\ LastInv /\ [Next]_vars => LastInv'
<1> SUFFICES ASSUME TypeOK, CallInv, CameInv, QuietInv, LastInv, [Next]_vars PROVE LastInv'
  OBVIOUS
<1>1. ASSUME last' = last, mode' = mode, troubled => troubled', Panicked' => Panicked PROVE LastInv'
  <2>1. last.result = "data" =>
          /\ last.of \in 1..Len(requests')
          /\ requests'[last.of] = requests[last.of]
          /\ \/ mode = "TCP" /\ last.reply = Garbage
             \/ /\ last.reply.to \in 1..Len(requests')
                /\ requests'[last.reply.to] = requests[last.reply.to]
    BY RequestsGrow DEF LastInv
  <2>2. ReplyIsAddressed'
    BY <1>1, <2>1 DEF LastInv, ReplyIsAddressed, Unit, Function
  <2>3. TurnsAreSafe'
    BY <1>1 DEF LastInv, TurnsAreSafe
  <2> QED BY <1>1, <2>1, <2>2, <2>3 DEF LastInv
<1>2. ASSUME NEW c \in Callers, NEW result, NEW reply, Ends(c, result, reply) PROVE LastInv'
  <2>1. /\ last' = [of |-> mine[c], result |-> result, reply |-> reply]
        /\ pc[c] \in InExchange /\ UNCHANGED <<mode, requests>>
    BY <1>2 DEF Ends, Return, given
  <2>2. last'.of = mine[c] /\ last'.result = result /\ last'.reply = reply
    BY <2>1
  <2>3. mine[c] \in 1..Len(requests)
    BY <2>1, Asked
  <2>4. result = "data" =>
          \/ mode = "TCP" /\ reply = Garbage
          \/ /\ Came(reply) /\ reply.kind = "data"
             /\ Unit(reply.to) = Unit(mine[c]) /\ Function(reply.to) = Function(mine[c])
             /\ requests[mine[c]].op = "write" =>
                  requests[reply.to].point = requests[mine[c]].point
    BY <1>2, AcceptedData
  <2>5. ReplyIsAddressed'
    BY <2>1, <2>2, <2>4 DEF ReplyIsAddressed, Unit, Function
  <2>6. TurnsAreSafe'
    <3>1. \A d \in Callers : pc'[d] = "panicked" => pc[d] = "panicked"
      BY <1>2 DEF Ends, Return, TypeOK
    <3>2. troubled => troubled'
      BY <1>2 DEF Ends, Return
    <3> QED BY <1>2, <2>2, <3>1, <3>2, QuietEnd DEF TurnsAreSafe, Panicked, LastInv
  <2>7. result = "data" => \/ mode = "TCP" /\ reply = Garbage
                           \/ reply.to \in 1..Len(requests)
    BY <2>4 DEF Came
  <2> QED BY <2>1, <2>2, <2>3, <2>5, <2>6, <2>7 DEF LastInv
<1>3. ASSUME NEW c \in Callers, Call(c) PROVE LastInv'
  <2>1. PICK request \in Requests : Begin(c, request)
    BY <1>3, CallBegins
  <2>2. pc' = [pc EXCEPT ![c] = "sending"]
    BY <2>1 DEF Begin
  <2>3. Panicked' => Panicked
    BY <2>2 DEF Panicked, TypeOK
  <2> QED BY <1>1, <1>3, <2>1, <2>3, CallBegins DEF Begin, given
<1>4. ASSUME NEW c \in Callers, ScanNext(c) PROVE LastInv'
  <2>1. Panicked' => Panicked
    BY <1>4 DEF ScanNext, Begin, Panicked, TypeOK
  <2> QED BY <1>1, <1>4, <2>1 DEF ScanNext, Begin, given
<1>5. ASSUME NEW c \in Callers, ScanSlaves(c) \/ ScanOver(c) \/ Send(c) \/ GoesOn(c) PROVE LastInv'
  <2>1. Panicked' => Panicked
    BY <1>5 DEF ScanSlaves, ScanOver, Send, GoesOn, GoOn, Panicked, TypeOK
  <2> QED BY <1>1, <1>5, <2>1 DEF ScanSlaves, ScanOver, Send, GoesOn, GoOn, given, history
<1>6. ASSUME (\E n \in Ids : Answer(n)) \/ Lose \/ UNCHANGED vars PROVE LastInv'
  BY <1>1, <1>6 DEF Answer, Lose, vars, given, callVars, history, Panicked
\* In a quiet line every field is in its place: no panic.
<1>7. ASSUME NEW c \in Callers, Panics(c) PROVE LastInv'
  <2>1. /\ pc[c] = "reading" /\ open /\ stream # <<>> /\ ~InStep(Taken(c))
        /\ UNCHANGED <<last, mode, requests, troubled>>
    BY <1>7 DEF Panics, TakesField, given, history
  <2>2. troubled
    <3> SUFFICES ASSUME ~troubled PROVE FALSE
      OBVIOUS
    <3>1. \E kind \in Kinds : Split(mine[c], kind, buf[c], stream)
      BY <2>1 DEF QuietInv
    <3>2. mine[c] \in Ids
      <4>1. mine[c] \in 1..Len(requests) /\ Len(requests) \in Nat
        BY <2>1, Asked DEF InExchange
      <4>2. Len(requests) <= MaxRequests
        BY DEF TypeOK
      <4> QED BY <4>1, <4>2, HandlerAssumption DEF Ids
    <3> QED BY <2>1, <3>1, <3>2, SplitTaken
  <2>3. ReplyIsAddressed'
    BY <2>1 DEF LastInv, ReplyIsAddressed, Unit, Function
  <2> QED BY <2>1, <2>2, <2>3 DEF LastInv, TurnsAreSafe
<1> QED BY <1>2, <1>3, <1>4, <1>5, <1>6, <1>7, StepCases

-----------------------------------------------------------------------------
(***************************************************************************)
(* The scan.                                                               *)
(***************************************************************************)
\* An id that is probed is the one the wire carries.
LEMMA Probed ==
    ASSUME CallInv, NEW c \in Callers, scanner = c, pc[c] \in InExchange
    PROVE  Unit(mine[c]) = requests[mine[c]].slave /\ Function(mine[c]) = 17
<1>1. PICK id \in ScanIds : requests[mine[c]] = Probe(id)
  BY DEF CallInv, Probes
<1>2. requests[mine[c]].slave = id /\ requests[mine[c]].code = 17
  BY <1>1 DEF Probe
<1> QED BY <1>2, ByteFacts DEF Unit, Function

LEMMA NextScan ==
    TypeOK /\ CallInv /\ CameInv /\ QuietInv /\ ScanInv /\ [Next]_vars => ScanInv'
<1> SUFFICES ASSUME TypeOK, CallInv, CameInv, QuietInv, ScanInv, [Next]_vars PROVE ScanInv'
  OBVIOUS
<1>0. identities \subseteq identities' /\ scanner \in Callers \cup {NoOne}
  BY RequestsGrow DEF TypeOK
\* Nothing is probed or accounted for.
<1>1. ASSUME UNCHANGED <<active, scan, scanner, range, mode, mine>>,
             garbled => garbled', troubled => troubled',
             \A c \in Callers : pc[c] \in InExchange => pc'[c] \in InExchange
      PROVE  ScanInv'
  <2>1. ~garbled' => \A s \in active' : <<s, "data">> \in identities'
    BY <1>0, <1>1 DEF ScanInv
  <2>2. ASSUME scanner # NoOne, ~troubled', mode = "TCP", NEW s \in range PROVE PastOrToCome(s)'
    <3>1. PastOrToCome(s) /\ scanner \in Callers
      BY <1>0, <1>1, <2>2 DEF ScanInv
    <3>2. CASE pc[scanner] \in InExchange /\ requests[mine[scanner]].slave = s
      <4>1. mine[scanner] \in 1..Len(requests)
        BY <3>1, <3>2, Asked
      <4>2. requests'[mine'[scanner']].slave = s /\ pc'[scanner'] \in InExchange
        BY <1>1, <3>1, <3>2, <4>1, RequestsGrow
      <4> QED BY <4>2 DEF PastOrToCome
    <3> QED BY <1>0, <1>1, <3>1, <3>2 DEF PastOrToCome
  <2> QED BY <1>1, <2>1, <2>2 DEF ScanInv
<1>2. ASSUME NEW c \in Callers, Call(c) PROVE ScanInv'
  <2>1. PICK request \in Requests : Begin(c, request)
    BY <1>2, CallBegins
  <2>2. /\ pc[c] = "idle" /\ Len(requests) + Len(scan) < MaxRequests
        /\ UNCHANGED <<active, scan, scanner, range, mode, garbled, identities>>
    BY <1>2, CallBegins DEF given, scanVars, lineVars
  <2>3. /\ troubled => troubled'
        /\ \A d \in Callers : d # c => pc'[d] = pc[d] /\ mine'[d] = mine[d]
    BY <2>1, <2>2, Began DEF Begin
  <2>4. ~garbled' => \A s \in active' : <<s, "data">> \in identities'
    BY <2>2 DEF ScanInv
  <2>5. ASSUME scanner # NoOne, ~troubled', mode = "TCP", NEW s \in range PROVE PastOrToCome(s)'
    <3>1. PastOrToCome(s) /\ scanner \in Callers /\ scanner # c
      BY <1>0, <2>2, <2>3, <2>5 DEF ScanInv, CallInv
    <3>2. CASE pc[scanner] \in InExchange /\ requests[mine[scanner]].slave = s
      <4>1. mine[scanner] \in 1..Len(requests)
        BY <3>1, <3>2, Asked
      <4>2. requests'[mine'[scanner']].slave = s /\ pc'[scanner'] \in InExchange
        BY <2>2, <2>3, <3>1, <3>2, <4>1, RequestsGrow
      <4> QED BY <4>2 DEF PastOrToCome
    <3> QED BY <2>2, <3>1, <3>2 DEF PastOrToCome
  <2> QED BY <2>2, <2>4, <2>5 DEF ScanInv
<1>3. ASSUME NEW c \in Callers, ScanNext(c) PROVE ScanInv'
  <2> DEFINE request == Probe(Head(scan))
  <2>1. /\ pc[c] = "next" /\ scan # <<>> /\ Begin(c, request) /\ scan' = Tail(scan)
        /\ UNCHANGED <<active, scanner, range, mode, garbled, identities>>
    BY <1>3 DEF ScanNext, given, lineVars
  <2>2. /\ pc'[c] = "sending" /\ mine'[c] = Len(requests') /\ requests'[Len(requests')] = request
        /\ request.slave = Head(scan)
        /\ troubled => troubled'
    BY <2>1, Began DEF Begin, Probe
  <2>3. scanner = c
    BY <2>1 DEF CallInv
  <2>4. ~garbled' => \A s \in active' : <<s, "data">> \in identities'
    BY <2>1 DEF ScanInv
  <2>5. ASSUME scanner # NoOne, ~troubled', mode = "TCP", NEW s \in range PROVE PastOrToCome(s)'
    <3>1. PastOrToCome(s)
      BY <2>2, <2>5 DEF ScanInv
    <3>2. CASE \E i \in 1..Len(scan) : scan[i] = s
      <4>1. PICK i \in 1..Len(scan) : scan[i] = s
        BY <3>2
      <4>2. CASE i = 1
        <5>1. Head(scan) = s
          BY <2>1, <4>1, <4>2, TailFacts DEF TypeOK
        <5>2. requests'[mine'[scanner']].slave = s /\ pc'[scanner'] \in InExchange
          BY <2>1, <2>2, <2>3, <5>1 DEF InExchange
        <5> QED BY <5>2 DEF PastOrToCome
      <4>3. CASE i # 1
        <5>1. /\ Len(scan) \in Nat /\ Len(Tail(scan)) = Len(scan) - 1
              /\ \A j \in 1..Len(Tail(scan)) : Tail(scan)[j] = scan[j + 1]
          BY <2>1, TailFacts DEF TypeOK
        <5>2. i - 1 \in 1..Len(Tail(scan)) /\ Tail(scan)[i - 1] = s
          BY <4>1, <4>3, <5>1
        <5> QED BY <2>1, <5>2 DEF PastOrToCome
      <4> QED BY <4>2, <4>3
    <3> QED BY <2>1, <2>3, <3>1, <3>2 DEF PastOrToCome, InExchange
  <2> QED BY <2>1, <2>4, <2>5 DEF ScanInv
<1>4. ASSUME NEW c \in Callers, ScanSlaves(c) PROVE ScanInv'
  <2>1. PICK lo \in ScanIds, hi \in ScanIds : lo <= hi /\ scan' = ToProbe(lo, hi) /\ range' = lo..hi
    BY <1>4 DEF ScanSlaves
  <2>2. active' = {}
    BY <1>4 DEF ScanSlaves
  <2>3. \A s \in range' : \E i \in 1..Len(scan') : scan'[i] = s
    BY <2>1, ProbeFacts
  <2> QED BY <2>2, <2>3 DEF ScanInv, PastOrToCome
<1>5. ASSUME NEW c \in Callers, ScanOver(c) PROVE ScanInv'
  BY <1>0, <1>5 DEF ScanOver, ScanInv, history
<1>6. ASSUME NEW c \in Callers, Send(c) \/ GoesOn(c) PROVE ScanInv'
  BY <1>1, <1>6 DEF Send, GoesOn, GoOn, given, scanVars, history, InExchange, TypeOK
<1>7. ASSUME NEW c \in Callers, NEW result, NEW reply, Ends(c, result, reply) PROVE ScanInv'
  <2>1. /\ pc[c] \in InExchange /\ UNCHANGED <<mode, requests, scanner, scan, range, identities>>
        /\ active' = IF scanner = c /\ result = "data"
                     THEN active \cup {requests[mine[c]].slave} ELSE active
        /\ troubled' = (troubled \/ result = "error")
        /\ garbled' = (garbled \/ (reply = Garbage /\ result = "data"))
        /\ \A d \in Callers \ {c} : pc'[d] = pc[d] /\ mine'[d] = mine[d]
    BY <1>7 DEF Ends, Return, TypeOK, given
  <2>2. ASSUME ~garbled', NEW s \in active' PROVE <<s, "data">> \in identities'
    <3>1. CASE s \in active
      BY <2>1, <2>2, <3>1 DEF ScanInv
    <3>2. CASE s \notin active
      <4>1. scanner = c /\ result = "data" /\ s = requests[mine[c]].slave /\ reply # Garbage
        BY <2>1, <2>2, <3>2
      <4>2. /\ Came(reply) /\ reply.kind = "data"
            /\ Unit(reply.to) = Unit(mine[c]) /\ Function(reply.to) = Function(mine[c])
        BY <1>7, <4>1, AcceptedData
      <4>3. Unit(mine[c]) = s /\ Function(mine[c]) = 17
        BY <2>1, <4>1, Probed
      <4> QED BY <2>1, <4>1, <4>2, <4>3 DEF Came
    <3> QED BY <3>1, <3>2
  <2>3. ASSUME scanner # NoOne, ~troubled', mode = "TCP", NEW s \in range PROVE PastOrToCome(s)'
    <3>1. PastOrToCome(s) /\ scanner \in Callers
      BY <1>0, <2>1, <2>3 DEF ScanInv
    <3>2. CASE s \in active \/ <<s, "exception">> \in identities \/ \E i \in 1..Len(scan) : scan[i] = s
      BY <2>1, <3>2 DEF PastOrToCome
    <3>3. CASE scanner # c /\ pc[scanner] \in InExchange /\ requests[mine[scanner]].slave = s
      BY <2>1, <3>1, <3>3 DEF PastOrToCome
    <3>4. CASE scanner = c /\ requests[mine[c]].slave = s
      <4>1. /\ result \in Kinds /\ reply = [to |-> mine[c], kind |-> result]
            /\ reply = FrameOf(Taken(c)) /\ stream # <<>> /\ InStep(Taken(c))
        BY <1>7, <2>3, QuietEnd
      <4>2. reply.to = mine[c] /\ reply.kind = result
        BY <4>1
      <4>3. Came(reply)
        BY <4>1, TakenCame
      <4>4. Unit(mine[c]) = s /\ Function(mine[c]) = 17
        BY <2>1, <3>4, Probed
      <4>5. <<s, result>> \in identities
        BY <3>4, <4>2, <4>3, <4>4 DEF Came
      <4>6. result = "data" => s \in active'
        BY <2>1, <3>4
      <4> QED BY <2>1, <4>1, <4>5, <4>6 DEF PastOrToCome, Kinds
    <3> QED BY <3>1, <3>2, <3>3, <3>4 DEF PastOrToCome
  <2> QED BY <2>1, <2>2, <2>3 DEF ScanInv
<1>8. ASSUME (\E n \in Ids : Answer(n)) \/ Lose \/ UNCHANGED vars PROVE ScanInv'
  BY <1>1, <1>8 DEF Answer, Lose, vars, given, callVars, scanVars, history
<1>9. ASSUME NEW c \in Callers, Panics(c) PROVE ScanInv'
  <2>1. /\ scanner # c /\ UNCHANGED <<active, scan, scanner, range, mode, mine, garbled, troubled, requests, identities>>
        /\ \A d \in Callers : d # c => pc'[d] = pc[d]
    BY <1>9 DEF Panics, given, scanVars, history, TypeOK
  <2>2. ~garbled' => \A s \in active' : <<s, "data">> \in identities'
    BY <2>1 DEF ScanInv
  <2>3. ASSUME scanner # NoOne, ~troubled', mode = "TCP", NEW s \in range PROVE PastOrToCome(s)'
    <3>1. PastOrToCome(s) /\ scanner \in Callers
      BY <1>0, <2>1, <2>3 DEF ScanInv
    <3> QED BY <2>1, <3>1 DEF PastOrToCome
  <2> QED BY <2>1, <2>2, <2>3 DEF ScanInv
<1> QED BY <1>2, <1>3, <1>4, <1>5, <1>6, <1>7, <1>8, <1>9, StepCases

-----------------------------------------------------------------------------
(***************************************************************************)
(* The theorems.                                                           *)
(***************************************************************************)
LEMMA InitInv == Init => Inv
<1> SUFFICES ASSUME Init PROVE Inv
  OBVIOUS
<1> USE DEF Init
<1>1. TypeOK
  BY InitType
<1>2. CallInv
  BY HandlerAssumption DEF CallInv, InExchange
<1>3. CameInv
  BY DEF CameInv
<1>4. QuietInv
  BY DEF QuietInv, InExchange
<1>5. LastInv
  <2>1. last.result = "none" /\ \A c \in Callers : pc[c] = "idle"
    OBVIOUS
  <2> QED BY ONLY <2>1 DEF LastInv, ReplyIsAddressed, TurnsAreSafe, Panicked, Kinds
<1>6. ScanInv
  BY DEF ScanInv
<1> QED BY <1>1, <1>2, <1>3, <1>4, <1>5, <1>6 DEF Inv

\* The inductive invariant: what arrived answers what was asked, and an
\* undisturbed line carries the one frame that is waited for.
THEOREM Invariance == Spec => []Inv
<1>1. Init => Inv
  BY InitInv
<1>2. Inv /\ [Next]_vars => Inv'
  BY NextType, NextCall, NextCame, NextQuiet, NextLast, NextScan DEF Inv
<1> QED BY <1>1, <1>2, PTL DEF Spec

\* The type invariant: whatever callers tear apart, the handler's bookkeeping
\* speaks of requests that were made.
THEOREM TypeCorrect == Spec => []TypeOK
<1>1. Inv => TypeOK
  BY DEF Inv
<1> QED BY <1>1, Invariance, PTL

\* The transporters' checks suffice against late replies and torn frames: data
\* is of the unit and the function byte that were sent and (of a write) the
\* point, except for TCP frames put together from several, which nothing checks.
THEOREM AcceptedIsAddressed == Spec => []ReplyIsAddressed
<1>1. Inv => ReplyIsAddressed
  BY DEF Inv, LastInv
<1> QED BY <1>1, Invariance, PTL

\* Without a lock or a transaction id, callers who take turns and whose
\* exchanges all succeed get their own replies.
THEOREM TurnsSuffice == Spec => []TurnsAreSafe
<1>1. Inv => TurnsAreSafe
  BY DEF Inv, LastInv
<1> QED BY <1>1, Invariance, PTL

\* ScanSlaves lists only slaves that answered, and when nothing disturbed it,
\* every id of its range is listed or has refused.
THEOREM ScanAccounts == Spec => []ScanIsRight
<1>1. Inv => ScanIsRight
  <2> SUFFICES ASSUME Inv, ScanFinished, ~troubled, mode = "TCP", NEW s \in range \ active
               PROVE  <<s, "exception">> \in identities
    BY DEF Inv, ScanInv, ScanIsRight
  <2>1. scanner # NoOne /\ pc[scanner] = "next" /\ scan = <<>>
    BY DEF ScanFinished
  <2>2. PastOrToCome(s)
    BY <2>1 DEF Inv, ScanInv
  <2> QED BY <2>1, <2>2 DEF PastOrToCome, InExchange
<1> QED BY <1>1, Invariance, PTL
=============================================================================
