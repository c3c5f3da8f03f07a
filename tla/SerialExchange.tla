---------------------------- MODULE SerialExchange ----------------------------
(***************************************************************************)
(* One exchange after another on a line whose replies carry no transaction *)
(* id: RTU and ASCII, over a serial port or a TCP connection (rtuclient.go,*)
(* asciiclient.go, rtu_over_tcp_client.go, ascii_over_tcp_client.go and    *)
(* serial.go).                                                             *)
(*                                                                         *)
(* The line is a sequence of bytes, each named by the request its frame    *)
(* answers, the kind of reply and its place in the frame.  A read takes    *)
(* whatever part of the line has arrived, so where a frame is cut is free. *)
(* A checksum is right for a whole frame and wrong for anything else.      *)
(*                                                                         *)
(* Send holds the transporter's mutex, so exchanges follow each other; the *)
(* mutex itself is modelled in TCPClient.                                  *)
(***************************************************************************)
EXTENDS Naturals, Sequences, FiniteSets

CONSTANTS
    Slaves,       \* slave ids
    Functions,    \* function codes; below 5 the reply has a byte count
    Undetermined, \* those of whose replies Send does not know the length
    Sizes,        \* lengths of the replies to the requests made
    MinSize,      \* rtuMinSize
    ExceptionSize,\* rtuExceptionSize
    MaxRequests,  \* bound: requests
    MaxFrames     \* bound: replies on the line

ASSUME SerialAssumption ==
    /\ MinSize \in Nat \ {0, 1} /\ ExceptionSize \in Nat /\ MinSize < ExceptionSize
    /\ Sizes \subseteq Nat /\ \A s \in Sizes : s > ExceptionSize
    /\ MaxRequests \in Nat /\ MaxFrames \in Nat

Ids == 1..MaxRequests
\* The reply to a write has four bytes of data, or six, any other any number.
Targets ==
    {t \in [slave : Slaves, function : Functions, size : Sizes] :
        /\ t.function \in {5, 6, 15, 16} => t.size = MinSize + 4
        /\ t.function = 22 => t.size = MinSize + 6}
NoFrame == [to |-> 0, kind |-> "none"]

VARIABLES
    link,     \* "serial" or "tcp"
    protocol, \* "rtu" or "ascii"
    port,     \* mb.port or mb.conn: "nil", "open", or "closed" but not nil
    pc,       \* where Send is
    target,   \* what every request asked, in the order of the requests
    pending,  \* requests the device has not answered
    line,     \* bytes that were answered and not read
    buf,      \* bytes this exchange has read
    want,     \* bytes it reads in all, once that is known
    outcome,  \* how the last exchange ended
    got,      \* the frame whose content it returned
    troubled  \* an earlier exchange of this port failed

linkVars == <<link, protocol>>
vars == <<linkVars, port, pc, target, pending, line, buf, want, outcome, got, troubled>>

Kinds == {"data", "exception"}
Size(to, kind) == IF kind = "data" THEN target[to].size ELSE ExceptionSize
Frame(to, kind) == [i \in 1..Size(to, kind) |-> [to |-> to, kind |-> kind, at |-> i]]
Bytes == [to : Ids, kind : Kinds, at : Nat]
Req == Len(target)

Outcomes == {"none", "data", "exception", "mismatch", "checksum", "timeout", "ioError", "openError"}
TypeOK ==
    /\ link \in {"serial", "tcp"} /\ protocol \in {"rtu", "ascii"}
    /\ port \in {"nil", "open", "closed"}
    /\ pc \in {"idle", "write", "read", "rest"}
    /\ target \in Seq(Targets) /\ Len(target) <= MaxRequests
    /\ pending \subseteq 1..Len(target)
    /\ line \in Seq(Bytes) /\ buf \in Seq(Bytes)
    /\ want \in {0, ExceptionSize} \cup Sizes
    /\ outcome \in Outcomes
    /\ got \in [to : Ids, kind : Kinds] \cup {NoFrame}
    /\ troubled \in BOOLEAN

Init ==
    /\ link \in {"serial", "tcp"} /\ protocol \in {"rtu", "ascii"}
    /\ port = "nil" /\ pc = "idle"
    /\ target = <<>> /\ pending = {} /\ line = <<>> /\ buf = <<>> /\ want = 0
    /\ outcome = "none" /\ got = NoFrame /\ troubled = FALSE

-----------------------------------------------------------------------------
(***************************************************************************)
(* Send, up to the first read.                                             *)
(***************************************************************************)
Good == {"none", "data", "exception"}

\* Send returns.  Nothing is flushed and the port stays as it is.
Finish(result, frame) ==
    /\ pc' = "idle"
    /\ outcome' = result
    /\ got' = frame
    /\ troubled' = (troubled \/ result \notin Good)
Fail(result) == Finish(result, NoFrame)

\* Encode, lock, connect(): only a nil port is opened.  A fresh port has an
\* empty line.
Begin ==
    /\ pc = "idle" /\ Len(target) < MaxRequests
    /\ \E t \in Targets : target' = Append(target, t)
    /\ pc' = "write"
    /\ port' = IF port = "nil" THEN "open" ELSE port
    /\ troubled' = (troubled /\ port # "nil")
    /\ buf' = <<>> /\ want' = 0 /\ outcome' = "none" /\ got' = NoFrame
    /\ UNCHANGED <<linkVars, pending, line>>

OpenFails ==
    /\ pc = "idle" /\ port = "nil" /\ Len(target) < MaxRequests
    /\ outcome' = "openError" /\ got' = NoFrame
    /\ UNCHANGED <<linkVars, port, pc, target, pending, line, buf, want, troubled>>

Write ==
    /\ pc = "write" /\ port = "open"
    /\ pending' = pending \cup {Req}
    /\ pc' = "read"
    /\ UNCHANGED <<linkVars, port, target, line, buf, want, outcome, got, troubled>>

IOError ==
    /\ pc # "idle" /\ port # "open"
    /\ Fail("ioError")
    /\ UNCHANGED <<linkVars, port, target, pending, line, buf, want>>

\* A read takes the first n bytes of the line.
Take(n) ==
    /\ buf' = buf \o SubSeq(line, 1, n)
    /\ line' = SubSeq(line, n + 1, Len(line))

-----------------------------------------------------------------------------
(***************************************************************************)
(* Reading an RTU reply: at least MinSize bytes, then the rest if the      *)
(* second byte is the function that was asked.                             *)
(***************************************************************************)
\* calculateResponseLength of the request: no more than the minimum for a FIFO
\* queue, an identification and a custom function, whose replies are therefore
\* passed on as far as the first read has got.
BytesToRead ==
    IF target[Req].function \in Undetermined THEN MinSize ELSE target[Req].size

\* The byte at position 2 of what was read, as the switch sees it: in a frame
\* that is out of step it may be anything.
FunctionByte(b) ==
    CASE b[2].at # 2 -> {"function", "zero", "other"}
      [] b[2].at = 2 /\ b[2].kind = "data" /\ target[b[2].to].function = target[Req].function
            -> {"function"}
      [] OTHER -> {"other"}

\* `functionFail := aduRequest[1] & 0x80` is 0 for every request, so an
\* exception (0x80 or'ed to the function) takes neither case.
Wanted(byte) ==
    CASE byte = "function" -> BytesToRead
      [] byte = "zero" -> ExceptionSize
      [] OTHER -> 0

\* A frame at the head of b.  What follows the reply to a bulk read over RTU is
\* cut off by its byte count, anything else has to be all there is.  Out of
\* step, or short, the checksum does not fit.  (Mutant: it is not checked.)
IntactUnchecked(b) == TRUE
HasByteCount(b) ==
    protocol = "rtu" /\ b[1].kind = "data" /\ target[b[1].to].function < 5
Intact(b) ==
    LET f == Frame(b[1].to, b[1].kind) IN
    /\ Len(b) >= Len(f) /\ SubSeq(b, 1, Len(f)) = f
    /\ HasByteCount(b) \/ Len(b) = Len(f)

\* Verify compares the slave ids: of whatever byte is in that place, but ASCII
\* frames also have to begin with a colon.  (Mutant: only the length.)
VerifyLength(b) == {TRUE}
Verify(b) ==
    CASE b[1].at = 1 -> {target[b[1].to].slave = target[Req].slave}
      [] b[1].at # 1 /\ protocol = "rtu" -> BOOLEAN
      [] OTHER -> {FALSE}

\* Verify, Decode and the comparison of the function codes in client.send.
Answered(b) ==
    b[1].kind = "data" /\ target[b[1].to].function = target[Req].function
Deliver(b) ==
    \E ok \in Verify(b) :
        IF ~ok THEN Fail("mismatch")
        ELSE IF ~Intact(b) THEN Fail("checksum")
        ELSE Finish(IF Answered(b) THEN "data" ELSE "exception",
                    [to |-> b[1].to, kind |-> b[1].kind])

\* io.ReadAtLeast(port, data, rtuMinSize) takes what is there.
ReadFirst ==
    /\ protocol = "rtu" /\ pc = "read" /\ port = "open"
    /\ \E n \in MinSize..Len(line) :
         /\ Take(n)
         /\ \E byte \in FunctionByte(buf') :
              IF n < Wanted(byte)
              THEN /\ pc' = "rest" /\ want' = Wanted(byte)
                   /\ UNCHANGED <<outcome, got, troubled>>
              ELSE Deliver(buf') /\ UNCHANGED want
    /\ UNCHANGED <<linkVars, port, target, pending>>

\* io.ReadFull of what is missing.
ReadRest ==
    /\ pc = "rest" /\ port = "open"
    /\ want - Len(buf) <= Len(line)
    /\ Take(want - Len(buf))
    /\ Deliver(buf')
    /\ UNCHANGED <<linkVars, port, target, pending, want>>

-----------------------------------------------------------------------------
(***************************************************************************)
(* Reading an ASCII reply: chunk by chunk until one ends where a frame     *)
(* ends.                                                                   *)
(***************************************************************************)
\* (MinSize is one more than asciiMinSize.)
Terminated(b) == Len(b) >= MinSize /\ b[Len(b)].at = Size(b[Len(b)].to, b[Len(b)].kind)

ReadChunk ==
    /\ protocol = "ascii" /\ pc = "read" /\ port = "open"
    /\ \E n \in 1..Len(line) : Take(n)
    /\ IF Terminated(buf') THEN Deliver(buf') ELSE UNCHANGED <<pc, outcome, got, troubled>>
    /\ UNCHANGED <<linkVars, port, target, pending, want>>

\* handler.Timeout is set by the constructors.  (Mutant: no deadline is.)
NoDeadline == FALSE
Deadline == TRUE

\* The deadline.  What was read of the reply so far is lost.
Timeout ==
    /\ Deadline
    /\ pc \in {"read", "rest"} /\ port = "open"
    /\ \E n \in 0..Len(line) :
         /\ CASE protocol = "ascii" -> n = 0
              [] pc = "rest" -> Len(buf) + n < want
              [] OTHER -> n < MinSize
         /\ Take(n)
    /\ Fail("timeout")
    /\ UNCHANGED <<linkVars, port, target, pending, want>>

-----------------------------------------------------------------------------
(***************************************************************************)
(* The device, and closing the port.                                       *)
(***************************************************************************)
FramesOnLine == Cardinality({line[i].to : i \in 1..Len(line)})

Answer(n) ==
    /\ n \in pending /\ FramesOnLine < MaxFrames
    /\ pending' = pending \ {n}
    /\ \E kind \in Kinds :
         line' = IF port = "open" THEN line \o Frame(n, kind) ELSE line
    /\ UNCHANGED <<linkVars, port, pc, target, buf, want, outcome, got, troubled>>

\* serialPort.Close leaves mb.port set; tcpTransporter.close forgets the
\* connection and with it what was under way.
AfterClose == IF link = "serial" THEN "closed" ELSE "nil"
Closed ==
    /\ port' = AfterClose
    /\ line' = <<>>
    /\ pending' = IF link = "serial" THEN pending ELSE {}

\* closeIdle, under the mutex.
CloseIdle ==
    /\ pc = "idle" /\ port = "open"
    /\ Closed
    /\ UNCHANGED <<linkVars, pc, target, buf, want, outcome, got, troubled>>

\* The handler's Close takes the mutex, except that of the serial ASCII
\* handler, which is serialPort.Close itself.  (Mutant: none takes it.)
LockedNever == FALSE
CloseLocked == ~(protocol = "ascii" /\ link = "serial")
Close ==
    /\ CloseLocked => pc = "idle"
    /\ port = "open"
    /\ Closed
    /\ UNCHANGED <<linkVars, pc, target, buf, want, outcome, got, troubled>>

-----------------------------------------------------------------------------
SendNext == Write \/ IOError \/ ReadFirst \/ ReadRest \/ ReadChunk \/ Timeout

Next ==
    \/ Begin \/ OpenFails \/ SendNext
    \/ \E n \in Ids : Answer(n)
    \/ CloseIdle \/ Close

Spec == Init /\ [][Next]_vars

\* Send goes on: its reads end with data or with the port's timeout.
FairSpec == Spec /\ WF_vars(SendNext)

-----------------------------------------------------------------------------
(***************************************************************************)
(* Properties.                                                             *)
(***************************************************************************)

\* Data is returned only from a reply of the slave and the function that were
\* asked, whatever was left on the line and wherever frames were cut.  (It may
\* be a late reply to an earlier request: nothing tells those apart.)
DataIsAddressed ==
    outcome = "data" =>
        /\ got.kind = "data"
        /\ target[got.to].slave = target[Req].slave
        /\ target[got.to].function = target[Req].function

\* As long as no exchange on this port has failed, the reply that is returned
\* is the reply to this request, and a Modbus error is reported only if the
\* device sent one.
CleanLineIsTrusted ==
    ~troubled /\ outcome \in {"data", "exception"} =>
        got = [to |-> Req, kind |-> outcome]

\* Nobody closes the port under an exchange, except that the serial ASCII
\* handler's Close may.
PortHeld ==
    pc \in {"read", "rest"} => port = "open" \/ (protocol = "ascii" /\ link = "serial")

\* Every call returns.
LineCallsReturn == pc # "idle" ~> pc = "idle"

\* "We first read the minimum length and then read either the full package or
\* the error package": a checksum error is never the fault of having read too
\* little of the exception the device sent.
ExceptionReadWhole ==
    outcome = "checksum" /\ buf[1].at = 1 /\ buf[1].kind = "exception"
        => Len(buf) >= ExceptionSize

\* The test of the idle timer: after it has run the port is closed and nil, so
\* that connect() opens it again and Send always has an open port to write to.
ConnectOpens ==
    protocol = "rtu" /\ pc = "write" => port = "open"
=============================================================================
