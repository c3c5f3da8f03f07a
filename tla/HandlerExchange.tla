---------------------------- MODULE HandlerExchange ----------------------------
(***************************************************************************)
(* The second protocol stack: ModbusHandler (enhancement_handler.go) over  *)
(* its TCPTransporter or RTUTransporter.  One connection, given to the     *)
(* constructor, no lock anywhere, and a transaction id that is always 0    *)
(* and never compared.  Callers are goroutines that share the handler.     *)
(*                                                                         *)
(* The connection's stream is a sequence of fields, each named by the      *)
(* request its frame answers, the kind of reply and its place:             *)
(*      RTU   1 slave    2 function    3 data       4 CRC                  *)
(*      TCP   1 header   2 unit        3 function   4 data                 *)
(* io.ReadFull reads field by field, so that callers who read at the same  *)
(* time, and deadlines in mid-frame, tear frames apart.                    *)
(*                                                                         *)
(* Slaves and function codes are 16-bit arguments of the methods and bytes *)
(* on the wire.                                                            *)
(*                                                                         *)
(* Devices are assumed to send well-formed frames of at least a function   *)
(* code, on time, late or never.                                           *)
(***************************************************************************)
EXTENDS Naturals, Sequences, FiniteSets

Byte(x) == x % 256
Word == 0..(256 * 256 - 1)

\* What the methods ask.  The point is what the reply of a write echoes, its
\* address and value or quantity.  (A custom code may be one of those.)
ReadRequests == [op : {"read"}, code : {1, 2, 3, 4}, slave : Word, point : {0}]
WriteRequests == [op : {"write"}, code : {5, 6, 15, 16}, slave : Word, point : Nat]
StatusRequests == [op : {"status"}, code : {7}, slave : Word, point : {0}]
IdentityRequests == [op : {"identity"}, code : {17}, slave : Word, point : {0}]
CustomRequests == [op : {"custom"}, code : Word, slave : Word, point : Nat]
Requests == ReadRequests \cup WriteRequests \cup StatusRequests \cup IdentityRequests \cup CustomRequests

CONSTANTS
    Callers,     \* goroutines that use the handler
    NoOne,       \* no caller
    Calls,       \* the requests they make
    MaxScanId,   \* ScanSlaves probes ids of 1..MaxScanId (247)
    Modes,       \* "TCP", "RTU"
    MaxRequests, \* bound: exchanges
    MaxScans     \* bound: ScanSlaves calls

ASSUME HandlerAssumption ==
    /\ NoOne \notin Callers
    /\ MaxScanId \in 0..247 /\ MaxRequests \in Nat /\ MaxScans \in Nat
    /\ Modes \subseteq {"TCP", "RTU"}

\* (A reply to a code with the highest bit would be taken for an exception.)
ASSUME CallsAssumption ==
    /\ Calls \subseteq Requests
    /\ \A request \in Calls : Byte(request.code) < 128

ScanIds == 1..MaxScanId
Probe(id) == [op |-> "identity", code |-> 17, slave |-> id, point |-> 0]
Ids == 1..MaxRequests

Kinds == {"data", "exception"}
FrameSize == 4
Fields == [to : Ids, kind : Kinds, at : 1..FrameSize]
Frame(n, kind) == [i \in 1..FrameSize |-> [to |-> n, kind |-> kind, at |-> i]]
Replies == [to : Ids, kind : Kinds]
Torn == <<[to |-> 0, kind |-> "torn", at |-> 0]>>  \* fields of several frames
NoReply == [to |-> 0, kind |-> "none"]
Garbage == [to |-> 0, kind |-> "garbage"] \* put together from several frames

VARIABLES
    mode,     \* h.mode
    portTimesOut, \* the serial port given to the constructor ends a read in time
    open,     \* the connection works
    requests, \* what was asked, in the order of the exchanges
    pc,       \* where each caller is
    mine,     \* the exchange it is in
    buf,      \* what it has read in it
    last,     \* the exchange that ended last: which, how, and by which reply
    scanner,  \* the caller inside ScanSlaves
    scan,     \* slave ids it has still to probe
    range,    \* all it has to probe
    active,   \* activeSlaves
    scans,    \* ScanSlaves calls so far
    pending,  \* requests on the wire and not answered
    stream,   \* fields that have arrived
    identities, \* history: which slaves answered an identity request, and how
    troubled, \* history: exchanges failed or overlapped
    garbled   \* history: an exchange accepted garbage

given == <<mode, portTimesOut>>
lineVars == <<pending, stream, identities>>
scanVars == <<scanner, scan, range, active, scans>>
callVars == <<requests, pc, mine, buf, last>>
history == <<troubled, garbled>>
vars == <<given, open, callVars, scanVars, lineVars, history>>

TypeOK ==
    /\ mode \in Modes /\ portTimesOut \in BOOLEAN /\ open \in BOOLEAN
    /\ requests \in Seq(Requests) /\ Len(requests) <= MaxRequests
    /\ pc \in [Callers -> {"idle", "next", "sending", "reading", "panicked"}]
    /\ mine \in [Callers -> 0..Len(requests)]
    /\ buf \in [Callers -> Seq(Fields) \cup {Torn}]
    /\ last \in [of : 0..Len(requests), result : Kinds \cup {"none", "error"},
                reply : Replies \cup {NoReply, Garbage}]
    /\ scanner \in Callers \cup {NoOne}
    /\ scan \in Seq(ScanIds) /\ range \subseteq ScanIds /\ active \subseteq ScanIds /\ scans \in 0..MaxScans
    /\ pending \subseteq 1..Len(requests)
    /\ stream \in Seq(Fields) /\ identities \subseteq Nat \X Kinds
    /\ troubled \in BOOLEAN /\ garbled \in BOOLEAN

Init ==
    /\ mode \in Modes /\ open = TRUE /\ requests = <<>>
    /\ portTimesOut \in BOOLEAN /\ (mode = "TCP" => ~portTimesOut)
    /\ pc = [c \in Callers |-> "idle"] /\ mine = [c \in Callers |-> 0]
    /\ buf = [c \in Callers |-> <<>>]
    /\ last = [of |-> 0, result |-> "none", reply |-> NoReply]
    /\ scanner = NoOne /\ scan = <<>> /\ range = {} /\ active = {} /\ scans = 0
    /\ pending = {} /\ stream = <<>> /\ identities = {}
    /\ troubled = FALSE /\ garbled = FALSE

-----------------------------------------------------------------------------
(***************************************************************************)
(* Starting an exchange.                                                   *)
(***************************************************************************)
Begin(c, request) ==
    /\ requests' = Append(requests, request)
    /\ pc' = [pc EXCEPT ![c] = "sending"]
    /\ mine' = [mine EXCEPT ![c] = Len(requests')]
    /\ troubled' = (troubled \/ \E d \in Callers \ {c} : pc[d] \in {"sending", "reading"})

\* A method of ModbusApi other than ScanSlaves.
Call(c) ==
    /\ pc[c] = "idle" /\ Len(requests) + Len(scan) < MaxRequests
    /\ \E request \in Calls : Begin(c, request)
    /\ UNCHANGED <<given, open, buf, last, scanVars, lineVars, garbled>>

\* ScanSlaves(startID, endID): every id, both ends included.  (Mutants: without
\* the last; one too many.)
ToProbeBeforeLast(lo, hi) == [i \in 1..(hi - lo) |-> lo + i - 1]
ToProbeBeyond(lo, hi) == [i \in 1..(hi - lo + 2) |-> lo + i - 1]
ToProbe(lo, hi) == [i \in 1..(hi - lo + 1) |-> lo + i - 1]

\* (An empty or invalid range is refused without an effect.)
ScanSlaves(c) ==
    /\ pc[c] = "idle" /\ scanner = NoOne /\ scans < MaxScans
    /\ \E lo, hi \in ScanIds :
         /\ lo <= hi /\ Len(requests) + Len(ToProbe(lo, hi)) <= MaxRequests
         /\ scan' = ToProbe(lo, hi) /\ range' = lo..hi
    /\ scanner' = c /\ active' = {} /\ scans' = scans + 1
    /\ pc' = [pc EXCEPT ![c] = "next"]
    /\ UNCHANGED <<given, open, requests, mine, buf, last, lineVars, history>>

ScanNext(c) ==
    /\ pc[c] = "next" /\ scan # <<>>
    /\ Begin(c, Probe(Head(scan)))
    /\ scan' = Tail(scan)
    /\ UNCHANGED <<given, open, buf, last, scanner, range, active, scans, lineVars, garbled>>

ScanOver(c) ==
    /\ pc[c] = "next" /\ scan = <<>>
    /\ pc' = [pc EXCEPT ![c] = "idle"]
    /\ scanner' = NoOne
    /\ UNCHANGED <<given, open, requests, mine, buf, last, scan, range, active, scans, lineVars, history>>

-----------------------------------------------------------------------------
(***************************************************************************)
(* sendAndReceive.                                                         *)
(***************************************************************************)
\* It returns, and so does the method, or ScanSlaves goes on: with the id in
\* the list if there was no error.
Return(c, result, reply) ==
    /\ pc' = [pc EXCEPT ![c] = IF scanner = c THEN "next" ELSE "idle"]
    /\ last' = [of |-> mine[c], result |-> result, reply |-> reply]
    /\ mine' = [mine EXCEPT ![c] = 0]
    /\ buf' = [buf EXCEPT ![c] = <<>>]
    /\ active' = IF scanner = c /\ result = "data"
                 THEN active \cup {requests[mine[c]].slave} ELSE active
    /\ troubled' = (troubled \/ result = "error")
    /\ garbled' = (garbled \/ (reply = Garbage /\ result = "data"))
    /\ UNCHANGED <<given, open, requests, scanner, scan, range, scans>>
Fail(c) == Return(c, "error", NoReply)

\* Transporter.Send, one Write.
Send(c) ==
    /\ pc[c] = "sending" /\ open
    /\ pc' = [pc EXCEPT ![c] = "reading"]
    /\ pending' = pending \cup {mine[c]}
    /\ UNCHANGED <<given, open, requests, mine, buf, last, scanVars, stream, identities, history>>

\* The connection is lost; nothing ever opens another.
IOError(c) ==
    /\ pc[c] \in {"sending", "reading"} /\ ~open
    /\ Fail(c)
    /\ UNCHANGED lineVars

\* Receive sets a deadline over TCP.  RTUTransporter never uses the timeout it
\* is given: there a read ends only if the port's own reads do.  (Mutant: no
\* deadline either.)
DeadlineNever == FALSE
Deadline == mode = "TCP"

\* What was read is lost, what has still to come is left to the next reader.
Timeout(c) ==
    /\ pc[c] = "reading" /\ open /\ (Deadline \/ portTimesOut)
    /\ Fail(c)
    /\ UNCHANGED lineVars

\* What was read is the beginning of a frame.
InStep(b) == b # Torn /\ b = SubSeq(Frame(b[1].to, b[1].kind), 1, Len(b))

\* What the wire carries of a request's slave and function: uint8(slaveID),
\* uint8(funcCode).  All that is compared with a reply is of these.
Unit(n) == Byte(requests[n].slave)
Function(n) == Byte(requests[n].code)

\* RTUTransporter.Receive gives up on a function whose reply's length it does
\* not know: most custom ones, 0x11 of ReadRawDeviceIdentity, and exceptions.
Unsupported(b) ==
    /\ mode = "RTU" /\ Len(b) = 2
    /\ b[2].kind = "exception" \/ Function(b[2].to) \notin {1, 2, 3, 4, 5, 6, 7, 15, 16}

\* The unit of the reply is compared with the slave.  (Mutant: it is not.)
SlaveUnchecked(c, n) == TRUE
SlaveMatches(c, n) == Unit(n) = Unit(mine[c])

\* So is its function with the one asked; the writes compare what it echoes.
Echoed(c, n) ==
    requests[mine[c]].op = "write" => requests[n].point = requests[mine[c]].point
Accepts(c, f) ==
    /\ SlaveMatches(c, f.to) /\ f.kind = "data"
    /\ Function(f.to) = Function(mine[c]) /\ Echoed(c, f.to)

Custom(n) == requests[n].op = "custom"

\* What the checks on a whole frame make of it.  A custom function's replies
\* may also have another form than the methods assume.
Verdict(c, f, result) ==
    \/ result = "exception" /\ SlaveMatches(c, f.to) /\ f.kind = "exception"
    \/ result = "data" /\ Accepts(c, f)
    \/ result = "error" /\ ~SlaveMatches(c, f.to)
    \/ result = "error" /\ f.kind = "data" /\ (Accepts(c, f) => Custom(f.to) \/ Custom(mine[c]))

\* Receive reads the whole frame.  (Mutant: all but its last field.)
WholeBeforeLast(b) == Len(b) = FrameSize - 1
Whole(b) == Len(b) = FrameSize

\* Bytes that are no frame's: lengths and codes are whatever they happen to be,
\* so the read goes on or ends in any of these ways.  A CRC never fits; over TCP
\* nothing but the protocol id is looked at, and it may be right.
OfGarbage == IF mode = "RTU" THEN {"error"} ELSE {"error", "exception", "data"}

GoOn(c, b) ==
    /\ buf' = [buf EXCEPT ![c] = b]
    /\ UNCHANGED <<given, open, requests, pc, mine, last, scanVars, history>>

Taken(c) == IF buf[c] = Torn THEN Torn ELSE Append(buf[c], Head(stream))

\* One field of an io.ReadFull in Transporter.Receive.
ReadField(c) ==
    /\ pc[c] = "reading" /\ open /\ stream # <<>>
    /\ stream' = Tail(stream)
    /\ LET b == Taken(c)
           f == [to |-> b[1].to, kind |-> b[1].kind]
       IN CASE ~InStep(b) -> \/ GoOn(c, Torn)
                             \/ \E result \in OfGarbage : Return(c, result, Garbage)
            [] InStep(b) /\ Unsupported(b) -> Fail(c)
            [] OTHER -> IF Whole(b)
                        THEN \E result \in Kinds \cup {"error"} :
                               Verdict(c, f, result) /\ Return(c, result, f)
                        ELSE GoOn(c, b)
    /\ UNCHANGED <<pending, identities>>

\* Among such bytes a length of 1, the unit only, passes Receive over TCP, and
\* all methods but ReadRawDeviceIdentity then index a PDU of no bytes: a panic,
\* and it takes the program with it.
EmptyReply(c) ==
    /\ pc[c] = "reading" /\ open /\ stream # <<>> /\ mode = "TCP"
    /\ ~InStep(Taken(c))
    /\ requests[mine[c]].op # "identity"
    /\ stream' = Tail(stream)
    /\ buf' = [buf EXCEPT ![c] = <<>>]
    /\ pc' = [pc EXCEPT ![c] = "panicked"]
    /\ UNCHANGED <<given, open, requests, mine, last, scanVars, pending, identities, history>>
Panicked == \E c \in Callers : pc[c] = "panicked"

-----------------------------------------------------------------------------
(***************************************************************************)
(* The devices and the connection.                                         *)
(***************************************************************************)
Answer(n) ==
    /\ n \in pending /\ open
    /\ pending' = pending \ {n}
    /\ \E kind \in Kinds :
         /\ stream' = stream \o Frame(n, kind)
         /\ identities' = IF Function(n) = 17
                          THEN identities \cup {<<Unit(n), kind>>} ELSE identities
    /\ UNCHANGED <<given, open, callVars, scanVars, history>>

Lose ==
    /\ open /\ open' = FALSE
    /\ stream' = <<>> /\ pending' = {}
    /\ UNCHANGED <<given, callVars, scanVars, identities, history>>

-----------------------------------------------------------------------------
CallerNext(c) ==
    /\ ~Panicked
    /\ \/ ScanNext(c) \/ ScanOver(c) \/ Send(c) \/ IOError(c) \/ Timeout(c)
       \/ ReadField(c) \/ EmptyReply(c)

Next ==
    \/ \E c \in Callers : CallerNext(c)
    \/ \E c \in Callers : ~Panicked /\ (Call(c) \/ ScanSlaves(c))
    \/ \E n \in Ids : ~Panicked /\ Answer(n)
    \/ ~Panicked /\ Lose

Spec == Init /\ [][Next]_vars

\* Some goroutine in an exchange goes on as long as there is one (each does, but
\* this is enough); a read without an answer ends where it has a deadline.
FairSpec == Spec /\ WF_vars(\E c \in Callers : CallerNext(c))

-----------------------------------------------------------------------------
(***************************************************************************)
(* Properties.                                                             *)
(***************************************************************************)

\* However late a reply is and however callers tear frames apart: data that
\* comes from one frame has the unit and the function byte that were sent, and
\* a write is confirmed only by the echo of the same point.  Over RTU nothing
\* else is ever accepted as data.  (Of the unit and function that were sent, not
\* of the slave and code the caller named: 257 is 1 on the wire.)
ReplyIsAddressed ==
    last.result = "data" =>
        \/ mode = "TCP" /\ last.reply = Garbage
        \/ /\ last.reply.kind = "data"
           /\ Unit(last.reply.to) = Unit(last.of) /\ Function(last.reply.to) = Function(last.of)
           /\ requests[last.of].op = "write" =>
                requests[last.reply.to].point = requests[last.of].point

\* As long as no exchange failed and callers took turns, each got the reply to
\* its own request, and an exception only if the device sent one; and no reply
\* without a function code brings the program down.  (Nothing else keeps
\* replies apart: no lock, no transaction id.)
TurnsAreSafe ==
    ~troubled =>
        /\ ~Panicked
        /\ last.result \in Kinds => last.reply = [to |-> last.of, kind |-> last.result]

\* ScanSlaves lists only slaves that did answer an identity request, also when
\* late replies to the probe of one id arrive during the probe of another.  When
\* it is over and nothing was disturbed, every id of the range is listed or has
\* refused (over TCP: over RTU no reply to 0x11 is ever understood).
ScanFinished == scanner # NoOne /\ pc[scanner] = "next" /\ scan = <<>>
ScanIsRight ==
    /\ ~garbled => \A s \in active : <<s, "data">> \in identities
    /\ ScanFinished /\ ~troubled /\ mode = "TCP" =>
         \A s \in range \ active : <<s, "exception">> \in identities

\* Every call of a handler over TCP returns, ScanSlaves too, whatever the
\* devices do, unless the program panics first.  Over RTU this needs a port
\* whose reads end: nothing in the transporter does.
HandlerCallsReturn ==
    \A c \in Callers :
        pc[c] # "idle" /\ (mode = "TCP" \/ portTimesOut) ~> pc[c] = "idle" \/ Panicked
=============================================================================
