--------------------------- MODULE ClientOperations ---------------------------
(***************************************************************************)
(* The Modbus functions of client.go over a line without transaction ids   *)
(* (RTU, ASCII): the bounds each function checks, the bytes it asks with,  *)
(* the checks on the reply, and the loop of ReadDeviceIdentification.      *)
(*                                                                         *)
(* A request or reply on the line is its slave id, function code and data  *)
(* bytes; the transporters and packagers between are an exchange that      *)
(* ends with a reply, with a timeout or with an unusable frame.  After a   *)
(* timeout the old request may still be executed and its reply arrives in  *)
(* the place of a later one, as SerialExchange shows that it can.          *)
(***************************************************************************)
EXTENDS Integers, Sequences, FiniteSets

CONSTANTS
    Calls,             \* the calls there are to make
    MaxCalls,          \* bound: calls made
    NoCall,            \* calling, between calls
    CustomCode,        \* the function code given to ReadWithCustomFunction
    MaxReadBits,       \* 2000
    MaxReadWords,      \* 125
    MaxWriteBits,      \* 1968
    MaxWriteWords,     \* 123
    MaxReadWriteWords, \* 121
    MaxData,           \* data bytes in an RTU frame (252)
    MemorySize,        \* registers and coils of a device
    RegularSlaves      \* devices with regular identification objects

VARIABLES
    calling,  \* the call in progress, or NoCall
    ident,    \* the locals of ReadDeviceIdentification
    requests, \* on their way to a device, in order
    answers,  \* on their way back, in order
    clean,    \* the line was empty when the call began
    calls,    \* number of calls begun or refused
    outcome,  \* how the last call ended
    executed  \* requests a device has executed

lineVars == <<requests, answers, executed>>
clientVars == <<calling, ident, lineVars, clean, calls, outcome>>

NoIdent == [code |-> 0, object |-> 0, additional |-> FALSE, got |-> {}]
NoOutcome == [call |-> NoCall, ok |-> FALSE, data |-> <<>>, objects |-> {}]

-----------------------------------------------------------------------------
(***************************************************************************)
(* Requests.  A call has a slave, an operation, its uint16 arguments in    *)
(* the order of the request, and the bytes of a bulk write.                *)
(***************************************************************************)
Code == [ReadCoils |-> 1, ReadDiscreteInputs |-> 2, ReadHoldingRegisters |-> 3,
         ReadInputRegisters |-> 4, WriteSingleCoil |-> 5, WriteSingleRegister |-> 6,
         WriteMultipleCoils |-> 15, WriteMultipleRegisters |-> 16,
         MaskWriteRegister |-> 22, ReadWriteMultipleRegisters |-> 23,
         ReadFIFOQueue |-> 24, ReadDeviceIdentification |-> 43,
         ReadWithCustomFunction |-> CustomCode]

WriteCodes == {5, 6, 15, 16, 22}

\* The functions by what they ask and check: the bodies of a kind are its parts
\* of InBounds, Data, Confirms and Results.
BitReads == {"ReadCoils", "ReadDiscreteInputs"}
WordReads == {"ReadHoldingRegisters", "ReadInputRegisters", "ReadWithCustomFunction",
              "ReadWriteMultipleRegisters"}
SingleWrites == {"WriteSingleCoil", "WriteSingleRegister", "MaskWriteRegister"}
BulkWrites == {"WriteMultipleCoils", "WriteMultipleRegisters"}

\* The arguments of a read of words, and of the bytes written with it, are
\* unsigned.
IsCall(c) ==
    /\ c.op \in DOMAIN Code
    /\ c.op \in WordReads =>
         /\ c.words \in Seq(Nat) /\ c.bytes \in Seq(Nat)
         /\ Len(c.words) = IF c.op = "ReadWriteMultipleRegisters" THEN 4 ELSE 2

\* The custom function is not another request under another name.
ASSUME ClientAssumption ==
    /\ CustomCode \in Nat \ (WriteCodes \cup {1, 2, 4, 24, 43})
    /\ \A c \in Calls : IsCall(c)

On == 65280
MEIType == 14

InBounds(c) ==
    /\ c.op \in BitReads => c.words[2] \in 1..MaxReadBits
    /\ c.op \in WordReads => c.words[2] \in 1..MaxReadWords
    /\ c.op = "ReadWriteMultipleRegisters" => c.words[4] \in 1..MaxReadWriteWords
    /\ c.op = "WriteSingleCoil" => c.words[2] \in {0, On}
    /\ c.op = "WriteMultipleCoils" => c.words[2] \in 1..MaxWriteBits
    /\ c.op = "WriteMultipleRegisters" => c.words[2] \in 1..MaxWriteWords

\* dataBlock: big-endian words; dataBlockSuffix: and a counted suffix, whose
\* one-byte count wraps and is not compared with the quantity.
dataBlock(ws) ==
    [k \in 1..(2 * Len(ws)) |->
        IF k % 2 = 1 THEN ws[(k + 1) \div 2] \div 256 ELSE ws[k \div 2] % 256]
dataBlockSuffix(bs, ws) == dataBlock(ws) \o <<Len(bs) % 256>> \o bs
Data(c) ==
    IF c.op \in BulkWrites \cup {"ReadWriteMultipleRegisters"}
    THEN dataBlockSuffix(c.bytes, c.words) ELSE dataBlock(c.words)

Word(d, k) == 256 * d[k] + d[k + 1]
Frame(s, f, d) == [slave |-> s, code |-> f, data |-> d]
Request(c) == Frame(c.slave, Code[c.op], Data(c))

-----------------------------------------------------------------------------
(***************************************************************************)
(* Beginning and ending a call.                                            *)
(***************************************************************************)
Ask(s, code, object, additional, got) ==
    /\ ident' = [code |-> code, object |-> object, additional |-> additional, got |-> got]
    /\ requests' = Append(requests, Frame(s, 43, <<MEIType, code, object>>))

Return(ok, data, objects) ==
    /\ outcome' = [call |-> calling, ok |-> ok, data |-> data, objects |-> objects]
    /\ calling' = NoCall
    /\ ident' = NoIdent
    /\ UNCHANGED <<requests, clean, calls>>
Fail == Return(FALSE, <<>>, ident.got)

Begin(c) ==
    /\ calling = NoCall
    /\ InBounds(c)
    /\ calling' = c
    /\ clean' = (requests = <<>> /\ answers = <<>>)
    /\ calls' = calls + 1
    /\ outcome' = NoOutcome
    /\ IF c.op = "ReadDeviceIdentification"
       THEN Ask(c.slave, 1, 0, FALSE, {})
       ELSE requests' = Append(requests, Request(c)) /\ UNCHANGED ident
    /\ UNCHANGED <<answers, executed>>

\* An argument is out of bounds, or rtuPackager.Encode finds the data too long.
TooLong(c) == Len(Data(c)) > MaxData
Refuse(c) ==
    /\ calling = NoCall
    /\ ~InBounds(c) \/ TooLong(c)
    /\ calls' = calls + 1
    /\ outcome' = [NoOutcome EXCEPT !.call = c]
    /\ UNCHANGED <<calling, ident, lineVars, clean>>

-----------------------------------------------------------------------------
(***************************************************************************)
(* Replies.                                                                *)
(***************************************************************************)

\* Packager.Verify, and send: another function code is an exception, and no
\* data at all is an error.
Usable(a) ==
    /\ a.slave = calling.slave
    /\ a.code = Code[calling.op]
    /\ a.data # <<>>

Counted(d) == d[1] = Len(d) - 1
\* len(response.Data) and each word of it against the request's.
\* (Mutant: only the address is compared.)
EchoesAddress(d, ws) == Len(d) = 2 * Len(ws) /\ Word(d, 1) = ws[1]
Echoes(d, ws) == d = dataBlock(ws)
\* The two-byte count includes the two bytes of the FIFO count, but not its own.
FIFOCounted(d) == Len(d) >= 4 /\ Word(d, 1) = Len(d) - 1 /\ Word(d, 3) <= 31

Confirms(c, d) ==
    /\ c.op \in BitReads \cup WordReads => Counted(d)
    /\ c.op \in SingleWrites => Echoes(d, c.words)
    /\ c.op \in BulkWrites => Echoes(d, SubSeq(c.words, 1, 2))
    /\ c.op = "ReadFIFOQueue" => FIFOCounted(d)

Results(c, d) ==
    SubSeq(d, IF c.op = "ReadFIFOQueue" THEN 5
              ELSE IF c.op \in SingleWrites \cup BulkWrites THEN 3 ELSE 2, Len(d))

\* The objects of an identification reply: id, length, value, one after another.
ObjectIds(d) ==
    LET start[n \in 0..d[6]] ==
          IF n = 0 THEN 7 ELSE start[n - 1] + 2 + d[start[n - 1] + 1]
    IN {d[start[n]] : n \in 0..(d[6] - 1)}
NextObject(d) == IF d[4] = 255 THEN d[5] ELSE 0
Level(d) == d[3]
Conforming(level) == level \in (1..3) \cup (129..131)
HasRegular(level) == level % 4 >= 2

\* (Mutant: two objects are taken for all mandatory ones.)
TwoAreEnough(got) == Cardinality(got) >= 2
EnoughObjects(got) == Cardinality(got) >= 3

\* The first loop asks until three objects are there.  The second is entered
\* if there are regular objects too; nothing it asks changes its condition.
\* The branch for extended objects comes after a weaker condition: dead code.
Identify(d) ==
    LET got == ident.got \cup ObjectIds(d)
        asked == calling.slave
    IN CASE ~Conforming(Level(d)) -> Fail
         [] Conforming(Level(d)) /\ ident.additional ->
              Ask(asked, 2, 0, TRUE, got) /\ UNCHANGED <<calling, clean, calls, outcome>>
         [] Conforming(Level(d)) /\ ~ident.additional /\ ~EnoughObjects(got) ->
              IF NextObject(d) = 0 THEN Return(FALSE, <<>>, got)
              ELSE /\ Ask(asked, 1, NextObject(d), FALSE, got)
                   /\ UNCHANGED <<calling, clean, calls, outcome>>
         [] OTHER ->
              IF HasRegular(Level(d))
              THEN Ask(asked, 2, 0, TRUE, got) /\ UNCHANGED <<calling, clean, calls, outcome>>
              ELSE Return(TRUE, <<>>, got)

Accept(a) ==
    /\ calling # NoCall
    /\ IF ~Usable(a) THEN Fail
       ELSE IF calling.op = "ReadDeviceIdentification" THEN Identify(a.data)
       ELSE IF Confirms(calling, a.data) THEN Return(TRUE, Results(calling, a.data), {})
       ELSE Fail
    /\ answers' = Tail(answers)
    /\ UNCHANGED executed

Receive == answers # <<>> /\ Accept(Head(answers))

\* A frame arrives that is too short, or whose checksum is wrong.
ReceiveUnusable ==
    /\ calling # NoCall /\ answers # <<>>
    /\ Fail
    /\ answers' = Tail(answers)
    /\ UNCHANGED executed

\* (Mutant: the deadline only runs while a device has not answered.)
TimeoutWhileAsking == calling # NoCall /\ requests # <<>> /\ Fail /\ UNCHANGED <<answers, executed>>
Timeout == calling # NoCall /\ Fail /\ UNCHANGED <<answers, executed>>

-----------------------------------------------------------------------------
(***************************************************************************)
(* The devices and the line (external).  A memory cell's word names its    *)
(* slave, the table it is in and its address, in two bytes.                *)
(***************************************************************************)
Cell(s, table, a) == <<(16 * s + table) % 256, a % 256>>
Cells(s, table, a, n) ==
    [k \in 1..(2 * n) |-> Cell(s, table, a + (k - 1) \div 2)[IF k % 2 = 1 THEN 1 ELSE 2]]
Within(a, n) == n >= 1 /\ a + n <= MemorySize

Objects(s) == IF s \in RegularSlaves THEN 0..4 ELSE 0..2
PageSize == 2
\* A page of objects with values of one byte, from the one asked for.
Page(s, code, first, level) ==
    LET all == {o \in Objects(s) : o >= first /\ (code = 1 => o <= 2)}
        page == {o \in all : o < first + PageSize}
        rest == all \ page
        ObjectBytes(n) == <<first + n, 1, s>>
    IN <<MEIType, code, level, IF rest = {} THEN 0 ELSE 255,
         IF rest = {} THEN 0 ELSE first + PageSize, Cardinality(page)>>
       \o [k \in 1..(3 * Cardinality(page)) |-> ObjectBytes((k - 1) \div 3)[1 + ((k - 1) % 3)]]

\* The data a device answers a request with that it can execute.  One that does
\* not conform gives a level of 0 when it identifies itself.
Response(r) ==
    LET d == r.data IN
    CASE r.code \in {1, 2} /\ Within(Word(d, 1), Word(d, 3)) ->
           LET n == (Word(d, 3) + 7) \div 8
           IN {<<n % 256>> \o SubSeq(Cells(r.slave, r.code, Word(d, 1), n), 1, n)}
      [] r.code \in {3, 4, 23, CustomCode} /\ Within(Word(d, 1), Word(d, 3)) ->
           {<<(2 * Word(d, 3)) % 256>>
              \o Cells(r.slave, IF r.code = 4 THEN 4 ELSE 3, Word(d, 1), Word(d, 3))}
      [] r.code \in {5, 6, 22} -> {d}
      [] r.code \in {15, 16} /\ d[5] = Len(d) - 5 -> {SubSeq(d, 1, 4)}
      [] r.code = 24 -> {<<0, 4, 0, 1>> \o Cells(r.slave, 3, Word(d, 1), 1)}
      [] r.code = 43 ->
           {Page(r.slave, d[2], d[3], level) :
              level \in {0, IF r.slave \in RegularSlaves THEN 2 ELSE 1}}
      [] OTHER -> {}

Answered(a) ==
    /\ requests' = Tail(requests)
    /\ answers' = Append(answers, a)
    /\ UNCHANGED <<calling, ident, clean, calls, outcome>>

Execute ==
    /\ requests # <<>>
    /\ LET r == Head(requests) IN
         /\ \E d \in Response(r) : Answered(Frame(r.slave, r.code, d))
         /\ executed' = executed \cup {r}

Except ==
    /\ requests # <<>>
    /\ LET r == Head(requests) IN Answered(Frame(r.slave, r.code + 128, <<4>>))
    /\ UNCHANGED executed

LoseRequest ==
    /\ requests # <<>>
    /\ requests' = Tail(requests)
    /\ UNCHANGED <<calling, ident, answers, executed, clean, calls, outcome>>

LoseAnswer ==
    /\ answers # <<>>
    /\ answers' = Tail(answers)
    /\ UNCHANGED <<calling, ident, requests, executed, clean, calls, outcome>>

-----------------------------------------------------------------------------
ClientInit ==
    /\ calling = NoCall /\ ident = NoIdent
    /\ requests = <<>> /\ answers = <<>> /\ executed = {}
    /\ clean = TRUE /\ calls = 0
    /\ outcome = NoOutcome

LineNext ==
    \/ Receive \/ ReceiveUnusable \/ Timeout
    \/ Execute \/ Except \/ LoseRequest \/ LoseAnswer
ClientNext ==
    \/ \E c \in Calls : calls < MaxCalls /\ (Begin(c) \/ Refuse(c))
    \/ LineNext

ClientSpec == ClientInit /\ [][ClientNext]_clientVars

\* Requests are answered and answers read; a time-out is only owed to a call
\* for which nothing is on the line.
SilentTimeout == requests = <<>> /\ answers = <<>> /\ Timeout
ClientFairSpec ==
    /\ ClientSpec
    /\ WF_clientVars(Execute \/ Except) /\ WF_clientVars(Receive)
    /\ WF_clientVars(SilentTimeout)

-----------------------------------------------------------------------------
(***************************************************************************)
(* Properties.                                                             *)
(***************************************************************************)

\* A single write that reports success was executed by the device it was meant
\* for, with this address and value; a bulk write that does, with this address
\* and quantity.  (Late replies: not necessarily by this call; and a bulk
\* write's reply does not repeat the values, so an earlier one's may pass.)
WriteIsConfirmed ==
    outcome.ok =>
        LET c == outcome.call IN
        /\ c.op \in SingleWrites => Request(c) \in executed
        /\ c.op \in BulkWrites =>
             \E r \in executed :
                 /\ r.slave = c.slave /\ r.code = Code[c.op]
                 /\ SubSeq(r.data, 1, 4) = dataBlock(SubSeq(c.words, 1, 2))

\* What a call returns is whole: the words that were asked for, if the line was
\* empty when the call began, and all objects the device has, although an
\* identification is put together from several replies, some of them late.
\* (That a read has the length asked for rests on the devices, which answer it
\* with that quantity or refuse it: the client compares the byte count with the
\* data only.)
ResultsAreWhole ==
    LET c == outcome.call IN
    /\ outcome.ok /\ clean /\ c.op \in WordReads
         => outcome.data = Cells(c.slave, IF c.op = "ReadInputRegisters" THEN 4 ELSE 3,
                                 c.words[1], c.words[2])
    /\ outcome.ok /\ c.op = "ReadDeviceIdentification"
         => outcome.objects = Objects(c.slave)

\* The comment in api.go: ReadDeviceIdentification "reads all the Basic and
\* Regular identification strings" and returns them.
IdentificationReturns ==
    calling # NoCall /\ calling.op = "ReadDeviceIdentification" ~> calling = NoCall
===============================================================================
