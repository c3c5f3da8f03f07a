----------------------------- MODULE RegisterRead -----------------------------
(***************************************************************************)
(* GroupReading with the frames in between: each request and its reply     *)
(* travel as RTU or ASCII frames over a line that may change a byte.       *)
(***************************************************************************)
EXTENDS GroupReading, RTUFrames

CONSTANT
    Garbles       \* what a byte or character may be changed into on the line

\* What travels in frames are bytes; the codes from 128 on are those of the
\* exceptions.  Every function but two has at least two arguments.
ASSUME LinkAssumption ==
    /\ Garbles \subseteq Byte
    /\ 0..(AddressSpace - 1) \subseteq Uint16
    /\ CustomCode < 128
    /\ \A r \in Registers : r.slave \in Byte
    /\ \A c \in Calls :
         /\ c.slave \in Byte /\ c.words \in Seq(Uint16) /\ c.bytes \in Seq(Byte)
         /\ c.op # "ReadDeviceIdentification" => Len(c.words) >= 1
         /\ c.op \notin {"ReadDeviceIdentification", "ReadFIFOQueue"} => Len(c.words) >= 2

VARIABLE
    link          \* "rtu" or "ascii"

vars == <<readVars, link>>

-----------------------------------------------------------------------------
(***************************************************************************)
(* Frames on the line.                                                     *)
(***************************************************************************)
Encode(a) == IF link = "rtu" THEN RTUEncode(a) ELSE ASCIIEncode(a)

\* Decode's checks.  (Mutant: the checksum is not compared.)
IntactUnchecked(f) ==
    IF link = "rtu" THEN RealLength(f) <= Len(f)
    ELSE \A k \in DOMAIN Digits(f) : Digits(f)[k] < 16
Intact(f) == IF link = "rtu" THEN RTUIntact(f) ELSE ASCIIIntact(f)
Decode(f) == IF link = "rtu" THEN RTUDecode(f) ELSE ASCIIDecode(f)

Arriving(f) == {f} \cup {[f EXCEPT ![k] = g] : k \in DOMAIN f, g \in Garbles}

ReceiveFrame ==
    /\ calling # NoCall /\ answers # <<>>
    /\ \E f \in Arriving(Encode(Head(answers))) :
         IF Intact(f) THEN Accept(Decode(f)) ELSE ReceiveUnusable

\* Only the RTU packager finds data too long.
CallOverLink ==
    /\ registers = {} /\ calls < MaxCalls
    /\ \E c \in Calls :
         \/ Begin(c) /\ (link = "rtu" => ~TooLong(c))
         \/ Refuse(c) /\ (link = "ascii" => ~InBounds(c))
    /\ UNCHANGED <<groupVars, reading, readings>>

-----------------------------------------------------------------------------
Init == ReadInit /\ link \in {"rtu", "ascii"}

Next ==
    /\ \/ Group \/ StartGroup \/ SkipGroup \/ FinishGroup
       \/ CallOverLink \/ OnTheLine(ReceiveFrame)
       \/ OnTheLine(Timeout) \/ OnTheLine(LoseRequest) \/ OnTheLine(LoseAnswer)
       \/ OnTheLine(Execute) \/ OnTheLine(Except)
    /\ UNCHANGED link

Spec == Init /\ [][Next]_vars

\* The reader proceeds and a call that waits with nothing on the line times
\* out; what is on the line is answered and read (one of the frames that
\* ReceiveFrame may take is the one that was sent).
FairSpec ==
    /\ Spec
    /\ WF_vars((Group \/ StartGroup \/ SkipGroup \/ FinishGroup) /\ UNCHANGED link)
    /\ WF_vars(OnTheLine(Receive) /\ UNCHANGED link)
    /\ WF_vars(OnTheLine(Execute \/ Except \/ SilentTimeout) /\ UNCHANGED link)

-----------------------------------------------------------------------------
(***************************************************************************)
(* Properties.                                                             *)
(***************************************************************************)

\* A changed RTU frame passes its check in another length than it has: below
\* function code 5 Decode takes the length from the byte count, before the CRC
\* has vouched for either of the two.
Misread ==
    /\ link = "rtu" /\ calling # NoCall /\ answers # <<>>
    /\ \E f \in Arriving(RTUEncode(Head(answers))) :
         RealLength(f) # Len(f) /\ RTUIntact(f) /\ Accept(RTUDecode(f))

\* With frames instead of contents, and a byte of each changed on the way, the
\* client does what it does on a line that loses replies but never alters one,
\* and so reads what GroupReading reads, unless a frame is misread: the LRC
\* finds every change of one character, the CRC one of a byte that leaves
\* Decode the frame's length.
FramesAreFaithful == ReadInit /\ [][ReadNext \/ OnTheLine(Misread)]_readVars

\* The two RTU encoders of the library, one with a table and one bit by bit,
\* send the same frame.
EncodersAgree ==
    requests # <<>> => LET a == requests[Len(requests)] IN RTUEncode(a) = Pack(a)

\* ReadGroupedDataSequential returns, whatever the line does.
ReadsEnd == <>ReadDone
===============================================================================
