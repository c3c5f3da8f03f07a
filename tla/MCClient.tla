------------------------------- MODULE MCClient -------------------------------
(***************************************************************************)
(* Calls for model checking ClientOperations: every function with          *)
(* arguments at and beyond its bound, two values to tell apart, a bulk     *)
(* write whose bytes do not fit its quantity, a write whose RTU reply      *)
(* <<1, 6, 0, 32, 240, 0>> reads, with a 3 for its function code, as an    *)
(* intact reply <<1, 3, 0>> without data, and two devices, the second of   *)
(* which has regular identification objects.                               *)
(***************************************************************************)
EXTENDS ClientOperations

MCCall(s, op, words, bytes) == [slave |-> s, op |-> op, words |-> words, bytes |-> bytes]

ReadCalls ==
    {MCCall(1, op, <<1, 2>>, <<>>) : op \in BitReads \cup (WordReads \ {"ReadWriteMultipleRegisters"})}
    \cup {MCCall(1, "ReadCoils", <<1, n>>, <<>>) : n \in {0, MaxReadBits + 1}}
    \cup {MCCall(1, "ReadHoldingRegisters", <<1, n>>, <<>>) : n \in {0, 1, MaxReadWords + 1}}
WriteCalls ==
    {MCCall(1, "WriteSingleCoil", <<1, v>>, <<>>) : v \in {0, 7, On}}
    \cup {MCCall(1, "WriteSingleRegister", <<1, v>>, <<>>) : v \in {0, 7}}
    \cup {MCCall(1, "WriteSingleRegister", <<32, 61440>>, <<>>)}
    \cup {MCCall(1, "MaskWriteRegister", <<1, 7, v>>, <<>>) : v \in 0..1}
    \cup {MCCall(1, "WriteMultipleCoils", <<1, n>>, <<7>>) : n \in {0, 8}}
    \cup {MCCall(1, "WriteMultipleRegisters", <<1, n>>, <<0, 7>>) : n \in {1, 2}}
    \cup {MCCall(1, "WriteMultipleRegisters", <<1, 1>>, [k \in 1..9 |-> 1])}
OtherCalls ==
    {MCCall(1, "ReadWriteMultipleRegisters", <<1, 2, 1, m>>, <<0, 7>>) : m \in 1..2}
    \cup {MCCall(1, "ReadFIFOQueue", <<1>>, <<>>)}
    \cup {MCCall(s, "ReadDeviceIdentification", <<>>, <<>>) : s \in 1..2}
MCCalls == ReadCalls \cup WriteCalls \cup OtherCalls
IdentificationCalls == {c \in OtherCalls : c.op = "ReadDeviceIdentification"}
===============================================================================
