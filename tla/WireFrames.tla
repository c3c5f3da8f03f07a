------------------------------ MODULE WireFrames ------------------------------
(***************************************************************************)
(* The content of a frame, [slave, code, data], and the ASCII frames that  *)
(* carry it over a serial line with the LRC of lrc.go.  A hexadecimal      *)
(* digit is its value; other characters are larger.                        *)
(***************************************************************************)
EXTENDS Integers, Sequences

Byte == 0..255
Uint16 == 0..65535

Body(a) == <<a.slave, a.code>> \o a.data
Content(bs) == [slave |-> bs[1], code |-> bs[2], data |-> SubSeq(bs, 3, Len(bs))]

\* The two's complement of the sum, both in a byte.
LRC(bs) ==
    LET sum[n \in 0..Len(bs)] == IF n = 0 THEN 0 ELSE (sum[n - 1] + bs[n]) % 256
    IN (256 - sum[Len(bs)]) % 256

Colon == 16
CR == 17
LF == 18
writeHex(bs) ==
    [k \in 1..(2 * Len(bs)) |->
        IF k % 2 = 1 THEN bs[(k + 1) \div 2] \div 16 ELSE bs[k \div 2] % 16]
readHex(cs) == [k \in 1..(Len(cs) \div 2) |-> 16 * cs[2 * k - 1] + cs[2 * k]]

ASCIIEncode(a) ==
    <<Colon>> \o writeHex(Body(a) \o <<LRC(Body(a))>>) \o <<CR, LF>>

Digits(f) == SubSeq(f, 2, Len(f) - 2)
ASCIIIntact(f) ==
    /\ Len(f) >= 9 /\ Len(f) % 2 = 1
    /\ f[1] = Colon /\ SubSeq(f, Len(f) - 1, Len(f)) = <<CR, LF>>
    /\ \A k \in DOMAIN Digits(f) : Digits(f)[k] < 16
    /\ LET bs == readHex(Digits(f)) IN LRC(SubSeq(bs, 1, Len(bs) - 1)) = bs[Len(bs)]
ASCIIDecode(f) ==
    LET bs == readHex(Digits(f)) IN Content(SubSeq(bs, 1, Len(bs) - 1))
===============================================================================
