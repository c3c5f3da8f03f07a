------------------------------- MODULE Decoding -------------------------------
(***************************************************************************)
(* DecodeValue (enhancement-register.go).  A data order is its sequence of *)
(* letters, A being 1; a decoded number is its bytes, the most significant *)
(* first.  Weight, which scales the number, and its formats are left out.  *)
(***************************************************************************)
EXTENDS Integers, Sequences, FiniteSetsExt

Width == [bitfield |-> 2, bool |-> 2, uint16 |-> 2, int16 |-> 2,
          uint32 |-> 4, int32 |-> 4, float32 |-> 4, uint64 |-> 8, float64 |-> 8,
          byte |-> 1, uint8 |-> 1, int8 |-> 1, string |-> 0]

Orders == {<<1>>, <<1, 2>>, <<2, 1>>,
           <<1, 2, 3, 4>>, <<4, 3, 2, 1>>, <<2, 1, 4, 3>>, <<3, 4, 1, 2>>,
           <<1, 2, 3, 4, 5, 6, 7, 8>>, <<8, 7, 6, 5, 4, 3, 2, 1>>,
           <<2, 1, 4, 3, 6, 5, 8, 7>>, <<7, 8, 5, 6, 3, 4, 1, 2>>}

\* An order that is unknown or longer than the data leaves the data alone; a
\* shorter one cuts it.
\* (Mutant: the two-byte swap is forgotten.)
reorderAllButBA(data, order) ==
    IF order \in Orders \ {<<2, 1>>} /\ Len(data) >= Len(order)
    THEN [k \in 1..Len(order) |-> data[order[k]]]
    ELSE data
reorderBytes(data, order) ==
    IF order \in Orders /\ Len(data) >= Len(order)
    THEN [k \in 1..Len(order) |-> data[order[k]]]
    ELSE data

CheckBit(n, index) == index <= 15 /\ (n \div 2^index) % 2 = 1
Masked(n, mask) ==
    MapThenSumSet(LAMBDA i : 2^i, {i \in 0..15 : CheckBit(n, i) /\ CheckBit(mask, i)})

Undecodable == [ok |-> FALSE, value |-> <<>>]

\* uint64 has a width but no case of its own.
DecodeValue(r, data) ==
    LET bytes == reorderBytes(data, r.order)
        n == Width[r.type]
        number == 256 * bytes[1] + bytes[2]
    IN IF r.type \notin DOMAIN Width \ {"uint64"} THEN Undecodable
       ELSE IF r.type # "string" /\ (Len(data) < n \/ Len(bytes) < n) THEN Undecodable
       ELSE [ok |-> TRUE,
             value |-> CASE r.type = "string" -> bytes
                         [] r.type = "bool" -> <<CheckBit(number, r.bit)>>
                         [] r.type = "bitfield" ->
                              LET m == Masked(number, r.mask) IN <<m \div 256, m % 256>>
                         [] OTHER -> SubSeq(bytes, 1, n)]
===============================================================================
