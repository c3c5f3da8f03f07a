---------------------------- MODULE GroupReading ----------------------------
(***************************************************************************)
(* From the registers an application loads to the values it decodes:       *)
(* Grouping cuts them into runs, ReadGroupedDataSequential reads each run  *)
(* with one request of ClientOperations, readGroup cuts the data of the    *)
(* reply up (enhancement-group.go) and Decoding makes values of it.        *)
(*                                                                         *)
(* An application without registers calls the client's functions itself.   *)
(***************************************************************************)
EXTENDS Grouping, ClientOperations, Decoding

VARIABLES
    reading, \* readGroup waits for the client
    readings \* what readGroup has made of the groups so far

readVars == <<groupVars, clientVars, reading, readings>>

-----------------------------------------------------------------------------
(***************************************************************************)
(* readGroup, one group after another.                                     *)
(***************************************************************************)
Group ==
    /\ GroupNext
    /\ UNCHANGED <<clientVars, reading, readings>>

\* totalQuantity is a uint16, and so is twice a register's quantity.
totalQuantity(g) ==
    LET total[k \in 0..Len(g)] ==
          IF k = 0 THEN 0 ELSE (total[k - 1] + g[k].quantity) % AddressSpace
    IN total[Len(g)]
expectedLength(r) == (2 * r.quantity) % AddressSpace
ReadFunctions == <<"ReadCoils", "ReadDiscreteInputs",
                   "ReadHoldingRegisters", "ReadInputRegisters">>

\* Slave, function and address are those of the first register.
GroupCall(g) ==
    [slave |-> g[1].slave, op |-> ReadFunctions[g[1].function],
     words |-> <<g[1].address, totalQuantity(g)>>, bytes |-> <<>>]

NextGroup == Len(readings) + 1
ReadyToRead == Grouped /\ ~reading /\ calling = NoCall /\ NextGroup <= Len(groups)

StartGroup ==
    /\ ReadyToRead
    /\ groups[NextGroup][1].function \in 1..4
    /\ Begin(GroupCall(groups[NextGroup])) \/ Refuse(GroupCall(groups[NextGroup]))
    /\ reading' = TRUE
    /\ UNCHANGED <<groupVars, readings>>

Unread(g) ==
    [status |-> [k \in DOMAIN g |-> "unread"], value |-> [k \in DOMAIN g |-> <<>>],
     own |-> FALSE]

SkipGroup ==
    /\ ReadyToRead
    /\ groups[NextGroup][1].function \notin 1..4
    /\ readings' = Append(readings, Unread(groups[NextGroup]))
    /\ UNCHANGED <<groupVars, clientVars, reading>>

\* The data is cut up in the order of the registers, up to the first one it
\* does not suffice for.  (Mutant: the offset counts registers, not bytes.)
OffsetInRegisters(g, k) ==
    LET offset[j \in 1..k] == IF j = 1 THEN 0 ELSE offset[j - 1] + g[j - 1].quantity
    IN offset[k]
Offset(g, k) ==
    LET offset[j \in 1..k] == IF j = 1 THEN 0 ELSE offset[j - 1] + expectedLength(g[j - 1])
    IN offset[k]

Fits(g, k, data) == Offset(g, k) + expectedLength(g[k]) <= Len(data)
Slices(g, data) ==
    LET reached == {k \in DOMAIN g : \A j \in 1..(k - 1) : Fits(g, j, data)}
        valid == {k \in reached : Fits(g, k, data)}
    IN [status |-> [k \in DOMAIN g |-> IF k \in valid THEN "VALID"
                                       ELSE IF k \in reached THEN "INVALID" ELSE "unread"],
        value |-> [k \in DOMAIN g |-> IF k \in valid
                                      THEN SubSeq(data, Offset(g, k) + 1,
                                                  Offset(g, k) + expectedLength(g[k]))
                                      ELSE <<>>],
        own |-> clean]

Failed(g) == [Unread(g) EXCEPT !.status = [k \in DOMAIN g |-> "INVALID"]]

FinishGroup ==
    /\ reading /\ calling = NoCall
    /\ reading' = FALSE
    /\ LET g == groups[NextGroup] IN
         readings' = Append(readings, IF outcome.ok THEN Slices(g, outcome.data) ELSE Failed(g))
    /\ UNCHANGED <<groupVars, clientVars>>

\* Without registers: any function of the client, by itself.
CallClient ==
    /\ registers = {} /\ calls < MaxCalls
    /\ \E c \in Calls : Begin(c) \/ Refuse(c)
    /\ UNCHANGED <<groupVars, reading, readings>>

OnTheLine(A) == A /\ UNCHANGED <<groupVars, reading, readings>>

-----------------------------------------------------------------------------
ReadInit ==
    /\ GroupInit /\ ClientInit
    /\ reading = FALSE /\ readings = <<>>

ReadNext ==
    \/ Group \/ StartGroup \/ SkipGroup \/ FinishGroup
    \/ CallClient \/ OnTheLine(LineNext)

ReadSpec == ReadInit /\ [][ReadNext]_readVars

-----------------------------------------------------------------------------
(***************************************************************************)
(* Properties.                                                             *)
(***************************************************************************)
ReadDone == Grouped /\ ~reading /\ Len(readings) = Len(groups)

\* A register of words that is marked valid has the bytes its own device keeps
\* at its own address, if the line was empty when the group was read, in the
\* table of its group's FIRST register: the code groups registers of different
\* functions together and reads them all with one.  Devices answer with the
\* quantity that was asked for, or refuse.  The property takes the grouping, the
\* quantity asked for, the reply checks and the cutting up to agree.  Exempt
\* is a register at or behind one whose bytes no uint16 can count: the offsets
\* of the code then fall behind the addresses.
ReadsDevice ==
    \A n \in DOMAIN readings : \A k \in DOMAIN groups[n] :
        LET g == groups[n]  r == groups[n][k] IN
        /\ readings[n].own /\ readings[n].status[k] = "VALID"
        /\ g[1].function \in 3..4
        /\ \A j \in 1..k : 2 * g[j].quantity < AddressSpace
        => readings[n].value[k] = Cells(r.slave, g[1].function, r.address, r.quantity)

\* A device that keeps a number in the declared order has its letter's byte of
\* the number at each place.
Meant(order, data) ==
    LET n == Len(order) IN
    CHOOSE m \in [1..n -> {data[k] : k \in 1..n}] : \A k \in 1..n : m[order[k]] = data[k]

\* A value that decodes has the bytes of the number that the device meant, from
\* the most significant on, if there are data for the whole order.
DecodedIsMeant ==
    \A n \in DOMAIN readings : \A k \in DOMAIN groups[n] :
        LET r == groups[n][k]
            data == readings[n].value[k]
            decoded == DecodeValue(r, data)
        IN /\ readings[n].status[k] = "VALID"
           /\ r.order \in Orders /\ Len(data) >= Len(r.order)
           /\ r.type \notin {"bool", "bitfield", "string"}
           /\ decoded.ok
           => decoded.value = SubSeq(Meant(r.order, data), 1, Width[r.type])
===============================================================================
