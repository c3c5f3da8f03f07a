---------------------------- MODULE MCRegisterRead ----------------------------
(***************************************************************************)
(* Registers for model checking RegisterRead.                              *)
(***************************************************************************)
EXTENDS RegisterRead, MCClient

\* Slave, function, address, quantity, type, order.
MCRegister(s, f, a, q, t, o) ==
    [slave |-> s, function |-> f, address |-> a, quantity |-> q,
     type |-> t, order |-> o, bit |-> 1, mask |-> 255]

MCRegisters ==
    {MCRegister(1, 3, 0, 1, "uint16", <<2, 1>>),
     MCRegister(1, 3, 1, 2, "float32", <<3, 4, 1, 2>>),
     MCRegister(1, 3, 1, 4, "uint64", <<1, 2, 3, 4, 5, 6, 7, 8>>),
     MCRegister(1, 4, 3, 1, "bool", <<1, 2>>),
     MCRegister(1, 3, 3, 2, "uint32", <<1, 2>>),
     MCRegister(1, 3, 4, 0, "string", <<>>),
     MCRegister(1, 3, 5, 7, "bitfield", <<1, 2>>),
     MCRegister(2, 4, 1, 4, "float64", <<7, 8, 5, 6, 3, 4, 1, 2>>),
     MCRegister(2, 1, 5, 1, "int8", <<1>>),
     MCRegister(2, 7, 6, 1, "int16", <<2, 1>>)}
===============================================================================
