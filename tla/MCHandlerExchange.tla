--------------------------- MODULE MCHandlerExchange ---------------------------
(***************************************************************************)
(* A small handler for TLC: a slave that shares its byte with another, a   *)
(* custom function that shares it with a read, and two writes that differ  *)
(* in what their replies echo.                                             *)
(***************************************************************************)
EXTENDS HandlerExchange

SomeCalls ==
    { [op |-> "read", code |-> 3, slave |-> 1, point |-> 0],
      [op |-> "read", code |-> 3, slave |-> 257, point |-> 0],
      [op |-> "write", code |-> 6, slave |-> 2, point |-> 1],
      [op |-> "write", code |-> 6, slave |-> 2, point |-> 2],
      [op |-> "custom", code |-> 259, slave |-> 1, point |-> 0] }
=============================================================================
