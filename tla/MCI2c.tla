------------------------------- MODULE MCI2c -------------------------------
(* I2c with a write of two bytes, reads of one to three and an index of     *)
(* two bytes, one call after the other in any order.                        *)
EXTENDS I2c

CONSTANTS a, b, x, y

MCByte == {a, b, x, y}

MCCalls ==
    {[kind |-> "write", addr |-> <<b>>, data |-> <<x, y>>],
     [kind |-> "read", addr |-> <<a>>, size |-> 1],
     [kind |-> "read", addr |-> <<b>>, size |-> 2],
     [kind |-> "read", addr |-> <<a, b>>, size |-> 3]}

=============================================================================
