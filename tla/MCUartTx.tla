------------------------------ MODULE MCUartTx ------------------------------
(* A small instance of UartTx: a ring of three bytes, so that it fills and  *)
(* wraps within a few calls, and a two-character assert text.               *)
EXTENDS UartTx

CONSTANT X   \* the printable character

MCChar == {X, NL}
MCMemory == {X, CR}
MCText == <<X, NL>>

=============================================================================
