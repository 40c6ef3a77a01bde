----------------------------- MODULE ByteStream -----------------------------
(***************************************************************************)
(* What the UART driver promises to the code that prints: a bounded FIFO   *)
(* of bytes that drains by itself, in order, and that is thrown away as a  *)
(* whole, once, when the program gives up in the assert handler.  UartTx   *)
(* is shown to implement it.                                               *)
(***************************************************************************)
EXTENDS Naturals, Sequences

CONSTANTS Byte, Capacity

VARIABLES
    queue,       \* accepted and not yet sent, oldest first
    wire,        \* every byte sent
    abandoned    \* the assert handler has taken the line over

vars == <<queue, wire, abandoned>>

Init == queue = <<>> /\ wire = <<>> /\ abandoned = FALSE

Accept(b) ==
    /\ Len(queue) < Capacity
    /\ queue' = Append(queue, b)
    /\ UNCHANGED <<wire, abandoned>>

Transmit ==
    /\ queue # <<>>
    /\ wire' = Append(wire, Head(queue))
    /\ queue' = Tail(queue)
    /\ UNCHANGED abandoned

Abandon ==
    /\ ~abandoned /\ abandoned' = TRUE
    /\ queue' = <<>>
    /\ UNCHANGED wire

Next == Transmit \/ Abandon \/ \E b \in Byte : Accept(b)

Spec == Init /\ [][Next]_vars
FairSpec == Spec /\ WF_vars(Transmit)

=============================================================================
