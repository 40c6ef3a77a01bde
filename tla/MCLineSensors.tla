--------------------------- MODULE MCLineSensors ---------------------------
(* LineSensors on both boards (drivers/io.h).                               *)
EXTENDS LineSensors

Launchpad == [front_left |-> 3]
Jr == [front_left |-> 0, back_left |-> 3, front_right |-> 4, back_right |-> 5]
MCBoards == {Launchpad, Jr}

=============================================================================
