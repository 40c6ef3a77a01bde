------------------------------ MODULE MCIoPins ------------------------------
(* Both boards.  At power-up the output registers are all zeros, all ones,  *)
(* or alternate.                                                            *)
EXTENDS IoPins

Outs == {{}, 1 .. 24, {i \in 1 .. 24 : i % 2 = 0}, {i \in 1 .. 24 : i % 2 = 1}}

=============================================================================
