------------------------------ MODULE MCMotors ------------------------------
(* Motors on each board, with every command drive.h can name and the duty   *)
(* cycles of the tests.                                                     *)
EXTENDS Motors

AllCommands == Direction \X Speed
TestDuties == {0, 1, 50, 100}

=============================================================================
