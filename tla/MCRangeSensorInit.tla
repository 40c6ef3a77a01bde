------------------------- MODULE MCRangeSensorInit -------------------------
(* RangeSensorInit with the three sensors of the JR build.  The SPAD map    *)
(* has two rows of two, of which three may be activated.  What ST has saved *)
(* differs in the middle sensor.                                            *)
EXTENDS RangeSensorInit, TLC

CONSTANTS mid, left, right

JrOrder == <<mid, left, right>>
JrAddress == (mid :> 48) @@ (left :> 49) @@ (right :> 50)
Fine == [count |-> 1, aperture |-> FALSE, good |-> {0, 1, 2}]
MCNvms == {(mid :> n) @@ (left :> Fine) @@ (right :> Fine) :
    n \in [count : 0 .. 3, aperture : BOOLEAN, good : SUBSET {0, 1, 2}]}

=============================================================================
