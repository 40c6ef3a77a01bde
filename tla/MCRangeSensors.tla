--------------------------- MODULE MCRangeSensors ---------------------------
(* Instances of RangeSensors and Enemy: the one sensor of the LAUNCHPAD     *)
(* build, the three of the JR build.  A measurement is near (40 mm), at the *)
(* threshold of detection (600 mm) or the code 8191.                       *)
EXTENDS Enemy

CONSTANTS mid_sensor, left_sensor, right_sensor

LaunchpadOrder == <<mid_sensor>>
JrOrder == <<mid_sensor, left_sensor, right_sensor>>
MCRange == {40, 600, 8191}
MCDistance == {0, 40, 99, 100, 101, 199, 200, 599, 600, 8190}
MultipleOnly == {{"multiple"}}
MCSingly == {mid_sensor}
OneOfEach == {{"multiple"}, {"single"}, {"start"}}

=============================================================================
