------------------------------- MODULE Enemy -------------------------------
(***************************************************************************)
(* app/enemy.c on top of drivers/vl53l0x.c: enemy_get makes one call of    *)
(* vl53l0x_read_range_multiple and turns the three ranges into a position  *)
(* and a distance class.  It keeps no state, so it is a function of what   *)
(* the call of RangeSensors returned.                                      *)
(***************************************************************************)
EXTENDS RangeSensors

CONSTANTS
    Left, Right,    \* VL53L0X_IDX_LEFT, VL53L0X_IDX_RIGHT; on LAUNCHPAD they
                    \* are indices into the ranges but no sensors
    Distance        \* the ranges the decision is examined for

ASSUME EnemyAssumption ==
    /\ Left # Mid /\ Right # Mid /\ Left # Right
    /\ Sensors \subseteq {Mid, Left, Right}
    /\ Distance \subseteq 0 .. UINT16_MAX

RANGE_DETECT_THRESHOLD == 600
RANGE_CLOSE == 100
RANGE_MID == 200

-----------------------------------------------------------------------------
(* Mutant: the parentheses are missing. *)
Mean_precedence(a, b) == a + (b \div 2)

(* In uint16_t: the sum of two detected ranges does not overflow.           *)
Mean(a, b) == ((a + b) % 65536) \div 2

enemy_range(mm) == IF mm < RANGE_CLOSE THEN "CLOSE"
                   ELSE IF mm < RANGE_MID THEN "MID" ELSE "FAR"

Found(position, mm) == [position |-> position, range |-> enemy_range(mm)]
NotFound(position) == [position |-> position, range |-> "NONE"]

enemy_get(range_mid, range_left, range_right) ==
    LET mid   == range_mid < RANGE_DETECT_THRESHOLD
        left  == range_left < RANGE_DETECT_THRESHOLD
        right == range_right < RANGE_DETECT_THRESHOLD
    IN  CASE mid /\ right /\ left ->
                Found("ALL", Mean(Mean(range_mid, range_left), range_right))
          [] mid /\ right /\ ~left -> Found("MID_RIGHT", Mean(range_mid, range_right))
          [] mid /\ ~right /\ left -> Found("MID_LEFT", Mean(range_mid, range_left))
          [] mid /\ ~right /\ ~left -> Found("MID", range_mid)
          [] ~mid /\ right /\ left -> NotFound("IMPOSSIBLE")
          [] ~mid /\ right /\ ~left -> Found("RIGHT", range_right)
          [] ~mid /\ ~right /\ left -> Found("LEFT", range_left)
          [] OTHER -> NotFound("NONE")

enemy_detected(enemy) == enemy.position \notin {"NONE", "IMPOSSIBLE"}

enemy_at_left(enemy) == enemy.position \in {"LEFT", "MID_LEFT"}
enemy_at_mid(enemy) == enemy.position \in {"MID", "ALL"}
enemy_at_right(enemy) == enemy.position \in {"RIGHT", "MID_RIGHT"}

(* What the last call of the driver makes enemy_get return.                 *)
Reading(s) == IF s \in Sensors THEN latest[s].mm ELSE VL53L0X_OUT_OF_RANGE
Answered == reply \in {"cached", "fresh"}
EnemyNow == IF Answered THEN enemy_get(Reading(Mid), Reading(Left), Reading(Right))
                        ELSE NotFound("NONE")

-----------------------------------------------------------------------------
(* A detected opponent is on exactly one of the three sides an application  *)
(* can ask for, so that it never turns both ways or none; and seen in a     *)
(* mirror it is on the other side.                                          *)
OneSide ==
    \A m, l, r \in Distance :
        LET enemy == enemy_get(m, l, r)
            mirrored == enemy_get(m, r, l)
            at == [left |-> enemy_at_left(enemy), mid |-> enemy_at_mid(enemy),
                   right |-> enemy_at_right(enemy)]
        IN  /\ enemy_detected(enemy) <=> \E side \in DOMAIN at : at[side]
            /\ \A a, b \in DOMAIN at : at[a] /\ at[b] => a = b
            /\ enemy_at_left(enemy) <=> enemy_at_right(mirrored)

(* The reported distance class is not nearer than that of the nearest       *)
(* sensor that sees the opponent nor farther than that of the farthest,     *)
(* through all halvings of enemy_get and at every threshold.                *)
Class == [CLOSE |-> 1, MID |-> 2, FAR |-> 3]
RangeBetween ==
    \A m, l, r \in Distance :
        LET enemy == enemy_get(m, l, r)
            seen  == {mm \in {m, l, r} : mm < RANGE_DETECT_THRESHOLD}
            classes == {Class[enemy_range(mm)] : mm \in seen}
        IN  enemy_detected(enemy) =>
                /\ \E c \in classes : c <= Class[enemy.range]
                /\ \E c \in classes : c >= Class[enemy.range]

(* An opponent that comes nearer to one sensor, and is seen by the same     *)
(* ones as before, is never reported in a farther class.                    *)
NotFarther(enemy, before) ==
    enemy_detected(before) /\ enemy.position = before.position
        => Class[enemy.range] <= Class[before.range]
NearerIsNearer ==
    \A m, l, r, d \in Distance :
        LET before == enemy_get(m, l, r)
        IN  /\ d < m => NotFarther(enemy_get(d, l, r), before)
            /\ d < l => NotFarther(enemy_get(m, d, r), before)
            /\ d < r => NotFarther(enemy_get(m, l, d), before)

(* The decision depends on the ranges alone.  It is examined once, for all  *)
(* ranges of Distance that the first call may come to return: the opponent  *)
(* is on one side, in a class the sensors agree with, and nearer is nearer. *)
BeforeFirstCall == pc = "idle" /\ reply = "none"
DecisionSound == BeforeFirstCall => OneSide /\ RangeBetween /\ NearerIsNearer

(* An opponent that enemy_get reports was seen by every sensor its position *)
(* names, in one and the same round, the last one delivered: from fresh     *)
(* ranges whatever transfers failed before, and until one fails also from   *)
(* the cached ranges, which it does not tell from fresh ones.               *)
Named == [LEFT |-> {Left}, MID |-> {Mid}, RIGHT |-> {Right},
          MID_LEFT |-> {Mid, Left}, MID_RIGHT |-> {Mid, Right},
          ALL |-> {Mid, Left, Right}]
EnemyFromOneRound ==
    (faults = 0 \/ reply = "fresh") /\ pc = "idle" /\ enemy_detected(EnemyNow) =>
        \A s \in Named[EnemyNow.position] :
            /\ latest[s].n = delivered[Mid]
            /\ latest[s].mm \in Range /\ latest[s].mm < RANGE_DETECT_THRESHOLD

=============================================================================
