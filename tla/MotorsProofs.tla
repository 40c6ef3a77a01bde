---------------------------- MODULE MotorsProofs ----------------------------
(***************************************************************************)
(* The motors, for every sequence of commands and duty cycles: what the    *)
(* registers ask of the wheels when a command has returned, the duty the   *)
(* bridge ever sees, and that a failed assertion stops the motors.         *)
(***************************************************************************)
EXTENDS Motors, SequenceTheorems, TLAPS

-----------------------------------------------------------------------------
(* The speeds.                                                              *)

SHARP == {ARCTURN_SHARP_LEFT, ARCTURN_SHARP_LEFT + 1}
ROTATE == {ROTATE_LEFT, ROTATE_RIGHT}
Velocities == -100 .. 100

LEMMA RoundTrip ==
    ASSUME NEW x \in Velocities
    PROVE  int8(uint8(x)) = x
BY DEF Velocities, int8, uint8

LEMMA ScaleIs ==
    ASSUME NEW duty \in 0 .. 100
    PROVE  /\ pwm_scale_duty_cycle(duty) \in 0 .. 75
           /\ duty > 0 => pwm_scale_duty_cycle(duty) > 0
           /\ \A more \in 0 .. 100 : duty > 1 /\ more >= duty + 2 =>
                 pwm_scale_duty_cycle(duty) < pwm_scale_duty_cycle(more)
BY DEF pwm_scale_duty_cycle

(* The left and the right speed of a row of the table.                      *)
Row(direction, l, r) ==
    /\ direction = FORWARD => l = r /\ l > 0
    /\ direction = ROTATE_LEFT => l < 0 /\ r = -l
    /\ direction = ARCTURN_SHARP_LEFT => l = 0 /\ r > 0
    /\ direction > ARCTURN_SHARP_LEFT => l > 1 /\ r >= l + 2

LEMMA TableIs ==
    ASSUME NEW direction \in {0, 2, 4, 6, 8}, NEW speed \in Speed
    PROVE  /\ Inner[direction][speed + 1] \in Velocities /\ Outer[speed] \in Velocities
           /\ Row(direction, Inner[direction][speed + 1], Outer[speed])
<1> USE DEF FORWARD, ROTATE_LEFT, ARCTURN_SHARP_LEFT, ARCTURN_MID_LEFT, ARCTURN_WIDE_LEFT
<1> DEFINE row == Inner[direction]
<1>1. Outer[speed] = <<25, 45, 55, 100>>[speed + 1]
  BY DEF Outer
<1>2. speed + 1 \in 1 .. 4
  BY DEF Speed
<1>3. CASE direction = 0
  <2>1. row = <<25, 45, 55, 100>>
    BY <1>3 DEF Inner
  <2> HIDE DEF row
  <2>2. row[speed + 1] \in Velocities /\ Row(direction, row[speed + 1], Outer[speed])
    BY <1>1, <1>2, <1>3, <2>1 DEF Row, Velocities
  <2> QED BY <1>1, <1>2, <2>2 DEF row, Velocities
<1>4. CASE direction = 2
  <2>1. row = <<-25, -45, -55, -100>>
    BY <1>4 DEF Inner
  <2> HIDE DEF row
  <2>2. row[speed + 1] \in Velocities /\ Row(direction, row[speed + 1], Outer[speed])
    BY <1>1, <1>2, <1>4, <2>1 DEF Row, Velocities
  <2> QED BY <1>1, <1>2, <2>2 DEF row, Velocities
<1>5. CASE direction = 4
  <2>1. row = <<0, 0, 0, 0>>
    BY <1>5 DEF Inner
  <2> HIDE DEF row
  <2>2. row[speed + 1] \in Velocities /\ Row(direction, row[speed + 1], Outer[speed])
    BY <1>1, <1>2, <1>5, <2>1 DEF Row, Velocities
  <2> QED BY <1>1, <1>2, <2>2 DEF row, Velocities
<1>6. CASE direction = 6
  <2>1. row = <<8, 15, 18, 33>>
    BY <1>6 DEF Inner
  <2> HIDE DEF row
  <2>2. row[speed + 1] \in Velocities /\ Row(direction, row[speed + 1], Outer[speed])
    BY <1>1, <1>2, <1>6, <2>1 DEF Row, Velocities
  <2> QED BY <1>1, <1>2, <2>2 DEF row, Velocities
<1>7. CASE direction = 8
  <2>1. row = <<16, 30, 36, 66>>
    BY <1>7 DEF Inner
  <2> HIDE DEF row
  <2>2. row[speed + 1] \in Velocities /\ Row(direction, row[speed + 1], Outer[speed])
    BY <1>1, <1>2, <1>7, <2>1 DEF Row, Velocities
  <2> QED BY <1>1, <1>2, <2>2 DEF row, Velocities
<1> QED BY <1>3, <1>4, <1>5, <1>6, <1>7

(* The velocity a speed of the table comes to.                              *)
Wheel(v) == IF v > 0 THEN pwm_scale_duty_cycle(v) ELSE -pwm_scale_duty_cycle(-v)

LEMMA WheelIs ==
    ASSUME NEW x \in Velocities
    PROVE  /\ Wheel(x) \in Int
           /\ x > 0 => Wheel(x) > 0 /\ Wheel(-x) = -Wheel(x)
           /\ \A y \in Velocities : x > 1 /\ y >= x + 2 => Wheel(x) < Wheel(y)
<1>1. x > 0 => x \in 0 .. 100 /\ -x =< 0 /\ -(-x) = x
  BY DEF Velocities
<1>2. ~(x > 0) => -x \in 0 .. 100
  BY DEF Velocities
<1>3. Wheel(x) \in Int
  <2>1. CASE x > 0
    <3>1. pwm_scale_duty_cycle(x) \in 0 .. 75
      BY <1>1, <2>1, ScaleIs
    <3> QED BY <2>1, <3>1 DEF Wheel
  <2>2. CASE ~(x > 0)
    <3>1. pwm_scale_duty_cycle(-x) \in 0 .. 75
      BY <1>2, <2>2, ScaleIs
    <3> QED BY <2>2, <3>1 DEF Wheel
  <2> QED BY <2>1, <2>2
<1>4. ASSUME x > 0
      PROVE  Wheel(x) > 0 /\ Wheel(-x) = -Wheel(x)
  <2>1. pwm_scale_duty_cycle(x) > 0
    BY <1>1, <1>4, ScaleIs
  <2>2. ~(-x > 0) /\ -(-x) = x
    BY <1>4 DEF Velocities
  <2>3. Wheel(x) = pwm_scale_duty_cycle(x)
    BY <1>4 DEF Wheel
  <2>4. Wheel(-x) = -pwm_scale_duty_cycle(x)
    BY <2>2 DEF Wheel
  <2> QED BY <2>1, <2>3, <2>4
<1>5. \A y \in Velocities : x > 1 /\ y >= x + 2 => Wheel(x) < Wheel(y)
  <2> SUFFICES ASSUME NEW y \in Velocities, x > 1, y >= x + 2
               PROVE  Wheel(x) < Wheel(y)
    OBVIOUS
  <2>1. x \in 0 .. 100 /\ y \in 0 .. 100 /\ x > 0 /\ y > 0
    BY DEF Velocities
  <2> QED BY <2>1, ScaleIs DEF Wheel
<1> QED BY <1>3, <1>4, <1>5

LEMMA SpeedsTurn ==
    ASSUME NEW direction \in Direction, NEW speed \in Speed
    PROVE  LET v == drive_speeds(direction, speed)
           IN  /\ \A side \in Side : v[side] \in Velocities
               /\ (v.LEFT = 0 \/ v.RIGHT = 0) <=> direction \in SHARP
               /\ direction \notin SHARP =>
                     Turns(direction, Wheel(v.LEFT), Wheel(v.RIGHT))
               /\ direction \notin SHARP \union ROTATE =>
                     \A side \in Side :
                        IF direction = REVERSE THEN v[side] < 0 ELSE v[side] > 0
<1> DEFINE primary == DRIVE_PRIMARY_DIRECTION(direction)
           l == Inner[primary][speed + 1]
           r == Outer[speed]
           u == [side \in Side |-> int8(drive_primary_speeds(primary, speed)[side])]
           v == drive_speeds(direction, speed)
<1>1. primary \in {0, 2, 4, 6, 8} /\ direction \in {primary, primary + 1}
      /\ Odd(direction) = direction - primary
  BY DEF DRIVE_PRIMARY_DIRECTION, Odd, Direction
<1>2. v = IF Odd(direction) = 1 THEN drive_inverse_speeds(u) ELSE u
  BY DEF drive_speeds
<1>3. l \in Velocities /\ r \in Velocities /\ Row(primary, l, r)
  BY <1>1, TableIs
<1>4. drive_primary_speeds(primary, speed).LEFT = uint8(l)
      /\ drive_primary_speeds(primary, speed).RIGHT = uint8(r)
  BY DEF drive_primary_speeds
<1>5. u \in [Side -> Velocities] /\ u.LEFT = l /\ u.RIGHT = r
  <2>1. int8(drive_primary_speeds(primary, speed).LEFT) = l
        /\ int8(drive_primary_speeds(primary, speed).RIGHT) = r
    BY <1>3, <1>4, RoundTrip
  <2> HIDE DEF l, r
  <2> QED BY <1>3, <2>1 DEF Side
<1> HIDE DEF primary, l, r, u, v
<1>6. /\ v["LEFT"] = IF Odd(direction) = 0 THEN l ELSE IF l = r THEN -l ELSE r
      /\ v["RIGHT"] = IF Odd(direction) = 0 THEN r ELSE IF l = r THEN -r ELSE l
  BY <1>1, <1>2, <1>5 DEF drive_inverse_speeds
<1>7. \A side \in Side : v[side] \in Velocities
  BY <1>3, <1>6 DEF Side, Velocities
<1>8. (v.LEFT = 0 \/ v.RIGHT = 0) <=> direction \in SHARP
  BY <1>1, <1>3, <1>6 DEF Row, SHARP, Velocities, FORWARD, ROTATE_LEFT, ARCTURN_SHARP_LEFT
<1>9. ASSUME direction \notin SHARP
      PROVE  Turns(direction, Wheel(v.LEFT), Wheel(v.RIGHT))
  <2>1. /\ Wheel(l) \in Int /\ Wheel(r) \in Int
        /\ l > 0 => Wheel(l) > 0 /\ Wheel(-l) = -Wheel(l)
        /\ r > 0 => Wheel(r) > 0 /\ Wheel(-r) = -Wheel(r)
        /\ l > 1 /\ r >= l + 2 => Wheel(l) < Wheel(r)
    BY <1>3, WheelIs
  <2>2. Odd(direction) \in {0, 1}
    BY <1>1
  <2>3. l \in Int /\ r \in Int
    BY <1>3 DEF Velocities
  <2> HIDE DEF Wheel
  <2> USE DEF FORWARD, REVERSE, ROTATE_LEFT, ROTATE_RIGHT, ARCTURN_SHARP_LEFT
  <2>4. CASE primary = 0
    <3>1. direction = Odd(direction) /\ l = r /\ l > 0
      BY <1>1, <1>3, <2>4 DEF Row
    <3>2. v["LEFT"] = (IF Odd(direction) = 0 THEN l ELSE -l) /\ v["RIGHT"] = v["LEFT"]
      BY <1>6, <3>1
    <3> QED BY <2>1, <2>2, <2>3, <3>1, <3>2 DEF Turns
  <2>5. CASE primary = 2
    <3>1. direction = 2 + Odd(direction) /\ r = -l /\ l < 0 /\ l = -r /\ r > 0 /\ l # r
      BY <1>1, <1>3, <2>3, <2>5 DEF Row
    <3>2. /\ v["LEFT"] = IF Odd(direction) = 0 THEN l ELSE r
          /\ v["RIGHT"] = IF Odd(direction) = 0 THEN r ELSE l
      BY <1>6, <3>1
    <3>3. Wheel(r) > 0 /\ Wheel(l) = -Wheel(r)
      BY <2>1, <3>1
    <3> QED BY <2>1, <2>2, <2>3, <3>1, <3>2, <3>3 DEF Turns
  <2>6. CASE primary \in {6, 8}
    <3>1. direction >= 6 /\ direction \in Int /\ l > 1 /\ r >= l + 2 /\ l # r
      BY <1>1, <1>3, <2>3, <2>6 DEF Row, Direction
    <3>2. /\ v["LEFT"] = IF Odd(direction) = 0 THEN l ELSE r
          /\ v["RIGHT"] = IF Odd(direction) = 0 THEN r ELSE l
      BY <1>6, <3>1
    <3>3. 0 <= Wheel(l) /\ Wheel(l) < Wheel(r)
      BY <2>1, <2>3, <3>1
    <3> QED BY <2>1, <2>2, <3>1, <3>2, <3>3 DEF Turns
  <2>7. primary # 4
    BY <1>1, <1>9 DEF SHARP
  <2> QED BY <1>1, <2>4, <2>5, <2>6, <2>7
<1>10. ASSUME direction \notin SHARP \union ROTATE, NEW side \in Side
       PROVE  IF direction = REVERSE THEN v[side] < 0 ELSE v[side] > 0
  <2>1. primary \notin {2, 4}
    BY <1>1, <1>10 DEF SHARP, ROTATE, ARCTURN_SHARP_LEFT, ROTATE_LEFT, ROTATE_RIGHT
  <2>2. /\ primary = 0 => l = r /\ l > 0
        /\ primary \in {6, 8} => l > 1 /\ r > 1 /\ l # r
    BY <1>3 DEF Row, Velocities, FORWARD, ROTATE_LEFT, ARCTURN_SHARP_LEFT
  <2>3. direction = REVERSE <=> primary = 0 /\ Odd(direction) = 1
    BY <1>1 DEF REVERSE
  <2>4. side = "LEFT" \/ side = "RIGHT"
    BY DEF Side
  <2> QED BY <1>1, <1>3, <1>6, <2>1, <2>2, <2>3, <2>4 DEF Velocities
<1> QED BY <1>7, <1>8, <1>9, <1>10 DEF v

-----------------------------------------------------------------------------
(* The writes of a call.                                                    *)

Lowered == {26, 21, 22, 24, 25, 35, 36}
OutWrite == [op : {"out"}, pin : 22 .. 25, level : BOOLEAN]
LowWrite == [op : {"gpio_low"}, pin : Lowered]
PwmWrite == [op : {"pwm"}, side : Side, duty : 0 .. 100]
Write1 == OutWrite \union LowWrite \union PwmWrite

(* The writes that are left.                                                *)
Pending == Range(todo)

LEMMA WriteTypes ==
    ASSUME NEW w \in Write1
    PROVE  /\ w.op \in {"out", "gpio_low", "pwm"}
           /\ w.op = "out" => w \in OutWrite /\ w.pin \in 22 .. 25 /\ w.level \in BOOLEAN
           /\ w.op = "gpio_low" => w \in LowWrite /\ w.pin \in Lowered
           /\ w.op = "pwm" => w \in PwmWrite /\ w.side \in Side /\ w.duty \in 0 .. 100
<1> HIDE DEF Lowered, Side
<1> QED BY DEF Write1, OutWrite, LowWrite, PwmWrite

LEMMA Emptied ==
    ASSUME NEW U, NEW s \in Seq(U)
    PROVE  s = <<>> <=> Range(s) = {}
<1>1. s = <<>> => Range(s) = {}
  BY DEF Range
<1>2. s # <<>> => s[1] \in Range(s)
  BY DEF Range
<1> QED BY <1>1, <1>2

LEMMA HeadAndTail ==
    ASSUME NEW U, NEW s \in Seq(U), s # <<>>
    PROVE  /\ Head(s) \in U /\ Tail(s) \in Seq(U)
           /\ Range(s) = {Head(s)} \union Range(Tail(s))
<1>1. /\ Head(s) \in U /\ Tail(s) \in Seq(U)
      /\ Len(Tail(s)) = Len(s) - 1 /\ \A i \in 1 .. Len(Tail(s)) : Tail(s)[i] = s[i + 1]
  BY HeadTailProperties
<1>2. Range(s) = {s[i] : i \in 1 .. Len(s)} /\ Range(Tail(s)) = {Tail(s)[i] : i \in 1 .. Len(Tail(s))}
  BY <1>1, RangeEquality
<1>3. Len(s) \in Nat /\ Len(s) >= 1 /\ Head(s) = s[1]
  OBVIOUS
<1>4. Range(s) \subseteq {Head(s)} \union Range(Tail(s))
  <2> SUFFICES ASSUME NEW i \in 1 .. Len(s) PROVE s[i] \in {Head(s)} \union Range(Tail(s))
    BY <1>2
  <2>1. CASE i = 1
    BY <1>3, <2>1
  <2>2. CASE i # 1
    <3>1. i - 1 \in 1 .. Len(Tail(s)) /\ s[i] = Tail(s)[i - 1]
      BY <1>1, <1>3, <2>2
    <3> QED BY <1>2, <3>1
  <2> QED BY <2>1, <2>2
<1>5. {Head(s)} \union Range(Tail(s)) \subseteq Range(s)
  BY <1>1, <1>2, <1>3
<1> QED BY <1>1, <1>4, <1>5

(* A single write, and calls in a row.                                      *)
LEMMA Single ==
    ASSUME NEW w \in Write1
    PROVE  <<w>> \in Seq(Write1) /\ Range(<<w>>) = {w}
BY DEF Range

LEMMA InARow ==
    ASSUME NEW s \in Seq(Write1), NEW t \in Seq(Write1)
    PROVE  s \o t \in Seq(Write1) /\ Range(s \o t) = Range(s) \union Range(t)
BY ConcatProperties, RangeConcatenation

LEMMA ModeWrites ==
    ASSUME board \in Boards, NEW tb \in Side, NEW mode \in Mode
    PROVE  LET s == tb6612fng_set_mode(tb, mode)
           IN  /\ s \in Seq(Write1)
               /\ Range(s) = {[op |-> "out", pin |-> cc1(tb), level |-> mode = "FORWARD"],
                              [op |-> "out", pin |-> cc2(tb), level |-> mode = "REVERSE"]}
               /\ \A x \in Range(s) : x.op = "out"
<1> DEFINE a == [op |-> "out", pin |-> cc1(tb), level |-> mode = "FORWARD"]
           b == [op |-> "out", pin |-> cc2(tb), level |-> mode = "REVERSE"]
<1>1. cc1(tb) \in 22 .. 25 /\ cc2(tb) \in 22 .. 25
  BY DEF cc1, cc2
<1>2. a \in Write1 /\ b \in Write1
  BY <1>1 DEF Write1, OutWrite
<1>3. tb6612fng_set_mode(tb, mode) = <<a>> \o <<b>>
  BY DEF tb6612fng_set_mode, Out
<1> HIDE DEF a, b
<1>4. /\ <<a>> \in Seq(Write1) /\ Range(<<a>>) = {a}
      /\ <<b>> \in Seq(Write1) /\ Range(<<b>>) = {b}
  BY <1>2, Single
<1>5. <<a>> \o <<b>> \in Seq(Write1) /\ Range(<<a>> \o <<b>>) = {a, b}
  <2>1. /\ <<a>> \o <<b>> \in Seq(Write1)
        /\ Range(<<a>> \o <<b>>) = Range(<<a>>) \union Range(<<b>>)
    BY <1>4, InARow
  <2> QED BY <1>4, <2>1
<1>6. a.op = "out" /\ b.op = "out"
  BY DEF a, b
<1>7. \A x \in Range(<<a>> \o <<b>>) : x.op = "out"
  BY <1>5, <1>6
<1> QED BY <1>3, <1>5, <1>7 DEF a, b

LEMMA StopMode ==
    ASSUME board \in Boards, NEW tb \in Side
    PROVE  LET s == tb6612fng_set_mode(tb, "STOP")
           IN  /\ s \in Seq(Write1)
               /\ \A x \in Range(s) : x.op = "out" /\ x.level = FALSE
               /\ \E x \in Range(s) : x.op = "out" /\ x.pin = cc1(tb)
               /\ \E x \in Range(s) : x.op = "out" /\ x.pin = cc2(tb)
<1> DEFINE a == [op |-> "out", pin |-> cc1(tb), level |-> "STOP" = "FORWARD"]
           b == [op |-> "out", pin |-> cc2(tb), level |-> "STOP" = "REVERSE"]
           s == tb6612fng_set_mode(tb, "STOP")
<1>1. "STOP" \in Mode
  BY DEF Mode
<1>2. s \in Seq(Write1) /\ Range(s) = {a, b}
  BY <1>1, ModeWrites
<1>3. /\ a.op = "out" /\ a.pin = cc1(tb) /\ a.level = FALSE
      /\ b.op = "out" /\ b.pin = cc2(tb) /\ b.level = FALSE
  OBVIOUS
<1> HIDE DEF a, b, s
<1>4. a \in Range(s) /\ b \in Range(s) /\ \A x \in Range(s) : x = a \/ x = b
  BY <1>2
<1>5. \A x \in Range(s) : x.op = "out" /\ x.level = FALSE
  BY <1>3, <1>4
<1> QED BY <1>2, <1>3, <1>4, <1>5 DEF s

LEMMA PwmWrites ==
    ASSUME NEW tb \in Side, NEW duty \in 0 .. 100
    PROVE  LET s == tb6612fng_set_pwm(tb, duty)
           IN  /\ s \in Seq(Write1)
               /\ Range(s) = IF board = "LAUNCHPAD" /\ tb = "RIGHT" THEN {}
                             ELSE {[op |-> "pwm", side |-> tb, duty |-> duty]}
               /\ \A x \in Range(s) : x.op = "pwm"
<1>1. <<>> \in Seq(Write1) /\ Range(<<>>) = {}
  BY DEF Range
<1>2. [op |-> "pwm", side |-> tb, duty |-> duty] \in Write1
  BY DEF Write1, PwmWrite
<1>3. SetDuty(tb, duty) \in Seq(Write1)
      /\ Range(SetDuty(tb, duty)) = {[op |-> "pwm", side |-> tb, duty |-> duty]}
  BY <1>2, Single DEF SetDuty
<1>4. \A x \in Range(SetDuty(tb, duty)) : x.op = "pwm"
  BY <1>3
<1> QED BY <1>1, <1>3, <1>4 DEF tb6612fng_set_pwm

LEMMA StopWrites ==
    /\ assert_stop_motors \in Seq(Write1)
    /\ Range(assert_stop_motors) = {[op |-> "gpio_low", pin |-> p] : p \in Lowered}
<1> DEFINE w(p) == [op |-> "gpio_low", pin |-> p]
<1>1. \A p \in Lowered : w(p) \in Write1
  <2> HIDE DEF Lowered
  <2> QED BY DEF Write1, LowWrite
<1>2. \A p \in Lowered : GpioOutputLow(p) \in Seq(Write1) /\ Range(GpioOutputLow(p)) = {w(p)}
  BY <1>1, Single DEF GpioOutputLow
<1> HIDE DEF w
<1> DEFINE g(p) == GpioOutputLow(p)
           s2 == g(26) \o g(21)
           s3 == s2 \o g(22)
           s4 == s3 \o g(24)
           s5 == s4 \o g(25)
           s6 == s5 \o g(35)
           s7 == s6 \o g(36)
<1>3. assert_stop_motors = s7
  BY DEF assert_stop_motors
<1>4. \A p \in Lowered : g(p) \in Seq(Write1) /\ Range(g(p)) = {w(p)}
  BY <1>2
<1> HIDE DEF g
<1>a. 26 \in Lowered /\ 21 \in Lowered /\ 22 \in Lowered /\ 24 \in Lowered /\ 25 \in Lowered
      /\ 35 \in Lowered /\ 36 \in Lowered
  BY DEF Lowered
<1> HIDE DEF s2, s3, s4, s5, s6, s7
<1>5. s2 \in Seq(Write1) /\ Range(s2) = {w(26)} \union {w(21)}
  <2>1. /\ g(26) \in Seq(Write1) /\ Range(g(26)) = {w(26)}
        /\ g(21) \in Seq(Write1) /\ Range(g(21)) = {w(21)}
    BY <1>4, <1>a
  <2>2. s2 \in Seq(Write1) /\ Range(s2) = Range(g(26)) \union Range(g(21))
    BY <2>1, InARow DEF s2
  <2> QED BY <2>1, <2>2
<1>6. s3 \in Seq(Write1) /\ Range(s3) = Range(s2) \union {w(22)}
  BY <1>4, <1>5, <1>a, InARow DEF s3
<1>7. s4 \in Seq(Write1) /\ Range(s4) = Range(s3) \union {w(24)}
  BY <1>4, <1>6, <1>a, InARow DEF s4
<1>8. s5 \in Seq(Write1) /\ Range(s5) = Range(s4) \union {w(25)}
  BY <1>4, <1>7, <1>a, InARow DEF s5
<1>9. s6 \in Seq(Write1) /\ Range(s6) = Range(s5) \union {w(35)}
  BY <1>4, <1>8, <1>a, InARow DEF s6
<1>10. s7 \in Seq(Write1) /\ Range(s7) = Range(s6) \union {w(36)}
  BY <1>4, <1>9, <1>a, InARow DEF s7
<1>11. Range(s7) = {w(p) : p \in Lowered}
  BY <1>5, <1>6, <1>7, <1>8, <1>9, <1>10 DEF Lowered
<1> QED BY <1>3, <1>10, <1>11 DEF w

-----------------------------------------------------------------------------
(* What holds between the writes.                                           *)

(* The last command, as long as it is one that says what the wheels do: a   *)
(* stop, or a drive_set, which on the LAUNCHPAD, where both sides write one *)
(* motor's pins, has to ask the same sense of both.                         *)
Followed ==
    /\ ~asserted
    /\ \/ want[1] = "stop"
       \/ want[1] = "set" /\ (board = "JR" \/ want[2] \notin ROTATE)
Asked(side) == drive_speeds(want[2], want[3])[side]
Ahead(side) == want[1] = "set" /\ Asked(side) > 0
Back(side) == want[1] = "set" /\ ~(Asked(side) > 0)

(* Of each register it writes, the command has written what it means to or  *)
(* is still going to, and nothing that is left to write says otherwise.     *)
Levels(p, level) ==
    /\ (out[p] <=> level) \/ \E w \in Pending : w.op = "out" /\ w.pin = p
    /\ \A w \in Pending : w.op = "out" /\ w.pin = p => (w.level <=> level)
Duty(side, duty) ==
    /\ \/ enabled[side] /\ ccr[side] = pwm_scale_duty_cycle(duty)
       \/ \E w \in Pending : w.op = "pwm" /\ w.side = side
    /\ \A w \in Pending : w.op = "pwm" /\ w.side = side => w.duty = duty
FollowInv ==
    Followed => \A m \in Motor :
        /\ Levels(cc1(m), Ahead(m)) /\ Levels(cc2(m), Back(m))
        /\ want[1] = "set" => Duty(m, Abs(Asked(m)))

(* The timer has the PWM pins until the assert handler takes them, and a    *)
(* pin it has taken is low, but for the one it toggles.                     *)
PinInv ==
    /\ \A w \in Pending : w.op = "gpio_low" <=> asserted
    /\ \A m \in Motor : PwmPin(m) \in timer_pin \/ asserted
    /\ asserted => \A p \in Lowered :
          \/ p \notin timer_pin /\ (~out[p] \/ (p = 26 /\ todo = <<>>))
          \/ \E w \in Pending : w.pin = p
    /\ \A m \in Motor :
          \/ PwmPin(m) \in timer_pin \/ ~out[PwmPin(m)]
          \/ PwmPin(m) = 26 /\ todo = <<>>

DutyInv ==
    /\ \A side \in Side : ccr[side] =< 75
    /\ \A m \in Motor : enabled[m] => running /\ ccr[m] > 0

(* drive_set asserts that both speeds of the table differ from 0            *)
(* (drive.c:77), so a command that was not refused is no sharp turn.        *)
SharpTurnsHalt == want[1] = "set" => want[2] \notin SHARP

IInv ==
    /\ TypeOK /\ todo \in Seq(Write1)
    /\ FollowInv /\ PinInv /\ DutyInv /\ SharpTurnsHalt

LEMMA PinsOf ==
    ASSUME board \in Boards
    PROVE  /\ \A side \in Side : cc1(side) \in 22 .. 25 /\ cc2(side) \in 22 .. 25
           /\ \A side \in Side : PwmPin(side) \in {20, 21, 26}
           /\ \A m, n \in Motor : cc1(m) # cc2(n) /\ (m # n => cc1(m) # cc1(n) /\ cc2(m) # cc2(n))
           /\ Motor \subseteq Side /\ (board = "JR" => Motor = Side)
           /\ board = "LAUNCHPAD" => Motor = {"LEFT"}
           /\ \A p \in Lowered : p \in Pin
<1>1. board \in {"LAUNCHPAD", "JR"}
  BY BoardAssumption
<1> QED BY <1>1 DEF cc1, cc2, PwmPin, Motor, Side, Lowered, Pin

LEMMA BoardFixed ==
    ASSUME board' = board
    PROVE  /\ \A side : cc1(side)' = cc1(side) /\ cc2(side)' = cc2(side)
           /\ \A side : PwmPin(side)' = PwmPin(side)
           /\ Motor' = Motor
BY DEF cc1, cc2, PwmPin, Motor

LEMMA WantFixed ==
    ASSUME want' = want
    PROVE  \A side : Asked(side)' = Asked(side) /\ Ahead(side)' = Ahead(side) /\ Back(side)' = Back(side)
BY DEF Asked, Ahead, Back

LEMMA AskedIs ==
    ASSUME IInv, want[1] = "set"
    PROVE  \A side \in Side : Asked(side) \in Velocities /\ Asked(side) # 0
<1>1. want[2] \in Direction /\ want[3] \in Speed
  BY DEF IInv, TypeOK
<1>2. want[2] \notin SHARP
  BY DEF IInv, SharpTurnsHalt, SHARP
<1>3. \A side \in Side : drive_speeds(want[2], want[3])[side] \in Velocities
  BY <1>1, SpeedsTurn
<1>4. drive_speeds(want[2], want[3])["LEFT"] # 0 /\ drive_speeds(want[2], want[3])["RIGHT"] # 0
  BY <1>1, <1>2, SpeedsTurn
<1> HIDE DEF drive_speeds
<1> QED BY <1>3, <1>4 DEF Asked, Side

(* A write, whatever it is.                                                 *)
LEMMA WriteIs ==
    ASSUME IInv, Write
    PROVE  \E w \in Pending :
              /\ w \in Write1 /\ Apply(w) /\ Pending = {w} \union Pending'
              /\ todo # <<>> /\ todo' \in Seq(Write1)
              /\ UNCHANGED <<board, asserted, want>>
              /\ \A x \in Pending : x \in Write1
<1>1. todo \in Seq(Write1) /\ todo # <<>> /\ todo' = Tail(todo) /\ Apply(Head(todo))
      /\ UNCHANGED <<board, asserted, want>>
  BY DEF IInv, Write
<1>2. /\ Head(todo) \in Write1 /\ Tail(todo) \in Seq(Write1)
      /\ Range(todo) = {Head(todo)} \union Range(Tail(todo))
  BY <1>1, HeadAndTail
<1>3. Range(todo) \subseteq Write1
  BY <1>1, RangeOfSeq
<1> QED BY <1>1, <1>2, <1>3 DEF Pending

LEMMA WriteStep ==
    ASSUME IInv, Write
    PROVE  IInv'
<1>1. PICK w \in Pending :
          /\ w \in Write1 /\ Apply(w) /\ Pending = {w} \union Pending'
          /\ todo # <<>> /\ todo' \in Seq(Write1)
          /\ UNCHANGED <<board, asserted, want>>
          /\ \A x \in Pending : x \in Write1
  BY WriteIs
<1>2. /\ board \in Boards /\ out \in [Pin -> BOOLEAN] /\ timer_pin \subseteq Pin
      /\ enabled \in [Side -> BOOLEAN] /\ ccr \in [Side -> 0 .. 100]
      /\ running \in BOOLEAN /\ asserted \in BOOLEAN
  BY DEF IInv, TypeOK
<1>3. /\ w.op \in {"out", "gpio_low", "pwm"}
      /\ w.op = "out" => w.pin \in 22 .. 25 /\ w.level \in BOOLEAN
      /\ w.op = "gpio_low" => w.pin \in Lowered
      /\ w.op = "pwm" => w.side \in Side /\ w.duty \in 0 .. 100
  BY <1>1, WriteTypes
<1>4. 22 .. 25 \subseteq Pin /\ Lowered \subseteq Pin /\ 26 \notin 22 .. 25
  BY DEF Pin, Lowered
<1>5. \A duty \in 0 .. 100 : pwm_scale_duty_cycle(duty) \in 0 .. 75
                             /\ (duty > 0 => pwm_scale_duty_cycle(duty) > 0)
  BY ScaleIs
<1> HIDE DEF Pin, Side, Lowered, pwm_scale_duty_cycle, Pending
<1>6. /\ \A x \in Pending : x.op = "gpio_low" <=> asserted
      /\ \A m \in Motor : PwmPin(m) \in timer_pin \/ asserted
      /\ asserted => \A p \in Lowered :
            (p \notin timer_pin /\ ~out[p]) \/ \E x \in Pending : x.pin = p
      /\ \A m \in Motor : PwmPin(m) \in timer_pin \/ ~out[PwmPin(m)]
  BY <1>1 DEF IInv, PinInv
<1>7. /\ \A side \in Side : ccr[side] =< 75
      /\ \A m \in Motor : enabled[m] => running /\ ccr[m] > 0
  BY DEF IInv, DutyInv
<1>8. /\ \A side \in Side : cc1(side) \in 22 .. 25 /\ cc2(side) \in 22 .. 25
      /\ Motor \subseteq Side /\ \A side \in Side : PwmPin(side) \in Pin /\ PwmPin(side) \notin 22 .. 25
  <2>1. 20 \in Pin /\ 21 \in Pin /\ 26 \in Pin
    BY DEF Pin
  <2> QED BY <1>2, <2>1, PinsOf
<1>9. Pending' \subseteq Pending /\ \A x \in Pending : x = w \/ x \in Pending'
  BY <1>1
<1>10. SharpTurnsHalt'
  BY <1>1 DEF IInv, SharpTurnsHalt
<1>11. CASE w.op = "out"
  <2>1. out' = [out EXCEPT ![w.pin] = w.level] /\ UNCHANGED <<timer_pin, enabled, ccr, running>>
    BY <1>11, <1>1 DEF Apply, pwm
  <2>2. ~asserted
    BY <1>6, <1>11
  <2>3. out' \in [Pin -> BOOLEAN] /\ out'[w.pin] = w.level
        /\ \A p \in Pin : p # w.pin => out'[p] = out[p]
    BY <1>2, <1>3, <1>4, <1>11, <2>1
  <2>4. TypeOK'
    BY <1>1, <2>1, <2>3 DEF IInv, TypeOK
  <2>5. FollowInv'
    <3> SUFFICES ASSUME Followed', NEW m \in Motor
                 PROVE  /\ Levels(cc1(m), Ahead(m))' /\ Levels(cc2(m), Back(m))'
                        /\ want[1] = "set" => Duty(m, Abs(Asked(m)))'
      BY <1>1, BoardFixed DEF FollowInv
    <3>1. /\ Levels(cc1(m), Ahead(m)) /\ Levels(cc2(m), Back(m))
          /\ want[1] = "set" => Duty(m, Abs(Asked(m)))
      BY <1>1 DEF IInv, FollowInv, Followed
    <3>2. ASSUME NEW p \in 22 .. 25, NEW level \in BOOLEAN, Levels(p, level)
          PROVE  /\ (out'[p] <=> level) \/ \E x \in Pending' : x.op = "out" /\ x.pin = p
                 /\ \A x \in Pending' : x.op = "out" /\ x.pin = p => (x.level <=> level)
      <4>1. \A x \in Pending' : x.op = "out" /\ x.pin = p => (x.level <=> level)
        BY <1>9, <3>2 DEF Levels
      <4>2. (out'[p] <=> level) \/ \E x \in Pending' : x.op = "out" /\ x.pin = p
        <5>1. CASE w.pin = p
          BY <1>11, <2>3, <3>2, <5>1 DEF Levels
        <5>2. CASE w.pin # p
          BY <1>4, <1>9, <2>3, <3>2, <5>2 DEF Levels
        <5> QED BY <5>1, <5>2
      <4> QED BY <4>1, <4>2
    <3>3. Levels(cc1(m), Ahead(m))'
      <4>1. cc1(m) \in 22 .. 25 /\ Ahead(m) \in BOOLEAN
        BY <1>8 DEF Ahead
      <4>2. /\ \/ out'[cc1(m)] <=> Ahead(m)
               \/ \E x \in Pending' : x.op = "out" /\ x.pin = cc1(m)
            /\ \A x \in Pending' : x.op = "out" /\ x.pin = cc1(m) => (x.level <=> Ahead(m))
        BY <3>1, <3>2, <4>1
      <4>3. cc1(m)' = cc1(m) /\ Ahead(m)' = Ahead(m)
        BY <1>1, BoardFixed, WantFixed
      <4> QED BY <4>2, <4>3 DEF Levels
    <3>4. Levels(cc2(m), Back(m))'
      <4>1. cc2(m) \in 22 .. 25 /\ Back(m) \in BOOLEAN
        BY <1>8 DEF Back
      <4>2. /\ \/ out'[cc2(m)] <=> Back(m)
               \/ \E x \in Pending' : x.op = "out" /\ x.pin = cc2(m)
            /\ \A x \in Pending' : x.op = "out" /\ x.pin = cc2(m) => (x.level <=> Back(m))
        BY <3>1, <3>2, <4>1
      <4>3. cc2(m)' = cc2(m) /\ Back(m)' = Back(m)
        BY <1>1, BoardFixed, WantFixed
      <4> QED BY <4>2, <4>3 DEF Levels
    <3>5. want[1] = "set" => Duty(m, Abs(Asked(m)))'
      BY <1>1, <1>9, <1>11, <2>1, <3>1, WantFixed DEF Duty, Abs
    <3> QED BY <3>3, <3>4, <3>5
  <2>6. PinInv'
    BY <1>1, <1>6, <1>8, <1>9, <1>3, <1>11, <2>1, <2>2, <2>3, BoardFixed DEF PinInv
  <2>7. DutyInv'
    BY <1>1, <1>7, <2>1, BoardFixed DEF DutyInv
  <2> QED BY <1>1, <1>10, <2>4, <2>5, <2>6, <2>7 DEF IInv
<1>12. CASE w.op = "gpio_low"
  <2>1. out' = [out EXCEPT ![w.pin] = FALSE] /\ timer_pin' = timer_pin \ {w.pin}
        /\ UNCHANGED <<enabled, ccr, running>>
    BY <1>12, <1>1 DEF Apply, pwm
  <2>2. asserted
    BY <1>6, <1>12
  <2>3. out' \in [Pin -> BOOLEAN] /\ ~out'[w.pin]
        /\ \A p \in Pin : p # w.pin => out'[p] = out[p]
    BY <1>2, <1>3, <1>4, <1>12, <2>1
  <2>4. TypeOK'
    BY <1>1, <1>2, <2>1, <2>3 DEF IInv, TypeOK
  <2>5. FollowInv'
    BY <1>1, <2>2 DEF FollowInv, Followed
  <2>6. \A p \in Lowered :
            (p \notin timer_pin' /\ ~out'[p]) \/ \E x \in Pending' : x.pin = p
    <3> SUFFICES ASSUME NEW p \in Lowered
                 PROVE  (p \notin timer_pin' /\ ~out'[p]) \/ \E x \in Pending' : x.pin = p
      OBVIOUS
    <3>1. CASE p = w.pin
      BY <2>1, <2>3, <3>1
    <3>2. CASE p # w.pin
      BY <1>4, <1>6, <1>9, <2>1, <2>2, <2>3, <3>2
    <3> QED BY <3>1, <3>2
  <2>7. \A m \in Motor : PwmPin(m) \in timer_pin' \/ ~out'[PwmPin(m)]
    <3> SUFFICES ASSUME NEW m \in Motor
                 PROVE  PwmPin(m) \in timer_pin' \/ ~out'[PwmPin(m)]
      OBVIOUS
    <3>1. PwmPin(m) \in Pin
      BY <1>8
    <3> QED BY <1>6, <2>1, <2>3, <3>1
  <2>8. PinInv'
    BY <1>1, <1>6, <1>9, <2>2, <2>6, <2>7, BoardFixed DEF PinInv
  <2>9. DutyInv'
    BY <1>1, <1>7, <2>1, BoardFixed DEF DutyInv
  <2> QED BY <1>1, <1>10, <2>4, <2>5, <2>8, <2>9 DEF IInv
<1>13. CASE w.op = "pwm"
  <2>1. /\ ccr' = IF w.duty > 0
                 THEN [ccr EXCEPT ![w.side] = pwm_scale_duty_cycle(w.duty)]
                 ELSE ccr
        /\ enabled' = [enabled EXCEPT ![w.side] = w.duty > 0]
        /\ running' = (running \/ (w.duty > 0 /\ ~enabled[w.side]))
        /\ UNCHANGED <<out, timer_pin>>
    BY <1>13, <1>1 DEF Apply, pins
  <2>2. ~asserted /\ w.side \in Side /\ w.duty \in 0 .. 100
    BY <1>3, <1>6, <1>13
  <2>3. /\ ccr' \in [Side -> 0 .. 100] /\ enabled' \in [Side -> BOOLEAN] /\ running' \in BOOLEAN
        /\ enabled'[w.side] <=> w.duty > 0
        /\ w.duty > 0 => ccr'[w.side] = pwm_scale_duty_cycle(w.duty)
        /\ w.duty > 0 => running' \/ (enabled[w.side] /\ running' = running)
        /\ \A side \in Side : side # w.side \/ w.duty = 0 => ccr'[side] = ccr[side]
        /\ \A side \in Side : side # w.side => enabled'[side] = enabled[side]
        /\ running => running'
    <3>1. pwm_scale_duty_cycle(w.duty) \in 0 .. 100
      BY <1>5, <2>2
    <3>2. ccr' \in [Side -> 0 .. 100] /\ enabled' \in [Side -> BOOLEAN] /\ running' \in BOOLEAN
      BY <1>2, <2>1, <2>2, <3>1
    <3>3. (enabled'[w.side] <=> w.duty > 0)
          /\ \A side \in Side : side # w.side => enabled'[side] = enabled[side]
      BY <1>2, <2>1, <2>2
    <3>4. w.duty > 0 => ccr'[w.side] = pwm_scale_duty_cycle(w.duty)
      BY <1>2, <2>1, <2>2
    <3>5. \A side \in Side : side # w.side \/ w.duty = 0 => ccr'[side] = ccr[side]
      BY <1>2, <2>1, <2>2
    <3>6. /\ w.duty > 0 => running' \/ (enabled[w.side] /\ running' = running)
          /\ running => running'
      BY <1>2, <2>1, <2>2
    <3> QED BY <3>2, <3>3, <3>4, <3>5, <3>6
  <2>4. TypeOK'
    BY <1>1, <2>1, <2>3 DEF IInv, TypeOK
  <2>5. FollowInv'
    <3> SUFFICES ASSUME Followed', NEW m \in Motor
                 PROVE  /\ Levels(cc1(m), Ahead(m))' /\ Levels(cc2(m), Back(m))'
                        /\ want[1] = "set" => Duty(m, Abs(Asked(m)))'
      BY <1>1, BoardFixed DEF FollowInv
    <3>1. /\ Levels(cc1(m), Ahead(m)) /\ Levels(cc2(m), Back(m))
          /\ want[1] = "set" => Duty(m, Abs(Asked(m)))
      BY <1>1 DEF IInv, FollowInv, Followed
    <3>2. Levels(cc1(m), Ahead(m))'
      BY <1>1, <1>9, <1>13, <2>1, <3>1, BoardFixed, WantFixed DEF Levels
    <3>3. Levels(cc2(m), Back(m))'
      BY <1>1, <1>9, <1>13, <2>1, <3>1, BoardFixed, WantFixed DEF Levels
    <3>4. ASSUME want[1] = "set"
          PROVE  Duty(m, Abs(Asked(m)))'
      <4>1. Asked(m) \in Velocities /\ Asked(m) # 0
        BY <1>8, <3>4, AskedIs
      <4>2. Abs(Asked(m)) \in 1 .. 100
        BY <4>1 DEF Abs, Velocities
      <4> DEFINE d == Abs(Asked(m))
      <4>3. Duty(m, d)
        BY <3>1, <3>4
      <4> HIDE DEF d
      <4>4. \A x \in Pending' : x.op = "pwm" /\ x.side = m => x.duty = d
        BY <1>9, <4>3 DEF Duty
      <4>5. \/ enabled'[m] /\ ccr'[m] = pwm_scale_duty_cycle(d)
            \/ \E x \in Pending' : x.op = "pwm" /\ x.side = m
        <5>1. CASE w.side = m
          <6>1. w.duty = d
            BY <1>13, <4>3, <5>1 DEF Duty
          <6> QED BY <2>3, <4>2, <5>1, <6>1 DEF d
        <5>2. CASE w.side # m
          BY <1>8, <1>9, <2>3, <4>3, <5>2 DEF Duty
        <5> QED BY <5>1, <5>2
      <4>6. Abs(Asked(m))' = d
        BY <1>1, WantFixed DEF d, Abs
      <4> QED BY <4>4, <4>5, <4>6 DEF Duty
    <3> QED BY <3>2, <3>3, <3>4
  <2>6. PinInv'
    BY <1>1, <1>6, <1>9, <2>1, <2>2, BoardFixed DEF PinInv
  <2>7. \A side \in Side : ccr'[side] =< 75
    <3> SUFFICES ASSUME NEW side \in Side PROVE ccr'[side] =< 75
      OBVIOUS
    <3>1. CASE side = w.side /\ w.duty > 0
      BY <1>5, <2>2, <2>3, <3>1
    <3>2. CASE ~(side = w.side /\ w.duty > 0)
      BY <1>7, <2>2, <2>3, <3>2
    <3> QED BY <3>1, <3>2
  <2>8. \A m \in Motor : enabled'[m] => running' /\ ccr'[m] > 0
    <3> SUFFICES ASSUME NEW m \in Motor, enabled'[m] PROVE running' /\ ccr'[m] > 0
      OBVIOUS
    <3>1. CASE m = w.side
      BY <1>5, <1>7, <2>2, <2>3, <3>1
    <3>2. CASE m # w.side
      BY <1>7, <1>8, <2>3, <3>2
    <3> QED BY <3>1, <3>2
  <2> QED BY <1>1, <1>10, <2>4, <2>5, <2>6, <2>7, <2>8, BoardFixed DEF IInv, DutyInv
<1> QED BY <1>3, <1>11, <1>12, <1>13

-----------------------------------------------------------------------------
(* The calls.                                                               *)

Wants == {"set", "stop", "other", "refused"} \X Direction \X Speed

LEMMA WantIs ==
    ASSUME NEW what \in {"set", "stop", "other", "refused"},
           NEW direction \in Direction, NEW speed \in Speed
    PROVE  /\ <<what, direction, speed>> \in Wants
           /\ <<what, direction, speed>>[1] = what
           /\ <<what, direction, speed>>[2] = direction
           /\ <<what, direction, speed>>[3] = speed
BY DEF Wants

LEMMA CommandStep ==
    ASSUME IInv, NEW program \in Seq(Write1), NEW c \in Wants, Command(program, c),
           \A x \in Range(program) : x.op # "gpio_low",
           FollowInv', SharpTurnsHalt'
    PROVE  IInv'
<1>1. /\ UNCHANGED <<board, out, timer_pin, enabled, ccr, running, asserted>> /\ ~asserted
      /\ todo' = program /\ want' = c /\ Pending' = Range(program)
  BY DEF Command, Idle, pins, pwm, Pending
<1>2. TypeOK'
  BY <1>1 DEF IInv, TypeOK, Wants
<1>3. PinInv'
  BY <1>1, BoardFixed DEF IInv, PinInv
<1>4. DutyInv'
  BY <1>1, BoardFixed DEF IInv, DutyInv
<1> QED BY <1>1, <1>2, <1>3, <1>4 DEF IInv

LEMMA AssertStep ==
    ASSUME IInv, NEW c \in Wants, Assert(c), SharpTurnsHalt'
    PROVE  IInv'
<1>1. /\ UNCHANGED <<board, out, timer_pin, enabled, ccr, running>>
      /\ ~asserted /\ asserted' = TRUE /\ todo' = assert_stop_motors /\ want' = c
  BY DEF Assert, Idle, pins, pwm
<1>2. todo' \in Seq(Write1) /\ Pending' = {[op |-> "gpio_low", pin |-> p] : p \in Lowered}
  BY <1>1, StopWrites DEF Pending
<1>3. TypeOK'
  BY <1>1 DEF IInv, TypeOK, Wants
<1>4. FollowInv'
  BY <1>1 DEF FollowInv, Followed
<1>5. PinInv'
  <2>1. \A m \in Motor : PwmPin(m) \in timer_pin
    BY <1>1 DEF IInv, PinInv
  <2>2. /\ \A x \in Pending' : x.op = "gpio_low"
        /\ \A p \in Lowered : \E x \in Pending' : x.pin = p
    <3> HIDE DEF Lowered
    <3>1. \A x \in Pending' : x.op = "gpio_low"
      BY <1>2
    <3>2. ASSUME NEW p \in Lowered
          PROVE  \E x \in Pending' : x.pin = p
      <4> DEFINE x == [op |-> "gpio_low", pin |-> p]
      <4>1. x \in Pending' /\ x.pin = p
        BY <1>2
      <4> HIDE DEF x
      <4> QED BY <4>1
    <3> QED BY <3>1, <3>2
  <2> QED BY <1>1, <2>1, <2>2, BoardFixed DEF PinInv
<1>6. DutyInv'
  BY <1>1, BoardFixed DEF IInv, DutyInv
<1> QED BY <1>2, <1>3, <1>4, <1>5, <1>6 DEF IInv

(* A wheel of the table.                                                    *)
LEMMA WheelWrites ==
    ASSUME board \in Boards, NEW side \in Side, NEW v \in Velocities
    PROVE  LET s == SetWheel(side, v)
           IN  /\ s \in Seq(Write1)
               /\ \A x \in Range(s) :
                     \/ x.op = "out" /\ x.pin = cc1(side) /\ (x.level <=> v > 0)
                     \/ x.op = "out" /\ x.pin = cc2(side) /\ (x.level <=> ~(v > 0))
                     \/ x.op = "pwm" /\ x.side = side /\ x.duty = Abs(v)
               /\ \E x \in Range(s) : x.op = "out" /\ x.pin = cc1(side)
               /\ \E x \in Range(s) : x.op = "out" /\ x.pin = cc2(side)
               /\ board = "JR" \/ side = "LEFT" =>
                     \E x \in Range(s) : x.op = "pwm" /\ x.side = side
<1> DEFINE mode == IF v > 0 THEN "FORWARD" ELSE "REVERSE"
           a == [op |-> "out", pin |-> cc1(side), level |-> mode = "FORWARD"]
           b == [op |-> "out", pin |-> cc2(side), level |-> mode = "REVERSE"]
           d == [op |-> "pwm", side |-> side, duty |-> Abs(v)]
           s == tb6612fng_set_mode(side, mode)
           t == tb6612fng_set_pwm(side, Abs(v))
<1>1. mode \in Mode /\ Abs(v) \in 0 .. 100
  BY DEF Mode, Abs, Velocities
<1>2. s \in Seq(Write1) /\ Range(s) = {a, b}
  <2> HIDE DEF mode
  <2> QED BY <1>1, ModeWrites
<1>3. t \in Seq(Write1) /\ Range(t) \subseteq {d}
      /\ (board = "JR" \/ side = "LEFT" => Range(t) = {d})
  BY <1>1, PwmWrites
<1>4. SetWheel(side, v) = s \o t
  BY DEF SetWheel
<1>5. /\ a.op = "out" /\ a.pin = cc1(side) /\ (a.level <=> v > 0)
      /\ b.op = "out" /\ b.pin = cc2(side) /\ (b.level <=> ~(v > 0))
      /\ d.op = "pwm" /\ d.side = side /\ d.duty = Abs(v)
  <2>1. (mode = "FORWARD" <=> v > 0) /\ (mode = "REVERSE" <=> ~(v > 0))
    OBVIOUS
  <2> HIDE DEF mode
  <2> QED BY <2>1
<1> HIDE DEF s, t, a, b, d
<1>6. s \o t \in Seq(Write1) /\ Range(s \o t) = Range(s) \union Range(t)
  BY <1>2, <1>3, InARow
<1>7. a \in Range(s \o t) /\ b \in Range(s \o t) /\ (board = "JR" \/ side = "LEFT" => d \in Range(s \o t))
      /\ \A x \in Range(s \o t) : x \in {a, b, d}
  BY <1>2, <1>3, <1>6
<1> QED BY <1>4, <1>5, <1>6, <1>7

LEMMA SetStep ==
    ASSUME IInv, NEW direction \in Direction, NEW speed \in Speed, drive_set(direction, speed)
    PROVE  IInv'
<1> DEFINE v == drive_speeds(direction, speed)
           l == SetWheel("LEFT", v.LEFT)
           r == SetWheel("RIGHT", v.RIGHT)
           c == <<"set", direction, speed>>
<1>1. board \in Boards
  BY DEF IInv, TypeOK
<1>2. /\ v["LEFT"] \in Velocities /\ v["RIGHT"] \in Velocities
      /\ (v.LEFT = 0 \/ v.RIGHT = 0) <=> direction \in SHARP
  BY SpeedsTurn DEF Side
<1> HIDE DEF v
<1>3. CASE v.LEFT # 0 /\ v.RIGHT # 0
  <2>1. Command(l \o r, c)
    BY <1>3 DEF drive_set, v
  <2>2. c \in Wants /\ c[1] = "set" /\ c[2] = direction /\ c[3] = speed
    BY WantIs
  <2>3. /\ l \in Seq(Write1)
        /\ \A x \in Range(l) :
              \/ x.op = "out" /\ x.pin = cc1("LEFT") /\ (x.level <=> v["LEFT"] > 0)
              \/ x.op = "out" /\ x.pin = cc2("LEFT") /\ (x.level <=> ~(v["LEFT"] > 0))
              \/ x.op = "pwm" /\ x.side = "LEFT" /\ x.duty = Abs(v["LEFT"])
        /\ \E x \in Range(l) : x.op = "out" /\ x.pin = cc1("LEFT")
        /\ \E x \in Range(l) : x.op = "out" /\ x.pin = cc2("LEFT")
        /\ \E x \in Range(l) : x.op = "pwm" /\ x.side = "LEFT"
    BY <1>1, <1>2, WheelWrites DEF Side
  <2>4. /\ r \in Seq(Write1)
        /\ \A x \in Range(r) :
              \/ x.op = "out" /\ x.pin = cc1("RIGHT") /\ (x.level <=> v["RIGHT"] > 0)
              \/ x.op = "out" /\ x.pin = cc2("RIGHT") /\ (x.level <=> ~(v["RIGHT"] > 0))
              \/ x.op = "pwm" /\ x.side = "RIGHT" /\ x.duty = Abs(v["RIGHT"])
        /\ \E x \in Range(r) : x.op = "out" /\ x.pin = cc1("RIGHT")
        /\ \E x \in Range(r) : x.op = "out" /\ x.pin = cc2("RIGHT")
        /\ board = "JR" => \E x \in Range(r) : x.op = "pwm" /\ x.side = "RIGHT"
    BY <1>1, <1>2, WheelWrites DEF Side
  <2> HIDE DEF l, r, c
  <2>5. l \o r \in Seq(Write1) /\ Range(l \o r) = Range(l) \union Range(r)
    BY <2>3, <2>4, InARow
  <2>6. \A x \in Range(l \o r) : x.op # "gpio_low"
    BY <2>3, <2>4, <2>5
  <2>7. Pending' = Range(l) \union Range(r) /\ want' = c /\ board' = board
    BY <2>1, <2>5 DEF Command, Pending
  <2>8. SharpTurnsHalt'
    BY <1>2, <1>3, <2>2, <2>7 DEF SharpTurnsHalt, SHARP
  <2>9. FollowInv'
    <3> SUFFICES ASSUME Followed', NEW m \in Motor
                 PROVE  /\ Levels(cc1(m), Ahead(m))' /\ Levels(cc2(m), Back(m))'
                        /\ Duty(m, Abs(Asked(m)))'
      BY <2>7, BoardFixed DEF FollowInv
    <3>1. /\ m \in Side /\ Asked(m)' = v[m]
          /\ (Ahead(m)' <=> v[m] > 0) /\ (Back(m)' <=> ~(v[m] > 0))
      BY <1>1, <2>2, <2>7, PinsOf DEF Asked, Ahead, Back, v
    <3>2. cc1(m)' = cc1(m) /\ cc2(m)' = cc2(m)
      BY <2>7, BoardFixed
    <3>3. /\ cc1("LEFT") = 25 /\ cc2("LEFT") = 24
          /\ IF board = "JR" THEN cc1("RIGHT") = 23 /\ cc2("RIGHT") = 22
                             ELSE cc1("RIGHT") = 25 /\ cc2("RIGHT") = 24
      BY DEF cc1, cc2
    <3>4. /\ m \in {"LEFT", "RIGHT"} /\ (board # "JR" => m = "LEFT")
          /\ board # "JR" => (v["LEFT"] > 0 <=> v["RIGHT"] > 0)
      <4>1. board # "JR" => direction \notin SHARP \union ROTATE
        BY <1>2, <1>3, <2>2, <2>7 DEF Followed
      <4>2. \A side \in Side : v[side] \in Int /\ (board # "JR" =>
                IF direction = REVERSE THEN v[side] < 0 ELSE v[side] > 0)
        BY <1>2, <4>1, SpeedsTurn DEF v, Side, Velocities
      <4>3. board # "JR" => (v["LEFT"] > 0 <=> v["RIGHT"] > 0)
        BY <4>2 DEF Side
      <4> QED BY <3>1, <4>3 DEF Side, Motor
    <3>5. /\ \A x \in Pending' : x.op = "out" /\ x.pin = cc1(m) => (x.level <=> v[m] > 0)
          /\ \A x \in Pending' : x.op = "out" /\ x.pin = cc2(m) => (x.level <=> ~(v[m] > 0))
          /\ \A x \in Pending' : x.op = "pwm" /\ x.side = m => x.duty = Abs(v[m])
      <4> HIDE DEF Abs
      <4>1. CASE board = "JR"
        BY <2>3, <2>4, <2>7, <3>3, <3>4, <4>1
      <4>2. CASE board # "JR"
        BY <2>3, <2>4, <2>7, <3>3, <3>4, <4>2
      <4> QED BY <4>1, <4>2
    <3>6. /\ \E x \in Pending' : x.op = "out" /\ x.pin = cc1(m)
          /\ \E x \in Pending' : x.op = "out" /\ x.pin = cc2(m)
          /\ \E x \in Pending' : x.op = "pwm" /\ x.side = m
      BY <2>3, <2>4, <2>7, <3>4
    <3>7. Levels(cc1(m), Ahead(m))'
      BY <3>1, <3>2, <3>5, <3>6 DEF Levels
    <3>8. Levels(cc2(m), Back(m))'
      BY <3>1, <3>2, <3>5, <3>6 DEF Levels
    <3>9. Duty(m, Abs(Asked(m)))'
      <4>1. Abs(Asked(m))' = Abs(v[m])
        BY <3>1 DEF Abs
      <4> HIDE DEF Abs
      <4> QED BY <3>5, <3>6, <4>1 DEF Duty
    <3> QED BY <3>7, <3>8, <3>9
  <2> QED BY <2>1, <2>2, <2>5, <2>6, <2>8, <2>9, CommandStep
<1>4. CASE ~(v.LEFT # 0 /\ v.RIGHT # 0)
  <2>1. Assert(<<"refused", direction, speed>>)
    BY <1>4 DEF drive_set, v
  <2>2. SharpTurnsHalt'
    BY <1>2, <1>4, <2>1, WantIs DEF Assert, SharpTurnsHalt, SHARP
  <2> QED BY <2>1, <2>2, WantIs, AssertStep
<1> QED BY <1>3, <1>4

LEMMA StopStep ==
    ASSUME IInv, Stop
    PROVE  IInv'
<1> DEFINE a == tb6612fng_set_mode("LEFT", "STOP")
           b == tb6612fng_set_mode("RIGHT", "STOP")
           d == tb6612fng_set_pwm("LEFT", 0)
           e == tb6612fng_set_pwm("RIGHT", 0)
           c == Plain("stop")
<1>1. board \in Boards
  BY DEF IInv, TypeOK
<1>2. c \in Wants /\ c[1] = "stop"
  BY WantIs DEF Plain, FORWARD, Direction, Speed
<1>3. /\ a \in Seq(Write1) /\ b \in Seq(Write1)
      /\ \A x \in Range(a) \union Range(b) : x.op = "out" /\ x.level = FALSE
      /\ \E x \in Range(a) : x.op = "out" /\ x.pin = cc1("LEFT")
      /\ \E x \in Range(a) : x.op = "out" /\ x.pin = cc2("LEFT")
      /\ \E x \in Range(b) : x.op = "out" /\ x.pin = cc1("RIGHT")
      /\ \E x \in Range(b) : x.op = "out" /\ x.pin = cc2("RIGHT")
  BY <1>1, StopMode DEF Side
<1>4. /\ d \in Seq(Write1) /\ e \in Seq(Write1)
      /\ \A x \in Range(d) \union Range(e) : x.op = "pwm"
  <2>1. "LEFT" \in Side /\ "RIGHT" \in Side /\ 0 \in 0 .. 100
    BY DEF Side
  <2>2. d \in Seq(Write1) /\ \A x \in Range(d) : x.op = "pwm"
    BY <2>1, PwmWrites
  <2>3. e \in Seq(Write1) /\ \A x \in Range(e) : x.op = "pwm"
    BY <2>1, PwmWrites
  <2> QED BY <2>2, <2>3
<1> HIDE DEF a, b, d, e, c
<1>5. /\ a \o b \o d \o e \in Seq(Write1)
      /\ Range(a \o b \o d \o e) = Range(a) \union Range(b) \union Range(d) \union Range(e)
  <2>1. a \o b \in Seq(Write1) /\ Range(a \o b) = Range(a) \union Range(b)
    BY <1>3, InARow
  <2>2. a \o b \o d \in Seq(Write1) /\ Range(a \o b \o d) = Range(a \o b) \union Range(d)
    BY <1>4, <2>1, InARow
  <2>3. /\ a \o b \o d \o e \in Seq(Write1)
        /\ Range(a \o b \o d \o e) = Range(a \o b \o d) \union Range(e)
    BY <1>4, <2>2, InARow
  <2> QED BY <2>1, <2>2, <2>3
<1>6. Command(a \o b \o d \o e, c)
  BY DEF Stop, drive_stop, a, b, c, d, e
<1>7. Pending' = Range(a \o b \o d \o e) /\ want' = c /\ board' = board
  BY <1>6 DEF Command, Pending
<1>8. SharpTurnsHalt'
  BY <1>2, <1>7 DEF SharpTurnsHalt
<1>9. FollowInv'
  <2> SUFFICES ASSUME NEW m \in Side
               PROVE  Levels(cc1(m), Ahead(m))' /\ Levels(cc2(m), Back(m))'
    BY <1>1, <1>2, <1>7, PinsOf, BoardFixed DEF FollowInv
  <2>1. Ahead(m)' = FALSE /\ Back(m)' = FALSE /\ cc1(m)' = cc1(m) /\ cc2(m)' = cc2(m)
    BY <1>2, <1>7, BoardFixed DEF Ahead, Back
  <2>2. \A x \in Pending' : x.op = "out" => ~x.level
    BY <1>3, <1>4, <1>5, <1>7
  <2>3. /\ \E x \in Pending' : x.op = "out" /\ x.pin = cc1(m)
        /\ \E x \in Pending' : x.op = "out" /\ x.pin = cc2(m)
    BY <1>3, <1>5, <1>7 DEF Side
  <2> QED BY <2>1, <2>2, <2>3 DEF Levels
<1>10. \A x \in Range(a \o b \o d \o e) : x.op # "gpio_low"
  BY <1>3, <1>4, <1>5
<1> QED BY <1>2, <1>5, <1>6, <1>8, <1>9, <1>10, CommandStep

(* A driver called by itself: nothing is said of what the wheels do.        *)
LEMMA CallStep ==
    ASSUME IInv, NEW program \in Seq(Write1), Command(program, Plain("other")),
           \A x \in Range(program) : x.op # "gpio_low"
    PROVE  IInv'
<1>1. Plain("other") \in Wants /\ Plain("other")[1] = "other"
  BY WantIs DEF Plain, FORWARD, Direction, Speed
<1>2. want' = Plain("other")
  BY DEF Command
<1>3. FollowInv' /\ SharpTurnsHalt'
  BY <1>1, <1>2 DEF FollowInv, Followed, SharpTurnsHalt
<1> QED BY <1>1, <1>3, CommandStep

LEMMA BlinkStep ==
    ASSUME IInv, Blink
    PROVE  IInv'
<1>1. /\ UNCHANGED <<board, timer_pin, enabled, ccr, running, todo, asserted, want>>
      /\ asserted /\ todo = <<>> /\ out' = [out EXCEPT ![26] = ~out[26]] /\ Pending' = Pending
  BY DEF Blink, pwm, Pending
<1>2. 26 \in Pin /\ Lowered \subseteq Pin
  BY DEF Pin, Lowered
<1> HIDE DEF Pin, Lowered
<1>3. out' \in [Pin -> BOOLEAN] /\ \A p \in Pin : p # 26 => out'[p] = out[p]
  BY <1>1, <1>2 DEF IInv, TypeOK
<1>4. TypeOK'
  BY <1>1, <1>3 DEF IInv, TypeOK
<1>5. FollowInv'
  BY <1>1 DEF FollowInv, Followed
<1>6. PinInv'
  <2>1. \A m \in Motor : PwmPin(m) \in Pin
    <3>1. 20 \in Pin /\ 21 \in Pin /\ 26 \in Pin
      BY DEF Pin
    <3> QED BY <3>1, PinsOf DEF IInv, TypeOK
  <2> QED BY <1>1, <1>2, <1>3, <2>1, BoardFixed DEF IInv, PinInv
<1>7. DutyInv'
  BY <1>1, BoardFixed DEF IInv, DutyInv
<1>8. SharpTurnsHalt'
  BY <1>1 DEF IInv, SharpTurnsHalt
<1> QED BY <1>1, <1>4, <1>5, <1>6, <1>7, <1>8 DEF IInv

LEMMA Initially == Init => IInv
<1> SUFFICES ASSUME Init PROVE IInv
  OBVIOUS
<1>1. /\ board \in Boards /\ out = [p \in Pin |-> FALSE]
      /\ timer_pin = {PwmPin(side) : side \in Motor}
      /\ enabled = [side \in Side |-> FALSE] /\ ccr = [side \in Side |-> 0]
      /\ running = FALSE /\ todo = <<>> /\ asserted = FALSE /\ want = Plain("stop")
      /\ todo \in Seq(Write1)
  BY DEF Init
<1>2. want \in Wants /\ want[1] = "stop"
  BY <1>1, WantIs DEF Plain, FORWARD, Direction, Speed
<1>3. Pending = {}
  BY <1>1, Emptied DEF Pending
<1>4. /\ \A side \in Side : cc1(side) \in Pin /\ cc2(side) \in Pin /\ PwmPin(side) \in Pin
      /\ Motor \subseteq Side
  <2>1. {20, 21, 26} \subseteq Pin /\ 22 .. 25 \subseteq Pin
    BY DEF Pin
  <2> HIDE DEF Pin
  <2> QED BY <1>1, <2>1, PinsOf
<1> HIDE DEF Pin, Side, Motor
<1>5. TypeOK
  <2>1. enabled \in [Side -> BOOLEAN] /\ ccr \in [Side -> 0 .. 100]
    BY <1>1
  <2>2. out \in [Pin -> BOOLEAN] /\ timer_pin \subseteq Pin
    BY <1>1, <1>4
  <2> QED BY <1>1, <1>2, <2>1, <2>2 DEF TypeOK, Wants
<1>6. FollowInv
  BY <1>1, <1>2, <1>3, <1>4 DEF FollowInv, Levels, Ahead, Back
<1>7. PinInv
  BY <1>1, <1>3, <1>4 DEF PinInv
<1>8. DutyInv /\ SharpTurnsHalt
  BY <1>1, <1>2, <1>4 DEF DutyInv, SharpTurnsHalt
<1> QED BY <1>1, <1>5, <1>6, <1>7, <1>8 DEF IInv

(* Every call, and every write of a call, keeps the invariant.              *)
THEOREM Invariant == Spec => []IInv
<1>1. IInv /\ [Next]_vars => IInv'
  <2> SUFFICES ASSUME IInv, [Next]_vars PROVE IInv'
    OBVIOUS
  <2>1. CASE UNCHANGED vars
    <3>1. UNCHANGED <<board, out, timer_pin, enabled, ccr, running, todo, asserted, want>>
      BY <2>1 DEF vars, pins, pwm
    <3>2. Pending' = Pending
      BY <3>1 DEF Pending
    <3>3. TypeOK' /\ SharpTurnsHalt'
      BY <3>1 DEF IInv, TypeOK, SharpTurnsHalt
    <3>4. DutyInv' /\ PinInv'
      BY <3>1, <3>2, BoardFixed DEF IInv, DutyInv, PinInv
    <3>5. FollowInv'
      BY <3>1, <3>2, BoardFixed, WantFixed
         DEF IInv, FollowInv, Followed, Levels, Duty, Abs
    <3> QED BY <3>1, <3>3, <3>4, <3>5 DEF IInv
  <2>2. CASE Write
    BY <2>2, WriteStep
  <2>3. CASE \E cmd \in Commands : drive_set(cmd[1], cmd[2])
    BY <2>3, CallAssumption, SetStep DEF Direction, Speed
  <2>4. CASE Stop
    BY <2>4, StopStep
  <2>5. CASE \E tb \in Side, mode \in Mode : CallMode(tb, mode)
    <3>1. PICK tb \in Side, mode \in Mode :
              Command(tb6612fng_set_mode(tb, mode), Plain("other"))
      BY <2>5 DEF CallMode
    <3>2. /\ tb6612fng_set_mode(tb, mode) \in Seq(Write1)
          /\ \A x \in Range(tb6612fng_set_mode(tb, mode)) : x.op # "gpio_low"
      BY ModeWrites DEF IInv, TypeOK
    <3> QED BY <3>1, <3>2, CallStep
  <2>6. CASE \E tb \in Side, duty \in Duties : CallDuty(tb, duty)
    <3>1. PICK tb \in Side, duty \in 0 .. 100 :
              Command(tb6612fng_set_pwm(tb, duty), Plain("other"))
      BY <2>6, CallAssumption DEF CallDuty
    <3>2. /\ tb6612fng_set_pwm(tb, duty) \in Seq(Write1)
          /\ \A x \in Range(tb6612fng_set_pwm(tb, duty)) : x.op # "gpio_low"
      BY PwmWrites
    <3> QED BY <3>1, <3>2, CallStep
  <2>7. CASE AssertFails
    <3>1. Assert(want) /\ want \in Wants /\ want' = want
      BY <2>7 DEF AssertFails, Assert, IInv, TypeOK, Wants
    <3>2. SharpTurnsHalt'
      BY <3>1 DEF IInv, SharpTurnsHalt
    <3> QED BY <3>1, <3>2, AssertStep
  <2>8. CASE Blink
    BY <2>8, BlinkStep
  <2> QED BY <2>1, <2>2, <2>3, <2>4, <2>5, <2>6, <2>7, <2>8 DEF Next
<1> QED BY <1>1, Initially, PTL DEF Spec

(* The pins, the timer and the last command keep their types.               *)
THEOREM TypeSafety == Spec => []TypeOK
<1>1. IInv => TypeOK
  BY DEF IInv
<1> QED BY <1>1, Invariant, PTL

LEMMA StoppedThen ==
    ASSUME IInv, asserted, todo = <<>>, NEW m \in Motor
    PROVE  Coasts(m) \/ Unpowered(m)
<1>1. Pending = {} /\ board \in Boards
  BY Emptied DEF IInv, TypeOK, Pending
<1>2. \A p \in Lowered : p \notin timer_pin /\ (~out[p] \/ p = 26)
  BY <1>1 DEF IInv, PinInv
<1>3. CASE m = "LEFT"
  <2>1. cc1(m) = 25 /\ cc2(m) = 24
    BY <1>3 DEF cc1, cc2
  <2>2. ~out[25] /\ ~out[24]
    BY <1>2 DEF Lowered
  <2> QED BY <2>1, <2>2 DEF Coasts
<1>4. CASE m # "LEFT"
  <2>1. board = "JR" /\ m = "RIGHT"
    BY <1>1, <1>4, BoardAssumption DEF Motor, Side
  <2>2. PwmPin(m) = 21
    BY <2>1 DEF PwmPin
  <2>3. 21 \notin timer_pin /\ ~out[21]
    BY <1>2 DEF Lowered
  <2> QED BY <2>2, <2>3 DEF Unpowered
<1> QED BY <1>3, <1>4

(* Once the assert handler has stopped the motors, each has its control     *)
(* inputs low or its PWM input held low, on either board, whatever the      *)
(* handler goes on to toggle (assert_handler.c:43).                         *)
THEOREM StaysStopped == Spec => []AssertStopsMotors
<1>1. IInv => AssertStopsMotors
  BY StoppedThen DEF AssertStopsMotors
<1> QED BY <1>1, Invariant, PTL

(* What the H-bridge makes of a duty and of inputs at rest.                 *)
LEMMA BridgeIs ==
    ASSUME IInv, NEW m \in Motor, NEW duty \in Int
    PROVE  /\ Bridge(m, duty) \in {0, duty, -duty}
           /\ Coasts(m) => Bridge(m, duty) = 0
<1>1. cc1(m) \in Pin /\ cc2(m) \in Pin
  <2>1. 22 .. 25 \subseteq Pin
    BY DEF Pin
  <2> QED BY <2>1, PinsOf DEF IInv, TypeOK
<1>2. out[cc1(m)] \in BOOLEAN /\ out[cc2(m)] \in BOOLEAN
  BY <1>1 DEF IInv, TypeOK
<1> QED BY <1>2 DEF Bridge, Coasts

LEMMA DutyIs ==
    ASSUME IInv, NEW m \in Motor
    PROVE  /\ ChannelDuty(m) \in 0 .. 75
           /\ enabled[m] => ChannelDuty(m) = ccr[m] /\ ChannelDuty(m) > 0
           /\ PwmPin(m) \in timer_pin => PwmInput(m) \in {0, ChannelDuty(m)}
           /\ PwmPin(m) \in timer_pin /\ board = "LAUNCHPAD" => PwmInput(m) = ChannelDuty(m)
<1>1. m \in Side /\ (board = "LAUNCHPAD" => m = "LEFT")
  BY PinsOf DEF IInv, TypeOK
<1>2. ccr[m] \in 0 .. 75 /\ (enabled[m] => running /\ ccr[m] > 0)
  <2>1. ccr[m] \in 0 .. 100
    BY <1>1 DEF IInv, TypeOK
  <2>2. ccr[m] =< 75 /\ (enabled[m] => running /\ ccr[m] > 0)
    BY <1>1 DEF IInv, DutyInv
  <2> QED BY <2>1, <2>2
<1>3. ChannelDuty(m) \in 0 .. 75
      /\ (enabled[m] => ChannelDuty(m) = ccr[m] /\ ChannelDuty(m) > 0)
  BY <1>2 DEF ChannelDuty
<1>4. PwmPin(m) \in timer_pin => PwmInput(m) \in {0, ChannelDuty(m)}
  BY DEF PwmInput
<1>5. board = "LAUNCHPAD" => TimerOutput(PwmPin(m)) = pwm_cfgs[m]
  <2> SUFFICES ASSUME board = "LAUNCHPAD" PROVE TimerOutput(PwmPin(m)) = pwm_cfgs[m]
    OBVIOUS
  <2>1. m = "LEFT" /\ PwmPin(m) = 26
    BY <1>1 DEF PwmPin
  <2>2. TimerOutput(26) = <<"TA0", 1>>
    BY DEF TimerOutput
  <2>3. pwm_cfgs["LEFT"] = <<"TA0", 1>>
    BY DEF pwm_cfgs
  <2> QED BY <2>1, <2>2, <2>3
<1>6. PwmPin(m) \in timer_pin /\ board = "LAUNCHPAD" => PwmInput(m) = ChannelDuty(m)
  BY <1>5 DEF PwmInput
<1> QED BY <1>3, <1>4, <1>6

(* No channel counts and no motor is driven for more than three quarters of *)
(* the time, between any two writes; a channel that is enabled counts       *)
(* towards a duty, which on the LAUNCHPAD is what its motor gets.           *)
THEOREM Scaled == Spec => []DutyScaled
<1>1. IInv => DutyScaled
  <2> SUFFICES ASSUME IInv, NEW m \in Motor
               PROVE  /\ ChannelDuty(m) <= 75 /\ Abs(Velocity(m)) <= 75
                      /\ enabled[m] =>
                            /\ ChannelDuty(m) > 0
                            /\ board = "LAUNCHPAD" /\ ~asserted => PwmInput(m) = ChannelDuty(m)
    BY DEF DutyScaled, WithinSpec, EnabledDrives
  <2>1. Abs(Velocity(m)) <= 75
    <3>1. CASE PwmPin(m) \in timer_pin \/ ~out[PwmPin(m)]
      <4>1. PwmInput(m) \in 0 .. 75
        BY <3>1, DutyIs DEF PwmInput
      <4>2. Velocity(m) \in {0, PwmInput(m), -PwmInput(m)}
        BY <4>1, BridgeIs DEF Velocity
      <4> QED BY <4>1, <4>2 DEF Abs
    <3>2. CASE ~(PwmPin(m) \in timer_pin \/ ~out[PwmPin(m)])
      <4>1. asserted /\ todo = <<>>
        BY <3>2 DEF IInv, PinInv
      <4>2. Coasts(m)
        BY <3>2, <4>1, StoppedThen DEF Unpowered
      <4>3. PwmInput(m) \in Int
        BY <3>2 DEF PwmInput
      <4>4. Velocity(m) = 0
        BY <4>2, <4>3, BridgeIs DEF Velocity
      <4> QED BY <4>4 DEF Abs
    <3> QED BY <3>1, <3>2
  <2>2. board = "LAUNCHPAD" /\ ~asserted => PwmInput(m) = ChannelDuty(m)
    BY DutyIs DEF IInv, PinInv
  <2> QED BY <2>1, <2>2, DutyIs
<1> QED BY <1>1, Invariant, PTL

(* When drive_set has returned, the JR's registers ask for the direction    *)
(* that was named, and the LAUNCHPAD's motor turns in its sense; once       *)
(* drive_stop has, no motor is driven; whatever was commanded before and    *)
(* however often.                                                           *)
THEOREM Obeyed == Spec => []CommandObeyed
<1>1. IInv => CommandObeyed
  <2> SUFFICES ASSUME IInv PROVE CommandObeyed
    OBVIOUS
  <2>1. board \in Boards
    BY DEF IInv, TypeOK
  <2>2. ASSUME Idle, NEW m \in Motor, Followed
        PROVE  /\ out[cc1(m)] <=> Ahead(m)
               /\ out[cc2(m)] <=> Back(m)
               /\ want[1] = "set" =>
                     enabled[m] /\ ccr[m] = pwm_scale_duty_cycle(Abs(Asked(m)))
    <3>1. Pending = {}
      BY <2>2, Emptied DEF Idle, IInv, Pending
    <3> QED BY <2>2, <3>1 DEF IInv, FollowInv, Levels, Duty
  <2>3. StopHolds
    BY <2>2 DEF StopHolds, Followed, Idle, Ahead, Back, Coasts
  <2>4. ASSUME Idle, want[1] = "set", Followed, NEW m \in Motor
        PROVE  Commanded(m) = Wheel(Asked(m)) /\ m \in Side /\ Asked(m) \in Velocities
    <3>1. m \in Side /\ Asked(m) \in Velocities
      BY <2>1, <2>4, PinsOf, AskedIs
    <3>2. /\ out[cc1(m)] <=> Asked(m) > 0
          /\ out[cc2(m)] <=> ~(Asked(m) > 0)
          /\ enabled[m] /\ ccr[m] = pwm_scale_duty_cycle(Abs(Asked(m)))
      BY <2>2, <2>4 DEF Ahead, Back
    <3>3. ChannelDuty(m) = pwm_scale_duty_cycle(Abs(Asked(m)))
      BY <3>2, DutyIs
    <3>4. Abs(Asked(m)) = IF Asked(m) > 0 THEN Asked(m) ELSE -Asked(m)
      BY <3>1 DEF Abs, Velocities
    <3> HIDE DEF pwm_scale_duty_cycle
    <3>5. out[cc1(m)] # out[cc2(m)]
      BY <3>2
    <3>6. CASE Asked(m) > 0
      BY <3>1, <3>2, <3>3, <3>4, <3>5, <3>6 DEF Commanded, Bridge, Wheel
    <3>7. CASE ~(Asked(m) > 0)
      BY <3>1, <3>2, <3>3, <3>4, <3>5, <3>7 DEF Commanded, Bridge, Wheel
    <3> QED BY <3>6, <3>7
  <2>5. ASSUME want[1] = "set"
        PROVE  want[2] \in Direction \ SHARP /\ want[3] \in Speed
    BY <2>5 DEF IInv, TypeOK, SharpTurnsHalt
  <2>6. RegistersObey
    <3> SUFFICES ASSUME Idle, want[1] = "set", board = "JR"
                 PROVE  Turns(want[2], Commanded("LEFT"), Commanded("RIGHT"))
      BY DEF RegistersObey
    <3>1. Followed /\ "LEFT" \in Motor /\ "RIGHT" \in Motor
      BY DEF Followed, Idle, Motor, Side
    <3>2. Turns(want[2], Wheel(Asked("LEFT")), Wheel(Asked("RIGHT")))
      BY <2>5, SpeedsTurn DEF Asked
    <3> QED BY <2>4, <3>1, <3>2
  <2>7. LaunchpadObeys
    <3> SUFFICES ASSUME Idle, want[1] = "set", board = "LAUNCHPAD", want[2] \notin ROTATE
                 PROVE  IF want[2] = REVERSE THEN Velocity("LEFT") < 0 ELSE Velocity("LEFT") > 0
      BY DEF LaunchpadObeys, ROTATE
    <3>1. Followed /\ "LEFT" \in Motor
      BY <2>1, PinsOf DEF Followed, Idle
    <3>2. Velocity("LEFT") = Wheel(Asked("LEFT")) /\ "LEFT" \in Side /\ Asked("LEFT") \in Velocities
      <4>1. PwmInput("LEFT") = ChannelDuty("LEFT")
        BY <3>1, DutyIs DEF IInv, PinInv, Idle
      <4> QED BY <2>4, <3>1, <4>1 DEF Velocity, Commanded
    <3>3. IF want[2] = REVERSE THEN Asked("LEFT") < 0 ELSE Asked("LEFT") > 0
      BY <2>5, <3>2, SpeedsTurn DEF Asked
    <3>4. CASE want[2] = REVERSE
      <4>1. -Asked("LEFT") \in Velocities /\ -Asked("LEFT") > 0 /\ -(-Asked("LEFT")) = Asked("LEFT")
        BY <3>2, <3>3, <3>4 DEF Velocities
      <4>2. Wheel(-Asked("LEFT")) > 0 /\ Wheel(Asked("LEFT")) = -Wheel(-Asked("LEFT"))
            /\ Wheel(-Asked("LEFT")) \in Int
        BY <4>1, WheelIs
      <4> HIDE DEF Wheel
      <4> QED BY <3>2, <3>4, <4>2
    <3>5. CASE want[2] # REVERSE
      BY <3>2, <3>3, <3>5, WheelIs
    <3> QED BY <3>4, <3>5
  <2> QED BY <2>3, <2>6, <2>7 DEF CommandObeyed
<1> QED BY <1>1, Invariant, PTL

=============================================================================
