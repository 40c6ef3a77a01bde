------------------------------- MODULE Motors -------------------------------
(***************************************************************************)
(* app/drive.c on drivers/tb6612fng.c on drivers/pwm.c, with what          *)
(* common/assert_handler.c does to the same pins.                          *)
(*                                                                         *)
(* Only the main program touches the motors, one register at a time, and   *)
(* the motors follow every write.  A function of the drivers is therefore  *)
(* the sequence of writes it makes; a call puts that sequence in `todo`,   *)
(* and a step performs the next write.  Whether a wheel turns is read off  *)
(* the pins and the timers, as the H-bridge does; what the driver asks for *)
(* is read off the registers it writes.                                    *)
(***************************************************************************)
EXTENDS Integers, Sequences

CONSTANTS
    Boards,     \* the boards the program is built for
    Commands,   \* the <<direction, speed>> pairs the application asks for
    Duties      \* the duty cycles the tests ask for

ASSUME BoardAssumption == Boards \subseteq {"LAUNCHPAD", "JR"}
ASSUME CallAssumption == Commands \subseteq (0 .. 9) \X (0 .. 3) /\ Duties \subseteq 0 .. 100

VARIABLES
    board,     \* the board of this build, which never changes
    out,       \* PxOUT of each pin
    timer_pin, \* the pins whose select register gives them to the timer
    enabled,   \* pwm_cfgs[].enabled, which the output mode follows
    ccr,       \* TA0CCR1 and TA0CCR2, in per cent of the period
    running,   \* the timer counts (MC_1)
    todo,      \* the writes left of the call in progress
    asserted,  \* the assert handler runs
    want       \* history: the last command, as <<what, direction, speed>>

Side == {"LEFT", "RIGHT"}
Mode == {"STOP", "FORWARD", "REVERSE"}

(* io.h: port 2 and 3 pins, P2.4 written 24.  The LAUNCHPAD build has one   *)
(* motor and the right entry duplicates the left one (tb6612fng.c:16).     *)
Pin == (20 .. 26) \union {35, 36}
cc1(side) == IF board = "JR" /\ side = "RIGHT" THEN 23 ELSE 25
cc2(side) == IF board = "JR" /\ side = "RIGHT" THEN 22 ELSE 24
PwmPin(side) == IF board = "LAUNCHPAD" THEN 26
                ELSE IF side = "LEFT" THEN 20 ELSE 21
Motor == IF board = "JR" THEN Side ELSE {"LEFT"}

pins == <<out, timer_pin>>
pwm == <<enabled, ccr, running>>
vars == <<board, pins, pwm, todo, asserted, want>>

-----------------------------------------------------------------------------
(* The functions, as sequences of writes.                                   *)
Out(p, level) == <<[op |-> "out", pin |-> p, level |-> level]>>
GpioOutputLow(p) == <<[op |-> "gpio_low", pin |-> p]>>
SetDuty(side, duty) == <<[op |-> "pwm", side |-> side, duty |-> duty]>>

tb6612fng_set_mode(tb, mode) ==
    Out(cc1(tb), mode = "FORWARD") \o Out(cc2(tb), mode = "REVERSE")

(* pwm_set_duty_cycle: the LAUNCHPAD build has no second channel.           *)
tb6612fng_set_pwm(tb, duty) ==
    IF board = "LAUNCHPAD" /\ tb = "RIGHT" THEN <<>> ELSE SetDuty(tb, duty)

(* Mutant: the duty cycle is handed to the timer as it is. *)
pwm_scale_duty_cycle_full(duty) == duty

pwm_scale_duty_cycle(duty) == IF duty = 1 THEN duty ELSE (duty * 3) \div 4

-----------------------------------------------------------------------------
(* drive.c: drive_dir_e and drive_speed_e by value. *)
FORWARD == 0
REVERSE == 1
ROTATE_LEFT == 2
ROTATE_RIGHT == 3
ARCTURN_SHARP_LEFT == 4
ARCTURN_MID_LEFT == 6
ARCTURN_WIDE_LEFT == 8
Direction == 0 .. 9
Speed == 0 .. 3     \* SLOW, MED, FAST, MAX

Odd(direction) == direction % 2
DRIVE_PRIMARY_DIRECTION(direction) == direction - Odd(direction)

(* The table holds uint8_t and is read into int8_t.                         *)
uint8(x) == x % 256

(* Mutant: a negative speed is read back unsigned. *)
int8_unsigned(x) == x

int8(x) == IF x < 128 THEN x ELSE x - 256

Outer == [s \in Speed |-> <<25, 45, 55, 100>>[s + 1]]
Inner == [direction \in {FORWARD, ROTATE_LEFT, ARCTURN_SHARP_LEFT,
                         ARCTURN_MID_LEFT, ARCTURN_WIDE_LEFT} |->
    CASE direction = FORWARD -> <<25, 45, 55, 100>>
      [] direction = ROTATE_LEFT -> <<-25, -45, -55, -100>>
      [] direction = ARCTURN_SHARP_LEFT -> <<0, 0, 0, 0>>
      [] direction = ARCTURN_MID_LEFT -> <<8, 15, 18, 33>>
      [] direction = ARCTURN_WIDE_LEFT -> <<16, 30, 36, 66>>]

drive_primary_speeds(direction, speed) ==
    [LEFT |-> uint8(Inner[direction][speed + 1]), RIGHT |-> uint8(Outer[speed])]

(* Mutant: every pair of directions differs by a swap. *)
drive_inverse_speeds_swap(v) == [LEFT |-> v.RIGHT, RIGHT |-> v.LEFT]

drive_inverse_speeds(v) ==
    IF v.LEFT = v.RIGHT THEN [LEFT |-> -v.LEFT, RIGHT |-> -v.RIGHT]
                        ELSE [LEFT |-> v.RIGHT, RIGHT |-> v.LEFT]

drive_speeds(direction, speed) ==
    LET table == drive_primary_speeds(DRIVE_PRIMARY_DIRECTION(direction), speed)
        v == [side \in Side |-> int8(table[side])]
    IN  IF Odd(direction) = 1 THEN drive_inverse_speeds(v) ELSE v

Abs(x) == IF x >= 0 THEN x ELSE -x

SetWheel(side, v) ==
    tb6612fng_set_mode(side, IF v > 0 THEN "FORWARD" ELSE "REVERSE")
        \o tb6612fng_set_pwm(side, Abs(v))

drive_stop ==
    tb6612fng_set_mode("LEFT", "STOP") \o tb6612fng_set_mode("RIGHT", "STOP")
        \o tb6612fng_set_pwm("LEFT", 0) \o tb6612fng_set_pwm("RIGHT", 0)

(* Mutant: only the pins named for the PWM outputs are lowered. *)
assert_stop_motors_pwm == GpioOutputLow(26) \o GpioOutputLow(35) \o GpioOutputLow(36)

assert_stop_motors ==
    GpioOutputLow(26) \o GpioOutputLow(21) \o GpioOutputLow(22) \o GpioOutputLow(24)
        \o GpioOutputLow(25) \o GpioOutputLow(35) \o GpioOutputLow(36)

-----------------------------------------------------------------------------
(* pwm_set_duty_cycle and pwm_channel_enable.  pwm_enabled is never set, so *)
(* pwm_enable(true) always starts the timer and pwm_enable(false) does      *)
(* nothing.                                                                 *)
Apply(w) ==
    \/ /\ w.op = "out"
       /\ out' = [out EXCEPT ![w.pin] = w.level]
       /\ UNCHANGED <<timer_pin, pwm>>
    \/ /\ w.op = "gpio_low"
       /\ out' = [out EXCEPT ![w.pin] = FALSE]
       /\ timer_pin' = timer_pin \ {w.pin}
       /\ UNCHANGED pwm
    \/ /\ w.op = "pwm"
       /\ ccr' = IF w.duty > 0
                 THEN [ccr EXCEPT ![w.side] = pwm_scale_duty_cycle(w.duty)]
                 ELSE ccr
       /\ enabled' = [enabled EXCEPT ![w.side] = w.duty > 0]
       /\ running' = (running \/ (w.duty > 0 /\ ~enabled[w.side]))
       /\ UNCHANGED pins

Write ==
    /\ todo # <<>>
    /\ Apply(Head(todo)) /\ todo' = Tail(todo)
    /\ UNCHANGED <<board, asserted, want>>

Idle == todo = <<>> /\ ~asserted

Plain(what) == <<what, FORWARD, 0>>

Command(program, w) ==
    Idle /\ todo' = program /\ want' = w /\ UNCHANGED <<board, pins, pwm, asserted>>

(* assert_handler.c: its trace does not touch the motors.                   *)
Assert(w) ==
    /\ Idle /\ asserted' = TRUE /\ todo' = assert_stop_motors /\ want' = w
    /\ UNCHANGED <<board, pins, pwm>>

drive_set(direction, speed) ==
    LET v == drive_speeds(direction, speed)
    IN  IF v.LEFT # 0 /\ v.RIGHT # 0
        THEN Command(SetWheel("LEFT", v.LEFT) \o SetWheel("RIGHT", v.RIGHT),
                     <<"set", direction, speed>>)
        ELSE Assert(<<"refused", direction, speed>>)

Stop == Command(drive_stop, Plain("stop"))

(* The tests call the drivers directly. *)
CallMode(tb, mode) == Command(tb6612fng_set_mode(tb, mode), Plain("other"))
CallDuty(tb, duty) == Command(tb6612fng_set_pwm(tb, duty), Plain("other"))

(* An ASSERT fails anywhere else in the program. *)
AssertFails == Assert(want)

(* assert_blink_led: P2.6, the LED of the JR, is toggled for ever.          *)
Blink ==
    /\ asserted /\ todo = <<>>
    /\ out' = [out EXCEPT ![26] = ~@]
    /\ UNCHANGED <<board, timer_pin, pwm, todo, asserted, want>>

-----------------------------------------------------------------------------
Init ==
    /\ board \in Boards
    /\ out = [p \in Pin |-> FALSE]
    /\ timer_pin = {PwmPin(side) : side \in Motor}
    /\ enabled = [side \in Side |-> FALSE] /\ ccr = [side \in Side |-> 0]
    /\ running = FALSE
    /\ todo = <<>> /\ asserted = FALSE /\ want = Plain("stop")

Next ==
    \/ Write
    \/ \E cmd \in Commands : drive_set(cmd[1], cmd[2])
    \/ Stop
    \/ \E tb \in Side, mode \in Mode : CallMode(tb, mode)
    \/ \E tb \in Side, duty \in Duties : CallDuty(tb, duty)
    \/ AssertFails
    \/ Blink

Spec == Init /\ [][Next]_vars

-----------------------------------------------------------------------------
(* pwm_cfgs: the timer and the compare register a channel is programmed in. *)
pwm_cfgs == [LEFT |-> <<"TA0", 1>>, RIGHT |-> <<"TA0", 2>>]

(* The compare output the pin multiplexer of the MSP430G2553 has on a pin.  *)
TimerOutput(p) ==
    CASE p = 20 -> <<"TA1", 0>> [] p = 21 -> <<"TA1", 1>> [] p = 26 -> <<"TA0", 1>>

(* The share of time, in per cent, that a channel's output is high, and     *)
(* that the PWM input of the H-bridge is.  A compare output nothing         *)
(* programs stays low: TA1 runs for the remote, but as a clock only.        *)
ChannelDuty(side) == IF enabled[side] /\ running THEN ccr[side] ELSE 0
PwmInput(m) ==
    IF PwmPin(m) \in timer_pin
    THEN IF TimerOutput(PwmPin(m)) = pwm_cfgs[m] THEN ChannelDuty(m) ELSE 0
    ELSE IF out[PwmPin(m)] THEN 100 ELSE 0

(* The H-bridge turns in the sense of the one control input that is high.   *)
Bridge(m, duty) ==
    IF out[cc1(m)] = out[cc2(m)] THEN 0 ELSE IF out[cc1(m)] THEN duty ELSE -duty

(* What the wheel does, and what the driver's registers ask of it.          *)
Velocity(m) == Bridge(m, PwmInput(m))
Commanded(m) == Bridge(m, ChannelDuty(m))

TypeOK ==
    /\ board \in Boards /\ out \in [Pin -> BOOLEAN] /\ timer_pin \subseteq Pin
    /\ enabled \in [Side -> BOOLEAN] /\ ccr \in [Side -> 0 .. 100]
    /\ running \in BOOLEAN /\ asserted \in BOOLEAN
    /\ want \in {"set", "stop", "other", "refused"} \X Direction \X Speed

(* What the names of the directions say of the wheels.                      *)
Turns(direction, left, right) ==
    /\ direction = FORWARD => left = right /\ left > 0
    /\ direction = REVERSE => left = right /\ left < 0
    /\ direction = ROTATE_LEFT => left < 0 /\ right = -left
    /\ direction = ROTATE_RIGHT => right < 0 /\ left = -right
    /\ direction >= ARCTURN_SHARP_LEFT =>
          IF Odd(direction) = 0 THEN 0 <= left /\ left < right
                                ELSE 0 <= right /\ right < left

(* Of a drive_set that has returned: on the JR the control pins and the     *)
(* compare registers ask for the direction; on the LAUNCHPAD, whose one     *)
(* motor takes the mode of both sides, the motor itself turns, in the sense *)
(* of the direction, unless the sides are to turn against each other.       *)
RegistersObey ==
    Idle /\ want[1] = "set" /\ board = "JR" =>
        Turns(want[2], Commanded("LEFT"), Commanded("RIGHT"))
LaunchpadObeys ==
    Idle /\ want[1] = "set" /\ board = "LAUNCHPAD"
         /\ want[2] \notin {ROTATE_LEFT, ROTATE_RIGHT} =>
        IF want[2] = REVERSE THEN Velocity("LEFT") < 0 ELSE Velocity("LEFT") > 0

(* No control input of the motor is high; its PWM input is held low.        *)
Coasts(m) == ~out[cc1(m)] /\ ~out[cc2(m)]
Unpowered(m) == PwmPin(m) \notin timer_pin /\ ~out[PwmPin(m)]

StopHolds == Idle /\ want[1] = "stop" => \A m \in Motor : Coasts(m)

(* "Be able to move forward, reverse, rotate, turn, and stop" (README.md:11):*)
(* a command is written out in full and in an order that leaves the         *)
(* registers as the direction is named, whatever the calls before it left;  *)
(* after drive_stop no motor is driven until the next command.              *)
CommandObeyed == RegistersObey /\ LaunchpadObeys /\ StopHolds

(* The battery has 8 V and the motors take 6 V (pwm.c:83): no channel and   *)
(* no motor is ever driven for more than three quarters of the time, at no  *)
(* intermediate step.                                                       *)
WithinSpec == \A m \in Motor : ChannelDuty(m) <= 75 /\ Abs(Velocity(m)) <= 75

(* "This should never return 0" (pwm.c:85): a channel that is enabled       *)
(* counts towards a duty, and on the LAUNCHPAD its motor gets it.           *)
EnabledDrives ==
    \A m \in Motor : enabled[m] =>
        /\ ChannelDuty(m) > 0
        /\ board = "LAUNCHPAD" /\ ~asserted => PwmInput(m) = ChannelDuty(m)

(* So the scaling leaves neither too much nor nothing.                      *)
DutyScaled == WithinSpec /\ EnabledDrives

(* test_assert_motors: once the assert handler has stopped the motors, none *)
(* is driven again, whatever timer a PWM pin had, although the handler does *)
(* not lower the same pins on both boards and goes on to toggle a pin that  *)
(* is a PWM output on one of them.                                          *)
AssertStopsMotors == asserted /\ todo = <<>> => \A m \in Motor : Coasts(m) \/ Unpowered(m)

(* The same line of README.md, for the wheels of the JR: once drive_set has *)
(* done its writes they turn as the direction is named, whichever drive.h   *)
(* offers.  They do not: the PWM pins of the JR are outputs of TA1, and     *)
(* pwm.c:41 programs TA0.  Nor would they for a sharp turn, which has a     *)
(* speed of 0 (drive.c:36): drive_set asserts that no wheel has it          *)
(* (drive.c:77) and the robot halts.                                        *)
WheelsTurn ==
    /\ board = "JR" /\ todo = <<>>
    /\ want[1] = "refused" \/ (want[1] = "set" /\ ~asserted)
    => Turns(want[2], Velocity("LEFT"), Velocity("RIGHT"))

=============================================================================
