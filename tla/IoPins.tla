------------------------------- MODULE IoPins -------------------------------
(***************************************************************************)
(* The pins of drivers/io.c from a reset to the running application:       *)
(* mcu_init, io_init with its table, the drivers that assert how their     *)
(* pins are configured, and what the application and the assert handler    *)
(* leave in the registers for the next boot.                               *)
(*                                                                         *)
(* A pin is named as in io.h, and its configuration is the set of the      *)
(* registers in which its bit is 1.  Interrupt flags and masks are in      *)
(* IrRemote and RangeSensorInit.                                           *)
(***************************************************************************)
EXTENDS Integers, Sequences

CONSTANTS
    Boards,      \* the boards the program is built for
    PowerUpOuts, \* the positions of the pins whose PxOUT is 1 at power-up
    MaxResets    \* bound on the resets

ASSUME BoardAssumption == Boards \subseteq {"LAUNCHPAD", "JR"}
ASSUME BoundAssumption == PowerUpOuts \subseteq SUBSET (1 .. 24) /\ MaxResets \in Nat

VARIABLES
    board,   \* the board of this build, which never changes
    bits,    \* per pin, the registers in which its bit is set
    phase,   \* where the program is
    io,      \* the pin io_init's loop has come to
    todo,    \* the register writes left of the call in progress
    inited,  \* the drivers whose `initialized` is true
    cause,   \* history: which ASSERT halted the robot
    resets

vars == <<board, bits, phase, io, todo, inited, cause, resets>>

Register == {"SEL1", "SEL2", "DIR", "REN", "OUT"}

(* io_e: the pins in the order of io_generic_e, eight to a port.            *)
PinMap == [
    LAUNCHPAD |-> <<"TEST_LED", "UART_RX", "UART_TX", "ADC_0", "UNUSED_1",
                    "UNUSED_2", "I2C_SCL", "I2C_SDA",
                    "IR_REMOTE", "UNUSED_6", "MID_INT", "XSHUT_MID", "AIN_2",
                    "AIN_1", "PWM_A", "UNUSED_12">>,
    JR        |-> <<"ADC_0", "UART_RX", "UART_TX", "ADC_3", "ADC_4", "ADC_5",
                    "I2C_SCL", "I2C_SDA",
                    "PWM_A", "PWM_B", "BIN_2", "BIN_1", "AIN_2", "AIN_1",
                    "TEST_LED", "UNUSED_1",
                    "UNUSED_2", "XSHUT_LEFT", "XSHUT_RIGHT", "XSHUT_MID",
                    "IR_REMOTE", "MID_INT", "UNUSED_3", "UNUSED_4">>]
Pins == {PinMap[board][i] : i \in DOMAIN PinMap[board]}

(* The pins a list of ports and bits names: P2.6 is 26.  The LAUNCHPAD has  *)
(* no port 3.                                                               *)
At(ports) == {PinMap[board][i] : i \in
    {8 * (p \div 10 - 1) + (p % 10) + 1 : p \in ports} \cap DOMAIN PinMap[board]}

Adc == {"ADC_0", "ADC_3", "ADC_4", "ADC_5"}
Usci == {"UART_RX", "UART_TX", "I2C_SCL", "I2C_SDA"}
Xshut == {"XSHUT_MID", "XSHUT_LEFT", "XSHUT_RIGHT"}
Cc == {"AIN_1", "AIN_2", "BIN_1", "BIN_2"}
Pwm == {"PWM_A", "PWM_B"}
Unused == {"UNUSED_1", "UNUSED_2", "UNUSED_3", "UNUSED_4", "UNUSED_6", "UNUSED_12"}

-----------------------------------------------------------------------------
(* The configurations of the table.                                         *)
GPIO_OUTPUT == {"DIR"}
GPIO_INPUT == {}
TIMER_OUTPUT == {"SEL1", "DIR"}
USCI_PIN == {"SEL1", "SEL2", "DIR"}
UNUSED_CONFIG == {"REN", "DIR"}

(* The JR's unused pins are not in its table, which leaves them all zeros.  *)
io_initial_configs(p) ==
    CASE p \in Usci -> USCI_PIN
      [] p \in Pwm -> TIMER_OUTPUT
      [] p \in Cc \union Xshut \union {"TEST_LED"} -> GPIO_OUTPUT
      [] p \in Adc \union {"IR_REMOTE", "MID_INT"} -> GPIO_INPUT
      [] p \in Unused -> IF board = "JR" THEN GPIO_INPUT ELSE UNUSED_CONFIG

(* Writing a configuration: one write to each register, in this order.      *)
WriteAll(p, order, config) ==
    [i \in DOMAIN order |-> [pin |-> p, reg |-> order[i], on |-> order[i] \in config]]

(* Mutants: the direction before the selection; the output level left out.  *)
io_configure_dir_first(p, config) ==
    WriteAll(p, <<"DIR", "SEL1", "SEL2", "OUT", "REN">>, config)
io_configure_keeps_out(p, config) ==
    WriteAll(p, <<"SEL1", "SEL2", "DIR", "REN">>, config)

io_configure(p, config) ==
    WriteAll(p, <<"SEL1", "SEL2", "DIR", "OUT", "REN">>, config)

(* io_get_current_config and io_config_compare.                             *)
Configured(p, config) == bits[p] = config

Written(w) == IF w.on THEN bits[w.pin] \union {w.reg} ELSE bits[w.pin] \ {w.reg}

Write ==
    /\ todo # <<>>
    /\ bits' = [bits EXCEPT ![Head(todo).pin] = Written(Head(todo))]
    /\ todo' = Tail(todo)
    /\ UNCHANGED <<board, phase, io, inited, cause, resets>>

Idle(p) == phase = p /\ todo = <<>>

-----------------------------------------------------------------------------
(* mcu_init.  The five writes of io_detect_hw_type are to P3.4, which is    *)
(* the remote's pin on the JR and no pin at all on the LAUNCHPAD.           *)
mcu_init ==
    /\ Idle("reset") /\ phase' = "detect"
    /\ todo' = IF board = "JR"
               THEN WriteAll("IR_REMOTE", <<"SEL1", "SEL2", "DIR", "REN", "OUT">>, {})
               ELSE <<>>
    /\ UNCHANGED <<board, bits, io, inited, cause, resets>>

(* What P3.4 reads: the demodulator pulls it low while it hears a remote.   *)
P34 == IF board = "JR" THEN {"high", "low"} ELSE {"low"}

(* assert_handler.c, as a whole: what it makes of the registers.  The       *)
(* motors' view of the same writes is in Motors.                            *)
Lowered == At({26, 21, 22, 24, 25, 35, 36, 10})
Halt(why) ==
    /\ phase' = "halted" /\ cause' = why /\ todo' = <<>>
    /\ bits' = [p \in Pins |-> IF p \in Lowered THEN GPIO_OUTPUT
                               ELSE IF p = "UART_TX" THEN bits[p] \union {"SEL1", "SEL2"}
                               ELSE bits[p]]
    /\ UNCHANGED <<board, io, inited, resets>>

(* io_init: the board it was built for, then one pin after the other.       *)
Detect(level) ==
    /\ Idle("detect") /\ (level = "high") = (board = "JR")
    /\ phase' = "configure" /\ io' = 1
    /\ UNCHANGED <<board, bits, todo, inited, cause, resets>>

WrongBoard(level) ==
    /\ Idle("detect") /\ (level = "high") # (board = "JR")
    /\ Halt("remote")

io_init ==
    /\ Idle("configure") /\ io <= Len(PinMap[board])
    /\ todo' = io_configure(PinMap[board][io], io_initial_configs(PinMap[board][io]))
    /\ io' = io + 1
    /\ UNCHANGED <<board, bits, phase, inited, cause, resets>>

(* init_clocks and the interrupts touch no pin. *)
EnableInterrupts ==
    /\ Idle("configure") /\ io > Len(PinMap[board])
    /\ phase' = "running"
    /\ UNCHANGED <<board, bits, io, todo, inited, cause, resets>>

-----------------------------------------------------------------------------
(* The drivers' init functions: the pins each asserts, and the drivers it   *)
(* initialises on the way.  mid_interrupt is the last part of vl53l0x_init. *)
Driver == {"led", "pwm", "tb6612fng", "i2c", "vl53l0x", "mid_interrupt"}

Asserted(d) == Pins \cap
    CASE d = "led" -> {"TEST_LED"}
      [] d = "pwm" -> Pwm
      [] d = "tb6612fng" -> Cc
      [] d = "i2c" -> {"I2C_SCL", "I2C_SDA"}
      [] d = "vl53l0x" -> Xshut
      [] d = "mid_interrupt" -> {"MID_INT"}
Expected(d) ==
    CASE d \in {"led", "tb6612fng", "vl53l0x"} -> GPIO_OUTPUT
      [] d = "pwm" -> TIMER_OUTPUT
      [] d = "i2c" -> USCI_PIN
      [] d = "mid_interrupt" -> GPIO_INPUT
InitsWith(d) ==
    CASE d = "tb6612fng" -> {"tb6612fng", "pwm"}
      [] d = "vl53l0x" -> {"vl53l0x", "i2c"}
      [] OTHER -> {d}

Accepts(d) == \A e \in InitsWith(d) : \A p \in Asserted(e) : Configured(p, Expected(e))

Callable(d) ==
    /\ Idle("running") /\ InitsWith(d) \cap inited = {}
    /\ d = "mid_interrupt" => "vl53l0x" \in inited

DriverInit(d) ==
    /\ Callable(d)
    /\ IF Accepts(d) THEN /\ inited' = inited \union InitsWith(d)
                          /\ UNCHANGED <<board, bits, phase, io, todo, cause, resets>>
                     ELSE Halt("pins")

(* What the drivers write to their pins once they are initialised.          *)
io_set_out(p, high) == <<[pin |-> p, reg |-> "OUT", on |-> high]>>

Call(d, writes) ==
    /\ Idle("running") /\ d \in inited /\ todo' = writes
    /\ UNCHANGED <<board, bits, phase, io, inited, cause, resets>>

led_set(on) == Call("led", io_set_out("TEST_LED", on))
led_toggle == Call("led", io_set_out("TEST_LED", "OUT" \notin bits["TEST_LED"]))

(* tb6612fng_set_mode: the two control pins of a motor.                     *)
Mode == {"STOP", "FORWARD", "REVERSE"}

tb6612fng_set_mode(a, b, mode) ==
    /\ {a, b} \subseteq Pins
    /\ Call("tb6612fng", io_set_out(a, mode = "FORWARD") \o io_set_out(b, mode = "REVERSE"))

(* Mutant: the LAUNCHPAD build wakes the sensors it does not have.          *)
vl53l0x_set_hardware_standby_all(p) == Call("vl53l0x", io_set_out(p, TRUE))

vl53l0x_set_hardware_standby(p) == p \in Pins /\ Call("vl53l0x", io_set_out(p, TRUE))

(* An ASSERT of the application fails. *)
AssertFails == phase = "running" /\ Halt("application")

(* assert_blink_led *)
Blink ==
    /\ phase = "halted"
    /\ bits' = [p \in Pins |->
          IF p \notin At({10, 26}) THEN bits[p]
          ELSE IF "OUT" \in bits[p] THEN bits[p] \ {"OUT"} ELSE bits[p] \union {"OUT"}]
    /\ UNCHANGED <<board, phase, io, todo, inited, cause, resets>>

-----------------------------------------------------------------------------
(* A reset clears every register but PxOUT; P2.6 and P2.7 start selected.   *)
AfterReset(p, high) ==
    (IF p \in At({26, 27}) THEN {"SEL1"} ELSE {}) \union (IF high THEN {"OUT"} ELSE {})

Reset ==
    /\ resets < MaxResets /\ resets' = resets + 1
    /\ bits' = [p \in Pins |-> AfterReset(p, "OUT" \in bits[p])]
    /\ phase' = "reset" /\ io' = 0 /\ todo' = <<>> /\ inited' = {} /\ cause' = "none"
    /\ UNCHANGED board

Init ==
    /\ board \in Boards
    /\ \E high \in PowerUpOuts :
          bits = [p \in Pins |-> AfterReset(p, \E i \in high \cap DOMAIN PinMap[board] :
                                                   PinMap[board][i] = p)]
    /\ phase = "reset" /\ io = 0 /\ todo = <<>> /\ inited = {} /\ cause = "none"
    /\ resets = 0

Boot ==
    \/ mcu_init
    \/ \E level \in P34 : Detect(level) \/ WrongBoard(level)
    \/ io_init
    \/ EnableInterrupts
    \/ Write

Next ==
    \/ Boot
    \/ \E d \in Driver : DriverInit(d)
    \/ \E on \in BOOLEAN : led_set(on)
    \/ led_toggle
    \/ \E mode \in Mode :
          \/ tb6612fng_set_mode("AIN_1", "AIN_2", mode)
          \/ tb6612fng_set_mode("BIN_1", "BIN_2", mode)
    \/ \E p \in Xshut : vl53l0x_set_hardware_standby(p)
    \/ AssertFails
    \/ Blink
    \/ Reset

Spec == Init /\ [][Next]_vars

-----------------------------------------------------------------------------
TypeOK ==
    /\ board \in Boards
    /\ bits \in [Pins -> SUBSET Register]
    /\ phase \in {"reset", "detect", "configure", "running", "halted"}
    /\ io \in 0 .. Len(PinMap[board]) + 1
    /\ \A i \in DOMAIN todo : todo[i].pin \in Pins /\ todo[i].reg \in Register
    /\ inited \subseteq Driver
    /\ cause \in {"none", "remote", "application", "pins"}
    /\ resets \in 0 .. MaxResets

(* io_initial_configs, the order of io_configure's writes and the drivers'  *)
(* assertions (led.c:17, pwm.c:119, tb6612fng.c:56, i2c.c:214,              *)
(* vl53l0x.c:383 and 507) agree: whatever the registers held at power-up,   *)
(* whatever the last run left in PxOUT and in whatever order the drivers    *)
(* are initialised, none of them halts the robot over a pin.                *)
DriversAccept == cause # "pins"

(* A pin that a sensor, the remote or the debugger drives, and the motors'  *)
(* PWM inputs, which belong to the timer, are never driven by the port:     *)
(* not after a reset, when PxOUT still holds its old value, and not between *)
(* two writes of io_configure.  (The halted robot lowers and blinks pins of *)
(* both boards on purpose, assert_handler.c:43.)                            *)
PortDrives(p) == "DIR" \in bits[p] /\
    IF p \in Pwm THEN "SEL1" \notin bits[p] ELSE ~({"SEL1", "SEL2"} \subseteq bits[p])
PortKeepsOff ==
    phase # "halted" =>
        \A p \in Pins \cap (Adc \union Usci \union Pwm \union {"IR_REMOTE", "MID_INT"}) :
            ~PortDrives(p)

(* The pins that are the port's, and whether it drives or pulls one.        *)
Own == Pins \ (Adc \union {"IR_REMOTE", "MID_INT"})
Held(p) == bits[p] \cap {"DIR", "REN"} # {}

(* Never two sides drive a pin, and in the running program the port drives  *)
(* or pulls each pin that is its own.  The exception are the JR's unused    *)
(* pins P2.7, P3.0, P3.6 and P3.7: its part of the table (io.c:135) leaves  *)
(* them out, so they do float, against io.c:75.                             *)
OneDriver ==
    /\ PortKeepsOff
    /\ phase = "running" => \A p \in Own : Held(p) \/ (board = "JR" /\ p \in Unused)

=============================================================================
