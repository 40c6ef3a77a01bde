---------------------------- MODULE IoPinsProofs ----------------------------
(***************************************************************************)
(* The pins, for whatever the output registers hold at power-up and any    *)
(* number of resets: no driver halts the robot over a pin, and no pin is   *)
(* driven by two sides or left floating.                                   *)
(***************************************************************************)
EXTENDS IoPins, SequenceTheorems, TLAPS

-----------------------------------------------------------------------------
(* The table.                                                               *)

config(p) == io_initial_configs(p)
Inputs == Adc \union {"IR_REMOTE", "MID_INT"}
Outputs == Cc \union Xshut \union {"TEST_LED"}

LEMMA PinMapIs ==
    ASSUME board \in Boards
    PROVE  /\ board \in {"LAUNCHPAD", "JR"}
           /\ Len(PinMap[board]) \in Nat
           /\ DOMAIN PinMap[board] = 1 .. Len(PinMap[board])
           /\ \A j \in 1 .. Len(PinMap[board]) : PinMap[board][j] \in Pins
           /\ \A p \in Pins : \E j \in 1 .. Len(PinMap[board]) : p = PinMap[board][j]
           /\ \A p \in Pins : p \in Inputs \union Outputs \union Usci \union Pwm \union Unused
           /\ "TEST_LED" \in Pins /\ (board = "JR" => "IR_REMOTE" \in Pins)
<1>1. board \in {"LAUNCHPAD", "JR"}
  BY BoardAssumption
<1>2. CASE board = "LAUNCHPAD"
  <2> DEFINE M == <<"TEST_LED", "UART_RX", "UART_TX", "ADC_0", "UNUSED_1",
                    "UNUSED_2", "I2C_SCL", "I2C_SDA",
                    "IR_REMOTE", "UNUSED_6", "MID_INT", "XSHUT_MID", "AIN_2",
                    "AIN_1", "PWM_A", "UNUSED_12">>
  <2>1. PinMap[board] = M
    BY <1>2 DEF PinMap
  <2>2. DOMAIN M = 1 .. 16 /\ Len(M) = 16 /\ M[1] = "TEST_LED"
    OBVIOUS
  <2>3. \A j \in 1 .. 16 : M[j] \in Inputs \union Outputs \union Usci \union Pwm \union Unused
    BY DEF Inputs, Outputs, Adc, Cc, Xshut, Usci, Pwm, Unused
  <2> HIDE DEF M
  <2> QED BY <1>1, <1>2, <2>1, <2>2, <2>3 DEF Pins
<1>3. CASE board = "JR"
  <2> DEFINE M == <<"ADC_0", "UART_RX", "UART_TX", "ADC_3", "ADC_4", "ADC_5",
                    "I2C_SCL", "I2C_SDA",
                    "PWM_A", "PWM_B", "BIN_2", "BIN_1", "AIN_2", "AIN_1",
                    "TEST_LED", "UNUSED_1",
                    "UNUSED_2", "XSHUT_LEFT", "XSHUT_RIGHT", "XSHUT_MID",
                    "IR_REMOTE", "MID_INT", "UNUSED_3", "UNUSED_4">>
  <2>1. PinMap[board] = M
    BY <1>3 DEF PinMap
  <2>2. DOMAIN M = 1 .. 24 /\ Len(M) = 24 /\ M[15] = "TEST_LED" /\ M[21] = "IR_REMOTE"
    OBVIOUS
  <2>3. \A j \in 1 .. 24 : M[j] \in Inputs \union Outputs \union Usci \union Pwm \union Unused
    BY DEF Inputs, Outputs, Adc, Cc, Xshut, Usci, Pwm, Unused
  <2> HIDE DEF M
  <2> QED BY <1>1, <1>3, <2>1, <2>2, <2>3 DEF Pins
<1> QED BY <1>1, <1>2, <1>3

(* What the table holds for each kind of pin.                               *)
LEMMA ConfigIs ==
    ASSUME board \in Boards, NEW p \in Pins
    PROVE  /\ p \in Inputs => config(p) = {}
           /\ p \in Outputs => config(p) = {"DIR"}
           /\ p \in Usci => config(p) = {"SEL1", "SEL2", "DIR"}
           /\ p \in Pwm => config(p) = {"SEL1", "DIR"}
           /\ p \in Unused => config(p) = IF board = "JR" THEN {} ELSE {"REN", "DIR"}
           /\ config(p) \subseteq Register /\ "OUT" \notin config(p)
<1>1. p \in Inputs \union Outputs \union Usci \union Pwm \union Unused
  BY PinMapIs
<1>2. /\ p \in Inputs => p \notin Outputs \union Usci \union Pwm \union Unused
      /\ p \in Outputs => p \notin Usci \union Pwm \union Unused
      /\ p \in Usci => p \notin Pwm \union Unused
      /\ p \in Pwm => p \notin Unused
  BY DEF Inputs, Outputs, Adc, Cc, Xshut, Usci, Pwm, Unused
<1>3. /\ p \in Usci => config(p) = USCI_PIN
      /\ p \in Pwm => config(p) = TIMER_OUTPUT
      /\ p \in Outputs => config(p) = GPIO_OUTPUT
      /\ p \in Inputs => config(p) = GPIO_INPUT
      /\ p \in Unused => config(p) = IF board = "JR" THEN GPIO_INPUT ELSE UNUSED_CONFIG
  <2> HIDE DEF Usci, Pwm, Cc, Xshut, Adc, Unused
  <2> QED BY <1>1, <1>2 DEF config, io_initial_configs, Inputs, Outputs
<1> QED BY <1>1, <1>3
        DEF USCI_PIN, TIMER_OUTPUT, GPIO_OUTPUT, GPIO_INPUT, UNUSED_CONFIG, Register

LEMMA ExpectedIs ==
    ASSUME board \in Boards, NEW d \in Driver, NEW p \in Asserted(d)
    PROVE  p \in Pins /\ Expected(d) = config(p)
<1>1. d \in {"led", "pwm", "tb6612fng", "i2c", "vl53l0x", "mid_interrupt"}
  BY DEF Driver
<1>2. CASE d = "led"
  BY <1>2, ConfigIs DEF Asserted, Expected, Outputs, GPIO_OUTPUT
<1>3. CASE d = "pwm"
  BY <1>3, ConfigIs DEF Asserted, Expected, TIMER_OUTPUT
<1>4. CASE d = "tb6612fng"
  BY <1>4, ConfigIs DEF Asserted, Expected, Outputs, GPIO_OUTPUT
<1>5. CASE d = "i2c"
  BY <1>5, ConfigIs DEF Asserted, Expected, Usci, USCI_PIN
<1>6. CASE d = "vl53l0x"
  BY <1>6, ConfigIs DEF Asserted, Expected, Outputs, GPIO_OUTPUT
<1>7. CASE d = "mid_interrupt"
  BY <1>7, ConfigIs DEF Asserted, Expected, Inputs, GPIO_INPUT
<1> QED BY <1>1, <1>2, <1>3, <1>4, <1>5, <1>6, <1>7

(* No two drivers assert the same pin.                                      *)
LEMMA AssertedOnce ==
    ASSUME NEW d \in Driver, NEW e \in Driver, NEW p \in Asserted(d), p \in Asserted(e)
    PROVE  d = e
BY DEF Driver, Asserted, Pwm, Cc, Xshut

-----------------------------------------------------------------------------
(* What holds between the writes.                                           *)

Write1 == [pin : Pins, reg : Register, on : BOOLEAN]

(* io_configure's order, and the pin it works on.                           *)
RegisterOrder == <<"SEL1", "SEL2", "DIR", "OUT", "REN">>
Current == PinMap[board][io - 1]

(* A pin that somebody else drives: it has never been an output of the port.*)
Quiet(p) ==
    /\ p \in Inputs => "DIR" \notin bits[p]
    /\ p \in Usci /\ "DIR" \in bits[p] => {"SEL1", "SEL2"} \subseteq bits[p]
    /\ p \in Pwm /\ "DIR" \in bits[p] => "SEL1" \in bits[p]
QuietInv == phase # "halted" => \A p \in Pins : Quiet(p)

(* How far the loop of io_init has come.  Of the pin in work the registers  *)
(* already written hold what the table says.                                *)
LoopInv ==
    phase = "configure" =>
        /\ io >= 1 /\ Len(todo) =< 5
        /\ todo # <<>> =>
              /\ io >= 2
              /\ \A j \in 1 .. Len(todo) :
                    todo[j] = [pin |-> Current, reg |-> RegisterOrder[5 - Len(todo) + j],
                               on |-> RegisterOrder[5 - Len(todo) + j] \in config(Current)]
              /\ \A j \in 1 .. 5 - Len(todo) :
                    RegisterOrder[j] \in bits[Current] <=> RegisterOrder[j] \in config(Current)
        /\ \A j \in 1 .. io - 1 :
              todo = <<>> \/ PinMap[board][j] # Current =>
                  bits[PinMap[board][j]] = config(PinMap[board][j])

(* The running program writes only to PxOUT, of drivers it has initialised. *)
RunInv ==
    phase = "running" =>
        /\ \A p \in Pins : bits[p] \ {"OUT"} = config(p)
        /\ \A d \in Driver \ inited : \A p \in Asserted(d) : bits[p] = config(p)
        /\ \A j \in 1 .. Len(todo) :
              todo[j].reg = "OUT" /\ \E d \in inited : todo[j].pin \in Asserted(d)

OtherInv ==
    /\ phase \in {"reset", "halted"} => todo = <<>>
    /\ phase = "detect" => \A j \in 1 .. Len(todo) : todo[j].pin = "IR_REMOTE" /\ ~todo[j].on

IInv ==
    /\ TypeOK /\ todo \in Seq(Write1)
    /\ QuietInv /\ LoopInv /\ RunInv /\ OtherInv /\ DriversAccept

LEMMA BoardFixed ==
    ASSUME board' = board
    PROVE  /\ Pins' = Pins /\ Write1' = Write1
           /\ \A p : config(p)' = config(p)
           /\ \A d : Asserted(d)' = Asserted(d)
BY DEF Pins, Write1, config, io_initial_configs, Asserted

(* A sequence of typed writes is one TypeOK accepts.                        *)
LEMMA TodoType ==
    ASSUME todo \in Seq(Write1)
    PROVE  \A j \in DOMAIN todo : todo[j].pin \in Pins /\ todo[j].reg \in Register
<1>1. \A j \in DOMAIN todo : todo[j] \in Write1
  OBVIOUS
<1> QED BY <1>1 DEF Write1

(* What a write does.                                                       *)
LEMMA WriteIs ==
    ASSUME IInv, Write
    PROVE  /\ UNCHANGED <<board, phase, io, inited, cause, resets>>
           /\ Len(todo) \in Nat /\ Len(todo) >= 1
           /\ todo' \in Seq(Write1) /\ Len(todo') = Len(todo) - 1
           /\ \A j \in 1 .. Len(todo) - 1 : todo'[j] = todo[j + 1]
           /\ todo[1].pin \in Pins /\ todo[1].reg \in Register /\ todo[1].on \in BOOLEAN
           /\ bits' \in [Pins -> SUBSET Register]
           /\ \A p \in Pins : p # todo[1].pin => bits'[p] = bits[p]
           /\ bits'[todo[1].pin] = IF todo[1].on THEN bits[todo[1].pin] \union {todo[1].reg}
                                                 ELSE bits[todo[1].pin] \ {todo[1].reg}
<1>1. /\ todo \in Seq(Write1) /\ todo # <<>>
      /\ todo' = Tail(todo) /\ bits' = [bits EXCEPT ![Head(todo).pin] = Written(Head(todo))]
      /\ UNCHANGED <<board, phase, io, inited, cause, resets>>
      /\ bits \in [Pins -> SUBSET Register]
  BY DEF IInv, Write, TypeOK
<1>2. /\ Len(todo) \in Nat /\ Len(todo) >= 1 /\ Head(todo) = todo[1]
      /\ todo' \in Seq(Write1) /\ Len(todo') = Len(todo) - 1
      /\ \A j \in 1 .. Len(todo) - 1 : todo'[j] = todo[j + 1]
      /\ todo[1] \in Write1
  BY <1>1
<1>3. todo[1].pin \in Pins /\ todo[1].reg \in Register /\ todo[1].on \in BOOLEAN
  BY <1>2 DEF Write1
<1>4. Written(todo[1]) \in SUBSET Register
  BY <1>1, <1>3 DEF Written
<1> QED BY <1>1, <1>2, <1>3, <1>4 DEF Written

LEMMA WriteStep ==
    ASSUME IInv, Write
    PROVE  IInv'
<1> DEFINE w == todo[1]
<1>1. /\ UNCHANGED <<board, phase, io, inited, cause, resets>>
      /\ Len(todo) \in Nat /\ Len(todo) >= 1
      /\ todo' \in Seq(Write1) /\ Len(todo') = Len(todo) - 1
      /\ \A j \in 1 .. Len(todo) - 1 : todo'[j] = todo[j + 1]
      /\ w.pin \in Pins /\ w.reg \in Register /\ w.on \in BOOLEAN
      /\ bits' \in [Pins -> SUBSET Register]
      /\ \A p \in Pins : p # w.pin => bits'[p] = bits[p]
      /\ bits'[w.pin] = IF w.on THEN bits[w.pin] \union {w.reg}
                                ELSE bits[w.pin] \ {w.reg}
  BY WriteIs
<1>2. board \in Boards /\ bits \in [Pins -> SUBSET Register] /\ phase \notin {"reset", "halted"}
  BY <1>1 DEF IInv, TypeOK, OtherInv
<1>3. 1 \in 1 .. Len(todo) /\ \A j \in 1 .. Len(todo) - 1 : j + 1 \in 1 .. Len(todo)
  BY <1>1
<1> HIDE DEF w
<1>4. TypeOK' /\ (todo \in Seq(Write1))'
  <2>1. \A j \in DOMAIN todo' : todo'[j].pin \in Pins /\ todo'[j].reg \in Register
    <3>1. \A j \in DOMAIN todo' : todo'[j] \in Write1
      BY <1>1
    <3> QED BY <3>1 DEF Write1
  <2> QED BY <1>1, <2>1, BoardFixed DEF IInv, TypeOK
<1>5. OtherInv'
  BY <1>1, <1>2, <1>3 DEF IInv, OtherInv
<1>6. DriversAccept'
  BY <1>1 DEF IInv, DriversAccept
<1>7. ASSUME phase = "configure"
      PROVE  LoopInv' /\ \A p \in Pins : Quiet(p)'
  <2>0. Len(todo) \in 1 .. 5 /\ todo # <<>> /\ io >= 2 /\ Current' = Current
    <3>1. todo # <<>>
      BY DEF Write
    <3>2. Len(todo) =< 5 /\ io >= 2
      BY <1>7, <3>1 DEF IInv, LoopInv
    <3>3. Current' = Current
      BY <1>1 DEF Current
    <3> QED BY <1>1, <3>1, <3>2, <3>3
  <2>a. PICK n \in 1 .. 5 : n = Len(todo)
    BY <2>0
  <2>b. io \in Nat /\ io =< Len(PinMap[board]) + 1
    BY <1>2, PinMapIs DEF IInv, TypeOK
  <2>1. todo # <<>> /\ io >= 2 /\ Current' = Current /\ io \in Nat
        /\ io =< Len(PinMap[board]) + 1 /\ n = Len(todo)
    BY <2>0, <2>a, <2>b
  <2>2. w = [pin |-> Current, reg |-> RegisterOrder[6 - n],
             on |-> RegisterOrder[6 - n] \in config(Current)]
    <3>1. 5 - n + 1 = 6 - n
      BY <2>1
    <3> QED BY <1>3, <1>7, <2>1, <3>1 DEF IInv, LoopInv, w
  <2>3. /\ w.pin = Current /\ w.reg = RegisterOrder[6 - n]
        /\ w.on = (RegisterOrder[6 - n] \in config(Current))
    BY <2>2
  <2>4. Current \in Pins /\ config(Current) \subseteq Register
    BY <1>1, <1>2, <2>3, ConfigIs
  <2>5. \A j \in 1 .. 5 - n :
            RegisterOrder[j] \in bits[Current] <=> RegisterOrder[j] \in config(Current)
    BY <1>7, <2>1 DEF IInv, LoopInv
  <2>6. /\ \A j \in 1 .. 5 - n : RegisterOrder[j] # RegisterOrder[6 - n]
        /\ 6 - n \in 1 .. 5
    <3>1. \A j, l \in 1 .. 5 : RegisterOrder[j] = RegisterOrder[l] => j = l
      BY DEF RegisterOrder
    <3>2. 6 - n \in 1 .. 5 /\ \A j \in 1 .. 5 - n : j \in 1 .. 5 /\ j # 6 - n
      OBVIOUS
    <3> QED BY <3>1, <3>2
  <2>7. \A j \in 1 .. 6 - n :
            RegisterOrder[j] \in bits'[Current] <=> RegisterOrder[j] \in config(Current)
    <3> SUFFICES ASSUME NEW j \in 1 .. 6 - n
                 PROVE  RegisterOrder[j] \in bits'[Current] <=> RegisterOrder[j] \in config(Current)
      OBVIOUS
    <3>1. CASE j = 6 - n
      BY <1>1, <2>3, <3>1
    <3>2. CASE j # 6 - n
      <4>1. j \in 1 .. 5 - n
        BY <2>1, <3>2
      <4>2. RegisterOrder[j] \in bits'[Current] <=> RegisterOrder[j] \in bits[Current]
        BY <1>1, <2>3, <2>6, <4>1
      <4> QED BY <2>5, <4>1, <4>2
    <3> QED BY <3>1, <3>2
  <2>8. n = 1 => bits'[Current] = config(Current)
    <3> SUFFICES ASSUME n = 1 PROVE bits'[Current] = config(Current)
      OBVIOUS
    <3>1. \A j \in 1 .. 5 :
              RegisterOrder[j] \in bits'[Current] <=> RegisterOrder[j] \in config(Current)
      BY <2>7
    <3>2. \A r \in Register : r \in bits'[Current] <=> r \in config(Current)
      <4>1. \A r \in Register : \E j \in 1 .. 5 : r = RegisterOrder[j]
        BY DEF Register, RegisterOrder
      <4> QED BY <3>1, <4>1
    <3> QED BY <1>1, <2>4, <3>2
  <2>9. LoopInv'
    <3>1. Len(todo') =< 5 /\ (todo' = <<>> <=> n = 1)
      BY <1>1, <2>1
    <3>2. \A j \in 1 .. Len(todo') :
              todo'[j] = [pin |-> Current, reg |-> RegisterOrder[5 - Len(todo') + j],
                          on |-> RegisterOrder[5 - Len(todo') + j] \in config(Current)]
      <4> SUFFICES ASSUME NEW j \in 1 .. n - 1
                   PROVE  todo'[j] = [pin |-> Current, reg |-> RegisterOrder[5 - (n - 1) + j],
                                      on |-> RegisterOrder[5 - (n - 1) + j] \in config(Current)]
        BY <1>1, <2>1
      <4>1. 5 - n + (j + 1) = 5 - (n - 1) + j /\ j + 1 \in 1 .. n
        BY <2>1
      <4>2. todo[j + 1] = [pin |-> Current, reg |-> RegisterOrder[5 - n + (j + 1)],
                           on |-> RegisterOrder[5 - n + (j + 1)] \in config(Current)]
        BY <1>7, <2>1, <4>1 DEF IInv, LoopInv
      <4>3. todo'[j] = todo[j + 1]
        BY <1>1, <2>1
      <4> QED BY <4>1, <4>2, <4>3
    <3>3. \A j \in 1 .. 5 - Len(todo') :
              RegisterOrder[j] \in bits'[Current] <=> RegisterOrder[j] \in config(Current)
      <4>1. 5 - Len(todo') = 6 - n
        BY <1>1, <2>1
      <4> QED BY <2>7, <4>1
    <3>4. \A j \in 1 .. io - 1 :
              todo' = <<>> \/ PinMap[board][j] # Current =>
                  bits'[PinMap[board][j]] = config(PinMap[board][j])
      <4> SUFFICES ASSUME NEW j \in 1 .. io - 1,
                          todo' = <<>> \/ PinMap[board][j] # Current
                   PROVE  bits'[PinMap[board][j]] = config(PinMap[board][j])
        OBVIOUS
      <4>1. CASE PinMap[board][j] = Current
        BY <2>8, <3>1, <4>1
      <4>2. CASE PinMap[board][j] # Current
        <5>1. bits[PinMap[board][j]] = config(PinMap[board][j])
          BY <1>7, <4>2 DEF IInv, LoopInv
        <5>2. PinMap[board][j] \in Pins
          <6>1. j \in 1 .. Len(PinMap[board])
            BY <1>2, <2>1, PinMapIs
          <6> QED BY <1>2, <6>1, PinMapIs
        <5> QED BY <1>1, <2>3, <4>2, <5>1, <5>2
      <4> QED BY <4>1, <4>2
    <3> QED BY <1>1, <2>1, <3>1, <3>2, <3>3, <3>4, BoardFixed DEF LoopInv
  <2>10. ASSUME NEW c \in Pins, c = Current PROVE Quiet(c)'
    <3>0. w.pin = c /\ bits[c] \subseteq Register /\ bits'[c] \subseteq Register
      BY <1>1, <1>2, <2>3, <2>10
    <3>1. Quiet(c)
      BY <1>7 DEF IInv, QuietInv
    <3>2. ASSUME w.reg \in {"SEL1", "SEL2"}
          PROVE  /\ "DIR" \in bits'[c] <=> "DIR" \in bits[c]
                 /\ \A r \in config(c) \cap {"SEL1", "SEL2"} :
                       r \in bits[c] => r \in bits'[c]
      <4>1. w.on <=> w.reg \in config(c)
        BY <2>3, <2>10
      <4>2. CASE w.on
        <5>1. bits'[c] = bits[c] \union {w.reg}
          BY <1>1, <3>0, <4>2
        <5> QED BY <3>2, <5>1
      <4>3. CASE ~w.on
        <5>1. bits'[c] = bits[c] \ {w.reg}
          BY <1>1, <3>0, <4>3
        <5> QED BY <3>2, <4>1, <4>3, <5>1
      <4> QED BY <4>2, <4>3
    <3>3. CASE n \in {4, 5}
      <4>1. w.reg \in {"SEL1", "SEL2"}
        <5>1. 6 - n \in {1, 2}
          BY <3>3
        <5> QED BY <2>3, <5>1 DEF RegisterOrder
      <4> QED BY <1>2, <3>1, <3>2, <4>1, ConfigIs DEF Quiet
    <3>4. CASE n \in {1, 2, 3}
      <4>1. \A r \in {"SEL1", "SEL2", "DIR"} : r \in bits'[c] <=> r \in config(c)
        <5>1. /\ 1 \in 1 .. 6 - n /\ 2 \in 1 .. 6 - n /\ 3 \in 1 .. 6 - n
              /\ RegisterOrder[1] = "SEL1" /\ RegisterOrder[2] = "SEL2"
              /\ RegisterOrder[3] = "DIR"
          BY <3>4 DEF RegisterOrder
        <5> QED BY <2>7, <2>10, <5>1
      <4>2. /\ c \in Inputs => "DIR" \notin config(c)
            /\ c \in Usci => {"SEL1", "SEL2"} \subseteq config(c)
            /\ c \in Pwm => "SEL1" \in config(c)
        BY <1>2, ConfigIs
      <4> QED BY <4>1, <4>2 DEF Quiet
    <3> QED BY <3>3, <3>4
  <2>11. \A p \in Pins : p # Current => Quiet(p)'
    <3>1. \A p \in Pins : Quiet(p)
      BY <1>7 DEF IInv, QuietInv
    <3> QED BY <1>1, <2>3, <3>1 DEF Quiet
  <2>12. \A p \in Pins : Quiet(p)'
    BY <2>10, <2>11
  <2> QED BY <2>9, <2>12
<1>8. ASSUME phase = "running"
      PROVE  RunInv' /\ \A p \in Pins : Quiet(p)'
  <2>1. /\ \A p \in Pins : bits[p] \ {"OUT"} = config(p)
        /\ \A d \in Driver \ inited : \A p \in Asserted(d) : bits[p] = config(p)
        /\ \A j \in 1 .. Len(todo) :
              todo[j].reg = "OUT" /\ \E d \in inited : todo[j].pin \in Asserted(d)
    BY <1>8 DEF IInv, RunInv
  <2>2. w.reg = "OUT" /\ \E d \in inited : w.pin \in Asserted(d)
    BY <1>3, <2>1 DEF w
  <2>3. \A p \in Pins : bits'[p] \ {"OUT"} = bits[p] \ {"OUT"}
    BY <1>1, <2>2
  <2>4. \A d \in Driver \ inited : \A p \in Asserted(d) : bits'[p] = config(p)
    <3>1. inited \subseteq Driver
      BY DEF IInv, TypeOK
    <3>2. \A d \in Driver \ inited : \A p \in Asserted(d) : p # w.pin /\ p \in Pins
      BY <1>2, <2>2, <3>1, AssertedOnce, ExpectedIs
    <3> QED BY <1>1, <2>1, <3>2
  <2>5. \A j \in 1 .. Len(todo') :
            todo'[j].reg = "OUT" /\ \E d \in inited : todo'[j].pin \in Asserted(d)
    BY <1>1, <1>3, <2>1
  <2>6. RunInv'
    BY <1>1, <2>1, <2>3, <2>4, <2>5, BoardFixed DEF RunInv
  <2>7. \A p \in Pins : Quiet(p)'
    <3>1. \A p \in Pins : Quiet(p)
      BY <1>8 DEF IInv, QuietInv
    <3>2. \A p \in Pins, r \in {"SEL1", "SEL2", "DIR"} : r \in bits'[p] <=> r \in bits[p]
      BY <2>3
    <3> QED BY <3>1, <3>2 DEF Quiet
  <2> QED BY <2>6, <2>7
<1>9. ASSUME phase = "detect"
      PROVE  \A p \in Pins : Quiet(p)'
  <2>1. w.pin = "IR_REMOTE" /\ ~w.on
    BY <1>3, <1>9 DEF IInv, OtherInv, w
  <2>2. w.pin \notin Usci /\ w.pin \notin Pwm
    BY <2>1 DEF Usci, Pwm
  <2>3. \A p \in Pins : Quiet(p)
    BY <1>9 DEF IInv, QuietInv
  <2> QED BY <1>1, <2>1, <2>2, <2>3 DEF Quiet
<1>10. QuietInv' /\ LoopInv' /\ RunInv'
  <2>1. phase \in {"detect", "configure", "running"}
    BY <1>2 DEF IInv, TypeOK
  <2> QED BY <1>1, <1>7, <1>8, <1>9, <2>1, BoardFixed DEF QuietInv, LoopInv, RunInv
<1> QED BY <1>4, <1>5, <1>6, <1>10 DEF IInv

(* The writes of a configuration, as a sequence.                            *)
LEMMA WriteAllIs ==
    ASSUME NEW p \in Pins, NEW order \in Seq(Register), NEW config1, Len(order) = 5
    PROVE  /\ WriteAll(p, order, config1) \in Seq(Write1)
           /\ Len(WriteAll(p, order, config1)) = 5
           /\ \A j \in 1 .. 5 : WriteAll(p, order, config1)[j] =
                  [pin |-> p, reg |-> order[j], on |-> order[j] \in config1]
<1>0. DOMAIN order = 1 .. 5
  OBVIOUS
<1>1. DOMAIN order = 1 .. 5 /\ \A j \in 1 .. 5 : order[j] \in Register
  <2>1. \A j \in 1 .. 5 : order[j] \in Register
    BY ElementOfSeq
  <2> QED BY <1>0, <2>1
<1> DEFINE f == [j \in 1 .. 5 |-> [pin |-> p, reg |-> order[j], on |-> order[j] \in config1]]
<1>2. WriteAll(p, order, config1) = f
  BY <1>1 DEF WriteAll
<1>3. \A j \in 1 .. 5 : f[j] \in Write1
  BY <1>1 DEF Write1
<1>4. f \in Seq(Write1) /\ Len(f) = 5
  BY <1>3
<1> QED BY <1>2, <1>4

LEMMA McuInitStep ==
    ASSUME IInv, mcu_init
    PROVE  IInv'
<1>1. /\ UNCHANGED <<board, bits, io, inited, cause, resets>> /\ board \in Boards
      /\ phase = "reset" /\ phase' = "detect"
  BY DEF mcu_init, Idle, IInv, TypeOK
<1>2. todo' \in Seq(Write1) /\ \A j \in 1 .. Len(todo') : todo'[j].pin = "IR_REMOTE" /\ ~todo'[j].on
  <2> DEFINE order == <<"SEL1", "SEL2", "DIR", "REN", "OUT">>
  <2>1. order \in Seq(Register) /\ Len(order) = 5
    BY DEF Register
  <2>2. CASE board = "JR"
    <3>1. "IR_REMOTE" \in Pins /\ todo' = WriteAll("IR_REMOTE", order, {})
      BY <1>1, <2>2, PinMapIs DEF mcu_init
    <3> HIDE DEF order
    <3>2. /\ todo' \in Seq(Write1) /\ Len(todo') = 5
          /\ \A j \in 1 .. 5 : todo'[j] = [pin |-> "IR_REMOTE", reg |-> order[j], on |-> order[j] \in {}]
      BY <2>1, <3>1, WriteAllIs
    <3>3. \A j \in 1 .. 5 : todo'[j].pin = "IR_REMOTE" /\ todo'[j].on = FALSE
      <4> SUFFICES ASSUME NEW j \in 1 .. 5
                   PROVE  todo'[j].pin = "IR_REMOTE" /\ todo'[j].on = FALSE
        OBVIOUS
      <4>1. todo'[j] = [pin |-> "IR_REMOTE", reg |-> order[j], on |-> order[j] \in {}]
        BY <3>2
      <4>2. (order[j] \in {}) = FALSE
        OBVIOUS
      <4>3. todo'[j] = [pin |-> "IR_REMOTE", reg |-> order[j], on |-> FALSE]
        BY <4>1, <4>2
      <4> QED BY <4>3
    <3> QED BY <3>2, <3>3
  <2>3. CASE board # "JR"
    BY <2>3 DEF mcu_init
  <2> QED BY <2>2, <2>3
<1>3. \A j \in DOMAIN todo' : todo'[j].pin \in Pins /\ todo'[j].reg \in Register
  <2>1. \A j \in DOMAIN todo' : todo'[j] \in Write1
    BY <1>2
  <2> QED BY <2>1 DEF Write1
<1>4. QuietInv'
  BY <1>1, BoardFixed DEF IInv, QuietInv, Quiet
<1> QED BY <1>1, <1>2, <1>3, <1>4, BoardFixed
        DEF IInv, TypeOK, LoopInv, RunInv, OtherInv, DriversAccept

LEMMA HaltStep ==
    ASSUME IInv, NEW why \in {"remote", "application"}, Halt(why)
    PROVE  IInv'
<1>1. /\ UNCHANGED <<board, io, inited, resets>> /\ board \in Boards
      /\ phase' = "halted" /\ cause' = why /\ todo' = <<>>
      /\ bits \in [Pins -> SUBSET Register]
      /\ bits' = [p \in Pins |-> IF p \in Lowered THEN GPIO_OUTPUT
                               ELSE IF p = "UART_TX" THEN bits[p] \union {"SEL1", "SEL2"}
                               ELSE bits[p]]
  BY DEF Halt, IInv, TypeOK
<1>2. bits' \in [Pins -> SUBSET Register]
  <2>1. GPIO_OUTPUT \subseteq Register /\ {"SEL1", "SEL2"} \subseteq Register
    BY DEF GPIO_OUTPUT, Register
  <2> HIDE DEF Register
  <2> QED BY <1>1, <2>1
<1> QED BY <1>1, <1>2, BoardFixed
        DEF IInv, TypeOK, QuietInv, LoopInv, RunInv, OtherInv, DriversAccept

LEMMA DetectStep ==
    ASSUME IInv, NEW level, Detect(level)
    PROVE  IInv'
<1>1. /\ UNCHANGED <<board, bits, todo, inited, cause, resets>> /\ board \in Boards
      /\ phase = "detect" /\ phase' = "configure" /\ io' = 1 /\ todo = <<>>
  BY DEF Detect, Idle, IInv, TypeOK
<1>2. io' \in 0 .. Len(PinMap[board]) + 1
  BY <1>1, PinMapIs
<1>3. QuietInv'
  BY <1>1, BoardFixed DEF IInv, QuietInv, Quiet
<1>4. LoopInv'
  BY <1>1 DEF LoopInv
<1> QED BY <1>1, <1>2, <1>3, <1>4, BoardFixed
        DEF IInv, TypeOK, RunInv, OtherInv, DriversAccept

LEMMA IoInitStep ==
    ASSUME IInv, io_init
    PROVE  IInv'
<1>1. /\ UNCHANGED <<board, bits, phase, inited, cause, resets>> /\ board \in Boards
      /\ phase = "configure" /\ todo = <<>> /\ io' = io + 1 /\ io =< Len(PinMap[board])
      /\ todo' = WriteAll(PinMap[board][io], RegisterOrder, config(PinMap[board][io]))
  BY DEF io_init, Idle, io_configure, RegisterOrder, config, IInv, TypeOK
<1>2. io \in Nat /\ io >= 1 /\ Len(PinMap[board]) \in Nat /\ io + 1 - 1 = io
  BY <1>1, PinMapIs DEF IInv, TypeOK, LoopInv
<1>3. PICK p \in Pins : p = PinMap[board][io]
  BY <1>1, <1>2, PinMapIs
<1>4. Current' = p
  BY <1>1, <1>2, <1>3 DEF Current
<1>5. /\ todo' \in Seq(Write1) /\ Len(todo') = 5
      /\ \A j \in 1 .. 5 : todo'[j] =
              [pin |-> p, reg |-> RegisterOrder[j], on |-> RegisterOrder[j] \in config(p)]
  <2>1. RegisterOrder \in Seq(Register) /\ Len(RegisterOrder) = 5
    BY DEF RegisterOrder, Register
  <2> QED BY <1>1, <1>3, <2>1, WriteAllIs
<1>6. TypeOK' /\ (todo \in Seq(Write1))'
  <2>0. todo' \in Seq(Write1)
    BY <1>5
  <2>1. \A j \in DOMAIN todo' : todo'[j].pin \in Pins /\ todo'[j].reg \in Register
    <3>1. \A j \in DOMAIN todo' : todo'[j] \in Write1
      BY <2>0
    <3> QED BY <3>1 DEF Write1
  <2>2. io' \in 0 .. Len(PinMap[board]) + 1
    BY <1>1, <1>2
  <2> QED BY <1>1, <1>5, <2>1, <2>2, BoardFixed DEF IInv, TypeOK
<1>7. LoopInv'
  <2>1. \A j \in 1 .. Len(todo') :
            todo'[j] = [pin |-> p, reg |-> RegisterOrder[5 - Len(todo') + j],
                        on |-> RegisterOrder[5 - Len(todo') + j] \in config(p)]
    <3>1. \A j \in 1 .. 5 : 5 - 5 + j = j
      OBVIOUS
    <3> QED BY <1>5, <3>1
  <2>2. \A j \in 1 .. 5 - Len(todo') : FALSE
    BY <1>5
  <2>3. \A j \in 1 .. io : PinMap[board][j] # p => bits[PinMap[board][j]] = config(PinMap[board][j])
    <3> SUFFICES ASSUME NEW j \in 1 .. io, PinMap[board][j] # p
                 PROVE  bits[PinMap[board][j]] = config(PinMap[board][j])
      OBVIOUS
    <3>1. j \in 1 .. io - 1
      BY <1>2, <1>3
    <3> QED BY <1>1, <3>1 DEF IInv, LoopInv
  <2>4. io' - 1 = io /\ io' >= 2 /\ Len(todo') =< 5 /\ todo' # <<>>
    BY <1>1, <1>2, <1>5
  <2> QED BY <1>1, <1>4, <2>1, <2>2, <2>3, <2>4, BoardFixed DEF LoopInv
<1>8. QuietInv'
  BY <1>1, BoardFixed DEF IInv, QuietInv, Quiet
<1> QED BY <1>1, <1>6, <1>7, <1>8 DEF IInv, RunInv, OtherInv, DriversAccept

LEMMA EnableStep ==
    ASSUME IInv, EnableInterrupts
    PROVE  IInv'
<1>1. /\ UNCHANGED <<board, bits, io, todo, inited, cause, resets>> /\ board \in Boards
      /\ phase = "configure" /\ phase' = "running" /\ todo = <<>> /\ io > Len(PinMap[board])
  BY DEF EnableInterrupts, Idle, IInv, TypeOK
<1>2. \A p \in Pins : bits[p] = config(p)
  <2> SUFFICES ASSUME NEW p \in Pins PROVE bits[p] = config(p)
    OBVIOUS
  <2>1. PICK j \in 1 .. Len(PinMap[board]) : p = PinMap[board][j]
    BY <1>1, PinMapIs
  <2>2. j \in 1 .. io - 1
    BY <1>1, PinMapIs DEF IInv, TypeOK
  <2> QED BY <1>1, <2>1, <2>2 DEF IInv, LoopInv
<1>3. RunInv'
  <2>1. \A p \in Pins : bits[p] \ {"OUT"} = config(p)
    BY <1>1, <1>2, ConfigIs
  <2>2. \A d \in Driver \ inited : \A p \in Asserted(d) : bits[p] = config(p)
    BY <1>1, <1>2, ExpectedIs
  <2> QED BY <1>1, <2>1, <2>2, BoardFixed DEF RunInv
<1>4. QuietInv'
  BY <1>1, BoardFixed DEF IInv, QuietInv, Quiet
<1> QED BY <1>1, <1>3, <1>4, BoardFixed DEF IInv, TypeOK, LoopInv, OtherInv, DriversAccept

LEMMA DriverInitStep ==
    ASSUME IInv, NEW d \in Driver, DriverInit(d)
    PROVE  IInv'
<1>1. board \in Boards /\ phase = "running" /\ todo = <<>> /\ InitsWith(d) \cap inited = {}
  BY DEF DriverInit, Callable, Idle, IInv, TypeOK
<1>2. InitsWith(d) \subseteq Driver
  BY DEF InitsWith, Driver
<1>3. Accepts(d)
  <2> SUFFICES ASSUME NEW e \in InitsWith(d), NEW p \in Asserted(e)
               PROVE  bits[p] = Expected(e)
    BY DEF Accepts, Configured
  <2>1. e \in Driver \ inited
    BY <1>1, <1>2
  <2> QED BY <1>1, <2>1, ExpectedIs DEF IInv, RunInv
<1>4. inited' = inited \union InitsWith(d) /\ UNCHANGED <<board, bits, phase, io, todo, cause, resets>>
  BY <1>3 DEF DriverInit
<1>5. RunInv'
  BY <1>1, <1>4, BoardFixed DEF IInv, RunInv
<1>6. QuietInv'
  BY <1>4, BoardFixed DEF IInv, QuietInv, Quiet
<1> QED BY <1>1, <1>2, <1>4, <1>5, <1>6, BoardFixed
        DEF IInv, TypeOK, LoopInv, OtherInv, DriversAccept

(* A driver writes to PxOUT of its own pins.                                *)
LEMMA CallStep ==
    ASSUME IInv, NEW d \in Driver, NEW writes \in Seq(Write1), Call(d, writes),
           \A j \in 1 .. Len(writes) : writes[j].reg = "OUT" /\ writes[j].pin \in Asserted(d)
    PROVE  IInv'
<1>1. /\ UNCHANGED <<board, bits, phase, io, inited, cause, resets>> /\ board \in Boards
      /\ phase = "running" /\ d \in inited /\ todo' = writes
  BY DEF Call, Idle, IInv, TypeOK
<1>2. RunInv'
  BY <1>1, BoardFixed DEF IInv, RunInv
<1>3. \A j \in DOMAIN todo' : todo'[j].pin \in Pins /\ todo'[j].reg \in Register
  <2>1. \A j \in DOMAIN todo' : todo'[j] \in Write1
    BY <1>1
  <2> QED BY <2>1 DEF Write1
<1>4. QuietInv'
  BY <1>1, BoardFixed DEF IInv, QuietInv, Quiet
<1> QED BY <1>1, <1>2, <1>3, <1>4, BoardFixed
        DEF IInv, TypeOK, LoopInv, OtherInv, DriversAccept

LEMMA SetOutIs ==
    ASSUME NEW p \in Pins, NEW high \in BOOLEAN
    PROVE  /\ io_set_out(p, high) \in Seq(Write1) /\ Len(io_set_out(p, high)) = 1
           /\ io_set_out(p, high)[1].reg = "OUT" /\ io_set_out(p, high)[1].pin = p
<1>1. [pin |-> p, reg |-> "OUT", on |-> high] \in Write1
  BY DEF Write1, Register
<1> QED BY <1>1 DEF io_set_out

LEMMA LedStep ==
    ASSUME IInv, NEW on \in BOOLEAN, led_set(on) \/ led_toggle
    PROVE  IInv'
<1>1. "TEST_LED" \in Pins /\ "led" \in Driver /\ "TEST_LED" \in Asserted("led")
  BY PinMapIs DEF IInv, TypeOK, Driver, Asserted
<1>2. PICK high \in BOOLEAN : Call("led", io_set_out("TEST_LED", high))
  BY DEF led_set, led_toggle
<1> QED BY <1>1, <1>2, SetOutIs, CallStep

(* What appending does to the elements.                                    *)
LEMMA Appended ==
    ASSUME NEW U, NEW s \in Seq(U), NEW t \in Seq(U)
    PROVE  /\ \A j \in 1 .. Len(s) : (s \o t)[j] = s[j]
           /\ \A j \in 1 .. Len(t) : (s \o t)[Len(s) + j] = t[j]
OBVIOUS

LEMMA PairIs ==
    ASSUME NEW U, NEW s \in Seq(U), NEW t \in Seq(U), Len(s) = 1, Len(t) = 1
    PROVE  (s \o t)[1] = s[1] /\ (s \o t)[2] = t[1]
<1>1. 1 \in 1 .. Len(s) /\ 1 \in 1 .. Len(t) /\ Len(s) + 1 = 2
  OBVIOUS
<1>2. (s \o t)[1] = s[1] /\ (s \o t)[Len(s) + 1] = t[1]
  BY <1>1, Appended
<1> QED BY <1>1, <1>2

LEMMA ModeStep ==
    ASSUME IInv, NEW a \in Cc, NEW b \in Cc, NEW mode \in Mode,
           tb6612fng_set_mode(a, b, mode)
    PROVE  IInv'
<1> DEFINE u == io_set_out(a, mode = "FORWARD")  v == io_set_out(b, mode = "REVERSE")
<1>1. /\ a \in Asserted("tb6612fng") /\ b \in Asserted("tb6612fng")
      /\ a \in Pins /\ b \in Pins /\ "tb6612fng" \in Driver
  BY DEF tb6612fng_set_mode, Asserted, Driver
<1>2. /\ u \in Seq(Write1) /\ Len(u) = 1 /\ u[1].reg = "OUT" /\ u[1].pin = a
      /\ v \in Seq(Write1) /\ Len(v) = 1 /\ v[1].reg = "OUT" /\ v[1].pin = b
  BY <1>1, SetOutIs
<1>3. Call("tb6612fng", u \o v)
  BY DEF tb6612fng_set_mode
<1> HIDE DEF u, v
<1>4. /\ u \o v \in Seq(Write1) /\ Len(u \o v) = 2
      /\ (u \o v)[1] = u[1] /\ (u \o v)[2] = v[1]
  <2>1. u \in Seq(Write1) /\ v \in Seq(Write1) /\ Len(u) = 1 /\ Len(v) = 1
    BY <1>2
  <2>2. u \o v \in Seq(Write1)
    BY <2>1
  <2>3. Len(u \o v) = 2
    BY <2>1
  <2>4. (u \o v)[1] = u[1] /\ (u \o v)[2] = v[1]
    BY <2>1, PairIs
  <2> QED BY <2>2, <2>3, <2>4
<1>5. \A j \in 1 .. Len(u \o v) :
          (u \o v)[j].reg = "OUT" /\ (u \o v)[j].pin \in Asserted("tb6612fng")
  BY <1>1, <1>2, <1>4
<1> QED BY <1>1, <1>3, <1>4, <1>5, CallStep

LEMMA StandbyStep ==
    ASSUME IInv, NEW p \in Xshut, vl53l0x_set_hardware_standby(p)
    PROVE  IInv'
<1>1. p \in Pins /\ "vl53l0x" \in Driver /\ p \in Asserted("vl53l0x")
  BY DEF vl53l0x_set_hardware_standby, Driver, Asserted
<1>2. Call("vl53l0x", io_set_out(p, TRUE))
  BY DEF vl53l0x_set_hardware_standby
<1>3. /\ io_set_out(p, TRUE) \in Seq(Write1) /\ Len(io_set_out(p, TRUE)) = 1
      /\ io_set_out(p, TRUE)[1].reg = "OUT" /\ io_set_out(p, TRUE)[1].pin = p
  BY <1>1, SetOutIs
<1>4. \A j \in 1 .. Len(io_set_out(p, TRUE)) :
          /\ io_set_out(p, TRUE)[j].reg = "OUT"
          /\ io_set_out(p, TRUE)[j].pin \in Asserted("vl53l0x")
  <2>1. \A j \in 1 .. 1 : j = 1
    OBVIOUS
  <2> QED BY <1>1, <1>3, <2>1
<1> QED BY <1>1, <1>2, <1>3, <1>4, CallStep

LEMMA BlinkStep ==
    ASSUME IInv, Blink
    PROVE  IInv'
<1>1. /\ UNCHANGED <<board, phase, io, todo, inited, cause, resets>>
      /\ phase = "halted" /\ bits \in [Pins -> SUBSET Register]
  BY DEF Blink, IInv, TypeOK
<1>2. bits' \in [Pins -> SUBSET Register]
  <2>1. "OUT" \in Register
    BY DEF Register
  <2> HIDE DEF Register
  <2> QED BY <1>1, <2>1 DEF Blink
<1> QED BY <1>1, <1>2, BoardFixed
        DEF IInv, TypeOK, QuietInv, LoopInv, RunInv, OtherInv, DriversAccept

(* After a reset no pin is an output.                                       *)
LEMMA AfterResetIs ==
    ASSUME NEW p, NEW high
    PROVE  AfterReset(p, high) \in SUBSET Register /\ "DIR" \notin AfterReset(p, high)
BY DEF AfterReset, Register

LEMMA ResetStep ==
    ASSUME IInv, Reset
    PROVE  IInv'
<1>1. /\ board' = board /\ board \in Boards /\ resets' = resets + 1 /\ resets < MaxResets
      /\ phase' = "reset" /\ io' = 0 /\ todo' = <<>> /\ inited' = {} /\ cause' = "none"
      /\ bits' = [p \in Pins |-> AfterReset(p, "OUT" \in bits[p])]
  BY DEF Reset, IInv, TypeOK
<1>2. bits' \in [Pins -> SUBSET Register] /\ \A p \in Pins : "DIR" \notin bits'[p]
  BY <1>1, AfterResetIs
<1>3. resets' \in 0 .. MaxResets /\ io' \in 0 .. Len(PinMap[board]) + 1
  BY <1>1, PinMapIs, BoundAssumption DEF IInv, TypeOK
<1> QED BY <1>1, <1>2, <1>3, BoardFixed
        DEF IInv, TypeOK, QuietInv, Quiet, LoopInv, RunInv, OtherInv, DriversAccept

LEMMA Initially == Init => IInv
<1> SUFFICES ASSUME Init PROVE IInv
  OBVIOUS
<1>1. PICK high \in PowerUpOuts :
          bits = [p \in Pins |-> AfterReset(p, \E i \in high \cap DOMAIN PinMap[board] :
                                                   PinMap[board][i] = p)]
  BY DEF Init
<1>2. bits \in [Pins -> SUBSET Register] /\ \A p \in Pins : "DIR" \notin bits[p]
  BY <1>1, AfterResetIs
<1>3. board \in Boards /\ resets \in 0 .. MaxResets /\ io \in 0 .. Len(PinMap[board]) + 1
  BY PinMapIs, BoundAssumption DEF Init
<1>4. phase = "reset" /\ todo = <<>> /\ inited = {} /\ cause = "none"
  BY DEF Init
<1> QED BY <1>2, <1>3, <1>4
        DEF IInv, TypeOK, QuietInv, Quiet, LoopInv, RunInv, OtherInv, DriversAccept

(* Every step of the boot, of the drivers and of the halted robot keeps the *)
(* invariant, and so does a reset at any point.                             *)
THEOREM Invariant == Spec => []IInv
<1>1. IInv /\ [Next]_vars => IInv'
  <2> SUFFICES ASSUME IInv, [Next]_vars PROVE IInv'
    OBVIOUS
  <2>1. CASE UNCHANGED vars
    <3>1. board' = board
      BY <2>1 DEF vars
    <3> QED BY <2>1, <3>1, BoardFixed
            DEF vars, IInv, TypeOK, QuietInv, Quiet, LoopInv, Current, RunInv,
                OtherInv, DriversAccept
  <2>2. CASE Boot
    <3>1. CASE \E level \in P34 : WrongBoard(level)
      BY <3>1, HaltStep DEF WrongBoard
    <3> QED BY <2>2, <3>1, McuInitStep, DetectStep, IoInitStep, EnableStep, WriteStep DEF Boot
  <2>3. CASE \E d \in Driver : DriverInit(d)
    BY <2>3, DriverInitStep
  <2>4. CASE \/ \E on \in BOOLEAN : led_set(on)
             \/ led_toggle
    BY <2>4, LedStep
  <2>5. CASE \E mode \in Mode :
                \/ tb6612fng_set_mode("AIN_1", "AIN_2", mode)
                \/ tb6612fng_set_mode("BIN_1", "BIN_2", mode)
    BY <2>5, ModeStep DEF Cc
  <2>6. CASE \E p \in Xshut : vl53l0x_set_hardware_standby(p)
    BY <2>6, StandbyStep
  <2>7. CASE AssertFails
    BY <2>7, HaltStep DEF AssertFails
  <2>8. CASE Blink \/ Reset
    BY <2>8, BlinkStep, ResetStep
  <2> QED BY <2>1, <2>2, <2>3, <2>4, <2>5, <2>6, <2>7, <2>8 DEF Next
<1> QED BY <1>1, Initially, PTL DEF Spec

(* The registers and the boot keep their types, for any values at power-up  *)
(* and any number of resets.                                                *)
THEOREM TypeSafety == Spec => []TypeOK
<1>1. IInv => TypeOK
  BY DEF IInv
<1> QED BY <1>1, Invariant, PTL

(* No driver halts the robot over its pins, in whatever order the drivers   *)
(* are initialised and whatever the last run left in PxOUT (io.c:188-259).  *)
THEOREM Accepted == Spec => []DriversAccept
<1>1. IInv => DriversAccept
  BY DEF IInv
<1> QED BY <1>1, Invariant, PTL

(* A pin that somebody else drives is never an output of the port, also     *)
(* between two writes of io_configure; in the running program the port      *)
(* drives or pulls each of its own pins but the JR's unused ones (io.c:135).*)
THEOREM DrivenOnce == Spec => []OneDriver
<1>1. IInv => OneDriver
  <2> SUFFICES ASSUME IInv PROVE OneDriver
    OBVIOUS
  <2>1. board \in Boards
    BY DEF IInv, TypeOK
  <2>2. PortKeepsOff
    <3> SUFFICES ASSUME phase # "halted",
                        NEW p \in Pins \cap (Inputs \union Usci \union Pwm)
                 PROVE  ~PortDrives(p)
      BY DEF PortKeepsOff, Inputs
    <3>1. Quiet(p)
      BY DEF IInv, QuietInv
    <3>2. p \in Usci => p \notin Pwm
      BY DEF Usci, Pwm
    <3> QED BY <3>1, <3>2 DEF Quiet, PortDrives
  <2>3. ASSUME phase = "running", NEW p \in Own, board = "JR" => p \notin Unused
        PROVE  Held(p)
    <3>0. p \in Pins \ Inputs
      BY <2>3 DEF Own, Inputs
    <3>1. "DIR" \in config(p)
      BY <2>1, <2>3, <3>0, PinMapIs, ConfigIs
    <3>2. bits[p] \ {"OUT"} = config(p)
      BY <2>3, <3>0 DEF IInv, RunInv
    <3> QED BY <3>1, <3>2 DEF Held
  <2> QED BY <2>2, <2>3 DEF OneDriver
<1> QED BY <1>1, Invariant, PTL

=============================================================================
