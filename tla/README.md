# Formal models of the sumo-bot firmware

The firmware (`src/src/`, C for an MSP430) drives a mini sumo robot.  It has no
operating system: one main program, interrupt handlers that do not nest, and
peripherals that go on by themselves.  What is hard to test in it is what
happens when these three meet in an order nobody wrote down, when an I2C
transfer fails halfway, and what arithmetic on narrow integers does at its
limits.  This directory states what the code should keep true there, checks it
with TLC on small instances, and proves part of it with TLAPS for all of them.

Two boards are built from the source: LAUNCHPAD (development, one motor, one
range sensor, one line sensor) and JR (the robot: two motors, three range
sensors, four line sensors).

## 1. Inventory

| Component | Source | State | Operations | Talks to |
|---|---|---|---|---|
| Ring buffer | `common/ring_buffer.c` | `buffer`, `size`, `head`, `tail` (uint8_t) | put, get, peek, empty, full | owned by UART and IR |
| UART driver | `drivers/uart.c` | `tx_buffer`, UCA0 registers | `uart_init`, `_putchar`, `isr_uart_tx`, polled output | trace, assert handler |
| Assert handler | `common/assert_handler.c` | none | stop motors, trace, blink for ever | writes motor pins and the UART directly |
| Range sensors | `drivers/vl53l0x.c` | `status_multiple`, `latest_ranges`, `stop_variable`, `initialized`; registers of three sensors | init, read single, start multiple, read multiple, pin interrupt | I2C, IO, enemy |
| I2C | `drivers/i2c.c` | UCB0 registers, `initialized` | read, write, set address | range sensors |
| Drive, motor driver, PWM | `app/drive.c`, `drivers/tb6612fng.c`, `drivers/pwm.c` | pins, `pwm_cfgs[]`, TA0 | set, stop, mode, duty cycle | IO |
| IO | `drivers/io.c` | port registers, `isr_functions` | configure, set, interrupts | all drivers |
| IR remote | `drivers/ir_remote.c` | `pulse_count`, `timer_ms`, `ir_message`, `ir_cmd_buffer`, TA1 | `isr_pulse`, `isr_timer_a0`, `ir_remote_get_cmd` | IO, control loop |
| ADC, line sensors, line | `drivers/adc.c`, `drivers/qre1113.c`, `app/line.c` | DTC block and cache | conversion interrupt, get | control loop |
| Enemy | `app/enemy.c` | none of its own | decode three ranges | range sensors |
| MCU init, LED, trace | `drivers/mcu_init.c`, `drivers/led.c`, `common/trace.c` | `initialized` | register writes, formatting | |
| Test programs, main | `test/test.c`, `main.c` | | the only callers: endless loops over one driver | all |

Shared state and callbacks: the ring of the UART between `_putchar` and
`isr_uart_tx`; `status_multiple` between the pin interrupt and the polling
caller; the ring of the IR remote between `isr_pulse` and the control loop; the
ADC cache between its interrupt and the reader; the motor pins between the
drivers and the assert handler; port 2 with one vector for several pins.

What makes each component correct:

* UART: no byte lost, doubled or overtaken; the transmitter never stalls with
  bytes waiting; the handler never enters its ASSERT; an assert text comes out
  whole.
* Range sensors: only one sensor ever hears a transfer; an OK of the init means
  all are configured and silent; a picture returned as fresh is one round, newer
  than the last; a measurement is never restarted over an unread result; calls
  return; a microcontroller reset recovers.
* Motors: the wheels turn as the direction is named (they do not on the JR, nor
  for a sharp turn, see section 6); stop and assert stop them for good; the supply
  limit holds at every intermediate write.
* IR: every command of the remote is returned once and in order, whatever the
  timing within the protocol and wherever the interrupt hits.
* I2C: an OK means that the bytes arrived, whatever the call before left on the
  bus; an error has a cause; every call returns.
* ADC and line: the decision is about one sequence of samples and the right
  pins, at most two sequences old, and sampling never stops.
* Enemy: exactly one side, the distance class of the sensors that see it, and no
  opponent put together from two rounds.
* IO, MCU init, LED: no driver refuses its pins after any reset, and the port
  never drives a pin that belongs to somebody else.

## 2. Modules and plan

| # | Module | What it is | State of work |
|---|---|---|---|
| 1 | `RingBuffer` | the struct and its five functions as pure operators | done |
| 2 | `UartTx` | extends RingBuffer; UART with handler, peripheral and assert output | done |
| 3 | `ByteStream` | abstract FIFO that drains; `UartTx` implements it (`StreamSpec`) | done |
| 4 | `RangeSensors` | measurements with interrupt and I2C faults, three kinds of program | done |
| 5 | `Enemy` | extends RangeSensors; the decision over three ranges | done |
| 6 | `RangeSensorInit` | bring-up of the sensors with the SPAD choice, faults and resets | done |
| 7 | `Motors` | drive, H-bridge, PWM, assert handler | done |
| 8 | `IrRemote` | extends RingBuffer; decoder, queue, port interrupt | done |
| 9 | `I2c` | wait loops, early returns without STOP, byte order, USCI and slave | done |
| 10 | `LineSensors` | conversion, transfer controller, interrupt, cache, line_get | done |
| 11 | `IoPins` | boot, pin table, drivers' pin assertions, resets | done |
| 12 | `UartTxProofs` | the ring and the interrupt, order of bytes, implementation of `ByteStream` | all |
| 13 | `RangeSensorsProofs` | measurements, any number of sensors and faults; `Enemy`, any ranges | all safety |
| 14 | `RangeSensorInitProofs` | any number of sensors, any SPAD maps, faults and resets | all safety |
| 15 | `MotorsProofs` | any sequence of commands | all safety |
| 16 | `IrRemoteProofs` | any queue, any length of the fields, all timings of the protocol | all safety |
| 17 | `I2cProofs` | any set of calls, any number of retries, any slave | all safety |
| 18 | `LineSensorsProofs` | any sensors on any channels | all safety |
| 19 | `IoPinsProofs` | any levels at power-up, any number of resets | all safety |

Left: a composition of IR commands and drive waits for a control loop: `main.c`
has none yet.

`MC*` modules give the constants their values for TLC; definitions whose name
extends that of another (`TxDisable_forgotten`) and which are marked "Mutant"
are deliberately wrong variants.  Each is substituted for the original once, to
see that the property it belongs to notices.

## 3. How the models correspond to the code

**Steps.** A step is what nothing else can interrupt visibly.  `_putchar`
and `ir_remote_get_cmd` are cut at every statement that touches shared state
(`pc` names the next one).  `isr_uart_tx` is cut at its accesses to the
peripheral, because that runs on while the handler does; `isr_pulse`,
`isr_timer_a0` and `mid_measurement_done_isr` are one step.  A pending interrupt
is taken before the main program's next step wherever the main program's speed
would otherwise matter (`RangeSensors!At`, `IrRemote!GetCmd`).

**UartTx.** `tx_buffer` is the ring; `txie`, `txifg`, `txbuf`, `shift` are the
USCI.  `Call`, `WaitNotFull`, `TxDisable`, `ReadOngoing`, `Put`, `Start`,
`TxEnable` are the statements of `_putchar`, whose recursion for `'\n'` is the
way back from `TxEnable` to `WaitNotFull`.  `UsciLoad` and `UsciShiftOut` are
the hardware.  An ASSERT may fail before `uart_init` or between calls (no code
asserts inside `_putchar`); from there the polled output runs.

**RangeSensors.** One action is one I2C transfer of `vl53l0x_read_range_multiple`,
`vl53l0x_start_measuring_multiple` or `vl53l0x_read_range_single`, or a run of
transfers of which only the last touches the measurement.  A faulty transfer may
have reached the sensor or not; a torn 16-bit read leaves the low byte old.
`Complete` is the sensor, `Isr` the pin's handler.  Measurements carry their
number so that "same round" and "new" can be stated.  That a start broken off
midway leaves the sensor's register page switched is not modelled: after such a
failure `vl53l0x_read_range_multiple` never gets as far as using a result.
A program is the set of functions it calls (`Programs`).  Each caller in the
repository uses one only: one that polls, one that measures singly, one that only
starts (`NotMixed`); nothing in the driver sees to it, and section 6 says what happens
otherwise.

**Enemy.** `enemy_get` keeps no state, so it is an operator over what the last
call of `RangeSensors` returned (`EnemyNow`), in the source's order of tests and
with its uint16_t sums.  The properties of the decision alone are examined once,
in the initial states (`BeforeFirstCall`), over all triples of `Distance`;
`EnemyFromOneRound` relates it to the sensors.

**RangeSensorInit.** The functions are sequences of operations, written with the
functions' names and in their order (`vl53l0x_static_init ==
vl53l0x_set_spads_from_nvm \o ...`).  `turn` counts the calls that `vl53l0x_init`
makes, one for each sensor's address and then one for each sensor's
configuration; `todo` is what the running one has still to do, and a step performs
the first of it.  A register table without effect on this protocol is one write of its name.  A
write reaches every sensor that is awake and listens at the address, so the
model can show what happens when two do.  `Reset` restarts the program while
sensors keep their power, and does what `io_init` does to the XSHUT pins.
The SPAD choice keeps the two bit maps, the loop's limit and its order of tests,
with rows of two bits instead of eight: reading reverses the rows, writing does not.
The pin's handler is no action here, because `NotAnnounced` (a part of
`OkMeansReady`) shows that it never
has an enabled and flagged interrupt to serve.

**Motors.** Driver functions are sequences of writes in the same way.  What they ask
for and what the wheels do are kept apart: `Commanded` is the H-bridge's table over
the control pins and the duty of the channel's compare register (`ChannelDuty`),
`Velocity` the same over what really arrives at the bridge's PWM input
(`PwmInput`).  The two are equal only where the pin multiplexer has the channel's
compare output on the pin (`TimerOutput` against `pwm_cfgs`): on the LAUNCHPAD, not
on the JR.  The speed table keeps its uint8_t storage and int8_t reading.

**IrRemote.** Time passes in the gap before a pulse: `Elapse(ms)` is
`isr_timer_a0` run as often as the gap makes it.  The message register is kept
as its bits.  The pulse positions 34, 35, 36 become `LAST` and its successors,
with `LAST = 2 + 4 * FIELD`, which is 34 for the code's FIELD = 8.  The remote
(`PressKey`, `NextPulse`) sends what the NEC protocol does; `Gap` says how long
each pause may be.

**I2c.** `usci` is the module's registers and the phase of the transfer;
`UsciStart` ... `UsciStop` are the hardware, `AddressRefused`, `ByteRefused`,
`Hold` and `Release` the slave.  Every wait loop of the driver is one action with
its retries (`WaitBefore` for the loops that decrement before the test,
`WaitAfter` for those that decrement after it), and what follows it (`AfterTx`,
`AfterStart`, `AfterStop`) is written for both directions, as the code shares its
functions.  Two things are assumed of the hardware: a START clears the flag of a
refusal, and a byte (90 us) is longer than what the driver does between two loops;
the second is dropped once a loop has given up.  `lost` remembers that one has.

**LineSensors.** `Convert` is one channel; the transfer controller stores it;
`isr_adc10` copies the sequence and starts the next; `Call`, `Copy` and `Decision`
are the caller, who masks interrupts meanwhile.  A sample is whether it is below
the threshold, with its channel and the number of its sequence.

**IoPins.** A pin's configuration is the set of registers in which its bit is 1.
`io_configure` is five writes, one step each, because a reset or the pin itself
sees what lies between.  `PinMap` is the enumeration of `io.h` for both boards and
`io_initial_configs` its table.  A driver's init is its assertion of its pins.
`Halt` does the assert handler's writes at once.  A reset keeps PxOUT.

## 4. Runs

| Run | Shows |
|---|---|
| `uart` | safety, liveness and refinement of the UART output, ring of 3 |
| `ranges` | three sensors with a vector, three programs, two failing transfers, and `enemy_get` on top |
| `init` | bring-up of three sensors, any SPAD map of the middle one, one fault, two resets |
| `motors` | both boards, all commands and direct calls, ASSERT between calls: what the registers ask for, stopping, duty limits; on the LAUNCHPAD also what the motor does |
| `ir` | two keys, five commands, two noise pulses, handler anywhere |
| `i2c` | writes and reads of one to three bytes; a slave that refuses or holds the clock |
| `line` | both boards, the line coming or going under a sensor at any sample |
| `io` | both boards from power-up, two resets, drivers in any order, ASSERT |
| `ranges_stuck` | violated: one failed start and measuring never resumes, with OK |
| `ranges_no_vector` | violated: on JR's pins the first call never returns |
| `motors_jr` | violated: no wheel of the JR turns, its PWM pins belong to the other timer; that repaired, the sharp turns halt it |
| `ir_full` | violated: an overrun IR queue returns memory behind its array |

Where several statements are one promise they are named parts of one property
(`PromisesUntilFault`, `EachResultOnce`, `DecisionSound`, `OkMeansReady`,
`SpadChoice`, `ComesUp`, `CommandObeyed`, `DutyScaled`, `OkIsTrue`, `OneDriver`,
`OutputEnds`).  What each says is written above it in the modules.

**Bounds.**
* `uart`: a ring of three slots holds two bytes, so that eight calls fill, wrap
  and drain it several times over; two characters are needed to have `'\n'` and
  another; an assert text of two has both kinds.
* `ranges`: two faults reach every pair of transfers of a round, including the
  failing of a recovery; `Rounds` = 4 numbers are enough to tell the rounds
  that can be in sight apart (the ASSUME asks for more than faults + 1).  Values
  are a near range, the threshold of detection and 8191, the code the driver
  must hide.  Neither board is this one: the JR has three sensors and no vector, the
  LAUNCHPAD a vector and one sensor.  It is what the code of the JR is written for;
  what the JR does instead is `ranges_no_vector`.  The LAUNCHPAD's one sensor, without
  enemy_get, is not a run of its own; the theorems cover every list of sensors.  `Distance` has ranges on both sides of every threshold of
  `enemy_get`, odd and even ones, and the driver's out-of-range value.
* `init`: maps of two rows of two SPADs, a limit of three and an aperture start
  of one have every case of the loop (a row skipped, a bad SPAD, the count reached
  by the last one, the limit first) and tell the rows' order apart; one fault at each transfer, before or after its effect, and resets at
  each step, also during the start after a reset.
* `motors`: no bound; all ten directions, four speeds and the tests' duty cycles.
* `i2c`: any sequence of four calls that differ in direction, size and register;
  three bytes have a first, a middle and a last one; two retries and one clock
  held for as long as the slave likes make every loop give up once, in every
  phase of a transfer, and calls follow one another without bound.
* `line`: one change under one sensor, at every place of a sequence, before or
  during a call; the sequence number is kept modulo 2 because cache and reader are
  never more than one apart.  Both boards have channels without a sensor.
* `io`: output registers at power-up all 0, all 1 and alternating both ways,
  since a pin's writes depend on its own bit only; two resets reach a boot
  interrupted and a boot after a halt.  `OneDriver` is about every pin but, where it
  says that the port holds its own, the JR's unused ones, which float.
* `ir`: fields of two bits show a wrong bit order and a shift; three slots are
  filled and both indices wrap within five commands; gaps are taken at the
  limits of the decoder (15, 3, 49, 109 ms and 50, 110, 150, 151 ms of silence),
  with one more where a timer interrupt may be pending.  The remote waits until
  there is room (`PollsOften`); `ir_full` shows what happens if it does not.

**Fairness.** Hardware: the baud clock runs, a running measurement ends, a
sensor boots.  Interrupts: one that is pending and enabled is taken (they are
never masked for good; for the shared port only the enabled pin counts, nothing
is assumed of other pins).  Main program: a straight-line function goes on; the
application calls again where the test programs loop (`vl53l0x_read_range_multiple`,
`ir_remote_get_cmd`).  In `I2c` the bus (`WF(Bus)`) and the driver (`WF(Driver)`)
go on, but a slave that holds the clock may hold it for ever; in `LineSensors`
the ADC, the interrupt and the caller's straight line.  `IoPins` has safety only.
That anything is printed, an ASSERT fails, a key is
pressed or the board is reset is never assumed.  All of it is weak fairness.

**Deadlock** is checked in every run but `ranges_no_vector`, which is about the
program being stuck.

## 5. Proofs

Every invariant of the passing runs is proved with TLAPS for every value of the
constants that the named ASSUMEs admit.  Each module proves
`Spec => []IInv` for an inductive invariant (`Invariant`), one lemma for each
action, and the properties follow from it.  TLC was asked first whether each
invariant holds.

**`UartTxProofs`**: for every buffer size from 2 to 255, every set of characters and
every assert text: `TypeSafety` (both indices stay inside the array),
`HandlerNeverHangs` (`isr_uart_tx` never meets an empty ring), `AlwaysArmed` (a
non-empty ring always has a transmission under way) and `NeverOverwrites`.  None of
these is inductive alone.  `IInv` adds: while `_putchar` is between masking and
unmasking (`MaskInv`) the enable bit is off, so `tx_ongoing` stays true of the ring
(`PutInv`); in the handler the ring may have just been emptied and UCA0TXBUF is free
(`HandlerInv`); before `uart_init` has ended the ring is empty (`StartInv`); once an
ASSERT has failed the interrupt stays off (`AssertInv`).

For `InOrder`, `TextUntorn` and `ImplementsStream` there is a second invariant
(`SentInvariant`) on top of it.  What has been accepted is what is on the wire and then the bytes on their way (`LineInv`): the
shift register, UCA0TXBUF and the ring, where a byte that is in UCA0TXBUF is also
still the first of the ring until the handler drops it (`OrderInv`).  Every step is
one of five moves of that queue: nothing, one byte leaves it, one enters it, a byte
of the assert text enters it, or the ring is cut off by an ASSERT.  After the cut
what comes is a prefix of the trace and a prefix of the text.  Each move is a step
of `ByteStream` under the mapping of `UartTx`, or a stutter.

**`RangeSensorsProofs`**: for every list of sensors, any ranges and any number of
faults.  `IInv` says where a pass over the sensors has got to: it collects the
results of one round from all sensors before it starts any of the next
(`PassInv`, `PictureInv`), and whatever measures or is unread is of the round that
runs (`ResultInv`); `OneRound` follows, with faults or without.  A program that polls,
one that reads single sensors and one that only starts keep to parts of the state of
their own (`UseInv`).  This needs the hypothesis `NotMixed`, which each theorem but
`TypeSafety` and `Decides` states: an application that mixes the functions breaks the
sanity check.  Rounds are numbered modulo
`Rounds`; `LeadInv` says how many rounds the running one is ahead of the last that was
delivered, at most one for each fault and two more, which makes `NewEachTime` (a
round is never delivered twice) true of the numbers.  `StartsAtRest` is the other half of
`EachOnce`.  `PromiseInv` is what else holds while no transfer has failed, and gives
`PromisesKept`.

The two theorems about `Enemy` are here because it extends `RangeSensors`.  `Decides` goes through the positions of `enemy_get` for all of
uint16_t, with the rounding of its means; no invariant is needed.  `ReportsOneRound`
takes `PictureInv` for fresh ranges and `PromiseInv` for cached ones.

**`RangeSensorInitProofs`**: for every number of sensors, addresses that differ from each
other and from the default one, any SPAD maps, faults and resets.  The argument goes
by turns: sensors whose address turn is over have addresses of their own and those
before it have not been woken (`WakeInv`), so that what listens at the slave address is
at most the sensor whose turn it is, which is `OneListens`; those whose
configuration is over are settled and those before it are as they woke up
(`SettledInv`); and the one whose turn it is has been told exactly what the driver has done
of its program (`NowInv`, `ConfigInv`), of which `Places` says what comes at
which place.  `PinInv` follows the pin through the configuration of the middle sensor,
the first, and says that nothing reaches it afterwards.  `Ready` and `TypeSafety`
come out of it.  `Choice` needs a second invariant on top (`CauseInvariant`): a sensor's
SPAD register is as ST left it until a chosen map is written (`SpadInv`,
`PendingInv`), and whoever the driver speaks to is awake, has booted and is at the address
(`WokenInv`, `HearInv`), so that without a fault nothing but the choice itself can
fail.  That it does not while there are SPADs enough (`MapsExist`) is about a loop for any map:
the number of SPADs seen grows by at most one from index to index, so at the
least index where it is not below the count it equals it (`CountReached`).

**`LineSensorsProofs`**: for every board that has its pins among the eight channels.
What the running sequence has stored so far are its own samples, from the last channel
down, and its flag is set exactly when it is complete (`BlockInv`); the cache holds one
earlier sequence, each sample in its channel's place (`CacheInv`); interrupts are off
exactly while a caller copies, so that what it has copied is the cache (`CopyInv`).
The age of a sample is bounded at each place of that path (`AgeInv`, `DueInv`,
`AnswerInv`), which gives `SeenInTime`.

**`IoPinsProofs`**: for any PxOUT at power-up and any number of resets.  Until the
program has halted an input is never an output, and a pin of the USCI or the PWM is one
only with its function selected (`QuietInv`).  In the loop of `io_init` the registers
already written of the pin in work hold the values of the table, and the pins before it
all of theirs (`LoopInv`); the running program writes only PxOUT, of pins of drivers it
has initialised (`RunInv`); nothing is left to write in reset or after a halt, and the
detection of the board touches no pin but its own (`OtherInv`).

**`MotorsProofs`**: for every sequence of commands on both boards.  Each register a
command is about holds what the command means, or a write that will make it so is still in
`todo` with no other after it (`FollowInv`); pins belong to the timer until the
assert handler takes and lowers them (`PinInv`); `DutyInv` bounds the compare registers.
`Obeyed` is about the registers on the JR and about the motor on the LAUNCHPAD; that no
wheel of the JR turns is the run `motors_jr`.  `StaysStopped` does not depend on the
timers: it says which pins are low and taken from them.

**`I2cProofs`**: for every set of calls, any values, any number of retries and any slave.
Where the driver is and how far it has counted holds always (`ShapeInv`,
`ControlInv`) and gives `TypeSafety`.  Until a loop gives up on a held clock
(`lost`) there is one statement of the bus for each part of a transfer: between
calls (`IdleInv`, a refused call leaves the bus claimed and the next one may take it
so), while the address is being called (`StartInv`), with bytes on their way
(`SendInv`: what the slave has, what is being shifted and what waits in UCB0TXBUF
are, in this order, the bytes sent so far), around the repeated START (`RestartInv`),
and in the rest of a read (`ReadInv`: the bytes read, the one in UCB0RXBUF and the
one coming in are consecutive bytes of this read) or a write (`WriteInv`).
`Truthful` and `NoFalseAlarm` are parts of the invariant, because they must hold when
the last loop lets go.

**`IrRemoteProofs`**: for every queue of 2 to 254 slots, fields of any length and any messages.
The decoder's `pulse_count` is the number of the remote's pulse, also when noise has
gone before (`RestInv`); while a pulse waits for its handler the time that has passed
tells the decoder what the remote meant (`PendingInv`), and the bits received are the
last in the shift register.  `GetInv` says how far `ir_remote_get_cmd` has got, with the
handler between any two of its statements; `QueueInv` that what was sent is what was returned, is
in hand, is queued and is on its way, in this order.  The theorems have a hypothesis, `Use`:
the pauses are the protocol's, the queue is polled before it is full, there is less noise than
a message has pulses, and no key is held for the hour after which `pulse_count`
wraps.  `MCIrRemote` has an ASSUME that its constants are such.  Without the polling
`Returned` is false: that is the run `ir_full`.

The assumptions on constants are those the code makes: sizes that fit their types,
distinct addresses and sensors, pins that are pins, bounds that are numbers.
`RoundTrip`-like facts about int8_t and uint8_t are proved, not assumed.

**Only model-checked.**
* Liveness: `OutputEnds`, `KeepsMeasuring`, `CallsReturn`, `KeepsSampling`, `ComesUp`,
  `CommandsArrive`.  Fairness and ENABLED are outside the prover, so
  `StreamSpec` is proved for initial states and steps and its fairness by TLC.
* The hypotheses of `IrRemoteProofs` are not dropped by any theorem: what a remote that
  breaks the protocol does, or a queue that is not polled, only `ir_full` shows.
* That the abstractions are right (rows of the SPAD map, the USCI, the gaps of the
  protocol) is argued in section 3, not proved.

## 6. Divergences seen while modelling

With a run: the four violated ones above.  The rest is described here.

Range sensors and enemy:

* "Sanity check!" (`vl53l0x.c:742`) halts the robot when
  `vl53l0x_read_range_multiple` is called after `vl53l0x_read_range_single`, without
  any fault: the interrupt of the single measurement sets DONE and its caller takes the
  result.  It also does when the transfer that asks for the result fails.
  `PromisesUntilFault` is therefore checked for programs that do not mix the two
  (`NotMixed`) and up to the first fault.
* `vl53l0x_start_measuring_multiple` called while a round is done and unread
  starts it anew, and the round is gone.
* After one failed transfer the driver also returns 8191 in cached ranges
  (a failed clear skips the normalisation, `vl53l0x.c:655`) and returns newly
  read values as cached (a failed restart, `vl53l0x.c:760`).  `PromisesUntilFault`
  is stated up to the first fault for this reason.
* A single measurement whose start reports a failure still runs; if it ends
  while a multiple one is being started the first call waits for an edge that
  has passed.

Motors and remote:

* The PWM pins of the JR, P2.0 and P2.1 (`io.h:59`), are outputs of Timer A1, as the
  comment at `io.c:141` says; `pwm.c:41` and `pwm.c:129` program Timer A0, whose
  outputs are on P2.6, P3.5 and P3.6.  No wheel of the JR turns (`motors_jr`), which
  is why `RegistersObey` is about registers.  TA1 is the remote's clock
  (`ir_remote.c`), so moving the PWM there is not a change of one table only.
* A sharp turn sets speed 0 for one wheel (`drive.c:36`), which the ASSERT of
  `drive.c:77` refuses: `DRIVE_DIR_ARCTURN_SHARP_LEFT` and `_RIGHT` halt the
  robot.  `WheelsTurn` covers them: in `motors_jr` TLC meets the timer first, and
  with a timer that reaches the pins the sharp turns; without these the run passes.
* On LAUNCHPAD the right motor's functions write the left motor's pins
  (`tb6612fng.c:16`), so rotating left drives the left motor forward;
  `LaunchpadObeys` leaves out the two rotations.
* `README.md:12` names the speeds 100, 75, 50 and 25 %; the table has 25, 45, 55
  and 100.
* A key pressed less than 50 ms after another message, or less than 110 ms after
  a repeat code, is decoded as repeats of the old command
  (`IrRemote!Gap` keeps to the distances the decoder needs).
* `pulse_count` wraps after about an hour of a held key, and the key is then lost
  until it is pressed again.

Drivers:

* The comment at `uart.c:132` says `\n` is followed by `\r`; the polled output of
  the assert handler sends `\r` first (`uart.c:146`).
* `test_drive` maps the key 0 to `drive_stop`, and then calls `drive_set` all the
  same, so the key does not stop the robot.
* i2c.c's `while (!flag && retries--)` leaves `retries` at 65535 when it times
  out, so the timeout is not reported (`i2c.c:19`, `i2c.c:29`) and the call goes on
  as if the byte were there.  The properties of an OK except such calls and those
  after them (`lost`); that all of them return is checked, what they read is not.
* The address of a register is refused and the read goes on if the repeated
  START clears the flag before it is looked at (`i2c.c:99`); `OkReadIsRight`,
  a part of `OkIsTrue`, excepts it.
* `i2c_read` stores the good SPAD map in reverse (`i2c.c:156`), `i2c_write` sends the
  chosen one as it is (`vl53l0x.c:314`): the SPADs enabled are chosen from a mirrored
  map, against `vl53l0x.c:281` ("a subset of the SPADs suggested by the good SPAD
  map"), and may be bad ones.  `SpadsAsNvm` speaks of the map as it was read.
* The SPAD loop tests its limit before its count, so a choice that is completed by
  SPAD 43 is an error, and the check after the loop can never fail
  (`vl53l0x.c:287`).  `SpadsSuffice` leaves that SPAD out, so
  `SpadChoice` is about everything else.
* On LAUNCHPAD `qre1113_get_voltages` writes one of four fields, and `line_get`
  decides on the other three as well.
* `README.md:13` asks for an edge within 100 ms.  The ADC runs on the VLO
  (4 to 20 kHz) divided by 8 with 64 + 13 clocks a sample, 31 ms or more each.  JR
  samples six channels; `EdgeSeenInTime` gives at most 11 samples, over 340 ms.
* `README.md` asks for objects within 77 cm; `enemy.c` looks at 60 cm.

Pins:

* JR's unused pins are missing from the table of `io.c` and float, against the
  comment at `io.c:75`; `OneDriver` states the exception.  `UNUSED_CONFIG`
  enables a resistor on an output, where it only sets the level.
* On JR the pin that tells the boards apart, P3.4, is also the remote's: a key
  held while the robot boots pulls it low and the boot ends in an ASSERT.  The
  model has that halt (`WrongBoard`); no property is about it.
* The assert handler lowers and blinks pins of both boards on either: on JR P1.0,
  an ADC input, and on LAUNCHPAD what lies on JR's motor pins (`MID_INT`).
* `io_isr` clears the flag after it has called the handler, so an edge that
  comes meanwhile is lost.

## 7. Not modelled

* Clock registers (no state the program reads), text formatting, the external
  printf behind `trace.c` and the enum-to-string functions.
* The hardware test programs of `test/test.c`, which toggle pins for a person to
  watch: their loops are the callers of every model.
* `main.c`: it has no control loop so far.
* `io_deconfigure_interrupt` has no caller; `io_get_input` only one in a manual
  test.
* JR's accesses behind the port interrupt tables (P3.4, P3.5) are undefined
  behaviour; only their consequence, that no handler runs, is modelled.
* `stop_variable`, one variable for three sensors, holds a constant of the chip.
* Interrupt latency, wire levels and the sensors' register pages are below the
  grain of the models.
