---------------------------- MODULE RangeSensors ----------------------------
(***************************************************************************)
(* drivers/vl53l0x.c once vl53l0x_init has returned OK: the measurements.  *)
(* All sensors are started together; the middle one pulls a pin low when   *)
(* its measurement is done, whose interrupt sets status_multiple, and the  *)
(* caller polls vl53l0x_read_range_multiple.                               *)
(*                                                                         *)
(* One action is one I2C transfer (or a run of transfers of which only the *)
(* last touches the measurement), since sensors and interrupt proceed in   *)
(* between.  A transfer may fail, before or after it has reached the       *)
(* sensor.  Lists of sensors are walked in the order the code names them.  *)
(***************************************************************************)
EXTENDS Naturals, Sequences

CONSTANTS
    Order,        \* the sensors, MID first: one on LAUNCHPAD, three on JR
    Range,        \* what the 16-bit range register may hold
    Programs,     \* per application, the functions that it calls
    Singly,       \* the sensors that are also read one by one
    PinHasVector, \* does the interrupt pin lie on port 1 or 2
    MaxFaults,    \* bound: number of failing I2C transfers
    Rounds        \* bound: measurement numbers are kept modulo this; a fault
                  \* can keep a round from being returned as fresh

Sensors == {Order[i] : i \in DOMAIN Order}
Mid == Order[1]

(* Each caller there is uses one function only: test.c:418 the first,       *)
(* test.c:447 and enemy.c:55 the last.  Nothing in the driver sees to it.   *)
NotMixed == Programs \subseteq {{"single"}, {"start"}, {"multiple"}}

VL53L0X_OUT_OF_RANGE == 8190
UINT16_MAX == 65535

ASSUME OrderAssumption ==
    /\ Order \in Seq(Sensors) /\ Len(Order) > 0
    /\ \A i, j \in DOMAIN Order : Order[i] = Order[j] => i = j
ASSUME RangeAssumption == Range \subseteq 0 .. UINT16_MAX
ASSUME ProgramsAssumption ==
    Programs \subseteq SUBSET {"single", "start", "multiple"} /\ Singly \subseteq Sensors
ASSUME BoundsAssumption ==
    PinHasVector \in BOOLEAN /\ MaxFaults \in Nat
    /\ Rounds \in Nat /\ Rounds > MaxFaults + 1

VARIABLES
    sensor,   \* per sensor: a measurement is running (busy), its interrupt
              \* status is non-zero (done), the last result (reg), and the
              \* number of the last measurement started (started)
    ifg,      \* the flag of the interrupt pin
    status,   \* status_multiple
    latest,   \* latest_ranges, each with the number of its measurement
    own,      \* the variable a caller of vl53l0x_read_range_single passes
    pc,       \* the statement the driver is at, "idle" between calls
    k,        \* the sensor being worked on, an index into Order
    after,    \* what follows the loop over the sensors in the running call
    reply,    \* history: how the last call ended
    delivered,\* history: the numbers of the last values returned as fresh
    faults,   \* failed transfers so far
    program   \* the functions this application calls

callVars == <<k, after>>
runVars == <<faults, program>>
vars == <<sensor, ifg, status, latest, own, pc, callVars, reply, delivered,
          runVars>>

(* The sensor the driver talks to.                                          *)
S == Order[k]
Last == Len(Order)

-----------------------------------------------------------------------------
(* The sensors and their interrupt.                                         *)

(* A measurement completes; the line falls only if it was high.            *)
Complete(s) ==
    /\ sensor[s].busy
    /\ \E mm \in Range :
          sensor' = [sensor EXCEPT
              ![s].busy = FALSE, ![s].done = TRUE,
              ![s].reg = [n |-> sensor[s].started, mm |-> mm]]
    /\ ifg' = (ifg \/ (s = Mid /\ ~sensor[s].done /\ PinHasVector))
    /\ UNCHANGED <<status, latest, own, pc, callVars, reply, delivered, runVars>>

(* mid_measurement_done_isr, run by io_isr, which then clears the flag.     *)
Isr ==
    /\ ifg /\ ifg' = FALSE
    /\ status' = "DONE"
    /\ UNCHANGED <<sensor, latest, own, pc, callVars, reply, delivered, runVars>>

-----------------------------------------------------------------------------
(* The shape of every step of the driver.                                   *)

(* A pending interrupt is taken before the program's next instruction.      *)
At(statement) == ~ifg /\ pc = statement
Return(how) == pc' = "idle" /\ reply' = how

Fault == faults < MaxFaults /\ faults' = faults + 1 /\ UNCHANGED program
NoFault == UNCHANGED runVars

(* REG_SYSRANGE_START: another measurement starts.                          *)
Started == [sensor EXCEPT ![S].busy = TRUE, ![S].started = (@ + 1) % Rounds]

(* REG_SYSTEM_INTERRUPT_CLEAR.                                              *)
Cleared == [sensor EXCEPT ![S].done = FALSE]

(* A write fails before (the sensor is as it was) or after its effect.      *)
WriteFails(effect) ==
    Fault /\ sensor' \in {sensor, effect} /\ Return("error")

-----------------------------------------------------------------------------
(* The calls. *)

(* vl53l0x_read_range_single(Order[i], &range).                             *)
CallSingle(i) ==
    /\ "single" \in program /\ Order[i] \in Singly /\ At("idle")
    /\ pc' = "start" /\ k' = i /\ after' = "single" /\ reply' = "none"
    /\ UNCHANGED <<sensor, ifg, status, latest, own, delivered, runVars>>

(* vl53l0x_start_measuring_multiple from outside.                           *)
CallStart ==
    /\ "start" \in program /\ At("idle")
    /\ pc' = "begin" /\ after' = "started" /\ reply' = "none"
    /\ UNCHANGED <<sensor, ifg, status, latest, own, k, delivered, runVars>>

(* vl53l0x_read_range_multiple(ranges, &fresh_values), with fresh_values    *)
(* false as every caller has it.  The other sensors are asked first.        *)
CallMultiple ==
    /\ "multiple" \in program /\ At("idle") /\ reply' = "none"
    /\ IF status = "NOT_STARTED"
       THEN pc' = "begin" /\ after' = "block" /\ UNCHANGED k
       ELSE pc' = "check" /\ k' = 2 /\ after' = "fresh"
    /\ UNCHANGED <<sensor, ifg, status, latest, own, delivered, runVars>>

(* Mutant: the status of the round before is kept.                          *)
Begin_keeps_status ==
    /\ At("begin") /\ pc' = "start" /\ k' = 1
    /\ UNCHANGED <<sensor, ifg, status, latest, own, after, reply, delivered,
                   runVars>>

(* vl53l0x_start_measuring_multiple up to its first transfer.               *)
Begin ==
    /\ At("begin")
    /\ IF status = "MEASURING"
       THEN Return("error") /\ UNCHANGED <<status, k>>
       ELSE pc' = "start" /\ k' = 1 /\ status' = "MEASURING" /\ UNCHANGED reply
    /\ UNCHANGED <<sensor, ifg, latest, own, after, delivered, runVars>>

(* Mutant: *fresh_values is not set.                                        *)
StartsDone_silent ==
    CASE after = "single"  -> pc' = "poll" /\ UNCHANGED <<reply, delivered>>
      [] after = "started" -> Return("started") /\ UNCHANGED delivered
      [] after = "block"   -> pc' = "block" /\ UNCHANGED <<reply, delivered>>
      [] after = "fresh"   -> Return("cached") /\ UNCHANGED delivered

(* What each list of starts was for.                                        *)
StartsDone ==
    CASE after = "single"  -> pc' = "poll" /\ UNCHANGED <<reply, delivered>>
      [] after = "started" -> Return("started") /\ UNCHANGED delivered
      [] after = "block"   -> pc' = "block" /\ UNCHANGED <<reply, delivered>>
      [] after = "fresh"   -> Return("fresh")
                              /\ delivered' = [s \in Sensors |-> latest[s].n]

(* Mutant: the status is set when all sensors have been started.            *)
Start_resets_status ==
    /\ At("start")
    /\ \/ /\ NoFault /\ sensor' = Started
          /\ IF after # "single" /\ k < Last
             THEN k' = k + 1 /\ UNCHANGED <<status, pc, reply, delivered>>
             ELSE status' = "MEASURING" /\ StartsDone /\ UNCHANGED k
       \/ WriteFails(Started) /\ UNCHANGED <<status, k, delivered>>
    /\ UNCHANGED <<ifg, latest, own, after>>

(* vl53l0x_start_sysrange.                                                  *)
Start ==
    /\ At("start")
    /\ \/ /\ NoFault /\ sensor' = Started
          /\ IF after # "single" /\ k < Last
             THEN k' = k + 1 /\ UNCHANGED <<pc, reply, delivered>>
             ELSE StartsDone /\ UNCHANGED k
       \/ WriteFails(Started) /\ UNCHANGED <<k, delivered>>
    /\ UNCHANGED <<ifg, status, latest, own, after>>

(* Waiting for the first measurement.                                       *)
Block ==
    /\ At("block") /\ status = "DONE"
    /\ pc' = "check" /\ k' = 2 /\ after' = "fresh"
    /\ UNCHANGED <<sensor, ifg, status, latest, own, reply, delivered, runVars>>

(* vl53l0x_is_sysrange_done: a transfer that fails reads as "not done".     *)
IsDone == sensor[S].done /\ NoFault
IsNotDone == (~sensor[S].done /\ NoFault) \/ Fault

(* Mutant: cached values are announced as fresh.                            *)
Check_always_fresh ==
    /\ At("check")
    /\ \/ k <= Last /\ IsDone /\ k' = k + 1 /\ UNCHANGED <<pc, reply>>
       \/ k <= Last /\ IsNotDone /\ Return("fresh") /\ UNCHANGED k
       \/ k > Last /\ NoFault /\ pc' = "sanity" /\ k' = 1 /\ UNCHANGED reply
    /\ UNCHANGED <<sensor, ifg, status, latest, own, after, delivered>>

(* sensors_done and, once it is known to hold, status_multiple.             *)
Check ==
    /\ At("check")
    /\ \/ k <= Last /\ IsDone /\ k' = k + 1 /\ UNCHANGED <<pc, reply>>
       \/ k <= Last /\ IsNotDone /\ Return("cached") /\ UNCHANGED k
       \/ /\ k > Last /\ NoFault
          /\ IF status = "DONE" THEN pc' = "sanity" /\ k' = 1 /\ UNCHANGED reply
                                ELSE Return("cached") /\ UNCHANGED k
    /\ UNCHANGED <<sensor, ifg, status, latest, own, after, delivered>>

(* "Sanity check!"                                                          *)
Sanity ==
    /\ At("sanity")
    /\ \/ IsDone /\ pc' = "poll"
       \/ IsNotDone /\ pc' = "assert"
    /\ UNCHANGED <<sensor, ifg, status, latest, own, callVars, reply, delivered>>

-----------------------------------------------------------------------------
(* vl53l0x_read_range. *)

(* The variable the range goes to, set to one of `values`.                  *)
Target == IF after = "single" THEN own ELSE latest[S]
SetTarget(values) ==
    \E v \in values :
        IF after = "single"
        THEN own' = v /\ UNCHANGED latest
        ELSE latest' = [latest EXCEPT ![S] = v] /\ UNCHANGED own

(* vl53l0x_pollwait_sysrange.                                               *)
Poll ==
    /\ At("poll")
    /\ \/ IsDone /\ pc' = "read" /\ UNCHANGED reply
       \/ Fault /\ Return("error")
    /\ UNCHANGED <<sensor, ifg, status, latest, own, callVars, delivered>>

(* The two bytes arrive high byte first; a transfer that fails in between   *)
(* leaves the old low byte.                                                 *)
Torn == [n |-> sensor[S].reg.n,
         mm |-> (256 * (sensor[S].reg.mm \div 256)) + (Target.mm % 256)]

Read ==
    /\ At("read")
    /\ \/ NoFault /\ SetTarget({sensor[S].reg}) /\ pc' = "clear" /\ UNCHANGED reply
       \/ Fault /\ SetTarget({Target, Torn}) /\ Return("error")
    /\ UNCHANGED <<sensor, ifg, status, callVars, delivered>>

(* 8190 or 8191 may be returned when obstacle is out of range.              *)
Normal(v) == [v EXCEPT !.mm = IF @ \in {8190, 8191} THEN VL53L0X_OUT_OF_RANGE
                                                   ELSE @]

(* The interrupt of the sensor is cleared, then the range is normalised.    *)
Clear ==
    /\ At("clear")
    /\ \/ /\ NoFault /\ sensor' = Cleared
          /\ SetTarget({Normal(Target)})
          /\ pc' = "clear_again" /\ UNCHANGED reply
       \/ WriteFails(Cleared) /\ UNCHANGED <<latest, own>>
    /\ UNCHANGED <<ifg, status, callVars, delivered>>

(* Mutant: only the middle sensor is read.                                  *)
ClearAgain_mid_only ==
    /\ At("clear_again")
    /\ \/ /\ NoFault /\ sensor' = Cleared
          /\ pc' = "begin" /\ UNCHANGED <<k, reply>>
       \/ WriteFails(Cleared) /\ UNCHANGED k
    /\ UNCHANGED <<ifg, status, latest, own, after, delivered>>

(* Mutant: one sensor too many is read.                                     *)
ClearAgain_overrun ==
    /\ At("clear_again")
    /\ NoFault /\ sensor' = Cleared
    /\ \/ k <= Last /\ pc' = "poll" /\ k' = k + 1 /\ UNCHANGED reply
       \/ k > Last /\ pc' = "begin" /\ UNCHANGED <<k, reply>>
    /\ UNCHANGED <<ifg, status, latest, own, after, delivered>>

(* vl53l0x_clear_sysrange_interrupt repeats the write; the next sensor, the *)
(* next round, or the end of a single measurement follows.                  *)
ClearAgain ==
    /\ At("clear_again")
    /\ \/ /\ NoFault /\ sensor' = Cleared
          /\ \/ after = "single" /\ Return("single") /\ UNCHANGED k
             \/ after # "single" /\ k < Last
                /\ pc' = "poll" /\ k' = k + 1 /\ UNCHANGED reply
             \/ after # "single" /\ k = Last
                /\ pc' = "begin" /\ UNCHANGED <<k, reply>>
       \/ WriteFails(Cleared) /\ UNCHANGED k
    /\ UNCHANGED <<ifg, status, latest, own, after, delivered>>

-----------------------------------------------------------------------------
NoValue == [n |-> 0, mm |-> VL53L0X_OUT_OF_RANGE]

Init ==
    /\ sensor = [s \in Sensors |->
                    [busy |-> FALSE, done |-> FALSE, started |-> 0, reg |-> NoValue]]
    /\ ifg = FALSE /\ status = "NOT_STARTED"
    /\ latest = [s \in Sensors |-> NoValue] /\ own = NoValue
    /\ pc = "idle" /\ k = 1 /\ after = "single"
    /\ reply = "none" /\ delivered = [s \in Sensors |-> 0]
    /\ faults = 0 /\ program \in Programs

SensorStep == \E s \in Sensors : Complete(s)
DriverStep ==
    Begin \/ Start \/ Block \/ Check \/ Sanity \/ Poll \/ Read \/ Clear \/ ClearAgain
CallStep == CallStart \/ CallMultiple \/ \E i \in DOMAIN Order : CallSingle(i)

(* assert_handler never returns.                                            *)
Halted == pc = "assert" /\ UNCHANGED vars

Next == SensorStep \/ Isr \/ DriverStep \/ CallStep \/ Halted

(* Every running measurement ends, a pending interrupt is taken, the driver *)
(* runs on, and the application calls it in a loop, as test.c does.         *)
Fairness ==
    /\ \A s \in Sensors : WF_vars(Complete(s))
    /\ WF_vars(Isr) /\ WF_vars(DriverStep) /\ WF_vars(CallMultiple)

Spec == Init /\ [][Next]_vars
FairSpec == Spec /\ Fairness

-----------------------------------------------------------------------------
Value == [n : 0 .. Rounds - 1, mm : 0 .. UINT16_MAX]
SensorState ==
    [busy : BOOLEAN, done : BOOLEAN, started : 0 .. Rounds - 1, reg : Value]
TypeOK ==
    /\ sensor \in [Sensors -> SensorState]
    /\ ifg \in BOOLEAN /\ status \in {"NOT_STARTED", "MEASURING", "DONE"}
    /\ latest \in [Sensors -> Value] /\ own \in Value
    /\ pc \in {"idle", "begin", "start", "block", "check", "sanity", "poll",
               "read", "clear", "clear_again", "assert"}
    /\ k \in 1 .. Last \/ (k = Last + 1 /\ pc \in {"idle", "begin", "check"})
    /\ after \in {"single", "started", "block", "fresh"}
    /\ reply \in {"none", "error", "started", "cached", "fresh", "single"}
    /\ delivered \in [Sensors -> 0 .. Rounds - 1]
    /\ faults \in 0 .. MaxFaults /\ program \in Programs

(* The driver's own "Sanity check!" (vl53l0x.c:741) holds.  It does not in  *)
(* an application that mixes its functions: the interrupt of a single       *)
(* measurement sets status_multiple, and the result it announces is gone.   *)
SanityCheckHolds == pc # "assert"

(* Ranges returned as fresh are one picture of the arena: all of them come  *)
(* from the same round of measurements, whatever transfers have failed.     *)
FreshIsOneRound ==
    reply = "fresh" => \A s \in Sensors : latest[s].n = latest[Mid].n

(* ... and every one of them is newer than what was returned as fresh       *)
(* before, so a caller that waits for fresh values acts on none twice.      *)
FreshIsNew ==
    [][reply' = "fresh" /\ reply # "fresh" =>
          \A s \in Sensors : latest'[s].n # delivered[s]]_vars

(* No measurement is started on a sensor that is still measuring, or whose  *)
(* last result has not been read: it would be lost, and no edge would       *)
(* follow, since the line of a finished sensor stays low.  So it is for an  *)
(* application that only reads all sensors, whatever transfers fail, and    *)
(* for one that reads single sensors until one fails.  One that starts a    *)
(* round itself breaks it: a round that is done may be started over.        *)
StartsIdleSensor ==
    [][program = {"multiple"} \/ (program = {"single"} /\ faults' = 0) =>
          \A s \in Sensors : sensor'[s].started # sensor[s].started =>
              ~sensor[s].busy /\ ~sensor[s].done]_vars

(* So no result is returned as fresh twice, and none is thrown away.        *)
EachResultOnce == FreshIsNew /\ StartsIdleSensor

(* "It starts measuring if no measurement is ongoing" (vl53l0x.h:44): when  *)
(* vl53l0x_read_range_multiple has returned OK, the sensors it will wait    *)
(* for next are measuring or done.                                          *)
MeasurementOngoing ==
    reply \in {"cached", "fresh"} =>
        \A s \in Sensors : sensor[s].busy \/ sensor[s].done

(* "ranges (or VL53L0X_OUT_OF_RANGE if out of range)" (vl53l0x.h:46): the   *)
(* sensor's other code never gets out with an OK.                           *)
RangesNormalised ==
    /\ reply \in {"cached", "fresh"} => \A s \in Sensors : latest[s].mm # 8191
    /\ reply = "single" => own.mm # 8191

(* fresh_values is "false if cached values" (vl53l0x.h:49) and only then:   *)
(* what is returned as cached has been returned as fresh before.            *)
CachedIsOld ==
    reply = "cached" => \A s \in Sensors : latest[s].n = delivered[s]

(* Up to the first transfer that fails all four promises are kept, by each  *)
(* kind of program that calls one function only.  After it the driver keeps *)
(* none of them, and in one that mixes the functions not the first.         *)
PromisesUntilFault ==
    faults = 0 => /\ SanityCheckHolds
                  /\ MeasurementOngoing
                  /\ RangesNormalised
                  /\ CachedIsOld

(* A caller that polls keeps getting fresh values, until a transfer fails   *)
(* and unless it starts rounds itself.                                      *)
KeepsMeasuring ==
    []<>(reply = "fresh") \/ <>(faults > 0) \/ program # {"multiple"}

(* Every call returns (or ends in the assert handler); in particular the    *)
(* first one blocks only "until range measurement is done" (vl53l0x.h:51).  *)
CallsReturn == pc # "idle" ~> pc \in {"idle", "assert"}

=============================================================================
