-------------------------- MODULE RangeSensorInit --------------------------
(***************************************************************************)
(* vl53l0x_init of drivers/vl53l0x.c: the sensors all answer at the same    *)
(* address, so they are woken one by one through their XSHUT pins and given *)
(* addresses of their own; then each is configured and calibrated, and the  *)
(* interrupt pin of the middle one is armed.                                *)
(*                                                                         *)
(* The driver does one thing after the other and gives up at the first     *)
(* failure, so its functions are the sequences of what they do; `turn` says *)
(* whose turn it is, `todo` what is left of it, and one step does the next  *)
(* thing.  Register tables without an effect on this protocol are one write.*)
(* A transfer may fail, before or after it has reached the sensor; the      *)
(* microcontroller may be reset at any time, while the sensors stay powered.*)
(***************************************************************************)
EXTENDS Naturals, Sequences, FiniteSets

CONSTANTS
    Order,              \* the sensors, MID first
    DefaultAddress, Address,   \* 0x29, and the address given to each sensor
    SPAD_MAP_ROW_COUNT, SPAD_ROW_SIZE, SPAD_MAX_COUNT,
    SPAD_APERTURE_START_INDEX,
    Nvms,               \* what ST may have saved: per sensor, how many SPADs to
                        \* enable, whether of type aperture, the good ones
    MaxFaults,          \* bound: failing transfers
    MaxResets           \* bound: resets of the microcontroller

Sensors == {Order[i] : i \in DOMAIN Order}
Mid == Order[1]

ASSUME OrderAssumption ==
    /\ Order \in Seq(Sensors) /\ Len(Order) > 0
    /\ \A i, j \in DOMAIN Order : Order[i] = Order[j] => i = j
ASSUME AddressAssumption ==
    /\ Address \in [Sensors -> Nat]
    /\ \A s \in Sensors : Address[s] # DefaultAddress
    /\ \A s, t \in Sensors : Address[s] = Address[t] => s = t
Spad == 0 .. SPAD_MAP_ROW_COUNT * SPAD_ROW_SIZE - 1
ASSUME SpadAssumption ==
    /\ SPAD_MAX_COUNT \in Spad /\ SPAD_APERTURE_START_INDEX \in Spad
    /\ SPAD_MAP_ROW_COUNT \in Nat \ {0} /\ SPAD_ROW_SIZE \in Nat \ {0}
    /\ \A n \in Nvms, s \in Sensors :
          n[s].count \in Nat /\ n[s].aperture \in BOOLEAN /\ n[s].good \subseteq Spad
ASSUME BoundAssumption == MaxFaults \in Nat /\ MaxResets \in Nat

VARIABLES
    sensor,     \* per sensor, see Asleep
    pin,        \* the interrupt pin: its edge, enable and flag bits, and
                \* whether its handler is registered
    slave,      \* UCB0I2CSA
    turn,       \* the function of vl53l0x_init that runs
    todo,       \* what is left of it
    result,     \* "none" while it runs, then "ok" or "error"; "assert" once
                \* the application has gone on without checking it
    faults, resets,
    nvm         \* what these sensors hold, a member of Nvms

progress == <<turn, todo, result>>
bounds == <<faults, resets, nvm>>
vars == <<sensor, pin, slave, progress, bounds>>

-----------------------------------------------------------------------------
(* A sensor in hardware standby has lost all it was told.                   *)
Asleep(s) ==
    [awake |-> FALSE, booted |-> FALSE, addr |-> DefaultAddress,
     config |-> {},         \* the tables it has been given
     strobe |-> "idle",     \* its non-volatile memory: idle, busy or ready
     spads |-> nvm[s].good, \* the SPAD map register, until it is written
     seq |-> "default",     \* REG_SYSTEM_SEQUENCE_CONFIG
     busy |-> FALSE,        \* it measures
     calibrated |-> {},     \* the calibrations it has done
     status |-> FALSE]      \* REG_RESULT_INTERRUPT_STATUS is not zero

Calibration == {"vhv", "phase"}
Table == {"data", "spads", "tuning", "interrupt"}

(* Those that take part in a transfer to `slave`.                           *)
Hearing == {s \in Sensors : sensor[s].booted /\ sensor[s].addr = slave}

(* What a write does to a sensor that hears it.                             *)
Takes(r, reg, value) ==
    CASE reg = "address"  -> [r EXCEPT !.addr = value]
      [] reg = "table"    -> [r EXCEPT !.config = @ \union {value}]
      [] reg = "strobe"   -> [r EXCEPT !.strobe = value]
      [] reg = "spads"    -> [r EXCEPT !.spads = value, !.config = @ \union {"spads"}]
      [] reg = "sequence" -> [r EXCEPT !.seq = value]
      [] reg = "clear"    -> [r EXCEPT !.status = FALSE]
      [] reg = "sysrange" -> [r EXCEPT !.busy = (value = "start")]

(* The pin is low while the middle sensor's status is set; a change of its  *)
(* level of the selected kind sets the flag.                                *)
Line(new) ==
    pin' = [pin EXCEPT !.ifg = @ \/
        IF pin.edge = "falling" THEN ~sensor[Mid].status /\ new[Mid].status
                                ELSE sensor[Mid].status /\ ~new[Mid].status]

Become(new) == sensor' = new /\ Line(new)

-----------------------------------------------------------------------------
(* The functions of the driver. *)
Wake(s)         == <<[op |-> "wake", s |-> s]>>
ReadId          == <<[op |-> "id"]>>
Select(s)       == <<[op |-> "select", s |-> s]>>
Write(reg, val) == <<[op |-> "write", reg |-> reg, val |-> val]>>
WaitStrobe      == <<[op |-> "strobe"]>>
ReadSpads       == <<[op |-> "spads"]>>
WaitInterrupt   == <<[op |-> "interrupt"]>>
Pin(what)       == <<[op |-> "pin", what |-> what]>>

vl53l0x_data_init == Write("table", "data")

vl53l0x_read_strobe ==
    Write("strobe", "busy") \o WaitStrobe \o Write("strobe", "idle")

vl53l0x_set_spads_from_nvm == vl53l0x_read_strobe \o ReadSpads

vl53l0x_configure_interrupt == Write("table", "interrupt") \o Write("clear", "interrupt")

vl53l0x_set_sequence_steps_enabled == Write("sequence", "range")

vl53l0x_static_init ==
    vl53l0x_set_spads_from_nvm \o Write("table", "tuning")
        \o vl53l0x_configure_interrupt \o vl53l0x_set_sequence_steps_enabled

vl53l0x_perform_single_ref_calibration(type) ==
    Write("sequence", type) \o Write("sysrange", "start") \o WaitInterrupt
        \o Write("clear", "interrupt") \o Write("sysrange", "stop")

(* Mutant: the sequence of the last calibration stays. *)
vl53l0x_perform_ref_calibration_no_restore ==
    vl53l0x_perform_single_ref_calibration("vhv")
        \o vl53l0x_perform_single_ref_calibration("phase")

vl53l0x_perform_ref_calibration ==
    vl53l0x_perform_single_ref_calibration("vhv")
        \o vl53l0x_perform_single_ref_calibration("phase")
        \o vl53l0x_set_sequence_steps_enabled

vl53l0x_configure_mid_sensor_interrupt ==
    Pin("disable") \o Pin("falling") \o Pin("clear") \o Pin("register")
        \o Pin("enable")

(* Mutant: the sensor keeps its address. *)
vl53l0x_init_address_kept(s) == Wake(s) \o ReadId

(* Mutant: the address is sent in its eight-bit form. *)
vl53l0x_init_address_shifted(s) ==
    Wake(s) \o ReadId \o Write("address", 2 * Address[s])

vl53l0x_init_address(s) == Wake(s) \o ReadId \o Write("address", Address[s])

vl53l0x_init_config(s) ==
    Select(s) \o vl53l0x_data_init \o vl53l0x_static_init
        \o vl53l0x_perform_ref_calibration
        \o IF s = Mid THEN vl53l0x_configure_mid_sensor_interrupt ELSE <<>>

(* Every sensor gets its address, and then every sensor its configuration.  *)
Turns == 2 * Len(Order)
vl53l0x_init(t) ==
    IF t <= Len(Order) THEN vl53l0x_init_address(Order[t])
                       ELSE vl53l0x_init_config(Order[t - Len(Order)])

-----------------------------------------------------------------------------
(* The choice of the SPADs. *)

(* i2c_read puts the first byte of the register last, i2c_write sends the   *)
(* first byte first; so the rows of the map read are those of the sensor in *)
(* reverse order, and those written are not.                                *)
i2c_read_map(map) ==
    {(SPAD_MAP_ROW_COUNT - 1 - i \div SPAD_ROW_SIZE) * SPAD_ROW_SIZE
        + (i % SPAD_ROW_SIZE) : i \in map}

Offset(s) == IF nvm[s].aperture THEN SPAD_APERTURE_START_INDEX ELSE 0

(* Mutant: the first SPAD of the type is skipped. *)
Before_after_offset(s, good, n) == {i \in good : Offset(s) < i /\ i < n}

(* The SPADs the loops may have enabled when they get to index n, and those *)
(* they have: the first ones.                                               *)
Before(s, good, n) == {i \in good : Offset(s) <= i /\ i < n}
EnabledBefore(s, good, n) ==
    {i \in Before(s, good, n) : Cardinality(Before(s, good, i)) < nvm[s].count}

(* The maps the loops end with, none if they return an error.  The limit is *)
(* tested before the count, unless a row is complete.                       *)
spad_map(s, good) ==
    {EnabledBefore(s, good, n) : n \in {m \in 0 .. SPAD_MAX_COUNT :
        /\ Cardinality(EnabledBefore(s, good, m)) = nvm[s].count
        /\ m < SPAD_MAX_COUNT \/ m % SPAD_ROW_SIZE = 0}}

-----------------------------------------------------------------------------
(* The steps. *)
At(op) == result = "none" /\ todo # <<>> /\ Head(todo).op = op
Proceed == todo' = Tail(todo) /\ UNCHANGED <<turn, result>>
GiveUp == todo' = <<>> /\ result' = "error" /\ UNCHANGED turn

Fault == faults < MaxFaults /\ faults' = faults + 1 /\ GiveUp
Success == UNCHANGED faults /\ Proceed

(* vl53l0x_set_hardware_standby(idx, false), and the address it answers at. *)
DoWake ==
    /\ At("wake")
    /\ sensor' = [sensor EXCEPT ![Head(todo).s].awake = TRUE]
    /\ slave' = DefaultAddress
    /\ Proceed /\ UNCHANGED <<pin, bounds>>

DoSelect ==
    /\ At("select") /\ slave' = Address[Head(todo).s]
    /\ Proceed /\ UNCHANGED <<sensor, pin, bounds>>

(* device_is_booted.  A sensor that has not booted within the delay is one  *)
(* of the failures.                                                         *)
DoReadId ==
    /\ At("id")
    /\ (Hearing # {} /\ Success) \/ Fault
       \/ (Hearing = {} /\ (\A s \in Sensors : sensor[s].awake => sensor[s].booted)
             /\ UNCHANGED faults /\ GiveUp)
    /\ UNCHANGED <<sensor, pin, slave, resets, nvm>>

(* A write is heard by all sensors at the address, acknowledged by any.     *)
DoWrite ==
    /\ At("write")
    /\ LET effect == [s \in Sensors |->
               IF s \in Hearing THEN Takes(sensor[s], Head(todo).reg, Head(todo).val)
                                ELSE sensor[s]]
       IN  \/ Hearing # {} /\ Become(effect) /\ Success
           \/ Hearing = {} /\ GiveUp /\ UNCHANGED <<sensor, pin, faults>>
           \/ \E new \in {sensor, effect} : Become(new) /\ Fault
    /\ UNCHANGED <<slave, resets, nvm>>

(* vl53l0x_set_spads_from_nvm: the map is read, and the chosen one written. *)
DoSpads ==
    /\ At("spads")
    /\ \/ \E s \in Hearing :
             LET maps == spad_map(s, i2c_read_map(sensor[s].spads))
             IN  \/ /\ maps = {} /\ GiveUp
                 \/ /\ UNCHANGED <<turn, result>>
                    /\ \E map \in maps : todo' = Write("spads", map) \o Tail(todo)
          /\ UNCHANGED faults
       \/ Hearing = {} /\ GiveUp /\ UNCHANGED faults
       \/ Fault
    /\ UNCHANGED <<sensor, pin, slave, resets, nvm>>

(* do { read } while (no error and not there yet).                          *)
DoWait(op, ready) ==
    /\ At(op)
    /\ (Hearing # {} /\ (\E s \in Hearing : ready[s]) /\ Success) \/ Fault
       \/ (Hearing = {} /\ GiveUp /\ UNCHANGED faults)
    /\ UNCHANGED <<sensor, pin, slave, resets, nvm>>

DoWaitStrobe == DoWait("strobe", [s \in Sensors |-> sensor[s].strobe = "ready"])
DoWaitInterrupt == DoWait("interrupt", [s \in Sensors |-> sensor[s].status])

(* io_configure_interrupt and io_enable_interrupt.  Selecting the edge may  *)
(* set the flag.                                                            *)
DoPin ==
    /\ At("pin") /\ LET what == Head(todo).what IN
          \/ what = "disable"  /\ pin' = [pin EXCEPT !.ie = FALSE] /\ Proceed
          \/ what = "falling"  /\ Proceed /\ \E flag \in BOOLEAN :
                pin' = [pin EXCEPT !.edge = "falling", !.ifg = @ \/ flag]
          \/ what = "clear"    /\ pin' = [pin EXCEPT !.ifg = FALSE] /\ Proceed
          \/ what = "register" /\ pin' = [pin EXCEPT !.isr = TRUE] /\ Proceed
          \/ what = "enable"   /\ pin' = [pin EXCEPT !.ie = TRUE] /\ Proceed
    /\ UNCHANGED <<sensor, slave, bounds>>

NextTurn ==
    /\ result = "none" /\ todo = <<>> /\ turn < Turns
    /\ turn' = turn + 1 /\ todo' = vl53l0x_init(turn + 1)
    /\ UNCHANGED <<sensor, pin, slave, result, bounds>>

Finish ==
    /\ result = "none" /\ todo = <<>> /\ turn = Turns /\ result' = "ok"
    /\ UNCHANGED <<sensor, pin, slave, turn, todo, bounds>>

(* No caller of vl53l0x_init stops when it fails: ASSERT(initialized).      *)
GoOn ==
    /\ result = "error" /\ result' = "assert"
    /\ UNCHANGED <<sensor, pin, slave, turn, todo, bounds>>

(* assert_handler never returns; after an OK the measurements begin, which  *)
(* RangeSensors is about.                                                   *)
Over == result \in {"ok", "assert"} /\ UNCHANGED vars

-----------------------------------------------------------------------------
(* The sensors. *)
Boot(s) ==
    /\ sensor[s].awake /\ ~sensor[s].booted
    /\ sensor' = [sensor EXCEPT ![s].booted = TRUE]
    /\ UNCHANGED <<pin, slave, progress, bounds>>

NvmReady(s) ==
    /\ sensor[s].strobe = "busy" /\ sensor' = [sensor EXCEPT ![s].strobe = "ready"]
    /\ UNCHANGED <<pin, slave, progress, bounds>>

(* Only a sensor that has been told to signal new samples does.             *)
Measured(r) ==
    [r EXCEPT !.busy = FALSE, !.calibrated = @ \union {r.seq},
              !.status = @ \/ "interrupt" \in r.config]
Calibrated(s) ==
    /\ sensor[s].busy
    /\ Become([sensor EXCEPT ![s] = Measured(sensor[s])])
    /\ UNCHANGED <<slave, progress, bounds>>

(* Mutant: the XSHUT pins are not low after a reset. *)
io_init_awake ==
    UNCHANGED sensor /\ pin' = [pin EXCEPT !.ie = FALSE, !.isr = FALSE]

(* io_init: all XSHUT pins are low, and the sensors in standby.  The edge   *)
(* and flag bits of a port survive a reset.                                 *)
io_init ==
    /\ sensor' = [s \in Sensors |-> Asleep(s)]
    /\ pin' = [pin EXCEPT !.ie = FALSE, !.isr = FALSE]

Reset ==
    /\ resets < MaxResets /\ resets' = resets + 1
    /\ io_init
    /\ slave' = DefaultAddress
    /\ turn' = 1 /\ todo' = vl53l0x_init(1) /\ result' = "none"
    /\ UNCHANGED <<faults, nvm>>

-----------------------------------------------------------------------------
Init ==
    /\ nvm \in Nvms
    /\ sensor = [s \in Sensors |-> Asleep(s)]
    /\ pin \in [edge : {"rising", "falling"}, ie : {FALSE}, ifg : BOOLEAN,
                isr : {FALSE}]
    /\ slave = DefaultAddress
    /\ turn = 1 /\ todo = vl53l0x_init(1) /\ result = "none"
    /\ faults = 0 /\ resets = 0

DriverStep ==
    \/ DoWake \/ DoSelect \/ DoReadId \/ DoWrite \/ DoSpads \/ DoWaitStrobe
    \/ DoWaitInterrupt \/ DoPin \/ NextTurn \/ Finish
SensorStep(s) == Boot(s) \/ NvmReady(s) \/ Calibrated(s)

Next ==
    DriverStep \/ GoOn \/ Over \/ Reset \/ \E s \in Sensors : SensorStep(s)

(* The driver runs on, a sensor boots, answers and finishes what it does.   *)
Fairness ==
    WF_vars(DriverStep) /\ WF_vars(GoOn)
        /\ \A s \in Sensors : WF_vars(SensorStep(s))

Spec == Init /\ [][Next]_vars
FairSpec == Spec /\ Fairness

-----------------------------------------------------------------------------
Addresses == {DefaultAddress} \union {Address[s] : s \in Sensors}
Sequence == {"default", "range"} \union Calibration
SensorState ==
    [awake : BOOLEAN, booted : BOOLEAN, busy : BOOLEAN, status : BOOLEAN,
     addr : Addresses, config : SUBSET Table, strobe : {"idle", "busy", "ready"},
     spads : SUBSET Spad, seq : Sequence, calibrated : SUBSET Sequence]
TypeOK ==
    /\ sensor \in [Sensors -> SensorState]
    /\ pin \in [edge : {"rising", "falling"}, ie : BOOLEAN, ifg : BOOLEAN,
                isr : BOOLEAN]
    /\ slave \in Addresses
    /\ turn \in 1 .. Turns /\ result \in {"none", "ok", "error", "assert"}
    /\ faults \in 0 .. MaxFaults /\ resets \in 0 .. MaxResets
    /\ nvm \in Nvms

(* "This functions assumes that all non-configured VL53L0X are still in     *)
(* hardware standby" (vl53l0x.c:517): no transfer is ever heard by two      *)
(* sensors, whichever transfers have failed and whenever the                *)
(* microcontroller was reset.                                               *)
HeardByOne == Cardinality(Hearing) <= 1

(* When vl53l0x_init has returned OK every sensor answers at its own        *)
(* address, has its settings and both calibrations, is set to range, and    *)
(* has no interrupt standing.                                               *)
OkMeansConfigured ==
    result = "ok" => \A s \in Sensors :
        /\ sensor[s].addr = Address[s] /\ sensor[s].config = Table
        /\ sensor[s].calibrated = Calibration /\ sensor[s].seq = "range"
        /\ ~sensor[s].busy /\ ~sensor[s].status

(* mid_measurement_done_isr cannot be called before vl53l0x_init has        *)
(* returned, nor by what is left standing then: the calibrations pull the   *)
(* same line, and the first measurement must not be announced before it is  *)
(* started.  This is why the interrupt handler is no action here.           *)
NotAnnounced ==
    /\ ~(pin.ie /\ pin.ifg)
    /\ result = "ok" => pin = [edge |-> "falling", ie |-> TRUE, isr |-> TRUE,
                               ifg |-> FALSE]

(* What the measurements rely on.                                           *)
OkMeansReady == OkMeansConfigured /\ NotAnnounced

(* vl53l0x_init returns: its waits, which have no timeout, all end.         *)
InitReturns == result = "none" ~> result # "none"

(* "The subset should only have the number of type enabled as suggested by  *)
(* the reading from the NVM" (vl53l0x.c:282): after an OK just as many      *)
(* SPADs are enabled as ST has saved, within the area that may be           *)
(* activated, and none at an index of the wrong type if that is aperture;   *)
(* and they are "a subset of the SPADs suggested by the good SPAD map" as   *)
(* i2c_read returns that map, in reverse: not of the good SPADs themselves. *)
SpadsAsNvm ==
    result = "ok" => \A s \in Sensors :
        /\ Cardinality(sensor[s].spads) = nvm[s].count
        /\ sensor[s].spads \subseteq i2c_read_map(nvm[s].good)
        /\ \A i \in sensor[s].spads :
              i < SPAD_MAX_COUNT /\ (nvm[s].aperture => SPAD_APERTURE_START_INDEX <= i)

(* If no transfer fails, only a sensor with too few SPADs to choose from    *)
(* makes vl53l0x_init fail.  The last SPAD of the area is left out: a choice*)
(* that it completes is an error, since the limit is tested before the      *)
(* count (vl53l0x.c:287).                                                   *)
SpadsSuffice(s) ==
    Cardinality({i \in i2c_read_map(nvm[s].good) :
        Offset(s) <= i /\ i < SPAD_MAX_COUNT - 1}) >= nvm[s].count
FailsForCause ==
    result \in {"error", "assert"} => faults > 0 \/ \E s \in Sensors : ~SpadsSuffice(s)

(* The choice of the SPADs is right if there is one, and there is one       *)
(* whenever there can be.                                                   *)
SpadChoice == SpadsAsNvm /\ FailsForCause

(* After a reset at any moment the sensors come up again if no transfer     *)
(* fails from then on, although they were never powered down.               *)
ResetRecovers ==
    \A n \in 1 .. MaxResets :
        resets = n /\ faults = MaxFaults /\ result = "none"
          /\ turn = 1 /\ todo = vl53l0x_init(1)
          /\ (\A s \in Sensors : SpadsSuffice(s)) ~> result = "ok" \/ resets > n

(* The bring-up ends, and ends well if nothing fails.                       *)
ComesUp == InitReturns /\ ResetRecovers

=============================================================================
