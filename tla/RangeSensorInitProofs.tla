------------------------ MODULE RangeSensorInitProofs ------------------------
(***************************************************************************)
(* The bring-up of the range sensors, for any number of sensors, any SPAD  *)
(* maps and any number of failing transfers and resets.  The argument      *)
(* follows the turns: the sensors whose turn is over are settled, those    *)
(* whose turn is to come are as they woke up, and the one whose turn it is *)
(* has been told what the driver has done so far and no more.              *)
(***************************************************************************)
EXTENDS RangeSensorInit, FiniteSetTheorems, SequenceTheorems, WellFoundedInduction, TLAPS

-----------------------------------------------------------------------------
(* A sensor before its configuration, and after it.                         *)
Fresh(r) ==
    /\ r.config = {} /\ r.calibrated = {} /\ r.seq = "default"
    /\ ~r.busy /\ ~r.status
Settled(r) ==
    /\ r.config = Table /\ r.calibrated = Calibration /\ r.seq = "range"
    /\ ~r.busy /\ ~r.status

(* What it has been told when k things of its configuration are done.       *)
ConfigAfter(k) ==
    IF k < 2 THEN {} ELSE IF k < 6 THEN {"data"}
    ELSE IF k < 7 THEN {"data", "spads"}
    ELSE IF k < 8 THEN {"data", "spads", "tuning"} ELSE Table
SequenceAfter(k) ==
    IF k < 10 THEN "default" ELSE IF k < 11 THEN "range"
    ELSE IF k < 16 THEN "vhv" ELSE IF k < 21 THEN "phase" ELSE "range"

(* Both calibrations take their time: they are started by the 12th and the  *)
(* 17th thing to do, and awaited next.                                      *)
CalibratedAfter(k, busy) ==
    IF k < 12 \/ (k = 12 /\ busy) THEN {}
    ELSE IF k < 17 \/ (k = 17 /\ busy) THEN {"vhv"} ELSE Calibration
Configuring(r, k) ==
    /\ r.config = ConfigAfter(k) /\ r.seq = SequenceAfter(k)
    /\ r.calibrated = CalibratedAfter(k, r.busy)
    /\ r.busy => k \in {12, 17}
    /\ r.status <=> k \in {13, 18} \/ (k \in {12, 17} /\ ~r.busy)

-----------------------------------------------------------------------------
Index == DOMAIN Order
Now == Order[turn - Len(Order)]    \* the sensor that is being configured
Done == Len(vl53l0x_init_config(Now)) - Len(todo)
InConfig == turn > Len(Order)

(* The sensors woken so far have addresses of their own.                    *)
WakeInv ==
    /\ \A j \in Index :
          /\ j < turn => sensor[Order[j]].addr = Address[Order[j]]
          /\ turn < j => ~sensor[Order[j]].awake /\ ~sensor[Order[j]].booted
    /\ ~InConfig => slave = DefaultAddress

TodoInv == \E S : todo \in Seq(S)

(* What is left of an address turn.                                         *)
AddressInv ==
    ~InConfig /\ result = "none" =>
        /\ Len(todo) <= 3
        /\ \A i \in DOMAIN todo :
               todo[i] = vl53l0x_init_address(Order[turn])[3 - Len(todo) + i]
        /\ todo = <<>> => sensor[Order[turn]].addr = Address[Order[turn]]

(* What is left of a configuration: the rest of its program, or the map     *)
(* that has been chosen and then the rest.                                  *)
ConfigInv ==
    InConfig /\ result = "none" =>
        /\ Done >= 0
        /\ \A i \in DOMAIN todo :
               \/ todo[i] = vl53l0x_init_config(Now)[Done + i]
               \/ /\ Done = 5 /\ i = 1
                  /\ \E map \in SUBSET Spad : <<todo[i]>> = Write("spads", map)
        /\ Done > 0 => slave = Address[Now]

SettledInv ==
    \A j \in Index :
        /\ j + Len(Order) < turn => Settled(sensor[Order[j]])
        /\ turn < j + Len(Order) => Fresh(sensor[Order[j]])

NowInv ==
    InConfig /\ result \in {"none", "ok"} => Configuring(sensor[Now], Done)

OkInv == (result = "ok" => turn = Turns) /\ (result # "none" => todo = <<>>)

(* The pin of the middle sensor, which is configured first, while k things  *)
(* of its configuration are done, and from then on.                         *)
PinAt(p, k) ==
    /\ p.ie <=> k = 26
    /\ k >= 23 => p.edge = "falling"
    /\ k >= 24 => ~p.ifg
    /\ k >= 25 => p.isr
PinInv ==
    /\ turn <= Len(Order) => ~pin.ie
    /\ turn = Len(Order) + 1 =>
          IF result \in {"none", "ok"} THEN PinAt(pin, Done) ELSE ~pin.ie
    /\ turn > Len(Order) + 1 =>
          pin = [edge |-> "falling", ie |-> TRUE, isr |-> TRUE, ifg |-> FALSE]

IInv ==
    /\ TypeOK /\ WakeInv /\ TodoInv /\ AddressInv /\ ConfigInv
    /\ SettledInv /\ NowInv /\ OkInv /\ PinInv

-----------------------------------------------------------------------------
(* The programs.  (Len(s) = n is said by two inequalities: as an equation it *)
(* takes the length of s out of the provers' sight.)                        *)
HasLength(s, n) == Len(s) <= n /\ n <= Len(s)

(* What the configuration of s does when k things are done.                 *)
Writes(k, reg, v) ==
    \/ reg = "table" /\ \/ k = 1 /\ v = "data"
                        \/ k = 6 /\ v = "tuning"
                        \/ k = 7 /\ v = "interrupt"
    \/ reg = "strobe" /\ \/ k = 2 /\ v = "busy"
                         \/ k = 4 /\ v = "idle"
    \/ reg = "spads" /\ k = 5 /\ v \in SUBSET Spad
    \/ reg = "clear" /\ k \in {8, 13, 18}
    \/ reg = "sequence" /\ \/ k \in {9, 20} /\ v = "range"
                           \/ k = 10 /\ v = "vhv"
                           \/ k = 15 /\ v = "phase"
    \/ reg = "sysrange" /\ \/ k \in {11, 16} /\ v = "start"
                           \/ k \in {14, 19} /\ v = "stop"
Places(s, k, op) ==
    \/ op.op = "select" /\ k = 0 /\ op.s = s
    \/ op.op = "strobe" /\ k = 3
    \/ op.op = "spads" /\ k = 5
    \/ op.op = "interrupt" /\ k \in {12, 17}
    \/ op.op = "write" /\ Writes(k, op.reg, op.val)
    \/ op.op = "pin" /\ s = Mid /\
          \/ k = 21 /\ op.what = "disable"
          \/ k = 22 /\ op.what = "falling"
          \/ k = 23 /\ op.what = "clear"
          \/ k = 24 /\ op.what = "register"
          \/ k = 25 /\ op.what = "enable"

(* The configuration of any sensor, and what comes on top in the middle one. *)
LEMMA ConfigIs ==
    ASSUME NEW s \in Sensors
    PROVE  LET p == vl53l0x_init_config(s)
               n == IF s = Mid THEN 26 ELSE 21
           IN  /\ HasLength(p, n) /\ \E S : p \in Seq(S)
               /\ \A k \in Nat : k < n => Places(s, k, p[k + 1])
               /\ p[6] = [op |-> "spads"]
<1> DEFINE a == [op |-> "select", s |-> s]
           b == [op |-> "write", reg |-> "table", val |-> "data"]
           c1 == [op |-> "write", reg |-> "strobe", val |-> "busy"]
           c2 == [op |-> "strobe"]
           c3 == [op |-> "write", reg |-> "strobe", val |-> "idle"]
           c4 == [op |-> "spads"]
           c5 == [op |-> "write", reg |-> "table", val |-> "tuning"]
           c6 == [op |-> "write", reg |-> "table", val |-> "interrupt"]
           c7 == [op |-> "write", reg |-> "clear", val |-> "interrupt"]
           c8 == [op |-> "write", reg |-> "sequence", val |-> "range"]
           d1 == [op |-> "write", reg |-> "sequence", val |-> "vhv"]
           d2 == [op |-> "write", reg |-> "sysrange", val |-> "start"]
           d3 == [op |-> "interrupt"]
           d4 == [op |-> "write", reg |-> "sysrange", val |-> "stop"]
           d5 == [op |-> "write", reg |-> "sequence", val |-> "phase"]
           e1 == [op |-> "pin", what |-> "disable"]
           e2 == [op |-> "pin", what |-> "falling"]
           e3 == [op |-> "pin", what |-> "clear"]
           e4 == [op |-> "pin", what |-> "register"]
           e5 == [op |-> "pin", what |-> "enable"]
           S == {a, b, c1, c2, c3, c4, c5, c6, c7, c8, d1, d2, d3, d4, d5, e1, e2, e3, e4, e5}
           p == <<a>> \o <<b>>
             \o ((((<<c1>> \o <<c2>> \o <<c3>>) \o <<c4>>) \o <<c5>>)
                  \o (<<c6>> \o <<c7>>) \o <<c8>>)
             \o ((<<d1>> \o <<d2>> \o <<d3>> \o <<c7>> \o <<d4>>)
                  \o (<<d5>> \o <<d2>> \o <<d3>> \o <<c7>> \o <<d4>>) \o <<c8>>)
           q == p \o (<<e1>> \o <<e2>> \o <<e3>> \o <<e4>> \o <<e5>>)
<1>1. s # Mid => vl53l0x_init_config(s) = p \o <<>>
  BY DEF vl53l0x_init_config, Select, vl53l0x_data_init, vl53l0x_static_init,
         vl53l0x_set_spads_from_nvm, vl53l0x_read_strobe, Write, WaitStrobe,
         ReadSpads, vl53l0x_configure_interrupt, vl53l0x_set_sequence_steps_enabled,
         vl53l0x_perform_ref_calibration, vl53l0x_perform_single_ref_calibration,
         WaitInterrupt
<1>2. s = Mid => vl53l0x_init_config(s) = q
  BY DEF vl53l0x_init_config, Select, vl53l0x_data_init, vl53l0x_static_init,
         vl53l0x_set_spads_from_nvm, vl53l0x_read_strobe, Write, WaitStrobe,
         ReadSpads, vl53l0x_configure_interrupt, vl53l0x_set_sequence_steps_enabled,
         vl53l0x_perform_ref_calibration, vl53l0x_perform_single_ref_calibration,
         WaitInterrupt, vl53l0x_configure_mid_sensor_interrupt, Pin
<1>3. a \in S /\ b \in S /\ c1 \in S /\ c2 \in S /\ c3 \in S /\ c4 \in S /\ c5 \in S
      /\ c6 \in S /\ c7 \in S /\ c8 \in S /\ d1 \in S /\ d2 \in S /\ d3 \in S
      /\ d4 \in S /\ d5 \in S /\ e1 \in S /\ e2 \in S /\ e3 \in S /\ e4 \in S
      /\ e5 \in S
  OBVIOUS
<1> HIDE DEF a, b, c1, c2, c3, c4, c5, c6, c7, c8, d1, d2, d3, d4, d5, e1, e2, e3, e4, e5, S
<1>4. /\ p \in Seq(S) /\ HasLength(p, 21)
      /\ p[1] = a
      /\ p[2] = b
      /\ p[3] = c1
      /\ p[4] = c2
      /\ p[5] = c3
      /\ p[6] = c4
      /\ p[7] = c5
      /\ p[8] = c6
      /\ p[9] = c7
      /\ p[10] = c8
      /\ p[11] = d1
      /\ p[12] = d2
      /\ p[13] = d3
      /\ p[14] = c7
      /\ p[15] = d4
      /\ p[16] = d5
      /\ p[17] = d2
      /\ p[18] = d3
      /\ p[19] = c7
      /\ p[20] = d4
      /\ p[21] = c8
  BY <1>3 DEF HasLength
<1>5. /\ q \in Seq(S) /\ HasLength(q, 26)
      /\ q[1] = a
      /\ q[2] = b
      /\ q[3] = c1
      /\ q[4] = c2
      /\ q[5] = c3
      /\ q[6] = c4
      /\ q[7] = c5
      /\ q[8] = c6
      /\ q[9] = c7
      /\ q[10] = c8
      /\ q[11] = d1
      /\ q[12] = d2
      /\ q[13] = d3
      /\ q[14] = c7
      /\ q[15] = d4
      /\ q[16] = d5
      /\ q[17] = d2
      /\ q[18] = d3
      /\ q[19] = c7
      /\ q[20] = d4
      /\ q[21] = c8
      /\ q[22] = e1
      /\ q[23] = e2
      /\ q[24] = e3
      /\ q[25] = e4
      /\ q[26] = e5
  BY <1>3 DEF HasLength
<1> HIDE DEF p, q
<1>6. ASSUME NEW r, r[1] = a, r[2] = b, r[3] = c1, r[4] = c2, r[5] = c3, r[6] = c4, r[7] = c5,
             r[8] = c6, r[9] = c7, r[10] = c8, r[11] = d1, r[12] = d2, r[13] = d3, r[14] = c7,
             r[15] = d4, r[16] = d5, r[17] = d2, r[18] = d3, r[19] = c7, r[20] = d4, r[21] = c8
      PROVE  \A k \in Nat : k < 21 => Places(s, k, r[k + 1])
  <2>1. Places(s, 0, r[1])
    BY <1>6 DEF a, Places, Writes
  <2>2. Places(s, 1, r[2])
    BY <1>6 DEF b, Places, Writes
  <2>3. Places(s, 2, r[3])
    BY <1>6 DEF c1, Places, Writes
  <2>4. Places(s, 3, r[4])
    BY <1>6 DEF c2, Places, Writes
  <2>5. Places(s, 4, r[5])
    BY <1>6 DEF c3, Places, Writes
  <2>6. Places(s, 5, r[6])
    BY <1>6 DEF c4, Places, Writes
  <2>7. Places(s, 6, r[7])
    BY <1>6 DEF c5, Places, Writes
  <2>8. Places(s, 7, r[8])
    BY <1>6 DEF c6, Places, Writes
  <2>9. Places(s, 8, r[9])
    BY <1>6 DEF c7, Places, Writes
  <2>10. Places(s, 9, r[10])
    BY <1>6 DEF c8, Places, Writes
  <2>11. Places(s, 10, r[11])
    BY <1>6 DEF d1, Places, Writes
  <2>12. Places(s, 11, r[12])
    BY <1>6 DEF d2, Places, Writes
  <2>13. Places(s, 12, r[13])
    BY <1>6 DEF d3, Places, Writes
  <2>14. Places(s, 13, r[14])
    BY <1>6 DEF c7, Places, Writes
  <2>15. Places(s, 14, r[15])
    BY <1>6 DEF d4, Places, Writes
  <2>16. Places(s, 15, r[16])
    BY <1>6 DEF d5, Places, Writes
  <2>17. Places(s, 16, r[17])
    BY <1>6 DEF d2, Places, Writes
  <2>18. Places(s, 17, r[18])
    BY <1>6 DEF d3, Places, Writes
  <2>19. Places(s, 18, r[19])
    BY <1>6 DEF c7, Places, Writes
  <2>20. Places(s, 19, r[20])
    BY <1>6 DEF d4, Places, Writes
  <2>21. Places(s, 20, r[21])
    BY <1>6 DEF c8, Places, Writes
  <2>22. ASSUME NEW k \in Nat, k < 21 PROVE Places(s, k, r[k + 1])
    <3>1. k \in {0, 1, 2, 3, 4, 5, 6, 7, 8, 9, 10, 11, 12, 13, 14, 15, 16, 17, 18, 19, 20}
      BY <2>22
    <3> QED BY <3>1, <2>1, <2>2, <2>3, <2>4, <2>5, <2>6, <2>7, <2>8, <2>9, <2>10,
               <2>11, <2>12, <2>13, <2>14, <2>15, <2>16, <2>17, <2>18, <2>19,
               <2>20, <2>21
  <2> QED BY <2>22
<1>7. CASE s # Mid
  <2>1. vl53l0x_init_config(s) = p
    BY <1>1, <1>4, <1>7
  <2> QED BY <1>4, <1>6, <1>7, <2>1 DEF c4
<1>8. CASE s = Mid
  <2>1. vl53l0x_init_config(s) = q
    BY <1>2, <1>8
  <2>2. \A k \in Nat : k < 21 => Places(s, k, q[k + 1])
    BY <1>5, <1>6
  <2>3. Places(s, 21, q[22])
    BY <1>5, <1>8 DEF e1, Places, Writes
  <2>4. Places(s, 22, q[23])
    BY <1>5, <1>8 DEF e2, Places, Writes
  <2>5. Places(s, 23, q[24])
    BY <1>5, <1>8 DEF e3, Places, Writes
  <2>6. Places(s, 24, q[25])
    BY <1>5, <1>8 DEF e4, Places, Writes
  <2>7. Places(s, 25, q[26])
    BY <1>5, <1>8 DEF e5, Places, Writes
  <2>8. ASSUME NEW k \in Nat, k < 26, ~(k < 21) PROVE Places(s, k, q[k + 1])
    <3>1. k \in {21, 22, 23, 24, 25}
      BY <2>8
    <3> QED BY <3>1, <2>3, <2>4, <2>5, <2>6, <2>7
  <2> QED BY <1>5, <1>8, <2>1, <2>2, <2>8 DEF c4
<1> QED BY <1>7, <1>8

-----------------------------------------------------------------------------
(* The sensors and their turns.                                             *)
LEMMA OrderIs ==
    /\ Len(Order) \in Nat /\ Len(Order) > 0 /\ Index = 1 .. Len(Order)
    /\ \A j \in Index : Order[j] \in Sensors
    /\ \A s \in Sensors : \E j \in Index : s = Order[j]
    /\ \A i, j \in Index : Order[i] = Order[j] => i = j
    /\ 1 \in Index /\ Mid = Order[1] /\ Mid \in Sensors
    /\ Turns = Len(Order) + Len(Order)
BY OrderAssumption DEF Index, Sensors, Mid, Turns

Current == IF InConfig THEN Now ELSE Order[turn]

LEMMA CurrentIs ==
    ASSUME TypeOK
    PROVE  /\ Current \in Sensors
           /\ InConfig => /\ turn - Len(Order) \in Index /\ Now \in Sensors /\ Now = Current
                          /\ Now = Mid <=> turn = Len(Order) + 1
           /\ ~InConfig => turn \in Index
<1>1. turn \in Nat /\ 1 <= turn /\ turn <= Len(Order) + Len(Order)
  BY OrderIs DEF TypeOK
<1>2. CASE InConfig
  <2>1. turn - Len(Order) \in Index
    BY <1>1, <1>2, OrderIs DEF InConfig
  <2>2. Now = Mid <=> turn - Len(Order) = 1
    BY <2>1, OrderIs DEF Now
  <2> QED BY <1>1, <1>2, <2>1, <2>2, OrderIs DEF Now, Current
<1>3. CASE ~InConfig
  BY <1>1, <1>3, OrderIs DEF InConfig, Current
<1> QED BY <1>2, <1>3

(* At most one sensor hears a transfer: the others have addresses of their  *)
(* own or have not been woken.                                              *)
LEMMA OneHears ==
    ASSUME TypeOK, WakeInv
    PROVE  /\ \A s, t \in Hearing : s = t
           /\ ~InConfig => Hearing \subseteq {Current}
           /\ InConfig /\ slave = Address[Now] => Hearing \subseteq {Current}
<1>1. turn \in Nat
  BY OrderIs DEF TypeOK
<1>2. CASE ~InConfig
  <2> SUFFICES ASSUME NEW s \in Hearing PROVE s = Current
    BY <1>2
  <2>1. s \in Sensors /\ sensor[s].booted /\ sensor[s].addr = DefaultAddress
    BY <1>2 DEF Hearing, WakeInv
  <2>2. PICK j \in Index : s = Order[j]
    BY <2>1, OrderIs
  <2>3. ~(j < turn)
    BY <2>1, <2>2, AddressAssumption DEF WakeInv
  <2>4. ~(turn < j)
    BY <2>1, <2>2 DEF WakeInv
  <2> QED BY <1>1, <1>2, <2>2, <2>3, <2>4, OrderIs DEF Current
<1>3. CASE InConfig
  <2>1. \A s \in Hearing : s \in Sensors /\ slave = Address[s]
    <3> SUFFICES ASSUME NEW s \in Hearing PROVE s \in Sensors /\ slave = Address[s]
      OBVIOUS
    <3>1. s \in Sensors /\ sensor[s].addr = slave
      BY DEF Hearing
    <3>2. PICK j \in Index : s = Order[j]
      BY <3>1, OrderIs
    <3>3. j < turn
      BY <1>1, <1>3, <3>2, OrderIs DEF InConfig
    <3> QED BY <3>1, <3>2, <3>3 DEF WakeInv
  <2> QED BY <1>3, <2>1, CurrentIs, AddressAssumption
<1> QED BY <1>2, <1>3

(* No transfer is heard by two sensors.                                     *)
LEMMA HeardOnce == TypeOK /\ WakeInv => HeardByOne
<1> SUFFICES ASSUME TypeOK, WakeInv PROVE Cardinality(Hearing) <= 1
  BY DEF HeardByOne
<1>1. CASE Hearing = {}
  BY <1>1, FS_EmptySet
<1>2. CASE Hearing # {}
  <2>1. PICK s : s \in Hearing
    BY <1>2
  <2>2. Hearing = {s}
    BY <2>1, OneHears
  <2> QED BY <2>2, FS_Singleton
<1> QED BY <1>1, <1>2

-----------------------------------------------------------------------------
(* What the driver is about to do.                                          *)
LEMMA HeadIs ==
    ASSUME TodoInv, todo # <<>>
    PROVE  /\ Head(todo) = todo[1] /\ 1 \in DOMAIN todo
           /\ Len(todo) \in Nat /\ Len(todo) > 0
           /\ \E S : Tail(todo) \in Seq(S)
           /\ Len(Tail(todo)) = Len(todo) - 1
           /\ \A i \in DOMAIN Tail(todo) :
                  i + 1 \in DOMAIN todo /\ Tail(todo)[i] = todo[i + 1]
<1>1. PICK S : todo \in Seq(S)
  BY DEF TodoInv
<1> QED BY <1>1

LEMMA ConfigLength ==
    ASSUME NEW s \in Sensors
    PROVE  Len(vl53l0x_init_config(s)) = IF s = Mid THEN 26 ELSE 21
<1> DEFINE p == vl53l0x_init_config(s)
<1>1. PICK S : p \in Seq(S)
  BY ConfigIs
<1>2. Len(p) \in Nat
  BY <1>1
<1>3. HasLength(p, IF s = Mid THEN 26 ELSE 21)
  BY ConfigIs
<1>4. \A m, n \in Nat : m <= n /\ n <= m => m = n
  OBVIOUS
<1> HIDE DEF p
<1>5. ASSUME NEW n \in Nat, HasLength(p, n) PROVE Len(p) = n
  <2>1. Len(p) <= n /\ n <= Len(p)
    BY <1>5 DEF HasLength
  <2> QED BY <1>2, <1>4, <2>1
<1>6. Len(p) = IF s = Mid THEN 26 ELSE 21
  BY <1>3, <1>5
<1> QED BY <1>6 DEF p

(* In a configuration turn the next thing to do is the one whose place it   *)
(* is, and when it has been done the one after it is next.                  *)
LEMMA ConfigHead ==
    ASSUME TypeOK, TodoInv, ConfigInv, InConfig, result = "none", todo # <<>>
    PROVE  /\ Done \in Nat /\ Done < (IF Now = Mid THEN 26 ELSE 21)
           /\ Places(Now, Done, Head(todo))
<1>1. Now \in Sensors
  BY CurrentIs
<1> DEFINE p == vl53l0x_init_config(Now)
           n == IF Now = Mid THEN 26 ELSE 21
<1>2. Len(p) = n
  BY <1>1, ConfigLength
<1>3. \A k \in Nat : k < n => Places(Now, k, p[k + 1])
  BY <1>1, ConfigIs
<1>4. /\ Head(todo) = todo[1] /\ 1 \in DOMAIN todo
      /\ Len(todo) \in Nat /\ Len(todo) > 0
  BY HeadIs
<1>5. /\ Done >= 0
      /\ \/ todo[1] = p[Done + 1]
         \/ Done = 5 /\ \E map \in SUBSET Spad : <<todo[1]>> = Write("spads", map)
  BY <1>4 DEF ConfigInv
<1>6. Done = n - Len(todo)
  BY <1>2 DEF Done
<1> HIDE DEF p, n
<1>7. n \in Nat
  BY DEF n
<1>8. Done \in Nat /\ Done < n
  BY <1>4, <1>5, <1>6, <1>7
<1>9. CASE todo[1] = p[Done + 1]
  BY <1>3, <1>4, <1>8, <1>9 DEF n
<1>10. CASE Done = 5 /\ \E map \in SUBSET Spad : <<todo[1]>> = Write("spads", map)
  <2>1. PICK map \in SUBSET Spad : <<todo[1]>> = Write("spads", map)
    BY <1>10
  <2>2. todo[1] = [op |-> "write", reg |-> "spads", val |-> map]
    BY <2>1 DEF Write
  <2>3. Places(Now, 5, todo[1])
    BY <2>2 DEF Places, Writes
  <2> QED BY <1>4, <1>8, <1>10, <2>3 DEF n
<1> QED BY <1>5, <1>9, <1>10

LEMMA ConfigProceeds ==
    ASSUME TypeOK, TodoInv, ConfigInv, InConfig, result = "none", todo # <<>>,
           Proceed, Done > 0 => slave' = slave, Done = 0 => slave' = Address[Now]
    PROVE  /\ Done' = Done + 1 /\ Now' = Now /\ InConfig'
           /\ TodoInv' /\ ConfigInv' /\ AddressInv'
<1>1. /\ Done \in Nat /\ Now \in Sensors
  BY ConfigHead, CurrentIs
<1>2. Now' = Now /\ (InConfig <=> InConfig') /\ result' = "none" /\ todo' = Tail(todo)
  BY DEF Now, InConfig, Proceed
<1>3. /\ Len(todo) \in Nat /\ Len(todo) > 0
      /\ \E S : Tail(todo) \in Seq(S)
      /\ Len(Tail(todo)) = Len(todo) - 1
      /\ \A i \in DOMAIN Tail(todo) :
             /\ i + 1 \in DOMAIN todo /\ Tail(todo)[i] = todo[i + 1]
             /\ i \in Nat /\ i >= 1
  <2>1. PICK S : Tail(todo) \in Seq(S)
    BY HeadIs
  <2>2. \A i \in DOMAIN Tail(todo) : i \in Nat /\ i >= 1
    BY <2>1
  <2> QED BY HeadIs, <2>1, <2>2
<1>4. TodoInv'
  BY <1>2, <1>3 DEF TodoInv
<1>5. Done' = Done + 1
  <2>1. Len(vl53l0x_init_config(Now)) \in Nat
    BY <1>1, ConfigLength
  <2> QED BY <1>2, <1>3, <2>1 DEF Done
<1>6. ConfigInv'
  <2>1. \A i \in DOMAIN todo' :
           todo'[i] = vl53l0x_init_config(Now)[Done + 1 + i]
    <3> SUFFICES ASSUME NEW i \in DOMAIN todo'
                 PROVE  todo'[i] = vl53l0x_init_config(Now)[Done + 1 + i]
      OBVIOUS
    <3>1. i + 1 \in DOMAIN todo /\ todo'[i] = todo[i + 1] /\ i \in Nat /\ i >= 1
      BY <1>2, <1>3
    <3>2. todo[i + 1] = vl53l0x_init_config(Now)[Done + (i + 1)]
      BY <3>1 DEF ConfigInv
    <3>3. Done + (i + 1) = Done + 1 + i
      BY <1>1, <3>1
    <3> QED BY <3>1, <3>2, <3>3
  <2>2. Done > 0 => slave = Address[Now]
    BY DEF ConfigInv
  <2>3. slave' = Address[Now]
    BY <1>1, <2>2
  <2> QED BY <1>1, <1>2, <1>5, <2>1, <2>3 DEF ConfigInv
<1> QED BY <1>2, <1>4, <1>5, <1>6 DEF AddressInv

(* The same of an address turn.                                             *)
LEMMA AddressIs ==
    ASSUME NEW s
    PROVE  LET p == vl53l0x_init_address(s)
           IN  /\ HasLength(p, 3) /\ \E S : p \in Seq(S)
               /\ p[1] = [op |-> "wake", s |-> s] /\ p[2] = [op |-> "id"]
               /\ p[3] = [op |-> "write", reg |-> "address", val |-> Address[s]]
<1> DEFINE a == [op |-> "wake", s |-> s]
           b == [op |-> "id"]
           c == [op |-> "write", reg |-> "address", val |-> Address[s]]
<1>1. vl53l0x_init_address(s) = <<a>> \o <<b>> \o <<c>>
  BY DEF vl53l0x_init_address, Wake, ReadId, Write
<1> HIDE DEF a, b, c
<1> DEFINE p == <<a>> \o <<b>> \o <<c>>
<1>2. p \in Seq({a, b, c}) /\ HasLength(p, 3) /\ p[1] = a /\ p[2] = b /\ p[3] = c
  BY DEF HasLength
<1> HIDE DEF p
<1>3. vl53l0x_init_address(s) = p
  BY <1>1 DEF p
<1> QED BY <1>2, <1>3 DEF a, b, c

LEMMA AddressHead ==
    ASSUME TypeOK, TodoInv, AddressInv, ~InConfig, result = "none", todo # <<>>
    PROVE  /\ Len(todo) \in {1, 2, 3}
           /\ Len(todo) = 3 => Head(todo) = [op |-> "wake", s |-> Current]
           /\ Len(todo) = 2 => Head(todo) = [op |-> "id"]
           /\ Len(todo) = 1 =>
                 Head(todo) = [op |-> "write", reg |-> "address", val |-> Address[Current]]
<1> DEFINE p == vl53l0x_init_address(Order[turn])
           a == [op |-> "wake", s |-> Current]
           b == [op |-> "id"]
           c == [op |-> "write", reg |-> "address", val |-> Address[Current]]
<1>1. Current = Order[turn]
  BY DEF Current
<1>2. p[1] = a /\ p[2] = b /\ p[3] = c
  BY <1>1, AddressIs
<1>3. /\ Head(todo) = todo[1] /\ 1 \in DOMAIN todo
      /\ Len(todo) \in Nat /\ Len(todo) > 0
  BY HeadIs
<1>4. Len(todo) <= 3 /\ todo[1] = p[3 - Len(todo) + 1]
  BY <1>3 DEF AddressInv
<1> HIDE DEF p, a, b, c
<1>5. \A m \in Nat : m > 0 /\ m <= 3 => m \in {1, 2, 3}
  OBVIOUS
<1>6. Len(todo) \in {1, 2, 3}
  BY <1>3, <1>4, <1>5
<1>7. CASE Len(todo) = 3
  <2>1. Head(todo) = a
    BY <1>2, <1>3, <1>4, <1>7
  <2> QED BY <1>6, <1>7, <2>1 DEF a
<1>8. CASE Len(todo) = 2
  <2>1. Head(todo) = b
    BY <1>2, <1>3, <1>4, <1>8
  <2> QED BY <1>6, <1>8, <2>1 DEF b
<1>9. CASE Len(todo) = 1
  <2>1. Head(todo) = c
    BY <1>2, <1>3, <1>4, <1>9
  <2> QED BY <1>6, <1>9, <2>1 DEF c
<1> QED BY <1>6, <1>7, <1>8, <1>9

LEMMA AddressProceeds ==
    ASSUME TypeOK, TodoInv, AddressInv, ~InConfig, result = "none", todo # <<>>,
           Proceed,
           Len(todo) = 1 => sensor'[Current].addr = Address[Current]
    PROVE  /\ ~InConfig' /\ Current' = Current
           /\ TodoInv' /\ ConfigInv' /\ AddressInv'
<1>2. ~InConfig' /\ result' = "none" /\ todo' = Tail(todo) /\ turn' = turn
      /\ Current' = Current /\ Current = Order[turn]
  BY DEF InConfig, Proceed, Current
<1>3. /\ Len(todo) \in Nat /\ Len(todo) > 0
      /\ \E S : Tail(todo) \in Seq(S)
      /\ Len(Tail(todo)) = Len(todo) - 1
      /\ \A i \in DOMAIN Tail(todo) :
             /\ i + 1 \in DOMAIN todo /\ Tail(todo)[i] = todo[i + 1]
             /\ i \in Nat /\ i >= 1
  <2>1. PICK S : Tail(todo) \in Seq(S)
    BY HeadIs
  <2>2. \A i \in DOMAIN Tail(todo) : i \in Nat /\ i >= 1
    BY <2>1
  <2> QED BY HeadIs, <2>1, <2>2
<1>4. TodoInv'
  BY <1>2, <1>3 DEF TodoInv
<1>5. todo' = <<>> => Len(todo) = 1
  BY <1>2, <1>3
<1>6. \A i \in DOMAIN todo' :
          todo'[i] = vl53l0x_init_address(Order[turn])[3 - Len(todo') + i]
  <2> SUFFICES ASSUME NEW i \in DOMAIN todo'
               PROVE  todo'[i] = vl53l0x_init_address(Order[turn])[3 - Len(todo') + i]
    OBVIOUS
  <2>1. i + 1 \in DOMAIN todo /\ todo'[i] = todo[i + 1] /\ i \in Nat /\ i >= 1
    BY <1>2, <1>3
  <2>2. todo[i + 1] = vl53l0x_init_address(Order[turn])[3 - Len(todo) + (i + 1)]
    BY <2>1 DEF AddressInv
  <2>3. 3 - Len(todo) + (i + 1) = 3 - Len(todo') + i
    BY <1>2, <1>3, <2>1
  <2> QED BY <2>1, <2>2, <2>3
<1>7. Len(todo) <= 3
  BY DEF AddressInv
<1> QED BY <1>2, <1>3, <1>4, <1>5, <1>6, <1>7 DEF AddressInv, ConfigInv

-----------------------------------------------------------------------------
(* What a write does to the sensor that hears it.                           *)
LEMMA TakesIs ==
    ASSUME NEW r, NEW v
    PROVE  /\ Takes(r, "address", v) = [r EXCEPT !.addr = v]
           /\ Takes(r, "table", v) = [r EXCEPT !.config = @ \union {v}]
           /\ Takes(r, "strobe", v) = [r EXCEPT !.strobe = v]
           /\ Takes(r, "spads", v) =
                 [r EXCEPT !.spads = v, !.config = @ \union {"spads"}]
           /\ Takes(r, "sequence", v) = [r EXCEPT !.seq = v]
           /\ Takes(r, "clear", v) = [r EXCEPT !.status = FALSE]
           /\ Takes(r, "sysrange", v) = [r EXCEPT !.busy = (v = "start")]
BY DEF Takes

LEMMA WriteConfigures ==
    ASSUME NEW r \in SensorState, NEW k \in Nat, NEW reg, NEW v,
           Writes(k, reg, v), Configuring(r, k)
    PROVE  /\ Configuring(Takes(r, reg, v), k + 1)
           /\ Takes(r, reg, v) \in SensorState
           /\ Takes(r, reg, v).addr = r.addr
<1>1. CASE k = 1 /\ reg = "table" /\ v = "data"
  <2> DEFINE t == [r EXCEPT !.config = @ \union {v}]
  <2>1. Takes(r, "table", v) = t
    BY DEF Takes
  <2>2. Takes(r, reg, v) = t
    BY <1>1, <2>1, Zenon
  <2>3. t \in SensorState /\ t.addr = r.addr /\ Configuring(t, k + 1)
    BY <1>1 DEF SensorState, Configuring, ConfigAfter, SequenceAfter,
           CalibratedAfter, Table
  <2> QED BY <2>2, <2>3, Zenon
<1>2. CASE k = 2 /\ reg = "strobe" /\ v = "busy"
  <2> DEFINE t == [r EXCEPT !.strobe = v]
  <2>1. Takes(r, "strobe", v) = t
    BY DEF Takes
  <2>2. Takes(r, reg, v) = t
    BY <1>2, <2>1, Zenon
  <2>3. t \in SensorState /\ t.addr = r.addr /\ Configuring(t, k + 1)
    BY <1>2 DEF SensorState, Configuring, ConfigAfter, SequenceAfter,
           CalibratedAfter, Table
  <2> QED BY <2>2, <2>3, Zenon
<1>3. CASE k = 4 /\ reg = "strobe" /\ v = "idle"
  <2> DEFINE t == [r EXCEPT !.strobe = v]
  <2>1. Takes(r, "strobe", v) = t
    BY DEF Takes
  <2>2. Takes(r, reg, v) = t
    BY <1>3, <2>1, Zenon
  <2>3. t \in SensorState /\ t.addr = r.addr /\ Configuring(t, k + 1)
    BY <1>3 DEF SensorState, Configuring, ConfigAfter, SequenceAfter,
           CalibratedAfter, Table
  <2> QED BY <2>2, <2>3, Zenon
<1>4. CASE k = 6 /\ reg = "table" /\ v = "tuning"
  <2> DEFINE t == [r EXCEPT !.config = @ \union {v}]
  <2>1. Takes(r, "table", v) = t
    BY DEF Takes
  <2>2. Takes(r, reg, v) = t
    BY <1>4, <2>1, Zenon
  <2>3. t \in SensorState /\ t.addr = r.addr /\ Configuring(t, k + 1)
    BY <1>4 DEF SensorState, Configuring, ConfigAfter, SequenceAfter,
           CalibratedAfter, Table
  <2> QED BY <2>2, <2>3, Zenon
<1>5. CASE k = 7 /\ reg = "table" /\ v = "interrupt"
  <2> DEFINE t == [r EXCEPT !.config = @ \union {v}]
  <2>1. Takes(r, "table", v) = t
    BY DEF Takes
  <2>2. Takes(r, reg, v) = t
    BY <1>5, <2>1, Zenon
  <2>3. t \in SensorState /\ t.addr = r.addr /\ Configuring(t, k + 1)
    BY <1>5 DEF SensorState, Configuring, ConfigAfter, SequenceAfter,
           CalibratedAfter, Table
  <2> QED BY <2>2, <2>3, Zenon
<1>6. CASE k = 5 /\ reg = "spads" /\ v \in SUBSET Spad
  <2> DEFINE t == [r EXCEPT !.spads = v, !.config = @ \union {"spads"}]
  <2>1. Takes(r, "spads", v) = t
    BY DEF Takes
  <2>2. Takes(r, reg, v) = t
    BY <1>6, <2>1, Zenon
  <2>3. t \in SensorState /\ t.addr = r.addr /\ Configuring(t, k + 1)
    <3>1. t \in SensorState /\ t.addr = r.addr
      BY <1>6 DEF SensorState, Table
    <3>2. /\ t.config = r.config \union {"spads"} /\ t.seq = r.seq
          /\ t.calibrated = r.calibrated /\ t.busy = r.busy /\ (t.status <=> r.status)
      BY <1>6 DEF SensorState
    <3> HIDE DEF t
    <3>3. CASE k = 5
      BY <3>1, <3>2, <3>3 DEF Configuring, ConfigAfter, SequenceAfter, CalibratedAfter, Table
    <3> QED BY <1>6, <3>1, <3>3
  <2> QED BY <2>2, <2>3, Zenon
<1>7. CASE reg = "clear" /\ k \in {8, 13, 18}
  <2> DEFINE t == [r EXCEPT !.status = FALSE]
  <2>1. Takes(r, "clear", v) = t
    BY DEF Takes
  <2>2. Takes(r, reg, v) = t
    BY <1>7, <2>1, Zenon
  <2>3. t \in SensorState /\ t.addr = r.addr /\ Configuring(t, k + 1)
    <3>1. t \in SensorState /\ t.addr = r.addr
      BY <1>7 DEF SensorState, Table
    <3>2. /\ t.config = r.config /\ t.seq = r.seq
          /\ t.calibrated = r.calibrated /\ t.busy = r.busy /\ ~t.status
      BY <1>7 DEF SensorState
    <3> HIDE DEF t
    <3>3. CASE k = 8
      BY <3>1, <3>2, <3>3 DEF Configuring, ConfigAfter, SequenceAfter, CalibratedAfter, Table
    <3>4. CASE k = 13
      BY <3>1, <3>2, <3>4 DEF Configuring, ConfigAfter, SequenceAfter, CalibratedAfter, Table
    <3>5. CASE k = 18
      BY <3>1, <3>2, <3>5 DEF Configuring, ConfigAfter, SequenceAfter, CalibratedAfter, Table
    <3> QED BY <1>7, <3>1, <3>3, <3>4, <3>5
  <2> QED BY <2>2, <2>3, Zenon
<1>8. CASE /\ reg = "sequence"
           /\ \/ k \in {9, 20} /\ v = "range"
              \/ k = 10 /\ v = "vhv"
              \/ k = 15 /\ v = "phase"
  <2> DEFINE t == [r EXCEPT !.seq = v]
  <2>1. Takes(r, "sequence", v) = t
    BY DEF Takes
  <2>2. Takes(r, reg, v) = t
    BY <1>8, <2>1, Zenon
  <2>3. t \in SensorState /\ t.addr = r.addr /\ Configuring(t, k + 1)
    BY <1>8 DEF SensorState, Configuring, ConfigAfter, SequenceAfter,
           CalibratedAfter, Table, Sequence, Calibration
  <2> QED BY <2>2, <2>3, Zenon
<1>9. CASE reg = "sysrange" /\ k \in {11, 16} /\ v = "start"
  <2> DEFINE t == [r EXCEPT !.busy = (v = "start")]
  <2>1. Takes(r, "sysrange", v) = t
    BY DEF Takes
  <2>2. Takes(r, reg, v) = t
    BY <1>9, <2>1, Zenon
  <2>3. t \in SensorState /\ t.addr = r.addr /\ Configuring(t, k + 1)
    <3>1. t \in SensorState /\ t.addr = r.addr
      BY <1>9 DEF SensorState, Table
    <3>2. /\ t.config = r.config /\ t.seq = r.seq
          /\ t.calibrated = r.calibrated /\ t.busy /\ (t.status <=> r.status)
      BY <1>9 DEF SensorState
    <3> HIDE DEF t
    <3>3. CASE k = 11
      BY <3>1, <3>2, <3>3 DEF Configuring, ConfigAfter, SequenceAfter, CalibratedAfter, Table
    <3>4. CASE k = 16
      BY <3>1, <3>2, <3>4 DEF Configuring, ConfigAfter, SequenceAfter, CalibratedAfter, Table
    <3> QED BY <1>9, <3>1, <3>3, <3>4
  <2> QED BY <2>2, <2>3, Zenon
<1>10. CASE reg = "sysrange" /\ k \in {14, 19} /\ v = "stop"
  <2> DEFINE t == [r EXCEPT !.busy = (v = "start")]
  <2>1. Takes(r, "sysrange", v) = t
    BY DEF Takes
  <2>2. Takes(r, reg, v) = t
    BY <1>10, <2>1, Zenon
  <2>3. t \in SensorState /\ t.addr = r.addr /\ Configuring(t, k + 1)
    <3>1. t \in SensorState /\ t.addr = r.addr
      BY <1>10 DEF SensorState, Table
    <3>2. /\ t.config = r.config /\ t.seq = r.seq
          /\ t.calibrated = r.calibrated /\ ~t.busy /\ (t.status <=> r.status)
      BY <1>10 DEF SensorState
    <3> HIDE DEF t
    <3>3. CASE k = 14
      BY <3>1, <3>2, <3>3 DEF Configuring, ConfigAfter, SequenceAfter, CalibratedAfter, Table
    <3>4. CASE k = 19
      BY <3>1, <3>2, <3>4 DEF Configuring, ConfigAfter, SequenceAfter, CalibratedAfter, Table
    <3> QED BY <1>10, <3>1, <3>3, <3>4
  <2> QED BY <2>2, <2>3, Zenon
<1> QED BY <1>1, <1>2, <1>3, <1>4, <1>5, <1>6, <1>7, <1>8, <1>9, <1>10 DEF Writes

-----------------------------------------------------------------------------
(* The pin.                                                                 *)
PinState == [edge : {"rising", "falling"}, ie : BOOLEAN, ifg : BOOLEAN, isr : BOOLEAN]

LEMMA LineIs ==
    ASSUME NEW new, pin \in PinState, Line(new)
    PROVE  /\ pin' \in PinState /\ pin'.edge = pin.edge
           /\ pin'.ie = pin.ie /\ pin'.isr = pin.isr
           /\ new[Mid] = sensor[Mid] => pin' = pin
<1> DEFINE b == pin.ifg \/ IF pin.edge = "falling" THEN ~sensor[Mid].status /\ new[Mid].status
                           ELSE sensor[Mid].status /\ ~new[Mid].status
<1>1. pin' = [pin EXCEPT !.ifg = b]
  BY Zenon DEF Line
<1>2. b \in BOOLEAN
  OBVIOUS
<1>3. ASSUME new[Mid] = sensor[Mid] PROVE b = pin.ifg
  <2>1. b <=> pin.ifg
    BY <1>3
  <2>2. pin.ifg \in BOOLEAN
    BY DEF PinState
  <2> QED BY <1>2, <2>1, <2>2, Zenon
<1> HIDE DEF b
<1>4. /\ pin' \in PinState /\ pin'.edge = pin.edge
      /\ pin'.ie = pin.ie /\ pin'.isr = pin.isr
  BY <1>1, <1>2 DEF PinState
<1>5. ASSUME new[Mid] = sensor[Mid] PROVE pin' = pin
  <2>1. b = pin.ifg
    BY <1>3, <1>5
  <2> QED BY <1>1, <2>1 DEF PinState
<1> QED BY <1>4, <1>5

-----------------------------------------------------------------------------
(* What a step of a turn leaves alone.                                      *)
Others == \A s \in Sensors : s # Current => sensor'[s] = sensor[s]

LEMMA StaysInTurn ==
    ASSUME IInv, turn' = turn, Others,
           InConfig => sensor'[Current].addr = sensor[Current].addr,
           ~InConfig => slave' = DefaultAddress /\ Fresh(sensor'[Current])
    PROVE  WakeInv' /\ SettledInv' /\ (InConfig' <=> InConfig) /\ Now' = Now /\ Current' = Current
<1>1. turn \in Nat /\ turn >= 1
  BY OrderIs DEF IInv, TypeOK
<1>2. (InConfig' <=> InConfig) /\ Now' = Now /\ Current' = Current /\ Index' = Index
  BY DEF InConfig, Now, Current, Index
<1>3. /\ Current \in Sensors
      /\ InConfig => turn - Len(Order) \in Index /\ Now = Current
      /\ ~InConfig => turn \in Index
  BY CurrentIs DEF IInv
<1>4. \A j \in Index : Order[j] = Current => j = IF InConfig THEN turn - Len(Order) ELSE turn
  BY <1>3, OrderIs DEF Current, Now
<1>5. WakeInv'
  <2> SUFFICES ASSUME NEW j \in Index
               PROVE  /\ j < turn => sensor'[Order[j]].addr = Address[Order[j]]
                      /\ turn < j => ~sensor'[Order[j]].awake /\ ~sensor'[Order[j]].booted
    BY <1>2 DEF WakeInv
  <2>1. CASE Order[j] # Current
    <3>1. sensor'[Order[j]] = sensor[Order[j]]
      BY <2>1, OrderIs DEF Others
    <3> QED BY <3>1 DEF IInv, WakeInv
  <2>2. CASE Order[j] = Current /\ ~InConfig
    BY <1>1, <1>4, <2>2
  <2>3. CASE Order[j] = Current /\ InConfig
    <3>1. j = turn - Len(Order)
      BY <1>4, <2>3
    <3>2. ~(turn < j)
      BY <1>1, <3>1, OrderIs
    <3> QED BY <2>3, <3>2 DEF IInv, WakeInv
  <2> QED BY <2>1, <2>2, <2>3
<1>6. SettledInv'
  <2> SUFFICES ASSUME NEW j \in Index
               PROVE  /\ j + Len(Order) < turn => Settled(sensor'[Order[j]])
                      /\ turn < j + Len(Order) => Fresh(sensor'[Order[j]])
    BY <1>2 DEF SettledInv
  <2>1. CASE Order[j] # Current
    <3>1. sensor'[Order[j]] = sensor[Order[j]]
      BY <2>1, OrderIs DEF Others
    <3> QED BY <3>1 DEF IInv, SettledInv
  <2>2. CASE Order[j] = Current /\ ~InConfig
    BY <1>1, <2>2, OrderIs DEF InConfig
  <2>3. CASE Order[j] = Current /\ InConfig
    <3>1. j = turn - Len(Order)
      BY <1>4, <2>3
    <3> QED BY <1>1, <3>1, OrderIs
  <2> QED BY <2>1, <2>2, <2>3
<1> QED BY <1>2, <1>5, <1>6

(* The middle sensor has had its turn: nothing reaches the pin any more.    *)
LEMMA CurrentIsNotMid ==
    ASSUME TypeOK, turn > Len(Order) + 1
    PROVE  Current # Mid
<1>1. InConfig
  BY OrderIs DEF TypeOK, InConfig
<1> QED BY <1>1, CurrentIs, OrderIs DEF TypeOK

(* It gives up.                                                             *)
LEMMA GivesUp ==
    ASSUME IInv, TypeOK', result = "none", todo # <<>>, GiveUp, Others,
           InConfig => sensor'[Current].addr = sensor[Current].addr,
           ~InConfig => slave' = DefaultAddress /\ Fresh(sensor'[Current]),
           pin' = pin \/ Line(sensor')
    PROVE  IInv'
<1>1. turn' = turn /\ todo' = <<>> /\ result' = "error"
  BY DEF GiveUp
<1>2. WakeInv' /\ SettledInv' /\ (InConfig' <=> InConfig)
  BY <1>1, StaysInTurn
<1>3. TodoInv' /\ AddressInv' /\ ConfigInv' /\ NowInv' /\ OkInv'
  <2>1. <<>> \in Seq({})
    OBVIOUS
  <2> QED BY <1>1, <2>1 DEF TodoInv, AddressInv, ConfigInv, NowInv, OkInv
<1>4. ~pin.ie \/ turn > Len(Order) + 1
  <2>1. CASE turn = Len(Order) + 1
    <3>1. InConfig /\ TypeOK /\ TodoInv /\ ConfigInv
      BY <2>1, OrderIs DEF InConfig, IInv
    <3>2. Done \in Nat /\ Done < 26
      BY <3>1, ConfigHead
    <3> QED BY <2>1, <3>2 DEF IInv, PinInv, PinAt
  <2>2. CASE turn # Len(Order) + 1
    BY <2>2, OrderIs DEF IInv, TypeOK, PinInv
  <2> QED BY <2>1, <2>2
<1>5. pin'.ie = pin.ie
  BY LineIs DEF IInv, TypeOK, PinState
<1>6. turn > Len(Order) + 1 => pin' = pin
  <2> SUFFICES ASSUME turn > Len(Order) + 1 PROVE pin' = pin
    OBVIOUS
  <2>1. sensor'[Mid] = sensor[Mid]
    BY CurrentIsNotMid, OrderIs DEF IInv, Others
  <2> QED BY <2>1, LineIs DEF IInv, TypeOK, PinState
<1>7. PinInv'
  <2>1. turn \in Nat
    BY OrderIs DEF IInv, TypeOK
  <2>2. CASE turn > Len(Order) + 1
    BY <1>1, <1>6, <2>1, <2>2, OrderIs DEF PinInv, IInv
  <2>3. CASE ~(turn > Len(Order) + 1)
    BY <1>1, <1>4, <1>5, <2>1, <2>3, OrderIs DEF PinInv
  <2> QED BY <2>2, <2>3
<1> QED BY <1>2, <1>3, <1>7 DEF IInv

(* It does the next thing of a configuration.                               *)
LEMMA ConfigGoesOn ==
    ASSUME IInv, TypeOK', InConfig, result = "none", todo # <<>>, Proceed, Others,
           Done > 0 => slave' = slave, Done = 0 => slave' = Address[Now],
           sensor'[Now].addr = sensor[Now].addr, Configuring(sensor'[Now], Done + 1),
           pin' = pin \/ Line(sensor') \/ turn = Len(Order) + 1,
           turn = Len(Order) + 1 => PinAt(pin', Done + 1)
    PROVE  IInv'
<1>1. turn' = turn /\ result' = "none"
  BY DEF Proceed
<1>2. /\ Done' = Done + 1 /\ Now' = Now /\ InConfig'
      /\ TodoInv' /\ ConfigInv' /\ AddressInv'
  BY ConfigProceeds DEF IInv
<1>3. Current = Now
  BY DEF Current
<1>4. WakeInv' /\ SettledInv'
  BY <1>1, <1>3, StaysInTurn
<1>5. NowInv' /\ OkInv'
  BY <1>1, <1>2 DEF NowInv, OkInv
<1>6. PinInv'
  <2>1. turn \in Nat /\ turn > Len(Order)
    BY OrderIs DEF IInv, TypeOK, InConfig
  <2>2. CASE turn = Len(Order) + 1
    <3>1. Done \in Nat
      BY ConfigHead DEF IInv
    <3>2. PinAt(pin', Done')
      BY <1>2, <2>2
    <3> QED BY <1>1, <2>1, <2>2, <3>2, OrderIs DEF PinInv
  <2>3. CASE turn # Len(Order) + 1
    <3>1. turn > Len(Order) + 1
      BY <2>1, <2>3, OrderIs
    <3>2. sensor'[Mid] = sensor[Mid]
      BY <3>1, CurrentIsNotMid, OrderIs DEF IInv, Others
    <3>3. pin' = pin
      BY <2>3, <3>2, LineIs DEF IInv, TypeOK, PinState
    <3> QED BY <1>1, <2>1, <3>1, <3>3, OrderIs DEF PinInv, IInv
  <2> QED BY <2>2, <2>3
<1> QED BY <1>2, <1>4, <1>5, <1>6 DEF IInv

(* It does the next thing of a sensor's address.                            *)
LEMMA AddressGoesOn ==
    ASSUME IInv, TypeOK', ~InConfig, result = "none", todo # <<>>, Proceed, Others,
           slave' = DefaultAddress, Fresh(sensor'[Current]),
           Len(todo) = 1 => sensor'[Current].addr = Address[Current],
           pin' = pin \/ Line(sensor')
    PROVE  IInv'
<1>1. turn' = turn /\ result' = "none"
  BY DEF Proceed
<1>2. ~InConfig' /\ TodoInv' /\ ConfigInv' /\ AddressInv'
  BY AddressProceeds DEF IInv
<1>3. WakeInv' /\ SettledInv'
  BY <1>1, StaysInTurn
<1>4. NowInv' /\ OkInv'
  BY <1>1, <1>2 DEF NowInv, OkInv
<1>5. PinInv'
  <2>1. turn \in Nat /\ turn <= Len(Order)
    BY OrderIs DEF IInv, TypeOK, InConfig
  <2>2. pin'.ie = pin.ie
    BY LineIs DEF IInv, TypeOK, PinState
  <2> QED BY <1>1, <2>1, <2>2, OrderIs DEF PinInv, IInv
<1> QED BY <1>2, <1>3, <1>4, <1>5 DEF IInv

-----------------------------------------------------------------------------
(* The steps of the driver.                                                 *)

(* Where the operation that comes next belongs.                             *)
LEMMA AtIs ==
    ASSUME IInv, NEW op, At(op)
    PROVE  /\ result = "none" /\ todo # <<>>
           /\ InConfig => Places(Now, Done, Head(todo)) /\ Head(todo).op = op
                          /\ Done \in Nat /\ Done < 26
           /\ ~InConfig =>
                 /\ Len(todo) \in {1, 2, 3}
                 /\ op = "wake" => Len(todo) = 3 /\ Head(todo).s = Current
                 /\ op = "id" => Len(todo) = 2
                 /\ op = "write" => /\ Len(todo) = 1 /\ Head(todo).reg = "address"
                                    /\ Head(todo).val = Address[Current]
                 /\ op \in {"wake", "id", "write"}
<1>1. result = "none" /\ todo # <<>> /\ Head(todo).op = op
  BY DEF At
<1>2. CASE InConfig
  <2>1. /\ Done \in Nat /\ Done < (IF Now = Mid THEN 26 ELSE 21)
        /\ Places(Now, Done, Head(todo))
    BY <1>1, <1>2, ConfigHead DEF IInv
  <2> QED BY <1>1, <1>2, <2>1
<1>3. CASE ~InConfig
  <2>1. /\ Len(todo) \in {1, 2, 3}
        /\ Len(todo) = 3 => Head(todo) = [op |-> "wake", s |-> Current]
        /\ Len(todo) = 2 => Head(todo) = [op |-> "id"]
        /\ Len(todo) = 1 =>
              Head(todo) = [op |-> "write", reg |-> "address", val |-> Address[Current]]
    BY <1>1, <1>3, AddressHead DEF IInv
  <2>2. CASE Len(todo) = 3
    BY <1>1, <1>3, <2>1, <2>2
  <2>3. CASE Len(todo) = 2
    BY <1>1, <1>3, <2>1, <2>3
  <2>4. CASE Len(todo) = 1
    <3>1. Head(todo).op = "write" /\ Head(todo).reg = "address" /\ Head(todo).val = Address[Current]
      BY <2>1, <2>4
    <3> QED BY <1>1, <1>3, <2>4, <3>1
  <2> QED BY <2>1, <2>2, <2>3, <2>4
<1> QED BY <1>2, <1>3

LEMMA FreshNow ==
    ASSUME IInv, ~InConfig
    PROVE  Fresh(sensor[Current]) /\ slave = DefaultAddress /\ Current = Order[turn]
           /\ turn \in Index /\ Current \in Sensors
<1>1. turn \in Index /\ Current \in Sensors /\ Current = Order[turn]
  BY CurrentIs DEF IInv, Current
<1>2. turn < turn + Len(Order)
  BY <1>1, OrderIs
<1> QED BY <1>1, <1>2 DEF IInv, SettledInv, WakeInv

LEMMA WakeStep == ASSUME IInv, DoWake PROVE IInv'
<1>1. At("wake") /\ Proceed /\ UNCHANGED <<pin, bounds>> /\ slave' = DefaultAddress
      /\ sensor' = [sensor EXCEPT ![Head(todo).s].awake = TRUE]
  BY DEF DoWake
<1>2. ~InConfig
  <2> SUFFICES ASSUME InConfig PROVE FALSE
    OBVIOUS
  <2>1. Places(Now, Done, Head(todo)) /\ Head(todo).op = "wake"
    BY <1>1, AtIs
  <2> QED BY <2>1 DEF Places
<1>3. result = "none" /\ todo # <<>> /\ Len(todo) = 3 /\ Head(todo).s = Current
  BY <1>1, <1>2, AtIs
<1>4. Fresh(sensor[Current]) /\ Current \in Sensors
  BY <1>2, FreshNow
<1>5. sensor' = [sensor EXCEPT ![Current].awake = TRUE]
  BY <1>1, <1>3
<1>6. sensor \in [Sensors -> SensorState]
  BY DEF IInv, TypeOK
<1>7. Others /\ Fresh(sensor'[Current]) /\ sensor' \in [Sensors -> SensorState]
  BY <1>4, <1>5, <1>6 DEF Others, Fresh, SensorState
<1>8. TypeOK'
  BY <1>1, <1>7 DEF IInv, TypeOK, Proceed, bounds, Addresses
<1> QED BY <1>1, <1>2, <1>3, <1>7, <1>8, AddressGoesOn

LEMMA SelectStep == ASSUME IInv, DoSelect PROVE IInv'
<1>1. At("select") /\ slave' = Address[Head(todo).s] /\ Proceed
      /\ UNCHANGED <<sensor, pin, bounds>>
  BY DEF DoSelect
<1>2. InConfig /\ result = "none" /\ todo # <<>>
  BY <1>1, AtIs
<1>3. Places(Now, Done, Head(todo)) /\ Head(todo).op = "select" /\ Done \in Nat
  BY <1>1, <1>2, AtIs
<1>4. Done = 0 /\ Head(todo).s = Now
  BY <1>3 DEF Places
<1>5. Now \in Sensors
  BY <1>2, CurrentIs DEF IInv
<1>6. TypeOK'
  BY <1>1, <1>4, <1>5 DEF IInv, TypeOK, Proceed, bounds, Addresses
<1>7. Configuring(sensor[Now], 0)
  BY <1>2, <1>4 DEF IInv, NowInv
<1>8. Configuring(sensor[Now], 1)
  BY <1>7 DEF Configuring, ConfigAfter, SequenceAfter, CalibratedAfter
<1>9. turn = Len(Order) + 1 => PinAt(pin, 1)
  BY <1>2, <1>4 DEF IInv, PinInv, PinAt
<1> QED BY <1>1, <1>2, <1>4, <1>6, <1>8, <1>9, ConfigGoesOn DEF Others

LEMMA ReadIdStep == ASSUME IInv, DoReadId PROVE IInv'
<1>1. At("id") /\ UNCHANGED <<sensor, pin, slave, resets, nvm>>
      /\ \/ Proceed /\ UNCHANGED faults
         \/ GiveUp /\ (UNCHANGED faults \/ Fault)
  BY DEF DoReadId, Success, Fault
<1>2. ~InConfig
  <2> SUFFICES ASSUME InConfig PROVE FALSE
    OBVIOUS
  <2>1. Places(Now, Done, Head(todo)) /\ Head(todo).op = "id"
    BY <1>1, AtIs
  <2> QED BY <2>1 DEF Places
<1>3. result = "none" /\ todo # <<>> /\ Len(todo) = 2
  BY <1>1, <1>2, AtIs
<1>4. Fresh(sensor[Current]) /\ slave = DefaultAddress
  BY <1>2, FreshNow
<1>5. TypeOK'
  BY <1>1, BoundAssumption DEF IInv, TypeOK, Proceed, GiveUp, Fault, bounds
<1>6. CASE Proceed
  BY <1>1, <1>2, <1>3, <1>4, <1>5, <1>6, AddressGoesOn DEF Others
<1>7. CASE GiveUp
  BY <1>1, <1>2, <1>3, <1>4, <1>5, <1>7, GivesUp DEF Others
<1> QED BY <1>1, <1>6, <1>7

(* A write reaches nobody but the sensor whose turn it is.                  *)
LEMMA WriteReaches ==
    ASSUME IInv, At("write")
    PROVE  /\ Current \in Sensors
           /\ \A s \in Hearing : s = Current
           /\ InConfig => Now = Current /\ slave = Address[Now] /\ Done \in Nat /\ Done > 0
                          /\ Writes(Done, Head(todo).reg, Head(todo).val)
<1>1. Current \in Sensors /\ (InConfig => Now = Current)
  BY CurrentIs DEF IInv
<1>2. ASSUME InConfig
      PROVE  slave = Address[Now] /\ Done \in Nat /\ Done > 0
             /\ Writes(Done, Head(todo).reg, Head(todo).val)
  <2>1. Places(Now, Done, Head(todo)) /\ Head(todo).op = "write" /\ result = "none"
        /\ Done \in Nat
    BY <1>2, AtIs
  <2>2. Writes(Done, Head(todo).reg, Head(todo).val)
    BY <2>1 DEF Places
  <2>3. Done # 0
    BY <2>2 DEF Writes
  <2> QED BY <1>2, <2>1, <2>2, <2>3 DEF IInv, ConfigInv
<1>3. \A s \in Hearing : s = Current
  BY <1>2, OneHears DEF IInv
<1> QED BY <1>1, <1>2, <1>3

(* What it does there.                                                      *)
LEMMA WriteDoes ==
    ASSUME IInv, At("write"), NEW t, t = Takes(sensor[Current], Head(todo).reg, Head(todo).val)
    PROVE  /\ t \in SensorState
           /\ InConfig => Configuring(t, Done + 1) /\ t.addr = sensor[Current].addr
           /\ ~InConfig => Fresh(t) /\ t.addr = Address[Current]
<1>1. Current \in Sensors /\ sensor[Current] \in SensorState
  BY WriteReaches DEF IInv, TypeOK
<1>2. CASE InConfig
  <2>1. Now = Current /\ Done \in Nat /\ Writes(Done, Head(todo).reg, Head(todo).val)
        /\ result = "none"
    BY <1>2, WriteReaches DEF At
  <2>2. Configuring(sensor[Current], Done)
    BY <1>2, <2>1 DEF IInv, NowInv
  <2> HIDE DEF Done
  <2> QED BY <1>1, <1>2, <2>1, <2>2, WriteConfigures
<1>3. CASE ~InConfig
  <2>1. Head(todo).reg = "address" /\ Head(todo).val = Address[Current]
    BY <1>3, AtIs
  <2>2. Takes(sensor[Current], "address", Address[Current])
            = [sensor[Current] EXCEPT !.addr = Address[Current]]
    BY TakesIs
  <2>3. t = [sensor[Current] EXCEPT !.addr = Address[Current]]
    BY <2>1, <2>2, Zenon
  <2>4. Address[Current] \in Addresses /\ Fresh(sensor[Current])
    BY <1>1, <1>3, FreshNow DEF Addresses
  <2> QED BY <1>1, <1>3, <2>3, <2>4 DEF SensorState, Fresh
<1> QED BY <1>2, <1>3

LEMMA WriteStep == ASSUME IInv, DoWrite PROVE IInv'
<1> DEFINE t == Takes(sensor[Current], Head(todo).reg, Head(todo).val)
           effect == [s \in Sensors |->
               IF s \in Hearing THEN Takes(sensor[s], Head(todo).reg, Head(todo).val)
                                ELSE sensor[s]]
<1>1. At("write") /\ UNCHANGED <<slave, resets, nvm>>
      /\ \/ Hearing # {} /\ Become(effect) /\ Success
         \/ Hearing = {} /\ GiveUp /\ UNCHANGED <<sensor, pin, faults>>
         \/ \E new \in {sensor, effect} : Become(new) /\ Fault
  BY DEF DoWrite
<1>2. result = "none" /\ todo # <<>>
  BY <1>1, AtIs
<1>3. /\ Current \in Sensors
      /\ \A s \in Hearing : s = Current
      /\ InConfig => Now = Current /\ slave = Address[Now] /\ Done \in Nat /\ Done > 0
  BY <1>1, WriteReaches
<1>4. /\ t \in SensorState
      /\ InConfig => Configuring(t, Done + 1) /\ t.addr = sensor[Current].addr
      /\ ~InConfig => Fresh(t) /\ t.addr = Address[Current]
  BY <1>1, WriteDoes
<1>5. sensor \in [Sensors -> SensorState]
  BY DEF IInv, TypeOK
<1>6. /\ effect \in [Sensors -> SensorState]
      /\ \A s \in Sensors : s # Current => effect[s] = sensor[s]
      /\ effect[Current] = IF Hearing # {} THEN t ELSE sensor[Current]
  <2>1. \A s \in Sensors : s \in Hearing => effect[s] = t
    BY <1>3
  <2>2. \A s \in Sensors : s \notin Hearing => effect[s] = sensor[s]
    OBVIOUS
  <2>3. Hearing # {} <=> Current \in Hearing
    BY <1>3
  <2>4. effect = [s \in Sensors |-> effect[s]]
    OBVIOUS
  <2> HIDE DEF effect, t
  <2>5. effect \in [Sensors -> SensorState]
    BY <1>4, <1>5, <2>1, <2>2, <2>4
  <2> QED BY <1>3, <2>1, <2>2, <2>3, <2>5
<1> HIDE DEF t, effect
<1>7. \/ UNCHANGED <<sensor, pin, faults>> /\ GiveUp
      \/ /\ sensor' \in {sensor, effect} /\ Line(sensor')
         /\ \/ Hearing # {} /\ sensor' = effect /\ Proceed /\ UNCHANGED faults
            \/ GiveUp /\ Fault
  BY <1>1 DEF Become, Success, Fault
<1>8. Others /\ sensor' \in [Sensors -> SensorState]
      /\ sensor'[Current] \in {t, sensor[Current]}
  BY <1>5, <1>6, <1>7 DEF Others
<1>9. /\ InConfig => sensor'[Current].addr = sensor[Current].addr
      /\ ~InConfig => slave' = DefaultAddress /\ Fresh(sensor'[Current])
  BY <1>1, <1>4, <1>8, FreshNow
<1>10. pin' \in PinState /\ (pin' = pin \/ Line(sensor')) /\ pin'.ie = pin.ie
  BY <1>7, LineIs DEF IInv, TypeOK, PinState
<1>11. TypeOK'
  BY <1>1, <1>7, <1>8, <1>10, BoundAssumption
     DEF IInv, TypeOK, PinState, Proceed, GiveUp, Fault
<1>12. CASE GiveUp
  BY <1>2, <1>8, <1>9, <1>10, <1>11, <1>12, GivesUp
<1>13. CASE ~GiveUp
  <2>1. Proceed /\ sensor' = effect /\ Hearing # {}
    BY <1>7, <1>13
  <2>2. sensor'[Current] = t
    BY <1>6, <2>1
  <2>3. CASE ~InConfig
    BY <1>2, <1>4, <1>8, <1>9, <1>10, <1>11, <2>1, <2>2, <2>3, AddressGoesOn
  <2>4. CASE InConfig
    <3>1. turn = Len(Order) + 1 => PinAt(pin', Done + 1)
      <4> SUFFICES ASSUME turn = Len(Order) + 1 PROVE PinAt(pin', Done + 1)
        OBVIOUS
      <4>1. Writes(Done, Head(todo).reg, Head(todo).val) /\ Done \in Nat
        BY <1>1, <2>4, WriteReaches
      <4>2. Done < 21
        BY <4>1 DEF Writes
      <4>3. ~pin.ie
        BY <1>2, <4>1, <4>2, OrderIs DEF IInv, PinInv, PinAt
      <4> QED BY <1>10, <4>1, <4>2, <4>3 DEF PinAt
    <3>2. slave' = slave
      BY <1>1
    <3> QED BY <1>2, <1>3, <1>4, <1>8, <1>9, <1>10, <1>11, <2>1, <2>2, <2>4, <3>1, <3>2,
               ConfigGoesOn
  <2> QED BY <2>3, <2>4
<1> QED BY <1>12, <1>13

(* The rows that i2c_read turns round have indices still.                   *)
LEMMA ReadMapIs ==
    ASSUME NEW map \in SUBSET Spad
    PROVE  i2c_read_map(map) \subseteq Int
<1> SUFFICES ASSUME NEW i \in i2c_read_map(map) PROVE i \in Int
  OBVIOUS
<1>1. PICK j \in map :
          i = (SPAD_MAP_ROW_COUNT - 1 - j \div SPAD_ROW_SIZE) * SPAD_ROW_SIZE
                + (j % SPAD_ROW_SIZE)
  BY DEF i2c_read_map
<1>2. j \div SPAD_ROW_SIZE \in Int /\ j % SPAD_ROW_SIZE \in Int
  <2>1. j \in Int
    BY DEF Spad
  <2> QED BY <2>1, SpadAssumption
<1>3. SPAD_MAP_ROW_COUNT - 1 - j \div SPAD_ROW_SIZE \in Int /\ SPAD_ROW_SIZE \in Int
  BY <1>2, SpadAssumption
<1>4. \A a, b, c \in Int : a * b + c \in Int
  OBVIOUS
<1> QED BY <1>1, <1>2, <1>3, <1>4

LEMMA SpadMapIs ==
    ASSUME TypeOK, NEW s \in Sensors,
           NEW map \in spad_map(s, i2c_read_map(sensor[s].spads))
    PROVE  map \in SUBSET Spad
<1> DEFINE good == i2c_read_map(sensor[s].spads)
<1>1. good \subseteq Int
  BY ReadMapIs DEF TypeOK, SensorState
<1>2. PICK n \in 0 .. SPAD_MAX_COUNT : map = EnabledBefore(s, good, n)
  BY DEF spad_map
<1> HIDE DEF good
<1>3. Offset(s) \in Nat
  BY SpadAssumption DEF Offset, Spad
<1> SUFFICES ASSUME NEW i \in map PROVE i \in Spad
  OBVIOUS
<1>4. i \in Int /\ Offset(s) <= i /\ i < n
  BY <1>1, <1>2 DEF EnabledBefore, Before
<1>5. SPAD_MAP_ROW_COUNT * SPAD_ROW_SIZE \in Int
  BY SpadAssumption
<1>6. n \in Int /\ n <= SPAD_MAX_COUNT /\ SPAD_MAX_COUNT \in Int
      /\ SPAD_MAX_COUNT <= SPAD_MAP_ROW_COUNT * SPAD_ROW_SIZE - 1
  BY <1>5, SpadAssumption DEF Spad
<1> QED BY <1>3, <1>4, <1>5, <1>6 DEF Spad

LEMMA SpadsStep == ASSUME IInv, DoSpads PROVE IInv'
<1>1. At("spads") /\ UNCHANGED <<sensor, pin, slave, resets, nvm>>
      /\ \/ GiveUp /\ (UNCHANGED faults \/ Fault)
         \/ /\ UNCHANGED <<turn, result, faults>>
            /\ \E s \in Hearing : \E map \in spad_map(s, i2c_read_map(sensor[s].spads)) :
                  todo' = Write("spads", map) \o Tail(todo)
  BY DEF DoSpads, Fault
<1>2. InConfig /\ result = "none" /\ todo # <<>>
  BY <1>1, AtIs
<1>3. Done = 5
  <2>1. Places(Now, Done, Head(todo)) /\ Head(todo).op = "spads"
    BY <1>1, <1>2, AtIs
  <2> QED BY <2>1 DEF Places
<1>4. TypeOK'
  BY <1>1, BoundAssumption DEF IInv, TypeOK, GiveUp, Fault
<1>5. CASE GiveUp
  BY <1>1, <1>2, <1>4, <1>5, GivesUp DEF Others
<1>6. ASSUME UNCHANGED <<turn, result, faults>>, NEW s \in Hearing,
             NEW map \in spad_map(s, i2c_read_map(sensor[s].spads)),
             todo' = Write("spads", map) \o Tail(todo)
      PROVE  IInv'
  <2> DEFINE w == [op |-> "write", reg |-> "spads", val |-> map]
  <2>1. map \in SUBSET Spad
    BY <1>6, SpadMapIs DEF IInv, Hearing
  <2>2. PICK S : Tail(todo) \in Seq(S)
    BY <1>2, HeadIs DEF IInv
  <2>3. /\ Len(todo) \in Nat /\ Len(todo) > 0
        /\ Len(Tail(todo)) = Len(todo) - 1
        /\ \A i \in DOMAIN Tail(todo) :
               i + 1 \in DOMAIN todo /\ Tail(todo)[i] = todo[i + 1]
    BY <1>2, HeadIs DEF IInv
  <2>4. todo' = <<w>> \o Tail(todo)
    BY <1>6 DEF Write
  <2> HIDE DEF w
  <2> DEFINE r == Tail(todo)
  <2>5. /\ <<w>> \o r \in Seq(S \union {w})
        /\ Len(<<w>> \o r) = Len(r) + 1
        /\ (<<w>> \o r)[1] = w
        /\ \A i \in DOMAIN (<<w>> \o r) :
               /\ i \in Nat
               /\ \/ i = 1
                  \/ i - 1 \in DOMAIN r /\ i - 1 + 1 = i /\ (<<w>> \o r)[i] = r[i - 1]
    <3> HIDE DEF r
    <3>1. r \in Seq(S)
      BY <2>2 DEF r
    <3> QED BY <3>1
  <2>6. TodoInv' /\ Len(todo') = Len(todo) /\ todo'[1] = w
    BY <2>3, <2>4, <2>5 DEF TodoInv
  <2>7. \A i \in DOMAIN todo' : i = 1 \/ (i \in DOMAIN todo /\ todo'[i] = todo[i])
    BY <2>3, <2>4, <2>5
  <2>8. turn' = turn /\ result' = "none" /\ Now' = Now /\ Done' = 5 /\ InConfig'
    BY <1>2, <1>3, <1>6, <2>6 DEF Now, Done, InConfig
  <2>9. ConfigInv'
    <3>1. <<w>> = Write("spads", map)
      BY DEF w, Write
    <3>2. \A i \in DOMAIN todo' :
             \/ todo'[i] = vl53l0x_init_config(Now)[5 + i]
             \/ i = 1 /\ <<todo'[i]>> = Write("spads", map)
      BY <1>2, <1>3, <2>6, <2>7, <3>1 DEF IInv, ConfigInv
    <3>3. slave' = Address[Now]
      BY <1>1, <1>2, <1>3 DEF IInv, ConfigInv
    <3> QED BY <2>1, <2>8, <3>2, <3>3 DEF ConfigInv
  <2>10. WakeInv' /\ SettledInv'
    BY <1>1, <1>2, <2>8, StaysInTurn DEF Others
  <2>11. AddressInv' /\ NowInv' /\ OkInv' /\ PinInv'
    BY <1>1, <1>2, <1>3, <2>8 DEF IInv, AddressInv, NowInv, OkInv, PinInv
  <2> QED BY <1>4, <2>6, <2>9, <2>10, <2>11 DEF IInv
<1> QED BY <1>1, <1>5, <1>6

(* The awaited sensor is the one that is being configured.                  *)
LEMMA StrobeStep == ASSUME IInv, DoWaitStrobe PROVE IInv'
<1>1. At("strobe") /\ UNCHANGED <<sensor, pin, slave, resets, nvm>>
      /\ \/ Proceed /\ UNCHANGED faults
         \/ GiveUp /\ (UNCHANGED faults \/ Fault)
  BY DEF DoWaitStrobe, DoWait, Success, Fault
<1>2. InConfig /\ result = "none" /\ todo # <<>>
  BY <1>1, AtIs
<1>3. Done = 3
  <2>1. Places(Now, Done, Head(todo)) /\ Head(todo).op = "strobe"
    BY <1>1, <1>2, AtIs
  <2> QED BY <2>1 DEF Places
<1>4. TypeOK'
  BY <1>1, BoundAssumption DEF IInv, TypeOK, Proceed, GiveUp, Fault
<1>5. CASE GiveUp
  BY <1>1, <1>2, <1>4, <1>5, GivesUp DEF Others
<1>6. CASE Proceed
  <2>1. Configuring(sensor[Now], 3)
    BY <1>2, <1>3 DEF IInv, NowInv
  <2>2. Configuring(sensor[Now], 4)
    BY <2>1 DEF Configuring, ConfigAfter, SequenceAfter, CalibratedAfter
  <2>3. turn = Len(Order) + 1 => PinAt(pin, 4)
    BY <1>2, <1>3 DEF IInv, PinInv, PinAt
  <2> QED BY <1>1, <1>2, <1>3, <1>4, <1>6, <2>2, <2>3, ConfigGoesOn DEF Others
<1> QED BY <1>1, <1>5, <1>6

LEMMA InterruptStep == ASSUME IInv, DoWaitInterrupt PROVE IInv'
<1>1. At("interrupt") /\ UNCHANGED <<sensor, pin, slave, resets, nvm>>
      /\ \/ Proceed /\ UNCHANGED faults /\ \E s \in Hearing : sensor[s].status
         \/ GiveUp /\ (UNCHANGED faults \/ Fault)
  <2>1. Hearing \subseteq Sensors
    BY DEF Hearing
  <2> QED BY <2>1 DEF DoWaitInterrupt, DoWait, Success, Fault
<1>2. InConfig /\ result = "none" /\ todo # <<>>
  BY <1>1, AtIs
<1>3. Done \in {12, 17}
  <2>1. Places(Now, Done, Head(todo)) /\ Head(todo).op = "interrupt"
    BY <1>1, <1>2, AtIs
  <2> QED BY <2>1 DEF Places
<1>4. TypeOK'
  BY <1>1, BoundAssumption DEF IInv, TypeOK, Proceed, GiveUp, Fault
<1>5. CASE GiveUp
  BY <1>1, <1>2, <1>4, <1>5, GivesUp DEF Others
<1>6. CASE ~GiveUp
  <2>1. Configuring(sensor[Now], Done) /\ slave = Address[Now]
    BY <1>2, <1>3 DEF IInv, NowInv, ConfigInv
  <2>2. sensor[Now].status
    BY <1>1, <1>2, <1>6, <2>1, OneHears, CurrentIs DEF IInv
  <2>3. Configuring(sensor[Now], Done + 1)
    <3>1. ~sensor[Now].busy
      BY <1>3, <2>1, <2>2 DEF Configuring
    <3>2. CASE Done = 12
      BY <2>1, <2>2, <3>1, <3>2 DEF Configuring, ConfigAfter, SequenceAfter, CalibratedAfter
    <3>3. CASE Done = 17
      BY <2>1, <2>2, <3>1, <3>3 DEF Configuring, ConfigAfter, SequenceAfter, CalibratedAfter
    <3> QED BY <1>3, <3>2, <3>3
  <2>4. turn = Len(Order) + 1 => PinAt(pin, Done + 1)
    BY <1>2, <1>3 DEF IInv, PinInv, PinAt
  <2> QED BY <1>1, <1>2, <1>3, <1>4, <1>6, <2>3, <2>4, ConfigGoesOn DEF Others
<1> QED BY <1>5, <1>6

LEMMA PinStep == ASSUME IInv, DoPin PROVE IInv'
<1> DEFINE what == Head(todo).what
<1>1. At("pin") /\ Proceed /\ UNCHANGED <<sensor, slave, bounds>>
  BY DEF DoPin
<1>2. InConfig /\ result = "none" /\ todo # <<>>
  BY <1>1, AtIs
<1>3. /\ Now = Mid /\ Done \in Nat
      /\ \/ Done = 21 /\ what = "disable"
         \/ Done = 22 /\ what = "falling"
         \/ Done = 23 /\ what = "clear"
         \/ Done = 24 /\ what = "register"
         \/ Done = 25 /\ what = "enable"
  <2>1. Places(Now, Done, Head(todo)) /\ Head(todo).op = "pin" /\ Done \in Nat
    BY <1>1, <1>2, AtIs
  <2> QED BY <2>1 DEF Places
<1>4. turn = Len(Order) + 1
  BY <1>2, <1>3, CurrentIs DEF IInv
<1>5. PinAt(pin, Done) /\ pin \in PinState
  BY <1>2, <1>4 DEF IInv, PinInv, TypeOK, PinState
<1>w. \/ what = "disable" /\ pin' = [pin EXCEPT !.ie = FALSE]
      \/ what = "falling" /\ \E flag \in BOOLEAN :
             pin' = [pin EXCEPT !.edge = "falling", !.ifg = @ \/ flag]
      \/ what = "clear" /\ pin' = [pin EXCEPT !.ifg = FALSE]
      \/ what = "register" /\ pin' = [pin EXCEPT !.isr = TRUE]
      \/ what = "enable" /\ pin' = [pin EXCEPT !.ie = TRUE]
  BY Zenon DEF DoPin
<1> HIDE DEF what
<1>6. pin' \in PinState /\ PinAt(pin', Done + 1)
  <2>1. CASE Done = 21
    <3>1. pin' = [pin EXCEPT !.ie = FALSE]
      BY <1>3, <1>w, <2>1
    <3>2. pin' \in PinState /\ ~pin'.ie /\ pin'.edge = pin.edge
          /\ (pin'.ifg <=> pin.ifg) /\ (pin'.isr <=> pin.isr)
      BY <1>5, <3>1 DEF PinState
    <3> QED BY <1>5, <2>1, <3>2 DEF PinAt
  <2>2. CASE Done = 22
    <3>w. what = "falling"
      BY <1>3, <2>2
    <3>1. PICK flag \in BOOLEAN : pin' = [pin EXCEPT !.edge = "falling", !.ifg = @ \/ flag]
      BY <1>w, <3>w, Zenon
    <3> DEFINE b == pin.ifg \/ flag
    <3>2. pin' = [pin EXCEPT !.edge = "falling", !.ifg = b]
      BY <3>1
    <3>3. b \in BOOLEAN
      OBVIOUS
    <3> HIDE DEF b
    <3>4. pin' \in PinState /\ pin'.edge = "falling" /\ (pin'.ie <=> pin.ie)
          /\ (pin'.isr <=> pin.isr)
      BY <1>5, <3>2, <3>3 DEF PinState
    <3> QED BY <1>5, <2>2, <3>4 DEF PinAt
  <2>3. CASE Done = 23
    <3>1. pin' = [pin EXCEPT !.ifg = FALSE]
      BY <1>3, <1>w, <2>3
    <3>2. pin' \in PinState /\ ~pin'.ifg /\ pin'.edge = pin.edge
          /\ (pin'.ie <=> pin.ie) /\ (pin'.isr <=> pin.isr)
      BY <1>5, <3>1 DEF PinState
    <3> QED BY <1>5, <2>3, <3>2 DEF PinAt
  <2>4. CASE Done = 24
    <3>1. pin' = [pin EXCEPT !.isr = TRUE]
      BY <1>3, <1>w, <2>4
    <3>2. pin' \in PinState /\ pin'.isr /\ pin'.edge = pin.edge
          /\ (pin'.ie <=> pin.ie) /\ (pin'.ifg <=> pin.ifg)
      BY <1>5, <3>1 DEF PinState
    <3> QED BY <1>5, <2>4, <3>2 DEF PinAt
  <2>5. CASE Done = 25
    <3>1. pin' = [pin EXCEPT !.ie = TRUE]
      BY <1>3, <1>w, <2>5
    <3>2. pin' \in PinState /\ pin'.ie /\ pin'.edge = pin.edge
          /\ (pin'.ifg <=> pin.ifg) /\ (pin'.isr <=> pin.isr)
      BY <1>5, <3>1 DEF PinState
    <3> QED BY <1>5, <2>5, <3>2 DEF PinAt
  <2> QED BY <1>3, <2>1, <2>2, <2>3, <2>4, <2>5
<1>7. Configuring(sensor[Now], Done + 1)
  <2>1. Configuring(sensor[Now], Done)
    BY <1>2 DEF IInv, NowInv
  <2>2. Done \in Nat /\ 21 <= Done
    BY <1>3
  <2> HIDE DEF Done, Now
  <2> QED BY <2>1, <2>2 DEF Configuring, ConfigAfter, SequenceAfter, CalibratedAfter
<1>8. TypeOK'
  BY <1>1, <1>6 DEF IInv, TypeOK, PinState, Proceed, bounds
<1>9. slave' = slave
  BY <1>1
<1> QED BY <1>1, <1>2, <1>3, <1>4, <1>6, <1>7, <1>8, ConfigGoesOn DEF Others

(* The sensor whose turn it was has its address, or is settled.             *)
LEMMA NextTurnStep == ASSUME IInv, NextTurn PROVE IInv'
<1>1. result = "none" /\ todo = <<>> /\ turn < Turns /\ turn' = turn + 1
      /\ todo' = vl53l0x_init(turn + 1) /\ UNCHANGED <<sensor, pin, slave, result, bounds>>
  BY DEF NextTurn
<1>2. turn \in Nat /\ turn >= 1 /\ Len(Order) \in Nat /\ turn + 1 <= Len(Order) + Len(Order)
  BY <1>1, OrderIs DEF IInv, TypeOK
<1>3. TypeOK'
  BY <1>1, <1>2, OrderIs DEF IInv, TypeOK, bounds
<1>4. Len(todo) = 0
  BY <1>1
<1>5. InConfig => Settled(sensor[Now]) /\ Done = (IF Now = Mid THEN 26 ELSE 21)
  <2> SUFFICES ASSUME InConfig
               PROVE  Settled(sensor[Now]) /\ Done = (IF Now = Mid THEN 26 ELSE 21)
    OBVIOUS
  <2>1. Now \in Sensors
    BY CurrentIs DEF IInv
  <2>2. Done = IF Now = Mid THEN 26 ELSE 21
    BY <1>4, <2>1, ConfigLength DEF Done
  <2>3. Configuring(sensor[Now], Done)
    BY <1>1 DEF IInv, NowInv
  <2>4. Configuring(sensor[Now], 26) \/ Configuring(sensor[Now], 21)
    BY <2>2, <2>3
  <2>5. Settled(sensor[Now])
    BY <2>4 DEF Configuring, ConfigAfter, SequenceAfter, CalibratedAfter, Settled
  <2> QED BY <2>2, <2>5
<1>6. ~InConfig => sensor[Order[turn]].addr = Address[Order[turn]]
  BY <1>1 DEF IInv, AddressInv
<1>7. Index' = Index /\ (InConfig' <=> turn + 1 > Len(Order))
  BY <1>1 DEF Index, InConfig
<1>8. WakeInv'
  <2>1. ASSUME NEW j \in Index
        PROVE  /\ j < turn + 1 => sensor[Order[j]].addr = Address[Order[j]]
               /\ turn + 1 < j => ~sensor[Order[j]].awake /\ ~sensor[Order[j]].booted
    <3>1. CASE j = turn
      <4>1. ~InConfig
        BY <3>1, OrderIs DEF InConfig
      <4> QED BY <1>2, <1>6, <3>1, <4>1
    <3>2. CASE j # turn
      <4>1. j \in Nat /\ (j < turn + 1 => j < turn) /\ (turn + 1 < j => turn < j)
        BY <1>2, <3>2, OrderIs
      <4> QED BY <4>1 DEF IInv, WakeInv
    <3> QED BY <3>1, <3>2
  <2>2. ~InConfig' => slave = DefaultAddress
    BY <1>2, <1>7 DEF IInv, WakeInv, InConfig
  <2> QED BY <1>1, <1>7, <2>1, <2>2 DEF WakeInv
<1>9. SettledInv'
  <2> SUFFICES ASSUME NEW j \in Index
               PROVE  /\ j + Len(Order) < turn + 1 => Settled(sensor[Order[j]])
                      /\ turn + 1 < j + Len(Order) => Fresh(sensor[Order[j]])
    BY <1>1, <1>7 DEF SettledInv
  <2>1. j \in Nat
    BY OrderIs
  <2>2. turn + 1 < j + Len(Order) => turn < j + Len(Order)
    BY <1>2, <2>1
  <2>3. CASE j + Len(Order) = turn
    <3>1. turn - Len(Order) = j /\ InConfig
      BY <1>2, <2>1, <2>3, OrderIs DEF InConfig
    <3>2. Now = Order[j]
      BY <3>1 DEF Now
    <3>3. ~(turn + 1 < j + Len(Order))
      BY <1>2, <2>1, <2>3
    <3> QED BY <1>5, <3>1, <3>2, <3>3
  <2>4. CASE j + Len(Order) # turn
    <3>1. j + Len(Order) < turn + 1 => j + Len(Order) < turn
      BY <1>2, <2>1, <2>4
    <3> QED BY <2>2, <3>1 DEF IInv, SettledInv
  <2> QED BY <2>3, <2>4
<1>10. OkInv'
  BY <1>1 DEF OkInv
<1>11. CASE turn + 1 <= Len(Order)
  <2>1. ~InConfig' /\ todo' = vl53l0x_init_address(Order[turn + 1])
    BY <1>1, <1>2, <1>7, <1>11 DEF vl53l0x_init
  <2> DEFINE p == vl53l0x_init_address(Order[turn + 1])
  <2>2. HasLength(p, 3) /\ \E S : p \in Seq(S)
    BY AddressIs
  <2> HIDE DEF p
  <2>3. p # <<>> /\ Len(p) <= 3 /\ Len(p) >= 3 /\ Len(p) \in Nat
    BY <2>2 DEF HasLength
  <2>4. \A i \in DOMAIN p : p[i] = p[3 - Len(p) + i]
    BY <2>2, <2>3
  <2>5. TodoInv' /\ AddressInv'
    BY <1>1, <2>1, <2>2, <2>3, <2>4 DEF TodoInv, AddressInv, p
  <2>6. ConfigInv' /\ NowInv'
    BY <2>1 DEF ConfigInv, NowInv
  <2>7. PinInv'
    BY <1>1, <1>2, <1>11 DEF IInv, PinInv
  <2> QED BY <1>3, <1>8, <1>9, <1>10, <2>5, <2>6, <2>7 DEF IInv
<1>12. CASE ~(turn + 1 <= Len(Order))
  <2>1. InConfig' /\ todo' = vl53l0x_init_config(Order[turn + 1 - Len(Order)])
        /\ Now' = Order[turn + 1 - Len(Order)] /\ turn + 1 - Len(Order) \in Index
    BY <1>1, <1>2, <1>7, <1>12, OrderIs DEF vl53l0x_init, Now
  <2>2. todo' = vl53l0x_init_config(Now') /\ Now' \in Sensors
    BY <2>1, OrderIs
  <2>3. Len(todo') \in Nat /\ Len(vl53l0x_init_config(Now')) = Len(todo') /\ TodoInv'
    <3>1. \E S : todo' \in Seq(S)
      BY <2>2, ConfigIs
    <3> QED BY <2>2, <3>1 DEF TodoInv
  <2>4. Done' = 0
    BY <2>3 DEF Done
  <2>5. ConfigInv'
    <3>1. \A i \in DOMAIN todo' : todo'[i] = vl53l0x_init_config(Now')[0 + i]
      <4>1. \A i \in DOMAIN todo' : 0 + i = i
        BY <2>3 DEF TodoInv
      <4> QED BY <2>2, <4>1
    <3> QED BY <2>4, <3>1 DEF ConfigInv
  <2>6. NowInv' /\ AddressInv'
    <3>1. turn < (turn + 1 - Len(Order)) + Len(Order)
      BY <1>2
    <3>2. Fresh(sensor[Now'])
      BY <2>1, <3>1 DEF IInv, SettledInv
    <3>3. Configuring(sensor[Now'], 0)
      BY <3>2 DEF Fresh, Configuring, ConfigAfter, SequenceAfter, CalibratedAfter
    <3> QED BY <1>1, <2>1, <2>4, <3>3 DEF NowInv, AddressInv
  <2>7. PinInv'
    <3>1. CASE turn = Len(Order)
      <4>1. ~pin.ie
        BY <3>1, <1>2 DEF IInv, PinInv
      <4>2. PinAt(pin', Done')
        BY <1>1, <2>4, <4>1 DEF PinAt
      <4> QED BY <1>1, <1>2, <3>1, <4>2 DEF PinInv
    <3>2. CASE turn = Len(Order) + 1
      <4>1. InConfig /\ Now = Mid
        BY <1>2, <3>2, CurrentIs DEF IInv, InConfig
      <4>2. PinAt(pin, 26)
        BY <1>1, <1>5, <3>2, <4>1 DEF IInv, PinInv
      <4>3. pin \in PinState
        BY DEF IInv, TypeOK, PinState
      <4>4. pin = [edge |-> "falling", ie |-> TRUE, isr |-> TRUE, ifg |-> FALSE]
        BY <4>2, <4>3 DEF PinAt, PinState
      <4> QED BY <1>1, <1>2, <3>2, <4>4 DEF PinInv
    <3>3. CASE turn > Len(Order) + 1
      BY <1>1, <1>2, <3>3 DEF IInv, PinInv
    <3> QED BY <1>2, <1>12, <3>1, <3>2, <3>3
  <2> QED BY <1>3, <1>8, <1>9, <1>10, <2>3, <2>5, <2>6, <2>7 DEF IInv
<1> QED BY <1>11, <1>12

LEMMA EndStep == ASSUME IInv, Finish \/ GoOn \/ Over PROVE IInv'
<1>1. UNCHANGED <<sensor, pin, slave, turn, todo, bounds>>
  BY DEF Finish, GoOn, Over, vars, progress
<1>2. \/ result = "none" /\ result' = "ok" /\ todo = <<>> /\ turn = Turns
      \/ result = "error" /\ result' = "assert"
      \/ result' = result
  BY DEF Finish, GoOn, Over, vars, progress
<1>3. Now' = Now /\ Done' = Done /\ (InConfig' <=> InConfig)
  BY <1>1 DEF Now, Done, InConfig
<1>4. TypeOK'
  BY <1>1, <1>2 DEF IInv, TypeOK, bounds
<1>5. WakeInv' /\ TodoInv' /\ SettledInv'
  BY <1>1, <1>3 DEF IInv, WakeInv, TodoInv, SettledInv, Index
<1>6. AddressInv' /\ ConfigInv' /\ NowInv' /\ OkInv' /\ PinInv'
  <2>1. CASE result' = "ok" /\ result = "none"
    BY <1>1, <1>2, <1>3, <2>1 DEF IInv, AddressInv, ConfigInv, NowInv, OkInv, PinInv
  <2>2. CASE result = "error" /\ result' = "assert"
    BY <1>1, <1>3, <2>2 DEF IInv, AddressInv, ConfigInv, NowInv, OkInv, PinInv
  <2>3. CASE result' = result
    BY <1>1, <1>3, <2>3 DEF IInv, AddressInv, ConfigInv, NowInv, OkInv, PinInv
  <2> QED BY <1>2, <2>1, <2>2, <2>3
<1> QED BY <1>4, <1>5, <1>6 DEF IInv

-----------------------------------------------------------------------------
(* The steps of the sensors.                                                *)

(* A sensor that boots, or has read its memory, looks as before.            *)
LEMMA SensorMoves ==
    ASSUME IInv, NEW s \in Sensors, Boot(s) \/ NvmReady(s)
    PROVE  IInv'
<1>1. UNCHANGED <<pin, slave, progress, bounds>>
      /\ \/ sensor[s].awake /\ sensor' = [sensor EXCEPT ![s].booted = TRUE]
         \/ sensor' = [sensor EXCEPT ![s].strobe = "ready"]
  BY DEF Boot, NvmReady
<1>2. sensor \in [Sensors -> SensorState]
  BY DEF IInv, TypeOK
<1>3. /\ sensor' \in [Sensors -> SensorState]
      /\ \A t \in Sensors :
            /\ sensor'[t].addr = sensor[t].addr /\ sensor'[t].config = sensor[t].config
            /\ sensor'[t].seq = sensor[t].seq /\ sensor'[t].calibrated = sensor[t].calibrated
            /\ sensor'[t].busy = sensor[t].busy /\ sensor'[t].status = sensor[t].status
            /\ sensor'[t].awake = sensor[t].awake
            /\ ~sensor[t].awake => sensor'[t].booted = sensor[t].booted \/ sensor'[t] = sensor[t]
  <2>1. CASE sensor[s].awake /\ sensor' = [sensor EXCEPT ![s].booted = TRUE]
    BY <1>2, <2>1 DEF SensorState
  <2>2. CASE sensor' = [sensor EXCEPT ![s].strobe = "ready"]
    BY <1>2, <2>2 DEF SensorState
  <2> QED BY <1>1, <2>1, <2>2
<1>4. TypeOK'
  BY <1>1, <1>3 DEF IInv, TypeOK, progress, bounds
<1>5. turn' = turn /\ todo' = todo /\ result' = result /\ Now' = Now /\ Done' = Done
      /\ (InConfig' <=> InConfig) /\ Index' = Index /\ UNCHANGED <<pin, slave>>
  BY <1>1 DEF progress, Now, Done, InConfig, Index
<1>6. WakeInv'
  <2>1. ASSUME NEW j \in Index
        PROVE  /\ j < turn => sensor'[Order[j]].addr = Address[Order[j]]
               /\ turn < j => ~sensor'[Order[j]].awake /\ ~sensor'[Order[j]].booted
    <3>1. Order[j] \in Sensors
      BY OrderIs
    <3> QED BY <1>3, <3>1 DEF IInv, WakeInv
  <2> QED BY <1>5, <2>1 DEF IInv, WakeInv
<1>7. SettledInv'
  <2>1. ASSUME NEW j \in Index
        PROVE  /\ j + Len(Order) < turn => Settled(sensor'[Order[j]])
               /\ turn < j + Len(Order) => Fresh(sensor'[Order[j]])
    <3>1. Order[j] \in Sensors
      BY OrderIs
    <3> QED BY <1>3, <3>1 DEF IInv, SettledInv, Settled, Fresh
  <2> QED BY <1>5, <2>1 DEF SettledInv
<1>8. TodoInv' /\ ConfigInv' /\ OkInv' /\ PinInv'
  BY <1>5 DEF IInv, TodoInv, ConfigInv, OkInv, PinInv
<1>9. AddressInv'
  <2>1. ~InConfig => Order[turn] \in Sensors
    BY CurrentIs, OrderIs DEF IInv
  <2> QED BY <1>3, <1>5, <2>1 DEF IInv, AddressInv
<1>10. NowInv'
  <2>1. InConfig => Now \in Sensors
    BY CurrentIs DEF IInv
  <2>2. \A t \in Sensors : Configuring(sensor[t], Done) => Configuring(sensor'[t], Done)
    BY <1>3 DEF Configuring
  <2> QED BY <1>5, <2>1, <2>2 DEF IInv, NowInv
<1> QED BY <1>4, <1>6, <1>7, <1>8, <1>9, <1>10 DEF IInv

(* Only the sensor that is being configured calibrates.                     *)
LEMMA CalibratedStep ==
    ASSUME IInv, NEW s \in Sensors, Calibrated(s)
    PROVE  IInv'
<1>1. sensor[s].busy /\ UNCHANGED <<slave, progress, bounds>> /\ Line(sensor')
      /\ sensor' = [sensor EXCEPT ![s] = Measured(sensor[s])]
  BY DEF Calibrated, Become
<1>2. sensor \in [Sensors -> SensorState]
  BY DEF IInv, TypeOK
<1>3. turn \in Nat /\ turn' = turn /\ todo' = todo /\ result' = result
  BY <1>1, OrderIs DEF progress, IInv, TypeOK
<1>4. InConfig /\ s = Now /\ Now = Current
  <2>1. PICK j \in Index : s = Order[j]
    BY OrderIs
  <2>2. ~(j + Len(Order) < turn) /\ ~(turn < j + Len(Order))
    BY <1>1, <2>1 DEF IInv, SettledInv, Settled, Fresh
  <2>3. j \in Nat /\ j >= 1
    BY OrderIs
  <2>4. j + Len(Order) = turn
    BY <1>3, <2>2, <2>3, OrderIs
  <2>5. turn - Len(Order) = j /\ turn > Len(Order)
    BY <1>3, <2>3, <2>4, OrderIs
  <2> QED BY <2>1, <2>5 DEF InConfig, Now, Current
<1> DEFINE r == sensor[s]
           t == sensor'[s]
<1>5. LET m == Measured(r)
      IN  /\ m \in SensorState
          /\ m.addr = r.addr /\ m.config = r.config /\ m.seq = r.seq
          /\ ~m.busy /\ m.calibrated = r.calibrated \union {r.seq}
          /\ m.status <=> r.status \/ "interrupt" \in r.config
  <2> DEFINE b == r.status \/ "interrupt" \in r.config
  <2>1. b \in BOOLEAN
    OBVIOUS
  <2>2. Measured(r) =
            [r EXCEPT !.busy = FALSE, !.calibrated = @ \union {r.seq}, !.status = b]
    BY Zenon DEF Measured
  <2>3. b <=> r.status \/ "interrupt" \in r.config
    OBVIOUS
  <2>4. r \in SensorState
    BY <1>2
  <2> HIDE DEF b, r
  <2>5. [r EXCEPT !.busy = FALSE, !.calibrated = @ \union {r.seq}, !.status = b] \in SensorState
    BY <2>1, <2>4 DEF SensorState
  <2> QED BY <2>2, <2>3, <2>4, <2>5 DEF SensorState
<1>6. sensor' \in [Sensors -> SensorState] /\ Others /\ t = Measured(r)
  BY <1>1, <1>2, <1>4, <1>5 DEF Others
<1>8. /\ sensor' \in [Sensors -> SensorState] /\ Others
      /\ t.addr = r.addr /\ t.config = r.config /\ t.seq = r.seq
      /\ ~t.busy /\ t.calibrated = r.calibrated \union {r.seq}
      /\ t.status <=> r.status \/ "interrupt" \in r.config
  BY <1>5, <1>6
<1>9. pin' \in PinState /\ pin'.ie = pin.ie /\ (sensor'[Mid] = sensor[Mid] => pin' = pin)
  BY <1>1, LineIs DEF IInv, TypeOK, PinState
<1>10. TypeOK'
  BY <1>1, <1>8, <1>9 DEF IInv, TypeOK, PinState, progress, bounds
<1>11. WakeInv' /\ SettledInv' /\ (InConfig' <=> InConfig) /\ Now' = Now
  BY <1>3, <1>4, <1>8, StaysInTurn
<1>12. Done' = Done /\ UNCHANGED slave
  BY <1>1, <1>3, <1>11 DEF Done
<1>13. ASSUME result \in {"none", "ok"}
       PROVE  Done \in {12, 17} /\ Configuring(sensor'[Now], Done)
  <2>1. Configuring(r, Done)
    BY <1>4, <1>13 DEF IInv, NowInv
  <2> HIDE DEF r, t
  <2>2. Done \in {12, 17}
    BY <1>1, <2>1 DEF Configuring, r
  <2>3. CASE Done = 12
    <3>1. /\ r.config = Table /\ r.seq = "vhv" /\ r.calibrated = {}
      BY <1>1, <2>1, <2>3 DEF Configuring, ConfigAfter, SequenceAfter, CalibratedAfter, r
    <3>2. Configuring(t, 12)
      BY <1>8, <3>1 DEF Configuring, ConfigAfter, SequenceAfter, CalibratedAfter, Table
    <3> QED BY <1>4, <2>3, <3>2 DEF t
  <2>4. CASE Done = 17
    <3>1. /\ r.config = Table /\ r.seq = "phase" /\ r.calibrated = {"vhv"}
      BY <1>1, <2>1, <2>4 DEF Configuring, ConfigAfter, SequenceAfter, CalibratedAfter, r
    <3>2. Configuring(t, 17)
      BY <1>8, <3>1
         DEF Configuring, ConfigAfter, SequenceAfter, CalibratedAfter, Table, Calibration
    <3> QED BY <1>4, <2>4, <3>2 DEF t
  <2> QED BY <2>2, <2>3, <2>4
<1>14. TodoInv' /\ ConfigInv' /\ OkInv' /\ AddressInv' /\ NowInv'
  BY <1>3, <1>4, <1>11, <1>12, <1>13
     DEF IInv, TodoInv, ConfigInv, OkInv, AddressInv, NowInv
<1>15. PinInv'
  <2>1. CASE turn = Len(Order) + 1
    <3>1. result \in {"none", "ok"} => PinAt(pin', Done)
      <4> SUFFICES ASSUME result \in {"none", "ok"} PROVE PinAt(pin', Done)
        OBVIOUS
      <4>1. Done \in {12, 17} /\ PinAt(pin, Done)
        BY <1>13, <2>1 DEF IInv, PinInv
      <4> QED BY <1>9, <4>1 DEF PinAt
    <3> QED BY <1>3, <1>9, <1>12, <2>1, <3>1, OrderIs DEF IInv, PinInv
  <2>2. CASE turn # Len(Order) + 1
    <3>1. turn > Len(Order) + 1
      BY <1>3, <1>4, <2>2, OrderIs DEF InConfig
    <3>2. sensor'[Mid] = sensor[Mid]
      BY <1>8, <3>1, CurrentIsNotMid, OrderIs DEF IInv, Others
    <3> QED BY <1>3, <1>9, <3>1, <3>2, OrderIs DEF IInv, PinInv
  <2> QED BY <2>1, <2>2
<1> QED BY <1>10, <1>11, <1>14, <1>15 DEF IInv

-----------------------------------------------------------------------------
(* The start, and every other start.                                        *)
Restarted ==
    /\ nvm \in Nvms /\ sensor = [s \in Sensors |-> Asleep(s)]
    /\ pin \in PinState /\ ~pin.ie /\ slave = DefaultAddress
    /\ turn = 1 /\ todo = vl53l0x_init(1) /\ result = "none"
    /\ faults \in 0 .. MaxFaults /\ resets \in 0 .. MaxResets

LEMMA Restarts == Restarted => IInv
<1> SUFFICES ASSUME Restarted PROVE IInv
  OBVIOUS
<1> USE DEF Restarted
<1>1. \A s \in Sensors : Asleep(s) \in SensorState
  <2> SUFFICES ASSUME NEW s \in Sensors PROVE Asleep(s) \in SensorState
    OBVIOUS
  <2>1. nvm[s].good \in SUBSET Spad
    BY SpadAssumption
  <2>2. "default" \in Sequence /\ DefaultAddress \in Addresses
    BY DEF Sequence, Addresses
  <2> QED BY <2>1, <2>2 DEF Asleep, SensorState
<1>2. 1 \in 1 .. Turns
  BY OrderIs
<1>3. TypeOK
  BY <1>1, <1>2 DEF TypeOK, PinState, Addresses
<1>4. \A s \in Sensors : Fresh(sensor[s]) /\ ~sensor[s].awake /\ ~sensor[s].booted
  BY DEF Asleep, Fresh
<1>5. ~InConfig /\ todo = vl53l0x_init_address(Order[turn])
  BY OrderIs DEF InConfig, vl53l0x_init
<1>6. WakeInv /\ SettledInv
  BY <1>4, OrderIs DEF WakeInv, SettledInv
<1>7. TodoInv /\ AddressInv
  <2> DEFINE p == vl53l0x_init_address(Order[turn])
  <2>1. HasLength(p, 3) /\ \E S : p \in Seq(S)
    BY AddressIs
  <2> HIDE DEF p
  <2>2. p # <<>> /\ Len(p) <= 3 /\ Len(p) >= 3 /\ Len(p) \in Nat
    BY <2>1 DEF HasLength
  <2>3. \A i \in DOMAIN p : p[i] = p[3 - Len(p) + i]
    BY <2>1, <2>2
  <2>4. todo = p
    BY <1>5 DEF p
  <2> QED BY <2>1, <2>2, <2>3, <2>4 DEF TodoInv, AddressInv, p
<1>8. ConfigInv /\ NowInv /\ OkInv /\ PinInv
  BY <1>5, OrderIs DEF ConfigInv, NowInv, OkInv, PinInv
<1> QED BY <1>3, <1>6, <1>7, <1>8 DEF IInv

LEMMA InitIs == Init => Restarted
<1> SUFFICES ASSUME Init PROVE Restarted
  OBVIOUS
<1>1. pin \in PinState /\ ~pin.ie
  BY DEF Init, PinState
<1>2. faults \in 0 .. MaxFaults /\ resets \in 0 .. MaxResets
  BY BoundAssumption DEF Init
<1> QED BY <1>1, <1>2 DEF Init, Restarted

LEMMA ResetIs == ASSUME IInv, Reset PROVE Restarted'
<1>1. resets < MaxResets /\ resets' = resets + 1 /\ faults' = faults /\ nvm' = nvm
      /\ sensor' = [s \in Sensors |-> Asleep(s)]
      /\ pin' = [pin EXCEPT !.ie = FALSE, !.isr = FALSE]
      /\ slave' = DefaultAddress
      /\ turn' = 1 /\ todo' = vl53l0x_init(1) /\ result' = "none"
  BY DEF Reset, io_init
<1>2. pin' \in PinState /\ ~pin'.ie
  BY <1>1 DEF IInv, TypeOK, PinState
<1>3. resets' \in 0 .. MaxResets /\ faults' \in 0 .. MaxFaults /\ nvm' \in Nvms
  BY <1>1, BoundAssumption DEF IInv, TypeOK
<1>4. sensor' = [s \in Sensors |-> Asleep(s)]'
  BY <1>1 DEF Asleep
<1> QED BY <1>1, <1>2, <1>3, <1>4 DEF Restarted, PinState

LEMMA ResetStep == ASSUME IInv, Reset PROVE IInv'
<1>1. Restarted' => IInv'
  BY Restarts, PTL
<1> QED BY <1>1, ResetIs

-----------------------------------------------------------------------------
(* Every step of the driver, of its sensors and of the microcontroller      *)
(* keeps the invariant.                                                     *)
THEOREM Invariant == Spec => []IInv
<1>1. IInv /\ [Next]_vars => IInv'
  <2> SUFFICES ASSUME IInv, [Next]_vars PROVE IInv'
    OBVIOUS
  <2>1. CASE DriverStep
    BY <2>1, WakeStep, SelectStep, ReadIdStep, WriteStep, SpadsStep, StrobeStep,
       InterruptStep, PinStep, NextTurnStep, EndStep DEF DriverStep
  <2>2. CASE GoOn \/ Over
    BY <2>2, EndStep
  <2>3. CASE Reset
    BY <2>3, ResetStep
  <2>4. CASE \E s \in Sensors : SensorStep(s)
    BY <2>4, SensorMoves, CalibratedStep DEF SensorStep
  <2>5. CASE UNCHANGED vars
    <3>1. /\ sensor' = sensor /\ pin' = pin /\ slave' = slave /\ turn' = turn /\ todo' = todo
          /\ result' = result /\ faults' = faults /\ resets' = resets /\ nvm' = nvm
      BY <2>5 DEF vars, progress, bounds
    <3>2. Done' = Done /\ Now' = Now /\ (InConfig' <=> InConfig) /\ Index' = Index
      BY <3>1 DEF Done, Now, InConfig, Index
    <3> QED BY <3>1, <3>2 DEF IInv, TypeOK, WakeInv, TodoInv, AddressInv, ConfigInv,
               SettledInv, NowInv, OkInv, PinInv
  <2> QED BY <2>1, <2>2, <2>3, <2>4, <2>5 DEF Next
<1> QED BY <1>1, InitIs, Restarts, PTL DEF Spec

(* The sensors and the driver keep their types; in particular no SPAD map   *)
(* has an index outside the sensor's (vl53l0x.c:262-305).                   *)
THEOREM TypeSafety == Spec => []TypeOK
<1>1. IInv => TypeOK
  BY DEF IInv
<1> QED BY <1>1, Invariant, PTL

(* No transfer is ever heard by two sensors (vl53l0x.c:517), however many   *)
(* there are, whichever transfers fail and however often the robot is       *)
(* reset.                                                                   *)
THEOREM OneListens == Spec => []HeardByOne
<1>1. IInv => HeardByOne
  BY HeardOnce DEF IInv
<1> QED BY <1>1, Invariant, PTL

(* What an OK of vl53l0x_init says of the sensors.                          *)
LEMMA ConfiguredIs == IInv => OkMeansConfigured
<1> SUFFICES ASSUME IInv, result = "ok", NEW s \in Sensors
             PROVE  sensor[s].addr = Address[s] /\ Settled(sensor[s])
  BY DEF OkMeansConfigured, Settled
<1>1. turn = Len(Order) + Len(Order) /\ todo = <<>> /\ Len(Order) \in Nat /\ Len(Order) > 0
  BY OrderIs DEF IInv, OkInv
<1>2. PICK j \in Index : s = Order[j]
  BY OrderIs
<1>3. j \in Nat /\ 1 <= j /\ j <= Len(Order)
  BY OrderIs
<1>4. sensor[s].addr = Address[s]
  BY <1>1, <1>2, <1>3 DEF IInv, WakeInv
<1>5. Settled(sensor[s])
  <2>1. CASE j < Len(Order)
    <3>1. j + Len(Order) < turn
      BY <1>1, <1>3, <2>1
    <3> QED BY <1>2, <3>1 DEF IInv, SettledInv
  <2>2. CASE j = Len(Order)
    <3>1. InConfig /\ Now = s
      BY <1>1, <1>2, <2>2 DEF InConfig, Now
    <3>2. Len(todo) = 0
      BY <1>1
    <3>3. Done \in {21, 26}
      BY <3>1, <3>2, ConfigLength DEF Done
    <3>4. Configuring(sensor[s], Done)
      BY <3>1 DEF IInv, NowInv
    <3>5. Configuring(sensor[s], 21) \/ Configuring(sensor[s], 26)
      BY <3>3, <3>4
    <3> QED BY <3>5 DEF Configuring, ConfigAfter, SequenceAfter, CalibratedAfter, Settled
  <2> QED BY <1>3, <2>1, <2>2
<1> QED BY <1>4, <1>5

(* An OK of vl53l0x_init means that every sensor is configured and silent,  *)
(* and until then the handler of the pin is never called.                   *)
THEOREM Ready == Spec => []OkMeansReady
<1>1. IInv => NotAnnounced
  <2> SUFFICES ASSUME IInv
               PROVE  /\ ~(pin.ie /\ pin.ifg)
                      /\ result = "ok" => pin = [edge |-> "falling", ie |-> TRUE, isr |-> TRUE,
                                                 ifg |-> FALSE]
    BY DEF NotAnnounced
  <2>1. turn \in Nat /\ Len(Order) \in Nat /\ Len(Order) > 0
    BY OrderIs DEF IInv, TypeOK
  <2>2. ~(pin.ie /\ pin.ifg)
    <3>1. CASE turn <= Len(Order)
      BY <3>1 DEF IInv, PinInv
    <3>2. CASE turn = Len(Order) + 1
      BY <3>2 DEF IInv, PinInv, PinAt
    <3>3. CASE turn > Len(Order) + 1
      BY <3>3 DEF IInv, PinInv
    <3> QED BY <2>1, <3>1, <3>2, <3>3
  <2>3. ASSUME result = "ok"
        PROVE  pin = [edge |-> "falling", ie |-> TRUE, isr |-> TRUE, ifg |-> FALSE]
    <3>1. turn = Turns /\ todo = <<>>
      BY <2>3 DEF IInv, OkInv
    <3>2. CASE turn > Len(Order) + 1
      BY <3>2 DEF IInv, PinInv
    <3>3. CASE turn = Len(Order) + 1
      <4>1. InConfig /\ Now = Mid /\ Now \in Sensors
        BY <2>1, <3>3, CurrentIs DEF IInv, InConfig
      <4>2. Len(todo) = 0
        BY <3>1
      <4>3. Done = 26
        BY <4>1, <4>2, ConfigLength DEF Done
      <4>4. PinAt(pin, 26)
        BY <2>3, <3>3, <4>3 DEF IInv, PinInv
      <4>5. pin \in PinState
        BY DEF IInv, TypeOK, PinState
      <4> QED BY <4>4, <4>5 DEF PinAt, PinState
    <3> QED BY <2>1, <3>1, <3>2, <3>3, OrderIs
  <2> QED BY <2>2, <2>3
<1>2. IInv => OkMeansReady
  BY <1>1, ConfiguredIs DEF OkMeansReady
<1> QED BY <1>2, Invariant, PTL

-----------------------------------------------------------------------------
(* The SPADs.                                                               *)

(* A set of numbers has a least one.                                        *)
LEMMA LeastIs ==
    ASSUME NEW T, T \subseteq Nat, T # {}
    PROVE  \E m \in T : \A n \in T : m <= n
<1> DEFINE R == OpToRel(<, Nat)
<1>1. IsWellFoundedOn(R, Nat)
  BY NatLessThanWellFounded
<1>2. \A x, y \in Nat : x < y => <<x, y>> \in R
  BY DEF OpToRel
<1> HIDE DEF R
<1>3. PICK m \in T : \A y \in T : ~(<<y, m>> \in R)
  BY <1>1, WFMin
<1>4. \A n \in T : ~(n < m)
  BY <1>2, <1>3
<1>5. m \in Nat /\ \A n \in T : n \in Nat
  OBVIOUS
<1> QED BY <1>3, <1>4, <1>5

LEMMA SpadsAre ==
    ASSUME nvm \in Nvms, NEW s \in Sensors
    PROVE  /\ Offset(s) \in Nat /\ SPAD_MAX_COUNT \in Nat /\ nvm[s].count \in Nat
           /\ nvm[s].aperture => Offset(s) = SPAD_APERTURE_START_INDEX
           /\ nvm[s].good \subseteq Spad
BY SpadAssumption DEF Offset, Spad

(* The SPADs before index n, one after the other.                           *)
LEMMA InBefore ==
    ASSUME NEW s, Offset(s) \in Nat, NEW good \in SUBSET Int, NEW n, NEW i
    PROVE  /\ i \in Before(s, good, n) <=> i \in good /\ Offset(s) <= i /\ i < n
           /\ i \in Before(s, good, n) => i \in Nat
<1>1. i \in Before(s, good, n) <=> i \in good /\ Offset(s) <= i /\ i < n
  BY DEF Before
<1>2. \A o \in Nat, j \in Int : o <= j => j \in Nat
  OBVIOUS
<1>3. i \in good => i \in Int
  OBVIOUS
<1> QED BY <1>1, <1>2, <1>3

LEMMA BeforeIs ==
    ASSUME NEW s, Offset(s) \in Nat, NEW good \in SUBSET Int, NEW n \in Nat
    PROVE  /\ IsFiniteSet(Before(s, good, n)) /\ Cardinality(Before(s, good, n)) \in Nat
           /\ Before(s, good, 0) = {}
           /\ Cardinality(Before(s, good, n + 1)) <= Cardinality(Before(s, good, n)) + 1
<1>1. ASSUME NEW m \in Nat
      PROVE  IsFiniteSet(Before(s, good, m)) /\ Cardinality(Before(s, good, m)) \in Nat
  <2>1. \A i \in Before(s, good, m) : i \in Nat /\ i < m
    BY InBefore
  <2>2. Before(s, good, m) \subseteq 0 .. m
    BY <2>1
  <2>3. IsFiniteSet(0 .. m)
    BY FS_Interval
  <2> QED BY <2>2, <2>3, FS_Subset, FS_CardinalityType
<1>2. Before(s, good, 0) = {}
  <2>1. \A i \in Before(s, good, 0) : i \in Nat /\ i < 0
    BY InBefore
  <2> QED BY <2>1
<1> DEFINE b == Before(s, good, n)
           c == Before(s, good, n + 1)
<1>3. c \subseteq b \union {n}
  <2> SUFFICES ASSUME NEW i \in c PROVE i \in b \/ i = n
    OBVIOUS
  <2>1. i \in good /\ Offset(s) <= i /\ i < n + 1 /\ i \in Nat
    BY InBefore
  <2>2. i = n \/ i < n
    BY <2>1
  <2> QED BY <2>1, <2>2, InBefore
<1>4. IsFiniteSet(b) /\ Cardinality(b) \in Nat /\ IsFiniteSet(c) /\ Cardinality(c) \in Nat
  BY <1>1
<1> HIDE DEF b, c
<1>5. IsFiniteSet(b \union {n}) /\ Cardinality(b \union {n}) \in {Cardinality(b), Cardinality(b) + 1}
  BY <1>4, FS_AddElement
<1>6. Cardinality(c) <= Cardinality(b \union {n})
  BY <1>3, <1>5, FS_Subset
<1>7. Cardinality(c) <= Cardinality(b) + 1
  BY <1>4, <1>5, <1>6
<1> QED BY <1>1, <1>2, <1>7 DEF b, c

(* If there are enough of them before index k, the loop that enables the    *)
(* first ones has enabled just enough at some index up to k.                *)
LEMMA CountReached ==
    ASSUME NEW s, Offset(s) \in Nat, nvm[s].count \in Nat, NEW good \in SUBSET Int,
           NEW k \in Nat, Cardinality(Before(s, good, k)) >= nvm[s].count
    PROVE  \E m \in 0 .. k : Cardinality(EnabledBefore(s, good, m)) = nvm[s].count
<1> DEFINE c(n) == Cardinality(Before(s, good, n))
           count == nvm[s].count
           T == {n \in Nat : c(n) >= count}
<1>1. /\ \A n \in Nat : c(n) \in Nat /\ c(n + 1) <= c(n) + 1
      /\ c(0) = 0 /\ Before(s, good, 0) = {}
  BY BeforeIs, FS_EmptySet
<1>2. PICK m \in T : \A n \in T : m <= n
  <2>1. k \in T /\ T \subseteq Nat
    OBVIOUS
  <2> HIDE DEF T
  <2> QED BY <2>1, LeastIs
<1>3. m \in 0 .. k
  BY <1>2
<1>4. EnabledBefore(s, good, m) = Before(s, good, m)
  <2> SUFFICES ASSUME NEW i \in Before(s, good, m) PROVE c(i) < count
    BY DEF EnabledBefore
  <2>1. i \in Nat /\ i < m
    BY InBefore
  <2>2. i \notin T
    BY <1>2, <2>1
  <2> QED BY <1>1, <2>1, <2>2
<1>5. c(m) = count
  <2>1. CASE m = 0
    BY <1>1, <1>2, <2>1
  <2>2. CASE m # 0
    <3>1. m - 1 \in Nat /\ m - 1 + 1 = m /\ m - 1 < m
      BY <1>3, <2>2
    <3>2. m - 1 \notin T
      BY <1>2, <3>1
    <3>3. c(m - 1) < count /\ c(m - 1) \in Nat /\ c(m) \in Nat /\ c(m) <= c(m - 1) + 1
      BY <1>1, <1>2, <3>1, <3>2
    <3>4. c(m) >= count
      BY <1>2
    <3> HIDE DEF c
    <3> QED BY <3>3, <3>4
  <2> QED BY <2>1, <2>2
<1> QED BY <1>3, <1>4, <1>5

(* The maps vl53l0x_set_spads_from_nvm may choose for a sensor.             *)
MapsOf(s) == spad_map(s, i2c_read_map(nvm[s].good))

(* Each has as many SPADs as ST says, in the area and of the type.          *)
LEMMA MapsAre ==
    ASSUME nvm \in Nvms, NEW s \in Sensors, NEW map \in MapsOf(s)
    PROVE  /\ Cardinality(map) = nvm[s].count
           /\ map \subseteq i2c_read_map(nvm[s].good)
           /\ \A i \in map :
                 i < SPAD_MAX_COUNT /\ (nvm[s].aperture => SPAD_APERTURE_START_INDEX <= i)
<1> DEFINE good == i2c_read_map(nvm[s].good)
<1>1. PICK n \in 0 .. SPAD_MAX_COUNT :
          map = EnabledBefore(s, good, n) /\ Cardinality(map) = nvm[s].count
  BY DEF MapsOf, spad_map
<1>2. good \subseteq Int
  BY SpadsAre, ReadMapIs
<1> HIDE DEF good
<1>3. ASSUME NEW i \in map PROVE i \in good /\ i \in Int /\ Offset(s) <= i /\ i < n
  BY <1>1, <1>2 DEF EnabledBefore, Before
<1>4. SPAD_MAX_COUNT \in Nat /\ (nvm[s].aperture => Offset(s) = SPAD_APERTURE_START_INDEX)
  BY SpadsAre
<1>5. \A i \in map : i < SPAD_MAX_COUNT
  BY <1>3, <1>4
<1>6. map \subseteq i2c_read_map(nvm[s].good)
  BY <1>3 DEF good
<1> QED BY <1>1, <1>3, <1>4, <1>5, <1>6

(* There is one if there are SPADs enough: the limit, which the loop tests  *)
(* before the count, is not met first.                                      *)
LEMMA MapsExist ==
    ASSUME nvm \in Nvms, NEW s \in Sensors, SpadsSuffice(s)
    PROVE  MapsOf(s) # {}
<1> DEFINE good == i2c_read_map(nvm[s].good)
           MAX == SPAD_MAX_COUNT
<1>1. Offset(s) \in Nat /\ MAX \in Nat /\ nvm[s].count \in Nat /\ good \in SUBSET Int
  BY SpadsAre, ReadMapIs
<1>2. Cardinality(Before(s, good, MAX - 1)) >= nvm[s].count
  BY DEF SpadsSuffice, Before
<1>3. ASSUME NEW m \in 0 .. MAX, Cardinality(EnabledBefore(s, good, m)) = nvm[s].count,
             m < MAX \/ m % SPAD_ROW_SIZE = 0
      PROVE  MapsOf(s) # {}
  <2>1. EnabledBefore(s, good, m) \in MapsOf(s)
    BY <1>3 DEF MapsOf, spad_map
  <2> QED BY <2>1
<1> HIDE DEF good
<1>4. CASE MAX = 0
  <2>1. Before(s, good, 0) = {} /\ Before(s, good, MAX - 1) = {}
    <3>1. \A n : \A i \in Before(s, good, n) : i \in Nat /\ i < n
      BY <1>1, InBefore
    <3>2. ~\E i \in Nat : i < 0 \/ i < MAX - 1
      BY <1>4
    <3> QED BY <3>1, <3>2
  <2>2. nvm[s].count = 0 /\ EnabledBefore(s, good, 0) = {} /\ Cardinality({}) = 0
    BY <1>1, <1>2, <2>1, FS_EmptySet DEF EnabledBefore
  <2>3. 0 % SPAD_ROW_SIZE = 0
    BY SpadAssumption
  <2> QED BY <1>3, <1>4, <2>2, <2>3
<1>5. CASE MAX # 0
  <2>1. MAX - 1 \in Nat
    BY <1>1, <1>5
  <2>2. PICK m \in 0 .. MAX - 1 : Cardinality(EnabledBefore(s, good, m)) = nvm[s].count
    BY <1>1, <1>2, <2>1, CountReached
  <2>3. m \in 0 .. MAX /\ m < MAX
    BY <1>1
  <2> QED BY <1>3, <2>2, <2>3
<1> QED BY <1>4, <1>5

-----------------------------------------------------------------------------
(* The choice of the SPADs and what can go wrong without a fault.           *)

(* The SPAD map register is as ST left it until a chosen map is written, of *)
(* which the driver has it in hand before.                                  *)
PendingInv ==
    InConfig /\ result = "none" /\ Done = 5 /\ Head(todo).op = "write" =>
        Head(todo).val \in MapsOf(Now)
SpadInv ==
    \A s \in Sensors :
        IF "spads" \in sensor[s].config THEN sensor[s].spads \in MapsOf(s)
                                       ELSE sensor[s].spads = nvm[s].good

(* Whoever is spoken to hears: it is awake, has booted and still has, or    *)
(* has by now, the address.                                                 *)
WokenInv ==
    ~InConfig /\ result = "none" =>
        /\ Len(todo) >= 1 => sensor[Order[turn]].addr = DefaultAddress
        /\ Len(todo) <= 2 => sensor[Order[turn]].awake
        /\ Len(todo) <= 1 => sensor[Order[turn]].booted
HearInv ==
    \A j \in Index : /\ j < turn => sensor[Order[j]].booted
                     /\ turn < j => sensor[Order[j]].addr = DefaultAddress

CauseInv == PendingInv /\ SpadInv /\ WokenInv /\ HearInv /\ FailsForCause

LEMMA MapsStay ==
    ASSUME nvm' = nvm
    PROVE  \A s \in Sensors :
               MapsOf(s)' = MapsOf(s) /\ (SpadsSuffice(s)' <=> SpadsSuffice(s))
BY DEF MapsOf, SpadsSuffice, spad_map, EnabledBefore, Before, Offset

LEMMA Hears ==
    ASSUME IInv, HearInv, WokenInv, result = "none",
           InConfig => Done > 0,
           ~InConfig => Len(todo) \in {1, 2} /\ sensor[Current].booted
    PROVE  Current \in Hearing
<1>1. Current \in Sensors
  BY CurrentIs DEF IInv
<1>2. CASE ~InConfig
  BY <1>1, <1>2, FreshNow DEF WokenInv, Hearing
<1>3. CASE InConfig
  <2>1. slave = Address[Now] /\ Now = Current /\ turn - Len(Order) \in Index
    BY <1>3, CurrentIs DEF IInv, ConfigInv
  <2>2. turn - Len(Order) < turn
    BY OrderIs DEF IInv, TypeOK
  <2>3. sensor[Now].addr = Address[Now] /\ sensor[Now].booted
    BY <2>1, <2>2 DEF IInv, WakeInv, HearInv, Now
  <2> QED BY <1>1, <2>1, <2>3 DEF Hearing
<1> QED BY <1>2, <1>3

(* No step but the failing ones brings an end without a cause.              *)
LEMMA CauseStays ==
    ASSUME TypeOK, FailsForCause, nvm' = nvm,
           \/ faults' = faults /\ (result' \in {result, "none", "ok"} \/ result = "error")
           \/ faults' = faults + 1
    PROVE  FailsForCause'
<1>1. faults \in Nat
  BY BoundAssumption DEF TypeOK
<1>2. \A s \in Sensors : SpadsSuffice(s)' <=> SpadsSuffice(s)
  BY MapsStay
<1>3. CASE faults' = faults + 1
  BY <1>1, <1>3 DEF FailsForCause
<1>4. CASE faults' = faults /\ (result' \in {result, "none", "ok"} \/ result = "error")
  BY <1>2, <1>4 DEF FailsForCause
<1> QED BY <1>3, <1>4

(* Within a turn.                                                           *)
LEMMA HearStays ==
    ASSUME IInv, HearInv, turn' = turn,
           \A s \in Sensors : sensor[s].booted => sensor'[s].booted,
           \A s \in Sensors : s # Current => sensor'[s].addr = sensor[s].addr
    PROVE  HearInv'
<1> SUFFICES ASSUME NEW j \in Index
             PROVE  /\ j < turn => sensor'[Order[j]].booted
                    /\ turn < j => sensor'[Order[j]].addr = DefaultAddress
  BY DEF HearInv, Index
<1>1. Order[j] \in Sensors /\ j \in Nat /\ turn \in Nat /\ j <= Len(Order)
  BY OrderIs DEF IInv, TypeOK
<1>2. ASSUME turn < j PROVE Order[j] # Current
  <2>1. ~InConfig
    BY <1>1, <1>2, OrderIs DEF InConfig
  <2> QED BY <1>1, <1>2, <2>1, CurrentIs, OrderIs DEF Current, IInv
<1> QED BY <1>1, <1>2 DEF HearInv

LEMMA SpadStays ==
    ASSUME SpadInv, nvm' = nvm,
           \A s \in Sensors :
               \/ /\ sensor'[s].spads = sensor[s].spads
                  /\ "spads" \in sensor'[s].config <=> "spads" \in sensor[s].config
               \/ "spads" \in sensor'[s].config /\ sensor'[s].spads \in MapsOf(s)
    PROVE  SpadInv'
<1> SUFFICES ASSUME NEW s \in Sensors
             PROVE  IF "spads" \in sensor'[s].config THEN sensor'[s].spads \in MapsOf(s)'
                                                    ELSE sensor'[s].spads = nvm'[s].good
  BY DEF SpadInv
<1>1. MapsOf(s)' = MapsOf(s)
  BY MapsStay
<1> QED BY <1>1 DEF SpadInv

(* Nothing is pending but after the choice.                                 *)
LEMMA NothingPends ==
    ASSUME IInv, result = "none", todo # <<>>, Proceed, nvm' = nvm
    PROVE  PendingInv'
<1> SUFFICES ASSUME InConfig', Done' = 5, Head(todo').op = "write" PROVE FALSE
  BY DEF PendingInv
<1>1. turn' = turn /\ todo' = Tail(todo)
  BY DEF Proceed
<1>2. InConfig /\ Now' = Now /\ Now \in Sensors
  BY <1>1, CurrentIs DEF InConfig, Now, IInv
<1>3. PICK S : Tail(todo) \in Seq(S)
  BY HeadIs DEF IInv
<1>4. /\ Len(todo) \in Nat /\ Len(todo) > 0
      /\ Len(Tail(todo)) = Len(todo) - 1
      /\ \A i \in DOMAIN Tail(todo) :
             i + 1 \in DOMAIN todo /\ Tail(todo)[i] = todo[i + 1]
  BY HeadIs DEF IInv
<1>5. Len(vl53l0x_init_config(Now)) \in {21, 26}
  BY <1>2, ConfigLength
<1>6. Done = 4 /\ Len(Tail(todo)) > 0
  <2> DEFINE p == Len(vl53l0x_init_config(Now))
  <2>1. Done' = p - Len(todo') /\ Done = p - Len(todo)
    BY <1>2 DEF Done
  <2>2. p \in {21, 26} /\ Len(todo') = Len(todo) - 1
    BY <1>1, <1>4, <1>5
  <2> HIDE DEF p
  <2>3. Len(todo) = p - 4
    BY <1>4, <2>1, <2>2
  <2> QED BY <1>4, <2>1, <2>2, <2>3
<1>7. Head(todo') = Tail(todo)[1] /\ 1 \in DOMAIN Tail(todo)
  <2> DEFINE r == Tail(todo)
  <2>1. r \in Seq(S) /\ Len(r) > 0
    BY <1>3, <1>6
  <2> HIDE DEF r
  <2>2. Head(r) = r[1] /\ 1 \in DOMAIN r
    BY <2>1
  <2> QED BY <1>1, <2>2 DEF r
<1>8. Head(todo') = todo[2] /\ 2 \in DOMAIN todo
  BY <1>4, <1>7
<1>9. todo[2] = vl53l0x_init_config(Now)[6]
  <2>1. todo[2] = vl53l0x_init_config(Now)[Done + 2]
    BY <1>2, <1>6, <1>8 DEF IInv, ConfigInv
  <2> QED BY <1>6, <2>1
<1>10. vl53l0x_init_config(Now)[6] = [op |-> "spads"]
  BY <1>2, ConfigIs
<1> QED BY <1>8, <1>9, <1>10

(* The steps of a turn that reach no sensor.                                *)
Still == sensor' = sensor /\ nvm' = nvm /\ turn' = turn

LEMMA StillStays ==
    ASSUME IInv, CauseInv, Still
    PROVE  SpadInv' /\ HearInv'
<1>1. SpadInv'
  BY SpadStays DEF CauseInv, Still
<1> QED BY <1>1, HearStays DEF CauseInv, Still

LEMMA ReadIdCauses == ASSUME IInv, CauseInv, DoReadId PROVE CauseInv'
<1>1. At("id") /\ Still
      /\ \/ Proceed /\ faults' = faults /\ Hearing # {}
         \/ GiveUp /\ faults' = faults + 1
         \/ /\ GiveUp /\ Hearing = {}
            /\ \A s \in Sensors : sensor[s].awake => sensor[s].booted
  BY DEF DoReadId, Success, Fault, Still, Proceed, GiveUp
<1>2. ~InConfig
  <2> SUFFICES ASSUME InConfig PROVE FALSE
    OBVIOUS
  <2>1. Places(Now, Done, Head(todo)) /\ Head(todo).op = "id"
    BY <1>1, AtIs
  <2> QED BY <2>1 DEF Places
<1>3. result = "none" /\ todo # <<>> /\ Len(todo) = 2
  BY <1>1, <1>2, AtIs
<1>4. /\ Current \in Sensors /\ Current = Order[turn] /\ Hearing \subseteq {Current}
      /\ sensor[Current].awake /\ sensor[Current].addr = DefaultAddress
  BY <1>2, <1>3, FreshNow, OneHears DEF CauseInv, WokenInv, IInv
<1>5. SpadInv' /\ HearInv'
  BY <1>1, StillStays
<1>6. ~InConfig' /\ PendingInv'
  BY <1>1, <1>2 DEF InConfig, PendingInv, Still
<1>7. CASE Proceed /\ faults' = faults /\ Hearing # {}
  <2>1. sensor[Current].booted
    BY <1>4, <1>7 DEF Hearing
  <2>2. WokenInv'
    BY <1>1, <1>3, <1>4, <2>1 DEF WokenInv, Still
  <2>3. FailsForCause'
    BY <1>1, <1>7, CauseStays DEF CauseInv, IInv, Still, Proceed
  <2> QED BY <1>5, <1>6, <2>2, <2>3 DEF CauseInv
<1>8. CASE GiveUp /\ faults' = faults + 1
  <2>1. WokenInv' /\ FailsForCause'
    BY <1>1, <1>8, CauseStays DEF CauseInv, IInv, Still, GiveUp, WokenInv
  <2> QED BY <1>5, <1>6, <2>1 DEF CauseInv
<1>9. CASE /\ GiveUp /\ Hearing = {}
           /\ \A s \in Sensors : sensor[s].awake => sensor[s].booted
  <2>1. sensor[Current].booted
    BY <1>4, <1>9
  <2>2. Current \in Hearing
    BY <1>2, <1>3, <2>1, Hears DEF CauseInv
  <2> QED BY <1>9, <2>2
<1> QED BY <1>1, <1>7, <1>8, <1>9

(* A transfer of the configuration that reaches its sensor goes on, or has  *)
(* failed.                                                                  *)
LEMMA StillCauses ==
    ASSUME IInv, CauseInv, Still, InConfig, result = "none", todo # <<>>,
           (Proceed /\ faults' = faults) \/ (GiveUp /\ faults' = faults + 1)
    PROVE  CauseInv'
<1>1. SpadInv' /\ HearInv'
  BY StillStays
<1>2. WokenInv'
  BY DEF WokenInv, InConfig, Still
<1>3. FailsForCause'
  BY CauseStays DEF CauseInv, IInv, Still, Proceed
<1>4. PendingInv'
  <2>1. CASE Proceed
    BY <2>1, NothingPends DEF Still
  <2>2. CASE GiveUp
    BY <2>2 DEF PendingInv, GiveUp
  <2> QED BY <2>1, <2>2
<1> QED BY <1>1, <1>2, <1>3, <1>4 DEF CauseInv

LEMMA SelectCauses == ASSUME IInv, CauseInv, DoSelect PROVE CauseInv'
<1>1. At("select") /\ Proceed /\ Still /\ faults' = faults
  BY DEF DoSelect, Proceed, Still, bounds
<1>2. InConfig /\ result = "none" /\ todo # <<>>
  BY <1>1, AtIs
<1> QED BY <1>1, <1>2, StillCauses

LEMMA PinCauses == ASSUME IInv, CauseInv, DoPin PROVE CauseInv'
<1>1. At("pin") /\ Proceed /\ Still /\ faults' = faults
  BY DEF DoPin, Proceed, Still, bounds
<1>2. InConfig /\ result = "none" /\ todo # <<>>
  BY <1>1, AtIs
<1> QED BY <1>1, <1>2, StillCauses

LEMMA WaitCauses ==
    ASSUME IInv, CauseInv, DoWaitStrobe \/ DoWaitInterrupt
    PROVE  CauseInv'
<1>1. PICK op \in {"strobe", "interrupt"} :
         At(op) /\ Still
         /\ \/ Proceed /\ faults' = faults
            \/ GiveUp /\ faults' = faults + 1
            \/ GiveUp /\ Hearing = {}
  BY DEF DoWaitStrobe, DoWaitInterrupt, DoWait, Success, Fault, Still, Proceed, GiveUp
<1>2. InConfig /\ result = "none" /\ todo # <<>>
  BY <1>1, AtIs
<1>3. Done > 0
  <2>1. Places(Now, Done, Head(todo)) /\ Head(todo).op = op
    BY <1>1, <1>2, AtIs
  <2> QED BY <1>1, <2>1 DEF Places
<1>4. Hearing # {}
  BY <1>2, <1>3, Hears DEF CauseInv
<1> QED BY <1>1, <1>2, <1>4, StillCauses

LEMMA SpadsCauses == ASSUME IInv, CauseInv, DoSpads PROVE CauseInv'
<1>1. At("spads") /\ Still
      /\ \/ /\ faults' = faults
            /\ \E s \in Hearing :
                 LET maps == spad_map(s, i2c_read_map(sensor[s].spads))
                 IN  \/ maps = {} /\ GiveUp
                     \/ /\ result' = result
                        /\ \E map \in maps : todo' = Write("spads", map) \o Tail(todo)
         \/ GiveUp /\ Hearing = {}
         \/ GiveUp /\ faults' = faults + 1
  BY DEF DoSpads, Fault, Still, GiveUp
<1>2. InConfig /\ result = "none" /\ todo # <<>>
  BY <1>1, AtIs
<1>3. Done = 5
  <2>1. Places(Now, Done, Head(todo)) /\ Head(todo).op = "spads"
    BY <1>1, <1>2, AtIs
  <2> QED BY <2>1 DEF Places
<1>4. Hearing = {Now} /\ Now \in Sensors
  <2>1. Current \in Hearing /\ Now = Current /\ Now \in Sensors
    BY <1>2, <1>3, Hears, CurrentIs DEF CauseInv, IInv
  <2>2. slave = Address[Now]
    BY <1>2, <1>3 DEF IInv, ConfigInv
  <2> QED BY <1>2, <2>1, <2>2, OneHears DEF IInv
<1>5. spad_map(Now, i2c_read_map(sensor[Now].spads)) = MapsOf(Now)
  <2>1. Configuring(sensor[Now], 5)
    BY <1>2, <1>3 DEF IInv, NowInv
  <2>2. "spads" \notin sensor[Now].config
    BY <2>1 DEF Configuring, ConfigAfter
  <2>3. sensor[Now].spads = nvm[Now].good
    BY <1>4, <2>2 DEF CauseInv, SpadInv
  <2> QED BY <2>3 DEF MapsOf
<1>6. \/ GiveUp /\ faults' = faults + 1
      \/ GiveUp /\ faults' = faults /\ MapsOf(Now) = {}
      \/ /\ faults' = faults /\ result' = result
         /\ \E map \in MapsOf(Now) : todo' = Write("spads", map) \o Tail(todo)
  BY <1>1, <1>4, <1>5
<1>7. SpadInv' /\ HearInv'
  BY <1>1, StillStays
<1>8. WokenInv' /\ Now' = Now
  BY <1>1, <1>2 DEF WokenInv, InConfig, Still, Now
<1>9. CASE GiveUp /\ faults' = faults + 1
  BY <1>1, <1>2, <1>9, StillCauses
<1>10. CASE GiveUp /\ faults' = faults /\ MapsOf(Now) = {}
  <2>1. PendingInv'
    BY <1>10 DEF PendingInv, GiveUp
  <2>2. ~SpadsSuffice(Now)
    BY <1>4, <1>10, MapsExist DEF IInv, TypeOK
  <2>3. ~SpadsSuffice(Now)'
    BY <1>1, <1>4, <1>8, <2>2, MapsStay DEF Still
  <2>4. FailsForCause'
    BY <1>4, <1>8, <2>3 DEF FailsForCause
  <2> QED BY <1>7, <1>8, <2>1, <2>4 DEF CauseInv
<1>11. ASSUME faults' = faults, result' = result, NEW map \in MapsOf(Now),
              todo' = Write("spads", map) \o Tail(todo)
       PROVE  CauseInv'
  <2> DEFINE w == [op |-> "write", reg |-> "spads", val |-> map]
  <2>1. PICK S : Tail(todo) \in Seq(S)
    BY <1>2, HeadIs DEF IInv
  <2>2. todo' = <<w>> \o Tail(todo)
    BY <1>11 DEF Write
  <2> HIDE DEF w
  <2>3. Head(todo') = w
    BY <2>1, <2>2
  <2>4. Head(todo').val = map
    BY <2>3 DEF w
  <2>5. MapsOf(Now)' = MapsOf(Now)
    BY <1>1, <1>4, <1>8, MapsStay DEF Still
  <2>6. PendingInv'
    BY <2>4, <2>5 DEF PendingInv
  <2>7. FailsForCause'
    BY <1>1, <1>11, CauseStays DEF CauseInv, IInv, Still
  <2> QED BY <1>7, <1>8, <2>6, <2>7 DEF CauseInv
<1> QED BY <1>6, <1>9, <1>10, <1>11

LEMMA EndCauses == ASSUME IInv, CauseInv, Finish \/ GoOn \/ Over PROVE CauseInv'
<1>1. /\ Still /\ todo' = todo /\ faults' = faults /\ result' # "none"
      /\ result' \in {result, "ok"} \/ result = "error"
  BY DEF Finish, GoOn, Over, Still, vars, progress, bounds
<1>2. SpadInv' /\ HearInv'
  BY <1>1, StillStays
<1>3. FailsForCause'
  BY <1>1, CauseStays DEF CauseInv, IInv, Still
<1> QED BY <1>1, <1>2, <1>3 DEF CauseInv, WokenInv, PendingInv

(* The next turn: the sensor whose address turn is over has booted, and the *)
(* next one still is at the default address.                                *)
LEMMA NextTurnCauses == ASSUME IInv, CauseInv, NextTurn PROVE CauseInv'
<1>1. /\ result = "none" /\ result' = "none" /\ Len(todo) = 0 /\ turn < Turns
      /\ turn' = turn + 1 /\ todo' = vl53l0x_init(turn + 1)
      /\ sensor' = sensor /\ nvm' = nvm /\ faults' = faults
  BY DEF NextTurn, bounds
<1>2. turn \in Nat /\ turn >= 1
  BY OrderIs DEF IInv, TypeOK
<1>3. SpadInv'
  BY <1>1, SpadStays DEF CauseInv
<1>4. FailsForCause'
  BY <1>1, CauseStays DEF CauseInv, IInv
<1>5. HearInv'
  <2> SUFFICES ASSUME NEW j \in Index
               PROVE  /\ j < turn + 1 => sensor[Order[j]].booted
                      /\ turn + 1 < j => sensor[Order[j]].addr = DefaultAddress
    BY <1>1 DEF HearInv, Index
  <2>1. j \in Nat /\ j <= Len(Order)
    BY OrderIs
  <2>2. j = turn => sensor[Order[j]].booted
    BY <1>1, <2>1 DEF CauseInv, WokenInv, InConfig
  <2>3. j < turn + 1 => j = turn \/ j < turn
    BY <1>2, <2>1
  <2>4. turn + 1 < j => turn < j
    BY <1>2, <2>1
  <2> QED BY <2>2, <2>3, <2>4 DEF CauseInv, HearInv
<1>6. WokenInv'
  <2> SUFFICES ASSUME turn + 1 <= Len(Order)
               PROVE  /\ sensor[Order[turn + 1]].addr = DefaultAddress
                      /\ ~(Len(todo') <= 2)
    <3>1. InConfig' <=> turn + 1 > Len(Order)
      BY <1>1 DEF InConfig
    <3>2. ~InConfig' => turn + 1 <= Len(Order)
      BY <1>2, <3>1, OrderIs
    <3>3. ~(Len(todo') <= 2) => ~(Len(todo') <= 1)
      <4>1. turn + 1 <= Len(Order) => todo' = vl53l0x_init_address(Order[turn + 1])
        BY <1>1 DEF vl53l0x_init
      <4> QED BY AddressIs DEF HasLength
    <3> QED BY <1>1, <3>2, <3>3 DEF WokenInv
  <2>1. turn + 1 \in Index /\ turn < turn + 1
    BY <1>2, OrderIs
  <2>2. todo' = vl53l0x_init_address(Order[turn + 1])
    BY <1>1 DEF vl53l0x_init
  <2>3. 3 <= Len(todo') /\ Len(todo') \in Nat
    <3> DEFINE p == vl53l0x_init_address(Order[turn + 1])
    <3>1. 3 <= Len(p) /\ \E S : p \in Seq(S)
      BY AddressIs DEF HasLength
    <3> HIDE DEF p
    <3> QED BY <2>2, <3>1 DEF p
  <2> QED BY <2>1, <2>3 DEF CauseInv, HearInv
<1>7. PendingInv'
  <2> SUFFICES ASSUME InConfig' PROVE Done' # 5
    BY DEF PendingInv
  <2>1. ~(turn + 1 <= Len(Order))
    BY <1>1, <1>2, OrderIs DEF InConfig
  <2>2. Now' = Order[(turn + 1) - Len(Order)] /\ todo' = vl53l0x_init_config(Now')
    <3>1. Now' = Order[(turn + 1) - Len(Order)]
      BY <1>1 DEF Now
    <3>2. vl53l0x_init(turn + 1) = vl53l0x_init_config(Order[(turn + 1) - Len(Order)])
      BY <2>1 DEF vl53l0x_init
    <3> QED BY <1>1, <3>1, <3>2
  <2>3. Now' \in Sensors
    <3>1. (turn + 1) - Len(Order) \in Index
      BY <1>1, <1>2, <2>1, OrderIs
    <3> QED BY <2>2, <3>1, OrderIs
  <2>4. Len(vl53l0x_init_config(Now')) \in {21, 26}
    BY <2>3, ConfigLength
  <2>5. Done' = Len(vl53l0x_init_config(Now')) - Len(vl53l0x_init_config(Now'))
    BY <2>2 DEF Done
  <2> QED BY <2>4, <2>5
<1> QED BY <1>3, <1>4, <1>5, <1>6, <1>7 DEF CauseInv

LEMMA WakeCauses == ASSUME IInv, CauseInv, DoWake PROVE CauseInv'
<1>1. At("wake") /\ Proceed /\ nvm' = nvm /\ faults' = faults
      /\ sensor' = [sensor EXCEPT ![Head(todo).s].awake = TRUE]
  BY DEF DoWake, bounds
<1>2. ~InConfig
  <2> SUFFICES ASSUME InConfig PROVE FALSE
    OBVIOUS
  <2>1. Places(Now, Done, Head(todo)) /\ Head(todo).op = "wake"
    BY <1>1, AtIs
  <2> QED BY <2>1 DEF Places
<1>3. result = "none" /\ todo # <<>> /\ Len(todo) = 3 /\ Head(todo).s = Current
  BY <1>1, <1>2, AtIs
<1>4. Current \in Sensors /\ Current = Order[turn]
  BY <1>2, FreshNow
<1>5. \A s \in Sensors :
         /\ sensor'[s].booted = sensor[s].booted /\ sensor'[s].addr = sensor[s].addr
         /\ sensor'[s].spads = sensor[s].spads /\ sensor'[s].config = sensor[s].config
  BY <1>1 DEF IInv, TypeOK, SensorState
<1>6. sensor'[Current].awake
  BY <1>1, <1>3, <1>4 DEF IInv, TypeOK, SensorState
<1>7. turn' = turn /\ result' = "none" /\ Len(todo') = 2 /\ ~InConfig'
  BY <1>1, <1>2, <1>3, HeadIs DEF Proceed, InConfig, IInv
<1>8. SpadInv'
  BY <1>1, <1>5, SpadStays DEF CauseInv
<1>9. HearInv'
  BY <1>5, <1>7, HearStays DEF CauseInv
<1>10. WokenInv'
  BY <1>2, <1>3, <1>4, <1>5, <1>6, <1>7 DEF CauseInv, WokenInv
<1>11. FailsForCause'
  BY <1>1, <1>7, CauseStays DEF CauseInv, IInv
<1> QED BY <1>7, <1>8, <1>9, <1>10, <1>11 DEF CauseInv, PendingInv

(* What a write changes of what matters here.                               *)
LEMMA TakesSpads ==
    ASSUME NEW r \in SensorState, NEW reg, NEW v,
           reg = "address" \/ \E k \in Nat : Writes(k, reg, v)
    PROVE  LET t == Takes(r, reg, v)
           IN  /\ t.booted = r.booted /\ t.awake = r.awake
               /\ IF reg = "spads" THEN t.spads = v /\ "spads" \in t.config
                  ELSE t.spads = r.spads /\ ("spads" \in t.config <=> "spads" \in r.config)
<1> DEFINE t == Takes(r, reg, v)
<1>1. \/ reg \in {"address", "strobe", "spads", "sequence", "clear", "sysrange"}
      \/ reg = "table" /\ v # "spads"
  BY DEF Writes
<1>2. CASE reg = "address"
  <2>1. t = [r EXCEPT !.addr = v]
    BY <1>2, TakesIs, Zenon
  <2> QED BY <1>2, <2>1 DEF SensorState
<1>3. CASE reg = "strobe"
  <2>1. t = [r EXCEPT !.strobe = v]
    BY <1>3, TakesIs, Zenon
  <2> QED BY <1>3, <2>1 DEF SensorState
<1>4. CASE reg = "sequence"
  <2>1. t = [r EXCEPT !.seq = v]
    BY <1>4, TakesIs, Zenon
  <2> QED BY <1>4, <2>1 DEF SensorState
<1>5. CASE reg = "clear"
  <2>1. t = [r EXCEPT !.status = FALSE]
    BY <1>5, TakesIs, Zenon
  <2> QED BY <1>5, <2>1 DEF SensorState
<1>6. CASE reg = "sysrange"
  <2>1. t = [r EXCEPT !.busy = (v = "start")]
    BY <1>6, TakesIs, Zenon
  <2> QED BY <1>6, <2>1 DEF SensorState
<1>7. CASE reg = "table" /\ v # "spads"
  <2>1. t = [r EXCEPT !.config = @ \union {v}]
    BY <1>7, TakesIs, Zenon
  <2> QED BY <1>7, <2>1 DEF SensorState
<1>8. CASE reg = "spads"
  <2>1. t = [r EXCEPT !.spads = v, !.config = @ \union {"spads"}]
    BY <1>8, TakesIs, Zenon
  <2> QED BY <1>8, <2>1 DEF SensorState
<1> QED BY <1>1, <1>2, <1>3, <1>4, <1>5, <1>6, <1>7, <1>8

LEMMA WriteCauses == ASSUME IInv, CauseInv, DoWrite PROVE CauseInv'
<1> DEFINE reg == Head(todo).reg
           v == Head(todo).val
           t == Takes(sensor[Current], reg, v)
           effect == [s \in Sensors |->
               IF s \in Hearing THEN Takes(sensor[s], Head(todo).reg, Head(todo).val)
                                ELSE sensor[s]]
<1>1. At("write") /\ nvm' = nvm
      /\ \/ sensor' = effect /\ faults' = faults /\ Proceed
         \/ Hearing = {} /\ GiveUp
         \/ sensor' \in {sensor, effect} /\ faults' = faults + 1 /\ GiveUp
  BY DEF DoWrite, Become, Success, Fault
<1>2. result = "none" /\ todo # <<>> /\ turn' = turn
  BY <1>1, AtIs DEF Proceed, GiveUp
<1>3. /\ Current \in Sensors /\ sensor[Current] \in SensorState
      /\ \A s \in Hearing : s = Current
      /\ InConfig => Now = Current /\ Done \in Nat /\ Done > 0 /\ Writes(Done, reg, v)
      /\ ~InConfig => Len(todo) = 1 /\ reg = "address" /\ Current = Order[turn]
  BY <1>1, WriteReaches, AtIs, FreshNow DEF IInv, TypeOK
<1>4. Current \in Hearing
  <2>1. ASSUME ~InConfig PROVE sensor[Current].booted
    <3>1. Len(todo) = 1 /\ Current = Order[turn]
      BY <1>3, <2>1
    <3>2. sensor[Order[turn]].booted
      BY <1>2, <2>1, <3>1 DEF CauseInv, WokenInv
    <3> QED BY <3>1, <3>2
  <2> QED BY <1>2, <1>3, <2>1, Hears DEF CauseInv
<1>5. /\ t.booted = sensor[Current].booted /\ t.awake = sensor[Current].awake
      /\ IF reg = "spads" THEN t.spads = v /\ "spads" \in t.config
         ELSE t.spads = sensor[Current].spads
              /\ ("spads" \in t.config <=> "spads" \in sensor[Current].config)
  BY <1>3, TakesSpads
<1>6. reg = "spads" => v \in MapsOf(Current)
  <2> SUFFICES ASSUME reg = "spads" PROVE v \in MapsOf(Current)
    OBVIOUS
  <2>1. InConfig /\ Done = 5 /\ Now = Current
    BY <1>3 DEF Writes
  <2> QED BY <1>1, <1>2, <2>1 DEF CauseInv, PendingInv, At
<1>7. \A s \in Sensors : effect[s] = IF s = Current THEN t ELSE sensor[s]
  BY <1>3, <1>4
<1>8. \A s \in Sensors : sensor'[s] = sensor[s] \/ (s = Current /\ sensor'[s] = t)
  BY <1>1, <1>4, <1>7
<1> HIDE DEF t, effect, reg, v
<1>9. SpadInv'
  BY <1>1, <1>5, <1>6, <1>8, SpadStays DEF CauseInv
<1>10. HearInv'
  BY <1>2, <1>5, <1>8, HearStays DEF CauseInv
<1>11. (InConfig' <=> InConfig) /\ Current' = Current
  BY <1>2 DEF InConfig, Current, Now
<1>12. CASE GiveUp
  <2>1. faults' = faults + 1
    BY <1>1, <1>2, <1>4, <1>12 DEF Proceed, GiveUp
  <2>2. FailsForCause'
    BY <1>1, <2>1, CauseStays DEF CauseInv, IInv
  <2> QED BY <1>9, <1>10, <1>12, <2>2 DEF CauseInv, WokenInv, PendingInv, GiveUp
<1>13. CASE Proceed /\ faults' = faults
  <2>1. FailsForCause'
    BY <1>1, <1>13, CauseStays DEF CauseInv, IInv, Proceed
  <2>2. PendingInv'
    BY <1>1, <1>2, <1>13, NothingPends
  <2>3. WokenInv'
    <3> SUFFICES ASSUME ~InConfig
                 PROVE  /\ ~(Len(todo') >= 1)
                        /\ sensor'[Current].awake /\ sensor'[Current].booted
      BY <1>2, <1>3, <1>11 DEF WokenInv
    <3>1. Len(todo') = 0
      BY <1>2, <1>3, <1>13, HeadIs DEF IInv, Proceed
    <3>2. sensor[Current].awake /\ sensor[Current].booted
      <4>1. Len(todo) = 1 /\ Current = Order[turn]
        BY <1>3
      <4>2. sensor[Order[turn]].awake /\ sensor[Order[turn]].booted
        BY <1>2, <4>1 DEF CauseInv, WokenInv
      <4> QED BY <4>1, <4>2
    <3>3. sensor'[Current] = sensor[Current] \/ sensor'[Current] = t
      BY <1>3, <1>8
    <3>4. sensor'[Current].awake /\ sensor'[Current].booted
      BY <1>5, <3>2, <3>3
    <3> QED BY <3>1, <3>4
  <2> QED BY <1>9, <1>10, <2>1, <2>2, <2>3 DEF CauseInv
<1> QED BY <1>1, <1>12, <1>13

(* A sensor boots, has its memory ready or has calibrated.                  *)
LEMMA SensorCauses ==
    ASSUME IInv, CauseInv, NEW s \in Sensors, SensorStep(s)
    PROVE  CauseInv'
<1>1. UNCHANGED <<progress, bounds>>
      /\ \/ sensor' = [sensor EXCEPT ![s].booted = TRUE]
         \/ sensor' = [sensor EXCEPT ![s].strobe = "ready"]
         \/ sensor' = [sensor EXCEPT ![s] = Measured(sensor[s])]
  BY DEF SensorStep, Boot, NvmReady, Calibrated, Become
<1>2. sensor \in [Sensors -> SensorState]
  BY DEF IInv, TypeOK
<1>3. \A r \in SensorState :
         LET m == Measured(r)
         IN  /\ m.awake = r.awake /\ m.booted = r.booted /\ m.addr = r.addr
             /\ m.spads = r.spads /\ m.config = r.config
  BY DEF Measured, SensorState
<1>4. \A u \in Sensors :
         /\ sensor[u].booted => sensor'[u].booted
         /\ sensor[u].awake => sensor'[u].awake
         /\ sensor'[u].addr = sensor[u].addr
         /\ sensor'[u].spads = sensor[u].spads /\ sensor'[u].config = sensor[u].config
  <2>1. CASE sensor' = [sensor EXCEPT ![s].booted = TRUE]
    BY <1>2, <2>1 DEF SensorState
  <2>2. CASE sensor' = [sensor EXCEPT ![s].strobe = "ready"]
    BY <1>2, <2>2 DEF SensorState
  <2>3. CASE sensor' = [sensor EXCEPT ![s] = Measured(sensor[s])]
    BY <1>2, <1>3, <2>3
  <2> QED BY <1>1, <2>1, <2>2, <2>3
<1>5. /\ turn' = turn /\ todo' = todo /\ result' = result /\ nvm' = nvm /\ faults' = faults
      /\ (InConfig' <=> InConfig) /\ Now' = Now /\ Done' = Done
  BY <1>1 DEF progress, bounds, InConfig, Now, Done
<1>6. SpadInv' /\ HearInv'
  BY <1>4, <1>5, SpadStays, HearStays DEF CauseInv
<1>7. FailsForCause'
  BY <1>5, CauseStays DEF CauseInv, IInv
<1>8. WokenInv'
  <2>1. ~InConfig => Order[turn] \in Sensors
    BY CurrentIs DEF IInv, Current
  <2> QED BY <1>4, <1>5, <2>1 DEF CauseInv, WokenInv
<1>9. PendingInv'
  <2>1. InConfig => MapsOf(Now)' = MapsOf(Now)
    BY <1>5, MapsStay, CurrentIs DEF IInv
  <2> QED BY <1>5, <2>1 DEF CauseInv, PendingInv
<1> QED BY <1>6, <1>7, <1>8, <1>9 DEF CauseInv

LEMMA RestartCauses == Restarted => CauseInv
<1> SUFFICES ASSUME Restarted PROVE CauseInv
  OBVIOUS
<1> USE DEF Restarted
<1>1. \A s \in Sensors : sensor[s].config = {} /\ sensor[s].addr = DefaultAddress
                          /\ sensor[s].spads = nvm[s].good
  BY DEF Asleep
<1>2. ~InConfig /\ todo = vl53l0x_init_address(Order[1])
  BY OrderIs DEF InConfig, vl53l0x_init
<1>3. 3 <= Len(todo) /\ Len(todo) \in Nat
  <2> DEFINE p == vl53l0x_init_address(Order[1])
  <2>1. 3 <= Len(p) /\ \E S : p \in Seq(S)
    BY AddressIs DEF HasLength
  <2> HIDE DEF p
  <2> QED BY <1>2, <2>1 DEF p
<1>4. WokenInv
  BY <1>1, <1>3, OrderIs DEF WokenInv
<1>5. HearInv
  BY <1>1, OrderIs DEF HearInv
<1> QED BY <1>1, <1>2, <1>4, <1>5 DEF CauseInv, SpadInv, PendingInv, FailsForCause

(* Nothing goes wrong without a cause.                                      *)
THEOREM CauseInvariant == Spec => []CauseInv
<1>1. Init => CauseInv
  BY InitIs, RestartCauses
<1>2. IInv /\ CauseInv /\ [Next]_vars => CauseInv'
  <2> SUFFICES ASSUME IInv, CauseInv, [Next]_vars PROVE CauseInv'
    OBVIOUS
  <2>1. CASE DriverStep
    BY <2>1, WakeCauses, SelectCauses, ReadIdCauses, WriteCauses, SpadsCauses, WaitCauses,
       PinCauses, NextTurnCauses, EndCauses DEF DriverStep
  <2>2. CASE GoOn \/ Over
    BY <2>2, EndCauses
  <2>3. CASE Reset
    <3>1. Restarted' => CauseInv'
      BY RestartCauses, PTL
    <3> QED BY <2>3, <3>1, ResetIs
  <2>4. CASE \E s \in Sensors : SensorStep(s)
    BY <2>4, SensorCauses
  <2>5. CASE UNCHANGED vars
    <3>1. /\ sensor' = sensor /\ turn' = turn /\ todo' = todo
          /\ result' = result /\ faults' = faults /\ nvm' = nvm
      BY <2>5 DEF vars, progress, bounds
    <3>2. Done' = Done /\ Now' = Now /\ (InConfig' <=> InConfig) /\ Index' = Index
      BY <3>1 DEF Done, Now, InConfig, Index
    <3>3. FailsForCause'
      BY <3>1, CauseStays DEF CauseInv, IInv
    <3>4. SpadInv' /\ HearInv'
      BY <3>1, StillStays DEF Still
    <3>5. PendingInv' /\ WokenInv'
      <4>1. InConfig => MapsOf(Now)' = MapsOf(Now)
        BY <3>1, <3>2, MapsStay, CurrentIs DEF IInv
      <4> QED BY <3>1, <3>2, <4>1 DEF CauseInv, PendingInv, WokenInv
    <3> QED BY <3>3, <3>4, <3>5 DEF CauseInv
  <2> QED BY <2>1, <2>2, <2>3, <2>4, <2>5 DEF Next
<1> QED BY <1>1, <1>2, Invariant, PTL DEF Spec

(* After an OK every sensor has as many SPADs enabled as its memory says,   *)
(* within the area and of the type (vl53l0x.c:262-305); and if no transfer  *)
(* fails vl53l0x_init does only for want of SPADs.                          *)
THEOREM Choice == Spec => []SpadChoice
<1>1. IInv /\ CauseInv => SpadsAsNvm
  <2> SUFFICES ASSUME IInv, CauseInv, result = "ok", NEW s \in Sensors
               PROVE  /\ Cardinality(sensor[s].spads) = nvm[s].count
                      /\ sensor[s].spads \subseteq i2c_read_map(nvm[s].good)
                      /\ \A i \in sensor[s].spads :
                            /\ i < SPAD_MAX_COUNT
                            /\ nvm[s].aperture => SPAD_APERTURE_START_INDEX <= i
    BY DEF SpadsAsNvm
  <2>1. sensor[s].config = Table
    BY ConfiguredIs DEF OkMeansConfigured
  <2>2. sensor[s].spads \in MapsOf(s)
    BY <2>1 DEF CauseInv, SpadInv, Table
  <2> QED BY <2>2, MapsAre DEF IInv, TypeOK
<1>2. IInv /\ CauseInv => SpadChoice
  BY <1>1 DEF SpadChoice, CauseInv
<1> QED BY <1>2, Invariant, CauseInvariant, PTL

=============================================================================
