------------------------- MODULE RangeSensorsProofs -------------------------
(***************************************************************************)
(* The measurements of drivers/vl53l0x.c, for any number of sensors, any   *)
(* ranges and any number of failing transfers: what vl53l0x_read_range_    *)
(* multiple returns as fresh is one new round of measurements, and until a *)
(* transfer fails all that vl53l0x.h says of it holds.                     *)
(*                                                                         *)
(* IInv says where a pass over the sensors has got to; LeadInv how far the *)
(* running round is ahead of the one that was delivered last; PromiseInv   *)
(* what else holds as long as no transfer has failed.  All three are about *)
(* applications that use one function each, so the theorems assume         *)
(* NotMixed; in one that mixes them the driver's sanity check fails.       *)
(*                                                                         *)
(* The end is about app/enemy.c, on top of these: the decision is sound    *)
(* for every range a sensor can hold, and it is about what one round saw.  *)
(* Only there EnemyAssumption is used.                                     *)
(***************************************************************************)
EXTENDS Enemy, TLAPS

(* The application polls all sensors, reads single ones, or only starts.     *)
Polls  == program = {"multiple"}
Single == program = {"single"}
Starts == program = {"start"}

(* A sensor that neither measures nor holds a result.                       *)
Spent(s) == ~sensor[s].busy /\ ~sensor[s].done

(* The round the middle sensor is in, and the number after a number.        *)
Round == sensor[Mid].started
Succ(n) == (n + 1) % Rounds

(* The driver reads the results of a round, or is done with it.             *)
Collecting == pc \in {"poll", "read", "clear", "clear_again"}
Waiting == pc \in {"idle", "block", "check", "sanity"}

(* What each kind of program calls, and how its calls can end.              *)
PollsUse ==
    /\ reply \notin {"single", "started"}
    /\ after = "single" => pc = "idle" /\ status = "NOT_STARTED"
    /\ after # "started"
    /\ status = "NOT_STARTED" => pc \in {"idle", "begin"} /\ reply = "none"
    /\ pc = "begin" => (status = "NOT_STARTED" <=> after = "block")
    /\ pc \in {"check", "sanity"} \/ Collecting => after = "fresh"
    /\ pc = "block" => after = "block"
    /\ pc \notin {"idle", "assert"} => reply = "none"
SingleUse ==
    /\ after = "single" /\ (pc \in {"idle", "start"} \/ Collecting)
    /\ reply \in {"none", "single", "error"} /\ (pc # "idle" => reply = "none")
StartsUse ==
    /\ pc \in {"idle", "begin", "start"} /\ (pc # "idle" => after = "started")
    /\ reply \in {"none", "error", "started"}
UseInv ==
    /\ Polls \/ Single \/ Starts
    /\ (Polls => PollsUse) /\ (Single => SingleUse) /\ (Starts => StartsUse)

(* A result is of the round all sensors are in that measure or have one.    *)
ResultInv ==
    \A s \in Sensors :
        /\ sensor[s].done => ~sensor[s].busy /\ sensor[s].reg.n = Round
        /\ ~Spent(s) => sensor[s].started = Round

(* Where a pass over the sensors has got to: it collects all the results of *)
(* a round, and only then starts the next.                                  *)
AtRest == \A s \in Sensors : Spent(s) /\ sensor[s].started = Round
Untouched == status = "NOT_STARTED" => ~ifg /\ AtRest
Starting ==
    pc = "start" =>
        /\ \A j \in 1 .. k - 1 : sensor[Order[j]].started = Round
        /\ \A j \in k .. Last :
              /\ Spent(Order[j])
              /\ Round = IF k = 1 THEN sensor[Order[j]].started
                                  ELSE Succ(sensor[Order[j]].started)
Checking ==
    /\ pc = "check" => k >= 2 /\ \A j \in 2 .. k - 1 : sensor[Order[j]].done
    /\ pc = "sanity" => k = 1 /\ \A j \in 2 .. Last : sensor[Order[j]].done
Emptying ==
    Collecting =>
        /\ \A s \in Sensors : sensor[s].started = Round
        /\ \A j \in 1 .. k - 1 : Spent(Order[j])
        /\ IF pc = "clear_again" THEN Spent(S) ELSE sensor[S].done
        /\ \A j \in k + 1 .. Last : sensor[Order[j]].done
PassInv ==
    /\ Untouched /\ (pc = "begin" => AtRest)
    /\ pc \in {"sanity", "begin"} \/ Collecting => status # "MEASURING"
    /\ Starting /\ Checking /\ Emptying

(* ... and what it has collected.                                           *)
PictureInv ==
    /\ Collecting =>
          \A j \in 1 .. (IF pc \in {"clear", "clear_again"} THEN k ELSE k - 1) :
              latest[Order[j]].n = Round
    /\ pc = "begin" /\ after = "fresh" => \A s \in Sensors : latest[s].n = Round
    /\ pc = "start" /\ after = "fresh" =>
          \A s \in Sensors : Round = IF k = 1 THEN latest[s].n ELSE Succ(latest[s].n)
    /\ reply = "fresh" => pc = "idle" /\ \A s \in Sensors : latest[s].n = latest[Mid].n

RoundInv == Polls => ResultInv /\ PassInv /\ PictureInv
IInv == TypeOK /\ UseInv /\ RoundInv

-----------------------------------------------------------------------------
(* The constants, numbers and records.                                      *)

LEMMA LastIs == Last \in Nat \ {0} /\ DOMAIN Order = 1 .. Last
BY OrderAssumption DEF Last

(* Every sensor has its place in Order, and one only.                       *)
LEMMA OrderFacts ==
    /\ Mid \in Sensors
    /\ \A j \in 1 .. Last : Order[j] \in Sensors
    /\ \A s \in Sensors : \E j \in 1 .. Last : s = Order[j]
    /\ \A i, j \in 1 .. Last : Order[i] = Order[j] => i = j
BY OrderAssumption DEF Last, Sensors, Mid

LEMMA SuccIs ==
    ASSUME NEW n \in 0 .. Rounds - 1
    PROVE  /\ Succ(n) = IF n + 1 = Rounds THEN 0 ELSE n + 1
           /\ (n + 1) % Rounds = Succ(n)
           /\ Succ(n) \in 0 .. Rounds - 1 /\ Succ(n) # n
<1>1. Rounds \in Nat /\ Rounds > 1
  BY BoundsAssumption
<1>2. (n + 1) % Rounds = IF n + 1 = Rounds THEN 0 ELSE n + 1
  <2>1. CASE n + 1 = Rounds
    BY <1>1, <2>1
  <2>2. CASE n + 1 < Rounds
    BY <1>1, <2>2
  <2> QED BY <1>1, <2>1, <2>2
<1> QED BY <1>1, <1>2 DEF Succ

LEMMA SuccInjective ==
    ASSUME NEW a \in 0 .. Rounds - 1, NEW b \in 0 .. Rounds - 1, Succ(a) = Succ(b)
    PROVE  a = b
BY SuccIs, BoundsAssumption

(* The types of what a sensor and a range hold.                             *)
LEMMA SensorIs ==
    ASSUME TypeOK, NEW s \in Sensors
    PROVE  /\ sensor[s].busy \in BOOLEAN /\ sensor[s].done \in BOOLEAN
           /\ sensor[s].started \in 0 .. Rounds - 1
           /\ sensor[s].reg \in Value
           /\ sensor[s].reg.n \in 0 .. Rounds - 1 /\ sensor[s].reg.mm \in 0 .. UINT16_MAX
           /\ latest[s] \in Value
           /\ latest[s].n \in 0 .. Rounds - 1 /\ latest[s].mm \in 0 .. UINT16_MAX
<1>1. sensor[s] \in SensorState /\ latest[s] \in Value
  BY DEF TypeOK
<1>2. sensor[s].reg \in Value
  BY <1>1 DEF SensorState
<1>3. \A v \in Value : v.n \in 0 .. Rounds - 1 /\ v.mm \in 0 .. UINT16_MAX
  BY DEF Value
<1>4. /\ sensor[s].busy \in BOOLEAN /\ sensor[s].done \in BOOLEAN
      /\ sensor[s].started \in 0 .. Rounds - 1
  BY <1>1 DEF SensorState
<1> QED BY <1>1, <1>2, <1>3, <1>4

LEMMA NormalIs ==
    ASSUME NEW v \in Value
    PROVE  Normal(v).mm # 8191 /\ Normal(v).n = v.n
BY DEF Normal, Value, VL53L0X_OUT_OF_RANGE

LEMMA BytesAreWord ==
    ASSUME NEW h \in 0 .. 255, NEW l \in 0 .. 255
    PROVE  (256 * h) + l \in 0 .. UINT16_MAX
BY DEF UINT16_MAX

(* A range of which one byte is old is still a 16-bit number.               *)
LEMMA TornIs ==
    ASSUME NEW a \in 0 .. UINT16_MAX, NEW b \in 0 .. UINT16_MAX
    PROVE  (256 * (a \div 256)) + (b % 256) \in 0 .. UINT16_MAX
<1>1. UINT16_MAX \in Nat /\ UINT16_MAX = 65535
  BY DEF UINT16_MAX
<1>2. a \in Nat /\ b \in Nat /\ a =< 65535
  <2>1. UINT16_MAX \in Nat
    BY <1>1
  <2>2. a \in Nat /\ b \in Nat /\ a =< UINT16_MAX
    BY <2>1
  <2> QED BY ONLY <1>1, <2>2
<1>3. a \div 256 \in 0 .. 255 /\ b % 256 \in 0 .. 255
  BY ONLY <1>2
<1> QED BY <1>3, BytesAreWord

(* What REG_SYSRANGE_START, REG_SYSTEM_INTERRUPT_CLEAR and the end of a     *)
(* measurement do to the sensors.                                           *)
LEMMA StartedIs ==
    ASSUME TypeOK, k \in 1 .. Last
    PROVE  /\ S \in Sensors
           /\ Started \in [Sensors -> SensorState]
           /\ \A s \in Sensors : s # S => Started[s] = sensor[s]
           /\ Started[S].busy
           /\ Started[S].done = sensor[S].done /\ Started[S].reg = sensor[S].reg
           /\ Started[S].started = Succ(sensor[S].started)
<1>1. S \in Sensors
  BY OrderFacts DEF S
<1>2. sensor[S] \in SensorState
  BY <1>1 DEF TypeOK
<1>3. Started = [sensor EXCEPT ![S] =
          [sensor[S] EXCEPT !.busy = TRUE, !.started = Succ(sensor[S].started)]]
  BY <1>1 DEF Started, Succ, TypeOK, SensorState
<1>4. Succ(sensor[S].started) \in 0 .. Rounds - 1
  <2>1. sensor[S].started \in 0 .. Rounds - 1
    BY <1>1, SensorIs
  <2> QED BY <2>1, SuccIs
<1>5. [sensor[S] EXCEPT !.busy = TRUE, !.started = Succ(sensor[S].started)] \in SensorState
  BY <1>2, <1>4 DEF SensorState
<1> QED BY <1>1, <1>2, <1>3, <1>5 DEF TypeOK, SensorState

LEMMA ClearedIs ==
    ASSUME TypeOK, k \in 1 .. Last
    PROVE  /\ Cleared \in [Sensors -> SensorState]
           /\ \A s \in Sensors : s # S => Cleared[s] = sensor[s]
           /\ Cleared[S].busy = sensor[S].busy
           /\ ~Cleared[S].done /\ Cleared[S].reg = sensor[S].reg
           /\ Cleared[S].started = sensor[S].started
<1>1. S \in Sensors
  BY OrderFacts DEF S
<1>2. sensor[S] \in SensorState
  BY <1>1 DEF TypeOK
<1>3. Cleared = [sensor EXCEPT ![S] = [sensor[S] EXCEPT !.done = FALSE]]
  BY <1>1 DEF Cleared
<1>4. /\ [sensor[S] EXCEPT !.done = FALSE] \in SensorState
      /\ [sensor[S] EXCEPT !.done = FALSE].busy = sensor[S].busy
      /\ ~[sensor[S] EXCEPT !.done = FALSE].done
      /\ [sensor[S] EXCEPT !.done = FALSE].reg = sensor[S].reg
      /\ [sensor[S] EXCEPT !.done = FALSE].started = sensor[S].started
  BY <1>2 DEF SensorState
<1> HIDE DEF S
<1> QED BY <1>1, <1>3, <1>4 DEF TypeOK

LEMMA CompleteIs ==
    ASSUME TypeOK, NEW c \in Sensors, Complete(c)
    PROVE  /\ sensor' \in [Sensors -> SensorState]
           /\ sensor[c].busy
           /\ \A s \in Sensors : s # c => sensor'[s] = sensor[s]
           /\ ~sensor'[c].busy /\ sensor'[c].done
           /\ sensor'[c].reg.n = sensor[c].started
           /\ sensor'[c].started = sensor[c].started
<1>1. PICK mm \in Range :
          sensor' = [sensor EXCEPT ![c].busy = FALSE, ![c].done = TRUE,
                        ![c].reg = [n |-> sensor[c].started, mm |-> mm]]
  BY DEF Complete
<1> DEFINE r == [n |-> sensor[c].started, mm |-> mm]
           x == [sensor[c] EXCEPT !.busy = FALSE, !.done = TRUE, !.reg = r]
<1>2. sensor[c] \in SensorState
  BY DEF TypeOK
<1>3. r \in Value /\ r.n = sensor[c].started
  BY SensorIs, RangeAssumption DEF Value
<1>4. sensor' = [sensor EXCEPT ![c] = x]
  BY <1>1, <1>2 DEF TypeOK
<1> HIDE DEF r
<1>5. x \in SensorState /\ ~x.busy /\ x.done /\ x.reg = r /\ x.started = sensor[c].started
  BY <1>2, <1>3 DEF SensorState
<1> HIDE DEF x
<1> QED BY <1>3, <1>4, <1>5 DEF TypeOK, Complete

-----------------------------------------------------------------------------
(* The type invariant.                                                      *)

(* Every step keeps the types.                                              *)
LEMMA TypeStep ==
    ASSUME TypeOK, [Next]_vars
    PROVE  TypeOK'
<1>1. UINT16_MAX \in Nat
  BY DEF UINT16_MAX
<1> USE LastIs
<1>2. CASE SensorStep
  <2>1. PICK c \in Sensors : Complete(c)
    BY <1>2 DEF SensorStep
  <2>2. sensor' \in [Sensors -> SensorState]
    BY <2>1, CompleteIs
  <2> QED BY <2>1, <2>2 DEF TypeOK, Complete, callVars, runVars
<1>3. CASE Isr
  BY <1>3 DEF TypeOK, Isr, callVars, runVars
<1>4. CASE CallStep
  BY <1>4
     DEF TypeOK, CallStep, CallSingle, CallStart, CallMultiple, At, callVars,
         runVars
<1>5. CASE Begin
  BY <1>5 DEF TypeOK, Begin, At, Return, callVars, runVars
<1>6. CASE Start
  <2>1. delivered' \in [Sensors -> 0 .. Rounds - 1]
    <3>1. [s \in Sensors |-> latest[s].n] \in [Sensors -> 0 .. Rounds - 1]
      BY SensorIs
    <3> QED BY <1>6, <3>1 DEF TypeOK, Start, StartsDone, Return, WriteFails
  <2>2. k \in 1 .. Last
    BY <1>6 DEF TypeOK, Start, At
  <2>3. sensor' \in [Sensors -> SensorState]
    BY <1>6, <2>2, StartedIs DEF TypeOK, Start, WriteFails
  <2>4. faults' \in 0 .. MaxFaults /\ program' \in Programs
    BY <1>6, BoundsAssumption
       DEF TypeOK, Start, WriteFails, Fault, NoFault, runVars
  <2>5. k' \in 1 .. Last
    BY <1>6, <2>2 DEF Start
  <2>6. /\ pc' \in {"idle", "start", "poll", "block"}
        /\ reply' \in {reply, "started", "fresh", "error"}
    BY <1>6 DEF TypeOK, Start, At, StartsDone, Return, WriteFails
  <2>7. UNCHANGED <<ifg, status, latest, own, after>>
    BY <1>6 DEF Start
  <2> QED BY <2>1, <2>3, <2>4, <2>5, <2>6, <2>7 DEF TypeOK
<1>7. CASE Block
  BY <1>7 DEF TypeOK, Block, At, callVars, runVars
<1>8. CASE Check
  BY <1>8, BoundsAssumption
     DEF TypeOK, Check, At, Return, IsDone, IsNotDone, Fault, NoFault, callVars,
         runVars
<1>9. CASE Sanity
  BY <1>9, BoundsAssumption
     DEF TypeOK, Sanity, At, Return, IsDone, IsNotDone, Fault, NoFault,
         callVars, runVars
<1>10. CASE Poll
  BY <1>10, BoundsAssumption
     DEF TypeOK, Poll, At, Return, IsDone, Fault, NoFault, callVars, runVars
<1>11. CASE Read
  <2>1. pc = "read" /\ k \in 1 .. Last /\ S \in Sensors
    BY <1>11, OrderFacts DEF TypeOK, Read, At, S
  <2>2. Torn \in Value /\ Target \in Value /\ sensor[S].reg \in Value
    <3>1. Target \in Value /\ sensor[S].reg \in Value
      BY <2>1, SensorIs DEF TypeOK, Target
    <3>2. Torn \in Value
      BY <2>1, <3>1, SensorIs, TornIs DEF Torn, Value
    <3> QED BY <3>1, <3>2
  <2>3. latest' \in [Sensors -> Value] /\ own' \in Value
    BY <1>11, <2>1, <2>2 DEF TypeOK, Read, SetTarget
  <2> QED BY <1>11, <2>1, <2>3, BoundsAssumption
             DEF TypeOK, Read, Return, Fault, NoFault, callVars, runVars
<1>12. CASE Clear
  <2>1. pc = "clear" /\ k \in 1 .. Last /\ S \in Sensors
    BY <1>12, OrderFacts DEF TypeOK, Clear, At, S
  <2>2. Target \in Value /\ Normal(Target) \in Value
    <3>1. Target \in Value
      BY <2>1, SensorIs DEF TypeOK, Target
    <3>2. VL53L0X_OUT_OF_RANGE \in 0 .. UINT16_MAX
      BY DEF VL53L0X_OUT_OF_RANGE, UINT16_MAX
    <3> QED BY <3>1, <3>2 DEF Normal, Value
  <2>3. latest' \in [Sensors -> Value] /\ own' \in Value
    BY <1>12, <2>1, <2>2 DEF TypeOK, Clear, SetTarget
  <2>4. sensor' \in [Sensors -> SensorState]
    BY <1>12, <2>1, ClearedIs DEF TypeOK, Clear, WriteFails
  <2> QED BY <1>12, <2>1, <2>3, <2>4, BoundsAssumption
             DEF TypeOK, Clear, Return, WriteFails, Fault, NoFault, callVars,
                 runVars
<1>13. CASE ClearAgain
  <2>1. k \in 1 .. Last
    BY <1>13 DEF TypeOK, ClearAgain, At
  <2>2. sensor' \in [Sensors -> SensorState]
    BY <1>13, <2>1, ClearedIs DEF TypeOK, ClearAgain, WriteFails
  <2> QED BY <1>13, <2>1, <2>2, BoundsAssumption
             DEF TypeOK, ClearAgain, WriteFails, At, Return, Fault, NoFault,
                 callVars, runVars
<1>14. CASE UNCHANGED vars
  BY <1>14 DEF TypeOK, vars, callVars, runVars
<1> QED BY <1>2, <1>3, <1>4, <1>5, <1>6, <1>7, <1>8, <1>9, <1>10, <1>11, <1>12,
           <1>13, <1>14 DEF Next, DriverStep, Halted

-----------------------------------------------------------------------------
(* What each program calls.                                                 *)

(* An application that uses one function calls no other, and keeps to it.   *)
LEMMA ProgramIs ==
    /\ Polls => ~Single /\ ~Starts /\ "single" \notin program /\ "start" \notin program
    /\ Single => ~Starts /\ "multiple" \notin program /\ "start" \notin program
    /\ Starts => "single" \notin program /\ "multiple" \notin program
BY DEF Polls, Single, Starts

LEMMA ProgramFixed ==
    ASSUME [Next]_vars
    PROVE  /\ program' = program
           /\ (Polls' <=> Polls) /\ (Single' <=> Single) /\ (Starts' <=> Starts)
<1>1. program' = program
  <2> USE DEF Fault, NoFault, callVars, runVars, WriteFails, IsDone, IsNotDone
  <2>1. CASE SensorStep \/ Isr \/ CallStep \/ Begin \/ Block \/ Check \/ Sanity
    BY <2>1
       DEF SensorStep, Complete, Isr, CallStep, CallStart, CallMultiple,
           CallSingle,
                Begin, Block, Check, Sanity
  <2>2. CASE Start \/ Poll \/ Read \/ Clear \/ ClearAgain
    BY <2>2 DEF Start, Poll, Read, Clear, ClearAgain
  <2>3. CASE UNCHANGED vars
    BY <2>3 DEF vars
  <2> QED BY <2>1, <2>2, <2>3 DEF Next, DriverStep, Halted
<1> QED BY <1>1 DEF Polls, Single, Starts

(* Every step keeps to what the program calls.                              *)
LEMMA PollsUseStep ==
    ASSUME TypeOK, Polls, PollsUse, Untouched, [Next]_vars
    PROVE  PollsUse'
<1> USE ProgramIs DEF PollsUse, Collecting, At, Return
<1>1. CASE SensorStep \/ Isr
  BY <1>1 DEF SensorStep, Complete, Isr, callVars, Untouched
<1>2. CASE CallStep
  BY <1>2 DEF TypeOK, CallStep, CallSingle, CallStart, CallMultiple
<1>3. CASE Begin
  BY <1>3 DEF TypeOK, Begin
<1>4. CASE Start
  BY <1>4 DEF TypeOK, Start, StartsDone, WriteFails
<1>5. CASE Block
  BY <1>5 DEF TypeOK, Block
<1>6. CASE Check
  BY <1>6 DEF TypeOK, Check
<1>7. CASE Sanity
  BY <1>7 DEF TypeOK, Sanity, callVars
<1>8. CASE Poll
  BY <1>8 DEF TypeOK, Poll, callVars
<1>9. CASE Read
  BY <1>9 DEF TypeOK, Read, callVars
<1>10. CASE Clear
  BY <1>10 DEF TypeOK, Clear, WriteFails, callVars
<1>11. CASE ClearAgain
  BY <1>11 DEF TypeOK, ClearAgain, WriteFails
<1>12. CASE UNCHANGED vars
  BY <1>12 DEF vars, callVars
<1> QED BY <1>1, <1>2, <1>3, <1>4, <1>5, <1>6, <1>7, <1>8, <1>9, <1>10, <1>11,
           <1>12 DEF Next, DriverStep, Halted

LEMMA SingleUseStep ==
    ASSUME TypeOK, Single, SingleUse, [Next]_vars
    PROVE  SingleUse'
<1> USE ProgramIs DEF SingleUse, Collecting, At, Return
<1>1. CASE SensorStep \/ Isr
  BY <1>1 DEF SensorStep, Complete, Isr, callVars
<1>2. CASE CallStep
  BY <1>2 DEF CallStep, CallSingle, CallStart, CallMultiple
<1>3. CASE Begin \/ Block \/ Check \/ Sanity
  BY <1>3 DEF Begin, Block, Check, Sanity
<1>4. CASE Start
  BY <1>4 DEF Start, StartsDone, WriteFails
<1>5. CASE Poll
  BY <1>5 DEF Poll, callVars
<1>6. CASE Read
  BY <1>6 DEF Read, callVars
<1>7. CASE Clear
  BY <1>7 DEF Clear, WriteFails, callVars
<1>8. CASE ClearAgain
  BY <1>8 DEF ClearAgain, WriteFails
<1>9. CASE UNCHANGED vars
  BY <1>9 DEF vars, callVars
<1> QED BY <1>1, <1>2, <1>3, <1>4, <1>5, <1>6, <1>7, <1>8, <1>9
           DEF Next, DriverStep, Halted

LEMMA StartsUseStep ==
    ASSUME TypeOK, Starts, StartsUse, [Next]_vars
    PROVE  StartsUse'
<1> USE ProgramIs DEF StartsUse, At, Return
<1>1. CASE SensorStep \/ Isr
  BY <1>1 DEF SensorStep, Complete, Isr, callVars
<1>2. CASE CallStep
  BY <1>2 DEF CallStep, CallSingle, CallStart, CallMultiple
<1>3. CASE Begin \/ Block \/ Check \/ Sanity
  BY <1>3 DEF Begin, Block, Check, Sanity
<1>4. CASE Start
  BY <1>4 DEF Start, StartsDone, WriteFails
<1>5. CASE Poll \/ Read \/ Clear \/ ClearAgain
  BY <1>5 DEF Poll, Read, Clear, ClearAgain
<1>6. CASE UNCHANGED vars
  BY <1>6 DEF vars, callVars
<1> QED BY <1>1, <1>2, <1>3, <1>4, <1>5, <1>6 DEF Next, DriverStep, Halted

LEMMA UseStep ==
    ASSUME TypeOK, UseInv, RoundInv, [Next]_vars
    PROVE  UseInv'
BY ProgramFixed, PollsUseStep, SingleUseStep, StartsUseStep
   DEF UseInv, RoundInv, PassInv

-----------------------------------------------------------------------------
(* Rounds and passes, for the program that polls.                           *)

PollsInv == TypeOK /\ PollsUse /\ ResultInv /\ PassInv /\ PictureInv

LEMMA MidIs == Mid = Order[1] /\ 1 \in 1 .. Last
BY LastIs DEF Mid

(* A measurement that ends is one of the running round.                     *)
LEMMA CompleteStep ==
    ASSUME PollsInv, NEW c \in Sensors, Complete(c)
    PROVE  ResultInv' /\ PassInv' /\ PictureInv'
<1>1. /\ UNCHANGED <<status, latest, pc, k, after, reply>> /\ S' = S
      /\ \A s \in Sensors : sensor'[s].started = sensor[s].started
      /\ Round' = Round
  BY CompleteIs, OrderFacts DEF Complete, callVars, S, Round, PollsInv
<1>2. ~Spent(c) /\ sensor[c].started = Round /\ ~sensor[c].done
  BY CompleteIs DEF Spent, ResultInv, PollsInv
<1>3. \A s \in Sensors :
          /\ sensor[s].done => sensor'[s].done
          /\ Spent(s) => Spent(s)'
  BY <1>2, CompleteIs DEF Spent, PollsInv
<1>4. ResultInv'
  BY <1>1, <1>2, CompleteIs DEF ResultInv, Spent, PollsInv
<1>5. PassInv'
  <2>1. status # "NOT_STARTED" /\ pc # "begin"
    BY <1>2 DEF PassInv, Untouched, AtRest, PollsInv
  <2>2. /\ k \in Nat /\ Last \in Nat /\ k =< Last + 1
        /\ pc \notin {"idle", "begin", "check"} => k \in 1 .. Last
    BY LastIs DEF PollsInv, TypeOK
  <2>3. Starting'
    <3> SUFFICES ASSUME pc' = "start" PROVE Starting'
      BY DEF Starting
    <3>1. \A j \in 1 .. k - 1 : Order[j] \in Sensors
      BY <1>1, <2>2, OrderFacts
    <3>2. \A j \in k .. Last : Order[j] \in Sensors
      BY <1>1, <2>2, OrderFacts
    <3> QED BY <1>1, <1>3, <3>1, <3>2 DEF PollsInv, PassInv, Starting
  <2>4. Checking'
    <3>1. \A j \in Nat : 2 =< j /\ j =< Last => Order[j] \in Sensors
      BY <2>2, OrderFacts
    <3>2. \A j \in 2 .. k - 1 : Order[j] \in Sensors
      BY <2>2, <3>1
    <3>3. \A j \in 2 .. Last : Order[j] \in Sensors
      BY <2>2, <3>1
    <3> QED BY <1>1, <1>3, <3>2, <3>3 DEF PollsInv, PassInv, Checking
  <2>5. Emptying'
    <3> SUFFICES ASSUME Collecting' PROVE Emptying'
      BY DEF Emptying
    <3>1. \A j \in 1 .. k - 1 : Order[j] \in Sensors
      BY <1>1, <2>2, OrderFacts DEF Collecting
    <3>2. \A j \in k + 1 .. Last : Order[j] \in Sensors
      BY <1>1, <2>2, OrderFacts DEF Collecting
    <3>3. S \in Sensors
      BY <1>1, <2>2, OrderFacts DEF S, Collecting
    <3>4. Collecting /\ (pc' = "clear_again" <=> pc = "clear_again")
      BY <1>1 DEF Collecting
    <3> QED BY <1>1, <1>3, <3>1, <3>2, <3>3, <3>4
               DEF PollsInv, PassInv, Emptying
  <2> QED BY <1>1, <2>1, <2>3, <2>4, <2>5
             DEF PassInv, Untouched, Collecting, PollsInv
<1>6. PictureInv'
  BY <1>1 DEF PictureInv, Collecting, PollsInv
<1> QED BY <1>4, <1>5, <1>6

(* The steps that touch neither sensors nor ranges.                         *)
LEMMA QuietStep ==
    ASSUME PollsInv, PollsUse', Polls,
           Isr \/ CallStart \/ CallMultiple \/ Block \/ Check \/ Sanity \/ UNCHANGED vars
    PROVE  ResultInv' /\ PassInv' /\ PictureInv'
<1> USE OrderFacts, LastIs, MidIs DEF PollsInv
<1>1. sensor' = sensor /\ latest' = latest /\ Round' = Round
  BY DEF Isr, CallStart, CallMultiple, Block, Check, Sanity, vars, Round,
         IsDone, IsNotDone
<1>2. ResultInv'
  BY <1>1 DEF ResultInv, Spent
<1>3. CASE Isr
  BY <1>1, <1>2, <1>3
     DEF PassInv, AtRest, Untouched, Starting, Checking, Emptying, PictureInv,
         Spent, Collecting, S, Isr, callVars
<1>4. CASE CallStart
  BY <1>4, ProgramIs DEF CallStart
<1>5. CASE CallMultiple
  BY <1>1, <1>2, <1>5
     DEF PassInv, AtRest, Untouched, Starting, Checking, Emptying, PictureInv,
         PollsUse, Spent, Collecting, CallMultiple, At
<1>6. CASE Block
  BY <1>1, <1>2, <1>6
     DEF PassInv, AtRest, Untouched, Starting, Checking, Emptying, PictureInv,
         PollsUse, Spent, Collecting, Block, At
<1>7. CASE Check
  BY <1>1, <1>2, <1>7
     DEF PassInv, AtRest, Untouched, Starting, Checking, Emptying, PictureInv,
         PollsUse, Spent, Collecting, Check, At, S, IsDone, Return, TypeOK
<1>8. CASE Sanity
  <2>1. /\ UNCHANGED <<status, ifg, k, after, reply>> /\ pc' \in {"poll", "assert"}
        /\ pc = "sanity" /\ S' = S /\ (pc' = "poll" => sensor[S].done)
    BY <1>8 DEF Sanity, callVars, At, S, IsDone
  <2>2. /\ k = 1 /\ status # "MEASURING" /\ after = "fresh"
        /\ \A j \in 2 .. Last : sensor[Order[j]].done
    BY <2>1 DEF PassInv, Checking, PollsUse
  <2>3. status # "NOT_STARTED"
    BY <2>1 DEF PollsUse
  <2>4. CASE pc' = "poll"
    <3>1. \A s \in Sensors : sensor[s].done
      <4> SUFFICES ASSUME NEW s \in Sensors PROVE sensor[s].done
        OBVIOUS
      <4>1. PICK j \in 1 .. Last : s = Order[j]
        OBVIOUS
      <4> QED BY <2>1, <2>2, <2>4, <4>1 DEF S
    <3>2. \A s \in Sensors : sensor[s].started = Round
      BY <3>1 DEF ResultInv, Spent
    <3>3. Emptying'
      BY <1>1, <2>1, <2>2, <2>4, <3>2 DEF Emptying
    <3>4. PassInv'
      BY <2>1, <2>2, <2>3, <2>4, <3>3 DEF PassInv, Untouched, Starting, Checking
    <3> QED BY <1>1, <1>2, <2>1, <2>2, <2>4, <3>4 DEF PictureInv, PollsUse
  <2>5. CASE pc' = "assert"
    BY <1>1, <1>2, <2>1, <2>2, <2>3, <2>5
       DEF PassInv, Untouched, Starting, Checking, Emptying, Collecting,
           PictureInv, PollsUse
  <2> QED BY <2>1, <2>4, <2>5
<1>9. CASE UNCHANGED vars
  BY <1>1, <1>2, <1>9
     DEF PassInv, AtRest, Untouched, Starting, Checking, Emptying, PictureInv,
         Spent, Collecting, S, vars, callVars
<1> QED BY <1>3, <1>4, <1>5, <1>6, <1>7, <1>8, <1>9

LEMMA BeginStep ==
    ASSUME PollsInv, Begin
    PROVE  ResultInv' /\ PassInv' /\ PictureInv'
<1> USE OrderFacts, LastIs, MidIs DEF PollsInv
<1>1. sensor' = sensor /\ latest' = latest /\ Round' = Round
  BY DEF Begin, Round
<1>2. status # "MEASURING"
  BY DEF Begin, PassInv, At
<1>3. ResultInv'
  BY <1>1 DEF ResultInv, Spent
<1> QED
  BY <1>1, <1>2, <1>3
     DEF PassInv, AtRest, Untouched, Starting, Checking, Emptying, PictureInv,
         PollsUse, Spent, Collecting, Begin, At

(* The steps that collect the result of a sensor.                           *)
LEMMA PollStep ==
    ASSUME PollsInv, Polls, Poll
    PROVE  ResultInv' /\ PassInv' /\ PictureInv'
<1>1. /\ UNCHANGED <<sensor, latest, status, ifg, k, after>> /\ pc = "poll"
      /\ (pc' = "read" /\ reply' = reply) \/ (pc' = "idle" /\ reply' = "error")
      /\ S' = S /\ Round' = Round
  BY DEF Poll, callVars, At, Return, S, Round
<1>2. ResultInv'
  BY <1>1 DEF PollsInv, ResultInv, Spent
<1>3. Emptying'
  BY <1>1 DEF PollsInv, PassInv, Emptying, Collecting, Spent
<1>4. PassInv'
  BY <1>1, <1>3
     DEF PollsInv, PassInv, Untouched, AtRest, Starting, Checking, Collecting,
         Spent
<1>5. PictureInv'
  BY <1>1 DEF PollsInv, PictureInv, PollsUse, Collecting
<1> QED BY <1>2, <1>4, <1>5

LEMMA ReadStep ==
    ASSUME PollsInv, Polls, Read
    PROVE  ResultInv' /\ PassInv' /\ PictureInv'
<1>1. /\ UNCHANGED <<sensor, status, ifg, k, after>> /\ pc = "read"
      /\ \/ pc' = "clear" /\ reply' = reply /\ SetTarget({sensor[S].reg})
         \/ pc' = "idle" /\ reply' = "error"
      /\ S' = S /\ Round' = Round
  BY DEF Read, callVars, At, Return, S, Round
<1>2. ResultInv'
  BY <1>1 DEF PollsInv, ResultInv, Spent
<1>3. Emptying'
  BY <1>1 DEF PollsInv, PassInv, Emptying, Collecting, Spent
<1>4. PassInv'
  BY <1>1, <1>3
     DEF PollsInv, PassInv, Untouched, AtRest, Starting, Checking, Collecting,
         Spent
<1>5. PictureInv'
  <2>1. CASE pc' = "idle"
    BY <1>1, <2>1 DEF PictureInv, Collecting
  <2>2. CASE pc' = "clear"
    <3>1. k \in 1 .. Last /\ S \in Sensors /\ after = "fresh"
      BY <1>1, OrderFacts DEF PollsInv, TypeOK, S, PollsUse, Collecting
    <3>2. sensor[S].done /\ sensor[S].reg.n = Round
      BY <1>1, <3>1 DEF PollsInv, PassInv, Emptying, Collecting, ResultInv
    <3>3. latest' = [latest EXCEPT ![S] = sensor[S].reg]
      BY <1>1, <2>2, <3>1 DEF SetTarget
    <3>4. \A j \in 1 .. k - 1 : latest'[Order[j]].n = Round
      <4>1. \A j \in 1 .. k - 1 : Order[j] # S /\ Order[j] \in Sensors
        <5>1. \A j \in 1 .. k - 1 : j \in 1 .. Last /\ j # k
          BY <3>1, LastIs
        <5> QED BY <3>1, <5>1, OrderFacts DEF S
      <4>2. \A j \in 1 .. k - 1 : latest[Order[j]].n = Round
        BY <1>1 DEF PollsInv, PictureInv, Collecting
      <4> QED BY <3>3, <4>1, <4>2 DEF PollsInv, TypeOK
    <3>5. latest'[S].n = Round
      BY <3>1, <3>2, <3>3 DEF PollsInv, TypeOK
    <3>6. \A j \in 1 .. k : latest'[Order[j]].n = Round
      BY <3>1, <3>4, <3>5, LastIs DEF S
    <3> QED BY <1>1, <2>2, <3>6 DEF PictureInv, Collecting, PollsInv, PollsUse
  <2> QED BY <1>1, <2>1, <2>2
<1> QED BY <1>2, <1>4, <1>5

(* What the steps that clear an interrupt have in common.                   *)
LEMMA ClearedStep ==
    ASSUME PollsInv, Polls, sensor' \in {sensor, Cleared}, Collecting
    PROVE  /\ k \in 1 .. Last /\ S \in Sensors
           /\ after = "fresh" /\ status = "DONE" /\ reply = "none"
           /\ Round' = Round
           /\ \A s \in Sensors : sensor'[s].started = Round
           /\ ResultInv'
           /\ \A s \in Sensors : s # S => sensor'[s] = sensor[s]
           /\ \A j \in 1 .. Last : j # k => Order[j] # S /\ Order[j] \in Sensors
           /\ sensor' = Cleared => ~sensor'[S].done /\ ~sensor'[S].busy
<1>1. k \in 1 .. Last /\ S \in Sensors /\ after = "fresh" /\ status = "DONE" /\ reply = "none"
  BY OrderFacts DEF PollsInv, TypeOK, S, PollsUse, Collecting, PassInv
<1>2. \A s \in Sensors : sensor[s].started = Round
  BY DEF PollsInv, PassInv, Emptying
<1>3. \A s \in Sensors : sensor'[s].started = sensor[s].started /\ (s # S => sensor'[s] = sensor[s])
                          /\ sensor'[s].busy = sensor[s].busy /\ sensor'[s].reg = sensor[s].reg
                          /\ (sensor'[s].done => sensor[s].done)
  BY <1>1, ClearedIs DEF PollsInv
<1>4. Round' = Round
  BY <1>3, OrderFacts DEF Round
<1>5. ResultInv'
  BY <1>2, <1>3, <1>4 DEF PollsInv, ResultInv, Spent
<1>6. \A j \in 1 .. Last : j # k => Order[j] # S /\ Order[j] \in Sensors
  BY <1>1, OrderFacts DEF S
<1>7. sensor' = Cleared => ~sensor'[S].done /\ ~sensor'[S].busy
  BY <1>1, ClearedIs DEF PollsInv, PassInv, Emptying, Spent, ResultInv
<1> QED BY <1>1, <1>2, <1>3, <1>4, <1>5, <1>6, <1>7

LEMMA ClearStep ==
    ASSUME PollsInv, Polls, Clear
    PROVE  ResultInv' /\ PassInv' /\ PictureInv'
<1>1. /\ UNCHANGED <<status, ifg, k, after>> /\ pc = "clear"
      /\ S' = S /\ sensor' \in {sensor, Cleared}
      /\ \/ pc' = "clear_again" /\ reply' = reply /\ sensor' = Cleared /\ SetTarget({Normal(Target)})
         \/ pc' = "idle" /\ reply' = "error" /\ UNCHANGED latest
  BY DEF Clear, callVars, At, Return, S, WriteFails
<1>2. Collecting
  BY <1>1 DEF Collecting
<1> USE <1>1, <1>2, ClearedStep
<1>3. CASE pc' = "idle"
  BY <1>3
     DEF PassInv, PictureInv, Untouched, Starting, Checking, Emptying,
         Collecting
<1>4. CASE pc' = "clear_again"
  <2>1. Emptying'
    <3>1. \A j \in 1 .. k - 1 : Spent(Order[j])'
      <4>1. \A j \in 1 .. k - 1 : j \in 1 .. Last /\ j # k /\ Spent(Order[j])
        BY LastIs DEF PollsInv, PassInv, Emptying
      <4> QED BY <4>1 DEF Spent
    <3>2. \A j \in k + 1 .. Last : sensor'[Order[j]].done
      <4>1. \A j \in k + 1 .. Last : j \in 1 .. Last /\ j # k /\ sensor[Order[j]].done
        BY LastIs DEF PollsInv, PassInv, Emptying
      <4> QED BY <4>1
    <3> QED BY <1>4, <3>1, <3>2 DEF Emptying, Spent
  <2>2. PictureInv'
    <3>1. latest' = [latest EXCEPT ![S] = Normal(latest[S])]
      BY <1>4 DEF SetTarget, Target
    <3>2. \A s \in Sensors : latest'[s].n = latest[s].n
      BY <3>1, SensorIs DEF PollsInv, TypeOK, Normal, Value
    <3>3. \A j \in 1 .. k : latest[Order[j]].n = Round /\ Order[j] \in Sensors
      <4>1. \A j \in 1 .. k : j \in 1 .. Last
        BY LastIs
      <4> QED BY <4>1, OrderFacts DEF PollsInv, PictureInv
    <3> QED BY <1>4, <3>2, <3>3 DEF PictureInv
  <2> QED BY <1>4, <2>1, <2>2 DEF PassInv, Untouched, Starting, Checking
<1> QED BY <1>3, <1>4

LEMMA ClearAgainStep ==
    ASSUME PollsInv, Polls, ClearAgain
    PROVE  ResultInv' /\ PassInv' /\ PictureInv'
<1>1. /\ UNCHANGED <<status, ifg, latest, after>> /\ pc = "clear_again"
      /\ sensor' \in {sensor, Cleared}
  BY DEF ClearAgain, At, WriteFails
<1>2. Collecting
  BY <1>1 DEF Collecting
<1>3. \/ pc' = "poll" /\ k' = k + 1 /\ k < Last /\ reply' = reply /\ sensor' = Cleared
      \/ pc' = "begin" /\ k' = k /\ k = Last /\ reply' = reply /\ sensor' = Cleared
      \/ pc' = "idle" /\ reply' = "error"
  BY <1>1, <1>2, ClearedStep DEF ClearAgain, WriteFails, Return
<1> USE <1>1, <1>2, ClearedStep
<1>4. /\ \A j \in 1 .. k - 1 : Spent(Order[j])'
      /\ \A j \in k + 1 .. Last : sensor'[Order[j]].done
  <2>1. \A j \in 1 .. k - 1 : j \in 1 .. Last /\ j # k /\ Spent(Order[j])
    BY LastIs DEF PollsInv, PassInv, Emptying
  <2>2. \A j \in k + 1 .. Last : j \in 1 .. Last /\ j # k /\ sensor[Order[j]].done
    BY LastIs DEF PollsInv, PassInv, Emptying
  <2> QED BY <2>1, <2>2 DEF Spent
<1>5. \A j \in 1 .. k : latest[Order[j]].n = Round
  BY DEF PollsInv, PictureInv
<1>6. CASE pc' = "idle"
  BY <1>3, <1>6
     DEF PassInv, PictureInv, Untouched, Starting, Checking, Emptying,
         Collecting
<1>7. CASE pc' = "poll"
  <2>1. S' = Order[k + 1] /\ k + 1 \in k + 1 .. Last /\ k' = k + 1
    BY <1>3, <1>7, LastIs DEF S
  <2>2. \A j \in 1 .. k : Spent(Order[j])'
    BY <1>3, <1>4, <1>7 DEF Spent, S
  <2>3. \A j \in k + 2 .. Last : sensor'[Order[j]].done
    BY <1>4
  <2>4. k' - 1 = k /\ k' + 1 = k + 2
    BY <2>1
  <2>5. Emptying'
    BY <1>4, <1>7, <2>1, <2>2, <2>3, <2>4 DEF Emptying, Collecting
  <2>6. PictureInv'
    BY <1>3, <1>5, <1>7, <2>4 DEF PictureInv, Collecting
  <2> QED BY <1>7, <2>5, <2>6
             DEF PassInv, Untouched, Starting, Checking, Collecting
<1>8. CASE pc' = "begin"
  <2>1. \A s \in Sensors : latest[s].n = Round
    BY <1>3, <1>5, <1>8, OrderFacts
  <2>2. \A s \in Sensors : Spent(s)'
    <3> SUFFICES ASSUME NEW s \in Sensors PROVE Spent(s)'
      OBVIOUS
    <3>1. PICK j \in 1 .. Last : s = Order[j]
      BY OrderFacts
    <3> QED BY <1>3, <1>4, <1>8, <3>1 DEF Spent, S
  <2>3. AtRest'
    BY <2>2 DEF AtRest
  <2> QED BY <1>3, <1>8, <2>1, <2>3
             DEF PassInv, PictureInv, Untouched, Starting, Checking, Emptying,
                 Collecting
<1> QED BY <1>3, <1>6, <1>7, <1>8

(* The first start of a pass begins a round that the others join.           *)
LEMMA StartStep ==
    ASSUME PollsInv, Polls, Start
    PROVE  ResultInv' /\ PassInv' /\ PictureInv'
<1>1. /\ UNCHANGED <<status, ifg, latest, after>> /\ pc = "start"
      /\ sensor' \in {sensor, Started}
  BY DEF Start, At, WriteFails
<1>2. /\ k \in 1 .. Last /\ S \in Sensors
      /\ status # "NOT_STARTED" /\ after \in {"block", "fresh"} /\ reply = "none"
  BY <1>1, OrderFacts DEF PollsInv, TypeOK, S, PollsUse
<1>3. \/ sensor' = Started /\ k < Last /\ pc' = "start" /\ k' = k + 1 /\ reply' = reply
      \/ sensor' = Started /\ after = "block" /\ pc' = "block" /\ reply' = reply
      \/ sensor' = Started /\ after = "fresh" /\ pc' = "idle" /\ reply' = "fresh"
      \/ pc' = "idle" /\ reply' = "error"
  BY <1>1, <1>2 DEF Start, WriteFails, Return, StartsDone
<1>4. /\ \A s \in Sensors : s # S => sensor'[s] = sensor[s]
      /\ sensor'[S].done = sensor[S].done
      /\ sensor'[S].started = IF sensor' = Started THEN Succ(sensor[S].started) ELSE sensor[S].started
  <2>1. CASE sensor' = Started
    BY <1>2, <2>1, StartedIs DEF PollsInv
  <2>2. CASE sensor' # Started
    BY <1>1, <2>2
  <2> QED BY <2>1, <2>2
<1>5. \A j \in 1 .. Last : j # k => Order[j] # S /\ Order[j] \in Sensors
  BY <1>2, OrderFacts DEF S
<1>6. \A j \in k .. Last : j \in 1 .. Last /\ Spent(Order[j])
  BY <1>1, <1>2, LastIs DEF PollsInv, PassInv, Starting
<1>7. Spent(S) /\ ~sensor'[S].done
  BY <1>2, <1>4, <1>6, LastIs DEF S, Spent
<1>8. CASE sensor' = sensor
  <2>1. pc' = "idle" /\ reply' = "error"
    <3>1. sensor[S].started \in 0 .. Rounds - 1
      BY <1>2, SensorIs DEF PollsInv
    <3>2. sensor' # Started
      BY <1>8, <1>2, <1>4, <3>1, SuccIs
    <3> QED BY <1>3, <3>2
  <2>2. ResultInv'
    BY <1>8 DEF PollsInv, ResultInv, Spent, Round
  <2> QED BY <1>1, <1>2, <2>1, <2>2
             DEF PassInv, PictureInv, Untouched, Starting, Checking, Emptying,
                 Collecting
<1>9. CASE sensor' = Started /\ k = 1
  <2>1. S = Mid
    BY <1>9 DEF S, Mid
  <2>2. \A s \in Sensors : Spent(s) /\ sensor[s].started = Round
    <3>1. \A j \in 1 .. Last : Spent(Order[j]) /\ Round = sensor[Order[j]].started
      BY <1>1, <1>9 DEF PollsInv, PassInv, Starting
    <3> QED BY <3>1, OrderFacts
  <2>3. Round' = Succ(Round) /\ Round \in 0 .. Rounds - 1
    BY <1>4, <1>9, <2>1, SensorIs, OrderFacts DEF Round, PollsInv
  <2>4. sensor'[S].started = Round'
    BY <2>1 DEF Round
  <2>5. ResultInv'
    BY <1>4, <1>7, <2>2, <2>4 DEF ResultInv, Spent
  <2>6. Starting'
    <3> SUFFICES ASSUME pc' = "start" PROVE Starting'
      BY DEF Starting
    <3>1. k' = 2 /\ 1 .. k' - 1 = {1} /\ sensor'[Order[1]].started = Round'
      BY <1>3, <1>9, <2>1, <2>4 DEF Mid
    <3>2. \A j \in k' .. Last : Spent(Order[j])' /\ Round' = Succ(sensor'[Order[j]].started)
      <4>1. \A j \in k' .. Last : j \in 1 .. Last /\ j # k
        BY <1>9, <3>1, LastIs
      <4> QED BY <1>4, <1>5, <2>2, <2>3, <4>1 DEF Spent
    <3> QED BY <3>1, <3>2 DEF Starting
  <2>7. after = "fresh" => \A s \in Sensors : Round = latest[s].n
    BY <1>1, <1>9 DEF PollsInv, PictureInv
  <2>8. PassInv'
    BY <1>1, <1>2, <1>3, <2>6
       DEF PassInv, Untouched, Checking, Emptying, Collecting
  <2>9. PictureInv'
    BY <1>1, <1>2, <1>3, <1>9, <2>3, <2>7, OrderFacts DEF PictureInv, Collecting
  <2> QED BY <2>5, <2>8, <2>9
<1>10. CASE sensor' = Started /\ k > 1
  <2>1. S # Mid /\ Mid \in Sensors
    BY <1>2, <1>5, <1>10, LastIs, OrderFacts DEF Mid
  <2>2. Round' = Round
    BY <1>4, <2>1 DEF Round
  <2>3. sensor'[S].started = Round
    <3>1. Round = Succ(sensor[S].started)
      BY <1>1, <1>2, <1>10 DEF PollsInv, PassInv, Starting, S
    <3> QED BY <1>4, <1>10, <3>1
  <2>4. ResultInv'
    BY <1>4, <1>7, <2>2, <2>3 DEF ResultInv, Spent, PollsInv
  <2>5. Starting'
    <3> SUFFICES ASSUME pc' = "start" PROVE Starting'
      BY DEF Starting
    <3>1. k' = k + 1 /\ k < Last
      BY <1>3
    <3>2. \A j \in 1 .. k' - 1 : sensor'[Order[j]].started = Round'
      <4>1. \A j \in 1 .. k - 1 : j \in 1 .. Last /\ j # k /\ sensor[Order[j]].started = Round
        BY <1>1, <1>2, LastIs DEF PollsInv, PassInv, Starting
      <4>2. \A j \in 1 .. k - 1 : sensor'[Order[j]].started = Round'
        BY <1>4, <1>5, <2>2, <4>1
      <4> QED BY <1>2, <2>2, <2>3, <3>1, <4>2 DEF S
    <3>3. \A j \in k' .. Last : Spent(Order[j])' /\ Round' = Succ(sensor'[Order[j]].started)
      <4>1. \A j \in k' .. Last : /\ j \in 1 .. Last /\ j # k /\ Spent(Order[j])
                                 /\ Round = Succ(sensor[Order[j]].started)
        BY <1>1, <1>2, <1>10, <3>1, LastIs DEF PollsInv, PassInv, Starting
      <4> QED BY <1>4, <1>5, <2>2, <4>1 DEF Spent
    <3> QED BY <1>2, <3>1, <3>2, <3>3 DEF Starting
  <2>6. after = "fresh" => \A s \in Sensors : Round = Succ(latest[s].n)
    BY <1>1, <1>10 DEF PollsInv, PictureInv
  <2>7. after = "fresh" => \A s \in Sensors : latest[s].n = latest[Mid].n
    BY <2>1, <2>6, SuccInjective, SensorIs DEF PollsInv
  <2>8. PassInv'
    BY <1>1, <1>2, <1>3, <2>5
       DEF PassInv, Untouched, Checking, Emptying, Collecting
  <2>9. PictureInv'
    BY <1>1, <1>2, <1>3, <1>10, <2>2, <2>6, <2>7 DEF PictureInv, Collecting
  <2> QED BY <2>4, <2>8, <2>9
<1> QED BY <1>1, <1>2, <1>8, <1>9, <1>10

LEMMA RoundStep ==
    ASSUME IInv, [Next]_vars
    PROVE  RoundInv'
<1> SUFFICES ASSUME Polls PROVE ResultInv' /\ PassInv' /\ PictureInv'
  BY ProgramFixed DEF RoundInv
<1>1. PollsInv /\ PollsUse'
  BY PollsUseStep DEF IInv, PollsInv, UseInv, RoundInv, PassInv
<1>2. CASE SensorStep
  BY <1>1, <1>2, CompleteStep DEF SensorStep
<1>3. CASE Isr \/ Block \/ Check \/ Sanity \/ UNCHANGED vars
  BY <1>1, <1>3, QuietStep
<1>4. CASE CallStep
  BY <1>1, <1>4, QuietStep, ProgramIs DEF CallStep, CallSingle, PollsInv
<1>5. CASE Begin \/ Start \/ Poll \/ Read \/ Clear \/ ClearAgain
  BY <1>1, <1>5, BeginStep, StartStep, PollStep, ReadStep, ClearStep,
     ClearAgainStep
<1> QED BY <1>2, <1>3, <1>4, <1>5 DEF Next, DriverStep, Halted

LEMMA TypeInitially == Init => TypeOK
<1> SUFFICES ASSUME Init PROVE TypeOK
  OBVIOUS
<1> USE LastIs, OrderFacts, BoundsAssumption DEF Init
<1>1. NoValue \in Value /\ NoValue.n = 0
  BY DEF NoValue, Value, VL53L0X_OUT_OF_RANGE, UINT16_MAX
<1>2. [busy |-> FALSE, done |-> FALSE, started |-> 0, reg |-> NoValue] \in SensorState
  BY <1>1 DEF SensorState
<1>3. sensor \in [Sensors -> SensorState] /\ latest \in [Sensors -> Value]
  BY <1>1, <1>2
<1>4. delivered \in [Sensors -> 0 .. Rounds - 1] /\ 0 \in 0 .. MaxFaults
  OBVIOUS
<1>5. k \in 1 .. Last /\ own \in Value /\ program \in Programs /\ faults \in 0 .. MaxFaults
  BY <1>1, <1>4
<1>6. /\ ifg = FALSE /\ status = "NOT_STARTED" /\ pc = "idle" /\ after = "single" /\ reply = "none"
  OBVIOUS
<1> QED BY ONLY <1>3, <1>4, <1>5, <1>6 DEF TypeOK

LEMMA Initially == ASSUME NotMixed PROVE Init => IInv
<1> SUFFICES ASSUME Init PROVE IInv
  OBVIOUS
<1> USE LastIs, OrderFacts, BoundsAssumption DEF Init
<1>1. NoValue.n = 0
  BY DEF NoValue
<1>2. TypeOK /\ (Polls \/ Single \/ Starts)
  BY TypeInitially DEF NotMixed, Polls, Single, Starts
<1>3. UseInv
  BY <1>2, ProgramIs DEF UseInv, PollsUse, SingleUse, StartsUse, Collecting
<1>4. ResultInv /\ PassInv /\ PictureInv
  BY <1>1
     DEF ResultInv, PassInv, PictureInv, AtRest, Untouched, Starting, Checking,
         Emptying, Collecting, Spent, Round
<1> QED BY <1>2, <1>3, <1>4 DEF IInv, RoundInv

(* Every step of the sensors, their pin and the driver keeps the invariant. *)
THEOREM Invariant == ASSUME NotMixed PROVE Spec => []IInv
<1>1. IInv /\ [Next]_vars => IInv'
  BY TypeStep, UseStep, RoundStep DEF IInv
<1> QED BY <1>1, Initially, PTL DEF Spec

(* The variables keep their types and no call goes past the last sensor, for*)
(* every list of sensors and whatever functions an application mixes.       *)
THEOREM TypeSafety == Spec => []TypeOK
<1> QED BY TypeInitially, TypeStep, PTL DEF Spec

(* Ranges returned as fresh come from one round of all sensors, whatever    *)
(* transfers have failed (vl53l0x.c:741-760).                               *)
THEOREM OneRound == ASSUME NotMixed PROVE Spec => []FreshIsOneRound
<1>1. IInv => FreshIsOneRound
  <2> SUFFICES ASSUME IInv, reply = "fresh" PROVE \A s \in Sensors : latest[s].n = latest[Mid].n
    BY DEF FreshIsOneRound
  <2>1. Polls
    BY DEF IInv, UseInv, SingleUse, StartsUse
  <2> QED BY <2>1 DEF IInv, RoundInv, PictureInv
<1> QED BY <1>1, Invariant, PTL

-----------------------------------------------------------------------------
(* How far the round is ahead of the last delivery.                         *)

(* n rounds after a.                                                        *)
Later(a, n) == IF a + n < Rounds THEN a + n ELSE a + n - Rounds
Lead(d) ==
    /\ \A s \in Sensors : delivered[s] = delivered[Mid]
    /\ Round = Later(delivered[Mid], d)
    /\ d =< faults + (IF pc = "start" /\ after = "fresh" /\ k > 1 THEN 2 ELSE 1)
    /\ status = "NOT_STARTED" \/ (pc = "start" /\ after = "block" /\ k = 1) => d = 0
    /\ Collecting \/ (pc = "begin" /\ after = "fresh") => d >= 1
    /\ (pc = "start" /\ (after = "fresh" \/ k > 1)) => d >= 1
    /\ (pc = "start" /\ after = "fresh" /\ k > 1) => d >= 2
    /\ \A s \in Sensors : ~Spent(s) => d >= 1
LeadInv == Polls => \E d \in 0 .. MaxFaults + 2 : Lead(d)

LEMMA LaterIs ==
    ASSUME NEW a \in 0 .. Rounds - 1
    PROVE  /\ Later(a, 0) = a
           /\ Later(a, 1) = Succ(a)
           /\ \A n \in 0 .. Rounds - 1 :
                 /\ Later(a, n) \in 0 .. Rounds - 1
                 /\ Later(a, n + 1) = Succ(Later(a, n))
                 /\ n > 0 => Later(a, n) # a
<1>1. Rounds \in Nat /\ Rounds > 1
  BY BoundsAssumption
<1>2. ASSUME NEW n \in 0 .. Rounds - 1
      PROVE  /\ Later(a, n) \in 0 .. Rounds - 1
             /\ Later(a, n + 1) = Succ(Later(a, n))
             /\ n > 0 => Later(a, n) # a
  <2>1. Later(a, n) \in 0 .. Rounds - 1
    BY <1>1 DEF Later
  <2>2. Later(a, n + 1) = IF Later(a, n) + 1 = Rounds THEN 0 ELSE Later(a, n) + 1
    BY <1>1 DEF Later
  <2> QED BY <1>1, <2>1, <2>2, SuccIs DEF Later
<1> QED BY <1>1, <1>2, SuccIs DEF Later

LEMMA BoundIs ==
    ASSUME PollsInv, NEW d \in 0 .. MaxFaults + 2, Lead(d)
    PROVE  /\ faults \in Nat /\ faults =< MaxFaults /\ Rounds \in Nat /\ MaxFaults \in Nat
           /\ Rounds > MaxFaults + 1
           /\ delivered[Mid] \in 0 .. Rounds - 1 /\ Round \in 0 .. Rounds - 1
BY BoundsAssumption, OrderFacts, SensorIs DEF PollsInv, TypeOK, Round

(* Steps that neither start a measurement nor return a picture.            *)
LEMMA LeadQuiet ==
    ASSUME IInv, Polls, NEW d \in 0 .. MaxFaults + 2, Lead(d), [Next]_vars, ~Start
    PROVE  Lead(d)'
<1>1. PollsInv /\ program' = program
  BY ProgramFixed DEF IInv, PollsInv, UseInv, RoundInv
<1>2. delivered' = delivered /\ faults' \in {faults, faults + 1}
  <2> USE DEF Fault, NoFault, callVars, runVars, WriteFails, IsDone, IsNotDone
  <2>1. CASE SensorStep \/ Isr \/ CallStep \/ Begin \/ Block \/ Check \/ Sanity
    BY <2>1
       DEF SensorStep, Complete, Isr, CallStep, CallStart, CallMultiple,
           CallSingle,
                Begin, Block, Check, Sanity
  <2>2. CASE Poll \/ Read \/ Clear \/ ClearAgain
    BY <2>2 DEF Poll, Read, Clear, ClearAgain
  <2>3. CASE UNCHANGED vars
    BY <2>3 DEF vars
  <2> QED BY <2>1, <2>2, <2>3 DEF Next, DriverStep, Halted
<1>3. /\ \A s \in Sensors : sensor'[s].started = sensor[s].started
      /\ \A s \in Sensors : Spent(s) => Spent(s)'
  <2>1. CASE SensorStep
    BY <1>1, <2>1, CompleteIs DEF SensorStep, PollsInv, Spent
  <2>2. CASE Isr \/ CallStep \/ Begin \/ Block \/ Check \/ Sanity \/ Poll \/ Read \/ UNCHANGED vars
    BY <2>2 DEF Isr, CallStep, CallStart, CallMultiple, CallSingle,
                Begin, Block, Check, Sanity, Poll, Read, vars, Spent
  <2>3. CASE Clear \/ ClearAgain
    <3>1. k \in 1 .. Last /\ sensor' \in {sensor, Cleared}
      BY <1>1, <2>3 DEF Clear, ClearAgain, At, WriteFails, PollsInv, TypeOK
    <3> QED BY <1>1, <3>1, ClearedIs DEF PollsInv, Spent
  <2> QED BY <2>1, <2>2, <2>3 DEF Next, DriverStep, Halted
<1>4. Round' = Round
  <2>1. Mid \in Sensors
    BY OrderFacts
  <2> QED BY <1>3, <2>1 DEF Round
<1>5. /\ pc = "start" => pc' = "start"
      /\ pc' = "start" => \/ pc = "start" /\ k' = k /\ after' = after
                          \/ pc = "begin" /\ k' = 1 /\ after' = after
      /\ Collecting' => Collecting \/ (pc = "sanity" /\ \E s \in Sensors : ~Spent(s))
      /\ pc' = "begin" /\ after' = "fresh" => (pc = "begin" /\ after = "fresh") \/ Collecting
      /\ status' = "NOT_STARTED" => status = "NOT_STARTED"
  <2> USE <1>1, ProgramIs DEF PollsInv, At, Return, Collecting
  <2>1. CASE SensorStep \/ Isr \/ UNCHANGED vars
    <3>1. UNCHANGED <<pc, k, after>> /\ (status' = "NOT_STARTED" => status = "NOT_STARTED")
      BY <2>1 DEF SensorStep, Complete, Isr, callVars, vars
    <3> QED BY ONLY <3>1 DEF Collecting
  <2>2. CASE CallStep
    BY <2>2 DEF CallStep, CallSingle, CallStart, CallMultiple
  <2>3. CASE Begin
    BY <2>3 DEF Begin
  <2>4. CASE Block \/ Check
    BY <2>4 DEF Block, Check
  <2>5. CASE Sanity
    <3>1. k = 1 /\ S \in Sensors /\ pc = "sanity"
      BY <2>5, OrderFacts, LastIs DEF Sanity, PassInv, Checking, S
    <3> QED BY <2>5, <3>1 DEF Sanity, IsDone, Spent, callVars
  <2>6. CASE Poll \/ Read
    BY <2>6 DEF Poll, Read, callVars
  <2>7. CASE Clear \/ ClearAgain
    BY <2>7 DEF Clear, ClearAgain, WriteFails, callVars
  <2> QED BY <2>1, <2>2, <2>3, <2>4, <2>5, <2>6, <2>7
             DEF Next, DriverStep, Halted
<1>6. pc = "begin" => after \in {"block", "fresh"} /\ (after = "block" => status = "NOT_STARTED")
  BY <1>1 DEF PollsInv, PollsUse, TypeOK
<1>7. Round' = Later(delivered[Mid], d)' /\ \A s \in Sensors : delivered'[s] = delivered'[Mid]
  BY <1>2, <1>4 DEF Lead, Later
<1>8. d =< faults' + (IF pc' = "start" /\ after' = "fresh" /\ k' > 1 THEN 2 ELSE 1)
  BY <1>1, <1>2, <1>5, BoundIs DEF Lead
<1> QED BY <1>3, <1>5, <1>6, <1>7, <1>8, BoundIs DEF Lead

(* A start that begins a round adds one to the lead; a failed transfer makes*)
(* room for it, and the delivery brings it back to one.                     *)
LEMMA LeadStart ==
    ASSUME IInv, Polls, NEW d \in 0 .. MaxFaults + 2, Lead(d), Start
    PROVE  /\ \E e \in 0 .. MaxFaults + 2 : Lead(e)'
           /\ reply' = "fresh" /\ reply # "fresh" =>
                 \A s \in Sensors : latest'[s].n # delivered[s]
<1>1. PollsInv
  BY DEF IInv, PollsInv, UseInv, RoundInv
<1>2. /\ UNCHANGED <<status, latest, after>> /\ pc = "start"
      /\ k \in 1 .. Last /\ S \in Sensors /\ status # "NOT_STARTED" /\ after \in {"block", "fresh"}
      /\ reply = "none"
  BY <1>1, OrderFacts DEF Start, At, WriteFails, PollsInv, TypeOK, S, PollsUse
<1>3. \/ /\ sensor' = Started /\ k < Last /\ pc' = "start" /\ k' = k + 1
         /\ UNCHANGED <<faults, delivered, reply>>
      \/ /\ sensor' = Started /\ after = "block" /\ pc' = "block"
         /\ UNCHANGED <<faults, delivered, reply>>
      \/ /\ sensor' = Started /\ after = "fresh" /\ pc' = "idle" /\ reply' = "fresh"
         /\ UNCHANGED faults /\ delivered' = [s \in Sensors |-> latest[s].n]
      \/ /\ sensor' \in {sensor, Started} /\ pc' = "idle" /\ reply' = "error"
         /\ UNCHANGED delivered /\ faults' = faults + 1
  BY <1>2 DEF Start, WriteFails, Return, StartsDone, Fault, NoFault, runVars
<1>4. Round' = IF sensor' = Started /\ k = 1 THEN Succ(Round) ELSE Round
  <2>1. CASE sensor' = Started /\ k = 1
    BY <1>1, <1>2, <2>1, StartedIs DEF Round, S, Mid, PollsInv
  <2>2. CASE sensor' = Started /\ k # 1
    <3>1. Mid # S /\ Mid \in Sensors
      BY <1>2, <2>2, OrderFacts, LastIs DEF Mid, S
    <3> QED BY <1>1, <1>2, <2>2, <3>1, StartedIs DEF Round, PollsInv
  <2>3. CASE sensor' # Started
    BY <1>3, <2>3 DEF Round
  <2> QED BY <2>1, <2>2, <2>3
<1>5. after = "fresh" => /\ latest[Mid].n \in 0 .. Rounds - 1
                         /\ \A s \in Sensors : latest[s].n = latest[Mid].n
                         /\ Round = IF k = 1 THEN latest[Mid].n ELSE Succ(latest[Mid].n)
  <2> SUFFICES ASSUME after = "fresh" PROVE
          /\ latest[Mid].n \in 0 .. Rounds - 1
          /\ \A s \in Sensors : latest[s].n = latest[Mid].n
          /\ Round = IF k = 1 THEN latest[Mid].n ELSE Succ(latest[Mid].n)
    OBVIOUS
  <2>1. \A s \in Sensors : Round = IF k = 1 THEN latest[s].n ELSE Succ(latest[s].n)
    BY <1>1, <1>2 DEF PollsInv, PictureInv
  <2>2. \A s \in Sensors : latest[s].n \in 0 .. Rounds - 1
    BY <1>1, SensorIs DEF PollsInv
  <2> QED BY <2>1, <2>2, SuccInjective, OrderFacts
<1>6. ASSUME after = "fresh"
      PROVE  /\ \A s \in Sensors : latest'[s].n # delivered[s]
             /\ sensor' = Started => Round' = Succ(latest[Mid].n)
  <2> DEFINE D == delivered[Mid]
             m == latest[Mid].n
  <2>1. D \in 0 .. Rounds - 1 /\ m \in 0 .. Rounds - 1 /\ Round = Later(D, d)
    BY <1>1, <1>5, <1>6, BoundIs DEF Lead
  <2>2. \A s \in Sensors : latest'[s].n = m /\ delivered[s] = D
    BY <1>2, <1>5, <1>6 DEF Lead
  <2>3. CASE k = 1
    <3>1. d \in 0 .. Rounds - 1 /\ d > 0
      BY <1>1, <1>2, <1>6, <2>3, BoundIs DEF Lead
    <3>2. m # D
      BY <1>5, <1>6, <2>1, <2>3, <3>1, LaterIs
    <3> QED BY <1>4, <1>5, <1>6, <2>2, <2>3, <3>2
  <2>4. CASE k > 1
    <3>1. d - 1 \in 0 .. Rounds - 1 /\ d - 1 > 0 /\ (d - 1) + 1 = d
      BY <1>1, <1>2, <1>6, <2>4, BoundIs DEF Lead
    <3> DEFINE n == d - 1
    <3>2. n \in 0 .. Rounds - 1 /\ n > 0 /\ Round = Later(D, n + 1)
      BY <2>1, <3>1
    <3> HIDE DEF n
    <3>3. Succ(m) = Succ(Later(D, n)) /\ Later(D, n) \in 0 .. Rounds - 1 /\ Later(D, n) # D
      BY <1>5, <1>6, <2>1, <2>4, <3>2, LaterIs
    <3>4. m # D
      BY <2>1, <3>3, SuccInjective
    <3> QED BY <1>4, <1>5, <1>6, <2>2, <2>4, <3>4
  <2> QED BY <1>2, <2>3, <2>4, LastIs
<1>7. reply' = "fresh" /\ reply # "fresh" => \A s \in Sensors : latest'[s].n # delivered[s]
  BY <1>2, <1>3, <1>6
<1>8. CASE reply' = "fresh"
  <2>1. /\ delivered' = [s \in Sensors |-> latest[s].n] /\ pc' = "idle" /\ sensor' = Started
        /\ faults' = faults /\ after = "fresh"
    BY <1>2, <1>3, <1>8
  <2>2. \A s \in Sensors : delivered'[s] = latest[Mid].n
    BY <1>5, <2>1
  <2>3. Round' = Later(latest[Mid].n, 1)
    BY <1>5, <1>6, <2>1, LaterIs
  <2>4. Lead(1)'
    BY <1>1, <1>2, <2>1, <2>2, <2>3, OrderFacts, BoundIs
       DEF Lead, Collecting, Later
  <2>5. 1 \in 0 .. MaxFaults + 2
    BY BoundsAssumption
  <2> QED BY <1>7, <2>4, <2>5
<1>9. CASE reply' # "fresh" /\ ~(sensor' = Started /\ k = 1)
  <2>1. Round' = Round /\ UNCHANGED delivered /\ faults' \in Nat
    BY <1>1, <1>3, <1>4, <1>9, BoundIs
  <2>2. \A s \in Sensors : ~Spent(s)' => d >= 1
    <3>1. CASE sensor' = sensor
      BY <3>1 DEF Lead, Spent
    <3>2. CASE sensor' = Started /\ k > 1
      BY <1>2, <3>2 DEF Lead
    <3> QED BY <1>2, <1>3, <1>9, <3>1, <3>2, LastIs
  <2>3. Round' = Later(delivered'[Mid], d) /\ \A s \in Sensors : delivered'[s] = delivered'[Mid]
    BY <2>1 DEF Lead
  <2>4. Lead(d)'
    <3>1. CASE pc' = "start"
      <4>1. k > 1 /\ k' = k + 1 /\ faults' = faults
        BY <1>2, <1>3, <1>9, <3>1, LastIs
      <4> QED BY <1>1, <1>2, <2>2, <2>3, <3>1, <4>1, BoundIs, LastIs
                 DEF Lead, Collecting
    <3>2. CASE pc' # "start"
      <4>1. d =< faults' + 1
        <5>1. CASE after = "block"
          BY <1>1, <1>2, <1>3, <1>9, <5>1, BoundIs DEF Lead
        <5>2. CASE after = "fresh"
          <6>1. faults' = faults + 1
            BY <1>3, <1>9, <3>2, <5>2
          <6> QED BY <1>1, <1>2, <5>2, <6>1, BoundIs DEF Lead
        <5> QED BY <1>2, <5>1, <5>2
      <4>2. pc' \in {"block", "idle"}
        BY <1>3, <1>9, <3>2
      <4> QED BY <1>2, <2>2, <2>3, <3>2, <4>1, <4>2 DEF Lead, Collecting
    <3> QED BY <3>1, <3>2
  <2> QED BY <1>7, <2>4
<1>10. CASE reply' # "fresh" /\ sensor' = Started /\ k = 1
  <2>1. UNCHANGED delivered /\ faults' \in Nat
    BY <1>1, <1>3, <1>10, BoundIs
  <2>2. d =< faults + 1 /\ (after = "block" => d = 0) /\ (after = "fresh" => d >= 1)
    BY <1>1, <1>2, <1>10, BoundIs DEF Lead
  <2>3. PICK e \in Nat : e = d + 1
    OBVIOUS
  <2>4. e \in 0 .. MaxFaults + 2 /\ e >= 1 /\ (after = "block" => e = 1) /\ (after = "fresh" => e >= 2)
        /\ e =< faults + 2 /\ d \in 0 .. Rounds - 1
    BY <1>1, <2>2, <2>3, BoundIs
  <2>5. Round' = Later(delivered'[Mid], e) /\ \A s \in Sensors : delivered'[s] = delivered'[Mid]
    <3>1. Round' = Succ(Later(delivered[Mid], d))
      BY <1>4, <1>10 DEF Lead
    <3> QED BY <1>1, <2>1, <2>4, <2>3, <3>1, LaterIs, BoundIs DEF Lead
  <2>6. Lead(e)'
    <3>1. CASE pc' = "start"
      <4>1. k' = 2 /\ faults' = faults
        BY <1>3, <1>10, <3>1
      <4> QED BY <1>1, <1>2, <2>4, <2>5, <3>1, <4>1, BoundIs
                 DEF Lead, Collecting
    <3>2. CASE pc' # "start"
      <4>1. e =< faults' + 1
        <5>1. CASE after = "block"
          <6>1. e = 1
            BY <2>4, <5>1
          <6>2. PICK f \in Nat : faults' = f
            BY <2>1
          <6> QED BY <6>1, <6>2
        <5>2. CASE after = "fresh"
          <6>1. faults' = faults + 1
            BY <1>3, <1>10, <3>2, <5>2
          <6> QED BY <1>1, <2>4, <6>1, BoundIs
        <5> QED BY <1>2, <5>1, <5>2
      <4>2. pc' \in {"block", "idle"}
        BY <1>3, <1>10, <3>2
      <4> QED BY <1>2, <2>4, <2>5, <3>2, <4>1, <4>2 DEF Lead, Collecting
    <3> QED BY <3>1, <3>2
  <2> QED BY <1>7, <2>4, <2>6
<1> QED BY <1>8, <1>9, <1>10

LEMMA LeadInitially == Init => LeadInv
<1> SUFFICES ASSUME Init PROVE \E d \in 0 .. MaxFaults + 2 : Lead(d)
  BY DEF LeadInv
<1>1. 0 \in 0 .. MaxFaults + 2
  BY BoundsAssumption
<1>2. Lead(0)
  BY OrderFacts, BoundsAssumption
     DEF Init, Lead, Later, Round, Collecting, Spent
<1> QED BY <1>1, <1>2

LEMMA LeadStep ==
    ASSUME IInv, LeadInv, [Next]_vars
    PROVE  LeadInv'
<1> SUFFICES ASSUME Polls PROVE \E d \in 0 .. MaxFaults + 2 : Lead(d)'
  BY ProgramFixed DEF LeadInv
<1>1. PICK d \in 0 .. MaxFaults + 2 : Lead(d)
  BY DEF LeadInv
<1>2. CASE Start
  BY <1>1, <1>2, LeadStart
<1>3. CASE ~Start
  BY <1>1, <1>3, LeadQuiet
<1> QED BY <1>2, <1>3

(* Ranges returned as fresh are newer than those returned as fresh before.  *)
THEOREM NewEachTime == ASSUME NotMixed PROVE Spec => FreshIsNew
<1>1. IInv /\ LeadInv /\ [Next]_vars =>
          [reply' = "fresh" /\ reply # "fresh" =>
              \A s \in Sensors : latest'[s].n # delivered[s]]_vars
  <2> SUFFICES ASSUME IInv, LeadInv, [Next]_vars, reply' = "fresh", reply # "fresh"
               PROVE  \A s \in Sensors : latest'[s].n # delivered[s]
    OBVIOUS
  <2>1. Start /\ Polls
    <3>1. Polls
      BY UseStep, ProgramFixed DEF IInv, UseInv, SingleUse, StartsUse
    <3>2. ~(SensorStep \/ Isr \/ CallStep \/ Begin \/ Block \/ Check \/ UNCHANGED vars)
      BY DEF SensorStep, Complete, Isr, CallStep, CallStart, CallMultiple,
             CallSingle,
             Begin, Block, Check, vars, Return
    <3>3. ~(Sanity \/ Poll \/ Read \/ Clear \/ ClearAgain)
      BY DEF Sanity, Poll, Read, Clear, ClearAgain, WriteFails, Return
    <3> QED BY <3>1, <3>2, <3>3 DEF Next, DriverStep, Halted
  <2>2. PICK d \in 0 .. MaxFaults + 2 : Lead(d)
    BY <2>1 DEF LeadInv
  <2> QED BY <2>1, <2>2, LeadStart
<1>2. IInv /\ LeadInv /\ [Next]_vars => IInv' /\ LeadInv'
  BY LeadStep, TypeStep, UseStep, RoundStep DEF IInv
<1>3. Init => IInv /\ LeadInv
  BY Initially, LeadInitially
<1> QED BY <1>1, <1>2, <1>3, PTL DEF Spec, FreshIsNew

-----------------------------------------------------------------------------
(* What holds until a transfer fails.                                       *)

EdgeSeen ==
    /\ ifg => sensor[Mid].done
    /\ status = "DONE" /\ (Waiting \/ pc = "start") => sensor[Mid].done
Ongoing ==
    /\ Waiting /\ status # "NOT_STARTED" => \A s \in Sensors : ~Spent(s)
    /\ pc = "start" => \A j \in 1 .. k - 1 : ~Spent(Order[j])
Normalised == \A s \in Sensors : (pc = "clear" => s # S) => latest[s].mm # 8191
Cached ==
    Waiting \/ (pc \in {"begin", "start"} /\ after = "block") =>
        \A s \in Sensors : latest[s].n = delivered[s]
PollPromise == pc # "assert" /\ EdgeSeen /\ Ongoing /\ Normalised /\ Cached
SinglePromise ==
    /\ \A s \in Sensors :
          /\ s # S \/ pc \in {"idle", "start", "clear_again"} => Spent(s)
          /\ sensor[s].done => ~sensor[s].busy
    /\ pc \in {"read", "clear"} => sensor[S].done
    /\ pc = "clear_again" \/ reply = "single" => own.mm # 8191
PromiseInv == faults = 0 => (Polls => PollPromise) /\ (Single => SinglePromise)

LEMMA FaultsGrow ==
    ASSUME TypeOK, [Next]_vars
    PROVE  /\ faults' = 0 => faults = 0
           /\ (faults' = faults + 1 => faults' # 0) /\ (Fault => faults' # 0)
<1>1. faults \in Nat
  BY BoundsAssumption DEF TypeOK
<1>2. faults' = faults \/ faults' = faults + 1
  <2> USE DEF Fault, NoFault, callVars, runVars, WriteFails, IsDone, IsNotDone
  <2>1. CASE SensorStep \/ Isr \/ CallStep \/ Begin \/ Block \/ Check \/ Sanity
    BY <2>1
       DEF SensorStep, Complete, Isr, CallStep, CallStart, CallMultiple,
           CallSingle,
                Begin, Block, Check, Sanity
  <2>2. CASE Start \/ Poll \/ Read \/ Clear \/ ClearAgain
    BY <2>2 DEF Start, Poll, Read, Clear, ClearAgain
  <2>3. CASE UNCHANGED vars
    BY <2>3 DEF vars
  <2> QED BY <2>1, <2>2, <2>3 DEF Next, DriverStep, Halted
<1> QED BY <1>1, <1>2 DEF Fault

(* The promises of a program that reads single sensors, and of one that polls.*)
LEMMA SingleStep ==
    ASSUME TypeOK, Single, SingleUse, SinglePromise, [Next]_vars, faults' = 0
    PROVE  SinglePromise'
<1>1. ~Fault /\ k \in Nat
  BY FaultsGrow, LastIs DEF TypeOK
<1> USE OrderFacts, <1>1 DEF SinglePromise, SingleUse, Collecting
<1>2. CASE SensorStep
  <2>1. PICK c \in Sensors : Complete(c)
    BY <1>2 DEF SensorStep
  <2>2. UNCHANGED <<pc, k, reply, own>> /\ S' = S
    BY <2>1 DEF Complete, callVars, S
  <2>3. sensor[c].busy
    BY <2>1 DEF Complete
  <2>4. c = S /\ ~sensor[S].done /\ UNCHANGED <<pc, k, reply, own>> /\ S' = S
    BY <2>2, <2>3 DEF Spent
  <2>5. pc = "poll"
    BY <2>1, <2>4, CompleteIs DEF Spent
  <2> QED BY <2>1, <2>4, <2>5, CompleteIs DEF Spent
<1>3. CASE Isr \/ UNCHANGED vars
  BY <1>3 DEF Isr, vars, callVars, S, Spent
<1>4. CASE CallStep
  BY <1>4, ProgramIs
     DEF CallStep, CallStart, CallMultiple, CallSingle, At, Spent
<1>5. CASE Begin \/ Block \/ Check \/ Sanity
  BY <1>5 DEF Begin, Block, Check, Sanity, At
<1>6. CASE Start
  <2>1. /\ pc = "start" /\ k' = k /\ S' = S /\ sensor' = Started /\ pc' = "poll" /\ reply' = reply
    BY <1>6 DEF Start, At, StartsDone, WriteFails, S
  <2>2. k \in 1 .. Last
    BY <2>1 DEF TypeOK
  <2> QED BY <2>1, <2>2, StartedIs DEF Spent
<1>7. CASE Poll
  BY <1>7 DEF Poll, At, callVars, IsDone, Spent, S
<1>8. CASE Read
  BY <1>8 DEF Read, At, callVars, Spent, S
<1>9. CASE Clear
  <2>1. /\ pc = "clear" /\ k' = k /\ S' = S /\ sensor' = Cleared /\ pc' = "clear_again" /\ reply' = reply
        /\ own' = Normal(own)
    BY <1>9 DEF Clear, At, WriteFails, S, callVars, SetTarget, Target
  <2>2. k \in 1 .. Last /\ own \in Value
    BY <2>1 DEF TypeOK
  <2> QED BY <2>1, <2>2, ClearedIs, NormalIs DEF Spent
<1>10. CASE ClearAgain
  <2>1. /\ pc = "clear_again" /\ k' = k /\ S' = S /\ sensor' = Cleared /\ pc' = "idle" /\ reply' = "single"
        /\ own' = own
    BY <1>10 DEF ClearAgain, At, WriteFails, S, Return
  <2>2. k \in 1 .. Last
    BY <2>1 DEF TypeOK
  <2> QED BY <2>1, <2>2, ClearedIs DEF Spent
<1> QED BY <1>2, <1>3, <1>4, <1>5, <1>6, <1>7, <1>8, <1>9, <1>10
           DEF Next, DriverStep, Halted

LEMMA PollPromiseStep ==
    ASSUME PollsInv, Polls, PollPromise, PollsUse', [Next]_vars, faults' = 0
    PROVE  PollPromise'
<1>1. ~Fault /\ k \in Nat /\ TypeOK
  BY FaultsGrow, LastIs DEF TypeOK, PollsInv
<1> USE OrderFacts, <1>1 DEF PollPromise
<1>2. CASE SensorStep
  <2>1. PICK c \in Sensors : Complete(c)
    BY <1>2 DEF SensorStep
  <2>2. /\ UNCHANGED <<status, latest, pc, k, after, reply, delivered>> /\ S' = S
        /\ ifg' => ifg \/ c = Mid
    BY <2>1 DEF Complete, callVars, S
  <2>3. /\ \A s \in Sensors : ~Spent(s) => ~Spent(s)'
        /\ \A s \in Sensors : sensor[s].done => sensor'[s].done
    BY <2>1, CompleteIs DEF Spent
  <2>4. sensor'[c].done
    BY <2>1, CompleteIs
  <2>5. pc = "start" => \A j \in 1 .. k - 1 : Order[j] \in Sensors
    BY LastIs DEF TypeOK
  <2>6. EdgeSeen'
    <3>1. Mid \in Sensors /\ (ifg' => ifg \/ sensor'[Mid].done)
      BY <2>2, <2>4
    <3>2. sensor[Mid].done => sensor'[Mid].done
      BY <2>3, <3>1
    <3> QED BY <2>2, <3>1, <3>2 DEF EdgeSeen, Waiting
  <2>7. Ongoing'
    BY <2>2, <2>3, <2>5 DEF Ongoing, Waiting
  <2>8. Normalised' /\ Cached'
    BY <2>2 DEF Normalised, Cached, Waiting
  <2> QED BY <2>2, <2>6, <2>7, <2>8
<1>3. CASE Isr \/ UNCHANGED vars
  <2>1. /\ UNCHANGED <<sensor, latest, pc, k, after, reply, delivered>> /\ S' = S
        /\ ifg' => ifg
        /\ status' = "DONE" => status = "DONE" \/ ifg
        /\ status = "NOT_STARTED" => status' = "NOT_STARTED"
    BY <1>3 DEF Isr, vars, callVars, S, PollsInv, PassInv, Untouched
  <2> QED BY <2>1 DEF EdgeSeen, Ongoing, Normalised, Cached, Waiting, Spent
<1>4. CASE CallStep
  <2>1. /\ UNCHANGED <<sensor, latest, status, ifg, delivered>> /\ pc = "idle"
        /\ \/ pc' = "begin" /\ status = "NOT_STARTED" /\ after' = "block"
           \/ pc' = "check" /\ status # "NOT_STARTED"
    BY <1>4, ProgramIs DEF CallStep, CallStart, CallMultiple, CallSingle, At
  <2> QED BY <2>1 DEF EdgeSeen, Ongoing, Normalised, Cached, Waiting, Spent
<1>5. CASE Begin
  <2>1. /\ UNCHANGED <<sensor, latest, ifg, delivered, after>> /\ pc = "begin"
        /\ pc' = "start" /\ k' = 1 /\ status' = "MEASURING"
    BY <1>5 DEF Begin, At, PollsInv, PassInv
  <2> QED BY <2>1 DEF EdgeSeen, Ongoing, Normalised, Cached, Waiting, Spent
<1>6. CASE Block
  <2>1. /\ UNCHANGED <<sensor, latest, ifg, status, delivered>> /\ pc = "block" /\ pc' = "check"
    BY <1>6 DEF Block, At
  <2> QED BY <2>1 DEF EdgeSeen, Ongoing, Normalised, Cached, Waiting, Spent
<1>7. CASE Check
  <2>1. /\ UNCHANGED <<sensor, latest, ifg, status, delivered>> /\ pc = "check"
        /\ pc' \in {"check", "idle", "sanity"}
    BY <1>7 DEF Check, At, Return
  <2> QED BY <2>1 DEF EdgeSeen, Ongoing, Normalised, Cached, Waiting, Spent
<1>8. CASE Sanity
  <2>1. pc = "sanity" /\ S = Mid /\ status = "DONE"
    BY <1>8
       DEF Sanity, At, S, Mid, PollsInv, PassInv, Checking, PollsUse, TypeOK
  <2>2. /\ UNCHANGED <<sensor, latest, ifg, status, delivered, after>> /\ pc' = "poll"
    BY <1>8, <2>1 DEF Sanity, IsNotDone, EdgeSeen, Waiting, callVars
  <2> QED BY <2>1, <2>2
             DEF EdgeSeen, Ongoing, Normalised, Cached, Waiting, Spent
<1>9. CASE Start
  <2>1. /\ UNCHANGED <<ifg, status, latest, after>> /\ pc = "start" /\ sensor' = Started
        /\ k \in 1 .. Last /\ S \in Sensors /\ after \in {"block", "fresh"} /\ status # "NOT_STARTED"
    BY <1>9 DEF Start, At, WriteFails, TypeOK, S, PollsInv, PollsUse
  <2>2. \/ k < Last /\ pc' = "start" /\ k' = k + 1 /\ UNCHANGED <<delivered>>
        \/ k = Last /\ after = "block" /\ pc' = "block" /\ UNCHANGED <<delivered>>
        \/ k = Last /\ after = "fresh" /\ pc' = "idle" /\ delivered' = [s \in Sensors |-> latest[s].n]
    <3>1. k < Last \/ k = Last
      BY <2>1, LastIs
    <3>2. \/ k < Last /\ pc' = "start" /\ k' = k + 1 /\ UNCHANGED <<delivered>>
          \/ ~(k < Last) /\ StartsDone
      BY <1>9, <2>1 DEF Start, WriteFails
    <3> QED BY <2>1, <3>1, <3>2 DEF StartsDone, Return
  <2>3. \A j \in 1 .. k : ~Spent(Order[j])'
    <3>1. \A j \in 1 .. k - 1 : Order[j] \in Sensors /\ Order[j] # S /\ ~Spent(Order[j])
      <4>1. \A j \in 1 .. k - 1 : j \in 1 .. Last /\ j # k
        BY <2>1, LastIs
      <4> QED BY <2>1, <4>1 DEF S, Ongoing
    <3>2. \A j \in 1 .. k - 1 : ~Spent(Order[j])'
      BY <2>1, <3>1, StartedIs DEF Spent
    <3>3. sensor'[Order[k]].busy
      BY <2>1, StartedIs DEF S
    <3>4. \A j \in 1 .. k : j \in 1 .. k - 1 \/ j = k
      OBVIOUS
    <3> QED BY <3>2, <3>3, <3>4 DEF Spent
  <2>4. sensor'[Mid].done = sensor[Mid].done
    BY <2>1, StartedIs
  <2>5. pc' # "start" => \A s \in Sensors : ~Spent(s)'
    BY <2>2, <2>3
  <2>6. pc' = "start" => \A j \in 1 .. k' - 1 : ~Spent(Order[j])'
    BY <2>2, <2>3
  <2>7. EdgeSeen' /\ Ongoing'
    BY <2>1, <2>2, <2>4, <2>5, <2>6 DEF EdgeSeen, Ongoing, Waiting
  <2>8. Normalised'
    BY <2>1, <2>2 DEF Normalised
  <2>9. Cached'
    BY <2>1, <2>2 DEF Cached, Waiting
  <2> QED BY <2>2, <2>7, <2>8, <2>9
<1>10. CASE Poll
  <2>1. /\ UNCHANGED <<sensor, latest, ifg, status, delivered, after>> /\ pc = "poll" /\ pc' = "read"
    BY <1>10 DEF Poll, At, callVars
  <2> QED BY <2>1 DEF EdgeSeen, Ongoing, Normalised, Cached, Waiting, Spent
<1>11. CASE Read
  <2>1. /\ UNCHANGED <<sensor, status, ifg, k, after, delivered>> /\ S' = S /\ pc = "read" /\ pc' = "clear"
        /\ SetTarget({sensor[S].reg}) /\ S \in Sensors /\ after = "fresh"
    BY <1>11 DEF Read, callVars, At, S, PollsInv, PollsUse, Collecting, TypeOK
  <2>2. \A s \in Sensors : s # S => latest'[s] = latest[s]
    BY <2>1 DEF SetTarget, TypeOK
  <2> QED BY <2>1, <2>2
             DEF EdgeSeen, Ongoing, Normalised, Cached, Waiting, Spent
<1>12. CASE Clear
  <2>1. Collecting
    BY <1>12 DEF Clear, At, Collecting
  <2>2. /\ UNCHANGED <<status, ifg, k, after, delivered>> /\ S' = S /\ pc = "clear" /\ pc' = "clear_again"
        /\ latest' = [latest EXCEPT ![S] = Normal(latest[S])] /\ sensor' = Cleared
        /\ S \in Sensors /\ after = "fresh" /\ ~ifg
    BY <1>12, <2>1
       DEF Clear, callVars, At, S, PollsInv, PollsUse, TypeOK, WriteFails,
           SetTarget, Target
  <2>3. \A s \in Sensors : latest'[s].mm # 8191
    BY <2>2, NormalIs DEF TypeOK, Normalised
  <2> QED BY <2>2, <2>3
             DEF EdgeSeen, Ongoing, Normalised, Cached, Waiting, Spent
<1>13. CASE ClearAgain
  <2>1. /\ UNCHANGED <<latest, ifg, status, delivered, after>> /\ pc = "clear_again" /\ ~ifg /\ after = "fresh"
        /\ pc' \in {"poll", "begin"}
    BY <1>13 DEF ClearAgain, WriteFails, At, PollsInv, PollsUse, Collecting
  <2> QED BY <2>1 DEF EdgeSeen, Ongoing, Normalised, Cached, Waiting
<1> QED BY <1>2, <1>3, <1>4, <1>5, <1>6, <1>7, <1>8, <1>9, <1>10, <1>11, <1>12,
           <1>13 DEF Next, DriverStep, Halted

LEMMA PromiseInitially == Init => PromiseInv
<1> SUFFICES ASSUME Init PROVE PollPromise /\ SinglePromise
  BY DEF PromiseInv
<1> QED BY LastIs, OrderFacts
           DEF Init, PollPromise, EdgeSeen, Ongoing, Normalised, Cached,
               SinglePromise, Waiting, Spent, NoValue, VL53L0X_OUT_OF_RANGE

LEMMA PromiseStep ==
    ASSUME IInv, PromiseInv, [Next]_vars
    PROVE  PromiseInv'
<1> SUFFICES ASSUME faults' = 0 PROVE (Polls => PollPromise') /\ (Single => SinglePromise')
  BY ProgramFixed DEF PromiseInv
<1>1. faults = 0
  BY FaultsGrow DEF IInv
<1>2. UseInv'
  BY UseStep DEF IInv
<1>3. CASE Polls
  BY <1>1, <1>2, <1>3, PollPromiseStep, ProgramFixed, ProgramIs
     DEF PromiseInv, IInv, PollsInv, UseInv, RoundInv
<1>4. CASE Single
  BY <1>1, <1>4, SingleStep, ProgramIs DEF PromiseInv, IInv, UseInv
<1> QED BY <1>3, <1>4

(* Until a transfer fails the sanity check holds, measurements are going on,*)
(* cached values are old ones and no range is 8191 (vl53l0x.h:44-51), for   *)
(* every list of sensors and every application.                             *)
THEOREM PromisesKept == ASSUME NotMixed PROVE Spec => []PromisesUntilFault
<1>1. IInv /\ PromiseInv => PromisesUntilFault
  <2> SUFFICES ASSUME IInv, PromiseInv, faults = 0
               PROVE  SanityCheckHolds /\ MeasurementOngoing /\ RangesNormalised /\ CachedIsOld
    BY DEF PromisesUntilFault
  <2> USE DEF SanityCheckHolds, MeasurementOngoing, RangesNormalised, CachedIsOld
  <2>1. CASE Polls
    BY <2>1
       DEF IInv, UseInv, PollsUse, PromiseInv, PollPromise, Ongoing, Normalised,
           Cached, Waiting, Spent, TypeOK
  <2>2. CASE Single
    BY <2>2 DEF IInv, UseInv, SingleUse, PromiseInv, SinglePromise, Collecting
  <2>3. CASE Starts
    BY <2>3 DEF IInv, UseInv, StartsUse
  <2> QED BY <2>1, <2>2, <2>3 DEF IInv, UseInv
<1>2. IInv /\ PromiseInv /\ [Next]_vars => IInv' /\ PromiseInv'
  BY PromiseStep, TypeStep, UseStep, RoundStep DEF IInv
<1>3. Init => IInv /\ PromiseInv
  BY Initially, PromiseInitially
<1> QED BY <1>1, <1>2, <1>3, PTL DEF Spec

(* No measurement is started on a sensor that measures or whose result is   *)
(* unread: by a program that polls never, by one that reads single sensors  *)
(* until a transfer fails.                                                  *)
THEOREM StartsAtRest == ASSUME NotMixed PROVE Spec => StartsIdleSensor
<1>1. IInv /\ PromiseInv /\ [Next]_vars =>
          [program = {"multiple"} \/ (program = {"single"} /\ faults' = 0) =>
              \A s \in Sensors : sensor'[s].started # sensor[s].started =>
                  ~sensor[s].busy /\ ~sensor[s].done]_vars
  <2> SUFFICES ASSUME IInv, PromiseInv, [Next]_vars, Polls \/ (Single /\ faults' = 0),
                      NEW s \in Sensors, sensor'[s].started # sensor[s].started
               PROVE  Spent(s)
    BY DEF Polls, Single, Spent
  <2>1. TypeOK
    BY DEF IInv
  <2>2. Start
    <3>1. ~SensorStep
      BY <2>1, CompleteIs DEF SensorStep
    <3>2. ~(Isr \/ CallStep \/ Begin \/ Block \/ Check \/ Sanity \/ Poll \/ Read \/ UNCHANGED vars)
      BY DEF Isr, CallStep, CallStart, CallMultiple, CallSingle, Begin, Block,
             Check, Sanity, Poll, Read, vars
    <3>3. ~(Clear \/ ClearAgain)
      <4> SUFFICES ASSUME Clear \/ ClearAgain PROVE FALSE
        OBVIOUS
      <4>1. k \in 1 .. Last /\ sensor' \in {sensor, Cleared}
        BY <2>1 DEF Clear, ClearAgain, At, WriteFails, TypeOK
      <4> QED BY <2>1, <4>1, ClearedIs
    <3> QED BY <3>1, <3>2, <3>3 DEF Next, DriverStep, Halted
  <2>3. pc = "start" /\ k \in 1 .. Last /\ sensor' \in {sensor, Started}
    BY <2>1, <2>2 DEF Start, At, WriteFails, TypeOK
  <2>4. s = S
    BY <2>1, <2>3, StartedIs
  <2>5. CASE Polls
    BY <2>3, <2>4, <2>5, LastIs DEF IInv, RoundInv, PassInv, Starting, S
  <2>6. CASE Single /\ faults' = 0
    <3>1. SinglePromise
      BY <2>1, <2>6, FaultsGrow DEF PromiseInv
    <3> QED BY <2>3, <3>1 DEF SinglePromise
  <2> QED BY <2>5, <2>6
<1>2. IInv /\ PromiseInv /\ [Next]_vars => IInv' /\ PromiseInv'
  BY PromiseStep, TypeStep, UseStep, RoundStep DEF IInv
<1>3. Init => IInv /\ PromiseInv
  BY Initially, PromiseInitially
<1> QED BY <1>1, <1>2, <1>3, PTL DEF Spec, StartsIdleSensor

(* So no result is delivered twice, and none is thrown away.                *)
THEOREM EachOnce == ASSUME NotMixed PROVE Spec => EachResultOnce
BY NewEachTime, StartsAtRest, PTL DEF EachResultOnce

-----------------------------------------------------------------------------
(* The arithmetic of the decision.                                          *)

LEMMA MeanHalf ==
    ASSUME NEW a \in Nat, NEW b \in Nat, a < 600, b < 600
    PROVE  Mean(a, b) = (a + b) \div 2
<1>1. (a + b) % 65536 = a + b
  OBVIOUS
<1> QED BY <1>1 DEF Mean

LEMMA MeanIs ==
    ASSUME NEW a \in Nat, NEW b \in Nat, a < 600, b < 600
    PROVE  /\ Mean(a, b) \in Nat /\ Mean(a, b) < 600
           /\ (a =< Mean(a, b) /\ Mean(a, b) =< b) \/ (b =< Mean(a, b) /\ Mean(a, b) =< a)
BY MeanHalf

LEMMA HalfMonotone ==
    ASSUME NEW a \in Nat, NEW b \in Nat, a =< b
    PROVE  a \div 2 =< b \div 2
OBVIOUS

LEMMA MeanMonotone ==
    ASSUME NEW a \in Nat, NEW b \in Nat, NEW d \in Nat, a < 600, b < 600, d =< a
    PROVE  Mean(d, b) =< Mean(a, b) /\ Mean(b, d) =< Mean(b, a)
<1>1. d < 600
  OBVIOUS
<1>2. /\ Mean(d, b) = (d + b) \div 2 /\ Mean(a, b) = (a + b) \div 2
      /\ Mean(b, d) = (b + d) \div 2 /\ Mean(b, a) = (b + a) \div 2
  BY <1>1, MeanHalf
<1>3. (d + b) \div 2 =< (a + b) \div 2
  BY HalfMonotone
<1>4. (b + d) \div 2 =< (b + a) \div 2
  BY HalfMonotone
<1> QED BY <1>2, <1>3, <1>4

LEMMA ClassIs ==
    ASSUME NEW a \in Nat, NEW b \in Nat, a =< b
    PROVE  /\ Class[enemy_range(a)] \in 1 .. 3
           /\ Class[enemy_range(a)] =< Class[enemy_range(b)]
BY DEF Class, enemy_range, RANGE_CLOSE, RANGE_MID

(* What enemy_get finds, for each set of sensors that see the opponent.     *)
LEMMA GetIs ==
    ASSUME NEW m \in Nat, NEW l \in Nat, NEW r \in Nat
    PROVE  /\ m < 600 /\ r < 600 /\ l < 600 =>
                 enemy_get(m, l, r) = Found("ALL", Mean(Mean(m, l), r))
           /\ m < 600 /\ r < 600 /\ ~(l < 600) =>
                 enemy_get(m, l, r) = Found("MID_RIGHT", Mean(m, r))
           /\ m < 600 /\ ~(r < 600) /\ l < 600 =>
                 enemy_get(m, l, r) = Found("MID_LEFT", Mean(m, l))
           /\ m < 600 /\ ~(r < 600) /\ ~(l < 600) =>
                 enemy_get(m, l, r) = Found("MID", m)
           /\ ~(m < 600) /\ r < 600 /\ l < 600 =>
                 enemy_get(m, l, r) = NotFound("IMPOSSIBLE")
           /\ ~(m < 600) /\ r < 600 /\ ~(l < 600) =>
                 enemy_get(m, l, r) = Found("RIGHT", r)
           /\ ~(m < 600) /\ ~(r < 600) /\ l < 600 =>
                 enemy_get(m, l, r) = Found("LEFT", l)
           /\ ~(m < 600) /\ ~(r < 600) /\ ~(l < 600) =>
                 enemy_get(m, l, r) = NotFound("NONE")
<1> DEFINE mid == m < 600  right == r < 600  left == l < 600
<1> DEFINE A == Found("ALL", Mean(Mean(m, l), r))  B == Found("MID_RIGHT", Mean(m, r))
           C == Found("MID_LEFT", Mean(m, l))  D == Found("MID", m)
           E == NotFound("IMPOSSIBLE")  F == Found("RIGHT", r)  G == Found("LEFT", l)
           H == NotFound("NONE")
<1>1. enemy_get(m, l, r) =
          CASE mid /\ right /\ left -> A
            [] mid /\ right /\ ~left -> B
            [] mid /\ ~right /\ left -> C
            [] mid /\ ~right /\ ~left -> D
            [] ~mid /\ right /\ left -> E
            [] ~mid /\ right /\ ~left -> F
            [] ~mid /\ ~right /\ left -> G
            [] OTHER -> H
  BY DEF enemy_get, RANGE_DETECT_THRESHOLD
<1>2. mid \in BOOLEAN /\ right \in BOOLEAN /\ left \in BOOLEAN
  OBVIOUS
<1> HIDE DEF mid, right, left, A, B, C, D, E, F, G, H
<1>3. /\ mid /\ right /\ left => enemy_get(m, l, r) = A
      /\ mid /\ right /\ ~left => enemy_get(m, l, r) = B
      /\ mid /\ ~right /\ left => enemy_get(m, l, r) = C
      /\ mid /\ ~right /\ ~left => enemy_get(m, l, r) = D
      /\ ~mid /\ right /\ left => enemy_get(m, l, r) = E
      /\ ~mid /\ right /\ ~left => enemy_get(m, l, r) = F
      /\ ~mid /\ ~right /\ left => enemy_get(m, l, r) = G
      /\ ~mid /\ ~right /\ ~left => enemy_get(m, l, r) = H
  BY <1>1, <1>2
<1> QED BY <1>3 DEF mid, right, left, A, B, C, D, E, F, G, H
(* The position names the sensors that see it.                              *)
Position(m, l, r) ==
    IF m < 600 THEN IF r < 600 THEN IF l < 600 THEN "ALL" ELSE "MID_RIGHT"
                               ELSE IF l < 600 THEN "MID_LEFT" ELSE "MID"
               ELSE IF r < 600 THEN IF l < 600 THEN "IMPOSSIBLE" ELSE "RIGHT"
                               ELSE IF l < 600 THEN "LEFT" ELSE "NONE"

LEMMA PositionIs ==
    ASSUME NEW m \in Nat, NEW l \in Nat, NEW r \in Nat
    PROVE  enemy_get(m, l, r).position = Position(m, l, r)
<1>1. CASE m < 600 /\ r < 600 /\ l < 600
  BY <1>1, GetIs DEF Found, NotFound, Position
<1>2. CASE m < 600 /\ r < 600 /\ ~(l < 600)
  BY <1>2, GetIs DEF Found, NotFound, Position
<1>3. CASE m < 600 /\ ~(r < 600) /\ l < 600
  BY <1>3, GetIs DEF Found, NotFound, Position
<1>4. CASE m < 600 /\ ~(r < 600) /\ ~(l < 600)
  BY <1>4, GetIs DEF Found, NotFound, Position
<1>5. CASE ~(m < 600) /\ r < 600 /\ l < 600
  BY <1>5, GetIs DEF Found, NotFound, Position
<1>6. CASE ~(m < 600) /\ r < 600 /\ ~(l < 600)
  BY <1>6, GetIs DEF Found, NotFound, Position
<1>7. CASE ~(m < 600) /\ ~(r < 600) /\ l < 600
  BY <1>7, GetIs DEF Found, NotFound, Position
<1>8. CASE ~(m < 600) /\ ~(r < 600) /\ ~(l < 600)
  BY <1>8, GetIs DEF Found, NotFound, Position
<1> QED BY <1>1, <1>2, <1>3, <1>4, <1>5, <1>6, <1>7, <1>8

LEMMA DistanceIs == \A d \in Distance : d \in Nat
<1>1. UINT16_MAX \in Nat
  BY DEF UINT16_MAX
<1>2. Distance \subseteq 0 .. UINT16_MAX
  BY EnemyAssumption
<1> QED BY <1>1, <1>2

LEMMA OneSideHolds == OneSide
<1> SUFFICES ASSUME NEW m \in Distance, NEW l \in Distance, NEW r \in Distance
             PROVE  LET enemy == enemy_get(m, l, r)
                        mirrored == enemy_get(m, r, l)
                        at == [left |-> enemy_at_left(enemy), mid |-> enemy_at_mid(enemy),
                               right |-> enemy_at_right(enemy)]
                    IN  /\ enemy_detected(enemy) <=> \E side \in DOMAIN at : at[side]
                        /\ \A a, b \in DOMAIN at : at[a] /\ at[b] => a = b
                        /\ enemy_at_left(enemy) <=> enemy_at_right(mirrored)
  BY DEF OneSide
<1> DEFINE enemy == enemy_get(m, l, r)  mirrored == enemy_get(m, r, l)
           at == [left |-> enemy_at_left(enemy), mid |-> enemy_at_mid(enemy),
                  right |-> enemy_at_right(enemy)]
<1>1. m \in Nat /\ l \in Nat /\ r \in Nat
  BY DistanceIs
<1>2. enemy.position = Position(m, l, r) /\ mirrored.position = Position(m, r, l)
  BY <1>1, PositionIs
<1> HIDE DEF enemy, mirrored
<1>3. enemy_detected(enemy) <=> enemy_at_left(enemy) \/ enemy_at_mid(enemy) \/ enemy_at_right(enemy)
  BY <1>2 DEF Position, enemy_detected, enemy_at_left, enemy_at_mid, enemy_at_right
<1>4. /\ ~(enemy_at_left(enemy) /\ enemy_at_mid(enemy))
      /\ ~(enemy_at_left(enemy) /\ enemy_at_right(enemy))
      /\ ~(enemy_at_mid(enemy) /\ enemy_at_right(enemy))
  BY <1>2 DEF Position, enemy_at_left, enemy_at_mid, enemy_at_right
<1>5. enemy_at_left(enemy) <=> enemy_at_right(mirrored)
  BY <1>2 DEF Position, enemy_at_left, enemy_at_right
<1>6. /\ DOMAIN at = {"left", "mid", "right"}
      /\ at["left"] = enemy_at_left(enemy) /\ at["mid"] = enemy_at_mid(enemy)
      /\ at["right"] = enemy_at_right(enemy)
  OBVIOUS
<1> HIDE DEF at
<1>7. enemy_detected(enemy) <=> \E side \in DOMAIN at : at[side]
  BY <1>3, <1>6
<1>8. \A a, b \in DOMAIN at : at[a] /\ at[b] => a = b
  BY <1>4, <1>6
<1> QED BY <1>5, <1>7, <1>8 DEF enemy, mirrored, at

(* The range of a detected opponent is the class of a number between two    *)
(* ranges that are below the threshold.                                     *)
LEMMA BetweenTwo ==
    ASSUME NEW m \in Nat, NEW l \in Nat, NEW r \in Nat,
           enemy_detected(enemy_get(m, l, r))
    PROVE  \E v \in Nat, a, b \in {m, l, r} :
              /\ enemy_get(m, l, r).range = enemy_range(v)
              /\ a < 600 /\ b < 600 /\ a =< v /\ v =< b
<1> DEFINE Shown(v, a, b) == /\ enemy_get(m, l, r).range = enemy_range(v)
                             /\ a < 600 /\ b < 600 /\ a =< v /\ v =< b
<1>1. CASE m < 600 /\ r < 600 /\ l < 600
  <2> DEFINE c == Mean(m, l)
  <2>1. c \in Nat /\ c < 600
    BY <1>1, MeanIs
  <2>2. PICK a \in {m, l}, b \in {m, l} : a =< c /\ c =< b
    BY <1>1, MeanIs
  <2>3. Mean(c, r) \in Nat /\ enemy_get(m, l, r).range = enemy_range(Mean(c, r))
    <3>1. Mean(c, r) \in Nat
      BY <1>1, <2>1, MeanIs
    <3> QED BY <1>1, <3>1, GetIs DEF Found
  <2>4. \/ c =< Mean(c, r) /\ Mean(c, r) =< r
        \/ r =< Mean(c, r) /\ Mean(c, r) =< c
    BY <1>1, <2>1, MeanIs
  <2> HIDE DEF c
  <2>5. Shown(Mean(c, r), a, r) \/ Shown(Mean(c, r), r, b)
    BY <1>1, <2>1, <2>2, <2>3, <2>4
  <2> QED BY <2>2, <2>3, <2>5
<1>2. CASE m < 600 /\ r < 600 /\ ~(l < 600)
  <2>1. enemy_get(m, l, r).range = enemy_range(Mean(m, r))
    BY <1>2, GetIs DEF Found
  <2>2. /\ Mean(m, r) \in Nat
        /\ \/ m =< Mean(m, r) /\ Mean(m, r) =< r
           \/ r =< Mean(m, r) /\ Mean(m, r) =< m
    BY <1>2, MeanIs
  <2>3. Shown(Mean(m, r), m, r) \/ Shown(Mean(m, r), r, m)
    BY <1>2, <2>1, <2>2
  <2> QED BY <2>2, <2>3
<1>3. CASE m < 600 /\ ~(r < 600) /\ l < 600
  <2>1. enemy_get(m, l, r).range = enemy_range(Mean(m, l))
    BY <1>3, GetIs DEF Found
  <2>2. /\ Mean(m, l) \in Nat
        /\ \/ m =< Mean(m, l) /\ Mean(m, l) =< l
           \/ l =< Mean(m, l) /\ Mean(m, l) =< m
    BY <1>3, MeanIs
  <2>3. Shown(Mean(m, l), m, l) \/ Shown(Mean(m, l), l, m)
    BY <1>3, <2>1, <2>2
  <2> QED BY <2>2, <2>3
<1>4. CASE m < 600 /\ ~(r < 600) /\ ~(l < 600)
  <2>1. Shown(m, m, m)
    BY <1>4, GetIs DEF Found
  <2> QED BY <2>1
<1>5. CASE ~(m < 600) /\ r < 600 /\ ~(l < 600)
  <2>1. Shown(r, r, r)
    BY <1>5, GetIs DEF Found
  <2> QED BY <2>1
<1>6. CASE ~(m < 600) /\ ~(r < 600) /\ l < 600
  <2>1. Shown(l, l, l)
    BY <1>6, GetIs DEF Found
  <2> QED BY <2>1
<1>7. CASE ~(m < 600) /\ (r < 600 <=> l < 600)
  BY <1>7, GetIs DEF NotFound, enemy_detected
<1> QED BY <1>1, <1>2, <1>3, <1>4, <1>5, <1>6, <1>7

LEMMA RangeBetweenHolds == RangeBetween
<1> SUFFICES ASSUME NEW m \in Distance, NEW l \in Distance, NEW r \in Distance,
                    enemy_detected(enemy_get(m, l, r))
             PROVE  LET enemy == enemy_get(m, l, r)
                        seen  == {mm \in {m, l, r} : mm < RANGE_DETECT_THRESHOLD}
                        classes == {Class[enemy_range(mm)] : mm \in seen}
                    IN  /\ \E c \in classes : c <= Class[enemy.range]
                        /\ \E c \in classes : c >= Class[enemy.range]
  BY DEF RangeBetween
<1> DEFINE seen == {mm \in {m, l, r} : mm < RANGE_DETECT_THRESHOLD}
           classes == {Class[enemy_range(mm)] : mm \in seen}
<1>1. m \in Nat /\ l \in Nat /\ r \in Nat
  BY DistanceIs
<1>2. PICK v \in Nat, a \in {m, l, r}, b \in {m, l, r} :
          /\ enemy_get(m, l, r).range = enemy_range(v)
          /\ a < 600 /\ b < 600 /\ a =< v /\ v =< b
  BY <1>1, BetweenTwo
<1>3. a \in Nat /\ b \in Nat
  BY <1>1
<1>4. /\ Class[enemy_range(a)] =< Class[enemy_range(v)]
      /\ Class[enemy_range(v)] =< Class[enemy_range(b)]
      /\ Class[enemy_range(a)] \in 1 .. 3 /\ Class[enemy_range(b)] \in 1 .. 3
      /\ Class[enemy_range(v)] \in 1 .. 3
  BY <1>2, <1>3, ClassIs
<1>5. Class[enemy_range(a)] \in classes /\ Class[enemy_range(b)] \in classes
  BY <1>2 DEF RANGE_DETECT_THRESHOLD
<1> HIDE DEF seen, classes
<1>6. /\ \E c \in classes : c =< Class[enemy_get(m, l, r).range]
      /\ \E c \in classes : c >= Class[enemy_get(m, l, r).range]
  BY <1>2, <1>4, <1>5
<1> QED BY <1>6 DEF seen, classes

(* The same sensors see it, and their ranges have become smaller.           *)
LEMMA SameSensors ==
    ASSUME NEW m \in Nat, NEW l \in Nat, NEW r \in Nat,
           NEW x \in Nat, NEW y \in Nat, NEW z \in Nat,
           x =< m, y =< l, z =< r
    PROVE  NotFarther(enemy_get(x, y, z), enemy_get(m, l, r))
<1> SUFFICES ASSUME enemy_detected(enemy_get(m, l, r)),
                    enemy_get(x, y, z).position = enemy_get(m, l, r).position
             PROVE  Class[enemy_get(x, y, z).range] =< Class[enemy_get(m, l, r).range]
  BY DEF NotFarther
<1>1. Position(x, y, z) = Position(m, l, r)
  BY PositionIs
<1>2. (x < 600 <=> m < 600) /\ (y < 600 <=> l < 600) /\ (z < 600 <=> r < 600)
  BY <1>1 DEF Position
<1>3. CASE m < 600 /\ r < 600 /\ l < 600
  <2> DEFINE c == Mean(m, l)  d == Mean(x, l)  e == Mean(x, y)
  <2>1. /\ c \in Nat /\ c < 600 /\ d \in Nat /\ d < 600 /\ e \in Nat /\ e < 600
        /\ d =< c /\ e =< d
    BY <1>2, <1>3, MeanIs, MeanMonotone
  <2>2. /\ enemy_get(m, l, r).range = enemy_range(Mean(c, r))
        /\ enemy_get(x, y, z).range = enemy_range(Mean(e, z))
    BY <1>2, <1>3, GetIs DEF Found
  <2> HIDE DEF c, d, e
  <2>3. /\ Mean(c, r) \in Nat /\ Mean(e, r) \in Nat /\ Mean(e, z) \in Nat
        /\ Mean(e, r) =< Mean(c, r) /\ Mean(e, z) =< Mean(e, r)
    <3>1. e =< c /\ z < 600
      BY <1>2, <1>3, <2>1
    <3> QED BY <1>3, <2>1, <3>1, MeanIs, MeanMonotone
  <2>4. Mean(e, z) =< Mean(c, r)
    BY <2>3
  <2> QED BY <2>2, <2>3, <2>4, ClassIs
<1>4. CASE m < 600 /\ r < 600 /\ ~(l < 600)
  <2>1. /\ enemy_get(m, l, r).range = enemy_range(Mean(m, r))
        /\ enemy_get(x, y, z).range = enemy_range(Mean(x, z))
    BY <1>2, <1>4, GetIs DEF Found
  <2>2. /\ Mean(m, r) \in Nat /\ Mean(x, r) \in Nat /\ Mean(x, z) \in Nat
        /\ Mean(x, r) =< Mean(m, r) /\ Mean(x, z) =< Mean(x, r)
    BY <1>2, <1>4, MeanIs, MeanMonotone
  <2>3. Mean(x, z) =< Mean(m, r)
    BY <2>2
  <2> QED BY <2>1, <2>2, <2>3, ClassIs
<1>5. CASE m < 600 /\ ~(r < 600) /\ l < 600
  <2>1. /\ enemy_get(m, l, r).range = enemy_range(Mean(m, l))
        /\ enemy_get(x, y, z).range = enemy_range(Mean(x, y))
    BY <1>2, <1>5, GetIs DEF Found
  <2>2. /\ Mean(m, l) \in Nat /\ Mean(x, l) \in Nat /\ Mean(x, y) \in Nat
        /\ Mean(x, l) =< Mean(m, l) /\ Mean(x, y) =< Mean(x, l)
    BY <1>2, <1>5, MeanIs, MeanMonotone
  <2>3. Mean(x, y) =< Mean(m, l)
    BY <2>2
  <2> QED BY <2>1, <2>2, <2>3, ClassIs
<1>6. CASE m < 600 /\ ~(r < 600) /\ ~(l < 600)
  BY <1>2, <1>6, GetIs, ClassIs DEF Found
<1>7. CASE ~(m < 600) /\ r < 600 /\ ~(l < 600)
  BY <1>2, <1>7, GetIs, ClassIs DEF Found
<1>8. CASE ~(m < 600) /\ ~(r < 600) /\ l < 600
  BY <1>2, <1>8, GetIs, ClassIs DEF Found
<1>9. CASE ~(m < 600) /\ (r < 600 <=> l < 600)
  BY <1>9, GetIs DEF NotFound, enemy_detected
<1> QED BY <1>3, <1>4, <1>5, <1>6, <1>7, <1>8, <1>9

LEMMA NearerIsNearerHolds == NearerIsNearer
<1> SUFFICES ASSUME NEW m \in Distance, NEW l \in Distance, NEW r \in Distance,
                    NEW d \in Distance
             PROVE  /\ d < m => NotFarther(enemy_get(d, l, r), enemy_get(m, l, r))
                    /\ d < l => NotFarther(enemy_get(m, d, r), enemy_get(m, l, r))
                    /\ d < r => NotFarther(enemy_get(m, l, d), enemy_get(m, l, r))
  BY DEF NearerIsNearer
<1>1. m \in Nat /\ l \in Nat /\ r \in Nat /\ d \in Nat
  BY DistanceIs
<1> QED BY <1>1, SameSensors

(* The decision of enemy_get is sound for every set of ranges the 16-bit    *)
(* numbers hold: one side, a class its sensors agree with, nearer is nearer *)
(* (enemy.c:29-110).                                                        *)
THEOREM Decides == Spec => []DecisionSound
<1>1. DecisionSound
  BY OneSideHolds, RangeBetweenHolds, NearerIsNearerHolds DEF DecisionSound
<1> QED BY <1>1, PTL

-----------------------------------------------------------------------------
(* What the ranges it decides on are.                                       *)

(* A result is one of the ranges a sensor can hold; so is what was read of  *)
(* it, unless it was out of range.                                          *)
ResultInRange == \A s \in Sensors : sensor[s].done => sensor[s].reg.mm \in Range
Held(s) == latest[s].mm \in Range \union {VL53L0X_OUT_OF_RANGE}

(* That is all that is held until a transfer fails; after it, what the pass *)
(* over the sensors has read, and what has been returned as fresh.          *)
HeldInRange ==
    Polls =>
        /\ faults = 0 => \A s \in Sensors : Held(s)
        /\ Collecting =>
              \A j \in 1 .. (IF pc \in {"clear", "clear_again"} THEN k ELSE k - 1) :
                  Held(Order[j])
        /\ pc \in {"begin", "start"} /\ after = "fresh" => \A s \in Sensors : Held(s)
        /\ reply = "fresh" => \A s \in Sensors : Held(s) /\ latest[s].n = delivered[s]

LEMMA ResultInRangeStep ==
    ASSUME TypeOK, ResultInRange, [Next]_vars
    PROVE  ResultInRange'
<1>1. CASE SensorStep
  <2>1. PICK c \in Sensors : Complete(c)
    BY <1>1 DEF SensorStep
  <2>2. PICK mm \in Range :
           sensor' = [sensor EXCEPT ![c].busy = FALSE, ![c].done = TRUE,
                                    ![c].reg = [n |-> sensor[c].started, mm |-> mm]]
    BY <2>1 DEF Complete
  <2>3. sensor'[c].reg.mm = mm
    BY <2>2, SensorIs DEF TypeOK, SensorState
  <2>4. \A s \in Sensors : s # c => sensor'[s] = sensor[s]
    BY <2>1, CompleteIs
  <2> QED BY <2>3, <2>4 DEF ResultInRange
<1>2. CASE Start
  <2>1. k \in 1 .. Last /\ sensor' \in {sensor, Started}
    BY <1>2 DEF Start, At, WriteFails, TypeOK
  <2> QED BY <2>1, StartedIs DEF ResultInRange
<1>3. CASE Clear \/ ClearAgain
  <2>1. k \in 1 .. Last /\ sensor' \in {sensor, Cleared}
    BY <1>3 DEF Clear, ClearAgain, At, WriteFails, TypeOK
  <2> QED BY <2>1, ClearedIs DEF ResultInRange
<1>4. CASE Isr \/ CallStep \/ Begin \/ Block \/ Check \/ Sanity \/ Poll \/ Read
           \/ Halted \/ UNCHANGED vars
  <2>1. sensor' = sensor
    BY <1>4 DEF Isr, CallStep, CallStart, CallMultiple, CallSingle, Begin, Block,
                Check, Sanity, Poll, Read, Halted, vars
  <2> QED BY <2>1 DEF ResultInRange
<1> QED BY <1>1, <1>2, <1>3, <1>4 DEF Next, DriverStep

(* Reading a sensor, and normalising what was read, leaves the others.      *)
LEMMA HeldByRead ==
    ASSUME IInv, ResultInRange, Polls, Read \/ Clear
    PROVE  /\ k \in 1 .. Last /\ S \in Sensors /\ Collecting /\ pc # "clear_again"
           /\ \A s \in Sensors : s # S => latest'[s] = latest[s]
           /\ Clear /\ Held(S) => Held(S)'
           /\ Read /\ NoFault => Held(S)'
<1>1. Collecting /\ pc # "clear_again" /\ after = "fresh" /\ k \in 1 .. Last
  BY DEF IInv, UseInv, PollsUse, Collecting, Read, Clear, At, TypeOK
<1>2. S \in Sensors /\ latest \in [Sensors -> Value]
  BY <1>1, OrderFacts DEF S, IInv, TypeOK
<1>3. S' = S
  BY DEF Read, Clear, callVars, S
<1>4. PICK v : latest' = [latest EXCEPT ![S] = v]
             /\ (Clear => v \in {latest[S], Normal(latest[S])})
             /\ (Read /\ NoFault => v = sensor[S].reg)
  <2>1. CASE Read /\ NoFault
    <3>1. ~Fault
      BY <2>1, BoundsAssumption DEF NoFault, Fault, runVars, IInv, TypeOK
    <3>2. latest' = [latest EXCEPT ![S] = sensor[S].reg]
      BY <1>1, <2>1, <3>1 DEF Read, SetTarget
    <3>3. ~Clear
      BY <2>1 DEF Read, Clear, At
    <3> QED BY <3>2, <3>3
  <2>2. CASE Read /\ ~NoFault
    <3>1. \E v : latest' = [latest EXCEPT ![S] = v]
      BY <1>1, <2>2 DEF Read, SetTarget
    <3>2. ~Clear
      BY <2>2 DEF Read, Clear, At
    <3> QED BY <2>2, <3>1, <3>2
  <2>3. CASE Clear
    <3>1. \/ latest' = [latest EXCEPT ![S] = Normal(latest[S])]
          \/ latest' = [latest EXCEPT ![S] = latest[S]]
      BY <1>1, <1>2, <2>3 DEF Clear, SetTarget, Target
    <3>2. ~Read
      BY <2>3 DEF Read, Clear, At
    <3> QED BY <3>1, <3>2
  <2> QED BY <2>1, <2>2, <2>3
<1>5. latest'[S] = v /\ \A s \in Sensors : s # S => latest'[s] = latest[s]
  BY <1>2, <1>4
<1>6. ASSUME Clear, Held(S)
      PROVE  Held(S)'
  <2>1. Normal(latest[S]).mm \in {latest[S].mm, VL53L0X_OUT_OF_RANGE}
    BY <1>2 DEF Normal, Value
  <2> QED BY <1>3, <1>4, <1>5, <1>6, <2>1 DEF Held
<1>7. ASSUME Read, NoFault
      PROVE  Held(S)'
  <2>1. sensor[S].reg.mm \in Range
    <3>1. pc = "read"
      BY <1>7 DEF Read, At
    <3> QED BY <1>1, <1>2, <3>1 DEF IInv, RoundInv, PassInv, Emptying, ResultInRange
  <2> QED BY <1>3, <1>4, <1>5, <1>7, <2>1 DEF Held
<1> QED BY <1>1, <1>2, <1>5, <1>6, <1>7

LEMMA HeldInRangeStep ==
    ASSUME IInv, ResultInRange, HeldInRange, [Next]_vars
    PROVE  HeldInRange'
<1> DEFINE upto == IF pc \in {"clear", "clear_again"} THEN k ELSE k - 1
           Good == /\ faults = 0 => \A s \in Sensors : Held(s)
                   /\ Collecting => \A j \in 1 .. upto : Held(Order[j])
                   /\ pc \in {"begin", "start"} /\ after = "fresh" => \A s \in Sensors : Held(s)
                   /\ reply = "fresh" => \A s \in Sensors : Held(s) /\ latest[s].n = delivered[s]
<1> SUFFICES ASSUME Polls PROVE Good'
  BY ProgramFixed DEF HeldInRange
<1>1. TypeOK /\ PollsUse /\ PollsUse' /\ Good /\ (faults' = 0 => faults = 0 /\ ~Fault)
  <2>1. PollsUse'
    BY UseStep, ProgramFixed DEF IInv, UseInv
  <2> QED BY <2>1, FaultsGrow DEF IInv, UseInv, HeldInRange
<1>2. CASE SensorStep \/ Isr \/ UNCHANGED vars
  BY <1>1, <1>2 DEF SensorStep, Complete, Isr, vars, callVars, runVars, Collecting, Held
<1>3. CASE CallStep \/ Begin \/ Block \/ Check \/ Sanity \/ Poll
  <2>1. latest' = latest /\ faults' \in {faults, faults + 1}
    BY <1>3 DEF CallStep, CallStart, CallMultiple, CallSingle, Begin, Block, Check, Sanity,
                Poll, IsDone, IsNotDone, Fault, NoFault, runVars
  <2>2. reply' # "fresh"
    BY <1>1, <1>3 DEF CallStep, CallStart, CallMultiple, CallSingle, Begin, Block, Check,
                Sanity, Poll, PollsUse, At, Return, Collecting
  <2>3. pc' \in {"begin", "start"} /\ after' = "fresh" => pc = "begin" /\ after = "fresh"
    BY <1>1, <1>3, ProgramIs
       DEF CallStep, CallStart, CallMultiple, CallSingle, Begin, Block, Check,
                Sanity, Poll, PollsUse, At, Return, callVars
  <2>4. /\ Collecting' => \/ pc = "sanity" /\ pc' = "poll" /\ k' = k
                          \/ pc = "poll" /\ pc' = "read" /\ k' = k
        /\ pc = "sanity" => k = 1
    BY <1>1, <1>3, ProgramIs
       DEF CallStep, CallStart, CallMultiple, CallSingle, Begin, Block, Check,
                Sanity, Poll, At, Return, callVars, Collecting, IInv, RoundInv, PassInv, Checking
  <2>5. Collecting' => \A j \in 1 .. upto' : Held(Order[j])'
    BY <1>1, <2>1, <2>4 DEF Collecting, Held
  <2> QED BY <1>1, <2>1, <2>2, <2>3, <2>5 DEF Held
<1>4. CASE Read \/ Clear
  <2>1. /\ k \in 1 .. Last /\ S \in Sensors /\ Collecting /\ pc # "clear_again"
        /\ \A s \in Sensors : s # S => latest'[s] = latest[s]
        /\ Clear /\ Held(S) => Held(S)'
        /\ Read /\ NoFault => Held(S)'
    BY <1>4, HeldByRead
  <2>2. /\ k' = k /\ S' = S /\ S = Order[k] /\ reply' # "fresh"
        /\ pc' \in {"clear", "clear_again", "idle"}
        /\ pc' = "clear" => Read /\ NoFault
        /\ pc' = "clear_again" => Clear
        /\ Read => pc = "read"
        /\ Clear => pc = "clear"
    BY <1>1, <1>4, <2>1 DEF Read, Clear, At, Return, callVars, S, PollsUse, Collecting, WriteFails
  <2>3. ASSUME NEW s \in Sensors, s # S, Held(s)
        PROVE  Held(s)'
    BY <2>1, <2>3 DEF Held
  <2>4. Collecting' => Held(S)' /\ \A j \in 1 .. k - 1 : Held(Order[j])'
    <3> SUFFICES ASSUME Collecting' PROVE Held(S)' /\ \A j \in 1 .. k - 1 : Held(Order[j])'
      OBVIOUS
    <3>1. Held(S)'
      <4>1. CASE pc' = "clear"
        BY <2>1, <2>2, <4>1
      <4>2. CASE pc' = "clear_again"
        <5>1. k \in 1 .. upto
          BY <2>1, <2>2, <4>2 DEF Last
        <5>2. Held(S)
          BY <1>1, <2>1, <2>2, <5>1
        <5> QED BY <2>1, <2>2, <4>2, <5>2
      <4> QED BY <2>2, <4>1, <4>2 DEF Collecting
    <3>2. ASSUME NEW j \in 1 .. k - 1
          PROVE  Held(Order[j])'
      <4>1. j \in 1 .. upto /\ j \in 1 .. Last /\ j # k
        BY <2>1, LastIs
      <4>2. Order[j] \in Sensors /\ Order[j] # S
        BY <2>1, <4>1, OrderFacts DEF S
      <4>3. Held(Order[j])
        BY <1>1, <2>1, <4>1
      <4> QED BY <2>3, <4>2, <4>3
    <3> QED BY <3>1, <3>2
  <2>5. Collecting' => \A j \in 1 .. upto' : Held(Order[j])'
    <3> SUFFICES ASSUME Collecting', NEW j \in 1 .. upto' PROVE Held(Order[j])'
      OBVIOUS
    <3>1. upto' = k
      BY <2>2 DEF Collecting
    <3>2. j \in 1 .. k - 1 \/ j = k
      BY <2>1, <3>1, LastIs
    <3>3. j = k /\ Held(S)' => Held(Order[j])'
      BY <2>2 DEF Held
    <3> QED BY <2>4, <3>2, <3>3
  <2>6. faults' = 0 => \A s \in Sensors : Held(s)'
    <3> SUFFICES ASSUME faults' = 0, NEW s \in Sensors PROVE Held(s)'
      OBVIOUS
    <3>1. Held(s) /\ Held(S)
      BY <1>1, <2>1
    <3>2. Held(S)'
      <4>1. Read => NoFault
        BY <1>1 DEF Read
      <4> QED BY <1>4, <2>1, <3>1, <4>1
    <3>3. s = S => Held(s)'
      BY <2>2, <3>2 DEF Held
    <3> QED BY <2>3, <3>1, <3>3
  <2> QED BY <2>2, <2>5, <2>6
<1>5. CASE ClearAgain
  <2>1. /\ latest' = latest /\ reply' # "fresh" /\ pc = "clear_again" /\ after = "fresh"
        /\ after' = after /\ k \in 1 .. Last
    BY <1>1, <1>5 DEF ClearAgain, At, PollsUse, Collecting, Return, WriteFails, TypeOK
  <2>2. \/ pc' = "poll" /\ k' = k + 1 /\ k < Last
        \/ pc' = "begin" /\ k' = k /\ k = Last
        \/ pc' = "idle"
    BY <1>5, <2>1 DEF ClearAgain, Return, WriteFails
  <2>3. \A j \in 1 .. k : Held(Order[j])
    BY <1>1, <2>1 DEF Collecting
  <2>4. k = Last => \A s \in Sensors : Held(s)
    BY <2>3, LastIs, OrderFacts DEF Sensors
  <2>5. Collecting' => \A j \in 1 .. upto' : Held(Order[j])'
    BY <2>1, <2>2, <2>3, LastIs DEF Collecting, Held
  <2> QED BY <1>1, <2>1, <2>2, <2>4, <2>5 DEF Held
<1>6. CASE Start
  <2>1. /\ latest' = latest /\ pc = "start" /\ after' = after
        /\ pc' \in {"start", "idle", "block", "poll"} /\ (pc' = "poll" => after = "single")
        /\ reply' = "fresh" => after = "fresh" /\ delivered' = [s \in Sensors |-> latest[s].n]
    <3>1. after \in {"single", "started", "block", "fresh"} /\ reply # "fresh" /\ pc = "start"
      BY <1>1, <1>6 DEF Start, At, PollsUse, TypeOK
    <3>2. CASE StartsDone /\ latest' = latest /\ after' = after
      BY <3>1, <3>2 DEF StartsDone, Return
    <3>3. CASE ~StartsDone
      BY <1>6, <3>1, <3>3 DEF Start, Return, WriteFails
    <3> QED BY <1>6, <3>2, <3>3 DEF Start
  <2>2. ~Collecting'
    BY <1>1, <2>1 DEF Collecting, PollsUse
  <2> QED BY <1>1, <2>1, <2>2 DEF Held
<1> QED BY <1>2, <1>3, <1>4, <1>5, <1>6 DEF Next, DriverStep, Halted

LEMMA SeesOneRound ==
    ASSUME IInv, LeadInv, PromiseInv, HeldInRange
    PROVE  EnemyFromOneRound
<1> SUFFICES ASSUME faults = 0 \/ reply = "fresh", pc = "idle", enemy_detected(EnemyNow),
                    NEW s \in Named[EnemyNow.position]
             PROVE  /\ latest[s].n = delivered[Mid]
                    /\ latest[s].mm \in Range /\ latest[s].mm < RANGE_DETECT_THRESHOLD
  BY DEF EnemyFromOneRound
<1>1. Answered /\ EnemyNow = enemy_get(Reading(Mid), Reading(Left), Reading(Right))
  BY DEF EnemyNow, NotFound, enemy_detected
<1>2. Polls
  BY <1>1 DEF Answered, IInv, UseInv, SingleUse, StartsUse
<1>3. \A x \in {Mid, Left, Right} : Reading(x) \in Nat
  <2>1. TypeOK /\ UINT16_MAX \in Nat
    BY DEF IInv, UINT16_MAX
  <2>2. \A x \in Sensors : latest[x].mm \in Nat
    BY <2>1, SensorIs
  <2> QED BY <2>2 DEF Reading, VL53L0X_OUT_OF_RANGE
<1>4. s \in {Mid, Left, Right} /\ Reading(s) < 600
  <2> DEFINE m == Reading(Mid)  l == Reading(Left)  r == Reading(Right)
  <2>1. m \in Nat /\ l \in Nat /\ r \in Nat
    BY <1>3
  <2>2. EnemyNow.position = Position(m, l, r)
    BY <1>1, <2>1, PositionIs
  <2>3. EnemyNow.position # "NONE" /\ EnemyNow.position # "IMPOSSIBLE"
    BY DEF enemy_detected
  <2>4. \/ s = Mid /\ m < 600
        \/ s = Left /\ l < 600
        \/ s = Right /\ r < 600
    BY <2>2, <2>3 DEF Position, Named
  <2> QED BY <2>4
<1>5. s \in Sensors /\ latest[s].mm < 600
  BY <1>4 DEF Reading, VL53L0X_OUT_OF_RANGE
<1>6. latest[s].n = delivered[s]
  BY <1>2, <1>5 DEF PromiseInv, PollPromise, Cached, Waiting, HeldInRange
<1>7. delivered[s] = delivered[Mid]
  BY <1>2, <1>5 DEF LeadInv, Lead
<1>8. latest[s].mm \in Range
  BY <1>2, <1>5 DEF HeldInRange, Held, VL53L0X_OUT_OF_RANGE
<1> QED BY <1>5, <1>6, <1>7, <1>8 DEF RANGE_DETECT_THRESHOLD

(* An opponent that enemy_get reports, from fresh ranges or until a         *)
(* transfer fails, was seen by every sensor its position names, in the last *)
(* round delivered, for every list of sensors.                              *)
THEOREM ReportsOneRound == ASSUME NotMixed PROVE Spec => []EnemyFromOneRound
<1> DEFINE J == IInv /\ LeadInv /\ PromiseInv /\ ResultInRange /\ HeldInRange
<1>1. Init => J
  <2> SUFFICES ASSUME Init PROVE ResultInRange /\ HeldInRange
    BY Initially, LeadInitially, PromiseInitially
  <2> QED BY DEF Init, ResultInRange, HeldInRange, Held, NoValue, Collecting
<1>2. J /\ [Next]_vars => J'
  BY TypeStep, UseStep, RoundStep, LeadStep, PromiseStep, ResultInRangeStep,
     HeldInRangeStep DEF IInv
<1>3. J => EnemyFromOneRound
  BY SeesOneRound
<1> HIDE DEF J
<1> QED BY <1>1, <1>2, <1>3, PTL DEF Spec

=============================================================================
