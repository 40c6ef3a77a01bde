------------------------------ MODULE I2cProofs ------------------------------
(***************************************************************************)
(* The I2C master for every set of calls, any number of retries and any    *)
(* behaviour of the slave: an OK means what the callers take it for, and   *)
(* an error has a cause in the call that returns it, as long as no loop    *)
(* has run out of retries on a held clock.                                 *)
(***************************************************************************)
EXTENDS I2c, SequenceTheorems, TLAPS

-----------------------------------------------------------------------------
(* The calls.                                                               *)

Reads == call.kind = "read"

LEMMA CallIs ==
    ASSUME NEW c \in Calls
    PROVE  /\ c.kind \in {"read", "write"}
           /\ c.addr \in Seq(Byte) /\ Len(c.addr) \in Nat \ {0}
           /\ c.kind = "read" => c.size \in Nat \ {0} /\ Bytes(c) = c.addr
           /\ Bytes(c) \in Seq(Byte) /\ Len(Bytes(c)) \in Nat \ {0}
           /\ \A i \in 1 .. Len(Bytes(c)) : Bytes(c)[i] \in Byte /\ Bytes(c)[i] # Nothing
           /\ Len(c.addr) =< Len(Bytes(c))
<1>1. /\ c.addr \in Seq(Byte) /\ Len(c.addr) \in Nat /\ Len(c.addr) > 0
      /\ Nothing \notin Byte
      /\ \/ c.kind = "write" /\ c.data \in Seq(Byte) /\ Len(c.data) \in Nat
         \/ c.kind = "read" /\ c.size \in Nat \ {0}
  BY I2cAssumption, LenProperties
<1>2. /\ Bytes(c) \in Seq(Byte)
      /\ Len(Bytes(c)) \in Nat /\ Len(Bytes(c)) > 0 /\ Len(c.addr) =< Len(Bytes(c))
  <2>1. CASE c.kind = "write"
    <3> DEFINE a == c.addr  d == c.data
    <3>1. Bytes(c) = a \o d /\ a \in Seq(Byte) /\ d \in Seq(Byte)
      BY <1>1, <2>1 DEF Bytes
    <3>2. a \o d \in Seq(Byte) /\ Len(a \o d) = Len(a) + Len(d)
      BY <3>1, ConcatProperties
    <3>3. Len(a) \in Nat /\ Len(a) > 0 /\ Len(d) \in Nat
      BY <1>1, <2>1
    <3>4. Len(a \o d) \in Nat /\ Len(a \o d) > 0 /\ Len(a) =< Len(a \o d)
      <4> HIDE DEF a, d
      <4> QED BY <3>2, <3>3
    <3> QED BY <3>1, <3>2, <3>4
  <2>2. CASE c.kind = "read"
    BY <1>1, <2>2 DEF Bytes
  <2> QED BY <1>1, <2>1, <2>2
<1>3. \A i \in 1 .. Len(Bytes(c)) : Bytes(c)[i] \in Byte /\ Bytes(c)[i] # Nothing
  BY <1>1, <1>2, ElementOfSeq
<1>4. c.kind = "read" => Bytes(c) = c.addr
  BY DEF Bytes
<1> QED BY <1>1, <1>2, <1>3, <1>4

-----------------------------------------------------------------------------
(* Where the driver can be, also after it has given up on a held clock.     *)

ShapeInv ==
    /\ usci = [tr |-> usci.tr, stt |-> usci.stt, stp |-> usci.stp, nack |-> usci.nack,
               txifg |-> usci.txifg, rxifg |-> usci.rxifg, txbuf |-> usci.txbuf,
               rxbuf |-> usci.rxbuf, shift |-> usci.shift, phase |-> usci.phase]
    /\ usci.txbuf \in Byte \union {Nothing}
    /\ usci.phase = "out" => usci.shift \in Byte
    /\ heard \in Seq(Byte)
    /\ pc # "idle" => data = [i \in 0 .. (IF Reads THEN call.size - 1 ELSE 0) |-> data[i]]

ControlInv ==
    /\ pc \in {"send", "restart", "wait_tx"} => usci.tr
    /\ pc = "send" => n < Len(Bytes(call))
    /\ pc = "restart" => Reads /\ n = Len(Bytes(call))
    /\ pc = "wait_tx" => n >= 1
    /\ pc = "wait_start" => IF usci.tr THEN n = 1 ELSE Reads /\ n = 0
    /\ pc \in {"get", "wait_rx"} => Reads /\ ~usci.tr /\ n < call.size
    /\ pc \in {"stop", "wait_stop"} =>
          IF Reads THEN ~usci.tr /\ n = call.size - 1
                   ELSE usci.tr /\ n = Len(Bytes(call))
    /\ pc \in {"wait_start", "wait_stop"} => retries >= 1
    /\ result = "none" \/ pc = "idle"

(* The state of the bus in a call, and between two.  A refusal is seen; or  *)
(* what the slave has, what is being shifted and what waits in UCB0TXBUF    *)
(* are the bytes the driver has sent.                                       *)
One(condition) == IF condition THEN 1 ELSE 0
Refused == usci.phase = "refused" /\ usci.nack /\ refused # {}

OnTheWay(sent) ==
    /\ usci.phase \in {"ready", "out"} /\ ~usci.nack /\ refused = {}
    /\ Len(heard) + One(usci.phase = "out") + One(usci.txbuf # Nothing) = sent
    /\ \A i \in 1 .. Len(heard) : heard[i] = Bytes(call)[i]
    /\ usci.phase = "out" => usci.shift = Bytes(call)[Len(heard) + 1]
    /\ usci.txbuf # Nothing => usci.txbuf = Bytes(call)[sent]

Sending == OnTheWay(n) /\ (usci.txifg <=> usci.txbuf = Nothing)
AllShifted == OnTheWay(n) /\ usci.txbuf = Nothing

Calling ==
    /\ usci.phase \in {"idle", "refused", "address"}
    /\ usci.phase = "address" => ~usci.nack

(* What has been read, what waits in UCB0RXBUF and what is being shifted    *)
(* are the bytes of one read, by their numbers.                             *)
IndexTaken == heard = call.addr \/ "index" \in refused
NextByte == usci.rxifg => usci.rxbuf = <<heard, n + 1>>
Receiving ==
    /\ usci.phase \in {"in", "full"} /\ ~usci.nack /\ IndexTaken /\ NextByte
    /\ served = n + One(usci.rxifg) + One(usci.phase = "full")
    /\ usci.phase = "full" => usci.shift = <<heard, served>>
Received == usci.phase = "idle" /\ usci.rxifg /\ ~usci.nack /\ IndexTaken /\ NextByte

Filled == \A i \in DOMAIN data : i >= call.size - n => data[i] = <<heard, call.size - i>>

IdleInv ==
    pc = "idle" => usci.phase \in {"idle", "refused"} /\ ~usci.stt /\ ~usci.stp /\ ~usci.rxifg
StartInv ==
    (pc = "send" /\ n = 0) \/ (pc = "wait_start" /\ usci.tr) =>
        /\ ~usci.stp /\ ~usci.rxifg
        /\ IF usci.stt THEN Calling /\ refused = {}
                       ELSE pc = "wait_start" /\ (Sending \/ Refused)
        /\ pc = "wait_start" /\ usci.stt => ~usci.txifg /\ usci.txbuf = Bytes(call)[1]
SendInv ==
    (pc = "send" /\ n > 0) \/ pc \in {"wait_tx", "restart"} =>
        /\ ~usci.stt /\ ~usci.stp /\ ~usci.rxifg
        /\ IF pc = "wait_tx" THEN Sending \/ Refused ELSE AllShifted
RestartInv ==
    pc = "wait_start" /\ ~usci.tr =>
        /\ ~usci.stp
        /\ IF ~usci.stt THEN Receiving \/ (Refused /\ ~usci.rxifg)
           ELSE /\ ~usci.rxifg /\ usci.txbuf = Nothing
                /\ \/ OnTheWay(Len(Bytes(call)))
                   \/ usci.phase = "refused" /\ "index" \in refused
                   \/ usci.phase = "address" /\ ~usci.nack /\ IndexTaken
ReadInv ==
    Reads /\ pc \in {"wait_rx", "get", "stop", "wait_stop"} =>
        /\ Filled /\ ~usci.stt
        /\ usci.stp => pc = "wait_stop"
        /\ pc = "get" => usci.rxifg
        /\ \/ Receiving /\ (pc = "wait_stop" => usci.stp)
                        /\ (pc \in {"wait_rx", "get"} => n < call.size - 1)
           \/ Received /\ ~usci.stp /\ pc # "stop" /\ n = call.size - 1
WriteInv ==
    ~Reads /\ pc \in {"stop", "wait_stop"} =>
        /\ ~usci.stt /\ ~usci.rxifg
        /\ usci.stp => pc = "wait_stop"
        /\ IF pc = "stop" THEN AllShifted
           ELSE IF usci.stp THEN AllShifted \/ Refused
           ELSE /\ usci.phase = "idle"
                /\ IF usci.nack THEN refused # {} ELSE heard = Bytes(call)

BusInv ==
    /\ IdleInv /\ StartInv /\ SendInv /\ RestartInv /\ ReadInv /\ WriteInv
    /\ OkIsTrue /\ ErrorHasCause

IInv == TypeOK /\ ShapeInv /\ ControlInv /\ (~lost => BusInv)

-----------------------------------------------------------------------------
(* The sequence the slave has taken, once nothing is on its way any more.   *)
LEMMA AllTaken ==
    ASSUME IInv, OnTheWay(Len(Bytes(call))), usci.txbuf = Nothing, usci.phase = "ready"
    PROVE  heard = Bytes(call)
<1>1. call \in Calls /\ heard \in Seq(Byte)
  BY DEF IInv, TypeOK, ShapeInv
<1>2. Len(heard) = Len(Bytes(call)) /\ \A i \in 1 .. Len(heard) : heard[i] = Bytes(call)[i]
  BY <1>1 DEF OnTheWay, One
<1> QED BY <1>1, <1>2, CallIs, SeqEqual

-----------------------------------------------------------------------------
(* The steps of the bus.  The driver stays where it is.                     *)

LEMMA UsciStartKeeps ==
    ASSUME IInv, UsciStart
    PROVE  IInv'
<1> USE DEF Reads, One, UsciStart, slaveVars, driverVars
<1>1. usci' = [tr |-> usci.tr, stt |-> usci.stt, stp |-> usci.stp, nack |-> FALSE,
               txifg |-> usci.txifg, rxifg |-> usci.rxifg, txbuf |-> usci.txbuf,
               rxbuf |-> usci.rxbuf, shift |-> usci.shift, phase |-> "address"]
  BY DEF IInv, ShapeInv
<1>2. TypeOK'
  BY <1>1 DEF IInv, TypeOK
<1>3. ShapeInv' /\ ControlInv'
  BY <1>1 DEF IInv, TypeOK, ShapeInv, ControlInv
<1>4. ASSUME ~lost PROVE BusInv'
  <2>1. IdleInv'
    BY <1>1, <1>4 DEF IInv, BusInv, IdleInv
  <2>2. StartInv'
    BY <1>1, <1>4 DEF IInv, BusInv, StartInv, Calling
  <2>3. SendInv'
    BY <1>1, <1>4 DEF IInv, BusInv, SendInv
  <2>4. RestartInv'
    BY <1>1, <1>4, AllTaken, CallIs
       DEF IInv, BusInv, TypeOK, ControlInv, RestartInv, OnTheWay, IndexTaken
  <2>5. ReadInv'
    BY <1>1, <1>4 DEF IInv, BusInv, TypeOK, ControlInv, ReadInv, IndexTaken
  <2>6. WriteInv'
    BY <1>1, <1>4 DEF IInv, BusInv, WriteInv
  <2>7. OkIsTrue' /\ ErrorHasCause'
    BY <1>1, <1>4
       DEF IInv, BusInv, IdleInv, StartInv, ControlInv, OkIsTrue, ErrorHasCause,
           OkReadIsRight, OkWriteArrived, OkFreesBus, RightBytes
  <2> QED BY <2>1, <2>2, <2>3, <2>4, <2>5, <2>6, <2>7 DEF BusInv
<1> QED BY <1>2, <1>3, <1>4 DEF IInv

LEMMA AddressToSendKeeps ==
    ASSUME IInv, AddressTaken /\ usci.tr
    PROVE  IInv'
<1> USE DEF Reads, One, AddressTaken, Phase, Shifted, slaveVars, driverVars
<1>1. usci' = [tr |-> usci.tr, stt |-> FALSE, stp |-> usci.stp, nack |-> usci.nack,
               txifg |-> (usci.txbuf = Nothing), rxifg |-> usci.rxifg, txbuf |-> usci.txbuf,
               rxbuf |-> usci.rxbuf, shift |-> usci.shift, phase |-> "ready"]
  BY DEF IInv, ShapeInv
<1>2. TypeOK'
  BY <1>1 DEF IInv, TypeOK
<1>3. ShapeInv' /\ ControlInv'
  BY <1>1 DEF IInv, TypeOK, ShapeInv, ControlInv
<1>4. ASSUME ~lost PROVE BusInv'
  <2>1. IdleInv'
    BY <1>1, <1>4 DEF IInv, BusInv, IdleInv
  <2>2. StartInv'
    BY <1>1, <1>4, CallIs
       DEF IInv, BusInv, TypeOK, ControlInv, StartInv, Calling, Sending, OnTheWay, Refused, DriverWaits
  <2>3. SendInv'
    BY <1>1, <1>4
       DEF IInv, BusInv, TypeOK, ControlInv, SendInv, Sending, OnTheWay, Refused, DriverWaits
  <2>4. RestartInv'
    BY <1>1, <1>4 DEF IInv, BusInv, RestartInv, OnTheWay, Refused
  <2>5. ReadInv'
    BY <1>1, <1>4 DEF IInv, BusInv, ReadInv, Receiving, Received
  <2>6. WriteInv'
    BY <1>1, <1>4 DEF IInv, BusInv, WriteInv, AllShifted, OnTheWay, Refused
  <2>7. OkIsTrue' /\ ErrorHasCause'
    BY <1>1, <1>4
       DEF IInv, BusInv, IdleInv, StartInv, OkIsTrue, ErrorHasCause,
           OkReadIsRight, OkWriteArrived, OkFreesBus, RightBytes
  <2> QED BY <2>1, <2>2, <2>3, <2>4, <2>5, <2>6, <2>7 DEF BusInv
<1> QED BY <1>2, <1>3, <1>4 DEF IInv

LEMMA AddressToReadKeeps ==
    ASSUME IInv, AddressTaken /\ ~usci.tr
    PROVE  IInv'
<1> USE DEF Reads, One, AddressTaken, Phase, Shifted, slaveVars, driverVars
<1>1. usci' = [tr |-> usci.tr, stt |-> FALSE, stp |-> usci.stp, nack |-> usci.nack,
               txifg |-> usci.txifg, rxifg |-> usci.rxifg, txbuf |-> usci.txbuf,
               rxbuf |-> usci.rxbuf, shift |-> usci.shift, phase |-> "in"]
  BY DEF IInv, ShapeInv
<1>2. TypeOK'
  BY <1>1 DEF IInv, TypeOK
<1>3. ShapeInv' /\ ControlInv'
  BY <1>1 DEF IInv, TypeOK, ShapeInv, ControlInv
<1>4. ASSUME ~lost PROVE BusInv'
  <2>1. IdleInv'
    BY <1>1, <1>4 DEF IInv, BusInv, IdleInv
  <2>2. StartInv'
    BY <1>1, <1>4 DEF IInv, BusInv, StartInv, DriverWaits
  <2>3. SendInv'
    BY <1>1, <1>4 DEF IInv, BusInv, SendInv, Sending, OnTheWay, Refused, DriverWaits
  <2>4. RestartInv'
    BY <1>1, <1>4, AllTaken
       DEF IInv, BusInv, ControlInv, RestartInv, OnTheWay, Receiving, Refused, IndexTaken, NextByte
  <2>5. ReadInv'
    BY <1>1, <1>4
       DEF IInv, BusInv, ControlInv, ReadInv, Receiving, Received, IndexTaken, NextByte
  <2>6. WriteInv'
    BY <1>1, <1>4 DEF IInv, BusInv, WriteInv, AllShifted, OnTheWay, Refused
  <2>7. OkIsTrue' /\ ErrorHasCause'
    BY <1>1, <1>4
       DEF IInv, BusInv, IdleInv, StartInv, OkIsTrue, ErrorHasCause,
           OkReadIsRight, OkWriteArrived, OkFreesBus, RightBytes
  <2> QED BY <2>1, <2>2, <2>3, <2>4, <2>5, <2>6, <2>7 DEF BusInv
<1> QED BY <1>2, <1>3, <1>4 DEF IInv

LEMMA AddressRefusedKeeps ==
    ASSUME IInv, AddressRefused
    PROVE  IInv'
<1> USE DEF Reads, One, AddressRefused, Refuse, Phase, Shifted, slaveVars, driverVars
<1>1. usci' = [tr |-> usci.tr, stt |-> FALSE, stp |-> usci.stp, nack |-> TRUE,
               txifg |-> usci.txifg, rxifg |-> usci.rxifg, txbuf |-> Nothing,
               rxbuf |-> usci.rxbuf, shift |-> usci.shift, phase |-> "refused"]
  BY DEF IInv, ShapeInv
<1>2. TypeOK'
  BY <1>1 DEF IInv, TypeOK
<1>3. ShapeInv' /\ ControlInv'
  BY <1>1 DEF IInv, TypeOK, ShapeInv, ControlInv
<1>4. ASSUME ~lost PROVE BusInv'
  <2>1. IdleInv'
    BY <1>1, <1>4 DEF IInv, BusInv, IdleInv
  <2>2. StartInv'
    BY <1>1, <1>4 DEF IInv, BusInv, StartInv, Refused, DriverWaits
  <2>3. SendInv'
    BY <1>1, <1>4 DEF IInv, BusInv, SendInv, Refused, DriverWaits
  <2>4. RestartInv'
    BY <1>1, <1>4 DEF IInv, BusInv, RestartInv, Receiving, Refused
  <2>5. ReadInv'
    BY <1>1, <1>4 DEF IInv, BusInv, ReadInv, Receiving, Received
  <2>6. WriteInv'
    BY <1>1, <1>4 DEF IInv, BusInv, WriteInv, AllShifted, OnTheWay, Refused
  <2>7. OkIsTrue' /\ ErrorHasCause'
    BY <1>1, <1>4
       DEF IInv, BusInv, IdleInv, StartInv, OkIsTrue, ErrorHasCause,
           OkReadIsRight, OkWriteArrived, OkFreesBus, RightBytes
  <2> QED BY <2>1, <2>2, <2>3, <2>4, <2>5, <2>6, <2>7 DEF BusInv
<1> QED BY <1>2, <1>3, <1>4 DEF IInv

LEMMA UsciLoadKeeps ==
    ASSUME IInv, UsciLoad
    PROVE  IInv'
<1> USE DEF Reads, One, UsciLoad, Phase, slaveVars, driverVars
<1>1. usci' = [tr |-> usci.tr, stt |-> usci.stt, stp |-> usci.stp, nack |-> usci.nack,
               txifg |-> TRUE, rxifg |-> usci.rxifg, txbuf |-> Nothing,
               rxbuf |-> usci.rxbuf, shift |-> usci.txbuf, phase |-> "out"]
  BY DEF IInv, ShapeInv
<1>2. TypeOK'
  BY <1>1 DEF IInv, TypeOK
<1>3. ShapeInv' /\ ControlInv'
  BY <1>1 DEF IInv, TypeOK, ShapeInv, ControlInv
<1>4. ASSUME ~lost PROVE BusInv'
  <2>1. IdleInv'
    BY <1>1, <1>4 DEF IInv, BusInv, IdleInv
  <2>2. StartInv'
    BY <1>1, <1>4 DEF IInv, BusInv, StartInv, Calling, Sending, OnTheWay, Refused
  <2>3. SendInv'
    BY <1>1, <1>4 DEF IInv, BusInv, SendInv, AllShifted, Sending, OnTheWay, Refused
  <2>4. RestartInv'
    BY <1>1, <1>4 DEF IInv, BusInv, RestartInv, OnTheWay, Receiving, Refused
  <2>5. ReadInv'
    BY <1>1, <1>4 DEF IInv, BusInv, ReadInv, Receiving, Received
  <2>6. WriteInv'
    BY <1>1, <1>4 DEF IInv, BusInv, WriteInv, AllShifted, Refused
  <2>7. OkIsTrue' /\ ErrorHasCause'
    BY <1>1, <1>4
       DEF IInv, BusInv, IdleInv, StartInv, OkIsTrue, ErrorHasCause,
           OkReadIsRight, OkWriteArrived, OkFreesBus, RightBytes
  <2> QED BY <2>1, <2>2, <2>3, <2>4, <2>5, <2>6, <2>7 DEF BusInv
<1> QED BY <1>2, <1>3, <1>4 DEF IInv

LEMMA ByteTakenKeeps ==
    ASSUME IInv, ByteTaken
    PROVE  IInv'
<1> USE DEF Reads, One, ByteTaken, Phase, Shifted, slaveVars, driverVars
<1>1. usci' = [tr |-> usci.tr, stt |-> usci.stt, stp |-> usci.stp, nack |-> usci.nack,
               txifg |-> usci.txifg, rxifg |-> usci.rxifg, txbuf |-> usci.txbuf,
               rxbuf |-> usci.rxbuf, shift |-> usci.shift, phase |-> "ready"]
  BY DEF IInv, ShapeInv
<1>2. TypeOK'
  BY <1>1 DEF IInv, TypeOK
<1>3. ShapeInv' /\ ControlInv'
  BY <1>1 DEF IInv, TypeOK, ShapeInv, ControlInv
<1>4. ASSUME ~lost PROVE BusInv'
  <2>1. IdleInv'
    BY <1>1, <1>4 DEF IInv, BusInv, IdleInv
  <2>2. StartInv'
    BY <1>1, <1>4 DEF IInv, BusInv, StartInv, Calling, Sending, OnTheWay, Refused
  <2>3. SendInv'
    BY <1>1, <1>4 DEF IInv, BusInv, SendInv, AllShifted, Sending, OnTheWay, Refused
  <2>4. RestartInv'
    BY <1>1, <1>4 DEF IInv, BusInv, RestartInv, OnTheWay, Receiving, Refused
  <2>5. ReadInv'
    BY <1>1, <1>4 DEF IInv, BusInv, ReadInv, Receiving, Received
  <2>6. WriteInv'
    BY <1>1, <1>4 DEF IInv, BusInv, WriteInv, AllShifted, OnTheWay, Refused
  <2>7. OkIsTrue' /\ ErrorHasCause'
    BY <1>1, <1>4
       DEF IInv, BusInv, IdleInv, StartInv, OkIsTrue, ErrorHasCause,
           OkReadIsRight, OkWriteArrived, OkFreesBus, RightBytes
  <2> QED BY <2>1, <2>2, <2>3, <2>4, <2>5, <2>6, <2>7 DEF BusInv
<1> QED BY <1>2, <1>3, <1>4 DEF IInv

LEMMA ByteRefusedKeeps ==
    ASSUME IInv, ByteRefused
    PROVE  IInv'
<1> USE DEF Reads, One, ByteRefused, Refuse, Phase, Shifted, slaveVars, driverVars
<1>1. usci' = [tr |-> usci.tr, stt |-> usci.stt, stp |-> usci.stp, nack |-> TRUE,
               txifg |-> usci.txifg, rxifg |-> usci.rxifg, txbuf |-> Nothing,
               rxbuf |-> usci.rxbuf, shift |-> usci.shift, phase |-> "refused"]
  BY DEF IInv, ShapeInv
<1>2. TypeOK'
  BY <1>1 DEF IInv, TypeOK
<1>3. ShapeInv' /\ ControlInv'
  BY <1>1 DEF IInv, TypeOK, ShapeInv, ControlInv
<1>4. ASSUME ~lost PROVE BusInv'
  <2>1. IdleInv'
    BY <1>1, <1>4 DEF IInv, BusInv, IdleInv
  <2>2. StartInv'
    BY <1>1, <1>4 DEF IInv, BusInv, StartInv, Calling, Refused
  <2>3. SendInv'
    BY <1>1, <1>4 DEF IInv, BusInv, SendInv, Refused, DriverWaits
  <2>4. RestartInv'
    BY <1>1, <1>4, CallIs
       DEF IInv, BusInv, TypeOK, ControlInv, RestartInv, OnTheWay, Receiving, Refused, DriverWaits
  <2>5. ReadInv'
    BY <1>1, <1>4 DEF IInv, BusInv, TypeOK, ControlInv, ReadInv, Receiving, Received
  <2>6. WriteInv'
    BY <1>1, <1>4 DEF IInv, BusInv, WriteInv, Refused, DriverWaits
  <2>7. OkIsTrue' /\ ErrorHasCause'
    BY <1>1, <1>4
       DEF IInv, BusInv, IdleInv, StartInv, DriverWaits, OkIsTrue, ErrorHasCause,
           OkReadIsRight, OkWriteArrived, OkFreesBus, RightBytes
  <2> QED BY <2>1, <2>2, <2>3, <2>4, <2>5, <2>6, <2>7 DEF BusInv
<1> QED BY <1>2, <1>3, <1>4 DEF IInv

LEMMA ByteArrivesKeeps ==
    ASSUME IInv, ByteArrives
    PROVE  IInv'
<1> USE DEF Reads, One, ByteArrives, Phase, Shifted, slaveVars, driverVars
<1>1. usci' = [tr |-> usci.tr, stt |-> usci.stt, stp |-> usci.stp, nack |-> usci.nack,
               txifg |-> usci.txifg, rxifg |-> usci.rxifg, txbuf |-> usci.txbuf,
               rxbuf |-> usci.rxbuf, shift |-> <<heard, served + 1>>, phase |-> "full"]
  BY DEF IInv, ShapeInv
<1>2. TypeOK'
  BY <1>1 DEF IInv, TypeOK
<1>3. ShapeInv' /\ ControlInv'
  BY <1>1 DEF IInv, TypeOK, ShapeInv, ControlInv
<1>4. ASSUME ~lost PROVE BusInv'
  <2>1. IdleInv'
    BY <1>1, <1>4 DEF IInv, BusInv, IdleInv
  <2>2. StartInv'
    BY <1>1, <1>4 DEF IInv, BusInv, StartInv, Calling, Sending, OnTheWay, Refused
  <2>3. SendInv'
    BY <1>1, <1>4 DEF IInv, BusInv, SendInv, AllShifted, Sending, OnTheWay, Refused
  <2>4. RestartInv'
    BY <1>1, <1>4
       DEF IInv, BusInv, ControlInv, RestartInv, OnTheWay, Receiving, Refused, IndexTaken, NextByte
  <2>5. ReadInv'
    BY <1>1, <1>4
       DEF IInv, BusInv, TypeOK, ControlInv, ReadInv, Receiving, Received, IndexTaken, NextByte, Filled
  <2>6. WriteInv'
    BY <1>1, <1>4 DEF IInv, BusInv, TypeOK, WriteInv, AllShifted, OnTheWay, Refused
  <2>7. OkIsTrue' /\ ErrorHasCause'
    BY <1>1, <1>4
       DEF IInv, BusInv, IdleInv, StartInv, OkIsTrue, ErrorHasCause,
           OkReadIsRight, OkWriteArrived, OkFreesBus, RightBytes
  <2> QED BY <2>1, <2>2, <2>3, <2>4, <2>5, <2>6, <2>7 DEF BusInv
<1> QED BY <1>2, <1>3, <1>4 DEF IInv

LEMMA UsciStoreKeeps ==
    ASSUME IInv, UsciStore
    PROVE  IInv'
<1> USE DEF Reads, One, UsciStore, Phase, slaveVars, driverVars
<1>1. usci' = [tr |-> usci.tr, stt |-> usci.stt, stp |-> FALSE, nack |-> usci.nack,
               txifg |-> usci.txifg, rxifg |-> TRUE, txbuf |-> usci.txbuf,
               rxbuf |-> usci.shift, shift |-> usci.shift,
               phase |-> IF usci.stp THEN "idle"
                         ELSE IF usci.stt THEN "ready" ELSE "in"]
  BY DEF IInv, ShapeInv
<1>2. TypeOK'
  BY <1>1 DEF IInv, TypeOK
<1>3. ShapeInv' /\ ControlInv'
  BY <1>1 DEF IInv, TypeOK, ShapeInv, ControlInv
<1>4. ASSUME ~lost PROVE BusInv'
  <2>1. IdleInv'
    BY <1>1, <1>4 DEF IInv, BusInv, IdleInv
  <2>2. StartInv'
    BY <1>1, <1>4 DEF IInv, BusInv, StartInv, Calling, Sending, OnTheWay, Refused
  <2>3. SendInv'
    BY <1>1, <1>4 DEF IInv, BusInv, SendInv, AllShifted, Sending, OnTheWay, Refused
  <2>4. RestartInv'
    BY <1>1, <1>4
       DEF IInv, BusInv, ControlInv, RestartInv, OnTheWay, Receiving, Refused, IndexTaken, NextByte
  <2>5. ReadInv'
    BY <1>1, <1>4
       DEF IInv, BusInv, TypeOK, ControlInv, ReadInv, Receiving, Received, IndexTaken, NextByte, Filled
  <2>6. WriteInv'
    BY <1>1, <1>4
       DEF IInv, BusInv, TypeOK, ControlInv, WriteInv, AllShifted, OnTheWay, Refused
  <2>7. OkIsTrue' /\ ErrorHasCause'
    BY <1>1, <1>4
       DEF IInv, BusInv, IdleInv, StartInv, OkIsTrue, ErrorHasCause,
           OkReadIsRight, OkWriteArrived, OkFreesBus, RightBytes
  <2> QED BY <2>1, <2>2, <2>3, <2>4, <2>5, <2>6, <2>7 DEF BusInv
<1> QED BY <1>2, <1>3, <1>4 DEF IInv

LEMMA UsciStopKeeps ==
    ASSUME IInv, UsciStop
    PROVE  IInv'
<1> USE DEF Reads, One, UsciStop, slaveVars, driverVars
<1>1. usci' = [tr |-> usci.tr, stt |-> usci.stt, stp |-> FALSE, nack |-> usci.nack,
               txifg |-> usci.txifg, rxifg |-> usci.rxifg, txbuf |-> usci.txbuf,
               rxbuf |-> usci.rxbuf, shift |-> usci.shift, phase |-> "idle"]
  BY DEF IInv, ShapeInv
<1>2. TypeOK'
  BY <1>1 DEF IInv, TypeOK
<1>3. ShapeInv' /\ ControlInv'
  BY <1>1 DEF IInv, TypeOK, ShapeInv, ControlInv
<1>4. ASSUME ~lost PROVE BusInv'
  <2>1. IdleInv'
    BY <1>1, <1>4 DEF IInv, BusInv, IdleInv
  <2>2. StartInv'
    BY <1>1, <1>4 DEF IInv, BusInv, StartInv
  <2>3. SendInv'
    BY <1>1, <1>4 DEF IInv, BusInv, SendInv
  <2>4. RestartInv'
    BY <1>1, <1>4 DEF IInv, BusInv, RestartInv
  <2>5. ReadInv'
    BY <1>1, <1>4
       DEF IInv, BusInv, ControlInv, ReadInv, Receiving, Received, IndexTaken, NextByte, Filled
  <2>6. WriteInv'
    BY <1>1, <1>4, AllTaken
       DEF IInv, BusInv, ControlInv, WriteInv, AllShifted, OnTheWay, Refused
  <2>7. OkIsTrue' /\ ErrorHasCause'
    BY <1>1, <1>4
       DEF IInv, BusInv, IdleInv, StartInv, ControlInv, OkIsTrue, ErrorHasCause,
           OkReadIsRight, OkWriteArrived, OkFreesBus, RightBytes
  <2> QED BY <2>1, <2>2, <2>3, <2>4, <2>5, <2>6, <2>7 DEF BusInv
<1> QED BY <1>2, <1>3, <1>4 DEF IInv

-----------------------------------------------------------------------------
(* The steps of the driver.                                                 *)

LEMMA StatementIs ==
    ASSUME IInv
    PROVE  /\ call \in Calls /\ n \in Nat /\ retries \in 0 .. RETRY_COUNT
           /\ RETRY_COUNT \in Nat \ {0}
           /\ IF Reads THEN call.size \in Nat \ {0} /\ Bytes(call) = call.addr
                       ELSE call.kind = "write"
           /\ usci.tr => n =< Len(Bytes(call))
           /\ Len(Bytes(call)) \in Nat \ {0}
           /\ \A i \in 1 .. Len(Bytes(call)) : Bytes(call)[i] \in Byte /\ Bytes(call)[i] # Nothing
<1>1. call \in Calls /\ retries \in 0 .. RETRY_COUNT
  BY DEF IInv, TypeOK
<1>2. n \in Nat
  BY <1>1, CallIs DEF IInv, TypeOK
<1>3. usci.tr => n =< Len(Bytes(call))
  BY <1>1, CallIs DEF IInv, TypeOK
<1> QED BY <1>1, <1>2, <1>3, CallIs, I2cAssumption DEF Reads

(* What the loops change while they wait is not what BusInv is about.       *)
LEMMA BusFixed ==
    ASSUME UNCHANGED <<usci, heard, served, refused, call, pc, n, data, result, lost>>
    PROVE  BusInv' <=> BusInv
<1>1. /\ Refused' = Refused /\ Sending' = Sending /\ AllShifted' = AllShifted
      /\ Calling' = Calling /\ Receiving' = Receiving /\ Received' = Received
      /\ Filled' = Filled /\ IndexTaken' = IndexTaken /\ Reads' = Reads
      /\ OnTheWay(Len(Bytes(call)))' = OnTheWay(Len(Bytes(call)))
  BY DEF Refused, Sending, AllShifted, OnTheWay, Calling, Receiving, Received, Filled,
         IndexTaken, NextByte, Reads, One
<1>2. /\ IdleInv' = IdleInv /\ StartInv' = StartInv /\ SendInv' = SendInv
      /\ RestartInv' = RestartInv
  BY <1>1 DEF IdleInv, StartInv, SendInv, RestartInv
<1>3. ReadInv' = ReadInv /\ WriteInv' = WriteInv
  BY <1>1 DEF ReadInv, WriteInv
<1>4. OkIsTrue' = OkIsTrue /\ ErrorHasCause' = ErrorHasCause
  BY DEF OkIsTrue, OkReadIsRight, OkWriteArrived, OkFreesBus, RightBytes, ErrorHasCause
<1> QED BY <1>2, <1>3, <1>4 DEF BusInv

(* A call that fails leaves the bus refused or idle, and nothing to do.     *)
LEMMA FailureKeeps ==
    ASSUME UNCHANGED <<usci, refused>>, pc' = "idle", result' \notin {"none", "OK"},
           usci.phase \in {"idle", "refused"}, ~usci.stt, ~usci.stp, ~usci.rxifg,
           refused # {}
    PROVE  BusInv'
BY DEF BusInv, IdleInv, StartInv, SendInv, RestartInv, ReadInv, WriteInv,
       OkIsTrue, OkReadIsRight, OkWriteArrived, OkFreesBus, ErrorHasCause

(* In a call nothing has been returned yet.                                 *)
LEMMA NotReturned ==
    ASSUME result' = "none"
    PROVE  OkIsTrue' /\ ErrorHasCause'
BY DEF OkIsTrue, OkReadIsRight, OkWriteArrived, OkFreesBus, ErrorHasCause

LEMMA CallKeeps ==
    ASSUME IInv, NEW c \in Calls, Call(c)
    PROVE  IInv'
<1> USE DEF Reads, Call
<1>1. usci' = [tr |-> TRUE, stt |-> TRUE, stp |-> usci.stp, nack |-> usci.nack,
               txifg |-> usci.txifg, rxifg |-> usci.rxifg, txbuf |-> usci.txbuf,
               rxbuf |-> usci.rxbuf, shift |-> usci.shift, phase |-> usci.phase]
  BY DEF IInv, ShapeInv
<1>2. TypeOK'
  BY <1>1, CallIs DEF IInv, TypeOK
<1>3. ShapeInv'
  BY <1>1, CallIs DEF IInv, ShapeInv
<1>4. ControlInv'
  BY <1>1, CallIs DEF ControlInv
<1>5. ASSUME ~lost PROVE BusInv'
  <2>1. StartInv'
    BY <1>1, <1>5 DEF IInv, BusInv, IdleInv, StartInv, Calling
  <2>2. IdleInv' /\ SendInv' /\ RestartInv' /\ ReadInv' /\ WriteInv'
    BY <1>1 DEF IdleInv, SendInv, RestartInv, ReadInv, WriteInv
  <2>3. OkIsTrue' /\ ErrorHasCause'
    BY NotReturned
  <2> QED BY <2>1, <2>2, <2>3 DEF BusInv
<1> QED BY <1>2, <1>3, <1>4, <1>5 DEF IInv

LEMMA SendKeeps ==
    ASSUME IInv, Send
    PROVE  IInv'
<1> USE DEF Reads, Send, Goto, slaveVars
<1>1. usci' = [tr |-> usci.tr, stt |-> usci.stt, stp |-> usci.stp, nack |-> usci.nack,
               txifg |-> FALSE, rxifg |-> usci.rxifg, txbuf |-> Bytes(call)[n + 1],
               rxbuf |-> usci.rxbuf, shift |-> usci.shift, phase |-> usci.phase]
  BY DEF IInv, ShapeInv
<1>2. /\ usci.tr /\ n \in Nat /\ n < Len(Bytes(call)) /\ Len(Bytes(call)) \in Nat
      /\ Bytes(call)[n + 1] \in Byte /\ Bytes(call)[n + 1] # Nothing
  BY StatementIs DEF IInv, ControlInv
<1>3. TypeOK'
  BY <1>1, <1>2, StatementIs DEF IInv, TypeOK
<1>4. ShapeInv'
  BY <1>1, <1>2 DEF IInv, ShapeInv
<1>5. ControlInv'
  BY <1>1, <1>2, StatementIs DEF IInv, ControlInv
<1>6. ASSUME ~lost PROVE BusInv'
  <2>1. StartInv'
    BY <1>1, <1>2, <1>6 DEF IInv, BusInv, StartInv, Calling
  <2>2. SendInv'
    <3>1. CASE n = 0
      BY <3>1 DEF SendInv
    <3>2. CASE n > 0
      <4>1. AllShifted /\ ~usci.stt /\ ~usci.stp /\ ~usci.rxifg
        BY <1>6, <3>2 DEF IInv, BusInv, SendInv
      <4>2. Sending'
        BY <1>1, <1>2, <4>1 DEF AllShifted, Sending, OnTheWay, One
      <4> QED BY <1>1, <1>2, <3>2, <4>1, <4>2 DEF SendInv
    <3> QED BY <1>2, <3>1, <3>2
  <2>3. IdleInv' /\ RestartInv' /\ ReadInv' /\ WriteInv'
    BY <1>1, <1>2 DEF IdleInv, RestartInv, ReadInv, WriteInv
  <2>4. OkIsTrue' /\ ErrorHasCause'
    BY NotReturned DEF IInv, ControlInv
  <2> QED BY <2>1, <2>2, <2>3, <2>4 DEF BusInv
<1> QED BY <1>3, <1>4, <1>5, <1>6 DEF IInv

LEMMA RestartKeeps ==
    ASSUME IInv, Restart
    PROVE  IInv'
<1> USE DEF Reads, Restart, Goto, slaveVars
<1>1. usci' = [tr |-> FALSE, stt |-> TRUE, stp |-> usci.stp, nack |-> usci.nack,
               txifg |-> usci.txifg, rxifg |-> usci.rxifg, txbuf |-> usci.txbuf,
               rxbuf |-> usci.rxbuf, shift |-> usci.shift, phase |-> usci.phase]
  BY DEF IInv, ShapeInv
<1>2. Reads /\ n = Len(Bytes(call))
  BY DEF IInv, ControlInv
<1>3. TypeOK'
  BY <1>1, <1>2, StatementIs DEF IInv, TypeOK
<1>4. ShapeInv'
  BY <1>1 DEF IInv, ShapeInv
<1>5. ControlInv'
  BY <1>1, <1>2, StatementIs DEF IInv, ControlInv
<1>6. ASSUME ~lost PROVE BusInv'
  <2>1. RestartInv'
    BY <1>1, <1>2, <1>6 DEF IInv, BusInv, SendInv, RestartInv, AllShifted, OnTheWay, One
  <2>2. IdleInv' /\ StartInv' /\ SendInv' /\ ReadInv' /\ WriteInv'
    BY <1>1 DEF IdleInv, StartInv, SendInv, ReadInv, WriteInv
  <2>3. OkIsTrue' /\ ErrorHasCause'
    BY NotReturned DEF IInv, ControlInv
  <2> QED BY <2>1, <2>2, <2>3 DEF BusInv
<1> QED BY <1>3, <1>4, <1>5, <1>6 DEF IInv

LEMMA GetKeeps ==
    ASSUME IInv, Get
    PROVE  IInv'
<1> USE DEF Reads, Get, Goto, Return, slaveVars
<1>1. usci' = [tr |-> usci.tr, stt |-> usci.stt, stp |-> usci.stp, nack |-> usci.nack,
               txifg |-> usci.txifg, rxifg |-> FALSE, txbuf |-> usci.txbuf,
               rxbuf |-> usci.rxbuf, shift |-> usci.shift, phase |-> usci.phase]
  BY DEF IInv, ShapeInv
<1>2. Reads /\ ~usci.tr /\ n \in Nat /\ n < call.size /\ call.size \in Nat
  BY StatementIs DEF IInv, ControlInv
<1>3. TypeOK'
  BY <1>1, <1>2, StatementIs DEF IInv, TypeOK
<1>4. ShapeInv'
  BY <1>1, <1>2 DEF IInv, ShapeInv
<1>5. ControlInv'
  <2>1. CASE n = call.size - 1
    BY <1>1, <1>2, <2>1 DEF ControlInv
  <2>2. CASE n = call.size - 2
    BY <1>1, <1>2, <2>2 DEF IInv, ControlInv
  <2>3. CASE n < call.size - 2
    BY <1>1, <1>2, <2>3 DEF IInv, ControlInv
  <2> QED BY <1>2, <2>1, <2>2, <2>3
<1>6. ASSUME ~lost PROVE BusInv'
  <2>1. /\ Filled /\ ~usci.stt /\ ~usci.stp /\ usci.rxifg
        /\ (Receiving /\ n < call.size - 1) \/ (Received /\ n = call.size - 1)
    BY <1>2, <1>6 DEF IInv, BusInv, ReadInv
  <2>2. Filled'
    <3>1. DOMAIN data' = DOMAIN data /\ \A i \in DOMAIN data : i \in Int
      BY <1>2 DEF IInv, ShapeInv
    <3>2. ASSUME NEW i \in DOMAIN data, i >= call.size - (n + 1)
          PROVE  data'[i] = <<heard, call.size - i>>
      <4>1. CASE i = call.size - 1 - n
        <5>1. data'[i] = usci.rxbuf /\ usci.rxbuf = <<heard, n + 1>>
          BY <2>1, <4>1 DEF Receiving, Received, NextByte
        <5> QED BY <1>2, <4>1, <5>1
      <4>2. CASE i # call.size - 1 - n
        <5>1. data'[i] = data[i] /\ i >= call.size - n
          BY <1>2, <3>1, <3>2, <4>2
        <5> QED BY <2>1, <5>1 DEF Filled
      <4> QED BY <4>1, <4>2
    <3> QED BY <1>2, <3>1, <3>2 DEF Filled
  <2>3. ReadInv'
    <3>1. CASE n = call.size - 1
      BY <3>1 DEF ReadInv
    <3>2. CASE n < call.size - 1
      <4>1. Receiving'
        BY <1>1, <1>2, <2>1, <3>2 DEF IInv, TypeOK, Receiving, IndexTaken, NextByte, One
      <4> QED BY <1>1, <1>2, <2>1, <2>2, <3>2, <4>1 DEF ReadInv
    <3> QED BY <1>2, <3>1, <3>2
  <2>4. IdleInv'
    BY <1>1, <1>2, <2>1 DEF IdleInv, Received
  <2>5. StartInv' /\ SendInv' /\ RestartInv' /\ WriteInv'
    BY <1>1, <1>2 DEF StartInv, SendInv, RestartInv, WriteInv
  <2>6. OkIsTrue' /\ ErrorHasCause'
    <3>1. CASE n = call.size - 1
      <4>1. OkReadIsRight'
        <5>1. heard = call.addr \/ "index" \in refused
          BY <2>1 DEF Receiving, Received, IndexTaken
        <5>2. ASSUME NEW i \in DOMAIN data'
              PROVE  data'[i] = <<heard, call.size - i>>
          <6>1. DOMAIN data' = 0 .. call.size - 1
            BY <1>2 DEF IInv, ShapeInv
          <6>2. i >= call.size - (n + 1)
            BY <1>2, <3>1, <6>1
          <6> QED BY <2>2, <6>2 DEF Filled
        <5> QED BY <5>1, <5>2 DEF OkReadIsRight, RightBytes
      <4>2. OkFreesBus' /\ OkWriteArrived' /\ ErrorHasCause'
        BY <1>1, <1>2, <2>1, <3>1
           DEF OkFreesBus, OkWriteArrived, ErrorHasCause, Received
      <4> QED BY <4>1, <4>2 DEF OkIsTrue
    <3>2. CASE n # call.size - 1
      BY <3>2, NotReturned DEF IInv, ControlInv
    <3> QED BY <3>1, <3>2
  <2> QED BY <2>3, <2>4, <2>5, <2>6 DEF BusInv
<1> QED BY <1>3, <1>4, <1>5, <1>6 DEF IInv

LEMMA StopKeeps ==
    ASSUME IInv, Stop
    PROVE  IInv'
<1> USE DEF Reads, Stop, Goto, slaveVars
<1>1. usci' = [tr |-> usci.tr, stt |-> usci.stt, stp |-> TRUE, nack |-> usci.nack,
               txifg |-> usci.txifg, rxifg |-> usci.rxifg, txbuf |-> usci.txbuf,
               rxbuf |-> usci.rxbuf, shift |-> usci.shift, phase |-> usci.phase]
  BY DEF IInv, ShapeInv
<1>2. TypeOK'
  BY <1>1, StatementIs DEF IInv, TypeOK
<1>3. ShapeInv'
  BY <1>1 DEF IInv, ShapeInv
<1>4. ControlInv'
  BY <1>1, StatementIs DEF IInv, ControlInv
<1>5. ASSUME ~lost PROVE BusInv'
  <2>1. ReadInv'
    BY <1>1, <1>5 DEF IInv, BusInv, ReadInv, Receiving, IndexTaken, NextByte, Filled
  <2>2. WriteInv'
    BY <1>1, <1>5 DEF IInv, BusInv, WriteInv, AllShifted, OnTheWay
  <2>3. IdleInv' /\ StartInv' /\ SendInv' /\ RestartInv'
    BY DEF IdleInv, StartInv, SendInv, RestartInv
  <2>4. OkIsTrue' /\ ErrorHasCause'
    BY NotReturned DEF IInv, ControlInv
  <2> QED BY <2>1, <2>2, <2>3, <2>4 DEF BusInv
<1> QED BY <1>2, <1>3, <1>4, <1>5 DEF IInv

LEMMA i2c_wait_start_conditionKeeps ==
    ASSUME IInv, i2c_wait_start_condition
    PROVE  IInv'
<1> USE DEF Reads, slaveVars, Goto, Return
<1>1. /\ pc = "wait_start"
      /\ UNCHANGED <<usci, heard, served, held, refused, holds, call, n, data>>
      /\ \/ ~usci.stt /\ usci.nack /\ Return("START") /\ UNCHANGED lost
         \/ ~usci.stt /\ ~usci.nack /\ AfterStart /\ UNCHANGED lost
         \/ usci.stt /\ BusStands /\ Return("TIMEOUT") /\ lost' = (lost \/ held)
         \/ usci.stt /\ retries # 1 /\ retries' = retries - 1 /\ UNCHANGED <<pc, result, lost>>
  BY DEF i2c_wait_start_condition, WaitBefore, Checked
<1>2. TypeOK'
  BY <1>1, StatementIs DEF IInv, TypeOK, ControlInv, AfterStart
<1>3. ShapeInv'
  BY <1>1 DEF IInv, ShapeInv
<1>4. ControlInv'
  BY <1>1, StatementIs DEF IInv, ControlInv, AfterStart
<1>5. ASSUME ~lost' PROVE BusInv'
  <2>1. BusInv /\ ~lost
    BY <1>1, <1>5 DEF IInv, TypeOK
  <2>2. CASE ~usci.stt /\ usci.nack /\ Return("START")
    <3>1. Refused /\ ~usci.stp /\ ~usci.rxifg
      BY <1>1, <2>1, <2>2 DEF BusInv, StartInv, RestartInv, Sending, OnTheWay, Receiving
    <3> QED BY <1>1, <2>2, <3>1, FailureKeeps DEF Refused
  <2>3. CASE ~usci.stt /\ ~usci.nack /\ AfterStart
    <3>1. CASE usci.tr
      <4>1. Sending /\ ~usci.stp /\ ~usci.rxifg
        BY <1>1, <2>1, <2>3, <3>1 DEF BusInv, StartInv, Refused
      <4>2. Sending' /\ pc' = "wait_tx" /\ result' = "none"
        BY <1>1, <2>3, <3>1, <4>1 DEF IInv, ControlInv, AfterStart, Sending, OnTheWay
      <4> QED BY <1>1, <2>3, <4>1, <4>2, NotReturned
              DEF BusInv, IdleInv, StartInv, SendInv, RestartInv, ReadInv, WriteInv
    <3>2. CASE ~usci.tr
      <4>1. Receiving /\ ~usci.stp /\ Reads /\ n = 0
        BY <1>1, <2>1, <2>3, <3>2 DEF IInv, ControlInv, BusInv, RestartInv, Refused
      <4>2. Receiving' /\ result' = "none"
            /\ pc' = IF call.size = 1 THEN "stop" ELSE "wait_rx"
        BY <1>1, <2>3, <3>2, <4>1
           DEF IInv, ControlInv, AfterStart, Receiving, IndexTaken, NextByte
      <4>3. Filled'
        BY <1>1, <4>1, StatementIs DEF IInv, ShapeInv, Filled
      <4> QED BY <1>1, <2>3, <4>1, <4>2, <4>3, StatementIs, NotReturned
              DEF BusInv, IdleInv, StartInv, SendInv, RestartInv, ReadInv, WriteInv
    <3> QED BY <3>1, <3>2
  <2>4. CASE usci.stt /\ BusStands /\ Return("TIMEOUT") /\ lost' = (lost \/ held)
    BY <1>5, <2>4 DEF BusStands
  <2>5. CASE usci.stt /\ UNCHANGED <<pc, result, lost>>
    BY <1>1, <2>1, <2>5, BusFixed
  <2> QED BY <1>1, <2>2, <2>3, <2>4, <2>5
<1> QED BY <1>2, <1>3, <1>4, <1>5 DEF IInv

LEMMA i2c_wait_tx_byteKeeps ==
    ASSUME IInv, i2c_wait_tx_byte
    PROVE  IInv'
<1> USE DEF Reads, slaveVars, Goto, Return
<1>1. /\ pc = "wait_tx"
      /\ UNCHANGED <<usci, heard, served, held, refused, holds, call, n, data>>
      /\ \/ usci.txifg /\ Return("TIMEOUT") /\ lost'
         \/ usci.txifg /\ usci.nack /\ Return("TX") /\ UNCHANGED lost
         \/ usci.txifg /\ ~usci.nack /\ AfterTx /\ UNCHANGED lost
         \/ ~usci.txifg /\ BusStands /\ usci.nack /\ Return("TX") /\ lost' = (lost \/ held)
         \/ ~usci.txifg /\ BusStands /\ ~usci.nack /\ AfterTx /\ lost' = (lost \/ held)
         \/ ~usci.txifg /\ retries # 0 /\ retries' = retries - 1 /\ UNCHANGED <<pc, result, lost>>
  BY DEF i2c_wait_tx_byte, WaitAfter, Checked
<1>2. TypeOK'
  <2>1. retries' \in 0 .. RETRY_COUNT
    BY <1>1, StatementIs DEF AfterTx
  <2>2. pc' \in {"idle", "wait_tx", "send", "stop", "restart"}
        /\ result' \in {result, "TX", "TIMEOUT"}
    BY <1>1 DEF AfterTx
  <2>3. lost' \in BOOLEAN
    BY <1>1 DEF IInv, TypeOK
  <2> QED BY <1>1, <2>1, <2>2, <2>3 DEF IInv, TypeOK
<1>3. ShapeInv'
  BY <1>1 DEF IInv, ShapeInv
<1>4. ControlInv'
  BY <1>1, StatementIs DEF IInv, ControlInv, AfterTx
<1>5. ASSUME ~lost' PROVE BusInv'
  <2>1. BusInv /\ ~lost
    BY <1>1, <1>5 DEF IInv, TypeOK
  <2>2. (Sending \/ Refused) /\ ~usci.stt /\ ~usci.stp /\ ~usci.rxifg
    BY <1>1, <2>1 DEF BusInv, SendInv, AllShifted, Sending
  <2>3. CASE usci.nack /\ Return("TX")
    BY <1>1, <2>2, <2>3, FailureKeeps DEF Sending, OnTheWay, Refused
  <2>4. CASE usci.txifg /\ ~usci.nack /\ AfterTx
    <3>1. AllShifted
      BY <2>2, <2>4 DEF Refused, Sending, AllShifted
    <3>2. AllShifted' /\ result' = "none" /\ pc' \in {"send", "stop", "restart"}
      BY <1>1, <2>4, <3>1 DEF IInv, ControlInv, AfterTx, AllShifted, OnTheWay
    <3>3. n >= 1 /\ (pc' = "stop" => ~Reads)
      BY <1>1, <2>4 DEF IInv, ControlInv, AfterTx
    <3> QED BY <1>1, <2>2, <3>2, <3>3, StatementIs, NotReturned
            DEF BusInv, IdleInv, StartInv, SendInv, RestartInv, ReadInv, WriteInv
  <2>5. CASE ~usci.txifg /\ BusStands /\ ~usci.nack /\ lost' = (lost \/ held)
    BY <1>5, <2>2, <2>5 DEF BusStands, Refused, Sending, OnTheWay
  <2>6. CASE ~usci.txifg /\ UNCHANGED <<pc, result, lost>>
    BY <1>1, <2>1, <2>6, BusFixed
  <2> QED BY <1>1, <1>5, <2>3, <2>4, <2>5, <2>6
<1> QED BY <1>2, <1>3, <1>4, <1>5 DEF IInv

LEMMA i2c_wait_rx_byteKeeps ==
    ASSUME IInv, i2c_wait_rx_byte
    PROVE  IInv'
<1> USE DEF Reads, slaveVars, Goto, Return
<1>1. /\ pc = "wait_rx"
      /\ UNCHANGED <<usci, heard, served, held, refused, holds, call, n, data>>
      /\ \/ usci.rxifg /\ Return("TIMEOUT") /\ lost'
         \/ usci.rxifg /\ usci.nack /\ Return("RX") /\ UNCHANGED lost
         \/ usci.rxifg /\ ~usci.nack /\ Goto("get") /\ UNCHANGED lost
         \/ ~usci.rxifg /\ BusStands /\ usci.nack /\ Return("RX") /\ lost' = (lost \/ held)
         \/ ~usci.rxifg /\ BusStands /\ ~usci.nack /\ Goto("get") /\ lost' = (lost \/ held)
         \/ ~usci.rxifg /\ retries # 0 /\ retries' = retries - 1 /\ UNCHANGED <<pc, result, lost>>
  BY DEF i2c_wait_rx_byte, WaitAfter, Checked
<1>2. TypeOK'
  <2>1. retries' \in 0 .. RETRY_COUNT
    BY <1>1, StatementIs
  <2>2. pc' \in {"idle", "wait_rx", "get"} /\ result' \in {result, "RX", "TIMEOUT"}
    BY <1>1
  <2>3. lost' \in BOOLEAN
    BY <1>1 DEF IInv, TypeOK
  <2> QED BY <1>1, <2>1, <2>2, <2>3 DEF IInv, TypeOK
<1>3. ShapeInv'
  BY <1>1 DEF IInv, ShapeInv
<1>4. ControlInv'
  BY <1>1, StatementIs DEF IInv, ControlInv
<1>5. ASSUME ~lost' PROVE BusInv'
  <2>1. BusInv /\ ~lost
    BY <1>1, <1>5 DEF IInv, TypeOK
  <2>2. /\ Reads /\ Filled /\ ~usci.stt /\ ~usci.stp
        /\ (Receiving /\ n < call.size - 1) \/ (Received /\ n = call.size - 1)
    BY <1>1, <2>1 DEF IInv, ControlInv, BusInv, ReadInv
  <2>3. CASE usci.nack
    BY <2>2, <2>3 DEF Receiving, Received
  <2>4. CASE usci.rxifg /\ ~usci.nack /\ Goto("get")
    <3>1. /\ Filled' /\ result' = "none"
          /\ (Receiving' /\ n < call.size - 1) \/ (Received' /\ n = call.size - 1)
      BY <1>1, <2>2, <2>4
         DEF IInv, ControlInv, Filled, Receiving, Received, IndexTaken, NextByte
    <3> QED BY <1>1, <2>2, <2>4, <3>1, NotReturned
            DEF BusInv, IdleInv, StartInv, SendInv, RestartInv, ReadInv, WriteInv
  <2>5. CASE ~usci.rxifg /\ BusStands /\ ~usci.nack /\ lost' = (lost \/ held)
    BY <1>5, <2>2, <2>5 DEF BusStands, Receiving, Received
  <2>6. CASE ~usci.rxifg /\ UNCHANGED <<pc, result, lost>>
    BY <1>1, <2>1, <2>6, BusFixed
  <2> QED BY <1>1, <1>5, <2>3, <2>4, <2>5, <2>6
<1> QED BY <1>2, <1>3, <1>4, <1>5 DEF IInv

LEMMA i2c_stop_transferKeeps ==
    ASSUME IInv, i2c_stop_transfer
    PROVE  IInv'
<1> USE DEF Reads, slaveVars, Goto, Return
<1>1. /\ pc = "wait_stop"
      /\ UNCHANGED <<usci, heard, served, held, refused, holds, call, n, data>>
      /\ \/ ~usci.stp /\ usci.nack /\ Return("STOP") /\ UNCHANGED lost
         \/ ~usci.stp /\ ~usci.nack /\ AfterStop /\ UNCHANGED lost
         \/ usci.stp /\ BusStands /\ Return("TIMEOUT") /\ lost' = (lost \/ held)
         \/ usci.stp /\ retries # 1 /\ retries' = retries - 1 /\ UNCHANGED <<pc, result, lost>>
  BY DEF i2c_stop_transfer, WaitBefore, Checked
<1>2. TypeOK'
  BY <1>1, StatementIs DEF IInv, TypeOK, ControlInv, AfterStop
<1>3. ShapeInv'
  BY <1>1 DEF IInv, ShapeInv
<1>4. ControlInv'
  BY <1>1, StatementIs DEF IInv, ControlInv, AfterStop
<1>5. ASSUME ~lost' PROVE BusInv'
  <2>1. BusInv /\ ~lost
    BY <1>1, <1>5 DEF IInv, TypeOK
  <2>2. CASE ~usci.stp /\ usci.nack /\ Return("STOP")
    <3>1. usci.phase = "idle" /\ ~usci.stt /\ ~usci.rxifg /\ refused # {}
      BY <1>1, <2>1, <2>2 DEF BusInv, ReadInv, WriteInv, Receiving, Received
    <3> QED BY <1>1, <2>2, <3>1, FailureKeeps
  <2>3. CASE ~usci.stp /\ ~usci.nack /\ AfterStop
    <3>1. CASE Reads
      <4>1. Received /\ Filled /\ ~usci.stt /\ n = call.size - 1
        BY <1>1, <2>1, <2>3, <3>1 DEF BusInv, ReadInv
      <4>2. Received' /\ Filled' /\ pc' = "wait_rx" /\ result' = "none"
        BY <1>1, <2>3, <3>1, <4>1, StatementIs
           DEF IInv, ControlInv, AfterStop, Received, Filled, IndexTaken, NextByte
      <4> QED BY <1>1, <2>3, <3>1, <4>1, <4>2, NotReturned
              DEF BusInv, IdleInv, StartInv, SendInv, RestartInv, ReadInv, WriteInv
    <3>2. CASE ~Reads
      <4>1. usci.phase = "idle" /\ heard = Bytes(call) /\ ~usci.stt /\ ~usci.rxifg
        BY <1>1, <2>1, <2>3, <3>2 DEF BusInv, WriteInv
      <4>2. pc' = "idle" /\ result' = "OK"
        BY <1>1, <2>3, <3>2, CallIs DEF IInv, TypeOK, AfterStop
      <4> QED BY <1>1, <2>3, <3>2, <4>1, <4>2
              DEF BusInv, IdleInv, StartInv, SendInv, RestartInv, ReadInv, WriteInv,
                  OkIsTrue, OkReadIsRight, OkWriteArrived, OkFreesBus, ErrorHasCause
    <3> QED BY <3>1, <3>2
  <2>4. CASE usci.stp /\ BusStands /\ lost' = (lost \/ held)
    BY <1>5, <2>4 DEF BusStands
  <2>5. CASE usci.stp /\ UNCHANGED <<pc, result, lost>>
    BY <1>1, <2>1, <2>5, BusFixed
  <2> QED BY <1>1, <2>2, <2>3, <2>4, <2>5
<1> QED BY <1>2, <1>3, <1>4, <1>5 DEF IInv

LEMMA HoldKeeps ==
    ASSUME IInv, Hold \/ Release \/ UNCHANGED vars
    PROVE  IInv'
<1>1. /\ UNCHANGED <<usci, heard, served, refused, call, pc, n, retries, data, result, lost>>
      /\ held' \in BOOLEAN /\ holds' \in 0 .. MaxHolds
  <2> USE DEF slaveVars, driverVars
  <2>1. CASE Hold
    BY <2>1, I2cAssumption DEF IInv, TypeOK, Hold
  <2>2. CASE Release
    BY <2>2 DEF IInv, TypeOK, Release
  <2>3. CASE UNCHANGED vars
    BY <2>3 DEF IInv, TypeOK, vars
  <2> QED BY <2>1, <2>2, <2>3
<1>2. TypeOK'
  BY <1>1 DEF IInv, TypeOK
<1>3. ShapeInv' /\ ControlInv'
  BY <1>1 DEF IInv, ShapeInv, ControlInv, Reads
<1> QED BY <1>1, <1>2, <1>3, BusFixed DEF IInv

-----------------------------------------------------------------------------
(* The invariant, and what follows from it.                                 *)

LEMMA InitHolds ==
    ASSUME Init
    PROVE  IInv
<1> USE DEF Init
<1>1. TypeOK
  <2>1. \A f \in {"tr", "stt", "stp", "nack", "txifg", "rxifg"} : usci[f] = FALSE
    OBVIOUS
  <2>2. 0 \in 0 .. MaxHolds /\ RETRY_COUNT \in 0 .. RETRY_COUNT
    BY I2cAssumption
  <2>3. n \in 0 .. IF call.kind = "read" /\ ~usci.tr THEN call.size ELSE Len(Bytes(call))
    BY CallIs
  <2> QED BY <2>1, <2>2, <2>3 DEF TypeOK
<1>2. ShapeInv /\ ControlInv
  BY EmptySeq DEF ShapeInv, ControlInv
<1>3. IdleInv /\ StartInv /\ SendInv /\ RestartInv /\ ReadInv /\ WriteInv
  BY DEF IdleInv, StartInv, SendInv, RestartInv, ReadInv, WriteInv
<1>4. OkIsTrue /\ ErrorHasCause
  BY DEF OkIsTrue, OkReadIsRight, OkWriteArrived, OkFreesBus, ErrorHasCause
<1> QED BY <1>1, <1>2, <1>3, <1>4 DEF IInv, BusInv

LEMMA StepKeeps ==
    ASSUME IInv, [Next]_vars
    PROVE  IInv'
<1>1. ASSUME Bus PROVE IInv'
  <2>1. AddressTaken => (AddressTaken /\ usci.tr) \/ (AddressTaken /\ ~usci.tr)
    OBVIOUS
  <2> QED BY <1>1, <2>1, UsciStartKeeps, AddressToSendKeeps, AddressToReadKeeps,
             AddressRefusedKeeps, UsciLoadKeeps, ByteTakenKeeps, ByteRefusedKeeps,
             ByteArrivesKeeps, UsciStoreKeeps, UsciStopKeeps DEF Bus
<1>2. ASSUME Driver PROVE IInv'
  BY <1>2, SendKeeps, RestartKeeps, GetKeeps, StopKeeps,
     i2c_wait_start_conditionKeeps, i2c_wait_tx_byteKeeps, i2c_wait_rx_byteKeeps,
     i2c_stop_transferKeeps DEF Driver
<1>3. ASSUME NEW c \in Calls, Call(c) PROVE IInv'
  BY <1>3, CallKeeps
<1> QED BY <1>1, <1>2, <1>3, HoldKeeps DEF Next

(* The driver, the USCI and the slave stay in step, until a loop gives up   *)
(* on a held clock.                                                         *)
THEOREM Invariant == Spec => []IInv
<1>1. Init => IInv
  BY InitHolds
<1>2. IInv /\ [Next]_vars => IInv'
  BY StepKeeps
<1> QED BY <1>1, <1>2, PTL DEF Spec

(* The loops count within the calls and within RETRY_COUNT, also after one  *)
(* has given up.                                                            *)
THEOREM TypeSafety == Spec => []TypeOK
<1>1. IInv => TypeOK
  BY DEF IInv
<1> QED BY <1>1, Invariant, PTL

(* An OK of i2c_write means that the slave has every byte, an OK of         *)
(* i2c_read that the array holds the bytes of the register asked for, and   *)
(* either that the bus is free for the next call.                           *)
THEOREM Truthful == Spec => []OkIsTrue
<1>1. IInv => OkIsTrue
  <2>1. lost => OkIsTrue
    BY DEF OkIsTrue, OkReadIsRight, OkWriteArrived, OkFreesBus
  <2> QED BY <2>1 DEF IInv, BusInv
<1> QED BY <1>1, Invariant, PTL

(* A call fails because of what the slave has refused in that very call,    *)
(* and never for what an earlier one has left behind.                       *)
THEOREM NoFalseAlarm == Spec => []ErrorHasCause
<1>1. IInv => ErrorHasCause
  <2>1. lost => ErrorHasCause
    BY DEF ErrorHasCause
  <2> QED BY <2>1 DEF IInv, BusInv
<1> QED BY <1>1, Invariant, PTL

=============================================================================
