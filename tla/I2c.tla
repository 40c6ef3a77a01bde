-------------------------------- MODULE I2c --------------------------------
(***************************************************************************)
(* drivers/i2c.c: the polling master, the USCI_B0 module that works the    *)
(* bus in the meantime, and one slave that takes the bytes of a write, or  *)
(* a register index followed by a read.  The driver's loops look at flags  *)
(* the USCI changes between any two of its statements.  The slave may      *)
(* refuse any byte, and hold the clock for as long as it likes.            *)
(*                                                                         *)
(* A byte the slave sends is the pair of the index it was asked for and    *)
(* its number, so that a stale or misplaced byte shows.                    *)
(***************************************************************************)
EXTENDS Naturals, Sequences

CONSTANTS
    Byte,         \* what the driver may send
    Calls,        \* the calls: of i2c_write [kind, addr, data] with addr and
                  \* data sequences; of i2c_read [kind, addr, size]
    RETRY_COUNT,  \* UINT16_MAX, here small
    MaxHolds,     \* bound: how often the slave holds the clock
    Nothing       \* an empty buffer

ASSUME I2cAssumption ==
    /\ \A c \in Calls : c.addr \in Seq(Byte) /\ Len(c.addr) > 0
          /\ \/ c.kind = "write" /\ c.data \in Seq(Byte) /\ Len(c.data) > 0
             \/ c.kind = "read" /\ c.size \in Nat \ {0}
    /\ Nothing \notin Byte
    /\ RETRY_COUNT \in Nat \ {0} /\ MaxHolds \in Nat

VARIABLES
    usci,     \* UCB0CTL1, UCB0STAT, the flags in IFG2, the buffers, what is
              \* being shifted, and the phase of the transfer
    heard,    \* the bytes the slave has taken since it was addressed to write
    served,   \* the number of bytes it has sent since it was addressed to read
    held,     \* it holds the clock
    call,     \* the running or last call
    pc,       \* the statement the driver is at
    n,        \* bytes sent in this phase, or bytes read
    retries,
    data,     \* the caller's array, an index to a byte
    result,   \* of the last call, "none" while one runs
    refused,  \* history: the slave refused its address, an index byte or a
              \* data byte in this call
    lost,     \* history: a loop has run out of retries with the clock held
    holds     \* times the clock was held

driverVars == <<call, pc, n, retries, data, result, lost>>
slaveVars == <<heard, served, held, refused, holds>>
vars == <<usci, slaveVars, driverVars>>

Bytes(c) == IF c.kind = "write" THEN c.addr \o c.data ELSE c.addr

-----------------------------------------------------------------------------
(* The USCI and the slave. *)

(* A byte takes 90 us, longer than any interrupt handler and what the       *)
(* driver does between two of its loops.  Once it has given up on a held    *)
(* clock it may be anywhere when a byte ends.                               *)
DriverWaits ==
    pc \in {"idle", "wait_start", "wait_tx", "wait_rx", "wait_stop"} \/ lost

Phase(p) == usci.phase = p /\ ~held
Shifted(p) == Phase(p) /\ DriverWaits

(* A START, also a repeated one: when nothing is being shifted.             *)
UsciStart ==
    /\ usci.stt /\ ~held /\ usci.phase \in {"idle", "ready", "full", "refused"}
    /\ usci' = [usci EXCEPT !.phase = "address", !.nack = FALSE]
    /\ UNCHANGED <<slaveVars, driverVars>>

AddressTaken ==
    /\ Shifted("address")
    /\ IF usci.tr
       THEN /\ usci' = [usci EXCEPT !.phase = "ready", !.stt = FALSE, !.txifg = TRUE
                                        /\ usci.txbuf = Nothing]
            /\ heard' = <<>> /\ UNCHANGED served
       ELSE /\ usci' = [usci EXCEPT !.phase = "in", !.stt = FALSE]
            /\ served' = 0 /\ UNCHANGED heard
    /\ UNCHANGED <<held, refused, holds, driverVars>>

Refuse(what) ==
    /\ usci' = [usci EXCEPT !.phase = "refused", !.nack = TRUE, !.txbuf = Nothing,
                            !.stt = IF what = "address" THEN FALSE ELSE @]
    /\ refused' = refused \union {what}
    /\ UNCHANGED <<heard, served, held, holds, driverVars>>
AddressRefused == Shifted("address") /\ Refuse("address")

(* The byte to send goes to the shift register.                             *)
UsciLoad ==
    /\ Phase("ready") /\ usci.txbuf # Nothing
    /\ usci' = [usci EXCEPT !.phase = "out", !.shift = usci.txbuf,
                            !.txbuf = Nothing, !.txifg = TRUE]
    /\ UNCHANGED <<slaveVars, driverVars>>

ByteTaken ==
    /\ Shifted("out") /\ heard' = Append(heard, usci.shift)
    /\ usci' = [usci EXCEPT !.phase = "ready"]
    /\ UNCHANGED <<served, held, refused, holds, driverVars>>
ByteRefused ==
    /\ Shifted("out")
    /\ Refuse(IF Len(heard) < Len(call.addr) THEN "index" ELSE "data")

(* A byte arrives; the bus waits if the one before has not been read.       *)
ByteArrives ==
    /\ Shifted("in") /\ served' = served + 1
    /\ usci' = [usci EXCEPT !.phase = "full", !.shift = <<heard, served + 1>>]
    /\ UNCHANGED <<heard, held, refused, holds, driverVars>>

(* It is acknowledged, or not if a STOP or START is to follow.              *)
UsciStore ==
    /\ Phase("full") /\ ~usci.rxifg
    /\ usci' = [usci EXCEPT !.rxbuf = usci.shift, !.rxifg = TRUE,
                   !.phase = IF usci.stp THEN "idle"
                             ELSE IF usci.stt THEN "ready" ELSE "in",
                   !.stp = FALSE]
    /\ UNCHANGED <<slaveVars, driverVars>>

(* Else a STOP waits for the end of a byte; a byte without a place is lost. *)
UsciStop ==
    /\ usci.stp /\ ~held
    /\ \/ usci.phase \in {"idle", "refused"}
       \/ usci.phase = "ready" /\ usci.txbuf = Nothing
       \/ usci.phase = "full" /\ usci.rxifg
    /\ usci' = [usci EXCEPT !.phase = "idle", !.stp = FALSE]
    /\ UNCHANGED <<slaveVars, driverVars>>

Hold ==
    /\ ~held /\ holds < MaxHolds /\ usci.phase # "idle"
    /\ held' = TRUE /\ holds' = holds + 1
    /\ UNCHANGED <<usci, heard, served, refused, driverVars>>
Release ==
    /\ held /\ held' = FALSE
    /\ UNCHANGED <<usci, heard, served, refused, holds, driverVars>>

(* Nothing will happen on the bus before the driver does something.         *)
BusStands ==
    \/ held
    \/ usci.phase \in {"idle", "refused"} /\ ~usci.stt /\ ~usci.stp
    \/ usci.phase = "ready" /\ usci.txbuf = Nothing /\ ~usci.stt /\ ~usci.stp
    \/ usci.phase = "full" /\ usci.rxifg /\ ~usci.stp /\ ~usci.stt

-----------------------------------------------------------------------------
(* The driver. *)
Goto(statement) == pc' = statement /\ retries' = RETRY_COUNT /\ UNCHANGED result
Return(how) == pc' = "idle" /\ result' = how /\ UNCHANGED retries

(* The next byte of the phase, or what follows it.                          *)
AfterTx ==
    IF n < Len(Bytes(call)) THEN Goto("send")
    ELSE IF call.kind = "write" THEN Goto("stop") ELSE Goto("restart")

(* Mutant: the first byte is not waited for. *)
AfterStart_no_wait ==
    IF usci.tr THEN AfterTx
    ELSE IF call.size = 1 THEN Goto("stop") ELSE Goto("wait_rx")

AfterStart ==
    IF usci.tr THEN Goto("wait_tx")
    ELSE IF call.size = 1 THEN Goto("stop") ELSE Goto("wait_rx")

AfterStop == IF call.kind = "write" THEN Return("OK") ELSE Goto("wait_rx")

(* A loop of the driver while a flag is awaited: i2c_wait_start_condition   *)
(* and i2c_stop_transfer decrement before the test, the waits for a byte    *)
(* after it.  The flag is looked at first.  Only a bus that stands makes    *)
(* them count so long.                                                      *)
Checked(error, next) == IF usci.nack THEN Return(error) ELSE next

WaitBefore(statement, flag, error, next) ==
    /\ pc = statement
    /\ \/ flag /\ Checked(error, next) /\ UNCHANGED lost
       \/ /\ ~flag /\ BusStands
          /\ IF retries = 1
             THEN Return("TIMEOUT") /\ lost' = (lost \/ held)
             ELSE retries' = retries - 1 /\ UNCHANGED <<pc, result, lost>>
    /\ UNCHANGED <<usci, slaveVars, call, n, data>>

(* This one does not return a timeout when the retries have run out, only   *)
(* when the flag has come at the very last of them.                         *)
WaitAfter(statement, flag, error, next) ==
    /\ pc = statement
    /\ \/ flag /\ retries = 0 /\ Return("TIMEOUT") /\ lost' = TRUE
       \/ flag /\ retries > 0 /\ Checked(error, next) /\ UNCHANGED lost
       \/ /\ ~flag /\ BusStands
          /\ IF retries = 0
             THEN Checked(error, next) /\ lost' = (lost \/ held)
             ELSE retries' = retries - 1 /\ UNCHANGED <<pc, result, lost>>
    /\ UNCHANGED <<usci, slaveVars, call, n, data>>

(* i2c_send_addr: sender, START. *)
Call(c) ==
    /\ pc = "idle" /\ call' = c
    /\ usci' = [usci EXCEPT !.tr = TRUE, !.stt = TRUE]
    /\ pc' = "send" /\ n' = 0 /\ result' = "none" /\ UNCHANGED lost
    /\ refused' = {}
    /\ data' = [i \in 0 .. (IF c.kind = "read" THEN c.size - 1 ELSE 0) |-> Nothing]
    /\ UNCHANGED <<heard, served, held, holds, retries>>

(* i2c_set_tx_byte; the first byte is written before the address is out.    *)
Send ==
    /\ pc = "send" /\ n' = n + 1
    /\ usci' = [usci EXCEPT !.txbuf = Bytes(call)[n + 1], !.txifg = FALSE]
    /\ Goto(IF n = 0 THEN "wait_start" ELSE "wait_tx")
    /\ UNCHANGED <<slaveVars, call, data, lost>>

(* Mutant: the START is not waited for. *)
i2c_wait_start_condition_missing == WaitBefore("wait_start", TRUE, "START", AfterStart)

i2c_wait_start_condition == WaitBefore("wait_start", ~usci.stt, "START", AfterStart)
i2c_wait_tx_byte == WaitAfter("wait_tx", usci.txifg, "TX", AfterTx)
i2c_wait_rx_byte == WaitAfter("wait_rx", usci.rxifg, "RX", Goto("get"))

(* Mutant: the driver stays the sender. *)
Restart_as_sender ==
    /\ pc = "restart" /\ n' = 0 /\ Goto("wait_start")
    /\ usci' = [usci EXCEPT !.stt = TRUE]
    /\ UNCHANGED <<slaveVars, call, data, lost>>

(* Mutant: the bytes read are counted on from the bytes sent. *)
Restart_keeps_n ==
    /\ pc = "restart" /\ Goto("wait_start") /\ UNCHANGED n
    /\ usci' = [usci EXCEPT !.tr = FALSE, !.stt = TRUE]
    /\ UNCHANGED <<slaveVars, call, data, lost>>

(* i2c_start_rx_transfer: receiver, repeated START.                         *)
Restart ==
    /\ pc = "restart" /\ n' = 0 /\ Goto("wait_start")
    /\ usci' = [usci EXCEPT !.tr = FALSE, !.stt = TRUE]
    /\ UNCHANGED <<slaveVars, call, data, lost>>

(* data[i] = i2c_get_rx_byte(), from the last index down to 0; the STOP is  *)
(* set before the last byte is awaited.                                     *)
Get ==
    /\ pc = "get" /\ n' = n + 1
    /\ data' = [data EXCEPT ![call.size - 1 - n] = usci.rxbuf]
    /\ usci' = [usci EXCEPT !.rxifg = FALSE]
    /\ IF n = call.size - 1 THEN Return("OK")
       ELSE IF n = call.size - 2 THEN Goto("stop") ELSE Goto("wait_rx")
    /\ UNCHANGED <<slaveVars, call, lost>>

Stop ==
    /\ pc = "stop" /\ usci' = [usci EXCEPT !.stp = TRUE] /\ Goto("wait_stop")
    /\ UNCHANGED <<slaveVars, call, n, data, lost>>
i2c_stop_transfer == WaitBefore("wait_stop", ~usci.stp, "STOP", AfterStop)

-----------------------------------------------------------------------------
Init ==
    /\ usci = [tr |-> FALSE, stt |-> FALSE, stp |-> FALSE, nack |-> FALSE,
               txifg |-> FALSE, rxifg |-> FALSE, txbuf |-> Nothing,
               rxbuf |-> Nothing, shift |-> Nothing, phase |-> "idle"]
    /\ heard = <<>> /\ served = 0 /\ held = FALSE /\ refused = {} /\ holds = 0
    /\ call \in Calls /\ pc = "idle" /\ n = 0 /\ retries = RETRY_COUNT
    /\ data = [i \in {0} |-> Nothing] /\ result = "none" /\ lost = FALSE

Bus == UsciStart \/ AddressTaken \/ AddressRefused \/ UsciLoad \/ ByteTaken
           \/ ByteRefused \/ ByteArrives \/ UsciStore \/ UsciStop
Driver == Send \/ Restart \/ Get \/ Stop \/ i2c_wait_start_condition
           \/ i2c_wait_tx_byte \/ i2c_wait_rx_byte \/ i2c_stop_transfer

Next == Bus \/ Hold \/ Release \/ Driver \/ \E c \in Calls : Call(c)

(* The driver and the module run on; a slave that holds the clock may do so *)
(* for ever.                                                                *)
Spec == Init /\ [][Next]_vars
FairSpec == Spec /\ WF_vars(Bus) /\ WF_vars(Driver)

-----------------------------------------------------------------------------
TypeOK ==
    /\ \A f \in {"tr", "stt", "stp", "nack", "txifg", "rxifg"} : usci[f] \in BOOLEAN
    /\ usci.phase \in {"idle", "address", "ready", "out", "in", "full", "refused"}
    /\ held \in BOOLEAN /\ lost \in BOOLEAN /\ holds \in 0 .. MaxHolds
    /\ call \in Calls /\ served \in Nat
    /\ n \in 0 .. IF call.kind = "read" /\ ~usci.tr THEN call.size ELSE Len(Bytes(call))
    /\ retries \in 0 .. RETRY_COUNT /\ refused \subseteq {"address", "index", "data"}
    /\ pc \in {"idle", "send", "restart", "get", "stop", "wait_start", "wait_tx",
               "wait_rx", "wait_stop"}
    /\ result \in {"none", "OK", "START", "TX", "RX", "STOP", "TIMEOUT"}

(* What i2c_read has returned with an OK are the bytes of the register that *)
(* was asked for, most significant last, none twice and none of an earlier  *)
(* call, provided the index was taken and no loop has given up on a held    *)
(* clock.                                                                   *)
RightBytes == \A i \in DOMAIN data : data[i] = <<call.addr, call.size - i>>
OkReadIsRight ==
    result = "OK" /\ call.kind = "read" /\ ~lost /\ "index" \notin refused
        => RightBytes

(* When i2c_write has returned OK the slave has taken every byte, in order. *)
OkWriteArrived ==
    result = "OK" /\ call.kind = "write" /\ ~lost => heard = Bytes(call)

(* A call fails only if the slave has refused something in this very call:  *)
(* an earlier failed call, which leaves the bus without a STOP, spoils      *)
(* nothing.                                                                 *)
ErrorHasCause == result \notin {"none", "OK"} /\ ~lost => refused # {}

(* After an OK the bus is free and no flag is left over for the next call.  *)
OkFreesBus ==
    result = "OK" /\ ~lost => usci.phase = "idle" /\ ~usci.stp /\ ~usci.rxifg

(* What the callers take an OK for.                                         *)
OkIsTrue == OkReadIsRight /\ OkWriteArrived /\ OkFreesBus

(* Every call returns, even if the slave holds the clock for ever.          *)
CallsReturn == pc # "idle" ~> pc = "idle"

=============================================================================
