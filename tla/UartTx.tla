------------------------------- MODULE UartTx -------------------------------
(***************************************************************************)
(* drivers/uart.c: interrupt-driven transmission of the trace output, and  *)
(* the polled transmission of the assert handler that replaces it.         *)
(*                                                                         *)
(* Three parties run here.  The main program calls _putchar, which is cut  *)
(* into the steps at which an interrupt can be taken.  isr_uart_tx is cut  *)
(* at every access to the peripheral, because the peripheral keeps running *)
(* while interrupts are masked; it is never preempted (interrupts do not   *)
(* nest) and the main program does not run until it returns.  The USCI     *)
(* moves a byte from UCA0TXBUF to its shift register and then to the wire. *)
(***************************************************************************)
EXTENDS RingBuffer, Sequences

CONSTANTS
    UART_BUFFER_SIZE,   \* slots of tx_buffer
    Char,               \* the characters the main program prints
    NL, CR,             \* '\n' and '\r'
    Free,               \* an empty hardware register
    AssertString,       \* the text uart_trace_assert is given
    MaxPuts             \* bound: number of calls of _putchar

Byte == Char \union {CR}

ASSUME SizeAssumption == UART_BUFFER_SIZE \in 2 .. UINT8 - 1
ASSUME CharAssumption == NL \in Char /\ CR # NL /\ Free \notin Byte
                         /\ MemoryByte \subseteq Byte
ASSUME TextAssumption ==
    /\ AssertString \in Seq(Byte) /\ Len(AssertString) > 0
    /\ \A i \in 1 .. Len(AssertString) :
          AssertString[i] = NL <=> i = Len(AssertString)
ASSUME BoundAssumption == MaxPuts \in Nat

VARIABLES
    tx_buffer,    \* the ring of bytes not yet handed over for good
    txie,         \* UCA0TXIE, the transmit interrupt enable bit
    txifg,        \* UCA0TXIFG, set when the USCI takes a byte out of UCA0TXBUF
    txbuf,        \* UCA0TXBUF
    shift,        \* the USCI's shift register
    pc,           \* the statement the main program is at
    c,            \* the argument of the running _putchar
    tx_ongoing,   \* its local of that name
    i,            \* the index of uart_trace_assert's loop
    isr,          \* the statement isr_uart_tx is at, "none" outside of it
    accepted,     \* history: every byte put in tx_buffer
    wire          \* history: every byte sent

mainVars == <<pc, c, tx_ongoing, i>>
usciVars == <<txie, txifg, txbuf, shift>>
histVars == <<accepted, wire>>
vars == <<tx_buffer, usciVars, mainVars, isr, histVars>>

Goto(from, to) == pc = from /\ pc' = to

(* The main program runs only while no interrupt handler does. *)
Main(from, to) == isr = "none" /\ Goto(from, to)

-----------------------------------------------------------------------------
(* The peripheral. *)

(* Writing UCA0TXBUF replaces what it holds and clears the flag. *)
WriteTxbuf(byte) == txbuf' = byte /\ txifg' = FALSE

(* The shift register is idle and takes the byte: UCA0TXBUF is free again. *)
UsciLoad ==
    /\ txbuf # Free /\ shift = Free
    /\ shift' = txbuf /\ txbuf' = Free /\ txifg' = TRUE
    /\ UNCHANGED <<tx_buffer, txie, mainVars, isr, histVars>>

UsciShiftOut ==
    /\ shift # Free
    /\ wire' = Append(wire, shift) /\ shift' = Free
    /\ UNCHANGED <<tx_buffer, txie, txifg, txbuf, mainVars, isr, accepted>>

(* uart_configure: UCSWRST drops what is being sent, clears the enable bit  *)
(* and sets the flag, since UCA0TXBUF is empty.                             *)
uart_configure == txie' = FALSE /\ txifg' = TRUE /\ txbuf' = Free /\ shift' = Free

-----------------------------------------------------------------------------
(* isr_uart_tx, taken when both bits are set.  ASSERT_INTERRUPT spins for   *)
(* ever, with interrupts off, when there is nothing in the ring.            *)
IsrEnter ==
    /\ isr = "none" /\ txie /\ txifg
    /\ IF ring_buffer_empty(tx_buffer)
       THEN isr' = "hung" /\ UNCHANGED tx_buffer
       ELSE isr' = "clear" /\ tx_buffer' = ring_buffer_get(tx_buffer)
    /\ UNCHANGED <<usciVars, mainVars, histVars>>

IsrClear ==
    /\ isr = "clear" /\ isr' = "refill"
    /\ txifg' = FALSE
    /\ UNCHANGED <<tx_buffer, txie, txbuf, shift, mainVars, histVars>>

(* uart_tx_start: the oldest byte is written, and stays in the ring. *)
uart_tx_start ==
    IF ring_buffer_empty(tx_buffer)
    THEN UNCHANGED <<txbuf, txifg>>
    ELSE \E byte \in ring_buffer_peek(tx_buffer) : WriteTxbuf(byte)

IsrRefill ==
    /\ isr = "refill" /\ isr' = "none"
    /\ uart_tx_start
    /\ UNCHANGED <<tx_buffer, txie, shift, mainVars, histVars>>

-----------------------------------------------------------------------------
(* uart_init. *)
InitConfigure ==
    /\ Main("configure", "clear_ifg")
    /\ uart_configure
    /\ UNCHANGED <<tx_buffer, c, tx_ongoing, i, isr, histVars>>

(* Mutant: the interrupt pending after reset is not cleared. *)
InitClear_forgotten ==
    Main("clear_ifg", "enable_ie")
    /\ UNCHANGED <<tx_buffer, usciVars, c, tx_ongoing, i, isr, histVars>>

InitClear ==
    /\ Main("clear_ifg", "enable_ie")
    /\ txifg' = FALSE
    /\ UNCHANGED <<tx_buffer, txie, txbuf, shift, c, tx_ongoing, i, isr, histVars>>

InitEnable ==
    /\ Main("enable_ie", "idle")
    /\ txie' = TRUE
    /\ UNCHANGED <<tx_buffer, txifg, txbuf, shift, c, tx_ongoing, i, isr, histVars>>

-----------------------------------------------------------------------------
(* _putchar(c), called with any character: TRACE prints what it likes. *)
Call(ch) ==
    /\ Len(accepted) < MaxPuts
    /\ Main("idle", "wait") /\ c' = ch
    /\ UNCHANGED <<tx_buffer, usciVars, tx_ongoing, i, isr, histVars>>

(* Spins with interrupts on until isr_uart_tx has made room. *)
WaitNotFull ==
    /\ Main("wait", "disable")
    /\ ~ring_buffer_full(tx_buffer)
    /\ UNCHANGED <<tx_buffer, usciVars, c, tx_ongoing, i, isr, histVars>>

(* Mutant: the critical section of _putchar does not mask the interrupt. *)
TxDisable_forgotten ==
    Main("disable", "ongoing")
    /\ UNCHANGED <<tx_buffer, usciVars, c, tx_ongoing, i, isr, histVars>>

TxDisable ==
    /\ Main("disable", "ongoing")
    /\ txie' = FALSE
    /\ UNCHANGED <<tx_buffer, txifg, txbuf, shift, c, tx_ongoing, i, isr, histVars>>

(* Mutant: the driver always takes the transmitter to be idle. *)
ReadOngoing_ignored ==
    /\ Main("ongoing", "put")
    /\ tx_ongoing' = FALSE
    /\ UNCHANGED <<tx_buffer, usciVars, c, i, isr, histVars>>

ReadOngoing ==
    /\ Main("ongoing", "put")
    /\ tx_ongoing' = ~ring_buffer_empty(tx_buffer)
    /\ UNCHANGED <<tx_buffer, usciVars, c, i, isr, histVars>>

Put ==
    /\ Main("put", IF tx_ongoing THEN "enable" ELSE "start")
    /\ tx_buffer' = ring_buffer_put(tx_buffer, c)
    /\ accepted' = Append(accepted, c)
    /\ UNCHANGED <<usciVars, c, tx_ongoing, i, isr, wire>>

(* Mutant: the transmitter is not started. *)
Start_forgotten ==
    Main("start", "enable")
    /\ UNCHANGED <<tx_buffer, usciVars, c, tx_ongoing, i, isr, histVars>>

Start ==
    /\ Main("start", "enable")
    /\ uart_tx_start
    /\ UNCHANGED <<tx_buffer, txie, shift, c, tx_ongoing, i, isr, histVars>>

(* Mutant: the interrupt stays masked. *)
TxEnable_forgotten ==
    Main("enable", IF c = NL THEN "wait" ELSE "idle")
    /\ c' = (IF c = NL THEN CR ELSE c)
    /\ UNCHANGED <<tx_buffer, usciVars, tx_ongoing, i, isr, histVars>>

(* A '\n' makes _putchar call itself with '\r' before it returns. *)
TxEnable ==
    /\ Main("enable", IF c = NL THEN "wait" ELSE "idle")
    /\ c' = (IF c = NL THEN CR ELSE c)
    /\ txie' = TRUE
    /\ UNCHANGED <<tx_buffer, txifg, txbuf, shift, tx_ongoing, i, isr, histVars>>

-----------------------------------------------------------------------------
(* assert_trace: an ASSERT fails before uart_init or between two calls of   *)
(* _putchar.  The ring is abandoned and the text goes out by polling,       *)
(* '\r' before '\n'.                                                        *)
AssertFails ==
    /\ isr = "none" /\ pc \in {"configure", "idle"} /\ pc' = "assert_configure"
    /\ txie' = FALSE
    /\ UNCHANGED <<tx_buffer, txifg, txbuf, shift, c, tx_ongoing, i, isr, histVars>>

AssertConfigure ==
    /\ Main("assert_configure", "poll")
    /\ uart_configure
    /\ UNCHANGED <<tx_buffer, c, tx_ongoing, i, isr, histVars>>

PollWrite ==
    /\ pc = "poll" /\ isr = "none"
    /\ IF AssertString[i] = NL
       THEN WriteTxbuf(CR) /\ pc' = "poll_wait_cr"
       ELSE WriteTxbuf(AssertString[i]) /\ pc' = "poll_wait"
    /\ UNCHANGED <<tx_buffer, txie, shift, c, tx_ongoing, i, isr, histVars>>

(* Mutant: the next byte is written without waiting for the flag. *)
PollWaitCr_skipped ==
    Main("poll_wait_cr", "poll_nl")
    /\ UNCHANGED <<tx_buffer, usciVars, c, tx_ongoing, i, isr, histVars>>

PollWaitCr ==
    /\ Main("poll_wait_cr", "poll_nl")
    /\ txifg
    /\ UNCHANGED <<tx_buffer, usciVars, c, tx_ongoing, i, isr, histVars>>

PollWriteNl ==
    /\ Main("poll_nl", "poll_wait")
    /\ WriteTxbuf(NL)
    /\ UNCHANGED <<tx_buffer, txie, shift, c, tx_ongoing, i, isr, histVars>>

PollWait ==
    /\ Main("poll_wait", IF i = Len(AssertString) THEN "blink" ELSE "poll")
    /\ txifg
    /\ i' = (IF i = Len(AssertString) THEN i ELSE i + 1)
    /\ UNCHANGED <<tx_buffer, usciVars, c, tx_ongoing, isr, histVars>>

(* assert_blink_led never returns. *)
Blink == pc = "blink" /\ UNCHANGED vars

-----------------------------------------------------------------------------
Init ==
    /\ tx_buffer = EmptyRing(UART_BUFFER_SIZE, NL)
    /\ txie = FALSE /\ txifg = TRUE /\ txbuf = Free /\ shift = Free
    /\ pc = "configure" /\ c = NL /\ tx_ongoing = FALSE /\ i = 1
    /\ isr = "none"
    /\ accepted = <<>> /\ wire = <<>>

UsciStep == UsciLoad \/ UsciShiftOut
IsrStep  == IsrEnter \/ IsrClear \/ IsrRefill
(* The statements of uart_init, _putchar and uart_trace_assert once begun. *)
InitStep == InitConfigure \/ InitClear \/ InitEnable
PutStep  == WaitNotFull \/ TxDisable \/ ReadOngoing \/ Put \/ Start \/ TxEnable
PollStep == AssertConfigure \/ PollWrite \/ PollWaitCr \/ PollWriteNl \/ PollWait
MainStep == InitStep \/ PutStep \/ PollStep

Next ==
    \/ UsciStep
    \/ IsrStep
    \/ MainStep
    \/ \E ch \in Char : Call(ch)
    \/ AssertFails
    \/ Blink

(* The baud clock runs, a pending interrupt is taken and its handler runs   *)
(* on, and so does the main program inside a call; that it calls _putchar   *)
(* again, or that an ASSERT fails, is never promised.                       *)
Fairness == WF_vars(UsciLoad) /\ WF_vars(UsciShiftOut) /\ WF_vars(IsrStep)
            /\ WF_vars(MainStep)

Spec == Init /\ [][Next]_vars
FairSpec == Spec /\ Fairness

-----------------------------------------------------------------------------
Asserting == pc \in {"assert_configure", "poll", "poll_wait", "poll_wait_cr",
                     "poll_nl", "blink"}
Polling   == Asserting /\ pc # "assert_configure"
Starting  == pc \in {"configure", "clear_ifg", "enable_ie"}

Slot == 0 .. UART_BUFFER_SIZE - 1
TxRing == [buffer : [Slot -> Byte], size : {UART_BUFFER_SIZE},
           head : Slot, tail : Slot]

TypeOK ==
    /\ tx_buffer \in TxRing
    /\ txie \in BOOLEAN /\ txifg \in BOOLEAN
    /\ txbuf \in Byte \union {Free} /\ shift \in Byte \union {Free}
    /\ \/ Starting \/ Asserting
       \/ pc \in {"idle", "wait", "disable", "ongoing", "put", "start", "enable"}
    /\ c \in Byte /\ tx_ongoing \in BOOLEAN
    /\ i \in 1 .. Len(AssertString)
    /\ isr \in {"none", "clear", "refill", "hung"}
    /\ accepted \in Seq(Byte) /\ wire \in Seq(Byte)

(* The ASSERT_INTERRUPT of isr_uart_tx never fails: whenever the interrupt  *)
(* is taken the ring still holds the byte it is for.  Were it to fail, the  *)
(* handler would spin with interrupts off and the whole robot would hang.   *)
IsrFindsByte == isr # "hung"

(* A ring with bytes in it has a transmission going: one of them is in      *)
(* UCA0TXBUF or its interrupt is pending.  Otherwise no interrupt would     *)
(* ever come again, and the next _putchar, finding the ring non-empty,      *)
(* would not restart the transmitter either.                                *)
TransmitterArmed ==
    ~ring_buffer_empty(tx_buffer) /\ isr = "none" /\ ~Polling
      /\ pc # "start"
        => txbuf # Free \/ txifg

(* The bytes on their way: in the shift register, then in the ring, whose   *)
(* oldest byte stays there until the interrupt that follows its departure.  *)
Sending == IF shift = Free THEN <<>> ELSE <<shift>>
Unsent ==
    IF Polling THEN IF txbuf = Free THEN <<>> ELSE <<txbuf>>
    ELSE IF txifg /\ isr = "none" /\ ~ring_buffer_empty(tx_buffer)
         THEN Tail(Stored(tx_buffer))
         ELSE Stored(tx_buffer)

(* No byte given to _putchar is lost, duplicated or overtaken, at whatever  *)
(* point of the driver, the handler and the peripheral one looks.           *)
NothingLost == ~Polling => accepted = wire \o Sending \o Unsent

(* A byte in UCA0TXBUF leaves it only for the shift register or a reset;    *)
(* no write of the driver ever replaces one that is still waiting.          *)
NoOverwrite == [][txbuf # Free /\ txbuf' # txbuf => txbuf' = Free]_vars

(* What the assert handler sends for AssertString: "...\r\n".              *)
AssertText ==
    SubSeq(AssertString, 1, Len(AssertString) - 1) \o <<CR, NL>>

(* The assert text is never torn: from the moment the handler polls, the    *)
(* line carries some of the trace and then the assert text from its start,  *)
(* whatever was in the ring or in the peripheral when the ASSERT failed;    *)
(* all of it has gone out once the handler blinks and the USCI is idle.     *)
AssertTextWhole ==
    Polling =>
        \E n \in 0 .. Len(accepted), m \in 0 .. Len(AssertText) :
            /\ wire \o Sending \o Unsent
                 = SubSeq(accepted, 1, n) \o SubSeq(AssertText, 1, m)
            /\ pc = "blink" => m = Len(AssertText)

(* _putchar returns: a full ring always drains.                             *)
PutReturns == pc = "wait" ~> pc = "idle"

(* An ASSERT that fails gets its text out and ends in the blinking loop.    *)
AssertShown == Asserting ~> pc = "blink" /\ txbuf = Free /\ shift = Free

(* Neither kind of output waits for ever.                                   *)
OutputEnds == PutReturns /\ AssertShown

(* The driver is a FIFO of UART_BUFFER_SIZE bytes (the ring keeps one slot  *)
(* free, the shift register holds one byte) that drains by itself.          *)
Stream == INSTANCE ByteStream WITH
              Capacity <- UART_BUFFER_SIZE,
              queue <- Sending \o Unsent, wire <- wire, abandoned <- Polling
StreamSpec == Stream!FairSpec

=============================================================================
