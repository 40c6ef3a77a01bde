---------------------------- MODULE UartTxProofs ----------------------------
(***************************************************************************)
(* The safety of drivers/uart.c for every buffer size, character set and   *)
(* assert text.  The argument is a hand-over: while the driver runs and no *)
(* handler is in the middle, a non-empty ring has exactly one token in the *)
(* peripheral (a byte in UCA0TXBUF, or the interrupt that its departure    *)
(* raised) and an empty ring has none.  The token is what lets isr_uart_tx *)
(* rely on finding a byte, and _putchar on not starting a busy USCI.       *)
(*                                                                         *)
(* The second half is the order of the bytes: the ring's functions append  *)
(* to and take from the sequence it stores; every step of the driver, the  *)
(* handler and the peripheral is then one of five moves of the bytes on    *)
(* their way, and that is what the order and the refinement of ByteStream  *)
(* rest on.                                                                *)
(***************************************************************************)
EXTENDS UartTx, SequenceTheorems, TLAPS

Before   == pc \in {"idle", "wait", "disable"}
Critical == pc \in {"ongoing", "put", "start", "enable"}
Empty == ring_buffer_empty(tx_buffer)
Full  == ring_buffer_full(tx_buffer)

(* One token in the peripheral for a non-empty ring, none for an empty one. *)
Token ==
    IF Empty THEN txbuf = Free /\ ~txifg
             ELSE txbuf = Free <=> txifg

(* Where the interrupt is masked, and where its handler can be active.      *)
MaskInv ==
    /\ Before => txie
    /\ Starting \/ Critical \/ Asserting => ~txie
    /\ isr # "none" => Before

HandlerInv ==
    /\ isr = "none" /\ (Before \/ pc \in {"ongoing", "put", "enable"}) => Token
    /\ isr = "clear" => txbuf = Free /\ txifg
    /\ isr = "refill" => txbuf = Free /\ ~txifg
    /\ isr # "hung"

PutInv ==
    /\ pc \in {"disable", "ongoing", "put"} => ~Full
    /\ pc = "put" => (tx_ongoing <=> ~Empty)
    /\ pc = "start" => ~Empty /\ txbuf = Free /\ ~txifg

StartInv ==
    /\ Starting => Empty /\ txbuf = Free
    /\ pc = "enable_ie" => ~txifg

AssertInv ==
    /\ pc = "assert_configure" => Empty \/ txbuf # Free \/ txifg
    /\ Polling => (txifg => txbuf = Free)
    /\ pc \in {"poll", "poll_nl"} => txifg

IInv == TypeOK /\ MaskInv /\ HandlerInv /\ PutInv /\ StartInv /\ AssertInv

-----------------------------------------------------------------------------
(* The ring's operations, for a ring whose indices are inside the array.    *)

(* No index reaches the width of a uint8_t, so `% UINT8` never matters.     *)
LEMMA IndexFits ==
    ASSUME NEW k \in Slot
    PROVE  /\ (k + 1) % UINT8 = k + 1
           /\ Wrap(k + 1, UART_BUFFER_SIZE) \in Slot
  BY SizeAssumption DEF Slot, UINT8, Wrap

LEMMA EmptyRingType == EmptyRing(UART_BUFFER_SIZE, NL) \in TxRing
  BY SizeAssumption, CharAssumption DEF EmptyRing, TxRing, Slot, Byte

(* A put into a ring that is not full moves the head only.                  *)
LEMMA PutIs ==
    ASSUME NEW rb \in TxRing, ~ring_buffer_full(rb), NEW b
    PROVE  ring_buffer_put(rb, b)
             = [buffer |-> [rb.buffer EXCEPT ![rb.head] = b],
                size |-> UART_BUFFER_SIZE,
                head |-> Wrap(rb.head + 1, UART_BUFFER_SIZE), tail |-> rb.tail]
  <1> DEFINE h == Wrap((rb.head + 1) % UINT8, rb.size)
  <1>1. rb.head \in Slot /\ rb.size = UART_BUFFER_SIZE
    BY DEF TxRing
  <1>2. h # rb.tail /\ h = Wrap(rb.head + 1, UART_BUFFER_SIZE)
    BY <1>1, IndexFits DEF ring_buffer_full
  <1> HIDE DEF h
  <1>3. ring_buffer_put(rb, b)
          = [rb EXCEPT !.buffer = [@ EXCEPT ![rb.head] = b], !.head = h,
                       !.tail = IF h = rb.tail THEN (rb.tail + 1) % UINT8
                                               ELSE rb.tail]
    BY DEF ring_buffer_put, h
  <1>4. rb = [buffer |-> rb.buffer, size |-> rb.size,
              head |-> rb.head, tail |-> rb.tail]
    BY DEF TxRing
  <1> QED BY <1>1, <1>2, <1>3, <1>4

(* It stays in the array and the ring is non-empty.                         *)
LEMMA PutRing ==
    ASSUME NEW rb \in TxRing, ~ring_buffer_full(rb), NEW b \in Byte
    PROVE  /\ ring_buffer_put(rb, b) \in TxRing
           /\ ~ring_buffer_empty(ring_buffer_put(rb, b))
  <1>1. rb.head \in Slot /\ rb.tail \in Slot /\ rb.size = UART_BUFFER_SIZE
        /\ rb.buffer \in [Slot -> Byte]
    BY DEF TxRing
  <1>2. Wrap(rb.head + 1, UART_BUFFER_SIZE) \in Slot
        /\ Wrap(rb.head + 1, UART_BUFFER_SIZE) # rb.tail
    BY <1>1, IndexFits DEF ring_buffer_full
  <1> QED BY <1>1, <1>2, PutIs DEF TxRing, ring_buffer_empty

(* A get stays in the array and leaves room in the ring.                    *)
LEMMA GetRing ==
    ASSUME NEW rb \in TxRing, ~ring_buffer_empty(rb)
    PROVE  /\ ring_buffer_get(rb) \in TxRing
           /\ ~ring_buffer_full(ring_buffer_get(rb))
  <1>1. rb.head \in Slot /\ rb.tail \in Slot /\ rb.size = UART_BUFFER_SIZE
        /\ rb.head # rb.tail
    BY DEF TxRing, ring_buffer_empty
  <1>2. ring_buffer_get(rb) \in TxRing
    BY <1>1, IndexFits DEF ring_buffer_get, TxRing
  <1>3. Wrap(rb.head + 1, UART_BUFFER_SIZE) # Wrap(rb.tail + 1, UART_BUFFER_SIZE)
    BY <1>1, SizeAssumption DEF Wrap, Slot
  <1>4. /\ ring_buffer_get(rb).head = rb.head
        /\ ring_buffer_get(rb).size = UART_BUFFER_SIZE
        /\ ring_buffer_get(rb).tail = Wrap(rb.tail + 1, UART_BUFFER_SIZE)
    BY <1>1, IndexFits DEF ring_buffer_get, TxRing
  <1> QED BY <1>1, <1>2, <1>3, <1>4, IndexFits DEF ring_buffer_full

(* What the driver peeks is a byte of the ring.                             *)
LEMMA PeekRing ==
    ASSUME NEW rb \in TxRing
    PROVE  \A b \in ring_buffer_peek(rb) : b \in Byte /\ b # Free
  BY CharAssumption DEF TxRing, ring_buffer_peek, Byte

-----------------------------------------------------------------------------
(* The invariant is inductive: the initial state, then one lemma per party. *)

LEMMA InitInv == Init => IInv
  <1> SUFFICES ASSUME Init PROVE IInv
    OBVIOUS
  <1>1. TypeOK
    <2>1. 1 \in 1 .. Len(AssertString)
      BY TextAssumption
    <2>2. NL \in Byte
      BY CharAssumption DEF Byte
    <2>3. <<>> \in Seq(Byte)
      OBVIOUS
    <2> QED BY <2>1, <2>2, <2>3, EmptyRingType DEF Init, TypeOK, Starting
  <1>2. Empty /\ txbuf = Free
    BY DEF Init, Empty, ring_buffer_empty, EmptyRing
  <1> QED
    BY <1>1, <1>2 DEF Init, IInv, MaskInv, HandlerInv, PutInv, StartInv,
       AssertInv, Starting, Before, Critical, Asserting, Polling

(* The peripheral moves the token from UCA0TXBUF to the interrupt flag.     *)
LEMMA UsciInv == IInv /\ UsciStep => IInv'
  <1> SUFFICES ASSUME IInv, UsciStep PROVE IInv'
    OBVIOUS
  <1> USE DEF IInv, Starting, Before, Critical, Asserting, Polling,
              mainVars, histVars, usciVars
  <1>1. CASE UsciLoad
    <2>1. TypeOK'
      BY <1>1 DEF UsciLoad, TypeOK
    <2>2. (Empty <=> Empty') /\ (Full <=> Full')
      BY <1>1 DEF UsciLoad, Empty, Full
    <2>3. MaskInv' /\ HandlerInv' /\ PutInv'
      BY <1>1, <2>2 DEF UsciLoad, MaskInv, HandlerInv, PutInv, Token, TypeOK
    <2>4. StartInv' /\ AssertInv'
      BY <1>1, <2>2 DEF UsciLoad, StartInv, AssertInv, TypeOK
    <2> QED BY <2>1, <2>3, <2>4
  <1>2. CASE UsciShiftOut
    <2>1. TypeOK'
      <3>1. wire' \in Seq(Byte)
        BY <1>2 DEF UsciShiftOut, TypeOK
      <3> QED BY <1>2, <3>1 DEF UsciShiftOut, TypeOK
    <2>2. (Empty <=> Empty') /\ (Full <=> Full')
      BY <1>2 DEF UsciShiftOut, Empty, Full
    <2> QED
      BY <1>2, <2>1, <2>2 DEF UsciShiftOut, MaskInv, HandlerInv, PutInv, Token,
         StartInv, AssertInv
  <1> QED BY <1>1, <1>2 DEF UsciStep

(* The handler takes the byte the token stands for and passes the token on. *)
LEMMA IsrInv == IInv /\ IsrStep => IInv'
  <1> SUFFICES ASSUME IInv, IsrStep PROVE IInv'
    OBVIOUS
  <1> USE DEF IInv, Starting, Before, Critical, Asserting, Polling,
              mainVars, histVars, usciVars
  <1>1. CASE IsrEnter
    <2>1. Before /\ ~Empty /\ txbuf = Free
      BY <1>1 DEF IsrEnter, MaskInv, HandlerInv, Token, TypeOK
    <2>2. /\ isr' = "clear"
          /\ tx_buffer' = ring_buffer_get(tx_buffer)
          /\ tx_buffer' \in TxRing
          /\ ~Full'
      BY <1>1, <2>1, GetRing DEF IsrEnter, Empty, Full, TypeOK
    <2>3. TypeOK'
      BY <1>1, <2>2 DEF IsrEnter, TypeOK
    <2> QED
      BY <1>1, <2>1, <2>2, <2>3 DEF IsrEnter, MaskInv, HandlerInv, PutInv,
         StartInv, AssertInv, Token
  <1>2. CASE IsrClear
    <2>1. (Empty <=> Empty') /\ (Full <=> Full')
      BY <1>2 DEF IsrClear, Empty, Full
    <2>2. TypeOK'
      BY <1>2 DEF IsrClear, TypeOK
    <2> QED
      BY <1>2, <2>1, <2>2 DEF IsrClear, MaskInv, HandlerInv, PutInv, Token,
         StartInv, AssertInv
  <1>3. CASE IsrRefill
    <2>1. (Empty <=> Empty') /\ (Full <=> Full')
      BY <1>3 DEF IsrRefill, Empty, Full
    <2>2. /\ IF Empty THEN txbuf' = Free ELSE txbuf' \in Byte /\ txbuf' # Free
          /\ txifg' = FALSE
      BY <1>3, PeekRing DEF IsrRefill, uart_tx_start, WriteTxbuf, Empty,
         TypeOK, HandlerInv
    <2>3. TypeOK'
      BY <1>3, <2>2 DEF IsrRefill, TypeOK
    <2>4. HandlerInv'
      BY <1>3, <2>1, <2>2 DEF IsrRefill, HandlerInv, Token
    <2> QED
      BY <1>3, <2>1, <2>2, <2>3, <2>4 DEF IsrRefill, MaskInv, PutInv,
         StartInv, AssertInv, HandlerInv
  <1> QED BY <1>1, <1>2, <1>3 DEF IsrStep

(* The main program: start-up, a call of _putchar, the assert handler.      *)
LEMMA MainInv == IInv /\ (MainStep \/ (\E ch \in Char : Call(ch)) \/ AssertFails) => IInv'
  <1> SUFFICES ASSUME IInv,
                      MainStep \/ (\E ch \in Char : Call(ch)) \/ AssertFails
               PROVE  IInv'
    OBVIOUS
  <1> USE DEF Main, Goto, mainVars, histVars, usciVars
  <1>same. ASSUME UNCHANGED tx_buffer PROVE (Empty <=> Empty') /\ (Full <=> Full')
    BY <1>same DEF Empty, Full
  <1>1. CASE InitStep
    <2>2. TypeOK'
      BY <1>1 DEF InitStep, InitConfigure, InitClear, InitEnable, uart_configure,
         IInv, TypeOK, Starting
    <2>3. UNCHANGED tx_buffer
      BY <1>1 DEF InitStep, InitConfigure, InitClear, InitEnable
    <2> QED
      BY <1>1, <1>same, <2>2, <2>3
      DEF InitStep, InitConfigure, InitClear, InitEnable, uart_configure,
          IInv, MaskInv, HandlerInv, PutInv, StartInv, AssertInv, Token,
          Starting, Before, Critical, Asserting, Polling
  <1>2. CASE PutStep
    <2> USE DEF Starting, Before, Critical, Asserting, Polling
    <2>1. CASE WaitNotFull
      <3>1. TypeOK' BY <2>1 DEF WaitNotFull, IInv, TypeOK
      <3> QED
        BY <2>1, <3>1, <1>same DEF WaitNotFull, Full, IInv, MaskInv, HandlerInv,
           PutInv, StartInv, AssertInv, Token
    <2>2. CASE TxDisable
      <3>1. TypeOK' BY <2>2 DEF TxDisable, IInv, TypeOK
      <3> QED
        BY <2>2, <3>1, <1>same DEF TxDisable, IInv, MaskInv, HandlerInv,
           PutInv, StartInv, AssertInv, Token
    <2>3. CASE ReadOngoing
      <3>1. TypeOK' BY <2>3 DEF ReadOngoing, IInv, TypeOK
      <3>2. tx_ongoing' <=> ~Empty BY <2>3 DEF ReadOngoing, Empty
      <3> QED
        BY <2>3, <3>1, <3>2, <1>same DEF ReadOngoing, IInv, MaskInv, HandlerInv,
           PutInv, StartInv, AssertInv, Token
    <2>4. CASE Put
      <3>1. tx_buffer' \in TxRing /\ ~Empty'
        BY <2>4, PutRing DEF Put, Empty, Full, IInv, TypeOK, PutInv
      <3>2. accepted' \in Seq(Byte)
        BY <2>4 DEF Put, IInv, TypeOK
      <3>3. TypeOK'
        BY <2>4, <3>1, <3>2 DEF Put, IInv, TypeOK
      <3> QED
        BY <2>4, <3>1, <3>3 DEF Put, IInv, MaskInv, HandlerInv,
           PutInv, StartInv, AssertInv, Token
    <2>5. CASE Start
      <3>1. txbuf' \in Byte /\ txbuf' # Free /\ txifg' = FALSE
        BY <2>5, PeekRing DEF Start, uart_tx_start, WriteTxbuf, IInv, TypeOK,
           PutInv, Empty
      <3>2. TypeOK' BY <2>5, <3>1 DEF Start, IInv, TypeOK
      <3> QED
        BY <2>5, <3>1, <3>2, <1>same DEF Start, IInv, MaskInv, HandlerInv,
           PutInv, StartInv, AssertInv, Token
    <2>6. CASE TxEnable
      <3>1. TypeOK' BY <2>6 DEF TxEnable, IInv, TypeOK, Byte
      <3> QED
        BY <2>6, <3>1, <1>same DEF TxEnable, IInv, MaskInv, HandlerInv,
           PutInv, StartInv, AssertInv, Token
    <2> QED BY <1>2, <2>1, <2>2, <2>3, <2>4, <2>5, <2>6 DEF PutStep
  <1>3. CASE PollStep
    <2> USE DEF Starting, Before, Critical, Asserting, Polling
    <2>1. CASE AssertConfigure
      <3>1. TypeOK' BY <2>1 DEF AssertConfigure, uart_configure, IInv, TypeOK
      <3> QED
        BY <2>1, <3>1 DEF AssertConfigure, uart_configure, IInv, MaskInv,
           HandlerInv, PutInv, StartInv, AssertInv
    <2>2. CASE PollWrite
      <3>1. AssertString[i] \in Byte
        BY TextAssumption DEF IInv, TypeOK
      <3>2. txbuf' \in Byte /\ txbuf' # Free /\ txifg' = FALSE
        BY <2>2, <3>1, CharAssumption DEF PollWrite, WriteTxbuf, Byte
      <3>3. TypeOK' BY <2>2, <3>2 DEF PollWrite, IInv, TypeOK
      <3> QED
        BY <2>2, <3>2, <3>3 DEF PollWrite, IInv, MaskInv, HandlerInv, PutInv,
           StartInv, AssertInv
    <2>3. CASE PollWaitCr
      <3>1. TypeOK' BY <2>3 DEF PollWaitCr, IInv, TypeOK
      <3> QED
        BY <2>3, <3>1 DEF PollWaitCr, IInv, MaskInv, HandlerInv, PutInv,
           StartInv, AssertInv
    <2>4. CASE PollWriteNl
      <3>1. txbuf' \in Byte /\ txbuf' # Free /\ txifg' = FALSE
        BY <2>4, CharAssumption DEF PollWriteNl, WriteTxbuf, Byte
      <3>2. TypeOK' BY <2>4, <3>1 DEF PollWriteNl, IInv, TypeOK
      <3> QED
        BY <2>4, <3>1, <3>2 DEF PollWriteNl, IInv, MaskInv, HandlerInv, PutInv,
           StartInv, AssertInv
    <2>5. CASE PollWait
      <3>1. i' \in 1 .. Len(AssertString)
        BY <2>5, TextAssumption DEF PollWait, IInv, TypeOK
      <3>2. TypeOK' BY <2>5, <3>1 DEF PollWait, IInv, TypeOK
      <3> QED
        BY <2>5, <3>2 DEF PollWait, IInv, MaskInv, HandlerInv, PutInv,
           StartInv, AssertInv
    <2> QED BY <1>3, <2>1, <2>2, <2>3, <2>4, <2>5 DEF PollStep
  <1>4. ASSUME NEW ch \in Char, Call(ch) PROVE IInv'
    <2> USE DEF Starting, Before, Critical, Asserting, Polling
    <2>1. TypeOK' BY <1>4 DEF Call, IInv, TypeOK, Byte
    <2> QED
      BY <1>4, <2>1, <1>same DEF Call, IInv, MaskInv, HandlerInv, PutInv,
         StartInv, AssertInv, Token
  <1>5. CASE AssertFails
    <2> USE DEF Starting, Before, Critical, Asserting, Polling
    <2>1. TypeOK' BY <1>5 DEF AssertFails, IInv, TypeOK
    <2> QED
      BY <1>5, <2>1, <1>same DEF AssertFails, IInv, MaskInv, HandlerInv, PutInv,
         StartInv, AssertInv, Token
  <1> QED BY <1>1, <1>2, <1>3, <1>4, <1>5 DEF MainStep

LEMMA StepInv == IInv /\ [Next]_vars => IInv'
  <1>1. IInv /\ UNCHANGED vars => IInv'
    BY DEF vars, usciVars, mainVars, histVars, IInv, TypeOK, MaskInv, HandlerInv,
       PutInv, StartInv, AssertInv, Token, Empty, Full, Starting, Before,
       Critical, Asserting, Polling
  <1> QED BY <1>1, UsciInv, IsrInv, MainInv DEF Next, Blink

(* Every step of the driver, the handler and the USCI keeps the invariant.  *)
THEOREM Invariant == Spec => []IInv
  BY InitInv, StepInv, PTL DEF Spec

-----------------------------------------------------------------------------
(* Every variable keeps its type: the indices of the ring never leave the   *)
(* array, although ring_buffer_put does not wrap the tail it pushes.        *)
THEOREM TypeSafety == Spec => []TypeOK
  <1>1. IInv => TypeOK
    BY DEF IInv
  <1> QED BY <1>1, Invariant, PTL

(* isr_uart_tx never fails its ASSERT_INTERRUPT.                            *)
THEOREM HandlerNeverHangs == Spec => []IsrFindsByte
  <1>1. IInv => IsrFindsByte
    BY DEF IInv, HandlerInv, IsrFindsByte
  <1> QED BY <1>1, Invariant, PTL

(* A non-empty ring always has a transmission under way.                    *)
THEOREM AlwaysArmed == Spec => []TransmitterArmed
  <1>1. IInv => TransmitterArmed
    BY DEF IInv, TypeOK, HandlerInv, StartInv, AssertInv, Token, Empty,
       TransmitterArmed, Starting, Before, Asserting, Polling
  <1> QED BY <1>1, Invariant, PTL

(* The driver never writes over a byte that is waiting in UCA0TXBUF.        *)
THEOREM NeverOverwrites == Spec => NoOverwrite
  <1> DEFINE Keeps == txbuf # Free /\ txbuf' # txbuf => txbuf' = Free
  <1>1. ASSUME IInv, [Next]_vars PROVE Keeps
    <2> USE DEF usciVars, mainVars, histVars, Main, Goto
    <2>1. CASE UNCHANGED vars
      BY <2>1 DEF vars
    <2>2. CASE UsciStep
      BY <2>2 DEF UsciStep, UsciLoad, UsciShiftOut
    <2>3. CASE IsrStep
      BY <2>3, <1>1 DEF IsrStep, IsrEnter, IsrClear, IsrRefill, IInv, HandlerInv
    <2>4. CASE InitStep
      BY <2>4 DEF InitStep, InitConfigure, InitClear, InitEnable, uart_configure
    <2>5. CASE PutStep
      BY <2>5, <1>1 DEF PutStep, WaitNotFull, TxDisable, ReadOngoing, Put, Start,
         TxEnable, IInv, PutInv
    <2>6. CASE PollStep
      BY <2>6, <1>1 DEF PollStep, AssertConfigure, uart_configure, PollWrite,
         PollWaitCr, PollWriteNl, PollWait, IInv, AssertInv, Asserting, Polling
    <2>7. CASE AssertFails \/ \E ch \in Char : Call(ch)
      BY <2>7 DEF AssertFails, Call
    <2>8. CASE Blink
      BY <2>8 DEF Blink, vars
    <2> QED
      BY <1>1, <2>1, <2>2, <2>3, <2>4, <2>5, <2>6, <2>7, <2>8
      DEF Next, MainStep
  <1> QED BY <1>1, Invariant, PTL DEF Spec, NoOverwrite

-----------------------------------------------------------------------------
(* The bytes from tail to head, counted round the end of the array.         *)
Count(rb) == IF rb.head >= rb.tail THEN rb.head - rb.tail
                                   ELSE rb.head + UART_BUFFER_SIZE - rb.tail
At(rb, k) == IF rb.tail + k - 1 < UART_BUFFER_SIZE
             THEN rb.tail + k - 1 ELSE rb.tail + k - 1 - UART_BUFFER_SIZE

(* Two indices of the array add up to less than two turns.                  *)
LEMMA ModOnce ==
    ASSUME NEW a \in 0 .. 2 * UART_BUFFER_SIZE - 1
    PROVE  a % UART_BUFFER_SIZE = IF a < UART_BUFFER_SIZE
                                  THEN a ELSE a - UART_BUFFER_SIZE
  BY SizeAssumption DEF UINT8

LEMMA StoredIs ==
    ASSUME NEW rb \in TxRing
    PROVE  /\ Count(rb) \in 0 .. UART_BUFFER_SIZE - 1
           /\ Stored(rb) = [k \in 1 .. Count(rb) |-> rb.buffer[At(rb, k)]]
           /\ \A k \in 1 .. UART_BUFFER_SIZE : At(rb, k) \in Slot
           /\ Stored(rb) \in Seq(Byte)
           /\ Len(Stored(rb)) = Count(rb)
           /\ \A k \in 1 .. Count(rb) : Stored(rb)[k] = rb.buffer[At(rb, k)]
  <1>1. /\ rb.head \in Slot /\ rb.tail \in Slot /\ rb.size = UART_BUFFER_SIZE
        /\ rb.buffer \in [Slot -> Byte]
        /\ UART_BUFFER_SIZE \in Nat \ {0}
    BY SizeAssumption DEF TxRing, UINT8
  <1>2. Count(rb) \in 0 .. UART_BUFFER_SIZE - 1
    BY <1>1 DEF Count, Slot
  <1>3. (rb.head + rb.size - rb.tail) % rb.size = Count(rb)
    <2> DEFINE m == rb.head + UART_BUFFER_SIZE - rb.tail
    <2>1. m \in 0 .. 2 * UART_BUFFER_SIZE - 1
      BY <1>1 DEF Slot
    <2>2. Count(rb) = IF m < UART_BUFFER_SIZE THEN m ELSE m - UART_BUFFER_SIZE
      BY <1>1 DEF Count, Slot
    <2> HIDE DEF m
    <2>3. m % UART_BUFFER_SIZE = Count(rb)
      BY <2>1, <2>2, ModOnce
    <2> QED BY <1>1, <2>3 DEF m
  <1>4. ASSUME NEW k \in 1 .. UART_BUFFER_SIZE
        PROVE  /\ (rb.tail + k - 1) % rb.size = At(rb, k)
               /\ At(rb, k) \in Slot
    <2> DEFINE m == rb.tail + k - 1
    <2>1. m \in 0 .. 2 * UART_BUFFER_SIZE - 1
      BY <1>1 DEF Slot
    <2>2. At(rb, k) = IF m < UART_BUFFER_SIZE THEN m ELSE m - UART_BUFFER_SIZE
      BY <1>1 DEF At, Slot
    <2> HIDE DEF m
    <2>3. m % UART_BUFFER_SIZE = At(rb, k)
      BY <2>1, <2>2, ModOnce
    <2>4. At(rb, k) \in Slot
      BY <1>1, <2>1, <2>2 DEF Slot
    <2> QED BY <1>1, <2>3, <2>4 DEF m
  <1>5. Stored(rb) = [k \in 1 .. Count(rb) |-> rb.buffer[At(rb, k)]]
    BY <1>1, <1>2, <1>3, <1>4 DEF Stored
  <1>6. ASSUME NEW k \in 1 .. Count(rb) PROVE rb.buffer[At(rb, k)] \in Byte
    BY <1>1, <1>2, <1>4
  <1>7. Stored(rb) \in Seq(Byte) /\ Len(Stored(rb)) = Count(rb)
    BY <1>2, <1>5, <1>6
  <1> QED BY <1>2, <1>4, <1>5, <1>7

(* Empty and full, as sizes of what is stored.                              *)
LEMMA StoredLen ==
    ASSUME NEW rb \in TxRing
    PROVE  /\ ring_buffer_empty(rb) <=> Stored(rb) = <<>>
           /\ ~ring_buffer_full(rb) => Len(Stored(rb)) + 2 <= UART_BUFFER_SIZE
  <1>1. rb.head \in Slot /\ rb.tail \in Slot /\ rb.size = UART_BUFFER_SIZE
    BY DEF TxRing
  <1>2. ring_buffer_empty(rb) <=> Count(rb) = 0
    BY <1>1, SizeAssumption DEF ring_buffer_empty, Count, Slot, UINT8
  <1>3. ~ring_buffer_full(rb) => Count(rb) + 2 <= UART_BUFFER_SIZE
    BY <1>1, IndexFits, SizeAssumption DEF ring_buffer_full, Count, Slot, UINT8, Wrap
  <1>4. Stored(rb) = <<>> <=> Len(Stored(rb)) = 0
    BY StoredIs, EmptySeq
  <1> QED BY <1>2, <1>3, <1>4, StoredIs

(* What is peeked is the oldest byte stored.                                *)
LEMMA StoredPeek ==
    ASSUME NEW rb \in TxRing, ~ring_buffer_empty(rb)
    PROVE  ring_buffer_peek(rb) = {Head(Stored(rb))}
  <1>1. rb.tail \in Slot /\ rb.buffer \in [Slot -> Byte]
    BY DEF TxRing
  <1>2. Stored(rb) # <<>> /\ Stored(rb) \in Seq(Byte)
    BY StoredLen, StoredIs
  <1>3. 1 \in 1 .. Count(rb)
    BY <1>2, StoredIs, EmptySeq
  <1>4. Head(Stored(rb)) = rb.buffer[At(rb, 1)]
    BY <1>2, <1>3, StoredIs
  <1>5. At(rb, 1) = rb.tail
    BY <1>1, SizeAssumption DEF At, Slot, UINT8
  <1> QED BY <1>1, <1>4, <1>5 DEF ring_buffer_peek

(* A get takes the oldest byte away.                                        *)
LEMMA StoredGet ==
    ASSUME NEW rb \in TxRing, ~ring_buffer_empty(rb)
    PROVE  Stored(ring_buffer_get(rb)) = Tail(Stored(rb))
  <1> DEFINE got == ring_buffer_get(rb)
  <1>1. /\ rb.head \in Slot /\ rb.tail \in Slot /\ rb.head # rb.tail
        /\ UART_BUFFER_SIZE \in Nat \ {0}
    BY SizeAssumption DEF TxRing, ring_buffer_empty, UINT8
  <1>2. got \in TxRing
    BY GetRing
  <1>3. /\ got.head = rb.head /\ got.buffer = rb.buffer
        /\ got.tail = Wrap(rb.tail + 1, UART_BUFFER_SIZE)
    BY <1>1, IndexFits DEF ring_buffer_get, TxRing
  <1> HIDE DEF got
  <1>4. Count(got) = Count(rb) - 1
    BY <1>1, <1>3 DEF Count, Slot, Wrap
  <1>5. ASSUME NEW k \in 1 .. Count(got) PROVE At(got, k) = At(rb, k + 1)
    BY <1>1, <1>3, <1>4, StoredIs DEF At, Slot, Wrap
  <1>6. Stored(rb) # <<>>
    BY StoredLen
  <1>7. /\ Tail(Stored(rb)) \in Seq(Byte) /\ Len(Tail(Stored(rb))) = Count(rb) - 1
        /\ \A k \in 1 .. Len(Tail(Stored(rb))) : Tail(Stored(rb))[k] = Stored(rb)[k + 1]
    BY <1>6, StoredIs, HeadTailProperties
  <1>8. /\ Stored(got) \in Seq(Byte) /\ Len(Stored(got)) = Count(rb) - 1
        /\ \A k \in 1 .. Count(rb) - 1 : Stored(got)[k] = rb.buffer[At(rb, k + 1)]
    BY <1>2, <1>3, <1>4, <1>5, StoredIs
  <1>9. \A k \in 1 .. Count(rb) - 1 : Stored(rb)[k + 1] = rb.buffer[At(rb, k + 1)]
    BY StoredIs
  <1>10. Stored(got) = Tail(Stored(rb))
    BY <1>7, <1>8, <1>9, SeqEqual
  <1> QED BY <1>10 DEF got

(* A put into a ring that is not full adds a newest byte.                   *)
LEMMA StoredPut ==
    ASSUME NEW rb \in TxRing, ~ring_buffer_full(rb), NEW b \in Byte
    PROVE  Stored(ring_buffer_put(rb, b)) = Append(Stored(rb), b)
  <1> DEFINE put == ring_buffer_put(rb, b)
  <1>1. /\ rb.head \in Slot /\ rb.tail \in Slot /\ rb.size = UART_BUFFER_SIZE
        /\ rb.buffer \in [Slot -> Byte]
        /\ UART_BUFFER_SIZE \in Nat \ {0}
    BY SizeAssumption DEF TxRing, UINT8
  <1>2. put \in TxRing
    BY PutRing
  <1>3. Wrap(rb.head + 1, UART_BUFFER_SIZE) # rb.tail
    BY <1>1, IndexFits DEF ring_buffer_full
  <1>4. /\ put.head = Wrap(rb.head + 1, UART_BUFFER_SIZE) /\ put.tail = rb.tail
        /\ put.buffer = [rb.buffer EXCEPT ![rb.head] = b]
    BY PutIs
  <1> HIDE DEF put
  <1>5. Count(put) = Count(rb) + 1
    <2>1. CASE rb.head + 1 = UART_BUFFER_SIZE
      <3>1. put.head = 0 /\ rb.tail # 0
        BY <2>1, <1>3, <1>4 DEF Wrap
      <3> QED BY <3>1, <2>1, <1>1, <1>4 DEF Count, Slot
    <2>2. CASE rb.head + 1 # UART_BUFFER_SIZE
      <3>1. put.head = rb.head + 1 /\ rb.tail # rb.head + 1
        BY <2>2, <1>3, <1>4 DEF Wrap
      <3> QED BY <3>1, <1>1, <1>4 DEF Count, Slot
    <2> QED BY <2>1, <2>2
  <1>6. ASSUME NEW k \in 1 .. Count(put) PROVE At(put, k) = At(rb, k)
    BY <1>4 DEF At
  <1>7. At(rb, Count(rb) + 1) = rb.head
    BY <1>1 DEF At, Count, Slot
  <1>8. ASSUME NEW k \in 1 .. Count(rb) PROVE At(rb, k) # rb.head
    BY <1>1, <1>8 DEF At, Count, Slot
  <1>9. /\ Append(Stored(rb), b) \in Seq(Byte)
        /\ Len(Append(Stored(rb), b)) = Count(rb) + 1
        /\ \A k \in 1 .. Count(rb) : Append(Stored(rb), b)[k] = rb.buffer[At(rb, k)]
        /\ Append(Stored(rb), b)[Count(rb) + 1] = b
    BY StoredIs, AppendProperties
  <1>10. /\ Stored(put) \in Seq(Byte) /\ Len(Stored(put)) = Count(rb) + 1
         /\ \A k \in 1 .. Count(rb) + 1 :
               Stored(put)[k] = [rb.buffer EXCEPT ![rb.head] = b][At(rb, k)]
    BY <1>2, <1>4, <1>5, <1>6, StoredIs
  <1>11. ASSUME NEW k \in 1 .. Count(rb) + 1
         PROVE  Stored(put)[k] = Append(Stored(rb), b)[k]
    <2>1. CASE k = Count(rb) + 1
      BY <2>1, <1>1, <1>7, <1>9, <1>10
    <2>2. CASE k \in 1 .. Count(rb)
      <3>1. k \in 1 .. UART_BUFFER_SIZE
        BY <2>2, <1>1, StoredIs
      <3>2. At(rb, k) # rb.head /\ At(rb, k) \in Slot
        BY <2>2, <3>1, <1>8, StoredIs
      <3> QED BY <3>2, <2>2, <1>1, <1>9, <1>10
    <2> QED BY <2>1, <2>2, StoredIs
  <1>12. Stored(put) = Append(Stored(rb), b)
    BY <1>9, <1>10, <1>11, SeqEqual
  <1> QED BY <1>12 DEF put

-----------------------------------------------------------------------------
(* The bytes on their way, and how much of the assert text has been written. *)
Queue == Sending \o Unsent
Text ==
    CASE pc = "poll" -> i - 1
      [] pc = "poll_wait" -> IF i = Len(AssertString) THEN i + 1 ELSE i
      [] pc \in {"poll_wait_cr", "poll_nl"} -> i
      [] OTHER -> Len(AssertString) + 1

(* A byte in UCA0TXBUF is the oldest one of the ring, until the polling     *)
(* begins; that begins with the first character of the text.                *)
OrderInv ==
    /\ Starting => shift = Free
    /\ ~Polling /\ txbuf # Free =>
          isr = "none" /\ ~txifg /\ ~Empty /\ txbuf = Head(Stored(tx_buffer))
    /\ ~Polling => i = 1
    /\ pc \in {"poll_wait_cr", "poll_nl"} => i = Len(AssertString)

(* What a step can do to the bytes on their way.                            *)
Quiet ==
    /\ Queue' = Queue /\ wire' = wire /\ accepted' = accepted
    /\ (Polling <=> Polling') /\ (Polling => Text' = Text)
Drain ==
    /\ Queue # <<>> /\ Queue' = Tail(Queue) /\ wire' = Append(wire, Head(Queue))
    /\ accepted' = accepted
    /\ (Polling <=> Polling') /\ (Polling => Text' = Text)
Take ==
    /\ ~Polling /\ ~Polling' /\ Len(Queue) < UART_BUFFER_SIZE
    /\ Queue' = Append(Queue, c) /\ accepted' = Append(accepted, c) /\ wire' = wire
GiveUp ==
    /\ ~Polling /\ Polling'
    /\ Queue' = <<>> /\ wire' = wire /\ accepted' = accepted /\ Text' = 0
Tell ==
    /\ Polling /\ Polling' /\ Len(Queue) < UART_BUFFER_SIZE
    /\ Text + 1 \in 1 .. Len(AssertText) /\ Text' = Text + 1
    /\ Queue' = Append(Queue, AssertText[Text + 1])
    /\ wire' = wire /\ accepted' = accepted
Move == Quiet \/ Drain \/ Take \/ GiveUp \/ Tell

(* A prefix of a sequence.                                                  *)
LEMMA Prefix ==
    ASSUME NEW S, NEW s \in Seq(S), NEW n \in 0 .. Len(s)
    PROVE  /\ SubSeq(s, 1, n) \in Seq(S) /\ Len(SubSeq(s, 1, n)) = n
           /\ \A j \in 1 .. n : SubSeq(s, 1, n)[j] = s[j]
  OBVIOUS

(* The assert text is the string with its last character, a NL, replaced.   *)
LEMMA TextIs ==
    /\ AssertText \in Seq(Byte) /\ Len(AssertText) = Len(AssertString) + 1
    /\ \A j \in 1 .. Len(AssertString) - 1 : AssertText[j] = AssertString[j]
    /\ AssertText[Len(AssertString)] = CR
    /\ AssertText[Len(AssertString) + 1] = NL
  <1> DEFINE body == SubSeq(AssertString, 1, Len(AssertString) - 1)
  <1>1. Len(AssertString) \in Nat \ {0} /\ AssertString \in Seq(Byte)
    BY TextAssumption, LenProperties
  <1>3. /\ body \in Seq(Byte) /\ Len(body) = Len(AssertString) - 1
        /\ \A j \in 1 .. Len(AssertString) - 1 : body[j] = AssertString[j]
    <2>1. Len(AssertString) - 1 \in 0 .. Len(AssertString)
      BY <1>1
    <2> QED BY <1>1, <2>1, Prefix
  <1> HIDE DEF body
  <1>4. <<CR, NL>> \in Seq(Byte)
    BY CharAssumption DEF Byte
  <1>5. AssertText = body \o <<CR, NL>>
    BY DEF AssertText, body
  <1>6. /\ AssertText \in Seq(Byte) /\ Len(AssertText) = Len(body) + 2
        /\ \A j \in 1 .. Len(body) + 2 :
              AssertText[j] = IF j <= Len(body) THEN body[j] ELSE <<CR, NL>>[j - Len(body)]
    BY <1>3, <1>4, <1>5, ConcatProperties
  <1>7. Len(body) + 1 = Len(AssertString)
    BY <1>1, <1>3
  <1>8. AssertText[Len(AssertString)] = CR /\ AssertText[Len(AssertString) + 1] = NL
    <2>1. AssertText[Len(body) + 1] = <<CR, NL>>[1]
      BY <1>3, <1>6, LenProperties
    <2>2. AssertText[Len(body) + 2] = <<CR, NL>>[2]
      BY <1>3, <1>6, LenProperties
    <2>3. Len(body) + 2 = Len(AssertString) + 1
      BY <1>1, <1>3
    <2> QED BY <1>7, <2>1, <2>2, <2>3
  <1> QED BY <1>1, <1>3, <1>6, <1>7, <1>8

(* Both are sequences of bytes, and so is what has been stored.             *)
LEMMA QueueType ==
    ASSUME TypeOK
    PROVE  /\ Stored(tx_buffer) \in Seq(Byte)
           /\ Sending \in Seq(Byte) /\ Unsent \in Seq(Byte) /\ Queue \in Seq(Byte)
           /\ Empty <=> Stored(tx_buffer) = <<>>
  <1>1. Stored(tx_buffer) \in Seq(Byte) /\ (Empty <=> Stored(tx_buffer) = <<>>)
    BY StoredIs, StoredLen DEF TypeOK, Empty
  <1>2. Sending \in Seq(Byte)
    BY DEF Sending, TypeOK
  <1>3. Unsent \in Seq(Byte)
    <2>1. ~Empty => Tail(Stored(tx_buffer)) \in Seq(Byte)
      BY <1>1, HeadTailProperties
    <2>2. txbuf # Free => <<txbuf>> \in Seq(Byte)
      BY DEF TypeOK
    <2> QED BY <1>1, <2>1, <2>2 DEF Unsent, Empty
  <1> QED BY <1>1, <1>2, <1>3, ConcatProperties DEF Queue

LEMMA InitOrder == Init => OrderInv
  BY DEF Init, OrderInv, Starting, Polling, Asserting

(* The steps that touch neither the ring nor what the USCI holds.           *)
Untouched == UNCHANGED <<tx_buffer, txifg, txbuf, shift, isr, wire, accepted>>

LEMMA UntouchedOrder ==
    ASSUME OrderInv, Untouched, ~Polling' => ~Polling, Starting' => Starting,
           ~Polling' => i' = i,
           pc' \in {"poll_wait_cr", "poll_nl"} => i' = Len(AssertString)
    PROVE  OrderInv'
  <1>1. Empty' <=> Empty
    BY DEF Untouched, Empty
  <1> QED BY <1>1 DEF OrderInv, Untouched

LEMMA OrderStep == IInv /\ OrderInv /\ [Next]_vars => OrderInv'
  <1> SUFFICES ASSUME IInv, OrderInv, [Next]_vars PROVE OrderInv'
    OBVIOUS
  <1> USE DEF Main, Goto, mainVars, histVars, usciVars
  <1>1. CASE UsciStep
    <2>1. Empty' <=> Empty
      BY <1>1 DEF UsciStep, UsciLoad, UsciShiftOut, Empty
    <2> QED BY <1>1, <2>1 DEF UsciStep, UsciLoad, UsciShiftOut, IInv, StartInv,
            OrderInv, Starting, Polling, Asserting
  <1>2. CASE IsrStep
    <2>1. CASE IsrEnter \/ IsrClear
      BY <2>1 DEF IsrEnter, IsrClear, IInv, HandlerInv, MaskInv, OrderInv, Before,
         Token, TypeOK, Starting, Polling, Asserting
    <2>2. CASE IsrRefill
      <3>1. Empty' <=> Empty
        BY <2>2 DEF IsrRefill, Empty
      <3>2. Before /\ txbuf = Free /\ ~txifg
        BY <2>2 DEF IsrRefill, IInv, MaskInv, HandlerInv
      <3>3. CASE Empty
        BY <2>2, <3>1, <3>2, <3>3 DEF IsrRefill, uart_tx_start, Empty, OrderInv,
           Before, Starting, Polling, Asserting
      <3>4. CASE ~Empty
        <4>1. txbuf' = Head(Stored(tx_buffer)) /\ txifg' = FALSE
          BY <2>2, <3>4, StoredPeek DEF IsrRefill, uart_tx_start, WriteTxbuf, Empty,
             IInv, TypeOK
        <4> QED BY <2>2, <3>1, <3>2, <3>4, <4>1 DEF IsrRefill, OrderInv, Before,
                Starting, Polling, Asserting
      <3> QED BY <3>3, <3>4
    <2> QED BY <1>2, <2>1, <2>2 DEF IsrStep
  <1>3. CASE InitStep
    BY <1>3 DEF InitStep, InitConfigure, InitClear, InitEnable, uart_configure,
       OrderInv, IInv, StartInv, Starting, Polling, Asserting
  <1>4. CASE PutStep
    <2>1. CASE WaitNotFull \/ TxDisable \/ ReadOngoing \/ TxEnable
      <3>1. Untouched /\ i' = i /\ ~Polling /\ ~Starting' /\ ~Polling'
        BY <2>1 DEF WaitNotFull, TxDisable, ReadOngoing, TxEnable, Untouched,
           Starting, Polling, Asserting
      <3>2. pc' \notin {"poll_wait_cr", "poll_nl"}
        BY <2>1 DEF WaitNotFull, TxDisable, ReadOngoing, TxEnable
      <3> QED BY <3>1, <3>2, UntouchedOrder
    <2>2. CASE Put
      <3> DEFINE s == Stored(tx_buffer)
      <3>1. Stored(tx_buffer)' = Append(s, c)
        BY <2>2, StoredPut DEF Put, IInv, PutInv, TypeOK, Full
      <3>2. ~Empty'
        BY <2>2, PutRing DEF Put, Empty, Full, IInv, TypeOK, PutInv
      <3>3. ASSUME ~Empty PROVE Head(Append(s, c)) = Head(s)
        BY <3>3, HeadTailAppend, QueueType DEF IInv
      <3>4. ~Polling /\ ~Polling' /\ ~Starting'
        BY <2>2 DEF Put, Starting, Polling, Asserting
      <3>5. txbuf' = txbuf /\ txifg' = txifg /\ isr' = isr /\ i' = i
            /\ pc' \notin {"poll_wait_cr", "poll_nl"}
        BY <2>2 DEF Put
      <3> QED BY <3>1, <3>2, <3>3, <3>4, <3>5 DEF OrderInv
    <2>3. CASE Start
      <3>1. txbuf' = Head(Stored(tx_buffer)) /\ txifg' = FALSE
        BY <2>3, StoredPeek DEF Start, uart_tx_start, WriteTxbuf, Empty, IInv,
           PutInv, TypeOK
      <3>2. ~Empty /\ (Empty' <=> Empty)
        BY <2>3 DEF Start, Empty, IInv, PutInv
      <3> QED BY <2>3, <3>1, <3>2 DEF Start, OrderInv, Starting, Polling, Asserting
    <2> QED BY <1>4, <2>1, <2>2, <2>3 DEF PutStep
  <1>5. CASE PollStep
    <2>1. CASE AssertConfigure
      BY <2>1 DEF AssertConfigure, uart_configure, OrderInv, Starting, Polling,
         Asserting
    <2>2. CASE PollWrite
      <3>1. AssertString[i] = NL <=> i = Len(AssertString)
        BY TextAssumption DEF IInv, TypeOK
      <3> QED BY <2>2, <3>1 DEF PollWrite, OrderInv, Starting, Polling, Asserting
    <2>3. CASE PollWaitCr \/ PollWriteNl \/ PollWait
      BY <2>3 DEF PollWaitCr, PollWriteNl, PollWait, OrderInv, Starting, Polling,
         Asserting
    <2> QED BY <1>5, <2>1, <2>2, <2>3 DEF PollStep
  <1>6. CASE AssertFails \/ \E ch \in Char : Call(ch)
    <2>1. Untouched /\ i' = i /\ ~Polling /\ ~Starting' /\ ~Polling'
      BY <1>6 DEF AssertFails, Call, Untouched, Starting, Polling, Asserting
    <2>2. pc' \notin {"poll_wait_cr", "poll_nl"}
      BY <1>6 DEF AssertFails, Call
    <2> QED BY <2>1, <2>2, UntouchedOrder
  <1>7. CASE UNCHANGED vars
    BY <1>7, UntouchedOrder DEF vars, Untouched, Starting, Polling, Asserting, OrderInv
  <1> QED BY <1>1, <1>2, <1>3, <1>4, <1>5, <1>6, <1>7 DEF Next, MainStep, Blink

-----------------------------------------------------------------------------
(* Taking a sequence apart and putting it together.                         *)
LEMMA ConsParts ==
    ASSUME NEW S, NEW e \in S, NEW s \in Seq(S)
    PROVE  /\ <<e>> \o s # <<>> /\ Head(<<e>> \o s) = e /\ Tail(<<e>> \o s) = s
  OBVIOUS

LEMMA ConsHeadTail ==
    ASSUME NEW S, NEW s \in Seq(S), s # <<>>
    PROVE  <<Head(s)>> \o Tail(s) = s
  OBVIOUS

LEMMA ConcatAppend ==
    ASSUME NEW S, NEW s \in Seq(S), NEW t \in Seq(S), NEW e \in S
    PROVE  s \o Append(t, e) = Append(s \o t, e)
  OBVIOUS

(* The steps that leave the ring and the USCI alone move nothing.           *)
LEMMA UntouchedQuiet ==
    ASSUME Untouched, Polling <=> Polling', Polling => Text' = Text
    PROVE  Quiet
  <1>1. Sending' = Sending /\ Unsent' = Unsent
    BY DEF Untouched, Sending, Unsent
  <1> QED BY <1>1 DEF Quiet, Queue, Untouched

LEMMA UsciMove == IInv /\ OrderInv /\ UsciStep => Quiet \/ Drain
  <1> SUFFICES ASSUME IInv, OrderInv, UsciStep PROVE Quiet \/ Drain
    OBVIOUS
  <1> USE DEF mainVars, histVars
  <1>1. CASE UsciLoad
    <2>1. UNCHANGED <<tx_buffer, pc, i, isr, wire, accepted>>
          /\ Sending = <<>> /\ Sending' = <<txbuf>> /\ txbuf' = Free /\ txifg' = TRUE
      BY <1>1 DEF UsciLoad, Sending
    <2>2. (Polling <=> Polling') /\ Text' = Text
      BY <2>1 DEF Polling, Asserting, Text
    <2>3. CASE Polling
      <3>1. Unsent = <<txbuf>> /\ Unsent' = <<>>
        BY <1>1, <2>1, <2>2, <2>3 DEF UsciLoad, Unsent
      <3> QED BY <2>1, <2>2, <3>1, QueueType, ConcatEmptySeq DEF Quiet, Queue, IInv
    <2>4. CASE ~Polling
      <3> DEFINE s == Stored(tx_buffer)
      <3>1. isr = "none" /\ ~txifg /\ ~Empty /\ txbuf = Head(s)
        BY <1>1, <2>4 DEF UsciLoad, OrderInv
      <3>2. Unsent = s /\ Unsent' = Tail(s)
        BY <2>1, <2>2, <2>4, <3>1 DEF Unsent, Empty
      <3>3. s # <<>> /\ s \in Seq(Byte)
        BY <3>1, QueueType DEF IInv
      <3>4. <<Head(s)>> \o Tail(s) = s /\ <<>> \o s = s
        BY <3>3, ConsHeadTail, ConcatEmptySeq
      <3> QED BY <2>1, <2>2, <3>1, <3>2, <3>4 DEF Quiet, Queue
    <2> QED BY <2>3, <2>4
  <1>2. CASE UsciShiftOut
    <2>1. UNCHANGED <<tx_buffer, txbuf, txifg, pc, i, isr, accepted>>
          /\ wire' = Append(wire, shift)
          /\ Sending = <<shift>> /\ Sending' = <<>>
      BY <1>2 DEF UsciShiftOut, Sending
    <2>2. (Polling <=> Polling') /\ Text' = Text /\ Unsent' = Unsent
      BY <2>1 DEF Polling, Asserting, Text, Unsent
    <2>3. shift \in Byte /\ Unsent \in Seq(Byte)
      BY <1>2, QueueType DEF UsciShiftOut, IInv, TypeOK
    <2>4. <<shift>> \o Unsent # <<>> /\ Head(<<shift>> \o Unsent) = shift
          /\ Tail(<<shift>> \o Unsent) = Unsent /\ <<>> \o Unsent = Unsent
      BY <2>3, ConsParts, ConcatEmptySeq
    <2> QED BY <2>1, <2>2, <2>4 DEF Drain, Queue
  <1> QED BY <1>1, <1>2 DEF UsciStep

LEMMA IsrMove == IInv /\ OrderInv /\ IsrStep => Quiet
  <1> SUFFICES ASSUME IInv, OrderInv, IsrStep PROVE Quiet
    OBVIOUS
  <1> USE DEF mainVars, histVars, usciVars
  <1>1. Before /\ UNCHANGED <<pc, i, shift, wire, accepted>>
    BY DEF IsrStep, IsrEnter, IsrClear, IsrRefill, IInv, MaskInv, TypeOK, Before,
       Critical, Starting, Asserting
  <1>2. ~Polling /\ ~Polling' /\ Sending' = Sending
    BY <1>1 DEF Before, Polling, Asserting, Sending
  <1>3. CASE IsrEnter
    <2>1. isr = "none" /\ txifg /\ ~Empty
      BY <1>1, <1>3 DEF IsrEnter, IInv, HandlerInv, Token
    <2>2. isr' = "clear" /\ Stored(tx_buffer)' = Tail(Stored(tx_buffer))
      BY <1>3, <2>1, StoredGet DEF IsrEnter, Empty, IInv, TypeOK
    <2>3. Unsent' = Unsent
      BY <1>2, <2>1, <2>2 DEF Unsent, Empty
    <2> QED BY <1>1, <1>2, <2>3 DEF Quiet, Queue
  <1>4. CASE IsrClear
    <2>1. Unsent' = Unsent
      BY <1>2, <1>4 DEF IsrClear, Unsent
    <2> QED BY <1>1, <1>2, <2>1 DEF Quiet, Queue
  <1>5. CASE IsrRefill
    <2>1. ~txifg /\ isr = "refill" /\ tx_buffer' = tx_buffer
      BY <1>5 DEF IsrRefill, IInv, HandlerInv
    <2>2. ring_buffer_empty(tx_buffer) \/ txifg' = FALSE
      BY <1>5 DEF IsrRefill, uart_tx_start, WriteTxbuf
    <2>3. Unsent' = Unsent
      BY <1>2, <2>1, <2>2 DEF Unsent
    <2> QED BY <1>1, <1>2, <2>3 DEF Quiet, Queue
  <1> QED BY <1>3, <1>4, <1>5 DEF IsrStep

LEMMA InitMove == IInv /\ OrderInv /\ InitStep => Quiet
  <1> SUFFICES ASSUME IInv, OrderInv, InitStep PROVE Quiet
    OBVIOUS
  <1>1. Starting /\ Empty /\ shift = Free /\ shift' = Free /\ ~Polling /\ ~Polling'
        /\ UNCHANGED <<tx_buffer, isr, wire, accepted>>
    BY DEF InitStep, InitConfigure, InitClear, InitEnable, uart_configure, Main, Goto,
       histVars, IInv, StartInv, OrderInv, Starting, Polling, Asserting
  <1>2. Unsent' = Unsent /\ Sending' = Sending
    BY <1>1 DEF Unsent, Sending, Empty
  <1> QED BY <1>1, <1>2 DEF Quiet, Queue

LEMMA PutMove == IInv /\ OrderInv /\ PutStep => Quiet \/ Take
  <1> SUFFICES ASSUME IInv, OrderInv, PutStep PROVE Quiet \/ Take
    OBVIOUS
  <1> USE DEF Main, Goto, mainVars, histVars, usciVars
  <1>1. ~Polling /\ ~Polling'
    BY DEF PutStep, WaitNotFull, TxDisable, ReadOngoing, Put, Start, TxEnable,
       Polling, Asserting
  <1>2. CASE WaitNotFull \/ TxDisable \/ ReadOngoing \/ TxEnable
    <2>1. Untouched
      BY <1>2 DEF WaitNotFull, TxDisable, ReadOngoing, TxEnable, Untouched
    <2> QED BY <1>1, <2>1, UntouchedQuiet
  <1>3. CASE Put
    <2> DEFINE s == Stored(tx_buffer)
    <2>1. isr = "none" /\ c \in Byte /\ tx_buffer \in TxRing
          /\ ~ring_buffer_full(tx_buffer) /\ Token
      BY <1>3 DEF Put, IInv, TypeOK, PutInv, Full, HandlerInv
    <2>2. Stored(tx_buffer)' = Append(s, c) /\ ~ring_buffer_empty(tx_buffer')
      BY <1>3, <2>1, StoredPut, PutRing DEF Put
    <2>3. UNCHANGED <<txifg, shift, isr, wire>> /\ accepted' = Append(accepted, c)
      BY <1>3 DEF Put
    <2>4. s \in Seq(Byte) /\ Sending \in Seq(Byte) /\ Unsent \in Seq(Byte)
          /\ Sending' = Sending
      BY <2>3, QueueType DEF IInv, Sending
    <2>5. txifg => s # <<>> /\ ~ring_buffer_empty(tx_buffer)
      BY <2>1, QueueType DEF Token, Empty, IInv
    <2>6. Unsent' = Append(Unsent, c)
      <3>1. CASE txifg
        <4>1. Tail(Append(s, c)) = Append(Tail(s), c)
          BY <2>4, <2>5, <3>1, HeadTailAppend
        <4> QED BY <1>1, <2>1, <2>2, <2>3, <2>5, <3>1, <4>1 DEF Unsent
      <3>2. CASE ~txifg
        BY <1>1, <2>2, <2>3, <3>2 DEF Unsent
      <3> QED BY <3>1, <3>2
    <2>7. Queue' = Append(Queue, c)
      BY <2>1, <2>4, <2>6, ConcatAppend DEF Queue
    <2>8. Len(Queue) < UART_BUFFER_SIZE
      <3>1. Len(s) \in Nat /\ Len(s) + 2 <= UART_BUFFER_SIZE
        BY <2>1, <2>4, StoredLen
      <3>2. Len(Unsent) \in Nat /\ Len(Unsent) <= Len(s)
        BY <1>1, <2>4, <2>5, HeadTailProperties DEF Unsent
      <3>3. Len(Sending) \in 0 .. 1
        BY DEF Sending
      <3>4. Len(Queue) = Len(Sending) + Len(Unsent)
        BY <2>4, ConcatProperties DEF Queue
      <3> DEFINE stored == Len(s)
                 unsent == Len(Unsent)
                 sending == Len(Sending)
      <3>5. /\ stored \in Nat /\ unsent \in Nat /\ sending \in 0 .. 1
            /\ stored + 2 <= UART_BUFFER_SIZE /\ unsent <= stored
        BY <3>1, <3>2, <3>3
      <3> HIDE DEF stored, unsent, sending
      <3>6. sending + unsent < UART_BUFFER_SIZE
        BY <3>5, SizeAssumption DEF UINT8
      <3> QED BY <3>4, <3>6 DEF sending, unsent
    <2> QED BY <1>1, <2>3, <2>7, <2>8 DEF Take
  <1>4. CASE Start
    <2>1. ~txifg /\ UNCHANGED <<tx_buffer, shift, isr, wire, accepted>>
      BY <1>4 DEF Start, IInv, PutInv
    <2>2. txifg' = FALSE
      BY <1>4 DEF Start, uart_tx_start, WriteTxbuf, IInv, PutInv, Empty
    <2>3. Unsent' = Unsent /\ Sending' = Sending
      BY <1>1, <2>1, <2>2 DEF Unsent, Sending
    <2> QED BY <1>1, <2>1, <2>3 DEF Quiet, Queue
  <1> QED BY <1>2, <1>3, <1>4 DEF PutStep

LEMMA PollMove == IInv /\ OrderInv /\ PollStep => Quiet \/ GiveUp \/ Tell
  <1> SUFFICES ASSUME IInv, OrderInv, PollStep PROVE Quiet \/ GiveUp \/ Tell
    OBVIOUS
  <1> USE DEF Main, Goto, mainVars, histVars, usciVars
  <1>1. /\ i \in 1 .. Len(AssertString) /\ Len(AssertString) \in Nat \ {0}
        /\ AssertString[i] = NL <=> i = Len(AssertString)
    BY TextAssumption, LenProperties DEF IInv, TypeOK
  <1>2. CASE AssertConfigure
    <2>1. ~Polling /\ Polling' /\ Text' = 0
      BY <1>2 DEF AssertConfigure, Polling, Asserting, OrderInv, Text
    <2>2. Sending' = <<>> /\ Unsent' = <<>>
      BY <1>2, <2>1 DEF AssertConfigure, uart_configure, Sending, Unsent
    <2>3. Queue' = <<>>
      BY <2>2 DEF Queue
    <2> QED BY <1>2, <2>1, <2>3 DEF GiveUp, AssertConfigure
  <1>3. CASE PollWaitCr \/ PollWait
    <2>1. Untouched /\ Polling /\ Polling'
      BY <1>3 DEF PollWaitCr, PollWait, Untouched, Polling, Asserting
    <2>2. Text' = Text
      BY <1>1, <1>3 DEF PollWaitCr, PollWait, Text
    <2> QED BY <2>1, <2>2, UntouchedQuiet
  <1>4. CASE PollWrite \/ PollWriteNl
    <2>1. Polling /\ Polling' /\ txifg /\ txbuf = Free
          /\ UNCHANGED <<shift, wire, accepted>>
      BY <1>4 DEF PollWrite, PollWriteNl, Polling, Asserting, IInv, AssertInv
    <2>2. Text + 1 \in 1 .. Len(AssertText) /\ Text' = Text + 1
          /\ txbuf' = AssertText[Text + 1]
      BY <1>1, <1>4, TextIs DEF PollWrite, PollWriteNl, WriteTxbuf, Text, OrderInv
    <2>3. AssertText[Text + 1] \in Byte /\ txbuf' # Free
      BY <2>2, TextIs, CharAssumption
    <2>4. Unsent = <<>> /\ Unsent' = <<txbuf'>> /\ Sending' = Sending
      BY <2>1, <2>3 DEF Unsent, Sending
    <2>5. Sending \in Seq(Byte) /\ Len(Sending) \in 0 .. 1
      BY QueueType DEF Sending, IInv
    <2>6. Queue = Sending /\ Queue' = Append(Sending, AssertText[Text + 1])
      BY <2>2, <2>3, <2>4, <2>5, AppendIsConcat, ConcatEmptySeq DEF Queue
    <2> QED BY <2>1, <2>2, <2>5, <2>6, SizeAssumption DEF Tell, UINT8
  <1> QED BY <1>2, <1>3, <1>4 DEF PollStep

LEMMA EveryMove == IInv /\ OrderInv /\ [Next]_vars => Move
  <1> SUFFICES ASSUME IInv, OrderInv, [Next]_vars PROVE Move
    OBVIOUS
  <1>1. CASE AssertFails \/ \E ch \in Char : Call(ch)
    <2>1. Untouched /\ ~Polling /\ ~Polling'
      BY <1>1 DEF AssertFails, Call, Main, Goto, histVars, usciVars, Untouched,
         Polling, Asserting
    <2> QED BY <2>1, UntouchedQuiet DEF Move
  <1>2. CASE UNCHANGED vars
    <2>1. Untouched /\ (Polling <=> Polling') /\ Text' = Text
      BY <1>2 DEF vars, usciVars, mainVars, histVars, Untouched, Polling,
         Asserting, Text
    <2> QED BY <2>1, UntouchedQuiet DEF Move
  <1> QED
    BY <1>1, <1>2, UsciMove, IsrMove, InitMove, PutMove, PollMove
    DEF Next, MainStep, Blink, Move

-----------------------------------------------------------------------------
(* What has gone out and what is on its way are the bytes accepted, or some *)
(* of those and then the assert text as far as it has been written.         *)
LineInv ==
    /\ ~Polling => accepted = wire \o Queue
    /\ Polling => /\ Text \in 0 .. Len(AssertText)
                  /\ \E n \in 0 .. Len(accepted) :
                        wire \o Queue = SubSeq(accepted, 1, n) \o SubSeq(AssertText, 1, Text)

SentInv == IInv /\ OrderInv /\ LineInv

LEMMA MoveHead ==
    ASSUME NEW S, NEW s \in Seq(S), NEW t \in Seq(S), t # <<>>
    PROVE  Append(s, Head(t)) \o Tail(t) = s \o t
  OBVIOUS

LEMMA PrefixOfConcat ==
    ASSUME NEW S, NEW s \in Seq(S), NEW t \in Seq(S)
    PROVE  SubSeq(s \o t, 1, Len(s)) = s /\ Len(s) \in 0 .. Len(s \o t)
  OBVIOUS

LEMMA LongerPrefix ==
    ASSUME NEW S, NEW s \in Seq(S), NEW n \in 0 .. Len(s) - 1
    PROVE  SubSeq(s, 1, n + 1) = Append(SubSeq(s, 1, n), s[n + 1])
  OBVIOUS

LEMMA LineStep == SentInv /\ [Next]_vars => LineInv'
  <1> SUFFICES ASSUME SentInv, [Next]_vars PROVE LineInv'
    OBVIOUS
  <1>1. /\ wire \in Seq(Byte) /\ Queue \in Seq(Byte) /\ accepted \in Seq(Byte)
        /\ c \in Byte
    BY QueueType DEF SentInv, IInv, TypeOK
  <1>2. CASE Quiet
    BY <1>2 DEF Quiet, SentInv, LineInv
  <1>3. CASE Drain
    <2>1. wire' \o Queue' = wire \o Queue
      BY <1>1, <1>3, MoveHead DEF Drain
    <2> QED BY <1>3, <2>1 DEF Drain, SentInv, LineInv
  <1>4. CASE Take
    <2>1. wire \o Append(Queue, c) = Append(wire \o Queue, c)
      BY <1>1, ConcatAppend
    <2> QED BY <1>4, <2>1 DEF Take, SentInv, LineInv
  <1>5. CASE GiveUp
    <2>1. accepted = wire \o Queue
      BY <1>5 DEF GiveUp, SentInv, LineInv
    <2>2. SubSeq(accepted, 1, Len(wire)) = wire /\ Len(wire) \in 0 .. Len(accepted)
      BY <1>1, <2>1, PrefixOfConcat
    <2>3. SubSeq(AssertText, 1, 0) = <<>> /\ 0 \in 0 .. Len(AssertText)
      BY TextIs, SubSeqEmpty, LenProperties
    <2>4. wire' \o Queue' = SubSeq(accepted', 1, Len(wire)) \o SubSeq(AssertText, 1, Text')
      BY <1>5, <2>2, <2>3 DEF GiveUp
    <2> QED BY <1>5, <2>2, <2>3, <2>4 DEF GiveUp, LineInv
  <1>6. CASE Tell
    <2> DEFINE told == SubSeq(AssertText, 1, Text)
               byte == AssertText[Text + 1]
    <2>1. PICK n \in 0 .. Len(accepted) :
             wire \o Queue = SubSeq(accepted, 1, n) \o told
      BY <1>6 DEF Tell, SentInv, LineInv
    <2>2. Text \in 0 .. Len(AssertText) - 1 /\ AssertText \in Seq(Byte)
      BY <1>6, TextIs, LenProperties DEF Tell, SentInv, LineInv
    <2>3. SubSeq(accepted, 1, n) \in Seq(Byte) /\ told \in Seq(Byte) /\ byte \in Byte
      BY <1>1, <2>2, Prefix
    <2>4. SubSeq(AssertText, 1, Text + 1) = Append(told, byte)
      BY <2>2, LongerPrefix
    <2> HIDE DEF told, byte
    <2>5. wire \o Append(Queue, byte) = SubSeq(accepted, 1, n) \o Append(told, byte)
      <3>1. wire \o Append(Queue, byte) = Append(wire \o Queue, byte)
        BY <1>1, <2>3, ConcatAppend
      <3>2. SubSeq(accepted, 1, n) \o Append(told, byte)
              = Append(SubSeq(accepted, 1, n) \o told, byte)
        BY <2>3, ConcatAppend
      <3> QED BY <2>1, <3>1, <3>2
    <2>6. wire' \o Queue' = SubSeq(accepted', 1, n) \o SubSeq(AssertText, 1, Text')
      BY <1>6, <2>4, <2>5 DEF Tell, byte
    <2>7. Text' \in 0 .. Len(AssertText) /\ n \in 0 .. Len(accepted')
      BY <1>6, <2>2 DEF Tell
    <2> QED BY <1>6, <2>6, <2>7 DEF Tell, LineInv
  <1> QED BY <1>2, <1>3, <1>4, <1>5, <1>6, EveryMove DEF Move, SentInv

LEMMA QueueInit == Init => Queue = <<>> /\ wire = <<>> /\ ~Polling
  <1> SUFFICES ASSUME Init PROVE Queue = <<>> /\ wire = <<>> /\ ~Polling
    OBVIOUS
  <1>1. ~Polling /\ wire = <<>> /\ Sending = <<>>
    BY DEF Init, Polling, Asserting, Sending
  <1>2. Empty
    BY DEF Init, EmptyRing, Empty, ring_buffer_empty
  <1>3. Stored(tx_buffer) = <<>>
    BY <1>2, InitInv, QueueType DEF IInv
  <1>4. Unsent = <<>>
    BY <1>1, <1>2, <1>3 DEF Unsent, Empty
  <1> QED BY <1>1, <1>4 DEF Queue

(* What holds of the bytes on their way: the line carries what was taken    *)
(* from the queue, in that order, and after an ASSERT a prefix of the rest. *)
THEOREM SentInvariant == Spec => []SentInv
  <1>1. Init => SentInv
    <2> SUFFICES ASSUME Init PROVE SentInv
      OBVIOUS
    <2>1. IInv /\ OrderInv
      BY InitInv, InitOrder
    <2>2. <<>> = <<>> \o <<>> /\ accepted = <<>>
      BY DEF Init
    <2> QED BY <2>1, <2>2, QueueInit DEF SentInv, LineInv
  <1>2. SentInv /\ [Next]_vars => SentInv'
    BY StepInv, OrderStep, LineStep DEF SentInv
  <1> QED BY <1>1, <1>2, PTL DEF Spec

-----------------------------------------------------------------------------
(* Every byte given to _putchar goes out once and in its turn: what was     *)
(* accepted is what the wire has carried, then the byte in the shift        *)
(* register, then what the ring still has to send.                          *)
THEOREM InOrder == Spec => []NothingLost
  <1>1. SentInv => NothingLost
    <2> SUFFICES ASSUME SentInv, ~Polling PROVE accepted = wire \o Sending \o Unsent
      BY DEF NothingLost
    <2>1. wire \in Seq(Byte) /\ Sending \in Seq(Byte) /\ Unsent \in Seq(Byte)
      BY QueueType DEF SentInv, IInv, TypeOK
    <2>2. accepted = wire \o (Sending \o Unsent)
      BY DEF SentInv, LineInv, Queue
    <2> QED BY <2>1, <2>2, ConcatAssociative
  <1> QED BY <1>1, SentInvariant, PTL

(* After an ASSERT the line carries an untorn prefix of the trace and then  *)
(* the text of the assertion from its start, all of it once the LED blinks. *)
THEOREM TextUntorn == Spec => []AssertTextWhole
  <1>1. SentInv => AssertTextWhole
    <2> SUFFICES ASSUME SentInv, Polling
                 PROVE \E n \in 0 .. Len(accepted), m \in 0 .. Len(AssertText) :
                         /\ wire \o Sending \o Unsent
                              = SubSeq(accepted, 1, n) \o SubSeq(AssertText, 1, m)
                         /\ pc = "blink" => m = Len(AssertText)
      BY DEF AssertTextWhole
    <2>1. wire \in Seq(Byte) /\ Sending \in Seq(Byte) /\ Unsent \in Seq(Byte)
      BY QueueType DEF SentInv, IInv, TypeOK
    <2>2. PICK n \in 0 .. Len(accepted) :
             wire \o (Sending \o Unsent)
               = SubSeq(accepted, 1, n) \o SubSeq(AssertText, 1, Text)
      BY DEF SentInv, LineInv, Queue
    <2>3. wire \o Sending \o Unsent = wire \o (Sending \o Unsent)
      BY <2>1, ConcatAssociative
    <2>4. Text \in 0 .. Len(AssertText)
      BY DEF SentInv, LineInv
    <2>5. pc = "blink" => Text = Len(AssertText)
      BY TextIs DEF Text
    <2> QED BY <2>2, <2>3, <2>4, <2>5
  <1> QED BY <1>1, SentInvariant, PTL

(* The driver implements the stream of ByteStream: a bounded FIFO that      *)
(* sends in order and is thrown away once, as a whole, when an ASSERT fails.*)
THEOREM ImplementsStream == Spec => Stream!Spec
  <1>1. Init => Stream!Init
    BY QueueInit DEF Stream!Init, Queue, Polling, Asserting
  <1>2. SentInv /\ [Next]_vars => [Stream!Next]_Stream!vars
    <2> SUFFICES ASSUME SentInv, Move PROVE [Stream!Next]_Stream!vars
      BY EveryMove DEF SentInv
    <2> USE DEF Stream!Next, Stream!vars, Queue
    <2>1. CASE Quiet
      BY <2>1 DEF Quiet, Polling, Asserting
    <2>2. CASE Drain
      <3>1. Stream!Transmit
        BY <2>2 DEF Drain, Stream!Transmit, Polling, Asserting
      <3> QED BY <3>1
    <2>3. CASE Take
      <3>1. Stream!Accept(c)
        BY <2>3 DEF Take, Stream!Accept, Polling, Asserting
      <3>2. c \in Byte
        BY DEF SentInv, IInv, TypeOK
      <3> QED BY <3>1, <3>2
    <2>4. CASE GiveUp
      <3>1. Stream!Abandon
        BY <2>4 DEF GiveUp, Stream!Abandon, Polling, Asserting
      <3> QED BY <3>1
    <2>5. CASE Tell
      <3>1. Stream!Accept(AssertText[Text + 1])
        BY <2>5 DEF Tell, Stream!Accept, Polling, Asserting
      <3>2. AssertText[Text + 1] \in Byte
        BY <2>5, TextIs, ElementOfSeq DEF Tell
      <3> QED BY <3>1, <3>2
    <2> QED BY <2>1, <2>2, <2>3, <2>4, <2>5 DEF Move
  <1> QED BY <1>1, <1>2, SentInvariant, PTL DEF Spec, Stream!Spec

=============================================================================
