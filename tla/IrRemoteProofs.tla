--------------------------- MODULE IrRemoteProofs ---------------------------
(***************************************************************************)
(* The remote control for fields of any length, every queue and all the    *)
(* timings of the protocol: the decoder counts the pulses the remote       *)
(* sends, and each command comes out of ir_remote_get_cmd once, in order.  *)
(***************************************************************************)
EXTENDS IrRemote, SequenceTheorems, TLAPS

Slot == 0 .. IR_CMD_BUFFER_ELEM_CNT - 1
IrRing == [buffer : [Slot -> Word], size : {IR_CMD_BUFFER_ELEM_CNT},
           head : Slot, tail : 0 .. IR_CMD_BUFFER_ELEM_CNT]

-----------------------------------------------------------------------------
(* What holds between the steps.                                            *)

(* The next pulse the decoder counts, and what it will make of it.          *)
NextCount == (pulse_count + 1) % UINT16
Valid == is_valid_pulse(NextCount, timer_ms)

(* The bits of the message that have been received by pulse p are the last  *)
(* of the shift register.                                                   *)
BitsSo(p) == IF p < LAST THEN p - 2 ELSE 4 * FIELD
GotBits(p) ==
    \A k \in 1 .. BitsSo(p) : raw[4 * FIELD - BitsSo(p) + k] = Bits(message)[k]

(* The remote is never further than the commands it has sent allow.         *)
EdgeInv == edge >= LAST => Len(pressed) >= 1 /\ edge =< LAST + 2 * Len(pressed)

RestInv ==
    ~ifg => /\ timer_ms = 0 /\ (counting \/ (pulse_count = 0 /\ edge = 0))
            /\ IF edge = 0 THEN pulse_count =< noise ELSE pulse_count = edge
            /\ edge >= 3 => GotBits(edge)

PendingInv ==
    ifg => /\ edge = 0 => pulse_count < noise
           /\ edge = 1 => pulse_count = 0 \/ ~Valid
           /\ edge >= 2 => /\ pulse_count = edge - 1 /\ Valid
                           /\ edge >= 4 => GotBits(edge - 1)
           /\ is_bit_pulse(edge) => (timer_ms >= 2 <=> Bits(message)[edge - 2] = 1)

DecoderInv == EdgeInv /\ RestInv /\ PendingInv

(* Between mask and unmask ir_remote_get_cmd takes the oldest command out.  *)
GetInv ==
    /\ pc \in {"read", "advance"} => Stored(ir_cmd_buffer) # <<>>
    /\ pc = "advance" => cmd = Stored(ir_cmd_buffer)[1]
    /\ pc = "wrap" => cmd \in Word
    /\ pc \in {"test", "read"} => cmd = IR_CMD_NONE
    /\ ie <=> pc = "idle"

(* The command of a message pulse that the handler has not yet seen.        *)
OnItsWay == IF ifg /\ is_message_pulse(edge) THEN <<message[2]>> ELSE <<>>
Line(r, h, s, w) == r \o h \o s \o w
QueueInv ==
    /\ pressed = Line(received, InHand, Stored(ir_cmd_buffer), OnItsWay)
    /\ ifg /\ is_message_pulse(edge) =>
          Len(Stored(ir_cmd_buffer)) < IR_CMD_BUFFER_ELEM_CNT - 1

IInv ==
    /\ TypeOK /\ ir_cmd_buffer \in IrRing /\ Len(pressed) =< MaxCommands
    /\ DecoderInv /\ GetInv /\ QueueInv

-----------------------------------------------------------------------------
(* The constants, and the bits of a message.                                *)

LEMMA EvenIs == ASSUME NEW n \in Nat PROVE (2 + 4 * n) % 2 = 0 /\ 2 + 4 * n \in Nat
OBVIOUS

LEMMA ConstantsAre ==
    /\ FIELD \in Nat /\ FIELD >= 1 /\ LAST = 2 + 4 * FIELD /\ ~Odd(LAST)
    /\ IR_CMD_BUFFER_ELEM_CNT \in Nat /\ IR_CMD_BUFFER_ELEM_CNT >= 2
    /\ IR_CMD_BUFFER_ELEM_CNT =< 255
    /\ MaxCommands \in Nat /\ MaxNoise \in Nat /\ IR_CMD_NONE \notin Word
<1>1. FIELD \in Nat /\ FIELD >= 1
  BY FieldAssumption
<1>2. LAST = 2 + 4 * FIELD /\ ~Odd(LAST)
  BY <1>1, EvenIs DEF LAST, Odd
<1>3. /\ IR_CMD_BUFFER_ELEM_CNT \in Nat /\ IR_CMD_BUFFER_ELEM_CNT >= 2
      /\ IR_CMD_BUFFER_ELEM_CNT =< 255
  BY BufferAssumption DEF UINT8
<1> QED BY <1>1, <1>2, <1>3, BoundAssumption, MessageAssumption

LEMMA WordIs ==
    ASSUME NEW w \in Word
    PROVE  w \in Seq({0, 1}) /\ Len(w) = FIELD
BY ConstantsAre DEF Word

Four(a, b, c, d) == a \o b \o c \o d

LEMMA FourIs ==
    ASSUME NEW a \in Word, NEW b \in Word, NEW c \in Word, NEW d \in Word
    PROVE  /\ Four(a, b, c, d) \in Seq({0, 1}) /\ Len(Four(a, b, c, d)) = 4 * FIELD
           /\ \A k \in 1 .. FIELD : Four(a, b, c, d)[2 * FIELD + k] = c[k]
<1> DEFINE ab == a \o b  abc == ab \o c  abcd == abc \o d
<1>0. /\ a \in Seq({0, 1}) /\ b \in Seq({0, 1}) /\ c \in Seq({0, 1}) /\ d \in Seq({0, 1})
      /\ Len(a) = FIELD /\ Len(b) = FIELD /\ Len(c) = FIELD /\ Len(d) = FIELD
      /\ FIELD \in Nat
  BY WordIs, ConstantsAre
<1>1. ab \in Seq({0, 1}) /\ Len(ab) = 2 * FIELD
  BY <1>0, ConcatProperties
<1> HIDE DEF ab
<1>2. /\ abc \in Seq({0, 1}) /\ Len(abc) = 3 * FIELD
      /\ \A k \in 1 .. 3 * FIELD : abc[k] = IF k =< 2 * FIELD THEN ab[k] ELSE c[k - 2 * FIELD]
  <2>1. Len(ab) + Len(c) = 3 * FIELD
    BY <1>0, <1>1
  <2>2. /\ abc \in Seq({0, 1}) /\ Len(abc) = Len(ab) + Len(c)
        /\ \A k \in 1 .. Len(ab) + Len(c) :
              abc[k] = IF k =< Len(ab) THEN ab[k] ELSE c[k - Len(ab)]
    BY <1>0, <1>1, ConcatProperties
  <2> HIDE DEF abc
  <2> QED BY <1>0, <1>1, <2>1, <2>2
<1> HIDE DEF abc
<1>3. /\ abcd \in Seq({0, 1}) /\ Len(abcd) = 4 * FIELD
      /\ \A k \in 1 .. 4 * FIELD : abcd[k] = IF k =< 3 * FIELD THEN abc[k] ELSE d[k - 3 * FIELD]
  <2>1. Len(abc) + Len(d) = 4 * FIELD
    BY <1>0, <1>2
  <2>2. /\ abcd \in Seq({0, 1}) /\ Len(abcd) = Len(abc) + Len(d)
        /\ \A k \in 1 .. Len(abc) + Len(d) :
              abcd[k] = IF k =< Len(abc) THEN abc[k] ELSE d[k - Len(abc)]
    BY <1>0, <1>2, ConcatProperties
  <2> HIDE DEF abcd
  <2> QED BY <1>0, <1>2, <2>1, <2>2
<1> HIDE DEF abcd
<1>4. ASSUME NEW k \in 1 .. FIELD PROVE abcd[2 * FIELD + k] = c[k]
  <2>1. 2 * FIELD + k \in 1 .. 3 * FIELD /\ 2 * FIELD + k \in 1 .. 4 * FIELD /\ (2 * FIELD + k) - 2 * FIELD = k
        /\ ~(2 * FIELD + k =< 2 * FIELD)
    BY <1>0
  <2> QED BY <1>0, <1>2, <1>3, <2>1
<1> QED BY <1>3, <1>4 DEF Four, ab, abc, abcd

LEMMA ComplementIs == ASSUME NEW w \in Word PROVE Complement(w) \in Word
<1>1. \A k \in 1 .. FIELD : 1 - w[k] \in {0, 1}
  BY DEF Word
<1> QED BY <1>1 DEF Complement, Word

(* A message is four words of bits, of which the third is the command.      *)
LEMMA BitsIs ==
    ASSUME NEW m \in Messages
    PROVE  /\ Bits(m) \in Seq({0, 1}) /\ Len(Bits(m)) = 4 * FIELD
           /\ \A k \in 1 .. 4 * FIELD : Bits(m)[k] \in {0, 1}
           /\ m[2] \in Word /\ decoded_cmd(Bits(m)) = m[2]
<1>1. m[1] \in Word /\ m[2] \in Word
  BY MessageAssumption
<1>2. Complement(m[1]) \in Word /\ Complement(m[2]) \in Word
  BY <1>1, ComplementIs
<1>3. /\ Bits(m) \in Seq({0, 1}) /\ Len(Bits(m)) = 4 * FIELD
      /\ \A k \in 1 .. FIELD : Bits(m)[2 * FIELD + k] = m[2][k]
  <2>1. Bits(m) = Four(m[1], Complement(m[1]), m[2], Complement(m[2]))
    BY DEF Bits, Four
  <2> QED BY <1>1, <1>2, <2>1, FourIs
<1>4. decoded_cmd(Bits(m)) = m[2]
  BY <1>1, <1>3 DEF decoded_cmd, Word
<1>5. \A k \in 1 .. 4 * FIELD : Bits(m)[k] \in {0, 1}
  BY <1>3, ElementOfSeq
<1> QED BY <1>1, <1>3, <1>4, <1>5

-----------------------------------------------------------------------------
(* The queue, also while its tail is past the end between two statements.   *)

Count(rb) == IF rb.head >= rb.tail THEN rb.head - rb.tail
                                   ELSE rb.head + IR_CMD_BUFFER_ELEM_CNT - rb.tail
At(rb, k) == IF rb.tail + k - 1 < IR_CMD_BUFFER_ELEM_CNT
             THEN rb.tail + k - 1 ELSE rb.tail + k - 1 - IR_CMD_BUFFER_ELEM_CNT

LEMMA ModOnce ==
    ASSUME NEW a \in Nat, a < 2 * IR_CMD_BUFFER_ELEM_CNT
    PROVE  a % IR_CMD_BUFFER_ELEM_CNT = IF a < IR_CMD_BUFFER_ELEM_CNT
                                        THEN a ELSE a - IR_CMD_BUFFER_ELEM_CNT
BY ConstantsAre

LEMMA RingIs ==
    ASSUME NEW rb \in IrRing
    PROVE  /\ rb.head \in Nat /\ rb.head < IR_CMD_BUFFER_ELEM_CNT
           /\ rb.tail \in Nat /\ rb.tail =< IR_CMD_BUFFER_ELEM_CNT
           /\ rb.size = IR_CMD_BUFFER_ELEM_CNT /\ rb.buffer \in [Slot -> Word]
           /\ rb = [buffer |-> rb.buffer, size |-> rb.size, head |-> rb.head, tail |-> rb.tail]
BY ConstantsAre DEF IrRing, Slot

LEMMA IrRingIs ==
    ASSUME NEW b \in [Slot -> Word], NEW h \in Nat, NEW t \in Nat,
           h < IR_CMD_BUFFER_ELEM_CNT, t =< IR_CMD_BUFFER_ELEM_CNT
    PROVE  [buffer |-> b, size |-> IR_CMD_BUFFER_ELEM_CNT, head |-> h, tail |-> t] \in IrRing
BY ConstantsAre DEF IrRing, Slot

LEMMA StoredIs ==
    ASSUME NEW rb \in IrRing
    PROVE  /\ Count(rb) \in Nat /\ Count(rb) < IR_CMD_BUFFER_ELEM_CNT
           /\ \A k \in 1 .. IR_CMD_BUFFER_ELEM_CNT - 1 : At(rb, k) \in Slot
           /\ Stored(rb) \in Seq(Word) /\ Len(Stored(rb)) = Count(rb)
           /\ \A k \in 1 .. Count(rb) : Stored(rb)[k] = rb.buffer[At(rb, k)]
<1>1. Count(rb) \in Nat /\ Count(rb) < IR_CMD_BUFFER_ELEM_CNT
  BY RingIs, ConstantsAre DEF Count
<1>2. (rb.head + rb.size - rb.tail) % rb.size = Count(rb)
  <2> DEFINE m == rb.head + IR_CMD_BUFFER_ELEM_CNT - rb.tail
  <2>1. m \in Nat /\ m < 2 * IR_CMD_BUFFER_ELEM_CNT
    BY RingIs, ConstantsAre
  <2>2. Count(rb) = IF m < IR_CMD_BUFFER_ELEM_CNT THEN m ELSE m - IR_CMD_BUFFER_ELEM_CNT
    BY RingIs, ConstantsAre DEF Count
  <2> HIDE DEF m
  <2>3. m % IR_CMD_BUFFER_ELEM_CNT = Count(rb)
    BY <2>1, <2>2, ModOnce
  <2> QED BY <2>3, RingIs DEF m
<1>3. ASSUME NEW k \in 1 .. IR_CMD_BUFFER_ELEM_CNT - 1
      PROVE  (rb.tail + k - 1) % rb.size = At(rb, k) /\ At(rb, k) \in Slot
  <2> DEFINE m == rb.tail + k - 1
  <2>1. m \in Nat /\ m < 2 * IR_CMD_BUFFER_ELEM_CNT
    BY RingIs, ConstantsAre
  <2>2. At(rb, k) = IF m < IR_CMD_BUFFER_ELEM_CNT THEN m ELSE m - IR_CMD_BUFFER_ELEM_CNT
    BY RingIs, ConstantsAre DEF At
  <2> HIDE DEF m
  <2>3. m % IR_CMD_BUFFER_ELEM_CNT = At(rb, k)
    BY <2>1, <2>2, ModOnce
  <2>4. At(rb, k) \in Slot
    BY <2>1, <2>2, ConstantsAre DEF Slot
  <2> QED BY <2>3, <2>4, RingIs DEF m
<1>4. Stored(rb) = [k \in 1 .. Count(rb) |-> rb.buffer[At(rb, k)]]
  BY <1>1, <1>2, <1>3, ConstantsAre DEF Stored
<1>5. \A k \in 1 .. Count(rb) : rb.buffer[At(rb, k)] \in Word
  BY <1>1, <1>3, RingIs, ConstantsAre
<1>6. Stored(rb) \in Seq(Word) /\ Len(Stored(rb)) = Count(rb)
  BY <1>1, <1>4, <1>5
<1> QED BY <1>1, <1>3, <1>4, <1>6

(* A put into a queue with room adds a newest command, wherever the tail is *)
(* between the two statements of a get.                                     *)
LEMMA StoredPut ==
    ASSUME NEW rb \in IrRing, NEW w \in Word,
           Len(Stored(rb)) < IR_CMD_BUFFER_ELEM_CNT - 1
    PROVE  /\ ring_buffer_put(rb, w) \in IrRing
           /\ ring_buffer_put(rb, w).tail = rb.tail
           /\ Stored(ring_buffer_put(rb, w)) = Append(Stored(rb), w)
<1> DEFINE put == ring_buffer_put(rb, w)
           head == Wrap((rb.head + 1) % UINT8, rb.size)
<1>1. head = IF rb.head + 1 = IR_CMD_BUFFER_ELEM_CNT THEN 0 ELSE rb.head + 1
  BY RingIs, ConstantsAre DEF Wrap, UINT8
<1>2. head \in Nat /\ head < IR_CMD_BUFFER_ELEM_CNT /\ head # rb.tail
  BY <1>1, StoredIs, RingIs, ConstantsAre DEF Count
<1>3. /\ put.buffer = [rb.buffer EXCEPT ![rb.head] = w] /\ put.head = head
      /\ put.tail = rb.tail /\ put.size = IR_CMD_BUFFER_ELEM_CNT
      /\ put \in IrRing
  <2> HIDE DEF head
  <2>1. put = [rb EXCEPT !.buffer = [@ EXCEPT ![rb.head] = w], !.head = head,
                         !.tail = IF head = rb.tail THEN (rb.tail + 1) % UINT8 ELSE rb.tail]
    BY DEF ring_buffer_put, head
  <2> HIDE DEF put
  <2> DEFINE new == [rb.buffer EXCEPT ![rb.head] = w]
  <2>2. put = [buffer |-> new, size |-> IR_CMD_BUFFER_ELEM_CNT, head |-> head, tail |-> rb.tail]
    <3>1. /\ rb = [buffer |-> rb.buffer, size |-> rb.size, head |-> rb.head, tail |-> rb.tail]
          /\ rb.size = IR_CMD_BUFFER_ELEM_CNT
      BY RingIs
    <3> QED BY <1>2, <2>1, <3>1
  <2>3. new \in [Slot -> Word]
    BY RingIs
  <2> HIDE DEF new
  <2>4. put \in IrRing
    BY <1>2, <2>2, <2>3, RingIs, IrRingIs
  <2> QED BY <2>2, <2>4 DEF new
<1> HIDE DEF put, head
<1>4. Count(put) = Count(rb) + 1
  <2>1. Count(rb) < IR_CMD_BUFFER_ELEM_CNT - 1
    BY StoredIs
  <2>2. Count(put) = IF head >= rb.tail THEN head - rb.tail
                     ELSE head + IR_CMD_BUFFER_ELEM_CNT - rb.tail
    BY <1>3 DEF Count
  <2>3. CASE rb.head + 1 = IR_CMD_BUFFER_ELEM_CNT
    BY <1>1, <1>2, <2>1, <2>2, <2>3, RingIs, ConstantsAre DEF Count
  <2>4. CASE rb.head + 1 # IR_CMD_BUFFER_ELEM_CNT
    <3>1. head = rb.head + 1 /\ rb.tail # rb.head + 1
      BY <1>1, <1>2, <2>4
    <3> QED BY <3>1, <2>1, <2>2, RingIs, ConstantsAre DEF Count
  <2> QED BY <2>3, <2>4
<1>5. \A k \in 1 .. IR_CMD_BUFFER_ELEM_CNT - 1 : At(put, k) = At(rb, k)
  BY <1>3 DEF At
<1>6. At(rb, Count(rb) + 1) = rb.head
  BY RingIs, StoredIs, ConstantsAre DEF At, Count
<1>7. ASSUME NEW k \in 1 .. Count(rb) PROVE At(rb, k) # rb.head
  <2>1. /\ k \in Nat /\ k >= 1 /\ k =< Count(rb) /\ Count(rb) \in Nat
        /\ Count(rb) < IR_CMD_BUFFER_ELEM_CNT
    BY StoredIs
  <2>2. CASE rb.head >= rb.tail
    BY <2>1, <2>2, RingIs, ConstantsAre DEF At, Count
  <2>3. CASE ~(rb.head >= rb.tail)
    BY <2>1, <2>3, RingIs, ConstantsAre DEF At, Count
  <2> QED BY <2>2, <2>3
<1>8. /\ Append(Stored(rb), w) \in Seq(Word)
      /\ Len(Append(Stored(rb), w)) = Count(rb) + 1
      /\ \A k \in 1 .. Count(rb) : Append(Stored(rb), w)[k] = Stored(rb)[k]
      /\ Append(Stored(rb), w)[Count(rb) + 1] = w
  BY StoredIs, AppendProperties
<1>9. ASSUME NEW k \in 1 .. Count(rb) + 1
      PROVE  Stored(put)[k] = Append(Stored(rb), w)[k]
  <2>0. /\ Stored(put)[k] = put.buffer[At(rb, k)] /\ rb.head \in Slot
        /\ At(rb, k) \in Slot
    BY <1>3, <1>4, <1>5, StoredIs, RingIs, ConstantsAre DEF Slot
  <2>1. CASE k = Count(rb) + 1
    BY <1>3, <1>6, <1>8, <2>0, <2>1, RingIs
  <2>2. CASE k # Count(rb) + 1
    <3>1. k \in 1 .. Count(rb)
      BY <2>2, StoredIs
    <3>2. put.buffer[At(rb, k)] = rb.buffer[At(rb, k)]
      BY <1>3, <1>7, <2>0, <3>1, RingIs
    <3> QED BY <1>8, <2>0, <3>1, <3>2, StoredIs
  <2> QED BY <2>1, <2>2
<1>10. Stored(put) = Append(Stored(rb), w)
  BY <1>3, <1>4, <1>8, <1>9, StoredIs, SeqEqual
<1> QED BY <1>3, <1>10 DEF put

LEMMA StoredEmpty ==
    ASSUME NEW rb \in IrRing, rb.tail < IR_CMD_BUFFER_ELEM_CNT
    PROVE  ring_buffer_empty(rb) <=> Stored(rb) = <<>>
<1>1. ring_buffer_empty(rb) <=> Count(rb) = 0
  BY RingIs, ConstantsAre DEF ring_buffer_empty, Count
<1> QED BY <1>1, StoredIs, EmptySeq

(* With its tail inside the array, the oldest command is the one there, and *)
(* moving the tail by one takes it away; the wrap takes nothing.            *)
LEMMA StoredTake ==
    ASSUME NEW rb \in IrRing, rb.tail < IR_CMD_BUFFER_ELEM_CNT
    PROVE  Stored(rb) # <<>> =>
                 /\ ring_buffer_peek(rb) = {Stored(rb)[1]} /\ Stored(rb)[1] \in Word
                 /\ [rb EXCEPT !.tail = (@ + 1) % UINT8] \in IrRing
                 /\ Stored(rb) = <<Stored(rb)[1]>>
                                 \o Stored([rb EXCEPT !.tail = (@ + 1) % UINT8])
<1> DEFINE got == [rb EXCEPT !.tail = (@ + 1) % UINT8]
<1>3. ASSUME Stored(rb) # <<>>
      PROVE  /\ ring_buffer_peek(rb) = {Stored(rb)[1]} /\ Stored(rb)[1] \in Word
             /\ got \in IrRing /\ Stored(rb) = <<Stored(rb)[1]>> \o Stored(got)
  <2>1. Count(rb) \in Nat /\ Count(rb) >= 1
    BY <1>3, StoredIs, EmptySeq
  <2>2. Stored(rb)[1] = rb.buffer[rb.tail] /\ rb.tail \in Slot
    <3>1. At(rb, 1) = rb.tail /\ rb.tail \in Slot
      BY RingIs, ConstantsAre DEF At, Slot
    <3> QED BY <2>1, <3>1, StoredIs
  <2>3. ring_buffer_peek(rb) = {Stored(rb)[1]} /\ Stored(rb)[1] \in Word
    BY <2>2, RingIs DEF ring_buffer_peek
  <2>4. /\ got.buffer = rb.buffer /\ got.head = rb.head /\ got.tail = rb.tail + 1
        /\ got \in IrRing
    <3>1. (rb.tail + 1) % UINT8 = rb.tail + 1
      BY RingIs, ConstantsAre DEF UINT8
    <3>2. got = [buffer |-> rb.buffer, size |-> IR_CMD_BUFFER_ELEM_CNT, head |-> rb.head,
                 tail |-> rb.tail + 1]
      BY <3>1, RingIs
    <3> HIDE DEF got
    <3>3. got \in IrRing
      BY <3>2, RingIs, ConstantsAre, IrRingIs
    <3> QED BY <3>2, <3>3
  <2> HIDE DEF got
  <2>5. Count(got) = Count(rb) - 1
    BY <2>1, <2>4, RingIs, ConstantsAre DEF Count
  <2>6. ASSUME NEW k \in 1 .. Count(got) PROVE At(got, k) = At(rb, k + 1)
    BY <2>4, <2>5, StoredIs, RingIs, ConstantsAre DEF At
  <2>7. ASSUME NEW k \in 1 .. Count(got) PROVE Stored(got)[k] = Stored(rb)[k + 1]
    <3>1. k + 1 \in 1 .. Count(rb)
      BY <2>1, <2>5
    <3>2. Stored(got)[k] = got.buffer[At(got, k)] /\ Stored(rb)[k + 1] = rb.buffer[At(rb, k + 1)]
      BY <3>1, <2>4, StoredIs
    <3> QED BY <3>2, <2>4, <2>6
  <2>8. <<Stored(rb)[1]>> \in Seq(Word) /\ Len(<<Stored(rb)[1]>>) = 1
    BY <2>3
  <2>9. <<Stored(rb)[1]>> \o Stored(got) = Stored(rb)
    <3> DEFINE one == <<Stored(rb)[1]>>  all == one \o Stored(got)
    <3>1. one \in Seq(Word) /\ Len(one) = 1 /\ one[1] = Stored(rb)[1]
      BY <2>8
    <3> HIDE DEF one
    <3>2. /\ all \in Seq(Word) /\ Len(all) = 1 + Count(got)
          /\ \A k \in 1 .. 1 + Count(got) :
                all[k] = IF k =< 1 THEN one[k] ELSE Stored(got)[k - 1]
      <4> DEFINE s == Stored(got)
      <4>1. s \in Seq(Word) /\ Len(s) = Count(got) /\ all = one \o s
        BY <2>4, StoredIs
      <4> HIDE DEF s, all
      <4>2. /\ one \o s \in Seq(Word) /\ Len(one \o s) = Len(one) + Len(s)
            /\ \A k \in 1 .. Len(one) + Len(s) :
                  (one \o s)[k] = IF k =< Len(one) THEN one[k] ELSE s[k - Len(one)]
        BY <3>1, <4>1, ConcatProperties
      <4> QED BY <3>1, <4>1, <4>2 DEF s
    <3> HIDE DEF all
    <3>3. ASSUME NEW k \in 1 .. Count(rb) PROVE all[k] = Stored(rb)[k]
      <4>1. CASE k = 1
        <5>1. 1 \in 1 .. 1 + Count(got)
          BY <2>1, <2>5
        <5> QED BY <3>1, <3>2, <5>1, <4>1
      <4>2. CASE k # 1
        <5>1. k - 1 \in 1 .. Count(got) /\ k \in 1 .. 1 + Count(got) /\ ~(k =< 1)
          BY <2>1, <2>5, <4>2
        <5>2. Stored(got)[k - 1] = Stored(rb)[(k - 1) + 1]
          BY <2>7, <5>1
        <5> QED BY <3>2, <5>1, <5>2
      <4> QED BY <4>1, <4>2
    <3>4. all = Stored(rb)
      <4>1. Len(all) = Count(rb) /\ Len(Stored(rb)) = Count(rb) /\ Stored(rb) \in Seq(Word)
        BY <2>1, <2>5, <3>2, StoredIs
      <4> QED BY <4>1, <3>2, <3>3, SeqEqual
    <3> QED BY <3>4 DEF all, one
  <2> QED BY <2>3, <2>4, <2>9
<1> QED BY <1>3 DEF got

LEMMA StoredWrap ==
    ASSUME NEW rb \in IrRing
    PROVE  LET wrapped == [rb EXCEPT !.tail = Wrap(@, rb.size)]
           IN  /\ wrapped \in IrRing /\ wrapped.tail < IR_CMD_BUFFER_ELEM_CNT
               /\ Stored(wrapped) = Stored(rb)
<1> DEFINE wrapped == [rb EXCEPT !.tail = Wrap(@, rb.size)]
<1>1. /\ wrapped.buffer = rb.buffer /\ wrapped.head = rb.head
      /\ wrapped.tail = IF rb.tail = IR_CMD_BUFFER_ELEM_CNT THEN 0 ELSE rb.tail
      /\ wrapped \in IrRing
  <2> DEFINE tail == IF rb.tail = IR_CMD_BUFFER_ELEM_CNT THEN 0 ELSE rb.tail
  <2>1. wrapped = [buffer |-> rb.buffer, size |-> IR_CMD_BUFFER_ELEM_CNT, head |-> rb.head,
                   tail |-> tail]
    BY RingIs DEF Wrap
  <2>2. tail \in Nat /\ tail =< IR_CMD_BUFFER_ELEM_CNT
    BY RingIs, ConstantsAre
  <2> HIDE DEF wrapped, tail
  <2>3. wrapped \in IrRing
    BY <2>1, <2>2, RingIs, IrRingIs
  <2> QED BY <2>1, <2>3 DEF tail
<1> HIDE DEF wrapped
<1>2. Count(wrapped) = Count(rb)
  BY <1>1, RingIs, ConstantsAre DEF Count
<1>3. ASSUME NEW k \in 1 .. Count(rb) PROVE At(wrapped, k) = At(rb, k)
  <2>1. k \in Nat /\ k >= 1 /\ k < IR_CMD_BUFFER_ELEM_CNT
    BY StoredIs, ConstantsAre
  <2> QED BY <1>1, <2>1, RingIs, ConstantsAre DEF At
<1>4. Stored(wrapped) = Stored(rb)
  <2>1. \A k \in 1 .. Count(rb) : Stored(wrapped)[k] = Stored(rb)[k]
    BY <1>1, <1>2, <1>3, StoredIs
  <2> QED BY <1>1, <1>2, <2>1, StoredIs, SeqEqual
<1>5. wrapped.tail < IR_CMD_BUFFER_ELEM_CNT
  BY <1>1, RingIs, ConstantsAre
<1> QED BY <1>1, <1>4, <1>5 DEF wrapped


-----------------------------------------------------------------------------
(* The shift register, the count of the pulses, and the line of commands.   *)

Register == [1 .. 4 * FIELD -> {0, 1}]

LEMMA ZerosIs == Zeros(4 * FIELD) \in Register /\ Zeros(FIELD) \in Word
BY DEF Zeros, Register, Word

LEMMA ShiftIs ==
    ASSUME NEW r \in Register, NEW bit \in {0, 1}
    PROVE  /\ Append(Tail(r), bit) \in Register
           /\ \A k \in 1 .. 4 * FIELD - 1 : Append(Tail(r), bit)[k] = r[k + 1]
           /\ Append(Tail(r), bit)[4 * FIELD] = bit
<1> DEFINE n == 4 * FIELD  t == Tail(r)  a == Append(t, bit)
<1>1. n \in Nat /\ n >= 1
  BY ConstantsAre
<1>2. r \in Seq({0, 1}) /\ Len(r) = n /\ r # <<>>
  BY <1>1 DEF Register
<1> HIDE DEF n
<1>3. t \in Seq({0, 1}) /\ Len(t) = n - 1 /\ \A k \in 1 .. Len(t) : t[k] = r[k + 1]
  BY <1>1, <1>2, HeadTailProperties
<1> HIDE DEF t
<1>4. /\ a \in Seq({0, 1}) /\ Len(a) = Len(t) + 1
      /\ \A k \in 1 .. Len(t) : a[k] = t[k]
      /\ a[Len(t) + 1] = bit
  BY <1>3, AppendProperties
<1> HIDE DEF a
<1>5. Len(a) = n /\ a[n] = bit /\ \A k \in 1 .. n - 1 : a[k] = r[k + 1]
  BY <1>1, <1>3, <1>4
<1>6. a \in [1 .. n -> {0, 1}]
  BY <1>4, <1>5
<1> QED BY <1>5, <1>6 DEF Register, n, t, a

LEMMA OddIs ==
    ASSUME NEW n \in Nat, NEW i \in Nat
    PROVE  /\ Odd(n) <=> ~Odd(n + 1)
           /\ Odd(LAST + 2 * i + 1) /\ ~Odd(LAST + 2 * i)
<1>1. LAST + 2 * i = 2 * (1 + 2 * FIELD + i) /\ 1 + 2 * FIELD + i \in Nat
  BY ConstantsAre
<1>2. ASSUME NEW k \in Nat PROVE (2 * k) % 2 = 0 /\ (2 * k + 1) % 2 = 1
  OBVIOUS
<1>3. (LAST + 2 * i) % 2 = 0 /\ (LAST + 2 * i + 1) % 2 = 1
  BY <1>1, <1>2
<1>4. n % 2 = 1 <=> ~((n + 1) % 2 = 1)
  OBVIOUS
<1> QED BY <1>3, <1>4 DEF Odd

(* No pulse before the last of the message makes a command.                 *)
LEMMA EarlyPulse ==
    /\ LAST \in Nat /\ LAST >= 6
    /\ \A n \in Nat : n < LAST => ~is_message_pulse(n)
BY ConstantsAre DEF is_message_pulse

LEMMA LineKept ==
    ASSUME NEW r \in Seq(Word), NEW h \in Seq(Word), NEW s \in Seq(Word)
    PROVE  Line(r, h, s, <<>>) = r \o h \o s
<1>1. r \o h \o s \in Seq(Word)
  BY ConcatProperties
<1> QED BY <1>1, ConcatEmptySeq DEF Line

LEMMA LineSent ==
    ASSUME NEW r \in Seq(Word), NEW h \in Seq(Word), NEW s \in Seq(Word), NEW e \in Word
    PROVE  Append(Line(r, h, s, <<>>), e) = Line(r, h, s, <<e>>)
<1>1. r \o h \o s \in Seq(Word)
  BY ConcatProperties
<1> QED BY <1>1, LineKept, AppendIsConcat DEF Line

LEMMA LinePut ==
    ASSUME NEW r \in Seq(Word), NEW h \in Seq(Word), NEW s \in Seq(Word), NEW e \in Word
    PROVE  Line(r, h, Append(s, e), <<>>) = Line(r, h, s, <<e>>)
<1>1. Append(s, e) \in Seq(Word) /\ Append(s, e) = s \o <<e>> /\ <<e>> \in Seq(Word)
      /\ r \o h \in Seq(Word)
  BY AppendIsConcat, AppendProperties, ConcatProperties
<1>2. (r \o h) \o (s \o <<e>>) = ((r \o h) \o s) \o <<e>>
  BY <1>1, ConcatAssociative
<1>3. (r \o h) \o Append(s, e) \in Seq(Word)
  BY <1>1, ConcatProperties
<1> QED BY <1>1, <1>2, <1>3, ConcatEmptySeq DEF Line

LEMMA LineTaken ==
    ASSUME NEW r \in Seq(Word), NEW s \in Seq(Word), NEW w \in Seq(Word), NEW e \in Word
    PROVE  Line(r, <<>>, <<e>> \o s, w) = Line(r, <<e>>, s, w)
<1>1. <<e>> \in Seq(Word) /\ r \o <<>> = r
  BY ConcatEmptySeq
<1>2. r \o (<<e>> \o s) = (r \o <<e>>) \o s
  BY <1>1, ConcatAssociative
<1> QED BY <1>1, <1>2 DEF Line

LEMMA LineReturned ==
    ASSUME NEW r \in Seq(Word), NEW s \in Seq(Word), NEW w \in Seq(Word), NEW e \in Word
    PROVE  Line(Append(r, e), <<>>, s, w) = Line(r, <<e>>, s, w)
<1>1. Append(r, e) = r \o <<e>> /\ Append(r, e) \in Seq(Word)
  BY AppendIsConcat, AppendProperties
<1> QED BY <1>1, ConcatEmptySeq DEF Line

LEMMA QueueTypes ==
    ASSUME IInv
    PROVE  /\ received \in Seq(Word) /\ InHand \in Seq(Word) /\ OnItsWay \in Seq(Word)
           /\ Stored(ir_cmd_buffer) \in Seq(Word) /\ pressed \in Seq(Word)
           /\ message \in Messages /\ message[2] \in Word
<1>1. message \in Messages /\ message[2] \in Word
  BY BitsIs DEF IInv, TypeOK
<1>2. cmd # IR_CMD_NONE => cmd \in Word
  BY DEF IInv, TypeOK
<1> QED BY <1>1, <1>2, StoredIs DEF IInv, TypeOK, InHand, OnItsWay

-----------------------------------------------------------------------------
(* The remote and the time.                                                 *)

LEMMA InitInv == Init => IInv
<1> SUFFICES ASSUME Init PROVE IInv
  OBVIOUS
<1>1. ir_cmd_buffer = [buffer |-> [k \in Slot |-> Zeros(FIELD)], size |-> IR_CMD_BUFFER_ELEM_CNT,
                       head |-> 0, tail |-> 0]
  BY DEF Init, EmptyRing, Slot
<1>2. [k \in Slot |-> Zeros(FIELD)] \in [Slot -> Word]
  BY ZerosIs
<1>3. ir_cmd_buffer \in IrRing
  BY <1>1, <1>2, ConstantsAre, IrRingIs
<1>4. Stored(ir_cmd_buffer) = <<>>
  <2>1. ir_cmd_buffer.head = 0 /\ ir_cmd_buffer.tail = 0
    BY <1>1
  <2> QED BY <1>3, <2>1, ConstantsAre, StoredEmpty DEF ring_buffer_empty
<1>5. raw \in Register
  BY ZerosIs DEF Init
<1>6. TypeOK
  <2>1. /\ ir_cmd_buffer.buffer \in [Slot -> Word] /\ ir_cmd_buffer.head = 0
        /\ ir_cmd_buffer.tail = 0 /\ ir_cmd_buffer.size = IR_CMD_BUFFER_ELEM_CNT
    BY <1>1, <1>2
  <2>2. <<>> \in Seq(Word)
    OBVIOUS
  <2>3. /\ 0 \in 0 .. UINT16 - 1 /\ 0 \in 0 .. TIMER_TIMEOUT_ms /\ 0 \in 0 .. MaxNoise
        /\ 0 \in 0 .. IR_CMD_BUFFER_ELEM_CNT - 1 /\ 0 \in 0 .. IR_CMD_BUFFER_ELEM_CNT
        /\ 0 < IR_CMD_BUFFER_ELEM_CNT
    BY ConstantsAre DEF UINT16, TIMER_TIMEOUT_ms
  <2> QED BY <1>5, <2>1, <2>2, <2>3 DEF Init, TypeOK, Slot, Register
<1>7. DecoderInv
  BY EarlyPulse, ConstantsAre DEF Init, DecoderInv, EdgeInv, RestInv, PendingInv
<1>8. GetInv
  BY DEF Init, GetInv
<1>9. QueueInv
  <2>1. InHand = <<>> /\ OnItsWay = <<>> /\ pressed = <<>> /\ received = <<>> /\ ~ifg
    BY DEF Init, InHand, OnItsWay
  <2> QED BY <1>4, <2>1 DEF QueueInv, Line
<1> QED BY <1>3, <1>6, <1>7, <1>8, <1>9, ConstantsAre DEF IInv, Init

(* The pauses of the protocol are what the decoder takes, and tell a one    *)
(* from a zero.                                                             *)
LEMMA GapIs ==
    ASSUME Protocol, message \in Messages, NEW n \in Nat, n >= 2, NEW ms \in GapBefore(n)
    PROVE  /\ ms \in Nat /\ ms =< 109 /\ is_valid_pulse(n, ms)
           /\ is_bit_pulse(n) => (ms >= 2 <=> Bits(message)[n - 2] = 1)
<1>1. CASE n = 2
  BY <1>1, EarlyPulse DEF GapBefore, Protocol, is_valid_pulse, is_bit_pulse
<1>2. CASE n \in 3 .. LAST
  <2>1. ms \in IF Bits(message)[n - 2] = 1 THEN Gap.one ELSE Gap.zero
    BY <1>2, EarlyPulse DEF GapBefore
  <2>2. ms \in Nat /\ ms =< 3 /\ (ms >= 2 <=> Bits(message)[n - 2] = 1)
    BY <2>1 DEF Protocol
  <2>3. is_valid_pulse(n, ms)
    BY <1>2, <2>2 DEF is_valid_pulse
  <2> QED BY <2>2, <2>3
<1>3. CASE n = LAST + 1
  <2>1. ms \in Gap.repeat
    BY <1>3, EarlyPulse DEF GapBefore
  <2> QED BY <1>3, <2>1, EarlyPulse DEF Protocol, is_valid_pulse, is_bit_pulse
<1>4. CASE n > LAST + 1 /\ Odd(n)
  <2>1. ms \in Gap.next
    BY <1>4, EarlyPulse DEF GapBefore
  <2>2. n > LAST + 2
    <3>1. ~Odd(LAST + 2)
      BY OddIs
    <3> QED BY <3>1, <1>4, EarlyPulse
  <2> QED BY <1>4, <2>1, <2>2, EarlyPulse DEF Protocol, is_valid_pulse, is_bit_pulse
<1>5. CASE n > LAST + 1 /\ ~Odd(n)
  <2>1. ms \in Gap.repeat_lead
    BY <1>5, EarlyPulse DEF GapBefore
  <2> QED BY <1>5, <2>1, EarlyPulse DEF Protocol, is_valid_pulse, is_bit_pulse
<1> QED BY <1>1, <1>2, <1>3, <1>4, <1>5, EarlyPulse

LEMMA ElapseIs ==
    ASSUME IInv, ~ifg, NEW ms \in Nat, Elapse(ms)
    PROVE  /\ pulse_count' \in 0 .. UINT16 - 1 /\ timer_ms' \in 0 .. TIMER_TIMEOUT_ms
           /\ counting' \in BOOLEAN /\ raw' \in Register
           /\ pulse_count' \in {0, pulse_count}
           /\ pulse_count' = 0 \/ timer_ms' = ms
           /\ edge # 0 /\ ms =< TIMER_TIMEOUT_ms =>
                 pulse_count' = edge /\ timer_ms' = ms /\ raw' = raw
           /\ edge # 0 /\ ms > TIMER_TIMEOUT_ms => pulse_count' = 0
<1>1. /\ pulse_count \in 0 .. UINT16 - 1 /\ timer_ms = 0 /\ counting \in BOOLEAN
      /\ raw \in Register
      /\ edge # 0 => counting /\ pulse_count = edge
      /\ ~counting => pulse_count = 0
  BY DEF IInv, TypeOK, DecoderInv, RestInv, Register
<1>2. CASE ~counting
  BY <1>1, <1>2 DEF Elapse, decoder, UINT16, TIMER_TIMEOUT_ms
<1>3. CASE counting /\ ms =< TIMER_TIMEOUT_ms
  <2>1. timer_ms' = ms /\ UNCHANGED <<pulse_count, counting, raw>>
    BY <1>1, <1>3 DEF Elapse
  <2> QED BY <1>1, <1>3, <2>1 DEF TIMER_TIMEOUT_ms
<1>4. CASE counting /\ ms > TIMER_TIMEOUT_ms
  <2>1. /\ counting' = FALSE /\ pulse_count' = 0 /\ timer_ms' = 0
        /\ raw' = Zeros(4 * FIELD)
    <3>1. ~(timer_ms + ms <= TIMER_TIMEOUT_ms)
      BY <1>1, <1>4 DEF TIMER_TIMEOUT_ms
    <3> QED BY <1>4, <3>1 DEF Elapse
  <2>2. 0 \in 0 .. UINT16 - 1 /\ 0 \in 0 .. TIMER_TIMEOUT_ms /\ ~(ms =< TIMER_TIMEOUT_ms)
    BY <1>4 DEF TIMER_TIMEOUT_ms, UINT16
  <2> QED BY <1>1, <2>1, <2>2, ZerosIs
<1> QED BY <1>1, <1>2, <1>3, <1>4 DEF TIMER_TIMEOUT_ms

(* A step of the remote that changes neither the queue nor ir_remote_get_cmd *)
(* is right when the decoder is.                                            *)
LEMMA RemoteKeeps ==
    ASSUME IInv, ~ifg, NEW ms \in Nat, Elapse(ms), EdgeInv', ifg' = TRUE,
           UNCHANGED <<ir_cmd_buffer, ie, pc, cmd, received>>,
           edge' \in Nat, message' \in Messages, noise' \in 0 .. MaxNoise,
           pressed' \in Seq(Word), Len(pressed') =< MaxCommands, PendingInv',
           is_message_pulse(edge') =>
              /\ pressed' = Append(pressed, message'[2])
              /\ Len(Stored(ir_cmd_buffer)) < IR_CMD_BUFFER_ELEM_CNT - 1,
           ~is_message_pulse(edge') => pressed' = pressed
    PROVE  IInv'
<1>1. TypeOK'
  BY ElapseIs DEF IInv, TypeOK, Register
<1>2. DecoderInv'
  BY DEF DecoderInv, RestInv
<1>3. GetInv'
  BY DEF GetInv, IInv
<1>4. QueueInv'
  <2>1. InHand' = InHand /\ OnItsWay = <<>>
    BY DEF InHand, OnItsWay
  <2>2. pressed = Line(received, InHand, Stored(ir_cmd_buffer), <<>>)
    BY <2>1 DEF IInv, QueueInv
  <2>3. CASE is_message_pulse(edge')
    <3>1. message'[2] \in Word
      BY BitsIs
    <3>2. OnItsWay' = <<message'[2]>>
      BY <2>3 DEF OnItsWay
    <3>3. pressed' = Line(received, InHand, Stored(ir_cmd_buffer), <<message'[2]>>)
      <4> DEFINE s == Stored(ir_cmd_buffer)  e == message'[2]
      <4>1. /\ received \in Seq(Word) /\ InHand \in Seq(Word) /\ s \in Seq(Word)
            /\ OnItsWay \in Seq(Word) /\ e \in Word
        BY <3>1, QueueTypes
      <4>2. Append(Line(received, InHand, s, <<>>), e) = Line(received, InHand, s, <<e>>)
        BY ONLY <4>1, LineSent
      <4> QED BY <2>2, <2>3, <4>2
    <3> QED BY <2>1, <2>3, <3>2, <3>3 DEF QueueInv
  <2>4. CASE ~is_message_pulse(edge')
    <3>1. OnItsWay' = <<>>
      BY <2>4 DEF OnItsWay
    <3> QED BY <2>1, <2>2, <2>4, <3>1 DEF QueueInv
  <2> QED BY <2>3, <2>4
<1> QED BY <1>1, <1>2, <1>3, <1>4 DEF IInv

LEMMA NextPulseInv ==
    ASSUME Use, IInv, NextPulse
    PROVE  IInv'
<1>1. /\ ~ifg /\ ifg' /\ edge \in Nat /\ edge >= 1 /\ edge' = edge + 1 /\ message' = message
      /\ noise' = noise /\ UNCHANGED <<ir_cmd_buffer, ie, pc, cmd, received>>
  BY DEF NextPulse, Pulse, IInv, TypeOK
<1>2. PICK ms \in GapBefore(edge + 1) : Elapse(ms) /\ ifg' = TRUE
  BY DEF NextPulse, Pulse
<1>3. /\ ms \in Nat /\ ms =< 109 /\ is_valid_pulse(edge + 1, ms)
      /\ is_bit_pulse(edge + 1) => (ms >= 2 <=> Bits(message)[(edge + 1) - 2] = 1)
  <2>1. edge + 1 \in Nat /\ edge + 1 >= 2 /\ Protocol
    BY <1>1 DEF Use
  <2> QED BY <2>1, GapIs, QueueTypes
<1>4. pulse_count' = edge /\ timer_ms' = ms /\ raw' = raw
  BY <1>1, <1>2, <1>3, ElapseIs DEF TIMER_TIMEOUT_ms
<1>5. /\ is_message_pulse(edge + 1) =>
            /\ Len(pressed) < MaxCommands /\ pressed' = Append(pressed, message[2])
            /\ Len(Stored(ir_cmd_buffer)) < IR_CMD_BUFFER_ELEM_CNT - 1
      /\ ~is_message_pulse(edge + 1) => pressed' = pressed
  BY DEF NextPulse, Sends, Use
<1>6. /\ pressed' \in Seq(Word) /\ Len(pressed') \in Nat /\ Len(pressed) \in Nat
      /\ Len(pressed') =< MaxCommands
      /\ Len(pressed') = IF is_message_pulse(edge + 1) THEN Len(pressed) + 1 ELSE Len(pressed)
  <2>1. pressed \in Seq(Word) /\ Len(pressed) \in Nat /\ message[2] \in Word
        /\ Len(pressed) =< MaxCommands
    BY QueueTypes DEF IInv
  <2>2. CASE is_message_pulse(edge + 1)
    BY <1>5, <2>1, <2>2, AppendProperties, ConstantsAre
  <2>3. CASE ~is_message_pulse(edge + 1)
    BY <1>5, <2>1, <2>3
  <2> QED BY <2>2, <2>3
<1>7. EdgeInv'
  <2> DEFINE sent == Len(pressed)
  <2>1. edge >= LAST => sent >= 1 /\ edge =< LAST + 2 * sent
    BY DEF IInv, DecoderInv, EdgeInv
  <2>2. CASE edge + 1 < LAST
    BY <2>2, <1>1, EarlyPulse DEF EdgeInv
  <2>3. CASE edge + 1 = LAST
    <3>1. is_message_pulse(edge + 1)
      BY <2>3 DEF is_message_pulse
    <3> QED BY <3>1, <2>3, <1>1, <1>6, EarlyPulse DEF EdgeInv
  <2>4. CASE edge >= LAST /\ edge < LAST + 2 * sent
    BY <2>1, <2>4, <1>1, <1>6, EarlyPulse DEF EdgeInv
  <2>5. CASE edge >= LAST /\ edge = LAST + 2 * sent
    <3>1. sent >= 1 /\ Odd(edge + 1)
      BY <2>1, <2>5, <1>6, OddIs
    <3>2. is_message_pulse(edge + 1)
      BY <2>5, <3>1, <1>6, EarlyPulse DEF is_message_pulse
    <3> QED BY <2>5, <3>1, <3>2, <1>1, <1>6, EarlyPulse DEF EdgeInv
  <2> QED BY <2>1, <2>2, <2>3, <2>4, <2>5, <1>1, <1>6, EarlyPulse
<1>8. edge + 1 < UINT16
  <2>1. Len(pressed') =< MaxCommands /\ MaxCommands \in Nat /\ LAST + 2 * MaxCommands < UINT16
    BY <1>6, ConstantsAre DEF Use
  <2>2. edge + 1 >= LAST => edge + 1 =< LAST + 2 * Len(pressed')
    BY <1>1, <1>7 DEF EdgeInv
  <2> QED BY <2>1, <2>2, <1>1, <1>6, EarlyPulse DEF UINT16
<1>9. PendingInv'
  <2>1. NextCount' = edge + 1
    BY <1>1, <1>4, <1>8 DEF NextCount, UINT16
  <2>2. Valid'
    BY <2>1, <1>3, <1>4 DEF Valid
  <2>3. edge + 1 >= 4 => GotBits(edge - 1)'
    <3>1. edge >= 3 => GotBits(edge)
      BY <1>1 DEF IInv, DecoderInv, RestInv
    <3>2. edge' - 1 = edge
      BY <1>1
    <3>3. GotBits(edge) => GotBits(edge - 1)'
      BY <3>2, <1>1, <1>4 DEF GotBits, BitsSo
    <3> QED BY <3>1, <3>3, <1>1
  <2> QED BY <2>1, <2>2, <2>3, <1>1, <1>3, <1>4 DEF PendingInv
<1> QED BY <1>1, <1>2, <1>3, <1>5, <1>6, <1>7, <1>9, RemoteKeeps, QueueTypes
        DEF IInv, TypeOK

LEMMA PressKeyInv ==
    ASSUME Use, IInv, NEW m \in Messages, PressKey(m)
    PROVE  IInv'
<1>1. /\ ~ifg /\ edge' = 1 /\ message' = m /\ Len(pressed) < MaxCommands
      /\ noise' = noise /\ pressed' = pressed /\ UNCHANGED <<ir_cmd_buffer, ie, pc, cmd, received>>
      /\ edge = 0 \/ edge = LAST \/ (edge >= LAST + 2 /\ ~Odd(edge))
  BY DEF PressKey, Pulse, IInv, TypeOK
<1>2. PICK ms \in IF edge = 0 THEN Gap.noise_pause
                  ELSE IF edge = LAST THEN Gap.pause ELSE Gap.long_pause :
         Elapse(ms) /\ ifg' = TRUE
  BY DEF PressKey, Pulse
<1>3. /\ ms \in Nat /\ edge = 0 => ms >= 16
      /\ edge = LAST => ms >= 50
      /\ edge # 0 /\ edge # LAST => ms >= 110
  <2>1. Gap.noise_pause \subseteq Nat /\ Gap.pause \subseteq Nat /\ Gap.long_pause \subseteq Nat
    BY GapAssumption
  <2> QED BY <2>1, EarlyPulse DEF Use, Protocol
<1>4. ms \in Nat
  BY GapAssumption
<1>5. EdgeInv' /\ ~is_message_pulse(edge')
  BY <1>1, EarlyPulse DEF EdgeInv
<1>6. pulse_count' = 0 \/ ~Valid'
  <2>1. SUFFICES ASSUME pulse_count' # 0 PROVE ~Valid'
    OBVIOUS
  <2>2. pulse_count' = pulse_count /\ timer_ms' = ms /\ pulse_count \in Nat
        /\ pulse_count >= 1
    BY <2>1, <1>1, <1>2, <1>4, ElapseIs DEF IInv, TypeOK
  <2>3. CASE edge = 0
    <3>1. pulse_count =< noise /\ noise \in Nat /\ noise =< MaxNoise /\ MaxNoise < LAST
          /\ LAST < UINT16
      BY <1>1, <2>3, ConstantsAre, EarlyPulse DEF IInv, DecoderInv, RestInv, TypeOK, Use, UINT16
    <3>2. NextCount' = pulse_count + 1
      BY <2>2, <3>1, EarlyPulse, ConstantsAre DEF NextCount, UINT16
    <3>3. pulse_count + 1 >= 2 /\ pulse_count + 1 =< LAST
      BY <2>2, <3>1, EarlyPulse, ConstantsAre
    <3>4. ~is_valid_pulse(pulse_count + 1, ms)
      BY <1>3, <1>4, <2>2, <2>3, <3>3, EarlyPulse DEF is_valid_pulse
    <3> QED BY <2>2, <3>2, <3>4 DEF Valid
  <2>4. CASE edge # 0
    <3>1. pulse_count = edge /\ edge \in Nat /\ edge >= LAST
      BY <1>1, <2>4, EarlyPulse DEF IInv, DecoderInv, RestInv, TypeOK
    <3>2. edge + 1 < UINT16
      <4>1. edge =< LAST + 2 * Len(pressed) /\ Len(pressed) \in Nat
        BY <3>1, QueueTypes DEF IInv, DecoderInv, EdgeInv
      <4>2. MaxCommands \in Nat /\ LAST + 2 * MaxCommands < UINT16
        BY ConstantsAre DEF Use
      <4> QED BY <1>1, <3>1, <4>1, <4>2, EarlyPulse DEF UINT16
    <3>3. NextCount' = edge + 1
      BY <2>2, <3>1, <3>2 DEF NextCount, UINT16
    <3>4. ~is_valid_pulse(edge + 1, ms)
      <4>1. CASE edge = LAST
        BY <4>1, <1>3, <1>4, EarlyPulse DEF is_valid_pulse
      <4>2. CASE edge >= LAST + 2 /\ Odd(edge + 1)
        <5>1. ms >= 110
          BY <4>2, <1>3, EarlyPulse
        <5> QED BY <4>2, <5>1, <1>4, <3>1, EarlyPulse DEF is_valid_pulse
      <4> QED BY <4>1, <4>2, <1>1, <2>4, <3>1, OddIs
    <3> QED BY <2>2, <3>3, <3>4 DEF Valid
  <2> QED BY <2>3, <2>4
<1>7. PendingInv'
  BY <1>1, <1>6 DEF PendingInv, is_bit_pulse
<1> QED BY <1>1, <1>2, <1>4, <1>5, <1>7, RemoteKeeps, QueueTypes DEF IInv, TypeOK

LEMMA NoiseInv ==
    ASSUME Use, IInv, Noise
    PROVE  IInv'
<1>1. /\ ~ifg /\ edge' = 0 /\ noise' = noise + 1 /\ noise' \in 0 .. MaxNoise
      /\ pressed' = pressed /\ message' = message
      /\ UNCHANGED <<ir_cmd_buffer, ie, pc, cmd, received>>
  BY ConstantsAre DEF Noise, Pulse, IInv, TypeOK
<1>2. PICK ms \in IF edge = 0 THEN Gap.noise ELSE Gap.silence : Elapse(ms) /\ ifg' = TRUE
  BY DEF Noise, Pulse
<1>3. ms \in Nat /\ (edge # 0 => ms > TIMER_TIMEOUT_ms)
  BY GapAssumption DEF Use, Protocol
<1>4. pulse_count' < noise'
  <2>1. pulse_count' \in {0, pulse_count} /\ (edge # 0 => pulse_count' = 0)
    BY <1>1, <1>2, <1>3, ElapseIs
  <2>2. edge = 0 => pulse_count =< noise
    BY <1>1 DEF IInv, DecoderInv, RestInv
  <2> QED BY <1>1, <2>1, <2>2 DEF IInv, TypeOK
<1>5. EdgeInv' /\ ~is_message_pulse(edge')
  BY <1>1, EarlyPulse DEF EdgeInv
<1>6. PendingInv'
  BY <1>1, <1>4 DEF PendingInv, is_bit_pulse
<1> QED BY <1>1, <1>2, <1>3, <1>5, <1>6, RemoteKeeps, QueueTypes DEF IInv, TypeOK

-----------------------------------------------------------------------------
(* The handler.                                                             *)

LEMMA IsrIs ==
    ASSUME IInv, isr_pulse
    PROVE  /\ pulse_count' = (IF Valid THEN NextCount ELSE 1)
           /\ ~Valid => raw' = Zeros(4 * FIELD)
           /\ Valid /\ ~is_bit_pulse(NextCount) => raw' = raw
           /\ Valid /\ is_bit_pulse(NextCount) =>
                 raw' = Append(Tail(raw), IF timer_ms >= 2 THEN 1 ELSE 0)
           /\ is_message_pulse(pulse_count') =>
                 ir_cmd_buffer' = ring_buffer_put(ir_cmd_buffer, decoded_cmd(raw'))
           /\ ~is_message_pulse(pulse_count') => ir_cmd_buffer' = ir_cmd_buffer
           /\ counting' = TRUE /\ timer_ms' = 0
           /\ pulse_count' \in 0 .. UINT16 - 1 /\ raw' \in Register
<1>1. /\ pulse_count' = (IF Valid THEN NextCount ELSE 1)
      /\ ~Valid => raw' = Zeros(4 * FIELD)
      /\ Valid /\ ~is_bit_pulse(NextCount) => raw' = raw
      /\ Valid /\ is_bit_pulse(NextCount) =>
            raw' = Append(Tail(raw), IF timer_ms >= 2 THEN 1 ELSE 0)
      /\ is_message_pulse(pulse_count') =>
            ir_cmd_buffer' = ring_buffer_put(ir_cmd_buffer, decoded_cmd(raw'))
      /\ ~is_message_pulse(pulse_count') => ir_cmd_buffer' = ir_cmd_buffer
      /\ counting' = TRUE /\ timer_ms' = 0
  BY DEF isr_pulse, Valid, NextCount
<1>2. pulse_count' \in 0 .. UINT16 - 1
  <2>1. NextCount \in 0 .. UINT16 - 1
    <3>1. pulse_count \in Nat
      BY DEF IInv, TypeOK, UINT16
    <3> QED BY <3>1 DEF NextCount, UINT16
  <2> QED BY <1>1, <2>1 DEF UINT16
<1>3. raw' \in Register
  <2>1. raw \in Register /\ (IF timer_ms >= 2 THEN 1 ELSE 0) \in {0, 1}
    BY DEF IInv, TypeOK, Register
  <2>2. CASE ~Valid
    BY <1>1, <2>2, ZerosIs
  <2>3. CASE Valid /\ ~is_bit_pulse(NextCount)
    BY <1>1, <2>1, <2>3
  <2>4. CASE Valid /\ is_bit_pulse(NextCount)
    BY <1>1, <2>1, <2>4, ShiftIs
  <2> QED BY <2>2, <2>3, <2>4
<1> QED BY <1>1, <1>2, <1>3

LEMMA EdgeFits == Use /\ IInv => edge < UINT16
<1> SUFFICES ASSUME Use, IInv PROVE edge < UINT16
  OBVIOUS
<1>1. edge >= LAST => edge =< LAST + 2 * Len(pressed)
  BY DEF IInv, DecoderInv, EdgeInv
<1>2. Len(pressed) \in Nat /\ Len(pressed) =< MaxCommands /\ MaxCommands \in Nat
      /\ LAST + 2 * MaxCommands < UINT16 /\ edge \in Nat
  BY QueueTypes, ConstantsAre DEF IInv, TypeOK, Use
<1> QED BY <1>1, <1>2, EarlyPulse DEF UINT16

(* The pulse of a transmission is counted, and its bit, if it has one, is   *)
(* shifted in behind those before it.                                       *)
LEMMA PulseIs ==
    ASSUME Use, IInv, ifg, isr_pulse, edge' = edge, message' = message, edge >= 2
    PROVE  pulse_count' = edge /\ (edge >= 3 => GotBits(edge)')
<1>1. /\ edge \in Nat /\ pulse_count = edge - 1 /\ Valid
      /\ edge >= 4 => GotBits(edge - 1)
      /\ is_bit_pulse(edge) => (timer_ms >= 2 <=> Bits(message)[edge - 2] = 1)
  BY DEF IInv, TypeOK, DecoderInv, PendingInv
<1>2. NextCount = edge
  BY <1>1, EdgeFits DEF NextCount, UINT16
<1>3. pulse_count' = edge
  BY <1>1, <1>2, IsrIs
<1>4. ASSUME edge >= 3 PROVE GotBits(edge)'
  <2> DEFINE n == edge - 3  F4 == 4 * FIELD  B == Bits(message)
  <2>0. F4 \in Nat /\ F4 >= 1 /\ LAST = F4 + 2 /\ raw \in Register /\ Bits(message) = B
    BY ConstantsAre DEF IInv, TypeOK, Register
  <2>1. CASE is_bit_pulse(edge)
    <3> DEFINE bit == IF timer_ms >= 2 THEN 1 ELSE 0
    <3>1. n \in Nat /\ n + 1 =< F4 /\ BitsSo(edge) = n + 1
      BY <2>0, <2>1, <1>1, <1>4 DEF BitsSo, is_bit_pulse
    <3>2. \A k \in 1 .. n : raw[F4 - n + k] = B[k]
      <4>1. CASE edge = 3
        BY <4>1, <2>0
      <4>2. CASE edge >= 4
        <5>1. BitsSo(edge - 1) = n
          BY <2>0, <2>1, <1>1, <4>2 DEF BitsSo, is_bit_pulse
        <5> QED BY <1>1, <4>2, <5>1 DEF GotBits
      <4> QED BY <4>1, <4>2, <1>1, <1>4
    <3>3. bit = B[n + 1] /\ bit \in {0, 1}
      <4>1. B[edge - 2] \in {0, 1} /\ edge - 2 = n + 1
        <5>1. edge - 2 \in 1 .. F4 /\ edge - 2 = n + 1
          BY <3>1, <1>1
        <5>2. message \in Messages
          BY QueueTypes
        <5> QED BY <5>1, <5>2, BitsIs
      <4> QED BY <1>1, <2>1, <4>1
    <3>4. raw' = Append(Tail(raw), bit)
      BY <1>1, <1>2, <2>1, IsrIs
    <3> HIDE DEF bit, F4, n, B
    <3>5. /\ \A k \in 1 .. F4 - 1 : raw'[k] = raw[k + 1]
          /\ raw'[F4] = bit
      BY <2>0, <3>3, <3>4, ShiftIs DEF F4
    <3>6. ASSUME NEW k \in 1 .. n + 1 PROVE raw'[F4 - (n + 1) + k] = B[k]
      <4>1. CASE k = n + 1
        <5>1. F4 - (n + 1) + k = F4
          BY <2>0, <3>1, <4>1
        <5> QED BY <5>1, <4>1, <3>3, <3>5
      <4>2. CASE k \in 1 .. n
        <5>1. /\ F4 - (n + 1) + k \in 1 .. F4 - 1
              /\ (F4 - (n + 1) + k) + 1 = F4 - n + k
          BY <2>0, <3>1, <4>2
        <5> QED BY <5>1, <4>2, <3>2, <3>5
      <4> QED BY <4>1, <4>2, <3>1
    <3>7. BitsSo(edge)' = n + 1
      <4>1. BitsSo(edge)' = BitsSo(edge)
        BY DEF BitsSo
      <4> QED BY <4>1, <3>1
    <3> QED BY <3>6, <3>7, <2>0 DEF GotBits, F4
  <2>2. CASE ~is_bit_pulse(edge)
    <3>1. edge > LAST
      BY <2>2, <1>1, <1>4, EarlyPulse DEF is_bit_pulse
    <3>2. raw' = raw
      BY <1>1, <1>2, <2>2, IsrIs
    <3>3. BitsSo(edge - 1) = F4 /\ BitsSo(edge)' = F4 /\ edge >= 4
      BY <3>1, <1>1, EarlyPulse DEF BitsSo
    <3> QED BY <1>1, <3>2, <3>3 DEF GotBits
  <2> QED BY <2>1, <2>2
<1> QED BY <1>3, <1>4

(* With all the bits of the message in, the command that is put is the one  *)
(* the remote sends.                                                        *)
LEMMA DecodedIs ==
    ASSUME IInv, isr_pulse, edge' = edge, message' = message, GotBits(edge)',
           edge \in Nat, edge >= LAST
    PROVE  decoded_cmd(raw') = message[2]
<1> DEFINE F4 == 4 * FIELD  B == Bits(message)
<1>1. BitsSo(edge)' = F4
  BY EarlyPulse DEF BitsSo
<1>2. F4 \in Nat /\ FIELD \in Nat /\ F4 = 4 * FIELD
  BY ConstantsAre
<1>3. \A k \in 1 .. F4 : raw'[F4 - F4 + k] = B[k]
  BY <1>1 DEF GotBits
<1> HIDE DEF B
<1>4. \A k \in 1 .. F4 : raw'[k] = B[k]
  <2> HIDE DEF F4
  <2>1. ASSUME NEW k \in 1 .. F4 PROVE F4 - F4 + k = k
    BY <1>2
  <2> QED BY <1>3, <2>1
<1>5. \A k \in 1 .. FIELD : raw'[2 * FIELD + k] = B[2 * FIELD + k]
  <2>1. \A k \in 1 .. FIELD : 2 * FIELD + k \in 1 .. F4
    BY <1>2
  <2> QED BY <1>4, <2>1
<1>6. decoded_cmd(raw') = decoded_cmd(B)
  BY <1>5 DEF decoded_cmd
<1> QED BY <1>6, QueueTypes, BitsIs DEF B

LEMMA IsrPort2Inv ==
    ASSUME Use, IInv, IsrPort2
    PROVE  IInv'
<1>1. /\ ifg /\ isr_pulse /\ ifg' = FALSE /\ UNCHANGED <<ie, pc, cmd, received>>
      /\ edge' = edge /\ message' = message /\ noise' = noise /\ pressed' = pressed
      /\ edge \in Nat
  BY DEF IsrPort2, remote, IInv, TypeOK
<1>2. /\ edge = 0 => pulse_count' =< noise
      /\ edge = 1 => pulse_count' = 1
      /\ edge >= 2 => pulse_count' = edge /\ (edge >= 3 => GotBits(edge)')
  <2>1. CASE edge = 0
    <3>1. pulse_count < noise /\ noise \in Nat /\ pulse_count \in Nat /\ noise < UINT16
      BY <1>1, <2>1, EarlyPulse, ConstantsAre DEF IInv, DecoderInv, PendingInv, TypeOK, Use, UINT16
    <3>2. NextCount = pulse_count + 1
      BY <3>1 DEF NextCount, UINT16
    <3> QED BY <1>1, <2>1, <3>1, <3>2, IsrIs
  <2>2. CASE edge = 1
    <3>1. pulse_count = 0 \/ ~Valid
      BY <1>1, <2>2 DEF IInv, DecoderInv, PendingInv
    <3>2. pulse_count = 0 => NextCount = 1
      BY DEF NextCount, UINT16
    <3> QED BY <1>1, <2>2, <3>1, <3>2, IsrIs
  <2>3. CASE edge >= 2
    BY <1>1, <2>3, PulseIs
  <2> QED BY <2>1, <2>2, <2>3, <1>1
<1>3. is_message_pulse(pulse_count') <=> is_message_pulse(edge)
  <2>1. CASE edge < 2
    <3>1. noise \in Nat /\ noise < LAST /\ pulse_count' \in Nat
      <4>1. pulse_count' \in 0 .. UINT16 - 1
        BY <1>1, IsrIs
      <4>2. noise \in 0 .. MaxNoise /\ MaxNoise < LAST
        BY DEF IInv, TypeOK, Use
      <4> QED BY <4>1, <4>2, ConstantsAre, EarlyPulse DEF UINT16
    <3> QED BY <1>1, <1>2, <2>1, <3>1, EarlyPulse
  <2>2. CASE edge >= 2
    BY <1>2, <2>2
  <2> QED BY <2>1, <2>2, <1>1
<1>4. /\ ir_cmd_buffer' \in IrRing /\ ir_cmd_buffer'.tail = ir_cmd_buffer.tail
      /\ is_message_pulse(edge) =>
            Stored(ir_cmd_buffer') = Append(Stored(ir_cmd_buffer), message[2])
      /\ ~is_message_pulse(edge) => Stored(ir_cmd_buffer') = Stored(ir_cmd_buffer)
  <2>1. ir_cmd_buffer \in IrRing
    BY DEF IInv
  <2>2. CASE is_message_pulse(edge)
    <3>1. edge >= LAST
      BY <2>2, <1>1, EarlyPulse
    <3>2. decoded_cmd(raw') = message[2] /\ message[2] \in Word
      BY <3>1, <1>1, <1>2, EarlyPulse, DecodedIs, QueueTypes
    <3>3. ir_cmd_buffer' = ring_buffer_put(ir_cmd_buffer, message[2])
      BY <2>2, <3>2, <1>1, <1>3, IsrIs
    <3>4. Len(Stored(ir_cmd_buffer)) < IR_CMD_BUFFER_ELEM_CNT - 1
      BY <2>2, <1>1 DEF IInv, QueueInv
    <3> QED BY <2>1, <2>2, <3>2, <3>3, <3>4, StoredPut
  <2>3. CASE ~is_message_pulse(edge)
    BY <2>1, <2>3, <1>1, <1>3, IsrIs
  <2> QED BY <2>2, <2>3
<1>5. TypeOK'
  <2>1. /\ pulse_count' \in 0 .. UINT16 - 1 /\ timer_ms' \in 0 .. TIMER_TIMEOUT_ms
        /\ counting' \in BOOLEAN /\ raw' \in Register
    BY <1>1, IsrIs DEF TIMER_TIMEOUT_ms
  <2>2. /\ ir_cmd_buffer'.buffer \in [0 .. IR_CMD_BUFFER_ELEM_CNT - 1 -> Word]
        /\ ir_cmd_buffer'.size = IR_CMD_BUFFER_ELEM_CNT
        /\ ir_cmd_buffer'.head \in 0 .. IR_CMD_BUFFER_ELEM_CNT - 1
    BY <1>4 DEF IrRing, Slot
  <2> QED BY <2>1, <2>2, <1>1, <1>4 DEF IInv, TypeOK, Register
<1>6. DecoderInv'
  <2>1. EdgeInv'
    BY <1>1 DEF IInv, DecoderInv, EdgeInv
  <2>2. RestInv'
    BY <1>1, <1>2, IsrIs DEF RestInv
  <2>3. PendingInv'
    BY <1>1 DEF PendingInv
  <2> QED BY <2>1, <2>2, <2>3 DEF DecoderInv
<1>7. GetInv' /\ QueueInv'
  <2> DEFINE s == Stored(ir_cmd_buffer)  t == Stored(ir_cmd_buffer')
  <2>1. /\ received \in Seq(Word) /\ InHand \in Seq(Word) /\ s \in Seq(Word) /\ message[2] \in Word
        /\ InHand' = InHand /\ OnItsWay' = <<>>
    BY <1>1, QueueTypes DEF InHand, OnItsWay
  <2>2. GetInv /\ pressed = Line(received, InHand, s, OnItsWay)
    BY DEF IInv, QueueInv
  <2>3. CASE is_message_pulse(edge)
    <3>1. t = Append(s, message[2]) /\ OnItsWay = <<message[2]>>
      BY <1>1, <1>4, <2>3 DEF OnItsWay
    <3> HIDE DEF s, t
    <3>2. t # <<>> /\ (s # <<>> => t[1] = s[1])
      <4>1. s # <<>> => 1 \in 1 .. Len(s)
        BY <2>1, EmptySeq
      <4> QED BY <2>1, <3>1, <4>1, AppendProperties
    <3>3. Line(received, InHand, t, <<>>) = pressed
      BY <2>1, <2>2, <3>1, LinePut
    <3> QED BY <1>1, <2>1, <2>2, <3>2, <3>3 DEF GetInv, QueueInv, s, t
  <2>4. CASE ~is_message_pulse(edge)
    <3>1. t = s /\ OnItsWay = <<>>
      BY <1>4, <2>4 DEF OnItsWay
    <3> QED BY <1>1, <2>1, <2>2, <3>1 DEF GetInv, QueueInv
  <2> QED BY <2>3, <2>4
<1> QED BY <1>1, <1>4, <1>5, <1>6, <1>7 DEF IInv

-----------------------------------------------------------------------------
(* ir_remote_get_cmd.                                                       *)

LEMMA MainDecoder == IInv /\ UNCHANGED mainRest => DecoderInv'
<1> SUFFICES ASSUME IInv, UNCHANGED mainRest PROVE DecoderInv'
  OBVIOUS
<1>1. /\ UNCHANGED <<pulse_count, timer_ms, counting, raw, ifg>>
      /\ UNCHANGED <<edge, message, noise, pressed>>
  BY DEF mainRest, decoder, remote
<1>2. Valid' = Valid
  BY <1>1 DEF Valid, NextCount
<1>3. GotBits(edge)' = GotBits(edge) /\ GotBits(edge - 1)' = GotBits(edge - 1)
  BY <1>1 DEF GotBits, BitsSo
<1>4. EdgeInv' /\ RestInv'
  BY <1>1, <1>3 DEF IInv, DecoderInv, EdgeInv, RestInv
<1>5. PendingInv'
  BY <1>1, <1>2, <1>3 DEF IInv, DecoderInv, PendingInv
<1> QED BY <1>4, <1>5 DEF DecoderInv

LEMMA MainStepInv == IInv /\ MainStep => IInv'
<1> SUFFICES ASSUME IInv, MainStep PROVE IInv'
  OBVIOUS
<1> DEFINE s == Stored(ir_cmd_buffer)
<1>1. UNCHANGED mainRest
  BY DEF MainStep, GetCmd, TestEmpty, Read, Advance, WrapTail, Enable
<1>2. /\ UNCHANGED <<pulse_count, timer_ms, counting, raw, ifg, edge, message, noise, pressed>>
      /\ DecoderInv' /\ OnItsWay' = OnItsWay
  BY <1>1, MainDecoder DEF mainRest, decoder, remote, OnItsWay
<1>3. /\ received \in Seq(Word) /\ s \in Seq(Word) /\ OnItsWay \in Seq(Word)
      /\ ir_cmd_buffer \in IrRing /\ TypeOK /\ GetInv
      /\ pressed = Line(received, InHand, s, OnItsWay)
      /\ IR_CMD_NONE \notin Word
  BY QueueTypes, ConstantsAre DEF IInv, QueueInv
<1>4. CASE GetCmd
  <2>1. /\ pc = "idle" /\ pc' = "test" /\ ie' = FALSE /\ cmd' = IR_CMD_NONE
        /\ UNCHANGED <<ir_cmd_buffer, received>>
    BY <1>4 DEF GetCmd
  <2>2. InHand = <<>> /\ InHand' = <<>>
    BY <2>1 DEF InHand
  <2>3. TypeOK'
    BY <1>2, <1>3, <2>1 DEF TypeOK
  <2> QED BY <1>2, <1>3, <2>1, <2>2, <2>3 DEF IInv, GetInv, QueueInv
<1>5. CASE TestEmpty
  <2>1. /\ pc = "test" /\ UNCHANGED <<ir_cmd_buffer, ie, cmd, received>>
        /\ pc' = (IF ring_buffer_empty(ir_cmd_buffer) THEN "enable" ELSE "read")
    BY <1>5 DEF TestEmpty
  <2>2. InHand = <<>> /\ InHand' = <<>>
    BY <1>3, <2>1 DEF InHand, GetInv
  <2>3. pc' = "read" => s # <<>>
    BY <1>3, <2>1, StoredEmpty DEF TypeOK
  <2>4. TypeOK'
    BY <1>2, <1>3, <2>1 DEF TypeOK
  <2> QED BY <1>2, <1>3, <2>1, <2>2, <2>3, <2>4 DEF IInv, GetInv, QueueInv
<1>6. CASE Read
  <2>1. /\ pc = "read" /\ pc' = "advance" /\ UNCHANGED <<ir_cmd_buffer, ie, received>>
        /\ cmd' \in ring_buffer_peek(ir_cmd_buffer)
    BY <1>6 DEF Read
  <2>2. s # <<>> /\ cmd' = s[1] /\ cmd' \in Word
    <3>1. s # <<>> /\ ir_cmd_buffer.tail < IR_CMD_BUFFER_ELEM_CNT
      BY <1>3, <2>1 DEF GetInv, TypeOK
    <3>2. ring_buffer_peek(ir_cmd_buffer) = {s[1]} /\ s[1] \in Word
      BY <1>3, <3>1, StoredTake
    <3> QED BY <2>1, <3>1, <3>2
  <2>3. InHand = <<>> /\ InHand' = <<>>
    BY <2>1 DEF InHand
  <2>4. TypeOK'
    BY <1>2, <1>3, <2>1, <2>2 DEF TypeOK
  <2> QED BY <1>2, <1>3, <2>1, <2>2, <2>3, <2>4 DEF IInv, GetInv, QueueInv
<1>7. CASE Advance
  <2> DEFINE t == Stored(ir_cmd_buffer')
  <2>1. /\ pc = "advance" /\ pc' = "wrap" /\ UNCHANGED <<ie, cmd, received>>
        /\ ir_cmd_buffer' = [ir_cmd_buffer EXCEPT !.tail = (@ + 1) % UINT8]
    BY <1>7 DEF Advance
  <2>2. s # <<>> /\ cmd = s[1] /\ ir_cmd_buffer.tail < IR_CMD_BUFFER_ELEM_CNT
    BY <1>3, <2>1 DEF GetInv, TypeOK
  <2>3. cmd \in Word /\ ir_cmd_buffer' \in IrRing /\ s = <<cmd>> \o t
    BY <1>3, <2>1, <2>2, StoredTake
  <2>4. t \in Seq(Word)
    BY <2>3, StoredIs
  <2>5. InHand = <<>> /\ InHand' = <<cmd>>
    BY <1>3, <2>1, <2>3 DEF InHand
  <2>6. TypeOK'
    <3>1. /\ ir_cmd_buffer'.buffer \in [Slot -> Word]
          /\ ir_cmd_buffer'.size = IR_CMD_BUFFER_ELEM_CNT
          /\ ir_cmd_buffer'.head \in Slot /\ ir_cmd_buffer'.tail \in 0 .. IR_CMD_BUFFER_ELEM_CNT
      BY <2>3 DEF IrRing
    <3> QED BY <1>2, <1>3, <2>1, <3>1 DEF TypeOK, Slot
  <2>7. Len(t) =< Len(s) /\ Len(t) \in Nat /\ Len(s) \in Nat
    <3> HIDE DEF s, t
    <3>1. <<cmd>> \in Seq(Word) /\ Len(<<cmd>>) = 1
      BY <2>3
    <3>2. Len(s) = Len(<<cmd>>) + Len(t)
      BY <2>3, <2>4, <3>1, ConcatProperties
    <3> QED BY <1>3, <2>4, <3>1, <3>2
  <2>8. pressed = Line(received, <<cmd>>, t, OnItsWay)
    <3> HIDE DEF s, t
    <3>1. Line(received, <<>>, <<cmd>> \o t, OnItsWay) = Line(received, <<cmd>>, t, OnItsWay)
      BY <1>3, <2>3, <2>4, LineTaken
    <3> QED BY <1>3, <2>3, <2>5, <3>1
  <2>9. QueueInv'
    <3>1. ifg /\ is_message_pulse(edge) => Len(s) < IR_CMD_BUFFER_ELEM_CNT - 1
      BY DEF IInv, QueueInv
    <3>2. ifg' /\ is_message_pulse(edge') => Len(t) < IR_CMD_BUFFER_ELEM_CNT - 1
      BY <3>1, <2>7, <1>2, ConstantsAre
    <3> QED BY <1>2, <2>1, <2>5, <2>8, <3>2 DEF QueueInv
  <2>10. GetInv'
    BY <1>3, <2>1, <2>3 DEF GetInv
  <2> QED BY <1>2, <2>3, <2>6, <2>9, <2>10 DEF IInv
<1>8. CASE WrapTail
  <2> DEFINE t == Stored(ir_cmd_buffer')
  <2>1. /\ pc = "wrap" /\ pc' = "enable" /\ UNCHANGED <<ie, cmd, received>>
        /\ ir_cmd_buffer' = [ir_cmd_buffer EXCEPT !.tail = Wrap(@, ir_cmd_buffer.size)]
    BY <1>8 DEF WrapTail
  <2>2. /\ ir_cmd_buffer' \in IrRing /\ ir_cmd_buffer'.tail < IR_CMD_BUFFER_ELEM_CNT
        /\ t = s
    BY <1>3, <2>1, StoredWrap
  <2>3. InHand' = InHand
    BY <2>1 DEF InHand
  <2>4. TypeOK'
    <3>1. /\ ir_cmd_buffer'.buffer \in [Slot -> Word]
          /\ ir_cmd_buffer'.size = IR_CMD_BUFFER_ELEM_CNT
          /\ ir_cmd_buffer'.head \in Slot /\ ir_cmd_buffer'.tail \in 0 .. IR_CMD_BUFFER_ELEM_CNT
      BY <2>2 DEF IrRing
    <3> QED BY <1>2, <1>3, <2>1, <2>2, <3>1 DEF TypeOK, Slot
  <2> QED BY <1>2, <1>3, <2>1, <2>2, <2>3, <2>4 DEF IInv, GetInv, QueueInv
<1>9. CASE Enable
  <2>1. /\ pc = "enable" /\ pc' = "idle" /\ ie' = TRUE /\ UNCHANGED <<ir_cmd_buffer, cmd>>
        /\ received' = (IF cmd = IR_CMD_NONE THEN received ELSE Append(received, cmd))
    BY <1>9 DEF Enable
  <2>2. /\ InHand = (IF cmd = IR_CMD_NONE THEN <<>> ELSE <<cmd>>) /\ InHand' = <<>>
        /\ cmd # IR_CMD_NONE => cmd \in Word
    BY <1>3, <2>1 DEF InHand, TypeOK
  <2>3. received' \in Seq(Word) /\ pressed = Line(received', <<>>, s, OnItsWay)
    <3>1. CASE cmd = IR_CMD_NONE
      BY <1>3, <2>1, <2>2, <3>1
    <3>2. CASE cmd # IR_CMD_NONE
      <4>1. received' = Append(received, cmd) /\ cmd \in Word /\ InHand = <<cmd>>
        BY <2>1, <2>2, <3>2
      <4> HIDE DEF s
      <4>2. Append(received, cmd) \in Seq(Word)
        BY <1>3, <4>1, AppendProperties
      <4>3. Line(Append(received, cmd), <<>>, s, OnItsWay) = Line(received, <<cmd>>, s, OnItsWay)
        BY <1>3, <4>1, LineReturned
      <4> QED BY <1>3, <4>1, <4>2, <4>3
    <3> QED BY <3>1, <3>2
  <2>4. TypeOK'
    BY <1>2, <1>3, <2>1, <2>3 DEF TypeOK
  <2>5. QueueInv'
    BY <1>2, <2>1, <2>2, <2>3 DEF IInv, QueueInv
  <2>6. GetInv'
    BY <2>1 DEF GetInv
  <2> QED BY <1>2, <1>3, <2>1, <2>4, <2>5, <2>6 DEF IInv
<1> QED BY <1>4, <1>5, <1>6, <1>7, <1>8, <1>9 DEF MainStep

-----------------------------------------------------------------------------
LEMMA NextInv == ASSUME Use PROVE IInv /\ [Next]_vars => IInv'
<1> SUFFICES ASSUME IInv, [Next]_vars PROVE IInv'
  OBVIOUS
<1>1. CASE RemoteStep
  BY <1>1, NextPulseInv, NoiseInv, PressKeyInv DEF RemoteStep
<1>2. CASE IsrPort2
  BY <1>2, IsrPort2Inv
<1>3. CASE MainStep
  BY <1>3, MainStepInv
<1>4. CASE UNCHANGED vars
  <2>1. /\ UNCHANGED mainRest /\ UNCHANGED <<ir_cmd_buffer, ie, pc, cmd, received>>
        /\ UNCHANGED <<pulse_count, timer_ms, counting, raw, ifg, edge, message, noise, pressed>>
    BY <1>4 DEF vars, mainRest, decoder, remote
  <2>2. DecoderInv'
    BY <2>1, MainDecoder
  <2>3. TypeOK'
    BY <2>1 DEF IInv, TypeOK
  <2>4. GetInv' /\ QueueInv'
    BY <2>1 DEF IInv, GetInv, QueueInv, InHand, OnItsWay
  <2> QED BY <2>1, <2>2, <2>3, <2>4 DEF IInv
<1> QED BY <1>1, <1>2, <1>3, <1>4 DEF Next

(* Within the use it is made for, the decoder and the queue are as IInv     *)
(* says, for every length of the fields and every size of the queue.        *)
THEOREM Invariant == ASSUME Use PROVE Spec => []IInv
<1>1. IInv /\ [Next]_vars => IInv'
  BY NextInv
<1> QED BY <1>1, InitInv, PTL DEF Spec

(* The types, and with them that neither index leaves the array but for the *)
(* tail between two statements of ring_buffer_get (ring_buffer.c).          *)
THEOREM TypeSafety == ASSUME Use PROVE Spec => []TypeOK
<1>1. IInv => TypeOK
  BY DEF IInv
<1> QED BY <1>1, Invariant, PTL

(* Every command the remote sends is decoded, put into the queue and taken  *)
(* out of it by ir_remote_get_cmd once and in order (ir_remote.c).          *)
THEOREM Kept == ASSUME Use PROVE Spec => []CommandsKept
<1>1. IInv => CommandsKept
  <2> SUFFICES ASSUME IInv, ~ifg PROVE pressed = received \o InHand \o Stored(ir_cmd_buffer)
    BY DEF CommandsKept
  <2>1. pressed = Line(received, InHand, Stored(ir_cmd_buffer), <<>>)
    BY DEF IInv, QueueInv, OnItsWay
  <2> QED BY <2>1, QueueTypes, LineKept
<1> QED BY <1>1, Invariant, PTL

(* With the queue polled in time nothing is returned that was not sent: the *)
(* memory behind the array is read only after a put that drops the oldest.  *)
THEOREM Returned == ASSUME Use PROVE Spec => []ReturnsWhatWasSent
<1>1. IInv => ReturnsWhatWasSent
  <2> SUFFICES ASSUME IInv PROVE ReturnsWhatWasSent
    OBVIOUS
  <2> DEFINE r == received  t == InHand \o Stored(ir_cmd_buffer)  w == OnItsWay
  <2>1. /\ r \in Seq(Word) /\ t \in Seq(Word) /\ w \in Seq(Word) /\ InHand \in Seq(Word)
        /\ Stored(ir_cmd_buffer) \in Seq(Word)
    BY QueueTypes, ConcatProperties
  <2>2. pressed = (r \o t) \o w
    BY <2>1, ConcatAssociative DEF IInv, QueueInv, Line
  <2> HIDE DEF r, t, w
  <2>3. /\ r \o t \in Seq(Word) /\ Len(r \o t) = Len(r) + Len(t)
        /\ \A k \in 1 .. Len(r) : k \in 1 .. Len(r) + Len(t) /\ (r \o t)[k] = r[k]
    BY <2>1, ConcatProperties
  <2>4. /\ Len(pressed) = Len(r \o t) + Len(w)
        /\ \A k \in 1 .. Len(r \o t) :
              k \in 1 .. Len(r \o t) + Len(w) /\ pressed[k] = (r \o t)[k]
    BY <2>1, <2>2, <2>3, ConcatProperties
  <2>5. ASSUME NEW n \in DOMAIN r PROVE n \in DOMAIN pressed /\ r[n] = pressed[n]
    <3>1. n \in 1 .. Len(r) /\ pressed \in Seq(Word)
      BY <2>1, QueueTypes
    <3> QED BY <2>3, <2>4, <3>1
  <2> QED BY <2>5 DEF ReturnsWhatWasSent, r
<1> QED BY <1>1, Invariant, PTL

=============================================================================
