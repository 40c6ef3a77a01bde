------------------------------ MODULE IrRemote ------------------------------
(***************************************************************************)
(* drivers/ir_remote.c on the port interrupts of drivers/io.c: the decoder *)
(* of the remote control's pulses and the queue of commands it feeds.  The *)
(* pin has an interrupt on the LAUNCHPAD only, which this module is about. *)
(*                                                                         *)
(* isr_pulse and isr_timer_a0 never nest and are one step each; a pulse    *)
(* waits for its handler for microseconds, so no millisecond passes while  *)
(* one is pending.  ir_remote_get_cmd masks the pin, but io_isr looks at   *)
(* the flag only, and serves the pin whenever another pin of the port      *)
(* interrupts; so its statements are steps the handler may come between.   *)
(***************************************************************************)
EXTENDS RingBuffer, Sequences

CONSTANTS
    FIELD,          \* bits of the address and of the command: 8 in the code
    IR_CMD_BUFFER_ELEM_CNT,
    IR_CMD_NONE,
    Messages,       \* the <<address, command>> pairs the remote can send
    Gap,            \* per kind of pause, the milliseconds it may last
    OtherPins,      \* do other pins of the port interrupt as well
    PollsOften,     \* is the queue polled before it is full
    MaxCommands,    \* bound: commands sent
    MaxNoise        \* bound: spurious pulses

Word == [1 .. FIELD -> {0, 1}]
TIMER_TIMEOUT_ms == 150
UINT16 == 65536

ASSUME FieldAssumption == FIELD \in Nat \ {0}
ASSUME BufferAssumption == IR_CMD_BUFFER_ELEM_CNT \in 2 .. UINT8 - 1
ASSUME MessageAssumption == Messages \subseteq Word \X Word /\ MemoryByte \subseteq Word
                            /\ IR_CMD_NONE \notin Word
ASSUME GapAssumption ==
    /\ DOMAIN Gap = {"lead", "zero", "one", "repeat", "repeat_lead", "next", "pause",
                     "long_pause", "noise", "noise_pause", "silence"}
    /\ \A kind \in DOMAIN Gap : Gap[kind] \subseteq Nat
ASSUME UseAssumption == OtherPins \in BOOLEAN /\ PollsOften \in BOOLEAN
ASSUME BoundAssumption == MaxCommands \in Nat /\ MaxNoise \in Nat

(* The last pulse of a message: a start pulse, a lead-in, and the bits.     *)
LAST == 2 + 4 * FIELD

(* The pauses of the NEC protocol, in milliseconds; a pause before another  *)
(* message, or the first after noise, that is shorter than these lets the   *)
(* decoder take the message for more of the old one.                        *)
Protocol ==
    /\ Gap.lead \subseteq 0 .. 15 /\ Gap.repeat_lead \subseteq 0 .. 15
    /\ Gap.zero \subseteq 0 .. 1 /\ Gap.one \subseteq 2 .. 3
    /\ Gap.repeat \subseteq 0 .. 49 /\ Gap.next \subseteq 0 .. 109
    /\ \A ms \in Gap.pause : ms >= 50
    /\ \A ms \in Gap.long_pause : ms >= 110
    /\ \A ms \in Gap.noise_pause : ms >= 16
    /\ \A ms \in Gap.silence : ms > TIMER_TIMEOUT_ms

(* What the robot is used within: the queue is polled, noise is not as long *)
(* as a message, and no key is held for the 65536 pulses, almost an hour,   *)
(* after which pulse_count starts again.                                    *)
Use ==
    /\ Protocol /\ PollsOften
    /\ MaxNoise < LAST
    /\ LAST + 2 * MaxCommands < UINT16

VARIABLES
    pulse_count, timer_ms,
    counting,       \* TA1 is started
    raw,            \* ir_message.raw, as its bits, most significant first
    ir_cmd_buffer,
    ie, ifg,        \* P2IE and P2IFG of the pin
    pc,             \* the statement of ir_remote_get_cmd, "idle" outside of it
    cmd,            \* its local of that name
    edge, message,  \* the remote: pulses sent of the transmission, and what it is
    noise,          \* spurious pulses so far
    pressed,        \* history: the commands the remote has sent
    received        \* history: the commands ir_remote_get_cmd has returned

decoder == <<pulse_count, timer_ms, counting, raw>>
remote == <<edge, message, noise, pressed>>
vars == <<decoder, ir_cmd_buffer, ie, ifg, pc, cmd, remote, received>>

Odd(n) == n % 2 = 1
Zeros(n) == [k \in 1 .. n |-> 0]

-----------------------------------------------------------------------------
(* The decoder. *)

(* isr_timer_a0 as often as `ms` milliseconds make it run.                  *)
Elapse(ms) ==
    IF ~counting THEN UNCHANGED decoder
    ELSE IF timer_ms + ms <= TIMER_TIMEOUT_ms
    THEN timer_ms' = timer_ms + ms /\ UNCHANGED <<pulse_count, counting, raw>>
    ELSE /\ counting' = FALSE /\ pulse_count' = 0 /\ timer_ms' = 0
         /\ raw' = Zeros(4 * FIELD)

(* Mutant: the repeat codes that follow the first are not let through.      *)
is_valid_pulse_no_repeat(pulse, ms) ==
    CASE pulse = 1            -> ms = 0
      [] pulse = 2            -> ms < 16
      [] pulse \in 3 .. LAST  -> ms < 4
      [] pulse = LAST + 1     -> ms < 50
      [] OTHER                -> ms < 16

is_valid_pulse(pulse, ms) ==
    CASE pulse = 1            -> ms = 0
      [] pulse = 2            -> ms < 16
      [] pulse \in 3 .. LAST  -> ms < 4
      [] pulse = LAST + 1     -> ms < 50
      [] pulse = LAST + 2     -> ms < 16
      [] pulse > LAST + 2     -> ms < IF Odd(pulse) THEN 110 ELSE 16
      [] OTHER                -> FALSE

is_bit_pulse(pulse) == pulse \in 3 .. LAST

is_message_pulse(pulse) == pulse = LAST \/ (pulse > LAST + 2 /\ Odd(pulse))

decoded_cmd(bits) == [k \in 1 .. FIELD |-> bits[2 * FIELD + k]]

isr_pulse ==
    LET pulse == (pulse_count + 1) % UINT16
        valid == is_valid_pulse(pulse, timer_ms)
        bit   == IF timer_ms >= 2 THEN 1 ELSE 0
    IN  /\ pulse_count' = (IF valid THEN pulse ELSE 1)
        /\ raw' = (IF ~valid THEN Zeros(4 * FIELD)
                   ELSE IF is_bit_pulse(pulse) THEN Append(Tail(raw), bit)
                   ELSE raw)
        /\ ir_cmd_buffer' = (IF is_message_pulse(pulse_count')
                             THEN ring_buffer_put(ir_cmd_buffer, decoded_cmd(raw'))
                             ELSE ir_cmd_buffer)
        /\ counting' = TRUE /\ timer_ms' = 0

(* isr_port_2, entered for this pin, or for another of the port whose own   *)
(* handler does not touch this one's state; io_isr looks at the flag and    *)
(* not at the mask.                                                         *)
IsrPort2 ==
    /\ ifg /\ (ie \/ OtherPins)
    /\ isr_pulse /\ ifg' = FALSE
    /\ UNCHANGED <<ie, pc, cmd, remote, received>>

-----------------------------------------------------------------------------
(* The remote control sends the NEC protocol, one pulse after another.      *)

Complement(word) == [k \in 1 .. FIELD |-> 1 - word[k]]
Bits(m) == m[1] \o Complement(m[1]) \o m[2] \o Complement(m[2])

Pulse(ms) == ~ifg /\ ifg' = TRUE /\ Elapse(ms)

(* How long the remote waits before pulse n of a transmission.              *)
GapBefore(n) ==
    CASE n = 2           -> Gap.lead
      [] n \in 3 .. LAST -> IF Bits(message)[n - 2] = 1 THEN Gap.one ELSE Gap.zero
      [] n = LAST + 1    -> Gap.repeat
      [] n > LAST + 1    -> IF Odd(n) THEN Gap.next ELSE Gap.repeat_lead

Sends(command) ==
    /\ Len(pressed) < MaxCommands /\ pressed' = Append(pressed, command)
    /\ PollsOften => Len(Stored(ir_cmd_buffer)) < IR_CMD_BUFFER_ELEM_CNT - 1

(* The key pressed again, or another, once the transmission before is over. *)
PressKey(m) ==
    /\ edge \in {0} \union {LAST} \union {n \in LAST + 2 .. edge : ~Odd(n)}
    /\ Len(pressed) < MaxCommands
    /\ \E ms \in IF edge = 0 THEN Gap.noise_pause
                 ELSE IF edge = LAST THEN Gap.pause ELSE Gap.long_pause : Pulse(ms)
    /\ edge' = 1 /\ message' = m
    /\ UNCHANGED <<ir_cmd_buffer, ie, pc, cmd, noise, pressed, received>>

(* The remote holds the command until its last bit, and again at every      *)
(* repeat code but the first.                                               *)
NextPulse ==
    /\ edge > 0 /\ edge' = edge + 1
    /\ \E ms \in GapBefore(edge + 1) : Pulse(ms)
    /\ IF is_message_pulse(edge + 1) THEN Sends(message[2]) ELSE UNCHANGED pressed
    /\ UNCHANGED <<ir_cmd_buffer, ie, pc, cmd, message, noise, received>>

(* A spurious pulse while the remote is silent and the decoder has rested.  *)
Noise ==
    /\ noise < MaxNoise /\ noise' = noise + 1
    /\ edge \in {0, LAST} \/ (edge > LAST /\ ~Odd(edge))
    /\ \E ms \in IF edge = 0 THEN Gap.noise ELSE Gap.silence : Pulse(ms)
    /\ edge' = 0
    /\ UNCHANGED <<ir_cmd_buffer, ie, pc, cmd, message, pressed, received>>

-----------------------------------------------------------------------------
(* ir_remote_get_cmd. *)
mainRest == <<decoder, ifg, remote>>

(* A pending interrupt is taken before the program's next instruction.      *)
GetCmd ==
    /\ pc = "idle" /\ ~(ie /\ ifg) /\ pc' = "test"
    /\ ie' = FALSE /\ cmd' = IR_CMD_NONE
    /\ UNCHANGED <<mainRest, ir_cmd_buffer, received>>

TestEmpty ==
    /\ pc = "test"
    /\ pc' = (IF ring_buffer_empty(ir_cmd_buffer) THEN "enable" ELSE "read")
    /\ UNCHANGED <<mainRest, ir_cmd_buffer, ie, cmd, received>>

(* ring_buffer_get, whose index is past the end between two statements.     *)
Read ==
    /\ pc = "read" /\ pc' = "advance"
    /\ cmd' \in ring_buffer_peek(ir_cmd_buffer)
    /\ UNCHANGED <<mainRest, ir_cmd_buffer, ie, received>>

Advance ==
    /\ pc = "advance" /\ pc' = "wrap"
    /\ ir_cmd_buffer' = [ir_cmd_buffer EXCEPT !.tail = (@ + 1) % UINT8]
    /\ UNCHANGED <<mainRest, ie, cmd, received>>

(* Mutant: the index is not wrapped. *)
WrapTail_forgotten ==
    /\ pc = "wrap" /\ pc' = "enable"
    /\ UNCHANGED <<mainRest, ir_cmd_buffer, ie, cmd, received>>

WrapTail ==
    /\ pc = "wrap" /\ pc' = "enable"
    /\ ir_cmd_buffer' = [ir_cmd_buffer EXCEPT !.tail = Wrap(@, ir_cmd_buffer.size)]
    /\ UNCHANGED <<mainRest, ie, cmd, received>>

(* Mutant: the pin stays masked. *)
Enable_forgotten ==
    /\ pc = "enable" /\ pc' = "idle"
    /\ received' = (IF cmd = IR_CMD_NONE THEN received ELSE Append(received, cmd))
    /\ UNCHANGED <<mainRest, ir_cmd_buffer, ie, cmd>>

Enable ==
    /\ pc = "enable" /\ pc' = "idle"
    /\ ie' = TRUE
    /\ received' = (IF cmd = IR_CMD_NONE THEN received ELSE Append(received, cmd))
    /\ UNCHANGED <<mainRest, ir_cmd_buffer, cmd>>

-----------------------------------------------------------------------------
(* ir_remote_init has returned; the timer is configured and not started.    *)
Init ==
    /\ pulse_count = 0 /\ timer_ms = 0 /\ counting = FALSE
    /\ raw = Zeros(4 * FIELD)
    /\ ir_cmd_buffer = EmptyRing(IR_CMD_BUFFER_ELEM_CNT, Zeros(FIELD))
    /\ ie = TRUE /\ ifg = FALSE
    /\ pc = "idle" /\ cmd = IR_CMD_NONE
    /\ edge = 0 /\ message \in Messages /\ noise = 0
    /\ pressed = <<>> /\ received = <<>>

RemoteStep == NextPulse \/ Noise \/ \E m \in Messages : PressKey(m)
MainStep == GetCmd \/ TestEmpty \/ Read \/ Advance \/ WrapTail \/ Enable

Next == RemoteStep \/ IsrPort2 \/ MainStep

(* A pending interrupt that is not masked is taken, and the control loop    *)
(* goes on polling, as test_ir_remote and test_drive do.  That another pin  *)
(* interrupts is never promised.                                            *)
Fairness == WF_vars(ie /\ IsrPort2) /\ WF_vars(MainStep)

Spec == Init /\ [][Next]_vars
FairSpec == Spec /\ Fairness

-----------------------------------------------------------------------------
TypeOK ==
    /\ pulse_count \in 0 .. UINT16 - 1 /\ timer_ms \in 0 .. TIMER_TIMEOUT_ms
    /\ counting \in BOOLEAN /\ raw \in [1 .. 4 * FIELD -> {0, 1}]
    /\ ir_cmd_buffer.buffer \in [0 .. IR_CMD_BUFFER_ELEM_CNT - 1 -> Word]
    /\ ir_cmd_buffer.size = IR_CMD_BUFFER_ELEM_CNT
    /\ ir_cmd_buffer.head \in 0 .. IR_CMD_BUFFER_ELEM_CNT - 1
    /\ ir_cmd_buffer.tail \in 0 .. IR_CMD_BUFFER_ELEM_CNT
    /\ pc # "wrap" => ir_cmd_buffer.tail < IR_CMD_BUFFER_ELEM_CNT
    /\ ie \in BOOLEAN /\ ifg \in BOOLEAN
    /\ pc \in {"idle", "test", "read", "advance", "wrap", "enable"}
    /\ cmd \in Word \union {IR_CMD_NONE}
    /\ edge \in Nat /\ message \in Messages /\ noise \in 0 .. MaxNoise
    /\ pressed \in Seq(Word) /\ received \in Seq(Word)

(* The command ir_remote_get_cmd has taken out and not yet returned.        *)
InHand == IF pc \in {"wrap", "enable"} /\ cmd # IR_CMD_NONE THEN <<cmd>> ELSE <<>>

(* Every command the remote sends comes out of ir_remote_get_cmd once, in   *)
(* order, and nothing else does: whatever the timing within the protocol,   *)
(* after noise and after silence, wherever the interrupt finds the queue.   *)
CommandsKept ==
    ~ifg => pressed = received \o InHand \o Stored(ir_cmd_buffer)

(* What is returned has been sent, also when the queue has been full and    *)
(* has dropped some: "If ring buffer is full, remove oldest element"        *)
(* (ring_buffer.c:13).                                                      *)
ReturnsWhatWasSent ==
    \A n \in DOMAIN received : \E k \in DOMAIN pressed : received[n] = pressed[k]

(* A command that has been sent is returned before long.                    *)
CommandsArrive ==
    \A n \in 1 .. MaxCommands : Len(pressed) >= n ~> Len(received) >= n

=============================================================================
