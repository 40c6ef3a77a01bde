----------------------------- MODULE RingBuffer -----------------------------
(***************************************************************************)
(* common/ring_buffer.c: the byte queue the UART driver (tx_buffer) and    *)
(* the IR driver (ir_cmd_buffer) are built on.  A value rb of the type     *)
(* struct ring_buffer is a record                                          *)
(*     [buffer |-> the array, size |-> ., head |-> ., tail |-> .]          *)
(* whose size, head and tail are uint8_t, as in the struct.                *)
(*                                                                         *)
(* The functions are pure operators on that record: whether a call can be  *)
(* interrupted, and by whom, is for the modules that make the calls.       *)
(***************************************************************************)
EXTENDS Naturals

CONSTANT MemoryByte   \* what a byte of RAM next to the array may hold

UINT8 == 256

(* The wrap both indices go through: `if (index == size) index = 0`. *)
Wrap(index, size) == IF index = size THEN 0 ELSE index

EmptyRing(size, fill) ==
    [buffer |-> [i \in 0 .. size - 1 |-> fill],
     size   |-> size, head |-> 0, tail |-> 0]

ring_buffer_empty(rb) == rb.head = rb.tail

(* Mutant: the one slot kept free is forgotten, so a full ring never shows. *)
ring_buffer_full_never(rb) == FALSE

ring_buffer_full(rb) == Wrap((rb.head + 1) % UINT8, rb.size) = rb.tail

(* The head wraps; the tail that makes room in a full ring does not. *)
ring_buffer_put(rb, data) ==
    LET head == Wrap((rb.head + 1) % UINT8, rb.size)
    IN  [rb EXCEPT !.buffer = [@ EXCEPT ![rb.head] = data],
                   !.head = head,
                   !.tail = IF head = rb.tail THEN (rb.tail + 1) % UINT8
                                              ELSE rb.tail]

(* What buffer[tail] may read as: past the end of the array, any byte. *)
ring_buffer_peek(rb) ==
    IF rb.tail \in DOMAIN rb.buffer THEN {rb.buffer[rb.tail]} ELSE MemoryByte

(* The ring after ring_buffer_get; the byte returned is the peeked one. *)
ring_buffer_get(rb) ==
    [rb EXCEPT !.tail = Wrap((rb.tail + 1) % UINT8, rb.size)]

(* The bytes stored, oldest first, when both indices are inside the array. *)
Stored(rb) ==
    [k \in 1 .. ((rb.head + rb.size - rb.tail) % rb.size) |->
        rb.buffer[(rb.tail + k - 1) % rb.size]]

=============================================================================
