---------------------------- MODULE LineSensors ----------------------------
(***************************************************************************)
(* drivers/adc.c, drivers/qre1113.c and app/line.c: the ADC samples its    *)
(* channels one after the other from the last to 0, the transfer           *)
(* controller stores them, and the interrupt at the end of the sequence    *)
(* copies them to a cache and starts the next.  line_get looks at the      *)
(* cache and says where the white line is.                                 *)
(*                                                                         *)
(* A sample is reduced to whether it is below the threshold of the line,   *)
(* and carries its channel and the number of its sequence.                 *)
(***************************************************************************)
EXTENDS Naturals, FiniteSets

CONSTANTS
    Boards,    \* per board, a function of its sensors' positions to
               \* io_to_adc_idx of their pins
    MaxMoves   \* bound: how often the line comes or goes under a sensor

Positions == {"front_left", "front_right", "back_left", "back_right"}
ASSUME BoardAssumption ==
    /\ \A board \in Boards :
          /\ DOMAIN board \subseteq Positions /\ DOMAIN board # {}
          /\ \A p, q \in DOMAIN board :
                board[p] \in 0 .. 7 /\ (board[p] = board[q] => p = q)
    /\ MaxMoves \in Nat

VARIABLES
    board,    \* the board the program runs on
    white,    \* the channels whose sensor is above the line
    moves,
    since,    \* history: per sensor, the samples taken since that changed
    sampled,  \* samples taken in this sequence
    block,    \* adc_dtc_block
    cache,    \* adc_dtc_block_cache
    round,    \* the number of the sequence, 1 or 2 in turn
    ifg,      \* the sequence is complete
    gie,      \* interrupts are enabled
    pc, i,    \* the statement of the caller, and its index into adc_pins
    values,   \* the caller's array of channel values
    line,     \* what line_get has returned, "none" before and meanwhile
    due       \* history: the sensors above the line, and those not, that had
              \* been so for long when it was called

worldVars == <<board, white, moves>>
adcVars == <<sampled, block, cache, round, ifg>>
callerVars == <<gie, pc, i, values, line, due>>
vars == <<worldVars, since, adcVars, callerVars>>

Pins == {board[p] : p \in DOMAIN board}
last_idx == CHOOSE c \in Pins : \A d \in Pins : d <= c
dtc_channel_cnt == last_idx + 1
Channels == 0 .. last_idx

(* A sequence that has nearly missed a change, and the one after it.        *)
Settled == 2 * dtc_channel_cnt - 1

(* The arrays are 0 before the first sequence: below the threshold.         *)
Zero(c) == [channel |-> c, round |-> 0, low |-> TRUE]

-----------------------------------------------------------------------------
(* The robot moves.                                                         *)
Move(c) ==
    /\ moves < MaxMoves /\ moves' = moves + 1
    /\ white' = IF c \in white THEN white \ {c} ELSE white \union {c}
    /\ since' = [since EXCEPT ![c] = 0]
    /\ UNCHANGED <<board, adcVars, callerVars>>

(* The ADC takes the next channel, and the DTC stores the samples in their  *)
(* order.  What a channel without a sensor reads is never looked at.        *)
Convert ==
    /\ sampled < dtc_channel_cnt /\ sampled' = sampled + 1
    /\ LET c == last_idx - sampled
       IN  block' = [block EXCEPT ![sampled] =
                        [channel |-> c, round |-> round, low |-> c \in white]]
    /\ ifg' = (sampled' = dtc_channel_cnt)
    /\ since' = [c \in Pins |-> IF since[c] < Settled THEN since[c] + 1 ELSE Settled]
    /\ UNCHANGED <<worldVars, cache, round, callerVars>>

(* Mutant: as many samples are copied as there are pins. *)
Copied_pins == [c \in 0 .. Cardinality(Pins) - 1 |-> block[dtc_channel_cnt - 1 - c]]

(* "DTC writes the channel samples in opposite order" *)
Copied == [c \in Channels |-> block[dtc_channel_cnt - 1 - c]]

(* Mutant: one sample is missing. *)
isr_adc10_one_less ==
    /\ ifg /\ gie /\ ifg' = FALSE
    /\ cache' = [Copied EXCEPT ![last_idx] = cache[last_idx]]
    /\ sampled' = 0 /\ round' = 3 - round
    /\ UNCHANGED <<worldVars, since, block, callerVars>>

(* The copy is short against a conversion, and the ADC waits for its end.   *)
isr_adc10 ==
    /\ ifg /\ gie /\ ifg' = FALSE
    /\ cache' = Copied /\ sampled' = 0 /\ round' = 3 - round
    /\ UNCHANGED <<worldVars, since, block, callerVars>>

-----------------------------------------------------------------------------
(* io_adc_pins_arr lists the pins in the order of their channels.           *)
AdcPin(j) == CHOOSE c \in Pins : Cardinality({d \in Pins : d < c}) = j

(* The decision of line_get, in the order of its tests.                     *)
line_get(fl, fr, bl, br) ==
    CASE fl /\ fr                      -> "FRONT"
      [] fl /\ ~fr /\ bl               -> "LEFT"
      [] fl /\ ~fr /\ ~bl /\ br        -> "DIAGONAL_LEFT"
      [] fl /\ ~fr /\ ~bl /\ ~br       -> "FRONT_LEFT"
      [] ~fl /\ fr /\ br               -> "RIGHT"
      [] ~fl /\ fr /\ ~br /\ bl        -> "DIAGONAL_RIGHT"
      [] ~fl /\ fr /\ ~br /\ ~bl       -> "FRONT_RIGHT"
      [] ~fl /\ ~fr /\ bl /\ br        -> "BACK"
      [] ~fl /\ ~fr /\ bl /\ ~br       -> "BACK_LEFT"
      [] ~fl /\ ~fr /\ ~bl /\ br       -> "BACK_RIGHT"
      [] OTHER                         -> "NONE"

-----------------------------------------------------------------------------
(* A pending interrupt comes before the caller's next instruction.          *)
At(statement) == pc = statement /\ ~(ifg /\ gie)

(* Mutant: interrupts stay enabled. *)
Call_enabled ==
    /\ At("idle") /\ pc' = "copy" /\ i' = 0 /\ line' = "none"
    /\ due' = [above |-> {c \in white : since[c] = Settled},
               beside |-> {c \in Pins \ white : since[c] = Settled}]
    /\ UNCHANGED <<worldVars, since, adcVars, gie, values>>

(* line_get to _disable_interrupts in adc_get_channel_values.               *)
Call ==
    /\ At("idle") /\ pc' = "copy" /\ i' = 0 /\ line' = "none" /\ gie' = FALSE
    /\ due' = [above |-> {c \in white : since[c] = Settled},
               beside |-> {c \in Pins \ white : since[c] = Settled}]
    /\ UNCHANGED <<worldVars, since, adcVars, values>>

Copy ==
    /\ At("copy") /\ i < Cardinality(Pins) /\ i' = i + 1
    /\ values' = [values EXCEPT ![AdcPin(i)] = cache[AdcPin(i)]]
    /\ UNCHANGED <<worldVars, since, adcVars, gie, pc, line, due>>

(* What qre1113_get_voltages makes of the values; a field that it leaves    *)
(* alone holds anything.                                                    *)
Below(p) == IF p \in DOMAIN board THEN {values[board[p]].low} ELSE BOOLEAN

(* Mutant: interrupts are not enabled again. *)
Decision_masked ==
    /\ At("copy") /\ i = Cardinality(Pins) /\ pc' = "idle"
    /\ \E fl \in Below("front_left"), fr \in Below("front_right"),
          bl \in Below("back_left"), br \in Below("back_right") :
          line' = line_get(fl, fr, bl, br)
    /\ UNCHANGED <<worldVars, since, adcVars, gie, i, values, due>>

(* _enable_interrupts, and the rest of line_get.                            *)
Decision ==
    /\ At("copy") /\ i = Cardinality(Pins) /\ pc' = "idle" /\ gie' = TRUE
    /\ \E fl \in Below("front_left"), fr \in Below("front_right"),
          bl \in Below("back_left"), br \in Below("back_right") :
          line' = line_get(fl, fr, bl, br)
    /\ UNCHANGED <<worldVars, since, adcVars, i, values, due>>

-----------------------------------------------------------------------------
(* adc_init has started the first sequence.                                 *)
Init ==
    /\ board \in Boards /\ white \in SUBSET Pins /\ moves = 0
    /\ since = [c \in Pins |-> 0]
    /\ block = [c \in Channels |-> Zero(c)] /\ cache = block /\ values = block
    /\ sampled = 0 /\ round = 1 /\ ifg = FALSE /\ gie = TRUE
    /\ pc = "idle" /\ i = 0 /\ line = "none" /\ due = [above |-> {}, beside |-> {}]

Next == (\E c \in Pins : Move(c)) \/ Convert \/ isr_adc10 \/ Call \/ Copy \/ Decision

(* The ADC runs by itself, an interrupt is taken, the caller runs on.       *)
Spec == Init /\ [][Next]_vars
FairSpec ==
    Spec /\ WF_vars(Convert) /\ WF_vars(isr_adc10) /\ WF_vars(Copy \/ Decision)

-----------------------------------------------------------------------------
(* The sensors an answer names.                                             *)
Names ==
    [NONE |-> {}, FRONT |-> {"front_left", "front_right"},
     BACK |-> {"back_left", "back_right"}, LEFT |-> {"front_left", "back_left"},
     RIGHT |-> {"front_right", "back_right"}, FRONT_LEFT |-> {"front_left"},
     FRONT_RIGHT |-> {"front_right"}, BACK_LEFT |-> {"back_left"},
     BACK_RIGHT |-> {"back_right"}, DIAGONAL_LEFT |-> {"front_left", "back_right"},
     DIAGONAL_RIGHT |-> {"front_right", "back_left"}]

SampleType == [channel : Channels, round : 0 .. 2, low : BOOLEAN]
TypeOK ==
    /\ board \in Boards /\ white \subseteq Pins /\ moves \in 0 .. MaxMoves
    /\ since \in [Pins -> 0 .. Settled]
    /\ {block, cache, values} \subseteq [Channels -> SampleType]
    /\ sampled \in 0 .. dtc_channel_cnt /\ round \in {1, 2}
    /\ ifg \in BOOLEAN /\ gie \in BOOLEAN
    /\ pc \in {"idle", "copy"} /\ i \in 0 .. Cardinality(Pins)
    /\ line \in {"none"} \union DOMAIN Names
    /\ due \in [above : SUBSET Pins, beside : SUBSET Pins]

(* The values line_get decides on are samples of one sequence, although the *)
(* interrupt replaces the cache while it reads.                             *)
OneSequence ==
    line # "none" => \A c, d \in Pins : values[c].round = values[d].round

(* On a board with four sensors a line is reported where sensors have seen  *)
(* it in one sequence: every sensor the answer names has, and if no more    *)
(* than two have, it names all of them.  So no pin, channel, place in the   *)
(* arrays or test is mixed up with another.                                 *)
Seen == {p \in DOMAIN board : \E v \in {values[c] : c \in Pins} :
            v.channel = board[p] /\ v.low}
LineWhereSeen ==
    line # "none" /\ DOMAIN board = Positions =>
        /\ OneSequence
        /\ Names[line] \subseteq Seen
        /\ Cardinality(Seen) <= 2 => Names[line] = Seen

(* A sensor that has been above the line, or beside it, for two sequences   *)
(* less one sample when line_get is called is reported so, wherever in the  *)
(* sequence the change fell.  In particular nothing is reported that was    *)
(* never sampled once so many samples have been taken.                      *)
EdgeSeenInTime ==
    line # "none" => /\ \A c \in due.above : values[c].low
                     /\ \A c \in due.beside : ~values[c].low

(* The sampling never stops.                                                *)
KeepsSampling == []<>(sampled = 0) /\ []<>ifg

=============================================================================
