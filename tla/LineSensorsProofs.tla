-------------------------- MODULE LineSensorsProofs --------------------------
(***************************************************************************)
(* The line sensors for any boards: line_get decides on samples of one     *)
(* sequence, names sensors that have seen the line in it, and misses no    *)
(* change that is older than two sequences less one sample.                *)
(***************************************************************************)
EXTENDS LineSensors, FiniteSetTheorems, TLAPS

-----------------------------------------------------------------------------
(* The board, and the order of its pins.                                    *)

LEMMA BoardIs ==
    ASSUME board \in Boards
    PROVE  /\ \A c \in Pins : c \in Nat /\ c =< 7
           /\ IsFiniteSet(Pins)
           /\ last_idx \in Pins /\ \A d \in Pins : d =< last_idx
           /\ last_idx \in Nat
           /\ dtc_channel_cnt = last_idx + 1 /\ dtc_channel_cnt \in Nat
           /\ Settled = 2 * dtc_channel_cnt - 1 /\ Settled \in Nat
           /\ \A c \in Pins : c \in Channels
           /\ Channels = {c \in Nat : c =< last_idx}
<1>1. \A c \in Pins : c \in Nat /\ c =< 7
  BY BoardAssumption DEF Pins
<1>2. IsFiniteSet(Pins)
  <2>1. Pins \in SUBSET Nat /\ 7 \in Nat /\ \A c \in Pins : c =< 7
    BY <1>1
  <2> QED BY <2>1, FS_BoundedSetOfNaturals
<1>3. Pins # {}
  BY BoardAssumption DEF Pins
<1>4. \E c \in Pins : \A d \in Pins : d =< c
  BY <1>1, <1>3
<1>5. last_idx \in Pins /\ \A d \in Pins : d =< last_idx
  BY <1>4 DEF last_idx
<1>6. Settled = 2 * dtc_channel_cnt - 1
  BY DEF Settled
<1> QED BY <1>1, <1>2, <1>5, <1>6 DEF dtc_channel_cnt, Channels

(* The number of pins before c in io_adc_pins_arr.                          *)
Rank(c) == Cardinality({d \in Pins : d < c})

(* adc_pins lists every pin of the board, each at its rank.                 *)
LEMMA RankIs ==
    ASSUME board \in Boards
    PROVE  /\ Cardinality(Pins) \in Nat
           /\ \A c \in Pins : Rank(c) \in Nat /\ Rank(c) < Cardinality(Pins)
           /\ \A c \in Pins : AdcPin(Rank(c)) = c
<1>1. IsFiniteSet(Pins) /\ \A c \in Pins : c \in Nat
  BY BoardIs
<1>2. Cardinality(Pins) \in Nat
  BY <1>1, FS_CardinalityType
<1>3. ASSUME NEW c \in Pins
      PROVE  /\ IsFiniteSet({d \in Pins : d < c})
             /\ Rank(c) \in Nat /\ Rank(c) < Cardinality(Pins)
  <2> DEFINE T == {d \in Pins : d < c}
  <2>1. T \in SUBSET Pins /\ c \notin T
    BY <1>1
  <2>2. IsFiniteSet(T) /\ Cardinality(T) =< Cardinality(Pins)
        /\ Cardinality(Pins) # Cardinality(T)
    BY <1>1, <2>1, FS_Subset
  <2>3. Cardinality(T) \in Nat
    BY <2>2, FS_CardinalityType
  <2> QED BY <1>2, <2>2, <2>3 DEF Rank
<1>4. ASSUME NEW c \in Pins, NEW e \in Pins, c < e
      PROVE  Rank(c) # Rank(e)
  <2> DEFINE T == {d \in Pins : d < c}  U == {d \in Pins : d < e}
  <2>1. T \in SUBSET U /\ c \in U /\ c \notin T
    BY <1>1, <1>4
  <2>2. IsFiniteSet(U)
    BY <1>3
  <2>3. Cardinality(T) # Cardinality(U)
    BY <2>1, <2>2, FS_Subset
  <2> QED BY <2>3 DEF Rank
<1>5. ASSUME NEW c \in Pins PROVE AdcPin(Rank(c)) = c
  <2>1. \A e \in Pins : Rank(e) = Rank(c) => e = c
    BY <1>1, <1>4
  <2>2. AdcPin(Rank(c)) = CHOOSE e \in Pins : Rank(e) = Rank(c)
    BY DEF AdcPin, Rank
  <2> QED BY <2>1, <2>2
<1> QED BY <1>2, <1>3, <1>5

(* A move of the robot and a step of the program leave the board as it is.  *)
LEMMA BoardFixed ==
    ASSUME board' = board
    PROVE  /\ Pins' = Pins /\ last_idx' = last_idx /\ Channels' = Channels
           /\ dtc_channel_cnt' = dtc_channel_cnt /\ Settled' = Settled
           /\ \A c : Rank(c)' = Rank(c)
BY DEF Pins, last_idx, Channels, dtc_channel_cnt, Settled, Rank

-----------------------------------------------------------------------------
(* The decision of line_get.                                                *)

LEMMA ThreeElements ==
    ASSUME NEW T, IsFiniteSet(T), NEW a \in T, NEW b \in T, NEW c \in T,
           a # b, a # c, b # c
    PROVE  ~(Cardinality(T) =< 2)
<1>1. \A U, x : IsFiniteSet(U) /\ x \notin U =>
          IsFiniteSet(U \cup {x}) /\ Cardinality(U \cup {x}) = Cardinality(U) + 1
  BY FS_AddElement
<1> DEFINE A == {a}  B == A \cup {b}  C == B \cup {c}
<1>2. IsFiniteSet(A) /\ Cardinality(A) = 1
  BY FS_Singleton
<1>3. b \notin A /\ c \notin B /\ C \in SUBSET T
  OBVIOUS
<1>4. IsFiniteSet(B) /\ Cardinality(B) = Cardinality(A) + 1
  BY <1>1, <1>2, <1>3
<1>5. Cardinality(C) = Cardinality(B) + 1
  BY <1>1, <1>3, <1>4
<1>6. Cardinality(C) =< Cardinality(T) /\ Cardinality(T) \in Nat
  BY <1>3, FS_Subset, FS_CardinalityType
<1> HIDE DEF A, B, C
<1> QED BY <1>2, <1>4, <1>5, <1>6

(* What it names has seen the line, and is all that has if that is no more  *)
(* than two sensors.                                                        *)
LEMMA NamesLit ==
    ASSUME NEW lit \in SUBSET Positions
    PROVE  LET answer == line_get("front_left" \in lit, "front_right" \in lit,
                                  "back_left" \in lit, "back_right" \in lit)
           IN  /\ answer \in DOMAIN Names
               /\ Names[answer] \subseteq lit
               /\ Cardinality(lit) =< 2 => Names[answer] = lit
<1> DEFINE fl == "front_left" \in lit  fr == "front_right" \in lit
           bl == "back_left" \in lit  br == "back_right" \in lit
           answer == line_get(fl, fr, bl, br)
<1>1. IsFiniteSet(lit)
  <2>1. /\ IsFiniteSet({"front_left"})
        /\ IsFiniteSet({"front_left"} \cup {"front_right"})
    BY FS_Singleton, FS_AddElement
  <2>2. IsFiniteSet(({"front_left"} \cup {"front_right"}) \cup {"back_left"})
    BY <2>1, FS_AddElement
  <2>3. IsFiniteSet((({"front_left"} \cup {"front_right"}) \cup {"back_left"})
                        \cup {"back_right"})
    BY <2>2, FS_AddElement
  <2>4. Positions = (({"front_left"} \cup {"front_right"}) \cup {"back_left"})
                        \cup {"back_right"}
    BY DEF Positions
  <2> QED BY <2>3, <2>4, FS_Subset
<1>2. /\ fl /\ fr => answer = "FRONT"
      /\ fl /\ ~fr /\ bl => answer = "LEFT"
      /\ fl /\ ~fr /\ ~bl /\ br => answer = "DIAGONAL_LEFT"
      /\ fl /\ ~fr /\ ~bl /\ ~br => answer = "FRONT_LEFT"
      /\ ~fl /\ fr /\ br => answer = "RIGHT"
      /\ ~fl /\ fr /\ ~br /\ bl => answer = "DIAGONAL_RIGHT"
      /\ ~fl /\ fr /\ ~br /\ ~bl => answer = "FRONT_RIGHT"
      /\ ~fl /\ ~fr /\ bl /\ br => answer = "BACK"
      /\ ~fl /\ ~fr /\ bl /\ ~br => answer = "BACK_LEFT"
      /\ ~fl /\ ~fr /\ ~bl /\ br => answer = "BACK_RIGHT"
      /\ ~fl /\ ~fr /\ ~bl /\ ~br => answer = "NONE"
  <2> HIDE DEF fl, fr, bl, br
  <2> QED BY DEF line_get
<1>3. /\ answer \in DOMAIN Names
      /\ Names[answer] \subseteq lit
  <2> HIDE DEF answer
  <2> QED BY <1>2 DEF Names
<1>4. ASSUME Cardinality(lit) =< 2 PROVE Names[answer] = lit
  <2>1. /\ ~(fl /\ fr /\ bl) /\ ~(fl /\ fr /\ br)
        /\ ~(fl /\ bl /\ br) /\ ~(fr /\ bl /\ br)
    BY <1>1, <1>4, ThreeElements
  <2>2. \A p \in Positions :
            p \in Names[answer] <=> p \in lit
    <3> HIDE DEF answer
    <3> QED BY <1>2, <2>1 DEF Names, Positions
  <2>3. Names[answer] \subseteq Positions
    BY <1>3
  <2> QED BY <2>2, <2>3
<1> QED BY <1>3, <1>4

-----------------------------------------------------------------------------
(* What the arrays hold.                                                    *)

(* The interrupt flag says that the sequence is complete; what it has       *)
(* stored so far is its own samples, from the last channel downwards; the   *)
(* cache is one earlier sequence, each sample in the place of its channel.  *)
BlockInv ==
    /\ ifg <=> sampled = dtc_channel_cnt
    /\ \A p \in Channels : p < sampled =>
          block[p].round = round /\ block[p].channel = last_idx - p
CacheInv ==
    \A c, d \in Channels : cache[c].round = cache[d].round /\ cache[c].channel = c

(* With the interrupts disabled the caller copies the cache pin by pin.     *)
CopyInv ==
    /\ gie <=> pc = "idle"
    /\ pc = "copy" => /\ line = "none"
                      /\ \A c \in Pins : Rank(c) < i => values[c] = cache[c]

(* A sample is as old as the number of samples since; one that is younger   *)
(* than the last change under its sensor tells where the sensor is.         *)
AgeInv ==
    \A c \in Pins :
        /\ last_idx - c < sampled /\ since[c] >= sampled - (last_idx - c) =>
              (block[last_idx - c].low <=> c \in white)
        /\ since[c] >= sampled + 1 + c => (cache[c].low <=> c \in white)
DueInv ==
    pc = "copy" => /\ \A c \in due.above : cache[c].low
                   /\ \A c \in due.beside : ~cache[c].low

(* What line_get has returned, it has decided on one sequence.              *)
Decided ==
    \E fl \in Below("front_left"), fr \in Below("front_right"),
       bl \in Below("back_left"), br \in Below("back_right") :
        line = line_get(fl, fr, bl, br)
AnswerInv ==
    line # "none" =>
        /\ \A c, d \in Pins : values[c].round = values[d].round /\ values[c].channel = c
        /\ Decided
        /\ \A c \in due.above : values[c].low
        /\ \A c \in due.beside : ~values[c].low

IInv == TypeOK /\ BlockInv /\ CacheInv /\ CopyInv /\ AgeInv /\ DueInv /\ AnswerInv

LEMMA TypesAre ==
    ASSUME TypeOK
    PROVE  /\ board \in Boards
           /\ block \in [Channels -> SampleType] /\ cache \in [Channels -> SampleType]
           /\ values \in [Channels -> SampleType]
           /\ sampled \in Nat /\ sampled =< dtc_channel_cnt
           /\ \A c \in Pins : since[c] \in Nat /\ since[c] =< Settled
           /\ i \in Nat /\ i =< Cardinality(Pins)
<1>1. board \in Boards
  BY DEF TypeOK
<1> QED BY <1>1, BoardIs, RankIs DEF TypeOK

LEMMA LineType ==
    ASSUME NEW fl \in BOOLEAN, NEW fr \in BOOLEAN, NEW bl \in BOOLEAN, NEW br \in BOOLEAN
    PROVE  line_get(fl, fr, bl, br) \in DOMAIN Names /\ line_get(fl, fr, bl, br) # "none"
BY DEF line_get, Names

-----------------------------------------------------------------------------
(* Each step preserves it.                                                  *)

LEMMA MoveStep ==
    ASSUME IInv, NEW c \in Pins, Move(c)
    PROVE  IInv'
<1>1. /\ board' = board /\ board \in Boards /\ UNCHANGED <<adcVars, callerVars>>
      /\ since' = [since EXCEPT ![c] = 0]
      /\ white' = (IF c \in white THEN white \ {c} ELSE white \union {c})
      /\ moves < MaxMoves /\ moves' = moves + 1
  BY DEF Move, IInv, TypeOK
<1>2. /\ sampled \in Nat /\ last_idx \in Nat /\ \A d \in Pins : d \in Nat
      /\ Settled \in Nat /\ since \in [Pins -> 0 .. Settled]
  BY <1>1, BoardIs, TypesAre DEF IInv, TypeOK
<1>3. TypeOK'
  <2>1. since' \in [Pins -> 0 .. Settled] /\ white' \subseteq Pins /\ moves' \in 0 .. MaxMoves
    BY <1>1, <1>2, BoardAssumption DEF IInv, TypeOK
  <2> QED BY <1>1, <2>1, BoardFixed DEF IInv, TypeOK, adcVars, callerVars, SampleType
<1>4. BlockInv' /\ CacheInv'
  BY <1>1, BoardFixed DEF IInv, BlockInv, CacheInv, adcVars
<1>5. CopyInv' /\ DueInv'
  BY <1>1, BoardFixed DEF IInv, CopyInv, DueInv, adcVars, callerVars
<1>6. AgeInv'
  <2> SUFFICES ASSUME NEW d \in Pins
               PROVE  /\ last_idx - d < sampled /\ since'[d] >= sampled - (last_idx - d) =>
                            (block[last_idx - d].low <=> d \in white')
                      /\ since'[d] >= sampled + 1 + d => (cache[d].low <=> d \in white')
    BY <1>1, BoardFixed DEF AgeInv, adcVars
  <2>1. CASE d = c
    BY <1>1, <1>2, <2>1
  <2>2. CASE d # c
    <3>1. since'[d] = since[d] /\ (d \in white' <=> d \in white)
      BY <1>1, <1>2, <2>2
    <3> QED BY <3>1 DEF IInv, AgeInv
  <2> QED BY <2>1, <2>2
<1>7. AnswerInv'
  BY <1>1, BoardFixed DEF IInv, AnswerInv, Decided, Below, adcVars, callerVars
<1> QED BY <1>3, <1>4, <1>5, <1>6, <1>7 DEF IInv

LEMMA ConvertStep ==
    ASSUME IInv, Convert
    PROVE  IInv'
<1> DEFINE s == last_idx - sampled
           sample == [channel |-> s, round |-> round, low |-> s \in white]
<1>1. /\ UNCHANGED <<board, white, moves, cache, round, callerVars>> /\ board \in Boards
      /\ sampled < dtc_channel_cnt /\ sampled' = sampled + 1
      /\ block' = [block EXCEPT ![sampled] = sample]
      /\ ifg' = (sampled' = dtc_channel_cnt)
      /\ since' = [c \in Pins |-> IF since[c] < Settled THEN since[c] + 1 ELSE Settled]
  BY DEF Convert, IInv, TypeOK, worldVars
<1>2. /\ sampled \in Nat /\ last_idx \in Nat /\ dtc_channel_cnt = last_idx + 1
      /\ \A d \in Pins : d \in Nat /\ d =< last_idx
      /\ Channels = {c \in Nat : c =< last_idx}
      /\ Settled \in Nat /\ \A d \in Pins : since[d] \in Nat /\ since[d] =< Settled
      /\ block \in [Channels -> SampleType]
  BY <1>1, BoardIs, TypesAre DEF IInv
<1>3. sampled \in Channels /\ s \in Channels
  BY <1>1, <1>2
<1>4. sample \in SampleType
  BY <1>3 DEF IInv, TypeOK, SampleType
<1>5. /\ block'[sampled] = sample
      /\ \A p \in Channels : p # sampled => block'[p] = block[p]
      /\ block' \in [Channels -> SampleType]
  BY <1>1, <1>2, <1>3, <1>4
<1>6. sample.channel = s /\ sample.round = round /\ (sample.low <=> s \in white)
  OBVIOUS
<1> HIDE DEF sample
<1>7. TypeOK'
  <2>1. since' \in [Pins -> 0 .. Settled]
    BY <1>1, <1>2
  <2>2. sampled' \in 0 .. dtc_channel_cnt /\ ifg' \in BOOLEAN
    BY <1>1, <1>2
  <2> QED BY <1>1, <1>5, <2>1, <2>2, BoardFixed DEF IInv, TypeOK, callerVars, SampleType
<1>8. BlockInv'
  <2>1. \A p \in Channels : p < sampled' =>
            block'[p].round = round /\ block'[p].channel = last_idx - p
    <3> SUFFICES ASSUME NEW p \in Channels, p < sampled + 1
                 PROVE  block'[p].round = round /\ block'[p].channel = last_idx - p
      BY <1>1
    <3>1. CASE p = sampled
      BY <1>5, <1>6, <3>1
    <3>2. CASE p # sampled
      <4>1. p < sampled
        BY <1>2, <3>2
      <4> QED BY <1>5, <3>2, <4>1 DEF IInv, BlockInv
    <3> QED BY <3>1, <3>2
  <2> QED BY <1>1, <2>1, BoardFixed DEF BlockInv
<1>9. CacheInv' /\ CopyInv' /\ DueInv'
  BY <1>1, BoardFixed DEF IInv, CacheInv, CopyInv, DueInv, callerVars
<1>10. AgeInv'
  <2> SUFFICES ASSUME NEW d \in Pins
               PROVE  /\ last_idx - d < sampled' /\ since'[d] >= sampled' - (last_idx - d) =>
                            (block'[last_idx - d].low <=> d \in white)
                      /\ since'[d] >= sampled' + 1 + d => (cache[d].low <=> d \in white)
    BY <1>1, BoardFixed DEF AgeInv
  <2>1. since'[d] =< since[d] + 1 /\ since'[d] \in Nat
    BY <1>1, <1>2
  <2>2. PICK t \in Nat : t = since'[d]
    BY <2>1
  <2>3. /\ d \in Nat /\ d =< last_idx /\ since[d] \in Nat /\ last_idx - d \in Channels
    BY <1>2
  <2>4. ASSUME last_idx - d < sampled + 1, t >= sampled + 1 - (last_idx - d)
        PROVE  block'[last_idx - d].low <=> d \in white
    <3>1. CASE last_idx - d = sampled
      <4>1. s = d
        BY <1>2, <2>3, <3>1
      <4> QED BY <1>5, <1>6, <3>1, <4>1
    <3>2. CASE last_idx - d # sampled
      <4>1. last_idx - d < sampled /\ since[d] >= sampled - (last_idx - d)
        BY <1>2, <2>1, <2>2, <2>3, <2>4, <3>2
      <4> QED BY <1>5, <2>3, <3>2, <4>1 DEF IInv, AgeInv
    <3> QED BY <3>1, <3>2
  <2>5. ASSUME t >= sampled + 1 + 1 + d
        PROVE  cache[d].low <=> d \in white
    <3>1. since[d] >= sampled + 1 + d
      BY <1>2, <2>1, <2>2, <2>3, <2>5
    <3> QED BY <3>1 DEF IInv, AgeInv
  <2>6. sampled' = sampled + 1 /\ since'[d] = t
    BY <1>1, <2>2
  <2>7. last_idx - d < sampled' /\ since'[d] >= sampled' - (last_idx - d) =>
            (block'[last_idx - d].low <=> d \in white)
    <3> SUFFICES ASSUME last_idx - d < sampled', since'[d] >= sampled' - (last_idx - d)
                 PROVE  block'[last_idx - d].low <=> d \in white
      OBVIOUS
    <3>1. last_idx - d < sampled + 1 /\ t >= sampled + 1 - (last_idx - d)
      BY <1>2, <2>3, <2>6
    <3> QED BY <2>4, <3>1
  <2>8. since'[d] >= sampled' + 1 + d => (cache[d].low <=> d \in white)
    BY <2>5, <2>6
  <2> QED BY <2>7, <2>8
<1>11. AnswerInv'
  BY <1>1, BoardFixed DEF IInv, AnswerInv, Decided, Below, callerVars
<1> QED BY <1>7, <1>8, <1>9, <1>10, <1>11 DEF IInv

LEMMA IsrStep ==
    ASSUME IInv, isr_adc10
    PROVE  IInv'
<1>1. /\ UNCHANGED <<board, white, moves, since, block, callerVars>> /\ board \in Boards
      /\ ifg /\ gie /\ ifg' = FALSE /\ sampled' = 0 /\ round' = 3 - round
      /\ cache' = [c \in Channels |-> block[dtc_channel_cnt - 1 - c]]
  BY DEF isr_adc10, Copied, IInv, TypeOK, worldVars
<1>2. /\ last_idx \in Nat /\ dtc_channel_cnt = last_idx + 1
      /\ \A d \in Pins : d \in Nat /\ d =< last_idx
      /\ Channels = {c \in Nat : c =< last_idx}
      /\ \A d \in Pins : since[d] \in Nat
      /\ block \in [Channels -> SampleType]
      /\ sampled = dtc_channel_cnt
  BY <1>1, BoardIs, TypesAre DEF IInv, BlockInv
<1>3. \A c \in Channels : last_idx - c \in Channels /\ cache'[c] = block[last_idx - c]
  BY <1>1, <1>2
<1>4. cache' \in [Channels -> SampleType]
  BY <1>1, <1>2, <1>3
<1>5. TypeOK'
  <2>1. sampled' \in 0 .. dtc_channel_cnt /\ round' \in {1, 2}
    BY <1>1, <1>2 DEF IInv, TypeOK
  <2> QED BY <1>1, <1>4, <2>1, BoardFixed DEF IInv, TypeOK, callerVars, SampleType
<1>6. BlockInv'
  BY <1>1, <1>2, BoardFixed DEF BlockInv
<1>7. CacheInv'
  <2>1. \A c \in Channels : cache'[c].round = round /\ cache'[c].channel = c
    <3> SUFFICES ASSUME NEW c \in Channels
                 PROVE  cache'[c].round = round /\ cache'[c].channel = c
      OBVIOUS
    <3>1. last_idx - c \in Channels /\ last_idx - c < sampled /\ last_idx - (last_idx - c) = c
      BY <1>2
    <3> QED BY <1>3, <3>1 DEF IInv, BlockInv
  <2> QED BY <1>1, <2>1, BoardFixed DEF CacheInv
<1>8. pc = "idle" /\ pc' = "idle" /\ CopyInv' /\ DueInv'
  BY <1>1, BoardFixed DEF IInv, CopyInv, DueInv, callerVars
<1>9. AgeInv'
  <2> SUFFICES ASSUME NEW d \in Pins
               PROVE  /\ ~(last_idx - d < 0)
                      /\ since[d] >= 0 + 1 + d => (cache'[d].low <=> d \in white)
    BY <1>1, BoardFixed DEF AgeInv
  <2>1. d \in Nat /\ d =< last_idx /\ d \in Channels /\ since[d] \in Nat
    BY <1>2
  <2>2. ASSUME since[d] >= 0 + 1 + d PROVE cache'[d].low <=> d \in white
    <3>1. last_idx - d < sampled /\ since[d] >= sampled - (last_idx - d)
      BY <1>2, <2>1, <2>2
    <3> QED BY <1>3, <2>1, <3>1 DEF IInv, AgeInv
  <2> QED BY <1>2, <2>1, <2>2
<1>10. AnswerInv'
  BY <1>1, BoardFixed DEF IInv, AnswerInv, Decided, Below, callerVars
<1> QED BY <1>5, <1>6, <1>7, <1>8, <1>9, <1>10 DEF IInv

LEMMA CallStep ==
    ASSUME IInv, Call
    PROVE  IInv'
<1>1. /\ UNCHANGED <<worldVars, since, adcVars, values>> /\ board' = board /\ board \in Boards
      /\ pc = "idle" /\ pc' = "copy" /\ i' = 0 /\ line' = "none" /\ gie' = FALSE
      /\ ~ifg /\ gie
      /\ due' = [above |-> {c \in white : since[c] = Settled},
                 beside |-> {c \in Pins \ white : since[c] = Settled}]
  BY DEF Call, At, IInv, TypeOK, worldVars, CopyInv
<1>2. /\ due'.above = {c \in white : since[c] = Settled}
      /\ due'.beside = {c \in Pins \ white : since[c] = Settled}
  BY <1>1
<1>3. TypeOK'
  <2>1. white \subseteq Pins
    BY DEF IInv, TypeOK
  <2>2. due' \in [above : SUBSET Pins, beside : SUBSET Pins]
    BY <1>1, <2>1
  <2>3. i' \in 0 .. Cardinality(Pins)
    BY <1>1, RankIs
  <2> QED BY <1>1, <2>2, <2>3, BoardFixed DEF IInv, TypeOK, worldVars, adcVars, SampleType
<1>4. BlockInv' /\ CacheInv' /\ AgeInv'
  BY <1>1, BoardFixed DEF IInv, BlockInv, CacheInv, AgeInv, worldVars, adcVars
<1>5. CopyInv'
  BY <1>1, RankIs, BoardFixed DEF CopyInv
<1>6. DueInv'
  <2>1. \A c \in Pins : since[c] = Settled => (cache[c].low <=> c \in white)
    <3> SUFFICES ASSUME NEW c \in Pins, since[c] = Settled
                 PROVE  cache[c].low <=> c \in white
      OBVIOUS
    <3>1. /\ c \in Nat /\ c =< last_idx /\ last_idx \in Nat /\ dtc_channel_cnt = last_idx + 1
          /\ Settled = 2 * dtc_channel_cnt - 1
          /\ sampled \in Nat /\ sampled =< dtc_channel_cnt
      BY <1>1, BoardIs, TypesAre DEF IInv
    <3>2. sampled # dtc_channel_cnt
      BY <1>1 DEF IInv, BlockInv
    <3>3. since[c] >= sampled + 1 + c
      BY <3>1, <3>2
    <3> QED BY <3>3 DEF IInv, AgeInv
  <2>2. white \subseteq Pins /\ cache' = cache
    BY <1>1 DEF IInv, TypeOK, adcVars
  <2> QED BY <1>2, <2>1, <2>2 DEF DueInv
<1>7. AnswerInv'
  BY <1>1 DEF AnswerInv
<1> QED BY <1>3, <1>4, <1>5, <1>6, <1>7 DEF IInv

LEMMA CopyStep ==
    ASSUME IInv, Copy
    PROVE  IInv'
<1>1. /\ UNCHANGED <<worldVars, since, adcVars, gie, pc, line, due>>
      /\ board' = board /\ board \in Boards
      /\ pc = "copy" /\ i < Cardinality(Pins) /\ i' = i + 1
      /\ values' = [values EXCEPT ![AdcPin(i)] = cache[AdcPin(i)]]
  BY DEF Copy, At, IInv, TypeOK, worldVars
<1>2. /\ values \in [Channels -> SampleType] /\ cache \in [Channels -> SampleType]
      /\ i \in Nat /\ Cardinality(Pins) \in Nat /\ \A c \in Pins : c \in Channels
  BY <1>1, BoardIs, TypesAre, RankIs DEF IInv
<1>3. TypeOK'
  <2>1. values' \in [Channels -> SampleType]
    BY <1>1, <1>2
  <2>2. i' \in 0 .. Cardinality(Pins)
    BY <1>1, <1>2
  <2> QED BY <1>1, <2>1, <2>2, BoardFixed DEF IInv, TypeOK, worldVars, adcVars, SampleType
<1>4. BlockInv' /\ CacheInv' /\ AgeInv' /\ DueInv'
  BY <1>1, BoardFixed DEF IInv, BlockInv, CacheInv, AgeInv, DueInv, worldVars, adcVars
<1>5. CopyInv'
  <2>1. \A c \in Pins : Rank(c) < i + 1 => values'[c] = cache[c]
    <3> SUFFICES ASSUME NEW c \in Pins, Rank(c) < i + 1 PROVE values'[c] = cache[c]
      OBVIOUS
    <3>1. Rank(c) \in Nat /\ AdcPin(Rank(c)) = c
      BY <1>1, RankIs
    <3>2. CASE Rank(c) = i
      BY <1>1, <1>2, <3>1, <3>2
    <3>3. CASE Rank(c) < i
      <4>1. values[c] = cache[c]
        BY <1>1, <3>3 DEF IInv, CopyInv
      <4> QED BY <1>1, <1>2, <4>1
    <3> QED BY <1>2, <3>1, <3>2, <3>3
  <2>2. \A c \in Pins : Rank(c) < i' => values'[c] = cache'[c]
    BY <1>1, <2>1 DEF adcVars
  <2> QED BY <1>1, <2>2, BoardFixed DEF IInv, CopyInv
<1>6. AnswerInv'
  BY <1>1 DEF IInv, CopyInv, AnswerInv
<1> QED BY <1>3, <1>4, <1>5, <1>6 DEF IInv

LEMMA DecisionStep ==
    ASSUME IInv, Decision
    PROVE  IInv'
<1>1. /\ UNCHANGED <<worldVars, since, adcVars, i, values, due>>
      /\ board' = board /\ board \in Boards
      /\ pc = "copy" /\ i = Cardinality(Pins) /\ pc' = "idle" /\ gie' = TRUE
  BY DEF Decision, At, IInv, TypeOK, worldVars
<1>2. \E fl \in Below("front_left"), fr \in Below("front_right"),
         bl \in Below("back_left"), br \in Below("back_right") :
          line' = line_get(fl, fr, bl, br)
  BY DEF Decision
<1>3. \A p : Below(p) \subseteq BOOLEAN
  <2>1. values \in [Channels -> SampleType] /\ \A p \in DOMAIN board : board[p] \in Channels
    BY <1>1, BoardIs, TypesAre DEF IInv, Pins
  <2> QED BY <2>1 DEF Below, SampleType
<1>4. line' \in DOMAIN Names
  BY <1>2, <1>3, LineType
<1>5. TypeOK'
  BY <1>1, <1>4, BoardFixed DEF IInv, TypeOK, worldVars, adcVars, SampleType
<1>6. BlockInv' /\ CacheInv' /\ AgeInv'
  BY <1>1, BoardFixed DEF IInv, BlockInv, CacheInv, AgeInv, worldVars, adcVars
<1>7. CopyInv' /\ DueInv'
  BY <1>1 DEF CopyInv, DueInv
<1>8. \A c \in Pins : values[c] = cache[c]
  BY <1>1, RankIs DEF IInv, CopyInv
<1>9. AnswerInv'
  <2>1. \A c, d \in Pins : values[c].round = values[d].round /\ values[c].channel = c
    BY <1>1, <1>8, BoardIs DEF IInv, CacheInv
  <2>2. Decided'
    BY <1>1, <1>2 DEF Decided, Below
  <2>3. /\ \A c \in due.above : values[c].low
        /\ \A c \in due.beside : ~values[c].low
    <3>1. due.above \subseteq Pins /\ due.beside \subseteq Pins
      BY DEF IInv, TypeOK
    <3> QED BY <1>1, <1>8, <3>1 DEF IInv, DueInv
  <2> QED BY <1>1, <2>1, <2>2, <2>3, BoardFixed DEF AnswerInv
<1> QED BY <1>5, <1>6, <1>7, <1>9 DEF IInv

LEMMA Initially == Init => IInv
<1> SUFFICES ASSUME Init PROVE IInv
  OBVIOUS
<1>1. board \in Boards
  BY DEF Init
<1>2. /\ \A c \in Pins : c \in Nat /\ c =< last_idx
      /\ last_idx \in Nat /\ dtc_channel_cnt = last_idx + 1 /\ Settled \in Nat
      /\ Channels = {c \in Nat : c =< last_idx} /\ Cardinality(Pins) \in Nat
  BY <1>1, BoardIs, RankIs
<1>3. /\ block = [c \in Channels |-> Zero(c)] /\ cache = block /\ values = block
      /\ \A c \in Channels : Zero(c) \in SampleType
      /\ \A c \in Channels : Zero(c).round = 0 /\ Zero(c).channel = c
  BY DEF Init, Zero, SampleType
<1>4. TypeOK
  <2>1. block \in [Channels -> SampleType]
    BY <1>3
  <2>2. since \in [Pins -> 0 .. Settled] /\ moves \in 0 .. MaxMoves
    BY <1>2, BoardAssumption DEF Init
  <2>3. sampled \in 0 .. dtc_channel_cnt /\ i \in 0 .. Cardinality(Pins)
    BY <1>2 DEF Init
  <2> QED BY <1>3, <2>1, <2>2, <2>3 DEF Init, TypeOK
<1>5. BlockInv
  BY <1>2 DEF Init, BlockInv
<1>6. CacheInv
  BY <1>3 DEF CacheInv
<1>7. AgeInv
  BY <1>2 DEF Init, AgeInv
<1> QED BY <1>4, <1>5, <1>6, <1>7 DEF Init, IInv, CopyInv, DueInv, AnswerInv

(* Every step of the converter, the interrupt and the caller keeps the      *)
(* invariant.                                                               *)
THEOREM Invariant == Spec => []IInv
<1>1. IInv /\ [Next]_vars => IInv'
  <2> SUFFICES ASSUME IInv, [Next]_vars PROVE IInv'
    OBVIOUS
  <2>1. CASE UNCHANGED vars
    <3>1. board' = board
      BY <2>1 DEF vars, worldVars
    <3> QED BY <2>1, <3>1, BoardFixed
            DEF vars, worldVars, adcVars, callerVars, IInv, TypeOK, SampleType,
                BlockInv, CacheInv, CopyInv, AgeInv, DueInv, AnswerInv, Decided,
                Below
  <2> QED BY <2>1, MoveStep, ConvertStep, IsrStep, CallStep, CopyStep, DecisionStep
          DEF Next
<1> QED BY <1>1, Initially, PTL DEF Spec

(* The indices stay inside the arrays of the ADC and of its caller, for any *)
(* sensors on any channels.                                                 *)
THEOREM TypeSafety == Spec => []TypeOK
<1>1. IInv => TypeOK
  BY DEF IInv
<1> QED BY <1>1, Invariant, PTL

(* line_get decides on one sequence of samples, although the interrupt      *)
(* replaces the cache while it reads (adc.c:78-88), and names the sensors   *)
(* that have seen the line in it (line.c:5-57).                             *)
THEOREM NamesWhatSaw == Spec => []LineWhereSeen
<1>1. IInv => LineWhereSeen
  <2> SUFFICES ASSUME IInv, line # "none", DOMAIN board = Positions
               PROVE  /\ OneSequence
                      /\ Names[line] \subseteq Seen
                      /\ Cardinality(Seen) <= 2 => Names[line] = Seen
    BY DEF LineWhereSeen
  <2>1. /\ \A c, d \in Pins : values[c].round = values[d].round /\ values[c].channel = c
        /\ Decided
    BY DEF IInv, AnswerInv
  <2>2. OneSequence
    BY <2>1 DEF OneSequence
  <2>3. /\ \A p \in Positions : board[p] \in Pins
        /\ \A p, q \in Positions : board[p] = board[q] => p = q
    BY BoardAssumption DEF IInv, TypeOK, Pins
  <2>4. \A p \in Positions : p \in Seen <=> values[board[p]].low
    <3> SUFFICES ASSUME NEW p \in Positions PROVE p \in Seen <=> values[board[p]].low
      OBVIOUS
    <3>1. \A c \in Pins : values[c].channel = board[p] => c = board[p]
      BY <2>1
    <3>2. values[board[p]].channel = board[p] /\ board[p] \in Pins
      BY <2>1, <2>3
    <3>3. p \in Seen <=> \E c \in Pins : values[c].channel = board[p] /\ values[c].low
      BY DEF Seen
    <3> QED BY <3>1, <3>2, <3>3
  <2>5. Seen \in SUBSET Positions
    BY DEF Seen
  <2>6. line = line_get("front_left" \in Seen, "front_right" \in Seen,
                        "back_left" \in Seen, "back_right" \in Seen)
    <3>1. \A p \in Positions : Below(p) = {values[board[p]].low}
      BY DEF Below
    <3>2. line = line_get(values[board["front_left"]].low, values[board["front_right"]].low,
                          values[board["back_left"]].low, values[board["back_right"]].low)
      BY <2>1, <3>1 DEF Decided, Positions
    <3>3. \A p \in Positions : values[board[p]].low = (p \in Seen)
      <4>1. \A p \in Positions : values[board[p]].low \in BOOLEAN
        BY <2>3, BoardIs, TypesAre DEF IInv, SampleType
      <4> QED BY <2>4, <4>1
    <3> QED BY <3>2, <3>3 DEF Positions
  <2>7. Names[line] \subseteq Seen /\ (Cardinality(Seen) =< 2 => Names[line] = Seen)
    BY <2>5, <2>6, NamesLit
  <2> QED BY <2>2, <2>7
<1> QED BY <1>1, Invariant, PTL

(* A sensor that has been above the line, or beside it, for two sequences   *)
(* less one sample is reported so, whatever the number of channels.         *)
THEOREM SeenInTime == Spec => []EdgeSeenInTime
<1>1. IInv => EdgeSeenInTime
  BY DEF IInv, AnswerInv, EdgeSeenInTime
<1> QED BY <1>1, Invariant, PTL

=============================================================================
