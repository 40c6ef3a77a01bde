----------------------------- MODULE MCIrRemote -----------------------------
(* IrRemote with two-bit fields and a queue of three slots, so that a few    *)
(* commands fill it and wrap both indices.                                  *)
EXTENDS IrRemote

MCMessages == {<<<<0, 1>>, <<1, 0>>>>, <<<<1, 1>>, <<0, 1>>>>}
MCMemory == {<<1, 1>>}

(* The gaps of the protocol between falling or rising edges of the           *)
(* demodulator, to the millisecond, at the edges of what the decoder takes,  *)
(* and a timer interrupt more where one may be pending.                      *)
MCGap == [lead |-> {5, 13, 15}, zero |-> {0, 1}, one |-> {2, 3},
          repeat |-> {39, 49}, repeat_lead |-> {2, 11, 15}, next |-> {96, 109},
          pause |-> {50, 150, 151}, long_pause |-> {110, 151},
          noise |-> {3, 20, 151}, noise_pause |-> {20, 151}, silence |-> {151}]

(* The hypotheses of IrRemoteProofs hold of this instance.                  *)
ASSUME UseHolds == PollsOften => Use

=============================================================================
