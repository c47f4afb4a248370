---------------------------- MODULE MCCompressor ----------------------------
(* Significands of 5 bits.  The slowest coefficient the schema allows, 10 s *)
(* at 384 kHz, is 4 units below one in single precision, and it is here.    *)
EXTENDS Compressor

slow == One - 4
half == One \div 2

(* Built without contraction, the envelope falls from 108 to 104 with this  *)
(* one on the way up to 112.                                                *)
creeping == One - 3

MCCoefficients == {<<0, slow>>, <<creeping, half>>}

(* Silence, sounds at the floor, in the knee and above it                   *)
MCSamples == {0, 112, 512, NaN}
MCWithInfinite == {0, 512, Infinite}
=============================================================================
