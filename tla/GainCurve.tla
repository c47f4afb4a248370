----------------------------- MODULE GainCurve ------------------------------
(***************************************************************************)
(* Compressor::gainReductionDb in exact arithmetic.  Levels are integers   *)
(* in a unit of some fraction of a decibel; a reduction is an integer that *)
(* counts 1/Scale of that unit, so that no division is left: with the      *)
(* ratio RatioNum/RatioDen the slope is (RatioDen - RatioNum) / RatioNum,  *)
(* and the soft knee divides by 2 * Knee once more.                        *)
(***************************************************************************)
EXTENDS Integers

CONSTANTS
  Threshold,          \* config_.thresholdDb
  Knee,               \* config_.kneeDb
  RatioNum, RatioDen  \* config_.ratio

(* audiocompd.xsd: ratioType and kneeType                                  *)
ASSUME CurveAssumption ==
  /\ Threshold \in Int
  /\ Knee \in Nat
  /\ RatioDen \in Nat \ {0} /\ RatioNum \in Nat /\ RatioNum >= RatioDen

slope == RatioDen - RatioNum

Scale == IF Knee = 0 THEN RatioNum ELSE 8 * Knee * RatioNum

(* Bug: the knee divides by its width instead of twice its width.          *)
softKneeDoubled(above) == 2 * slope * (2 * above + Knee) * (2 * above + Knee)

(* The knee rises as a parabola from its lower end.                        *)
softKnee(above) == slope * (2 * above + Knee) * (2 * above + Knee)

reductionAbove(above) ==
  IF Knee = 0
    THEN IF above > 0 THEN slope * above ELSE 0
    ELSE IF 2 * above <= -Knee THEN 0
    ELSE IF 2 * above >= Knee THEN slope * 8 * Knee * above
    ELSE softKnee(above)

gainReduction(level) == reductionAbove(level - Threshold)
=============================================================================
