----------------------------- MODULE Compressor -----------------------------
(***************************************************************************)
(* Compressor::process with its envelope follower, frame by frame.         *)
(* Floating point is modelled by what it does: a finite float is a natural *)
(* number in the unit of the smallest one, with at most Precision          *)
(* significant bits, and every operation rounds to the nearest float, ties *)
(* to even.  A build may contract a product and the sum that follows it    *)
(* into one operation with one rounding.  Samples are represented by their *)
(* absolute value.                                                         *)
(***************************************************************************)
EXTENDS GainCurve

CONSTANTS
  Precision,    \* bits of a significand: 24 in the code
  Exponents,    \* bound: floats below 2^(Precision + Exponents)
  MinimumLevel, \* minimumLevel, in the unit of the smallest float
  Coefficients, \* pairs of attack and release coefficients, in 2^-Precision
  Samples,      \* values of a sample
  Channels      \* channels of a frame

Infinite == -1
NaN == -2

finite(x) == x >= 0

One == 2^Precision

Floats == {m * 2^e : m \in 0..One, e \in 0..Exponents}

FullScale == 2^(Precision + Exponents - 1)

ASSUME CompressorAssumption ==
  /\ Precision \in Nat \ {0, 1} /\ Exponents \in Nat \ {0}
  /\ MinimumLevel \in Floats /\ MinimumLevel \in 2^(Precision - 1) .. FullScale
  /\ Coefficients \subseteq (0 .. One - 1) \X (0 .. One - 1)
  /\ \A x \in Samples : x \in {Infinite, NaN} \/ (x \in Floats /\ x <= FullScale)
  /\ Channels \in Nat \ {0}

(* Arithmetic that the provers do not know and TLC computes.               *)
ASSUME PowersAssumption ==
  /\ 2^0 = 1 /\ 2^1 = 2
  /\ \A a, b \in 0 .. Precision + Exponents :
       2^a \in Nat \ {0} /\ 2^(a + b) = 2^a * 2^b

VARIABLES
  enabled,       \* config_.enabled
  coefficients,  \* attackCoefficient_ and releaseCoefficient_
  build,         \* how the compiler contracts the follower's expression
  envelope,      \* envelope_
  lastReduction, \* lastReductionDb_, in the unit of GainCurve
  loudest,       \* history: the highest number among the last frame's samples
  highest        \* history: the highest envelope since the block began

settings == <<enabled, coefficients, build>>
vars == <<settings, envelope, lastReduction, loudest, highest>>

Builds == {"separate", "fuseEnvelope", "fuseInput"}

-----------------------------------------------------------------------------
(* Floating point *)

(* The exponent of the floats around n/One: the least whose significands   *)
(* reach it.                                                               *)
exponent(n) ==
  CHOOSE e \in 0..Exponents :
    /\ n <= One * (One * 2^e)
    /\ \A f \in 0..Exponents : n <= One * (One * 2^f) => e <= f

(* The float nearest to n/One, of two the even one.                        *)
Rounded(n) ==
  LET ulp == 2^exponent(n)
      down == n \div (One * ulp)
      twice == 2 * (n % (One * ulp))
      up == twice > One * ulp \/ (twice = One * ulp /\ down % 2 = 1)
  IN  (IF up THEN down + 1 ELSE down) * ulp

(* c/One times x plus y, rounded once                                      *)
MultiplyAdd(c, x, y) ==
  IF x = NaN \/ y = NaN \/ (x = Infinite /\ c = 0) THEN NaN
  ELSE IF x = Infinite \/ y = Infinite THEN Infinite
  ELSE Rounded(c * x + One * y)

(* std::max, whose comparison with a NaN is false                          *)
maxOf(a, b) ==
  LET less == CASE a = NaN \/ b = NaN -> FALSE
                [] a = Infinite -> FALSE
                [] b = Infinite -> TRUE
                [] OTHER -> a < b
  IN  IF less THEN b ELSE a

-----------------------------------------------------------------------------
(* EnvelopeFollower::process for each build, coefficient, envelope and     *)
(* input.  The coefficients are multiples of 2^-Precision, as all from one *)
(* half on are, so that their weight and the other one sum to one exactly. *)
weightedSum(b, c, e, x) ==
  CASE b = "separate" ->
         MultiplyAdd(One, MultiplyAdd(c, e, 0), MultiplyAdd(One - c, x, 0))
    [] b = "fuseEnvelope" -> MultiplyAdd(c, e, MultiplyAdd(One - c, x, 0))
    [] b = "fuseInput" -> MultiplyAdd(One - c, x, MultiplyAdd(c, e, 0))

weights == UNION {{p[1], p[2]} : p \in Coefficients}

(* The same as a table, which TLC computes once.                           *)
follow == [b \in Builds |-> [c \in weights |->
            [e \in Floats \cup {Infinite, NaN} |-> [x \in Samples \cup {0} |->
               weightedSum(b, c, e, x)]]]]

selected(input) ==
  IF maxOf(envelope, input) # envelope THEN coefficients[1] ELSE coefficients[2]

(* Bug: the release is left to the next sound above the envelope.          *)
FollowHolding(peak) ==
  LET input == maxOf(0, peak)
  IN  IF maxOf(envelope, input) # envelope
        THEN follow[build][selected(input)][envelope][input] ELSE envelope

Follow(peak) ==
  LET input == maxOf(0, peak)
  IN  follow[build][selected(input)][envelope][input]

-----------------------------------------------------------------------------
(* linearToDb: the logarithm of the code is replaced by one that is linear *)
(* between powers of two.  It grows with the level, and twice the level is *)
(* a constant (6.02 dB) more.                                              *)
Level == [x \in Floats |->
  LET y == maxOf(x, MinimumLevel)
      e == exponent(One * y)
  IN  (e - 1) * 2^(Precision - 1) + y \div 2^e]

(* minimumLevel is -240 dB, and the schema's lowest knee begins at -120.   *)
ASSUME SilenceAssumption == 2 * (Level[0] - Threshold) <= -Knee

Mute == -1000000
NotANumber == 1

(* Mute stands for minus infinity.                                         *)
ASSUME MuteAssumption == \A x \in Floats : Mute < gainReduction(Level[x])

(* Of an infinite envelope: minus infinity, or a NaN with the ratio 1.     *)
Reduction == [x \in Floats \cup {Infinite, NaN} |->
  CASE finite(x) -> gainReduction(Level[x])
    [] x = Infinite /\ slope < 0 -> Mute
    [] OTHER -> NotANumber]

(* Bug: the reduction of the last frame is kept, and not the lowest.       *)
lowerForgotten(a, b) == b

(* std::min, where a NaN would not be less either                          *)
lower(a, b) == IF b < a THEN b ELSE a

-----------------------------------------------------------------------------
Init ==
  /\ enabled \in BOOLEAN
  /\ coefficients \in Coefficients
  /\ build \in Builds
  /\ envelope = 0
  /\ lastReduction = 0
  /\ loudest = 0 /\ highest = 0

(* Bug: the operands of std::max are exchanged, and a NaN replaces what    *)
(* the channels before it had.                                             *)
PeakExchanged(frame) ==
  LET peak[c \in 0..Channels] == IF c = 0 THEN 0 ELSE maxOf(frame[c], peak[c - 1])
  IN  peak[Channels]

Peak(frame) ==
  LET peak[c \in 0..Channels] == IF c = 0 THEN 0 ELSE maxOf(peak[c - 1], frame[c])
  IN  peak[Channels]

(* Bug: the reduction of the block before is not forgotten.                *)
BeginBlockKeeping ==
  /\ highest' = 0
  /\ UNCHANGED <<settings, envelope, lastReduction, loudest>>

(* process() is called: with a block whose frames follow, with one that    *)
(* has no frame or no channel, or with one it bypasses.                    *)
BeginBlock ==
  /\ lastReduction' = 0
  /\ highest' = 0
  /\ UNCHANGED <<settings, envelope, loudest>>

(* One turn of the loop over the frames                                    *)
ProcessFrame(frame) ==
  /\ enabled
  /\ envelope' = Follow(Peak(frame))
  /\ lastReduction' = lower(lastReduction, Reduction[envelope'])
  /\ loudest' = LET numbers == {frame[c] : c \in 1..Channels} \ {NaN}
                IN  IF Infinite \in numbers THEN Infinite
                    ELSE CHOOSE x \in numbers \cup {0} : \A y \in numbers : x >= y
  /\ highest' = maxOf(highest, envelope')
  /\ UNCHANGED settings

Frames == [1..Channels -> Samples]

Next == BeginBlock \/ \E frame \in Frames : ProcessFrame(frame)

Spec == Init /\ [][Next]_vars

(* The backend calls the engine again and again: a sound that goes on is   *)
(* processed for as long as that moves the envelope.                       *)
FairSpec ==
  /\ Spec
  /\ WF_envelope(\E x \in Samples :
       ProcessFrame([c \in 1..Channels |-> x]) /\ loudest' = loudest)

-----------------------------------------------------------------------------
(* Properties *)

TypeOK ==
  /\ enabled \in BOOLEAN /\ coefficients \in Coefficients /\ build \in Builds
  /\ envelope \in Floats \cup {Infinite, NaN}
  /\ lastReduction \in Int /\ lastReduction <= 0
  /\ loudest \in (Samples \cup {0}) \ {NaN}
  /\ highest \in Floats \cup {Infinite}

(* The reduction shown for a block is that of the highest envelope among   *)
(* its frames: the blocks before it have no part in it, no later and lower *)
(* frame hides it, and a block that is bypassed or has no frames shows     *)
(* none, however high the envelope still is.  A NaN is not shown.          *)
ReportIsOfHighestFrame ==
  lastReduction = IF Reduction[highest] = NotANumber THEN 0 ELSE Reduction[highest]

between(x, a, b) == (a <= x /\ x <= b) \/ (b <= x /\ x <= a)

(* With every frame the envelope moves towards the loudest channel or      *)
(* stays.  Rounding takes it past the two, even away from the loudest      *)
(* channel, but by one float at most, and a NaN in one channel neither     *)
(* enters it nor hides another channel.                                    *)
EnvelopeApproachesLoudest ==
  [][enabled =>
       /\ finite(envelope')
       /\ \/ between(envelope', envelope, loudest')
          \/ \E x \in {envelope, loudest'} :
               ~ \E z \in Floats \ {x, envelope'} : between(z, x, envelope')]_vars

(* The knee joins the curve without a step: between frames, a higher       *)
(* envelope is reduced at least as much, and what is left of it is still   *)
(* at least as loud.                                                       *)
LouderStaysLouder ==
  [][envelope <= envelope' =>
       /\ Reduction[envelope'] <= Reduction[envelope]
       /\ Scale * Level[envelope] + Reduction[envelope]
            <= Scale * Level[envelope'] + Reduction[envelope']]_vars

distance(a, b) == IF a >= b THEN a - b ELSE b - a

settled(x) ==
  IF x = 0 THEN Reduction[envelope] = 0
  ELSE (One - selected(x)) * distance(envelope, x) <= 2 * envelope

(* A steady sound is measured, not only approached: in the end the         *)
(* envelope is as near as the rounding of the coefficient allows, two last *)
(* places of the envelope divided by one minus the coefficient.  That is   *)
(* up to 6 dB for the slowest coefficient the schema admits and a few      *)
(* hundredths of a decibel for the example configuration.  After the sound *)
(* ends no reduction remains.                                              *)
EnvelopeSettles ==
  \A x \in Samples :
    finite(x) => (<>[](enabled /\ loudest = x) =>
      <>[]settled(x))

(* README.md:4-6: the service "compresses everything routed to it, and     *)
(* sends the result to a configured physical output".  Whatever was played *)
(* before, if from some moment on only ordinary samples come, the gain is  *)
(* a number again.                                                         *)
AudioComesBack ==
  <>[]finite(loudest) => <>[](Reduction[envelope] \notin {Mute, NotANumber})
=============================================================================
