-------------------------- MODULE CompressorProofs --------------------------
(***************************************************************************)
(* Proofs about the compressor, for every format of its floats, every      *)
(* number of channels and every threshold, ratio, knee and coefficient the *)
(* schema admits.  First the gain curve, then the floats: the one that     *)
(* Rounded takes is the nearest, so rounding keeps the order, leaves       *)
(* floats alone and errs by half a last place.  From that follows how far  *)
(* one step of EnvelopeFollower::process goes, for each way a compiler may *)
(* contract its expression.                                                *)
(***************************************************************************)
EXTENDS Compressor, WellFoundedInduction, TLAPS

-----------------------------------------------------------------------------
(* Arithmetic *)

LEMMA ProductNat ==
  ASSUME NEW a \in Nat, NEW b \in Nat
  PROVE  a * b \in Nat
OBVIOUS

LEMMA ProductMonotone ==
  ASSUME NEW a \in Nat, NEW b \in Int, NEW c \in Int, b <= c
  PROVE  a * b <= a * c
<1>1. a * (c - b) \in Nat
  BY ProductNat
<1> QED
  BY <1>1

LEMMA ProductGrows ==
  ASSUME NEW a \in Nat \ {0}, NEW b \in Int, NEW c \in Int, b < c
  PROVE  a * b + a <= a * c
<1>1. a * (b + 1) <= a * c
  BY ProductMonotone
<1> QED
  BY <1>1

-----------------------------------------------------------------------------
(* A set of naturals has a least element: what the proofs below use in     *)
(* place of induction, which would take an operator as its parameter.      *)

LEMMA LessIsRelated ==
  ASSUME NEW x \in Nat, NEW y \in Nat, x < y
  PROVE  <<x, y>> \in OpToRel(<, Nat)
BY Zenon DEF OpToRel

LEMMA LeastNatural ==
  ASSUME NEW T, T \subseteq Nat, T # {}
  PROVE  \E x \in T : \A y \in T : x <= y
<1>1. PICK x \in T : \A y \in T : <<y, x>> \notin OpToRel(<, Nat)
  BY NatLessThanWellFounded, WFMin
<1>2. ASSUME NEW y \in T
      PROVE  x <= y
  <2>1. x \in Nat /\ y \in Nat
    OBVIOUS
  <2>2. CASE y < x
    BY <1>1, <2>1, <2>2, LessIsRelated
  <2> QED
    BY <2>1, <2>2
<1> QED
  BY <1>2

-----------------------------------------------------------------------------
(* Quotients *)

LEMMA RemainderExists ==
  ASSUME NEW d \in Nat \ {0}, NEW n \in Nat
  PROVE  n = d * (n \div d) + (n % d) /\ n % d \in 0 .. d - 1
OBVIOUS

LEMMA QuotientNat ==
  ASSUME NEW d \in Nat \ {0}, NEW n \in Nat
  PROVE  n \div d \in Nat
<1> DEFINE q == n \div d
<1>1. q \in Int /\ n = d * q + (n % d) /\ n % d \in 0 .. d - 1
  BY RemainderExists
<1> HIDE DEF q
<1>2. CASE q + 1 <= 0
  <2>1. d * (q + 1) <= d * 0
    BY <1>1, <1>2, ProductMonotone
  <2> QED
    BY <1>1, <2>1
<1> QED
  BY <1>1, <1>2 DEF q

-----------------------------------------------------------------------------
(* The gain curve *)

(* The curve with a knee over twice the distance from the knee's lower     *)
(* end, the scale on which its three pieces meet at 0 and at 2 * Knee.     *)
curve(u) ==
  IF u <= 0 THEN 0
  ELSE IF u >= 2 * Knee THEN 4 * slope * Knee * (u - Knee)
  ELSE slope * u * u

(* A step from u to v lowers the gain, and by less than the level rises.   *)
Gentle(u, v) ==
  /\ curve(v) <= curve(u)
  /\ curve(u) - curve(v) <= 4 * Knee * RatioNum * (v - u)

LEMMA SlopeRange ==
  /\ slope \in Int /\ slope <= 0
  /\ -slope \in Nat /\ RatioNum + slope \in Nat /\ RatioNum \in Nat
  /\ RatioNum > 0
BY CurveAssumption DEF slope

(* A slope times something positive is not positive.                       *)
LEMMA SlopeLowers ==
  ASSUME NEW b \in Nat
  PROVE  slope * b \in Int /\ slope * b <= 0
<1>1. (-slope) * b \in Nat
  BY SlopeRange, ProductNat
<1> QED
  BY <1>1, SlopeRange

-----------------------------------------------------------------------------
(* The pieces of the curve with a knee *)

LEMMA CurveType ==
  ASSUME NEW u \in Int
  PROVE  curve(u) \in Int
BY CurveAssumption, SlopeRange DEF curve

LEMMA GentleBelow ==
  ASSUME NEW u \in Int, NEW v \in Int, u <= v, v <= 0
  PROVE  Gentle(u, v)
<1>1. 4 * Knee * RatioNum \in Nat
  BY CurveAssumption, ProductNat
<1>2. (4 * Knee * RatioNum) * (v - u) \in Nat
  BY <1>1, ProductNat
<1> QED
  BY <1>2 DEF Gentle, curve

(* On the closed knee both ends are on the parabola.                       *)
LEMMA CurveInKnee ==
  ASSUME NEW u \in Int, 0 <= u, u <= 2 * Knee
  PROVE  curve(u) = slope * (u * u)
<1>1. CASE u = 0
  BY <1>1, SlopeRange DEF curve
<1>2. CASE u = 2 * Knee /\ u # 0
  <2>1. curve(u) = 4 * slope * Knee * (2 * Knee - Knee)
    BY <1>2, CurveAssumption DEF curve
  <2> QED
    BY <1>2, <2>1, SlopeRange, CurveAssumption
<1>3. CASE 0 < u /\ u < 2 * Knee
  BY <1>3, SlopeRange, CurveAssumption DEF curve
<1> QED
  BY <1>1, <1>2, <1>3, CurveAssumption

LEMMA GentleInKnee ==
  ASSUME NEW u \in Int, NEW v \in Int, 0 <= u, u <= v, v <= 2 * Knee
  PROVE  Gentle(u, v)
<1> DEFINE D == -slope
           square == (v - u) * (u + v)
<1>1. /\ D \in Nat /\ D <= RatioNum /\ Knee \in Nat /\ RatioNum \in Nat
      /\ v - u \in Nat /\ u + v \in Nat /\ u + v <= 4 * Knee
  BY SlopeRange, CurveAssumption
<1>2. curve(u) - curve(v) = D * square
  <2>1. curve(u) = slope * (u * u) /\ curve(v) = slope * (v * v)
    BY CurveInKnee, CurveAssumption
  <2>2. square = v * v - u * u
    OBVIOUS
  <2>3. v * v \in Int /\ u * u \in Int
    OBVIOUS
  <2> QED
    BY <2>1, <2>2, <2>3, SlopeRange
<1>3. square \in Nat
  BY <1>1, ProductNat
<1>4. D * square \in Nat
  BY <1>1, <1>3, ProductNat
<1>5. D * square <= 4 * Knee * RatioNum * (v - u)
  <2>1. (v - u) * (u + v) <= (v - u) * (4 * Knee)
    BY <1>1, ProductMonotone
  <2>2. (v - u) * (4 * Knee) \in Nat
    BY <1>1, ProductNat
  <2>3. D * square <= D * ((v - u) * (4 * Knee))
    BY <1>1, <1>3, <2>1, <2>2, ProductMonotone
  <2>4. ((v - u) * (4 * Knee)) * D <= ((v - u) * (4 * Knee)) * RatioNum
    BY <1>1, <2>2, ProductMonotone
  <2>5. D * ((v - u) * (4 * Knee)) = ((v - u) * (4 * Knee)) * D
    BY <1>1, <2>2
  <2>6. ((v - u) * (4 * Knee)) * RatioNum = 4 * Knee * RatioNum * (v - u)
    BY <1>1
  <2> QED
    BY <1>1, <1>4, <2>2, <2>3, <2>4, <2>5, <2>6
<1>6. curve(u) \in Int /\ curve(v) \in Int
  BY CurveType
<1> QED
  BY <1>2, <1>4, <1>5, <1>6 DEF Gentle

LEMMA GentleAbove ==
  ASSUME Knee > 0, NEW u \in Int, NEW v \in Int, 2 * Knee <= u, u <= v
  PROVE  Gentle(u, v)
<1> DEFINE D == -slope
           K == 4 * Knee
<1>1. /\ D \in Nat /\ D <= RatioNum /\ Knee \in Nat /\ RatioNum \in Nat
      /\ v - u \in Nat /\ K \in Nat
  BY SlopeRange, CurveAssumption
<1>2. curve(u) = 4 * slope * Knee * (u - Knee) /\ curve(v) = 4 * slope * Knee * (v - Knee)
  BY <1>1 DEF curve
<1>3. curve(u) - curve(v) = (K * (v - u)) * D
  BY <1>2, SlopeRange, CurveAssumption
<1>4. K * (v - u) \in Nat
  BY <1>1, ProductNat
<1>5. (K * (v - u)) * D \in Nat /\ (K * (v - u)) * D <= (K * (v - u)) * RatioNum
  BY <1>1, <1>4, ProductNat, ProductMonotone
<1>6. (K * (v - u)) * RatioNum = 4 * Knee * RatioNum * (v - u)
  BY <1>1
<1>7. curve(u) \in Int /\ curve(v) \in Int
  BY CurveType
<1> QED
  BY <1>3, <1>5, <1>6, <1>7 DEF Gentle

LEMMA GentleChain ==
  ASSUME NEW u \in Int, NEW v \in Int, NEW w \in Int, Gentle(u, v), Gentle(v, w)
  PROVE  Gentle(u, w)
<1>1. curve(u) \in Int /\ curve(v) \in Int /\ curve(w) \in Int
  BY CurveType
<1>2. 4 * Knee * RatioNum * (w - u)
        = 4 * Knee * RatioNum * (v - u) + 4 * Knee * RatioNum * (w - v)
  BY CurveAssumption
<1>3. /\ 4 * Knee * RatioNum * (w - u) \in Int
      /\ 4 * Knee * RatioNum * (v - u) \in Int
      /\ 4 * Knee * RatioNum * (w - v) \in Int
  BY CurveAssumption
<1> QED
  BY <1>1, <1>2, <1>3 DEF Gentle

(* From anywhere to anywhere, by way of the ends of the knee in between.   *)
LEMMA GentleEverywhere ==
  ASSUME Knee > 0, NEW u \in Int, NEW v \in Int, u <= v
  PROVE  Gentle(u, v)
<1> DEFINE top == 2 * Knee
<1>1. 0 \in Int /\ top \in Int /\ 0 < top
  BY CurveAssumption
<1> HIDE DEF top
<1>2. ASSUME NEW w \in Int, u <= w, w <= 0 PROVE Gentle(u, w)
  BY <1>2, GentleBelow
<1>3. ASSUME NEW a \in Int, NEW b \in Int, 0 <= a, a <= b, b <= top PROVE Gentle(a, b)
  BY <1>3, GentleInKnee DEF top
<1>4. ASSUME NEW a \in Int, NEW b \in Int, top <= a, a <= b PROVE Gentle(a, b)
  BY <1>4, GentleAbove DEF top
<1>5. ASSUME NEW a \in Int, 0 <= a, a <= v PROVE Gentle(a, v)
  <2>1. CASE v <= top
    BY <1>3, <1>5, <2>1
  <2>2. CASE top <= a
    BY <1>4, <1>5, <2>2
  <2>3. CASE a <= top /\ top <= v
    <3>1. Gentle(a, top) /\ Gentle(top, v)
      BY <1>1, <1>3, <1>4, <1>5, <2>3
    <3> QED
      BY <1>1, <3>1, GentleChain
  <2> QED
    BY <1>1, <1>5, <2>1, <2>2, <2>3
<1>6. CASE v <= 0
  BY <1>2, <1>6
<1>7. CASE 0 <= u
  BY <1>5, <1>7
<1>8. CASE u <= 0 /\ 0 <= v
  <2>1. Gentle(u, 0) /\ Gentle(0, v)
    BY <1>1, <1>2, <1>5, <1>8
  <2> QED
    BY <1>1, <2>1, GentleChain
<1> QED
  BY <1>6, <1>7, <1>8

-----------------------------------------------------------------------------
(* The code's curve *)

LEMMA ReductionIsCurve ==
  ASSUME Knee > 0, NEW a \in Int
  PROVE  reductionAbove(a) = curve(2 * a + Knee)
<1>1. Knee \in Nat /\ slope \in Int /\ Knee # 0
  BY CurveAssumption, SlopeRange
<1>2. CASE 2 * a <= -Knee
  BY <1>1, <1>2 DEF reductionAbove, curve
<1>3. CASE 2 * a > -Knee /\ 2 * a >= Knee
  <2>1. reductionAbove(a) = slope * 8 * Knee * a
    BY <1>1, <1>3 DEF reductionAbove
  <2>2. curve(2 * a + Knee) = 4 * slope * Knee * (2 * a + Knee - Knee)
    BY <1>1, <1>3 DEF curve
  <2> QED
    BY <1>1, <2>1, <2>2
<1>4. CASE 2 * a > -Knee /\ 2 * a < Knee
  BY <1>1, <1>4 DEF reductionAbove, curve, softKnee
<1> QED
  BY <1>1, <1>2, <1>3, <1>4

(* Without a knee the line starts at the threshold.                        *)
LEMMA HardKnee ==
  ASSUME Knee = 0, NEW a \in Int, NEW b \in Int, a <= b
  PROVE  /\ reductionAbove(b) <= reductionAbove(a)
         /\ RatioNum * a + reductionAbove(a) <= RatioNum * b + reductionAbove(b)
<1> DEFINE D == -slope
           Q == RatioNum + slope
<1>1. /\ slope \in Int /\ D \in Nat /\ Q \in Nat /\ RatioNum \in Nat /\ b - a \in Nat
  BY SlopeRange
<1>2. D * (b - a) \in Nat /\ Q * (b - a) \in Nat /\ RatioNum * (b - a) \in Nat
  BY <1>1, ProductNat
<1>3. CASE b <= 0
  BY <1>1, <1>2, <1>3 DEF reductionAbove
<1>4. CASE 0 < a
  BY <1>1, <1>2, <1>4 DEF reductionAbove
<1>5. CASE a <= 0 /\ 0 < b
  <2>1. D * b \in Nat /\ Q * b \in Nat /\ RatioNum * (-a) \in Nat
    BY <1>1, <1>5, ProductNat
  <2>2. reductionAbove(a) = 0 /\ reductionAbove(b) = slope * b
    BY <1>5 DEF reductionAbove
  <2> QED
    BY <1>1, <1>5, <2>1, <2>2
<1> QED
  BY <1>3, <1>4, <1>5

(* A higher level is reduced at least as much, and what is left of it is   *)
(* at least as loud: for every ratio of at least one and every knee the    *)
(* three pieces of gainReductionDb join without a step and the compressor  *)
(* never reverses the order of two levels.                                 *)
THEOREM CurveKeepsOrder ==
  ASSUME NEW x \in Int, NEW y \in Int, x <= y
  PROVE  /\ gainReduction(y) <= gainReduction(x)
         /\ Scale * x + gainReduction(x) <= Scale * y + gainReduction(y)
<1> DEFINE a == x - Threshold
           b == y - Threshold
<1>1. a \in Int /\ b \in Int /\ a <= b /\ Threshold \in Int
  BY CurveAssumption
<1>2. gainReduction(x) = reductionAbove(a) /\ gainReduction(y) = reductionAbove(b)
  BY DEF gainReduction
<1>3. CASE Knee = 0
  <2>1. /\ reductionAbove(b) <= reductionAbove(a)
        /\ RatioNum * a + reductionAbove(a) <= RatioNum * b + reductionAbove(b)
    BY <1>1, <1>3, HardKnee
  <2>2. reductionAbove(a) \in Int /\ reductionAbove(b) \in Int
    BY <1>1, <1>3, SlopeRange DEF reductionAbove
  <2>3. RatioNum \in Nat /\ Scale = RatioNum
    BY <1>3, SlopeRange DEF Scale
  <2> QED
    BY <1>1, <1>2, <2>1, <2>2, <2>3
<1>4. CASE Knee # 0
  <2> DEFINE u == 2 * a + Knee
             v == 2 * b + Knee
             C == 4 * Knee * RatioNum
  <2>1. /\ Knee \in Nat /\ Knee > 0 /\ RatioNum \in Nat /\ C \in Int
        /\ u \in Int /\ v \in Int /\ u <= v
    BY <1>1, <1>4, CurveAssumption
  <2>2. curve(v) <= curve(u) /\ curve(u) - curve(v) <= C * (v - u)
    BY <2>1, GentleEverywhere DEF Gentle
  <2>3. reductionAbove(a) = curve(u) /\ reductionAbove(b) = curve(v)
    BY <1>1, <2>1, ReductionIsCurve
  <2>4. Scale = 2 * C
    BY <1>4, <2>1 DEF Scale
  <2>5. C * (v - u) = 2 * C * (y - x)
    <3>1. v - u = 2 * (y - x)
      BY <1>1, <2>1
    <3> HIDE DEF C, u, v
    <3> QED
      BY <2>1, <3>1
  <2>6. curve(u) \in Int /\ curve(v) \in Int
    BY <2>1, CurveType
  <2> HIDE DEF C, u, v
  <2> QED
    BY <1>2, <2>1, <2>2, <2>3, <2>4, <2>5, <2>6
<1> QED
  BY <1>3, <1>4

(* Compression only turns down: no level is boosted.                       *)
THEOREM NeverBoosts ==
  ASSUME NEW x \in Int
  PROVE  gainReduction(x) <= 0
<1> DEFINE a == x - Threshold
<1>1. a \in Int /\ gainReduction(x) = reductionAbove(a)
  BY CurveAssumption DEF gainReduction
<1>2. CASE Knee = 0
  BY <1>1, <1>2, SlopeLowers DEF reductionAbove
<1>3. CASE Knee # 0
  <2> DEFINE u == 2 * a + Knee
  <2>1. Knee \in Nat /\ Knee > 0 /\ u \in Int
    BY <1>1, <1>3, CurveAssumption
  <2>2. reductionAbove(a) = curve(u)
    BY <1>1, <2>1, ReductionIsCurve
  <2> HIDE DEF u
  <2>3. CASE u <= 0
    BY <1>1, <2>2, <2>3 DEF curve
  <2>4. CASE 0 <= u
    <3>1. Gentle(0, u)
      BY <2>1, <2>4, GentleEverywhere
    <3> QED
      BY <1>1, <2>2, <3>1 DEF Gentle, curve
  <2> QED
    BY <2>1, <2>3, <2>4
<1> QED
  BY <1>2, <1>3

-----------------------------------------------------------------------------
(* Powers of two *)

LEMMA PowerNat ==
  ASSUME NEW e \in 0 .. Precision + Exponents
  PROVE  2^e \in Nat \ {0}
BY PowersAssumption

LEMMA PowerSum ==
  ASSUME NEW a \in 0 .. Precision + Exponents, NEW b \in 0 .. Precision + Exponents
  PROVE  2^(a + b) = 2^a * 2^b
BY PowersAssumption

LEMMA PowerStep ==
  ASSUME NEW e \in 1 .. Precision + Exponents
  PROVE  2^e = 2 * 2^(e - 1)
<1>1. 1 \in 0 .. Precision + Exponents /\ e - 1 \in 0 .. Precision + Exponents
  BY CompressorAssumption
<1>2. 1 + (e - 1) = e
  OBVIOUS
<1> QED
  BY <1>1, <1>2, PowerSum, PowersAssumption

(* A power of two is a multiple of every lower one.                        *)
LEMMA PowerMultiple ==
  ASSUME NEW e \in 0..Exponents, NEW f \in 0..Exponents, e <= f
  PROVE  \E q \in Nat \ {0} : 2^f = q * 2^e
<1>1. /\ f - e \in 0 .. Precision + Exponents
      /\ e \in 0 .. Precision + Exponents /\ (f - e) + e = f
  BY CompressorAssumption
<1>2. 2^f = 2^(f - e) * 2^e
  BY <1>1, PowerSum
<1> QED
  BY <1>1, <1>2, PowerNat

LEMMA PowerMonotone ==
  ASSUME NEW e \in 0..Exponents, NEW f \in 0..Exponents, e <= f
  PROVE  2^e <= 2^f
<1>1. PICK q \in Nat \ {0} : 2^f = q * 2^e
  BY PowerMultiple
<1>2. 2^e \in Nat
  BY PowerNat, CompressorAssumption
<1>3. 2^e * 1 <= 2^e * q
  BY <1>2, ProductMonotone
<1> QED
  BY <1>1, <1>2, <1>3

LEMMA OneFacts ==
  /\ One \in Nat \ {0} /\ 2^(Precision - 1) \in Nat \ {0}
  /\ One = 2 * 2^(Precision - 1)
  /\ Exponents \in Nat \ {0}
  /\ \A e \in 0..Exponents : 2^e \in Nat \ {0}
<1>1. /\ Precision \in 1 .. Precision + Exponents
      /\ Precision - 1 \in 0 .. Precision + Exponents
      /\ \A e \in 0..Exponents : e \in 0 .. Precision + Exponents
  BY CompressorAssumption
<1> QED
  BY <1>1, PowerNat, PowerStep, CompressorAssumption DEF One

-----------------------------------------------------------------------------
(* Floats *)

LEMMA FloatsNat == Floats \subseteq Nat /\ 0 \in Floats
<1>1. ASSUME NEW m \in 0..One, NEW e \in 0..Exponents
      PROVE  m * 2^e \in Nat
  BY OneFacts, ProductNat
<1>2. 0 \in 0..One /\ 0 \in 0..Exponents /\ 0 * 2^0 = 0
  BY OneFacts
<1> QED
  BY <1>1, <1>2 DEF Floats

LEMMA MultipleIsFloat ==
  ASSUME NEW m \in 0..One, NEW e \in 0..Exponents
  PROVE  m * 2^e \in Floats
BY DEF Floats

(* No float lies strictly between two multiples of 2^e that follow each    *)
(* other, from the binade of e upwards.                                    *)
LEMMA NoFloatBetween ==
  ASSUME NEW e \in 0..Exponents, NEW k \in Nat, e = 0 \/ One <= 2 * k,
         NEW z \in Floats, k * 2^e < z
  PROVE  (k + 1) * 2^e <= z
<1> DEFINE u == 2^e
<1>1. PICK m \in 0..One, f \in 0..Exponents : z = m * 2^f
  BY DEF Floats
<1>2. u \in Nat \ {0} /\ 2^f \in Nat \ {0} /\ m \in Nat
  BY OneFacts
<1>3. CASE e <= f
  <2>1. PICK q \in Nat \ {0} : 2^f = q * u
    BY <1>3, PowerMultiple
  <2>2. m * q \in Nat
    BY <1>2, ProductNat
  <2>3. z = u * (m * q)
    BY <1>1, <1>2, <2>1
  <2>4. k < m * q
    <3>1. CASE m * q <= k
      <4>1. u * (m * q) <= u * k
        BY <1>2, <2>2, <3>1, ProductMonotone
      <4> QED
        BY <1>2, <2>2, <2>3, <4>1
    <3> QED
      BY <2>2, <3>1
  <2>5. u * k + u <= u * (m * q)
    BY <1>2, <2>2, <2>4, ProductGrows
  <2> QED
    BY <1>2, <2>3, <2>5
<1>4. CASE f < e
  <2> DEFINE h == 2^(Precision - 1)
             v == 2^(e - 1)
  <2>1. e - 1 \in 0..Exponents /\ f <= e - 1 /\ e \in 1 .. Precision + Exponents
    BY <1>4, CompressorAssumption
  <2>2. 2^f <= v /\ v \in Nat /\ u = 2 * v
    BY <2>1, PowerMonotone, OneFacts, PowerStep
  <2>3. h \in Nat /\ One = 2 * h /\ h <= k
    BY <1>4, OneFacts
  <2> HIDE DEF u, v, h
  <2>4. z <= One * v
    <3>1. m * 2^f <= m * v
      BY <1>2, <2>2, ProductMonotone
    <3>2. v * m <= v * One
      BY <1>2, <2>2, OneFacts, ProductMonotone
    <3>3. m * 2^f \in Nat /\ m * v \in Nat /\ v * One \in Nat
      BY <1>2, <2>2, OneFacts, ProductNat
    <3> QED
      BY <1>1, <1>2, <2>2, OneFacts, <3>1, <3>2, <3>3
  <2>5. One * v = u * h
    BY <2>2, <2>3
  <2>6. u * h <= u * k
    BY <1>2, <2>3, ProductMonotone
  <2>7. u * k < z
    BY <1>2 DEF u
  <2>8. u * h \in Nat /\ u * k \in Nat /\ z \in Nat
    BY <1>2, <2>3, ProductNat, FloatsNat
  <2> QED
    BY <2>4, <2>5, <2>6, <2>7, <2>8
<1> QED
  BY <1>3, <1>4

-----------------------------------------------------------------------------
(* Rounding *)

(* The largest float *)
largest == One * 2^Exponents

LEMMA LargestFacts ==
  /\ largest \in Nat \ {0} /\ largest \in Floats
  /\ \A x \in Floats : x <= largest
<1>1. largest \in Nat \ {0}
  BY OneFacts DEF largest
<1>2. largest \in Floats
  BY OneFacts, MultipleIsFloat DEF largest
<1>3. ASSUME NEW m \in 0..One, NEW e \in 0..Exponents
      PROVE  m * 2^e <= largest
  <2>1. 2^e \in Nat /\ 2^Exponents \in Nat /\ 2^e <= 2^Exponents /\ m \in Nat /\ One \in Nat
    BY OneFacts, PowerMonotone
  <2>2. m * 2^e <= m * 2^Exponents
    BY <2>1, ProductMonotone
  <2>3. 2^Exponents * m <= 2^Exponents * One
    BY <2>1, ProductMonotone
  <2>4. m * 2^e \in Int /\ m * 2^Exponents \in Int /\ 2^Exponents * One \in Int
    BY <2>1
  <2> QED
    BY <2>1, <2>2, <2>3, <2>4 DEF largest
<1> QED
  BY <1>1, <1>2, <1>3 DEF Floats

LEMMA ExponentFacts ==
  ASSUME NEW n \in 0 .. One * largest
  PROVE  /\ exponent(n) \in 0..Exponents
         /\ n <= One * (One * 2^exponent(n))
         /\ \A f \in 0..Exponents : n <= One * (One * 2^f) => exponent(n) <= f
<1> DEFINE T == {e \in 0..Exponents : n <= One * (One * 2^e)}
<1>1. Exponents \in T
  BY OneFacts DEF largest
<1>2. T \subseteq Nat
  <2>1. 0..Exponents \subseteq Nat
    BY OneFacts
  <2> QED
    BY <2>1, Zenon
<1>3. PICK e \in T : \A f \in T : e <= f
  BY <1>1, <1>2, LeastNatural, Zenon
<1>4. \E x \in 0..Exponents :
        /\ n <= One * (One * 2^x)
        /\ \A f \in 0..Exponents : n <= One * (One * 2^f) => x <= f
  BY <1>3
<1> QED
  BY <1>4, Zenon DEF exponent

(* The floats around n/One are two multiples of 2^exponent(n) that follow  *)
(* each other, and Rounded takes the nearer one.                           *)
LEMMA RoundedIsNeighbour ==
  ASSUME NEW n \in 0 .. One * largest
  PROVE  \E e \in 0..Exponents, k \in 0..One :
           /\ e = 0 \/ One <= 2 * k
           /\ One * (k * 2^e) <= n /\ n < One * ((k + 1) * 2^e)
           /\ \/ /\ Rounded(n) = k * 2^e
                 /\ 2 * (n - One * (k * 2^e)) <= One * 2^e
              \/ /\ Rounded(n) = (k + 1) * 2^e /\ k + 1 \in 0..One
                 /\ 2 * (One * ((k + 1) * 2^e) - n) <= One * 2^e
<1> DEFINE e == exponent(n)
           u == 2^e
           d == One * u
           k == n \div d
           r == n % d
<1>1. /\ e \in 0..Exponents /\ n <= One * (One * u)
      /\ \A f \in 0..Exponents : n <= One * (One * 2^f) => e <= f
  BY ExponentFacts
<1>2. /\ u \in Nat \ {0} /\ One \in Nat \ {0} /\ n \in Nat
      /\ d \in Nat \ {0} /\ d = One * u
  BY <1>1, OneFacts, LargestFacts
<1> DEFINE up == 2 * r > d \/ (2 * r = d /\ k % 2 = 1)
<1>3. Rounded(n) = (IF up THEN k + 1 ELSE k) * u
  BY DEF Rounded
<1>4. k \in Nat /\ n = d * k + r /\ r \in 0 .. d - 1
  BY <1>2, RemainderExists, QuotientNat
<1>5. e = 0 \/ One <= 2 * k
  <2> SUFFICES ASSUME e # 0, 2 * k < One
               PROVE  FALSE
    BY <1>2, <1>4
  <2> DEFINE h == 2^(Precision - 1)
             v == 2^(e - 1)
  <2>1. e - 1 \in 0..Exponents /\ e \in 1 .. Precision + Exponents
    BY <1>1, CompressorAssumption
  <2>2. v \in Nat /\ u = 2 * v /\ h \in Nat /\ One = 2 * h
    BY <2>1, OneFacts, PowerStep
  <2>3. ~(n <= One * (One * v))
    BY <1>1, <2>1
  <2> HIDE DEF e, u, d, k, r, v, h
  <2>4. k + 1 <= h
    BY <1>4, <2>2
  <2>5. d * (k + 1) <= d * h
    BY <1>2, <1>4, <2>2, <2>4, ProductMonotone
  <2>6. d * h = One * (One * v)
    BY <1>2, <2>2
  <2>7. d * h \in Int /\ d * (k + 1) = d * k + d /\ d * k \in Int
    BY <1>2, <1>4, <2>2
  <2> QED
    BY <1>2, <1>4, <2>3, <2>5, <2>6, <2>7
<1> HIDE DEF e, u, d, k, r
<1>6. One * (k * u) = d * k /\ One * ((k + 1) * u) = d * k + d /\ d * k \in Nat
  BY <1>2, <1>4
<1>7. n <= d * One
  BY <1>1, <1>2
<1>8. k \in 0..One /\ (k = One => r = 0)
  <2>1. CASE One < k
    <3>1. d * One + d <= d * k
      BY <1>2, <1>4, <2>1, ProductGrows
    <3>2. d * One \in Int /\ d * k \in Int
      BY <1>2, <1>4
    <3> QED
      BY <1>2, <1>4, <1>7, <3>1, <3>2
  <2>2. CASE k = One
    <3>1. d * k = d * One /\ d * One \in Int
      BY <1>2, <2>2
    <3> QED
      BY <1>2, <1>4, <1>7, <2>2, <3>1
  <2> QED
    BY <1>2, <1>4, <2>1, <2>2
<1>9. CASE up
  <2>1. Rounded(n) = (k + 1) * u
    BY <1>3, <1>9
  <2>2. 2 * r >= d /\ k + 1 \in 0..One
    BY <1>2, <1>4, <1>8, <1>9
  <2>3. 2 * (One * ((k + 1) * u) - n) <= d
    BY <1>2, <1>4, <1>6, <2>2
  <2>4. /\ One * (k * 2^e) <= n /\ n < One * ((k + 1) * 2^e)
        /\ Rounded(n) = (k + 1) * 2^e /\ k + 1 \in 0..One
        /\ 2 * (One * ((k + 1) * 2^e) - n) <= One * 2^e
    BY <1>2, <1>4, <1>6, <2>1, <2>2, <2>3 DEF u
  <2> QED
    BY <1>1, <1>5, <1>8, <2>4, Zenon
<1>10. CASE ~up
  <2>1. Rounded(n) = k * u
    BY <1>3, <1>10
  <2>2. 2 * r <= d
    BY <1>2, <1>4, <1>10
  <2>3. 2 * (n - One * (k * u)) <= d
    BY <1>2, <1>4, <1>6, <2>2
  <2>4. /\ One * (k * 2^e) <= n /\ n < One * ((k + 1) * 2^e)
        /\ Rounded(n) = k * 2^e
        /\ 2 * (n - One * (k * 2^e)) <= One * 2^e
    BY <1>2, <1>4, <1>6, <2>1, <2>2, <2>3 DEF u
  <2> QED
    BY <1>1, <1>5, <1>8, <2>4, Zenon
<1> QED
  BY <1>9, <1>10

(* Rounded is a float, and no float is nearer.                             *)
LEMMA RoundedNearest ==
  ASSUME NEW n \in 0 .. One * largest
  PROVE  /\ Rounded(n) \in Floats
         /\ \A y \in Floats : distance(n, One * Rounded(n)) <= distance(n, One * y)
<1>1. PICK e \in 0..Exponents, k \in 0..One :
           /\ e = 0 \/ One <= 2 * k
           /\ One * (k * 2^e) <= n /\ n < One * ((k + 1) * 2^e)
           /\ \/ /\ Rounded(n) = k * 2^e
                 /\ 2 * (n - One * (k * 2^e)) <= One * 2^e
              \/ /\ Rounded(n) = (k + 1) * 2^e /\ k + 1 \in 0..One
                 /\ 2 * (One * ((k + 1) * 2^e) - n) <= One * 2^e
  BY RoundedIsNeighbour
<1> DEFINE lo == k * 2^e
           hi == (k + 1) * 2^e
<1>2. /\ 2^e \in Nat \ {0} /\ One \in Nat \ {0} /\ n \in Nat /\ k \in Nat
      /\ lo \in Nat /\ hi \in Nat /\ hi = lo + 2^e
  BY OneFacts, LargestFacts, ProductNat
<1>3. One * hi = One * lo + One * 2^e /\ One * lo \in Nat /\ One * 2^e \in Nat
  BY <1>2
<1>4. Rounded(n) \in Floats
  BY <1>1, MultipleIsFloat
<1>5. ASSUME NEW y \in Floats
      PROVE  y <= lo \/ hi <= y
  BY <1>1, <1>2, FloatsNat, NoFloatBetween
<1>6. ASSUME NEW y \in Floats
      PROVE  distance(n, One * Rounded(n)) <= distance(n, One * y)
  <2>1. y \in Nat /\ One * y \in Nat
    BY <1>2, FloatsNat
  <2>2. One * y <= One * lo \/ One * hi <= One * y
    BY <1>2, <1>5, <2>1, ProductMonotone
  <2>3. /\ One * lo <= n /\ n < One * hi
        /\ \/ Rounded(n) = lo /\ 2 * (n - One * lo) <= One * 2^e
           \/ Rounded(n) = hi /\ 2 * (One * hi - n) <= One * 2^e
    BY <1>1
  <2> HIDE DEF lo, hi
  <2> DEFINE a == One * lo
             b == One * hi
             c == One * y
             w == One * 2^e
  <2>4. /\ a \in Int /\ b \in Int /\ c \in Int /\ w \in Int /\ b = a + w
        /\ c <= a \/ b <= c
        /\ a <= n /\ n < b
        /\ \/ One * Rounded(n) = a /\ 2 * (n - a) <= w
           \/ One * Rounded(n) = b /\ 2 * (b - n) <= w
    BY <1>2, <1>3, <2>1, <2>2, <2>3
  <2> HIDE DEF a, b, c, w
  <2>5. distance(n, One * Rounded(n)) <= distance(n, c)
    BY <1>2, <2>4 DEF distance
  <2> QED
    BY <2>5 DEF c
<1> QED
  BY <1>4, <1>6

(* A float is its own rounding,                                            *)
LEMMA RoundedExact ==
  ASSUME NEW x \in Floats
  PROVE  One * x \in 0 .. One * largest /\ Rounded(One * x) = x
<1>1. x \in Nat /\ x <= largest /\ One \in Nat \ {0} /\ largest \in Nat
  BY FloatsNat, LargestFacts, OneFacts
<1>2. One * x \in 0 .. One * largest
  BY <1>1, ProductNat, ProductMonotone
<1> DEFINE y == Rounded(One * x)
<1>3. y \in Floats /\ distance(One * x, One * y) <= distance(One * x, One * x)
  BY <1>2, RoundedNearest
<1> HIDE DEF y
<1>4. y \in Nat /\ One * x \in Nat /\ One * y \in Nat
  BY <1>1, <1>3, FloatsNat, ProductNat
<1>5. One * x = One * y
  <2> DEFINE a == One * x
             b == One * y
  <2>1. a \in Nat /\ b \in Nat /\ distance(a, b) <= distance(a, a)
    BY <1>3, <1>4
  <2> HIDE DEF a, b
  <2>2. a = b
    BY <2>1 DEF distance
  <2> QED
    BY <2>2 DEF a, b
<1>6. x = y
  <2>1. CASE x < y
    BY <1>1, <1>4, <1>5, <2>1, ProductGrows
  <2>2. CASE y < x
    BY <1>1, <1>4, <1>5, <2>2, ProductGrows
  <2> QED
    BY <1>1, <1>4, <2>1, <2>2
<1> QED
  BY <1>2, <1>6 DEF y

(* and rounding keeps the order.                                           *)
LEMMA RoundedMonotone ==
  ASSUME NEW n \in 0 .. One * largest, NEW m \in 0 .. One * largest, n <= m
  PROVE  Rounded(n) <= Rounded(m)
<1> DEFINE x == Rounded(n)
           y == Rounded(m)
<1>1. /\ x \in Floats /\ y \in Floats
      /\ distance(n, One * x) <= distance(n, One * y)
      /\ distance(m, One * y) <= distance(m, One * x)
  BY RoundedNearest
<1>3. n = m => x = y
  OBVIOUS
<1> HIDE DEF x, y
<1>2. /\ x \in Nat /\ y \in Nat /\ One \in Nat \ {0} /\ n \in Nat /\ m \in Nat
      /\ One * x \in Nat /\ One * y \in Nat
  BY <1>1, FloatsNat, OneFacts, LargestFacts, ProductNat
<1>4. ASSUME y < x
      PROVE  FALSE
  <2> DEFINE a == One * x
             b == One * y
  <2>1. b + One <= a
    BY <1>2, <1>4, ProductGrows
  <2>2. a \in Nat /\ b \in Nat /\ distance(n, a) <= distance(n, b) /\ distance(m, b) <= distance(m, a)
    BY <1>1, <1>2
  <2> HIDE DEF a, b
  <2>3. n = m
    BY <1>2, <2>1, <2>2 DEF distance
  <2> QED
    BY <1>2, <1>3, <1>4, <2>3
<1>5. x <= y
  BY <1>2, <1>4
<1> QED
  BY <1>5 DEF x, y

(* Below a float of the binade of e the error is half a last place of it   *)
(* at most.                                                                *)
LEMMA RoundedError ==
  ASSUME NEW s \in 0..One, NEW e \in 0..Exponents,
         NEW n \in Nat, n <= One * (s * 2^e)
  PROVE  /\ n \in 0 .. One * largest
         /\ 2 * distance(n, One * Rounded(n)) <= One * 2^e
<1> DEFINE u == 2^e
           d == One * u
           k == n \div d
           r == n % d
<1>1. u \in Nat \ {0} /\ One \in Nat \ {0} /\ s \in Nat /\ d \in Nat \ {0}
  BY OneFacts
<1>2. n \in 0 .. One * largest
  <2>1. s * u \in Nat /\ s * u <= largest /\ largest \in Nat
    BY <1>1, MultipleIsFloat, LargestFacts, ProductNat
  <2>2. One * (s * u) <= One * largest
    BY <1>1, <2>1, ProductMonotone
  <2> QED
    BY <1>1, <2>1, <2>2
<1>3. k \in Nat /\ n = d * k + r /\ r \in 0 .. d - 1
  BY <1>1, RemainderExists, QuotientNat
<1>4. d = One * u /\ n <= One * (s * u)
  OBVIOUS
<1>5. Rounded(n) \in Nat /\ \A y \in Floats : distance(n, One * Rounded(n)) <= distance(n, One * y)
  BY <1>2, RoundedNearest, FloatsNat
<1> HIDE DEF d, k, r, u
<1>6. n <= d * s
  BY <1>1, <1>4
<1>7. One * (k * u) = d * k /\ One * ((k + 1) * u) = d * k + d /\ d * k \in Nat
  BY <1>1, <1>3, <1>4
<1>8. k <= s /\ (k = s => r = 0)
  <2>1. CASE s < k
    <3>1. d * s + d <= d * k /\ d * s \in Int
      BY <1>1, <1>3, <2>1, ProductGrows
    <3> QED
      BY <1>1, <1>3, <1>6, <1>7, <3>1
  <2> QED
    BY <1>1, <1>3, <1>6, <1>7, <2>1
<1>9. k * u \in Floats /\ (k < s => (k + 1) * u \in Floats)
  <2>1. k \in 0..One /\ (k < s => k + 1 \in 0..One)
    BY <1>1, <1>3, <1>8
  <2> QED
    BY <2>1, MultipleIsFloat DEF u
<1> DEFINE g == distance(n, One * Rounded(n))
<1>10. g \in Nat
  <2>1. One * Rounded(n) \in Nat
    BY <1>1, <1>5
  <2> QED
    BY <2>1 DEF distance
<1>11. g <= distance(n, One * (k * u)) /\ (k < s => g <= distance(n, One * ((k + 1) * u)))
  BY <1>5, <1>9
<1> HIDE DEF g
<1>12. g <= r /\ (k < s => g <= d - r)
  <2> DEFINE a == d * k
  <2>1. /\ a \in Nat /\ n = a + r
        /\ g <= distance(n, a) /\ (k < s => g <= distance(n, a + d))
    BY <1>3, <1>7, <1>11
  <2> HIDE DEF a
  <2> QED
    BY <1>1, <1>3, <1>10, <2>1 DEF distance
<1>13. 2 * g <= d
  BY <1>1, <1>3, <1>8, <1>10, <1>12
<1> QED
  BY <1>2, <1>13 DEF g, d, u

-----------------------------------------------------------------------------
(* Full scale and significands *)

LEMMA FullScaleFacts ==
  /\ FullScale = One * 2^(Exponents - 1) /\ 2^(Exponents - 1) \in Nat
  /\ FullScale \in Floats /\ FullScale \in Nat /\ FullScale < largest
<1> DEFINE v == 2^(Exponents - 1)
<1>1. /\ Exponents - 1 \in 0..Exponents /\ Exponents \in 1 .. Precision + Exponents
      /\ Exponents - 1 \in 0 .. Precision + Exponents
      /\ Precision \in 0 .. Precision + Exponents
      /\ Precision + (Exponents - 1) = Precision + Exponents - 1
  BY CompressorAssumption
<1>2. 2^(Precision + (Exponents - 1)) = One * v
  BY <1>1, PowerSum DEF One
<1>3. FullScale = One * v
  BY <1>1, <1>2 DEF FullScale
<1>4. v \in Nat \ {0} /\ One \in Nat \ {0} /\ 2^Exponents = 2 * v
  BY <1>1, OneFacts, PowerStep
<1>5. FullScale \in Floats
  BY <1>1, <1>3, <1>4, MultipleIsFloat
<1> HIDE DEF v
<1>6. largest = 2 * (One * v) /\ One * v \in Nat \ {0}
  BY <1>4 DEF largest
<1> QED
  BY <1>3, <1>4, <1>5, <1>6 DEF v

(* A float has a significand in the upper half of the range, or the lowest *)
(* exponent.                                                               *)
LEMMA Significand ==
  ASSUME NEW m \in Floats
  PROVE  \E s \in 0..One, k \in 0..Exponents :
           m = s * 2^k /\ (k = 0 \/ One < 2 * s)
<1> DEFINE T == {k \in 0..Exponents : \E s \in 0..One : m = s * 2^k}
<1>1. T \subseteq Nat
  <2>1. 0..Exponents \subseteq Nat
    BY OneFacts
  <2> QED
    BY <2>1, Zenon
<1>2. T # {}
  BY DEF Floats
<1>3. PICK k \in T : \A f \in T : k <= f
  BY <1>1, <1>2, LeastNatural, Zenon
<1>4. k \in 0..Exponents
  OBVIOUS
<1>5. PICK s \in 0..One : m = s * 2^k
  OBVIOUS
<1>6. ASSUME k # 0, 2 * s <= One
      PROVE  FALSE
  <2>1. k - 1 \in 0..Exponents /\ k \in 1 .. Precision + Exponents /\ ~(k <= k - 1)
    BY <1>4, <1>6, CompressorAssumption
  <2>2. 2^k = 2 * 2^(k - 1) /\ 2^(k - 1) \in Nat
    BY <2>1, PowerStep, OneFacts
  <2>3. m = (2 * s) * 2^(k - 1) /\ 2 * s \in 0..One
    BY <1>5, <1>6, <2>2, OneFacts
  <2>4. k - 1 \in T
    BY <2>1, <2>3, Zenon
  <2> QED
    BY <1>3, <2>1, <2>4
<1>7. k = 0 \/ One < 2 * s
  BY <1>4, <1>6, OneFacts
<1> QED
  BY <1>4, <1>5, <1>7

(* The same for its distance to the float above it.                        *)
LEMMA SignificandBelow ==
  ASSUME NEW m \in Floats, m < largest
  PROVE  \E s \in 0 .. One - 1, k \in 0..Exponents :
           m = s * 2^k /\ (k = 0 \/ One <= 2 * s)
<1>1. PICK s \in 0..One, k \in 0..Exponents : m = s * 2^k /\ (k = 0 \/ One < 2 * s)
  BY Significand
<1>2. CASE s < One
  <2>1. s \in 0 .. One - 1 /\ (k = 0 \/ One <= 2 * s)
    BY <1>1, <1>2, OneFacts
  <2> QED
    BY <1>1, <2>1
<1>3. CASE s = One
  <2> DEFINE h == 2^(Precision - 1)
  <2>1. k # Exponents
    BY <1>1, <1>3, LargestFacts DEF largest
  <2>2. k + 1 \in 0..Exponents /\ k + 1 \in 1 .. Precision + Exponents /\ k + 1 - 1 = k
    BY <2>1, CompressorAssumption
  <2>3. 2^(k + 1) = 2 * 2^k /\ 2^k \in Nat
    BY <2>2, PowerStep, OneFacts
  <2>4. h \in 0 .. One - 1 /\ One = 2 * h
    BY OneFacts
  <2> HIDE DEF h
  <2>5. m = h * 2^(k + 1)
    BY <1>1, <1>3, <2>3, <2>4
  <2>6. One <= 2 * h
    BY <2>4, OneFacts
  <2> QED
    BY <2>2, <2>4, <2>5, <2>6
<1> QED
  BY <1>2, <1>3, OneFacts

-----------------------------------------------------------------------------
(* The two terms of the follower's sum: w/One of x, rounded or not *)

Term(p, w, x) == p = w * x \/ p = One * Rounded(w * x)

LEMMA WeightedInRange ==
  ASSUME NEW w \in 0..One, NEW x \in Floats
  PROVE  /\ w * x \in Nat /\ w * x <= One * x
         /\ w * x \in 0 .. One * largest
<1>1. x \in Nat /\ x <= largest /\ One \in Nat /\ largest \in Nat /\ w \in Nat /\ w <= One
  BY FloatsNat, OneFacts, LargestFacts
<1>2. w * x \in Nat /\ One * x \in Nat /\ One * largest \in Nat
  BY <1>1, ProductNat
<1>3. x * w <= x * One
  BY <1>1, ProductMonotone
<1>4. One * x <= One * largest
  BY <1>1, ProductMonotone
<1>5. w * x <= One * x
  BY <1>1, <1>3
<1> QED
  BY <1>2, <1>4, <1>5

LEMMA TermNat ==
  ASSUME NEW w \in 0..One, NEW x \in Floats, NEW p, Term(p, w, x)
  PROVE  p \in Nat
<1>1. w * x \in Nat /\ Rounded(w * x) \in Nat /\ One \in Nat
  BY WeightedInRange, RoundedNearest, FloatsNat, OneFacts
<1>2. One * Rounded(w * x) \in Nat
  BY <1>1, ProductNat
<1> QED
  BY <1>1, <1>2 DEF Term

(* The rounding keeps the order of the terms.                              *)
LEMMA WeightedMonotone ==
  ASSUME NEW w \in 0..One, NEW x \in Floats, NEW y \in Floats, x <= y
  PROVE  w * x <= w * y /\ One * Rounded(w * x) <= One * Rounded(w * y)
<1>1. x \in Nat /\ y \in Nat /\ w \in Nat /\ One \in Nat
  BY FloatsNat, OneFacts
<1>2. w * x <= w * y
  BY <1>1, ProductMonotone
<1>3. Rounded(w * x) <= Rounded(w * y)
  BY <1>2, WeightedInRange, RoundedMonotone
<1>4. Rounded(w * x) \in Nat /\ Rounded(w * y) \in Nat
  BY WeightedInRange, RoundedNearest, FloatsNat
<1> QED
  BY <1>1, <1>2, <1>3, <1>4, ProductMonotone

(* A term is off by half a last place of x at most, on either side.        *)
LEMMA WeightedError ==
  ASSUME NEW w \in 0..One, NEW s \in 0..One, NEW k \in 0..Exponents
  PROVE  2 * distance(w * (s * 2^k), One * Rounded(w * (s * 2^k))) <= One * 2^k
<1> DEFINE m == s * 2^k
<1>1. m \in Floats
  BY MultipleIsFloat
<1>2. w * m \in Nat /\ w * m <= One * m
  BY <1>1, WeightedInRange
<1> QED
  BY <1>2, RoundedError

LEMMA TermAbove ==
  ASSUME NEW w \in 0..One, NEW x \in Floats, NEW s \in 0..One, NEW k \in 0..Exponents,
         x <= s * 2^k, NEW p, Term(p, w, x)
  PROVE  2 * p <= 2 * (w * (s * 2^k)) + One * 2^k
<1> DEFINE m == s * 2^k
           a == w * m
           b == One * Rounded(a)
           u == One * 2^k
<1>1. m \in Floats
  BY MultipleIsFloat
<1>2. w * x <= a /\ One * Rounded(w * x) <= b
  BY <1>1, WeightedMonotone
<1>3. 2 * distance(a, b) <= u
  BY WeightedError
<1>4. a \in Nat /\ b \in Nat
  BY <1>1, WeightedInRange, TermNat DEF Term
<1>5. u \in Nat /\ p \in Nat
  BY OneFacts, ProductNat, TermNat
<1>6. w * x \in Nat /\ One * Rounded(w * x) \in Nat
  BY WeightedInRange, TermNat DEF Term
<1>7. p <= a \/ p <= b
  BY <1>2 DEF Term
<1> HIDE DEF a, b, u, m
<1>8. 2 * p <= 2 * a + u
  BY <1>3, <1>4, <1>5, <1>7 DEF distance
<1> QED
  BY <1>8 DEF a, u, m

LEMMA TermBelow ==
  ASSUME NEW w \in 0..One, NEW x \in Floats, NEW s \in 0..One, NEW k \in 0..Exponents,
         s * 2^k <= x, NEW p, Term(p, w, x)
  PROVE  2 * (w * (s * 2^k)) <= 2 * p + One * 2^k
<1> DEFINE m == s * 2^k
           a == w * m
           b == One * Rounded(a)
           u == One * 2^k
<1>1. m \in Floats
  BY MultipleIsFloat
<1>2. a <= w * x /\ b <= One * Rounded(w * x)
  BY <1>1, WeightedMonotone
<1>3. 2 * distance(a, b) <= u
  BY WeightedError
<1>4. a \in Nat /\ b \in Nat
  BY <1>1, WeightedInRange, TermNat DEF Term
<1>5. u \in Nat /\ p \in Nat
  BY OneFacts, ProductNat, TermNat
<1>6. a <= p \/ b <= p
  BY <1>2 DEF Term
<1> HIDE DEF a, b, u, m
<1>7. 2 * a <= 2 * p + u
  BY <1>3, <1>4, <1>5, <1>6 DEF distance
<1> QED
  BY <1>7 DEF a, u, m

(* A weighted full scale is a float.                                       *)
LEMMA TermInScale ==
  ASSUME NEW w \in 0..One, NEW x \in Floats, x <= FullScale, NEW p, Term(p, w, x)
  PROVE  p <= w * FullScale
<1> DEFINE v == 2^(Exponents - 1)
           f == w * v
<1>1. Exponents - 1 \in 0..Exponents
  BY CompressorAssumption
<1>2. f \in Floats
  BY <1>1, MultipleIsFloat
<1>3. w * FullScale = One * f
  BY FullScaleFacts, OneFacts
<1>4. One * Rounded(One * f) = One * f
  BY <1>2, RoundedExact
<1>5. w * x <= w * FullScale /\ One * Rounded(w * x) <= One * Rounded(w * FullScale)
  BY FullScaleFacts, WeightedMonotone
<1> QED
  BY <1>3, <1>4, <1>5 DEF Term

LEMMA WeightsSumToOne ==
  ASSUME NEW c \in 0..One, NEW m \in Nat
  PROVE  /\ One - c \in 0..One
         /\ c * m + (One - c) * m = One * m
         /\ c * m \in Nat /\ (One - c) * m \in Nat
<1>1. One - c \in 0..One /\ c \in Nat /\ One - c \in Nat
  BY OneFacts
<1> QED
  BY <1>1, OneFacts, ProductNat

(* Whatever the build rounds, the envelope ends between its old value and  *)
(* the input or at the float next to them.                                 *)
LEMMA SumStaysNear ==
  ASSUME NEW c \in 0..One, NEW e \in Floats, e <= FullScale,
         NEW x \in Floats, x <= FullScale,
         NEW p, Term(p, c, e), NEW q, Term(q, One - c, x)
  PROVE  /\ Rounded(p + q) \in Floats /\ Rounded(p + q) <= FullScale
         /\ \A z \in Floats :
              /\ e < z /\ x < z => Rounded(p + q) <= z
              /\ z < e /\ z < x => z <= Rounded(p + q)
<1> DEFINE r == Rounded(p + q)
<1>1. /\ One - c \in 0..One /\ One \in Nat \ {0} /\ FullScale \in Floats
      /\ FullScale \in Nat /\ FullScale < largest
  BY OneFacts, FullScaleFacts
<1>2. p \in Nat /\ q \in Nat
  BY <1>1, TermNat
<1>3. p + q <= One * FullScale
  <2>1. p <= c * FullScale /\ q <= (One - c) * FullScale
    BY <1>1, TermInScale
  <2>2. /\ c * FullScale + (One - c) * FullScale = One * FullScale
        /\ c * FullScale \in Nat /\ (One - c) * FullScale \in Nat
    BY <1>1, WeightsSumToOne
  <2> QED
    BY <1>2, <2>1, <2>2
<1>4. /\ One * FullScale \in 0 .. One * largest /\ Rounded(One * FullScale) = FullScale
      /\ p + q \in 0 .. One * largest
  <2>1. One * FullScale \in 0 .. One * largest /\ Rounded(One * FullScale) = FullScale
    BY <1>1, RoundedExact
  <2>2. One * largest \in Nat
    BY OneFacts, LargestFacts
  <2> QED
    BY <1>2, <1>3, <2>1, <2>2
<1>5. r \in Floats /\ r <= FullScale
  BY <1>3, <1>4, RoundedMonotone, RoundedNearest
<1>6. ASSUME NEW m \in Floats, e <= m, x <= m, m <= FullScale, NEW z \in Floats, m < z
      PROVE  r <= z
  <2>1. m < largest /\ m \in Nat
    BY <1>1, <1>6, FloatsNat, LargestFacts
  <2>2. PICK s \in 0 .. One - 1, k \in 0..Exponents :
          m = s * 2^k /\ (k = 0 \/ One <= 2 * s)
    BY <2>1, SignificandBelow
  <2> DEFINE u == 2^k
             f == (s + 1) * u
  <2>3. /\ s \in 0..One /\ s + 1 \in 0..One /\ s \in Nat
        /\ u \in Nat \ {0} /\ f \in Floats /\ f = m + u
    <3>1. s \in 0..One /\ s + 1 \in 0..One /\ s \in Nat
      BY <1>1
    <3>2. u \in Nat \ {0}
      BY OneFacts
    <3>3. f \in Floats
      BY <3>1, MultipleIsFloat
    <3> HIDE DEF u
    <3>4. (s + 1) * u = s * u + u
      BY <3>1, <3>2
    <3> QED
      BY <2>2, <3>1, <3>2, <3>3, <3>4 DEF u
  <2>4. f <= z
    BY <1>6, <2>2, <2>3, NoFloatBetween
  <2>5. /\ 2 * p <= 2 * (c * m) + One * u
        /\ 2 * q <= 2 * ((One - c) * m) + One * u
    BY <1>1, <1>6, <2>2, <2>3, TermAbove
  <2>6. /\ c * m + (One - c) * m = One * m
        /\ c * m \in Nat /\ (One - c) * m \in Nat
    BY <2>1, WeightsSumToOne
  <2>7. One * u \in Nat /\ One * f = One * m + One * u
    BY <1>1, <2>1, <2>3
  <2> HIDE DEF u, f
  <2>8. p + q <= One * f
    BY <1>2, <2>5, <2>6, <2>7
  <2>9. One * f \in 0 .. One * largest /\ Rounded(One * f) = f
    BY <2>3, RoundedExact
  <2>10. r <= f
    BY <1>4, <2>8, <2>9, RoundedMonotone
  <2> HIDE DEF r
  <2> QED
    BY <1>5, <2>3, <2>4, <2>10, FloatsNat
<1>7. ASSUME NEW m \in Floats, m <= e, m <= x, NEW z \in Floats, z < m
      PROVE  z <= r
  <2>1. PICK s \in 0..One, k \in 0..Exponents :
          m = s * 2^k /\ (k = 0 \/ One < 2 * s)
    BY Significand
  <2> DEFINE u == 2^k
             f == (s - 1) * u
  <2>2. m \in Nat /\ z \in Nat /\ u \in Nat \ {0} /\ s \in Nat
    BY <2>1, OneFacts, FloatsNat
  <2>3. s # 0
    BY <1>7, <2>1, <2>2
  <2>4. s - 1 \in 0..One /\ s - 1 \in Nat /\ f \in Floats /\ m = f + u
    <3>1. s - 1 \in 0..One /\ s - 1 \in Nat
      BY <1>1, <2>2, <2>3
    <3>2. f \in Floats
      BY <3>1, MultipleIsFloat
    <3> HIDE DEF u
    <3>3. (s - 1) * u = s * u - u
      BY <2>2
    <3>4. s * u \in Nat
      BY <2>2, ProductNat
    <3> QED
      BY <2>1, <2>2, <3>1, <3>2, <3>3, <3>4 DEF u
  <2>5. f \in Nat
    BY <2>4, FloatsNat
  <2>6. z <= f
    <3>1. ASSUME f < z
          PROVE  FALSE
      <4>1. k = 0 \/ One <= 2 * (s - 1)
        BY <2>1, <2>2, OneFacts
      <4>2. (s - 1 + 1) * u <= z
        BY <2>4, <3>1, <4>1, NoFloatBetween
      <4>3. (s - 1 + 1) * u = m
        BY <2>1, <2>2
      <4> QED
        BY <1>7, <2>2, <4>2, <4>3
    <3> QED
      BY <2>2, <2>5, <3>1
  <2>7. /\ 2 * (c * m) <= 2 * p + One * u
        /\ 2 * ((One - c) * m) <= 2 * q + One * u
    BY <1>1, <1>7, <2>1, TermBelow
  <2>8. /\ c * m + (One - c) * m = One * m
        /\ c * m \in Nat /\ (One - c) * m \in Nat
    BY <2>2, WeightsSumToOne
  <2>9. One * u \in Nat /\ One * f \in Nat /\ One * m = One * f + One * u
    BY <1>1, <2>2, <2>4, <2>5
  <2> HIDE DEF u, f
  <2>10. One * f <= p + q
    BY <1>2, <2>7, <2>8, <2>9
  <2>11. One * f \in 0 .. One * largest /\ Rounded(One * f) = f
    BY <2>4, RoundedExact
  <2>12. f <= r
    BY <1>4, <2>10, <2>11, RoundedMonotone
  <2> HIDE DEF r
  <2> QED
    BY <1>5, <2>2, <2>5, <2>6, <2>12, FloatsNat
<1> HIDE DEF r
<1>8. ASSUME NEW z \in Floats
      PROVE  /\ e < z /\ x < z => r <= z
             /\ z < e /\ z < x => z <= r
  <2>1. e \in Nat /\ x \in Nat /\ z \in Nat
    BY FloatsNat
  <2>2. e <= x \/ x <= e
    BY <2>1
  <2> QED
    BY <1>6, <1>7, <2>1, <2>2
<1> QED
  BY <1>5, <1>8 DEF r

-----------------------------------------------------------------------------
(* The follower *)

(* The envelopes without and with what an infinite sample brings          *)
Numbers == {x \in Floats : x <= FullScale}
Signals == Numbers \cup {Infinite, NaN}

LEMMA SampleFacts ==
  /\ 0 \in Numbers /\ Samples \cup {0} \subseteq Signals
  /\ \A x \in Numbers : x \in Nat /\ finite(x) /\ x # Infinite /\ x # NaN
<1>1. 0 \in Numbers
  BY FloatsNat, FullScaleFacts DEF Numbers
<1>2. Samples \subseteq Signals
  BY CompressorAssumption DEF Signals, Numbers
<1>3. \A x \in Numbers : x \in Nat /\ finite(x) /\ x # Infinite /\ x # NaN
  BY FloatsNat DEF Numbers, finite, Infinite, NaN
<1> QED
  BY <1>1, <1>2, <1>3 DEF Signals

LEMMA FiniteMultiplyAdd ==
  ASSUME NEW c \in Nat, NEW x \in Nat, NEW y \in Nat
  PROVE  MultiplyAdd(c, x, y) = Rounded(c * x + One * y)
BY DEF MultiplyAdd, Infinite, NaN

LEMMA InfiniteMultiplyAdd ==
  ASSUME NEW c, NEW x, NEW y, {x, y} \cap {Infinite, NaN} # {}
  PROVE  MultiplyAdd(c, x, y) \in {Infinite, NaN}
BY DEF MultiplyAdd

LEMMA WeightFacts ==
  ASSUME coefficients \in Coefficients, NEW x
  PROVE  selected(x) \in weights /\ selected(x) \in 0..One
<1>1. coefficients[1] \in 0 .. One - 1 /\ coefficients[2] \in 0 .. One - 1
  BY CompressorAssumption
<1>2. 0 .. One - 1 \subseteq 0..One
  BY OneFacts
<1>3. coefficients[1] \in weights /\ coefficients[2] \in weights
  BY DEF weights
<1> QED
  BY <1>1, <1>2, <1>3 DEF selected

(* For each build the new envelope is a sum of two terms, rounded.         *)
LEMMA FollowIsSum ==
  ASSUME NEW b \in Builds, NEW c \in weights, c \in 0..One, NEW e \in Numbers,
         NEW x \in Samples \cup {0}, x \in Numbers
  PROVE  \E p, q : /\ Term(p, c, e) /\ Term(q, One - c, x)
                   /\ follow[b][c][e][x] = Rounded(p + q)
<1> DEFINE d == One - c
           u == Rounded(c * e)
           v == Rounded(d * x)
<1>1. c \in Nat /\ d \in 0..One /\ One \in Nat /\ e \in Floats /\ x \in Floats
  BY OneFacts DEF Numbers
<1>2. d \in Nat /\ e \in Nat /\ x \in Nat
  BY <1>1, FloatsNat
<1>3. c * e \in Nat /\ d * x \in Nat /\ u \in Nat /\ v \in Nat
  BY <1>1, WeightedInRange, RoundedNearest, FloatsNat
<1>4. One * u \in Nat /\ One * v \in Nat
  BY <1>1, <1>3, ProductNat
<1>5. MultiplyAdd(c, e, 0) = u /\ MultiplyAdd(d, x, 0) = v
  <2>1. c * e + One * 0 = c * e /\ d * x + One * 0 = d * x
    BY <1>1, <1>3
  <2>2. MultiplyAdd(c, e, 0) = Rounded(c * e + One * 0)
    BY <1>1, <1>2, FiniteMultiplyAdd
  <2>3. MultiplyAdd(d, x, 0) = Rounded(d * x + One * 0)
    <3> HIDE DEF d
    <3> QED
      BY <1>2, FiniteMultiplyAdd
  <2> QED
    BY <2>1, <2>2, <2>3
<1>6. follow[b][c][e][x] = weightedSum(b, c, e, x)
  BY <1>1 DEF follow
<1>7. /\ weightedSum("separate", c, e, x) = MultiplyAdd(One, u, v)
      /\ weightedSum("fuseEnvelope", c, e, x) = MultiplyAdd(c, e, v)
      /\ weightedSum("fuseInput", c, e, x) = MultiplyAdd(d, x, u)
  BY <1>5 DEF weightedSum
<1>8. Term(c * e, c, e) /\ Term(One * u, c, e) /\ Term(d * x, d, x) /\ Term(One * v, d, x)
  BY DEF Term
<1>9. CASE b = "separate"
  <2>1. follow[b][c][e][x] = Rounded(One * u + One * v)
    BY <1>1, <1>3, <1>6, <1>7, <1>9, FiniteMultiplyAdd
  <2> QED
    BY <1>8, <2>1
<1>10. CASE b = "fuseEnvelope"
  <2>1. follow[b][c][e][x] = Rounded(c * e + One * v)
    BY <1>1, <1>2, <1>3, <1>6, <1>7, <1>10, FiniteMultiplyAdd
  <2> QED
    BY <1>8, <2>1
<1>11. CASE b = "fuseInput"
  <2>1. follow[b][c][e][x] = Rounded(d * x + One * u)
    BY <1>1, <1>2, <1>3, <1>6, <1>7, <1>11, FiniteMultiplyAdd
  <2>2. d * x + One * u = One * u + d * x
    BY <1>3, <1>4
  <2> QED
    BY <1>8, <2>1, <2>2
<1> QED
  BY <1>9, <1>10, <1>11 DEF Builds

LEMMA FollowStaysNear ==
  ASSUME NEW b \in Builds, NEW c \in weights, c \in 0..One, NEW e \in Numbers,
         NEW x \in Samples \cup {0}, x \in Numbers
  PROVE  /\ follow[b][c][e][x] \in Numbers
         /\ \A z \in Floats :
              /\ e < z /\ x < z => follow[b][c][e][x] <= z
              /\ z < e /\ z < x => z <= follow[b][c][e][x]
<1>1. PICK p, q : /\ Term(p, c, e) /\ Term(q, One - c, x)
                  /\ follow[b][c][e][x] = Rounded(p + q)
  BY FollowIsSum
<1>2. e \in Floats /\ e <= FullScale /\ x \in Floats /\ x <= FullScale
  BY DEF Numbers
<1>3. /\ Rounded(p + q) \in Floats /\ Rounded(p + q) <= FullScale
      /\ \A z \in Floats :
           /\ e < z /\ x < z => Rounded(p + q) <= z
           /\ z < e /\ z < x => z <= Rounded(p + q)
  BY <1>1, <1>2, SumStaysNear
<1> QED
  BY <1>1, <1>3 DEF Numbers

LEMMA FollowType ==
  ASSUME NEW b \in Builds, NEW c \in weights, c \in 0..One, NEW e \in Signals,
         NEW x \in Samples \cup {0}
  PROVE  follow[b][c][e][x] \in Signals
<1>1. x \in Signals
  BY SampleFacts
<1>2. CASE e \in Numbers /\ x \in Numbers
  BY <1>2, FollowStaysNear DEF Signals
<1>3. CASE e \in {Infinite, NaN} \/ x \in {Infinite, NaN}
  <2> DEFINE u == MultiplyAdd(c, e, 0)
             v == MultiplyAdd(One - c, x, 0)
  <2>1. follow[b][c][e][x] = weightedSum(b, c, e, x)
    BY DEF follow, Signals, Numbers
  <2>2. /\ weightedSum("separate", c, e, x) = MultiplyAdd(One, u, v)
        /\ weightedSum("fuseEnvelope", c, e, x) = MultiplyAdd(c, e, v)
        /\ weightedSum("fuseInput", c, e, x) = MultiplyAdd(One - c, x, u)
    BY DEF weightedSum
  <2>3. /\ e \in {Infinite, NaN} => u \in {Infinite, NaN}
        /\ x \in {Infinite, NaN} => v \in {Infinite, NaN}
    BY InfiniteMultiplyAdd
  <2> HIDE DEF u, v
  <2>4. /\ MultiplyAdd(One, u, v) \in {Infinite, NaN}
        /\ MultiplyAdd(c, e, v) \in {Infinite, NaN}
        /\ MultiplyAdd(One - c, x, u) \in {Infinite, NaN}
    BY <1>3, <2>3, InfiniteMultiplyAdd
  <2> QED
    BY <2>1, <2>2, <2>4 DEF Builds, Signals
<1> QED
  BY <1>1, <1>2, <1>3 DEF Signals

-----------------------------------------------------------------------------
(* The loudest channel *)

LEMMA MaxOfEither ==
  ASSUME NEW a, NEW b
  PROVE  maxOf(a, b) \in {a, b}
BY DEF maxOf

LEMMA MaxOfNumbers ==
  ASSUME NEW a \in Nat, NEW b \in Nat
  PROVE  maxOf(a, b) >= a /\ maxOf(a, b) >= b
BY DEF maxOf, Infinite, NaN

(* A NaN is never taken.                                                   *)
LEMMA MaxOfNaN ==
  ASSUME NEW a
  PROVE  maxOf(a, NaN) = a
BY DEF maxOf, Infinite, NaN

Peaks(frame, f) ==
  f = [c \in 0..Channels |-> IF c = 0 THEN 0 ELSE maxOf(f[c - 1], frame[c])]

(* The loop over the channels has a result.                                *)
LEMMA PeaksExist ==
  ASSUME NEW frame
  PROVE  \E f : Peaks(frame, f)
<1> DEFINE UpTo(n, f) ==
             f = [c \in 0..n |-> IF c = 0 THEN 0 ELSE maxOf(f[c - 1], frame[c])]
           T == {n \in Nat : ~ \E f : UpTo(n, f)}
<1>1. SUFFICES T = {}
  BY <1>1, CompressorAssumption, Zenon DEF Peaks
<1>2. ASSUME T # {}
      PROVE  FALSE
  <2>1. T \subseteq Nat
    OBVIOUS
  <2>2. PICK n \in T : \A m \in T : n <= m
    BY <1>2, <2>1, LeastNatural, Zenon
  <2>3. n \in Nat /\ ~ \E f : UpTo(n, f)
    OBVIOUS
  <2>4. CASE n = 0
    <3>1. UpTo(0, [c \in 0..0 |-> 0])
      OBVIOUS
    <3> QED
      BY <2>3, <2>4, <3>1
  <2>5. CASE n # 0
    <3>1. n - 1 \in Nat /\ ~(n <= n - 1)
      BY <2>3, <2>5
    <3>2. n - 1 \notin T
      BY <2>2, <3>1
    <3>3. PICK f : UpTo(n - 1, f)
      BY <3>1, <3>2
    <3> DEFINE g == [c \in 0..n |-> IF c = n THEN maxOf(f[n - 1], frame[n]) ELSE f[c]]
    <3>4. ASSUME NEW c \in 0..n
          PROVE  g[c] = IF c = 0 THEN 0 ELSE maxOf(g[c - 1], frame[c])
      <4>1. CASE c = n
        BY <2>3, <2>5, <4>1
      <4>2. CASE c # n
        <5>1. c \in 0 .. n - 1
          BY <2>3, <4>2
        <5>2. f[c] = IF c = 0 THEN 0 ELSE maxOf(f[c - 1], frame[c])
          BY <3>3, <5>1
        <5>3. c # 0 => c - 1 \in 0..n /\ c - 1 # n
          BY <2>3, <5>1
        <5> QED
          BY <4>2, <5>2, <5>3
      <4> QED
        BY <4>1, <4>2
    <3>5. UpTo(n, g)
      <4>1. g = [c \in 0..n |-> g[c]]
        OBVIOUS
      <4> HIDE DEF g
      <4> QED
        BY <3>4, <4>1
    <3> QED
      BY <2>3, <3>5
  <2> QED
    BY <2>4, <2>5
<1> QED
  BY <1>2

LEMMA PeakIsLast ==
  ASSUME NEW frame
  PROVE  \E f : Peaks(frame, f) /\ Peak(frame) = f[Channels]
BY PeaksExist, Zenon DEF Peaks, Peak

LEMMA MaxOfIsNumber ==
  ASSUME NEW a, NEW b, a # NaN
  PROVE  maxOf(a, b) # NaN
BY DEF maxOf, Infinite, NaN

(* What the loop over the channels takes from a frame                      *)
WithoutInfinite(frame) == \A c \in 1..Channels : frame[c] # Infinite

LEMMA PeakFacts ==
  ASSUME NEW frame \in Frames
  PROVE  /\ Peak(frame) \in {frame[c] : c \in 1..Channels} \cup {0}
         /\ Peak(frame) # NaN
         /\ WithoutInfinite(frame) =>
              \A c \in 1..Channels : frame[c] # NaN => frame[c] <= Peak(frame)
<1>1. PICK f : Peaks(frame, f) /\ Peak(frame) = f[Channels]
  BY PeakIsLast
<1>2. Channels \in Nat \ {0}
  BY CompressorAssumption
<1>3. ASSUME NEW c \in 0..Channels
      PROVE  f[c] = IF c = 0 THEN 0 ELSE maxOf(f[c - 1], frame[c])
  BY <1>1, <1>3 DEF Peaks
<1> DEFINE Good(n) ==
             /\ f[n] \in {frame[c] : c \in 1..n} \cup {0}
             /\ f[n] # NaN
             /\ WithoutInfinite(frame) =>
                  \A c \in 1..n : frame[c] # NaN => frame[c] <= f[n]
           T == {n \in 0..Channels : ~Good(n)}
<1>4. ASSUME T # {}
      PROVE  FALSE
  <2>1. T \subseteq Nat
    <3>1. 0..Channels \subseteq Nat
      BY <1>2
    <3> QED
      BY <3>1, Zenon
  <2>2. PICK n \in T : \A m \in T : n <= m
    BY <1>4, <2>1, LeastNatural, Zenon
  <2>3. n \in 0..Channels /\ n \in Nat
    BY <1>2
  <2>4. ~Good(n)
    OBVIOUS
  <2>5. CASE n = 0
    <3>1. f[0] = 0
      BY <1>3, <2>3, <2>5
    <3>2. 0 # NaN /\ 1..0 = {}
      BY DEF NaN
    <3> QED
      BY <2>4, <2>5, <3>1, <3>2
  <2>6. CASE n # 0
    <3>1. n - 1 \in 0..Channels /\ ~(n <= n - 1)
      BY <1>2, <2>3, <2>6
    <3>2. Good(n - 1)
      <4>1. n - 1 \notin T
        BY <2>2, <3>1
      <4> QED
        BY <3>1, <4>1, Zenon
    <3> DEFINE a == f[n - 1]
               b == frame[n]
    <3>3. f[n] = maxOf(a, b)
      BY <1>3, <2>3, <2>6
    <3>4. n \in 1..n /\ n \in 1..Channels /\ 1 .. n - 1 \subseteq 1..n
          /\ \A c \in 1..n : c = n \/ c \in 1 .. n - 1
      BY <1>2, <2>3, <2>6
    <3>5. b \in Samples
      BY <3>4 DEF Frames
    <3>6. /\ a \in {frame[c] : c \in 1 .. n - 1} \cup {0} /\ a # NaN
          /\ WithoutInfinite(frame) =>
               \A c \in 1 .. n - 1 : frame[c] # NaN => frame[c] <= a
      BY <3>2
    <3> HIDE DEF a, b
    <3>7. f[n] \in {a, b} /\ f[n] # NaN
      BY <3>3, <3>6, MaxOfEither, MaxOfIsNumber
    <3>8. f[n] \in {frame[c] : c \in 1..n} \cup {0}
      BY <3>4, <3>6, <3>7 DEF b
    <3>9. ASSUME WithoutInfinite(frame), NEW c \in 1..n, frame[c] # NaN
          PROVE  frame[c] <= f[n]
      <4>1. a \in Numbers
        <5>1. a = 0 \/ \E d \in 1..Channels : a = frame[d]
          BY <1>2, <2>3, <3>6
        <5>2. a = 0 \/ (a \in Samples /\ a # Infinite)
          BY <3>9, <5>1 DEF Frames, WithoutInfinite
        <5> QED
          BY <3>6, <5>2, SampleFacts DEF Signals
      <4>2. CASE b = NaN
        <5>1. f[n] = a /\ c \in 1 .. n - 1
          BY <3>3, <3>4, <3>9, <4>2, MaxOfNaN DEF b
        <5> QED
          BY <3>6, <3>9, <5>1
      <4>3. CASE b # NaN
        <5>1. b \in Numbers
          <6>1. b # Infinite
            BY <3>4, <3>9 DEF b, WithoutInfinite
          <6> QED
            BY <3>5, <4>3, <6>1, SampleFacts DEF Signals
        <5>2. f[n] >= a /\ f[n] >= b /\ a \in Nat /\ b \in Nat /\ f[n] \in Nat
          BY <3>3, <3>7, <4>1, <5>1, SampleFacts, MaxOfNumbers
        <5>3. CASE c = n
          BY <5>2, <5>3 DEF b
        <5>4. CASE c \in 1 .. n - 1
          <6>1. frame[c] <= a
            BY <3>6, <3>9, <5>4
          <6>2. frame[c] \in Nat
            <7>1. c \in 1..Channels
              BY <2>3, <5>4, <1>2
            <7>2. frame[c] \in Samples /\ frame[c] # Infinite
              BY <3>9, <7>1 DEF Frames, WithoutInfinite
            <7> QED
              BY <3>9, <7>2, SampleFacts DEF Signals
          <6> QED
            BY <5>2, <6>1, <6>2
        <5> QED
          BY <3>4, <5>3, <5>4
      <4> QED
        BY <4>2, <4>3
    <3>10. Good(n)
      BY <3>7, <3>8, <3>9
    <3> QED
      BY <2>4, <3>10
  <2> QED
    BY <2>5, <2>6
<1>5. Good(Channels)
  <2>1. Channels \in 0..Channels
    BY <1>2
  <2> QED
    BY <1>4, <2>1, Zenon
<1> QED
  BY <1>1, <1>5

(* With finite samples the loop finds the loudest channel.                 *)
LEMMA PeakIsLoudest ==
  ASSUME NEW frame \in Frames, WithoutInfinite(frame)
  PROVE  LET numbers == {frame[c] : c \in 1..Channels} \ {NaN}
         IN  /\ Infinite \notin numbers
             /\ Peak(frame) \in Numbers
             /\ Peak(frame) = CHOOSE x \in numbers \cup {0} : \A y \in numbers : x >= y
<1> DEFINE numbers == {frame[c] : c \in 1..Channels} \ {NaN}
           loud == CHOOSE x \in numbers \cup {0} : \A y \in numbers : x >= y
           p == Peak(frame)
<1>1. Infinite \notin numbers /\ numbers \subseteq Numbers
  <2>1. numbers \subseteq Samples /\ Infinite \notin numbers
    BY DEF Frames, WithoutInfinite
  <2> QED
    BY <2>1, SampleFacts DEF Signals
<1>2. p \in numbers \cup {0} /\ p \in Numbers
  BY <1>1, PeakFacts, SampleFacts
<1>3. \A y \in numbers : y \in Nat
  BY <1>1, SampleFacts
<1>4. \A y \in numbers : p >= y
  <2>1. \A y \in numbers : y <= p
    BY PeakFacts
  <2>2. p \in Nat
    BY <1>2, SampleFacts
  <2> HIDE DEF p, numbers
  <2> QED
    BY <1>3, <2>1, <2>2
<1>5. loud \in numbers \cup {0} /\ \A y \in numbers : loud >= y
  BY <1>2, <1>4, Zenon
<1> HIDE DEF p, loud, numbers
<1>6. p = loud
  BY <1>2, <1>3, <1>4, <1>5
<1> QED
  BY <1>1, <1>2, <1>6 DEF p, loud, numbers

LEMMA FollowOfNumber ==
  ASSUME NEW peak \in Numbers
  PROVE  maxOf(0, peak) = peak
BY SampleFacts DEF maxOf, Infinite, NaN

-----------------------------------------------------------------------------
(* Levels *)

LEMMA FloorFacts ==
  ASSUME NEW x \in Floats
  PROVE  /\ maxOf(x, MinimumLevel) \in Nat
         /\ One * maxOf(x, MinimumLevel) \in 0 .. One * largest
<1>1. x \in Nat /\ MinimumLevel \in Floats
  BY FloatsNat, CompressorAssumption
<1>2. maxOf(x, MinimumLevel) \in Floats
  BY <1>1, MaxOfEither
<1> QED
  BY <1>2, RoundedExact, FloatsNat

LEMMA FloorMonotone ==
  ASSUME NEW x \in Floats, NEW y \in Floats, x <= y
  PROVE  maxOf(x, MinimumLevel) <= maxOf(y, MinimumLevel)
<1>1. x \in Nat /\ y \in Nat /\ MinimumLevel \in Nat
  BY FloatsNat, CompressorAssumption
<1> QED
  BY <1>1 DEF maxOf, Infinite, NaN

(* Within a power of two the level rises by one for every step of y.       *)
LEMMA LevelRange ==
  ASSUME NEW y \in Nat, One * y \in 0 .. One * largest
  PROVE  LET e == exponent(One * y)
             h == 2^(Precision - 1)
         IN  /\ e \in 0..Exponents
             /\ y \div 2^e \in 0..One /\ (e = 0 \/ h <= y \div 2^e)
<1> DEFINE e == exponent(One * y)
           h == 2^(Precision - 1)
           u == 2^e
           k == y \div u
           r == y % u
<1>1. /\ e \in 0..Exponents /\ One * y <= One * (One * 2^e)
      /\ \A f \in 0..Exponents : One * y <= One * (One * 2^f) => e <= f
  BY ExponentFacts
<1>2. /\ u \in Nat \ {0} /\ One \in Nat \ {0} /\ h \in Nat /\ One = 2 * h
      /\ e \in Nat
  BY <1>1, OneFacts
<1>3. k \in Nat /\ y = u * k + r /\ r \in 0 .. u - 1
  BY <1>2, RemainderExists, QuotientNat
<1>4. ASSUME NEW z \in Nat, One * y <= One * z
      PROVE  y <= z
  BY <1>2, <1>4, ProductGrows
<1>5. y <= One * u
  <2>1. One * u \in Nat
    BY <1>2, ProductNat
  <2> QED
    BY <1>1, <1>4, <2>1
<1>6. k <= One
  <2> HIDE DEF u, k, r
  <2>1. ASSUME One < k
        PROVE  FALSE
    <3>1. u * One + u <= u * k
      BY <1>2, <1>3, <2>1, ProductGrows
    <3>2. u * k \in Nat /\ u * One \in Nat
      BY <1>2, <1>3, ProductNat
    <3> QED
      BY <1>2, <1>3, <1>5, <3>1, <3>2
  <2> QED
    BY <1>2, <1>3, <2>1
<1>7. ASSUME e # 0, k < h
      PROVE  FALSE
  <2> DEFINE v == 2^(e - 1)
  <2>1. e - 1 \in 0..Exponents /\ e \in 1 .. Precision + Exponents /\ ~(e <= e - 1)
    BY <1>1, <1>2, <1>7, CompressorAssumption
  <2>2. u = 2 * v /\ v \in Nat
    BY <2>1, OneFacts, PowerStep
  <2>3. ~(One * y <= One * (One * v))
    BY <1>1, <2>1
  <2> HIDE DEF u, k, r, v, h
  <2>4. u * k + u <= u * h
    BY <1>2, <1>3, <1>7, ProductGrows
  <2>5. u * h = One * v /\ u * h \in Nat /\ u * k \in Nat
    BY <1>2, <1>3, <2>2, ProductNat
  <2>6. y <= One * v
    BY <1>2, <1>3, <2>4, <2>5
  <2>7. One * y <= One * (One * v)
    BY <1>2, <2>5, <2>6, ProductMonotone
  <2> QED
    BY <2>3, <2>7
<1>8. e = 0 \/ h <= k
  BY <1>2, <1>3, <1>7
<1> QED
  BY <1>1, <1>2, <1>3, <1>6, <1>8

LEMMA ExponentMonotone ==
  ASSUME NEW n \in 0 .. One * largest, NEW m \in 0 .. One * largest, n <= m
  PROVE  exponent(n) <= exponent(m)
<1>1. exponent(m) \in 0..Exponents /\ m <= One * (One * 2^exponent(m))
  BY ExponentFacts
<1>2. One * (One * 2^exponent(m)) \in Nat /\ n \in Nat /\ m \in Nat
  BY <1>1, OneFacts, LargestFacts, ProductNat
<1>3. n <= One * (One * 2^exponent(m))
  BY <1>1, <1>2
<1> QED
  BY <1>1, <1>3, ExponentFacts

LEMMA QuotientMonotone ==
  ASSUME NEW d \in Nat \ {0}, NEW n \in Nat, NEW m \in Nat, n <= m
  PROVE  n \div d <= m \div d
<1> DEFINE p == n \div d
           q == m \div d
<1>1. /\ n = d * p + (n % d) /\ n % d \in 0 .. d - 1
      /\ m = d * q + (m % d) /\ m % d \in 0 .. d - 1
      /\ p \in Nat /\ q \in Nat
  BY RemainderExists, QuotientNat
<1> HIDE DEF p, q
<1>2. ASSUME q < p
      PROVE  FALSE
  <2>1. d * q + d <= d * p
    BY <1>1, <1>2, ProductGrows
  <2>2. d * q \in Nat /\ d * p \in Nat
    BY <1>1, ProductNat
  <2> QED
    BY <1>1, <2>1, <2>2
<1> QED
  BY <1>1, <1>2 DEF p, q

LEMMA LevelFacts ==
  ASSUME NEW x \in Floats
  PROVE  /\ Level[x] \in Int
         /\ \A y \in Floats : x <= y => Level[x] <= Level[y]
<1> DEFINE h == 2^(Precision - 1)
           floor(y) == maxOf(y, MinimumLevel)
           e(y) == exponent(One * floor(y))
           k(y) == floor(y) \div 2^e(y)
<1>1. h \in Nat /\ One = 2 * h
  BY OneFacts
<1>2. ASSUME NEW y \in Floats
      PROVE  /\ Level[y] = (e(y) - 1) * h + k(y)
             /\ e(y) \in Nat /\ k(y) \in 0..One /\ (e(y) = 0 \/ h <= k(y))
  <2>1. Level[y] = (e(y) - 1) * h + k(y)
    BY DEF Level
  <2>2. e(y) \in 0..Exponents /\ k(y) \in 0..One /\ (e(y) = 0 \/ h <= k(y))
    BY FloorFacts, LevelRange
  <2> QED
    BY <2>1, <2>2, OneFacts
<1>3. ASSUME NEW y \in Floats
      PROVE  Level[y] \in Int
  <2>1. e(y) \in Nat /\ k(y) \in 0..One /\ One \in Nat /\ Level[y] = (e(y) - 1) * h + k(y)
    BY <1>2, OneFacts
  <2> HIDE DEF e, k, h
  <2> QED
    BY <1>1, <2>1
<1>4. ASSUME NEW y \in Floats, x <= y
      PROVE  Level[x] <= Level[y]
  <2>1. floor(x) <= floor(y) /\ floor(x) \in Nat /\ floor(y) \in Nat
    BY <1>4, FloorFacts, FloorMonotone
  <2>2. e(x) <= e(y)
    <3>1. One * floor(x) <= One * floor(y)
      BY <2>1, OneFacts, ProductMonotone
    <3> QED
      BY <3>1, FloorFacts, ExponentMonotone
  <2>3. e(x) = e(y) => k(x) <= k(y)
    <3>1. 2^e(x) \in Nat \ {0}
      BY FloorFacts, LevelRange, OneFacts
    <3> HIDE DEF floor
    <3> QED
      BY <2>1, <3>1, QuotientMonotone
  <2>4. /\ Level[x] = (e(x) - 1) * h + k(x) /\ e(x) \in Nat /\ k(x) \in 0..One
        /\ Level[y] = (e(y) - 1) * h + k(y) /\ e(y) \in Nat /\ k(y) \in 0..One
        /\ (e(y) = 0 \/ h <= k(y))
    BY <1>2
  <2> DEFINE a == e(x)
             b == e(y)
             i == k(x)
             j == k(y)
  <2>5. /\ a \in Nat /\ b \in Nat /\ i \in Nat /\ j \in Nat /\ i <= 2 * h
        /\ a <= b /\ (a = b => i <= j) /\ (b = 0 \/ h <= j)
        /\ Level[x] = (a - 1) * h + i /\ Level[y] = (b - 1) * h + j
    BY <1>1, <2>2, <2>3, <2>4
  <2> HIDE DEF a, b, i, j, h
  <2>6. CASE a = b
    BY <1>1, <2>5, <2>6
  <2>7. CASE a < b
    <3>1. h * a + h <= h * b
      <4>1. h * (a + 1) <= h * b
        BY <1>1, <2>5, <2>7, ProductMonotone
      <4> QED
        BY <1>1, <2>5, <4>1
    <3>2. h * a \in Nat /\ h * b \in Nat
      BY <1>1, <2>5, ProductNat
    <3>3. (a - 1) * h = h * a - h /\ (b - 1) * h = h * b - h
      BY <1>1, <2>5
    <3> QED
      BY <1>1, <2>5, <2>7, <3>1, <3>2, <3>3
  <2> QED
    BY <2>5, <2>6, <2>7
<1> QED
  BY <1>3, <1>4

LEMMA GainType ==
  ASSUME NEW x \in Int
  PROVE  gainReduction(x) \in Int
<1> DEFINE a == x - Threshold
<1>1. a \in Int /\ gainReduction(x) = reductionAbove(a)
  BY CurveAssumption DEF gainReduction
<1> HIDE DEF a
<1>2. reductionAbove(a) \in Int
  BY <1>1, CurveAssumption, SlopeRange DEF reductionAbove, softKnee
<1> QED
  BY <1>1, <1>2

(* Nothing is reduced in silence.                                          *)
LEMMA SilenceIsKept == Level[0] \in Int /\ gainReduction(Level[0]) = 0
<1>1. Level[0] \in Int
  BY FloatsNat, LevelFacts
<1> QED
  BY <1>1, CurveAssumption, SilenceAssumption, SlopeRange DEF gainReduction, reductionAbove

LEMMA ReductionType ==
  ASSUME NEW x \in Floats \cup {Infinite, NaN}
  PROVE  /\ Reduction[x] \in Int
         /\ x \in Floats => Reduction[x] = gainReduction(Level[x])
<1>1. CASE x \in Floats
  <2>1. Reduction[x] = gainReduction(Level[x])
    BY <1>1, FloatsNat DEF Reduction, finite, Infinite
  <2> QED
    BY <1>1, <2>1, LevelFacts, GainType
<1>2. CASE x \in {Infinite, NaN}
  <2>1. Reduction[x] \in {Mute, NotANumber}
    BY <1>2 DEF Reduction, finite, Infinite, NaN
  <2>2. x \notin Floats
    BY <1>2, FloatsNat DEF Infinite, NaN
  <2> QED
    BY <2>1, <2>2 DEF Mute, NotANumber
<1> QED
  BY <1>1, <1>2

-----------------------------------------------------------------------------
(* What is shown *)

(* The reduction shown for a block whose highest envelope is x             *)
shown(x) == IF Reduction[x] = NotANumber THEN 0 ELSE Reduction[x]

LEMMA LowerFacts ==
  ASSUME NEW a \in Int, NEW b \in Int
  PROVE  /\ a <= b => lower(a, b) = a
         /\ b <= a => lower(a, b) = b
BY DEF lower

LEMMA ShownOfFloat ==
  ASSUME NEW x \in Floats
  PROVE  /\ shown(x) = Reduction[x] /\ Reduction[x] \in Int
         /\ Mute < Reduction[x] /\ Reduction[x] <= 0
         /\ ~(slope < 0) => Reduction[x] = 0
<1>1. Reduction[x] = gainReduction(Level[x]) /\ Level[x] \in Int /\ Reduction[x] \in Int
  BY ReductionType, LevelFacts
<1>2. Mute < Reduction[x]
  BY <1>1, MuteAssumption
<1>3. Reduction[x] <= 0
  BY <1>1, NeverBoosts
<1>4. ASSUME ~(slope < 0)
      PROVE  Reduction[x] = 0
  <2> DEFINE a == Level[x] - Threshold
  <2>1. slope = 0 /\ a \in Int /\ Knee \in Int
    BY <1>1, <1>4, SlopeRange, CurveAssumption
  <2>2. Reduction[x] = reductionAbove(a)
    BY <1>1 DEF gainReduction
  <2> HIDE DEF a
  <2>3. reductionAbove(a) = 0
    BY <2>1 DEF reductionAbove, softKnee
  <2> QED
    BY <2>2, <2>3
<1> QED
  BY <1>1, <1>2, <1>3, <1>4 DEF shown, NotANumber

LEMMA ShownOfInfinite ==
  /\ Infinite \notin Floats /\ NaN \notin Floats /\ Infinite # NaN
  /\ Reduction[NaN] = NotANumber
  /\ slope < 0 => Reduction[Infinite] = Mute /\ shown(Infinite) = Mute
  /\ ~(slope < 0) => Reduction[Infinite] = NotANumber /\ shown(Infinite) = 0
<1>1. Infinite \notin Floats /\ NaN \notin Floats /\ Infinite # NaN
  BY FloatsNat DEF Infinite, NaN
<1>2. Reduction[NaN] = NotANumber
  BY DEF Reduction, finite, Infinite, NaN
<1>3. Reduction[Infinite] = IF slope < 0 THEN Mute ELSE NotANumber
  BY DEF Reduction, finite, Infinite, NaN
<1> QED
  BY <1>1, <1>2, <1>3 DEF shown, Mute, NotANumber

(* Nothing is reduced in silence.                                          *)
LEMMA ShownOfSilence == shown(0) = 0
BY FloatsNat, ShownOfFloat, ReductionType, SilenceIsKept

(* std::min over the reductions is the reduction of std::max over the      *)
(* envelopes: the curve falls, minus infinity is below it, and neither     *)
(* takes a NaN.                                                            *)
LEMMA LowestIsOfHighest ==
  ASSUME NEW x \in Floats \cup {Infinite}, NEW y \in Floats \cup {Infinite, NaN}
  PROVE  lower(shown(x), Reduction[y]) = shown(maxOf(x, y))
<1>1. shown(x) \in Int /\ shown(x) <= 0
  BY ShownOfFloat, ShownOfInfinite DEF Mute
<1>2. CASE y = NaN
  <2>1. maxOf(x, y) = x /\ Reduction[y] = 1
    BY <1>2, MaxOfNaN, ShownOfInfinite DEF NotANumber
  <2> QED
    BY <1>1, <2>1, LowerFacts
<1>3. CASE x \in Floats /\ y \in Floats
  <2>1. x \in Nat /\ y \in Nat
    BY <1>3, FloatsNat
  <2>2. /\ x <= y => Level[x] <= Level[y]
        /\ y <= x => Level[y] <= Level[x]
        /\ Level[x] \in Int /\ Level[y] \in Int
    BY <1>3, LevelFacts
  <2>3. /\ Reduction[x] = gainReduction(Level[x])
        /\ Reduction[y] = gainReduction(Level[y])
    BY <1>3, ReductionType
  <2>4. /\ x <= y => Reduction[y] <= Reduction[x]
        /\ y <= x => Reduction[x] <= Reduction[y]
    BY <2>2, <2>3, CurveKeepsOrder
  <2>5. maxOf(x, y) = IF x < y THEN y ELSE x
    BY <2>1 DEF maxOf, Infinite, NaN
  <2>6. /\ shown(x) = Reduction[x] /\ shown(y) = Reduction[y]
        /\ Reduction[x] \in Int /\ Reduction[y] \in Int
    BY <1>3, ShownOfFloat
  <2>7. CASE x < y
    BY <2>1, <2>4, <2>5, <2>6, <2>7, LowerFacts
  <2>8. CASE ~(x < y)
    BY <2>1, <2>4, <2>5, <2>6, <2>8, LowerFacts
  <2> QED
    BY <2>7, <2>8
<1>4. CASE y # NaN /\ (x = Infinite \/ y = Infinite)
  <2>1. maxOf(x, y) = Infinite
    BY <1>4, ShownOfInfinite DEF maxOf
  <2>2. CASE slope < 0
    <3>1. shown(Infinite) = Mute /\ Reduction[Infinite] = Mute /\ Mute \in Int
      BY <2>2, ShownOfInfinite DEF Mute
    <3>2. Mute <= shown(x) /\ Reduction[y] \in Int /\ Mute <= Reduction[y]
      BY <1>1, <1>4, <3>1, ShownOfFloat
    <3>3. shown(x) = Mute \/ Reduction[y] = Mute
      BY <1>4, <3>1
    <3> QED
      BY <1>1, <2>1, <3>1, <3>2, <3>3, LowerFacts
  <2>3. CASE ~(slope < 0)
    <3>1. shown(x) = 0 /\ shown(Infinite) = 0
      BY <2>3, ShownOfFloat, ShownOfInfinite
    <3>2. Reduction[y] \in {0, 1}
      BY <1>4, <2>3, ShownOfFloat, ShownOfInfinite DEF NotANumber
    <3> QED
      BY <2>1, <3>1, <3>2, LowerFacts
  <2> QED
    BY <2>2, <2>3
<1> QED
  BY <1>2, <1>3, <1>4

-----------------------------------------------------------------------------
(* The invariant *)

(* The envelope never exceeds full scale.                                  *)
EnvelopeInv ==
  /\ envelope \in Signals
  /\ Infinite \notin Samples => envelope \in Numbers

CompressorInv == TypeOK /\ EnvelopeInv /\ ReportIsOfHighestFrame

LEMMA InitInv == Init => CompressorInv
<1> SUFFICES ASSUME Init
             PROVE  CompressorInv
  OBVIOUS
<1>1. TypeOK
  BY FloatsNat DEF TypeOK, Init, NaN
<1>2. EnvelopeInv
  BY SampleFacts DEF EnvelopeInv, Init, Signals
<1>3. ReportIsOfHighestFrame
  BY ShownOfSilence DEF ReportIsOfHighestFrame, Init, shown
<1> QED
  BY <1>1, <1>2, <1>3 DEF CompressorInv

(* What a frame is, in one place for the properties that need it.          *)
LEMMA FrameFacts ==
  ASSUME TypeOK, EnvelopeInv, NEW frame \in Frames, ProcessFrame(frame)
  PROVE  /\ envelope' \in Signals
         /\ loudest' \in (Samples \cup {0}) \ {NaN}
         /\ Infinite \notin Samples =>
              /\ envelope \in Numbers /\ envelope' \in Numbers /\ loudest' \in Numbers
              /\ \A z \in Floats :
                   /\ envelope < z /\ loudest' < z => envelope' <= z
                   /\ z < envelope /\ z < loudest' => z <= envelope'
<1> DEFINE p == Peak(frame)
           input == maxOf(0, p)
           c == selected(input)
           numbers == {frame[d] : d \in 1..Channels} \ {NaN}
<1>1. build \in Builds /\ coefficients \in Coefficients /\ envelope \in Signals
  BY DEF TypeOK, EnvelopeInv
<1>2. c \in weights /\ c \in 0..One
  BY <1>1, WeightFacts
<1>3. p \in Samples \cup {0}
  BY PeakFacts DEF Frames
<1>4. input \in Samples \cup {0}
  BY <1>3, MaxOfEither
<1>5. envelope' = follow[build][c][envelope][input]
  BY DEF ProcessFrame, Follow
<1>6. envelope' \in Signals
  BY <1>1, <1>2, <1>4, <1>5, FollowType
<1>7. loudest' = IF Infinite \in numbers THEN Infinite
                 ELSE CHOOSE x \in numbers \cup {0} : \A y \in numbers : x >= y
  BY DEF ProcessFrame
<1>8. ASSUME WithoutInfinite(frame)
      PROVE  /\ loudest' = p /\ loudest' \in Numbers /\ input = p
             /\ loudest' \in (Samples \cup {0}) \ {NaN}
  <2>1. loudest' = p /\ p \in Numbers
    BY <1>7, <1>8, PeakIsLoudest
  <2>2. input = p
    BY <2>1, FollowOfNumber
  <2> QED
    BY <1>3, <2>1, <2>2, SampleFacts
<1>9. loudest' \in (Samples \cup {0}) \ {NaN}
  <2>1. CASE Infinite \in numbers
    <3>1. loudest' = Infinite /\ Infinite \in Samples
      BY <1>7, <2>1 DEF Frames
    <3> QED
      BY <3>1 DEF Infinite, NaN
  <2>2. CASE Infinite \notin numbers
    <3>1. WithoutInfinite(frame)
      BY <2>2 DEF WithoutInfinite, Infinite, NaN
    <3> QED
      BY <1>8, <3>1
  <2> QED
    BY <2>1, <2>2
<1>10. ASSUME Infinite \notin Samples
       PROVE  /\ envelope \in Numbers /\ envelope' \in Numbers /\ loudest' \in Numbers
              /\ \A z \in Floats :
                   /\ envelope < z /\ loudest' < z => envelope' <= z
                   /\ z < envelope /\ z < loudest' => z <= envelope'
  <2>1. envelope \in Numbers
    BY <1>10 DEF EnvelopeInv
  <2>2. WithoutInfinite(frame)
    BY <1>10 DEF WithoutInfinite, Frames
  <2>3. loudest' = input /\ input \in Numbers
    BY <1>8, <2>2
  <2> HIDE DEF p, input, c, numbers
  <2> QED
    BY <1>1, <1>2, <1>4, <1>5, <2>1, <2>3, FollowStaysNear
<1> QED
  BY <1>6, <1>9, <1>10

LEMMA ProcessFrameInv ==
  ASSUME CompressorInv, NEW frame \in Frames, ProcessFrame(frame)
  PROVE  CompressorInv'
<1>1. TypeOK /\ EnvelopeInv
  BY DEF CompressorInv
<1>2. /\ envelope' \in Signals /\ loudest' \in (Samples \cup {0}) \ {NaN}
      /\ Infinite \notin Samples => envelope' \in Numbers
  BY <1>1, FrameFacts
<1>3. envelope' \in Floats \cup {Infinite, NaN}
  BY <1>2 DEF Signals, Numbers
<1>4. /\ lastReduction \in Int /\ lastReduction <= 0
      /\ highest \in Floats \cup {Infinite}
  BY <1>1 DEF TypeOK
<1>5. /\ lastReduction' = lower(lastReduction, Reduction[envelope'])
      /\ highest' = maxOf(highest, envelope') /\ UNCHANGED settings
  BY DEF ProcessFrame
<1>6. lastReduction' \in Int /\ lastReduction' <= 0
  <2>1. Reduction[envelope'] \in Int
    BY <1>3, ReductionType
  <2> QED
    BY <1>4, <1>5, <2>1 DEF lower
<1>7. highest' \in Floats \cup {Infinite}
  <2>1. highest' \in {highest, envelope'}
    BY <1>5, MaxOfEither
  <2>2. envelope' = NaN => highest' = highest
    BY <1>5, MaxOfNaN
  <2> QED
    BY <1>3, <1>4, <2>1, <2>2
<1>8. TypeOK'
  BY <1>1, <1>2, <1>3, <1>5, <1>6, <1>7 DEF TypeOK, settings
<1>9. EnvelopeInv'
  BY <1>2 DEF EnvelopeInv
<1>10. ReportIsOfHighestFrame'
  <2>1. lastReduction = shown(highest)
    BY DEF CompressorInv, ReportIsOfHighestFrame, shown
  <2>2. lastReduction' = shown(highest')
    BY <1>3, <1>4, <1>5, <2>1, LowestIsOfHighest
  <2> QED
    BY <2>2 DEF ReportIsOfHighestFrame, shown
<1> QED
  BY <1>8, <1>9, <1>10 DEF CompressorInv

LEMMA BeginBlockInv ==
  ASSUME CompressorInv, BeginBlock
  PROVE  CompressorInv'
<1>1. TypeOK' /\ EnvelopeInv'
  BY FloatsNat DEF CompressorInv, TypeOK, EnvelopeInv, BeginBlock, settings
<1>2. ReportIsOfHighestFrame'
  BY ShownOfSilence DEF ReportIsOfHighestFrame, BeginBlock, shown
<1> QED
  BY <1>1, <1>2 DEF CompressorInv

LEMMA StepInv == CompressorInv /\ [Next]_vars => CompressorInv'
<1> SUFFICES ASSUME CompressorInv, [Next]_vars
             PROVE  CompressorInv'
  OBVIOUS
<1>1. ASSUME NEW frame \in Frames, ProcessFrame(frame)
      PROVE  CompressorInv'
  BY <1>1, ProcessFrameInv
<1>2. CASE BeginBlock
  BY <1>2, BeginBlockInv
<1>3. CASE UNCHANGED vars
  BY <1>3 DEF vars, settings, CompressorInv, TypeOK, EnvelopeInv, ReportIsOfHighestFrame
<1> QED
  BY <1>1, <1>2, <1>3 DEF Next

LEMMA SpecImpliesInv == Spec => []CompressorInv
BY InitInv, StepInv, PTL DEF Spec

-----------------------------------------------------------------------------
(* The theorems *)

(* Every variable of the compressor keeps its type, whatever the format of *)
(* its floats, its samples and its coefficients are: the envelope that     *)
(* EnvelopeFollower::process leaves is a float, or infinite or a NaN.      *)
THEOREM TypeCorrect == Spec => []TypeOK
<1>1. CompressorInv => TypeOK
  BY DEF CompressorInv
<1> QED
  BY <1>1, SpecImpliesInv, PTL

(* lastReductionDb_ is the reduction of the highest envelope among the     *)
(* frames of the current block, and none without one, for every curve of   *)
(* the schema and any samples, infinite ones and NaNs included: what       *)
(* process() accumulates in the order of time is the curve's value at the  *)
(* top, nothing of an earlier block and nothing of a NaN.                  *)
THEOREM ReportIsTrue == Spec => []ReportIsOfHighestFrame
<1>1. CompressorInv => ReportIsOfHighestFrame
  BY DEF CompressorInv
<1> QED
  BY <1>1, SpecImpliesInv, PTL

(* Near two numbers is between them, or next to one of them.               *)
LEMMA NearIsApproached ==
  ASSUME NEW r \in Numbers, NEW a \in Numbers, NEW b \in Numbers,
         \A z \in Floats :
           /\ a < z /\ b < z => r <= z
           /\ z < a /\ z < b => z <= r
  PROVE  \/ between(r, a, b)
         \/ \E x \in {a, b} : ~ \E z \in Floats \ {x, r} : between(z, x, r)
<1>1. r \in Nat /\ a \in Nat /\ b \in Nat
  BY SampleFacts
<1>2. PICK hi \in {a, b} : a <= hi /\ b <= hi
  BY <1>1
<1>3. PICK lo \in {a, b} : lo <= a /\ lo <= b
  BY <1>1
<1>4. CASE lo <= r /\ r <= hi
  BY <1>1, <1>2, <1>3, <1>4 DEF between
<1>5. CASE hi < r
  <2>1. ASSUME NEW z \in Floats \ {hi, r}, between(z, hi, r)
        PROVE  FALSE
    <3>1. z \in Nat /\ hi < z /\ z < r
      BY <1>1, <1>5, <2>1, FloatsNat DEF between
    <3>2. a < z /\ b < z
      BY <1>1, <1>2, <3>1
    <3> QED
      BY <1>1, <3>1, <3>2
  <2> QED
    BY <2>1
<1>6. CASE r < lo
  <2>1. ASSUME NEW z \in Floats \ {lo, r}, between(z, lo, r)
        PROVE  FALSE
    <3>1. z \in Nat /\ r < z /\ z < lo
      BY <1>1, <1>6, <2>1, FloatsNat DEF between
    <3>2. z < a /\ z < b
      BY <1>1, <1>3, <3>1
    <3> QED
      BY <1>1, <3>1, <3>2
  <2> QED
    BY <2>1
<1> QED
  BY <1>1, <1>2, <1>3, <1>4, <1>5, <1>6

(* Without an infinite sample the envelope of each build stays finite and  *)
(* moves between its old value and the loudest channel, or to the float    *)
(* next to them, for every width of a float, every coefficient below one   *)
(* and any number of channels, NaNs among them.                            *)
THEOREM ApproachesLoudest ==
  Infinite \notin Samples => (Spec => EnvelopeApproachesLoudest)
<1> SUFFICES ASSUME Infinite \notin Samples
             PROVE  Spec => EnvelopeApproachesLoudest
  OBVIOUS
<1> DEFINE Near ==
             enabled =>
               /\ finite(envelope')
               /\ \/ between(envelope', envelope, loudest')
                  \/ \E x \in {envelope, loudest'} :
                       ~ \E z \in Floats \ {x, envelope'} : between(z, x, envelope')
<1>1. CompressorInv /\ [Next]_vars => [Near]_vars
  <2> SUFFICES ASSUME CompressorInv, Next
               PROVE  Near
    OBVIOUS
  <2>1. ASSUME NEW frame \in Frames, ProcessFrame(frame)
        PROVE  Near
    <3>1. TypeOK /\ EnvelopeInv
      BY DEF CompressorInv
    <3>2. /\ envelope \in Numbers /\ envelope' \in Numbers /\ loudest' \in Numbers
          /\ \A z \in Floats :
               /\ envelope < z /\ loudest' < z => envelope' <= z
               /\ z < envelope /\ z < loudest' => z <= envelope'
      BY <2>1, <3>1, FrameFacts
    <3>3. finite(envelope')
      BY <3>2, SampleFacts
    <3> QED
      BY <3>2, <3>3, NearIsApproached
  <2>2. CASE BeginBlock
    <3>1. envelope' = envelope /\ loudest' = loudest
      BY <2>2 DEF BeginBlock
    <3>2. envelope \in Numbers /\ loudest \in Numbers
      BY SampleFacts DEF CompressorInv, TypeOK, EnvelopeInv, Signals
    <3>3. finite(envelope) /\ between(envelope, envelope, loudest)
      BY <3>2, SampleFacts DEF between
    <3> QED
      BY <3>1, <3>3
  <2> QED
    BY <2>1, <2>2 DEF Next
<1> QED
  BY <1>1, SpecImpliesInv, PTL DEF Spec, EnvelopeApproachesLoudest

(* Without an infinite sample, from frame to frame a higher envelope is    *)
(* reduced at least as much and leaves at least as loud, for every         *)
(* threshold, ratio and knee of the schema and every width of a float.     *)
THEOREM LouderStays == Infinite \notin Samples => (Spec => LouderStaysLouder)
<1> SUFFICES ASSUME Infinite \notin Samples
             PROVE  Spec => LouderStaysLouder
  OBVIOUS
<1> DEFINE Louder ==
             envelope <= envelope' =>
               /\ Reduction[envelope'] <= Reduction[envelope]
               /\ Scale * Level[envelope] + Reduction[envelope]
                    <= Scale * Level[envelope'] + Reduction[envelope']
<1>1. CompressorInv /\ CompressorInv' => Louder
  <2> SUFFICES ASSUME CompressorInv, CompressorInv', envelope <= envelope'
               PROVE  /\ Reduction[envelope'] <= Reduction[envelope]
                      /\ Scale * Level[envelope] + Reduction[envelope]
                           <= Scale * Level[envelope'] + Reduction[envelope']
    OBVIOUS
  <2>1. envelope \in Floats /\ envelope' \in Floats
    BY DEF CompressorInv, EnvelopeInv, Numbers
  <2>2. Level[envelope] \in Int /\ Level[envelope'] \in Int /\ Level[envelope] <= Level[envelope']
    BY <2>1, LevelFacts
  <2>3. /\ Reduction[envelope] = gainReduction(Level[envelope])
        /\ Reduction[envelope'] = gainReduction(Level[envelope'])
    BY <2>1, ReductionType
  <2> QED
    BY <2>2, <2>3, CurveKeepsOrder
<1> QED
  BY <1>1, SpecImpliesInv, PTL DEF Spec, LouderStaysLouder
=============================================================================
