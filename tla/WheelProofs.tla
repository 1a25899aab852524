---------------------------- MODULE WheelProofs -----------------------------
(***************************************************************************)
(* What Wheel promises, for every number of levels and slots, every set of *)
(* timers and every clock: the wheel's own assertions, that no park        *)
(* outlasts a timer and no Sleep ends early, and that the wheel implements *)
(* the set of timers of TimerSpec.                                         *)
(*                                                                         *)
(* The first half is the arithmetic of the wheel.  Dividing a tick by the  *)
(* range of a slot leaves its upper digits; an entry is at the level of    *)
(* the highest digit in which it differs from elapsed, and the deadline of *)
(* a level is the least of its entries with the lower digits cut off.      *)
(***************************************************************************)
EXTENDS Wheel, LinkedList, SequenceTheorems, FiniteSetTheorems, WellFoundedInduction, TLAPS

(* A nonempty set of natural numbers has a least element.                  *)
LEMMA LeastNat ==
  ASSUME NEW T, T \subseteq Nat, T # {}
  PROVE  \E x \in T : \A y \in T : x <= y
  <1>1. \E x \in T : \A y \in T : ~(<<y, x>> \in OpToRel(<, Nat))
    BY NatLessThanWellFounded, WFMin, Zenon
  <1>2. PICK x \in T : \A y \in T : ~(y < x)
    BY <1>1 DEF OpToRel
  <1>3. \A y \in T : x <= y
    BY <1>2
  <1> QED
    BY <1>3

(* Induction, for the members of a set.                                    *)
LEMMA SetInduction ==
  ASSUME NEW S, 0 \in S, \A n \in Nat : n \in S => n + 1 \in S
  PROVE  \A n \in Nat : n \in S
  <1> SUFFICES ASSUME NEW k \in Nat, k \notin S
               PROVE  FALSE
    OBVIOUS
  <1> DEFINE T == {n \in Nat : n \notin S}
  <1>1. PICK x \in T : \A y \in T : x <= y
    <2>1. T \subseteq Nat /\ T # {}
      OBVIOUS
    <2> HIDE DEF T
    <2> QED
      BY <2>1, LeastNat
  <1>2. x # 0 /\ x - 1 \in Nat /\ x - 1 \notin T
    BY <1>1
  <1> QED
    BY <1>2

(* Products of natural numbers.                                            *)
LEMMA MulMono ==
  ASSUME NEW r \in Nat, NEW a \in Nat, NEW b \in Nat, a <= b
  PROVE  r * a <= r * b
  <1>1. PICK c \in Nat : b = a + c
    BY b - a \in Nat
  <1>2. r * b = r * a + r * c /\ r * c \in Nat /\ r * a \in Nat
    BY <1>1
  <1> QED
    BY <1>2

(* A product of natural numbers is one.                                    *)
LEMMA MulNat ==
  ASSUME NEW r \in Nat, NEW a \in Nat
  PROVE  r * a \in Nat
  OBVIOUS

(* Products may be regrouped.                                              *)
LEMMA MulAssoc ==
  ASSUME NEW m \in Nat, NEW r \in Nat, NEW a \in Nat
  PROVE  (m * r) * a = r * (m * a)
  OBVIOUS

(* A positive factor may be cancelled from an inequality.                  *)
LEMMA MulCancel ==
  ASSUME NEW r \in Nat, NEW a \in Nat, NEW b \in Nat, r * a < r * b
  PROVE  a < b
  <1>1. r * a \in Nat /\ r * b \in Nat
    OBVIOUS
  <1>2. b <= a => r * b <= r * a
    BY MulMono
  <1> QED
    BY <1>1, <1>2

(* Quotient and remainder.                                                 *)
LEMMA DivMod ==
  ASSUME NEW a \in Nat, NEW b \in Nat, b > 0
  PROVE  /\ a \div b \in Nat /\ a % b \in Nat /\ a % b < b
         /\ a = b * (a \div b) + (a % b)
  <1>1. a \div b \in Nat
    OBVIOUS
  <1>2. a % b \in Nat
    OBVIOUS
  <1>3. a % b < b
    OBVIOUS
  <1>4. a = b * (a \div b) + (a % b)
    OBVIOUS
  <1> QED
    BY <1>1, <1>2, <1>3, <1>4

(* A quotient, by its bounds.                                              *)
LEMMA DivBounds ==
  ASSUME NEW a \in Nat, NEW b \in Nat, b > 0
  PROVE  /\ a \div b \in Nat /\ b * (a \div b) <= a
         /\ a < b * ((a \div b) + 1)
  <1>1. PICK q \in Nat, m \in Nat : q = a \div b /\ m < b /\ a = b * q + m
    BY DivMod
  <1>2. b * (q + 1) = b * q + b /\ b * q \in Nat
    OBVIOUS
  <1>3. b * q <= a /\ a < b * (q + 1)
    BY <1>1, <1>2
  <1> QED
    BY <1>1, <1>3

(* Numbers of one stretch of b that leave the same remainder are equal.    *)
LEMMA SameRemainder ==
  ASSUME NEW a \in Nat, NEW c \in Nat, NEW b \in Nat, b > 0, a % b = c % b,
         a <= c, c < a + b
  PROVE  a = c
  <1>1. PICK q \in Nat, r \in Nat : q = a \div b /\ r = a % b /\ a = b * q + r
    BY DivMod
  <1>2. PICK p \in Nat : p = c \div b /\ c = b * p + r
    BY <1>1, DivMod
  <1>3. b * q \in Nat /\ b * p \in Nat /\ b * (q + 1) = b * q + b
    BY <1>1, <1>2
  <1>4. b * p < b * (q + 1)
    BY <1>1, <1>2, <1>3
  <1>5. p <= q
    BY <1>4, MulCancel
  <1>6. b * p <= b * q
    BY <1>5, MulMono
  <1> QED
    BY <1>1, <1>2, <1>3, <1>6

-----------------------------------------------------------------------------
(* The ranges of the slots.                                                *)

(* What the assumptions on the constants give.                             *)
LEMMA WheelConstants ==
  /\ Mult \in Nat /\ Mult >= 2 /\ NumLevels \in Nat /\ NumLevels >= 1
  /\ Res \in Nat /\ Res >= 1 /\ MaxInstant \in Nat
  /\ NumLevels - 1 \in Levels
  /\ \A l \in Levels : l \in Nat /\ l <= NumLevels - 1 /\ l \in 0..NumLevels /\ l + 1 \in 0..NumLevels
  /\ Off # Pending /\ Off \notin Nat /\ Pending \notin Nat
  /\ Off \notin Nat \X Nat /\ Pending \notin Nat \X Nat
  BY WheelAssumption DEF Levels

(* The recursive definition of the powers of Mult defines something.       *)
LEMMA PowFacts ==
  /\ \A l \in 0..NumLevels : Pow[l] \in Nat /\ Pow[l] > 0
  /\ Pow[0] = 1
  /\ \A l \in Levels : Pow[l + 1] = Mult * Pow[l]
  <1> DEFINE Def(g, n) == [i \in 0..n |-> IF i = 0 THEN 1 ELSE Mult * g[i - 1]]
             S == {n \in Nat : \E g : g = Def(g, n)}
  <1>1. 0 \in S
    <2>1. PICK g : g = [i \in 0..0 |-> 1]
      OBVIOUS
    <2>2. g = Def(g, 0)
      BY <2>1
    <2> QED
      BY <2>2
  <1>2. ASSUME NEW n \in Nat, n \in S
        PROVE  n + 1 \in S
    <2>1. PICK g : g = Def(g, n)
      BY <1>2
    <2>2. PICK h : h = [i \in 0..(n + 1) |-> IF i <= n THEN g[i] ELSE Mult * g[n]]
      OBVIOUS
    <2>3. \A i \in 0..(n + 1) : h[i] = IF i = 0 THEN 1 ELSE Mult * h[i - 1]
      BY <2>1, <2>2
    <2>4. h = Def(h, n + 1)
      BY <2>2, <2>3
    <2>5. n + 1 \in Nat
      OBVIOUS
    <2> QED
      BY <2>4, <2>5
  <1> HIDE DEF S
  <1>3. NumLevels \in S /\ NumLevels \in Nat /\ NumLevels >= 1
    BY <1>1, <1>2, SetInduction, WheelConstants
  <1>4. \E g : g = Def(g, NumLevels)
    BY <1>3 DEF S
  <1>5. Pow = Def(Pow, NumLevels)
    BY <1>4, Zenon DEF Pow
  <1>6. \A i \in 0..NumLevels : Pow[i] = IF i = 0 THEN 1 ELSE Mult * Pow[i - 1]
    BY <1>5
  <1>7. Pow[0] = 1
    BY <1>3, <1>6
  <1>8. \A l \in Levels : Pow[l + 1] = Mult * Pow[l]
    <2> SUFFICES ASSUME NEW l \in Levels
                 PROVE  Pow[l + 1] = Mult * Pow[l]
      OBVIOUS
    <2>1. l + 1 \in 0..NumLevels /\ l + 1 # 0 /\ (l + 1) - 1 = l
      BY WheelConstants
    <2> QED
      BY <1>6, <2>1
  <1> DEFINE P == {n \in Nat : n \in 0..NumLevels => Pow[n] \in Nat /\ Pow[n] > 0}
  <1>9. \A n \in Nat : n \in P
    <2>1. 0 \in P
      BY <1>7
    <2>2. ASSUME NEW n \in Nat, n \in P
          PROVE  n + 1 \in P
      <3> SUFFICES ASSUME n + 1 \in 0..NumLevels
                   PROVE  Pow[n + 1] \in Nat /\ Pow[n + 1] > 0
        OBVIOUS
      <3>1. n \in Levels /\ n \in 0..NumLevels
        BY <1>3 DEF Levels
      <3>2. PICK x \in Nat, m \in Nat : x = Pow[n] /\ x > 0 /\ m = Mult /\ m > 0
        BY <2>2, <3>1, WheelConstants
      <3>3. m * x \in Nat /\ m * x > 0
        BY <3>2
      <3> QED
        BY <1>8, <3>1, <3>2, <3>3
    <2> HIDE DEF P
    <2> QED
      BY <2>1, <2>2, SetInduction
  <1>10. \A l \in 0..NumLevels : Pow[l] \in Nat /\ Pow[l] > 0
    BY <1>3, <1>9
  <1> QED
    BY <1>7, <1>8, <1>10

(* What is left of a tick without its l lowest digits.                     *)
Digits(x, l) == x \div Pow[l]

(* The upper digits of a tick bound it from both sides.                    *)
LEMMA DigitsFacts ==
  ASSUME NEW x \in Nat, NEW l \in 0..NumLevels
  PROVE  /\ Digits(x, l) \in Nat
         /\ Pow[l] * Digits(x, l) <= x
         /\ x < Pow[l] * (Digits(x, l) + 1)
  <1>1. Pow[l] \in Nat /\ Pow[l] > 0
    BY PowFacts
  <1> QED
    BY <1>1, DivBounds DEF Digits

(* They are compared as the ticks are.                                     *)
LEMMA DigitsBelow ==
  ASSUME NEW x \in Nat, NEW l \in 0..NumLevels, NEW k \in Nat
  PROVE  x < Pow[l] * k <=> Digits(x, l) < k
  <1>1. PICK r \in Nat : r = Pow[l] /\ r > 0
    BY PowFacts
  <1>2. PICK q \in Nat : q = Digits(x, l) /\ r * q <= x /\ x < r * (q + 1)
    BY <1>1, DigitsFacts
  <1>3. r * q \in Nat /\ r * k \in Nat /\ r * (q + 1) \in Nat
    BY <1>1, <1>2
  <1>4. ASSUME x < r * k
        PROVE  q < k
    <2>1. r * q < r * k
      BY <1>2, <1>3, <1>4
    <2> QED
      BY <1>1, <2>1, MulCancel
  <1>5. ASSUME q < k
        PROVE  x < r * k
    <2>1. q + 1 <= k
      BY <1>5
    <2>2. r * (q + 1) <= r * k
      BY <2>1, MulMono
    <2> QED
      BY <1>2, <1>3, <2>2
  <1> QED
    BY <1>1, <1>2, <1>4, <1>5

(* A later tick does not have smaller digits.                              *)
LEMMA DigitsMono ==
  ASSUME NEW x \in Nat, NEW y \in Nat, x <= y, NEW l \in 0..NumLevels
  PROVE  Digits(x, l) <= Digits(y, l)
  <1>1. PICK p \in Nat, q \in Nat : p = Digits(x, l) /\ q = Digits(y, l)
    BY DigitsFacts
  <1>2. PICK z \in Nat : z = Pow[l] * (q + 1) /\ y < z
    BY <1>1, DigitsFacts, PowFacts
  <1>3. x < Pow[l] * (q + 1)
    BY <1>2
  <1>4. p < q + 1
    BY <1>1, <1>3, DigitsBelow
  <1> QED
    BY <1>1, <1>4

(* All the digits are the tick itself; one less, a quotient by Mult.       *)
LEMMA DigitsStep ==
  ASSUME NEW x \in Nat, NEW l \in Levels
  PROVE  /\ Digits(x, 0) = x
         /\ Mult * Digits(x, l + 1) <= Digits(x, l)
         /\ Digits(x, l) < Mult * (Digits(x, l + 1) + 1)
         /\ x \div LevelRange(l) = Digits(x, l + 1)
  <1>1. l \in 0..NumLevels /\ l + 1 \in 0..NumLevels
    BY WheelConstants
  <1>2. PICK r \in Nat, m \in Nat : r = Pow[l] /\ r > 0 /\ m = Mult /\ m * r = Pow[l + 1]
    BY <1>1, PowFacts, WheelConstants
  <1>3. PICK d \in Nat, u \in Nat : d = Digits(x, l) /\ u = Digits(x, l + 1)
    BY <1>1, DigitsFacts
  <1>4. Digits(x, 0) = x
    BY PowFacts DEF Digits
  <1>5. /\ r * d <= x /\ x < r * (d + 1)
        /\ (m * r) * u <= x /\ x < (m * r) * (u + 1)
    BY <1>1, <1>2, <1>3, DigitsFacts
  <1>6. /\ (m * r) * u = r * (m * u) /\ (m * r) * (u + 1) = r * (m * (u + 1))
        /\ m * u \in Nat /\ m * (u + 1) \in Nat
    BY <1>2, <1>3, u + 1 \in Nat, MulAssoc, MulNat
  <1>7. /\ r * d \in Nat /\ r * (d + 1) \in Nat
        /\ r * (m * u) \in Nat /\ r * (m * (u + 1)) \in Nat
    BY <1>2, <1>3, <1>6, d + 1 \in Nat, MulNat
  <1>8. r * (m * u) < r * (d + 1) /\ r * d < r * (m * (u + 1))
    BY <1>5, <1>6, <1>7
  <1>9. m * u < d + 1 /\ d < m * (u + 1)
    BY <1>2, <1>3, <1>6, <1>8, MulCancel
  <1>10. m * u <= d
    BY <1>3, <1>6, <1>9
  <1>11. x \div LevelRange(l) = Digits(x, l + 1)
    BY <1>2 DEF LevelRange, SlotRange, Digits
  <1> QED
    BY <1>2, <1>3, <1>4, <1>9, <1>10, <1>11

(* Where the upper digits of two ticks agree, those above agree.           *)
LEMMA DigitsAgree ==
  ASSUME NEW x \in Nat, NEW y \in Nat, NEW k \in 0..NumLevels, NEW l \in 0..NumLevels,
         k <= l, Digits(x, k) = Digits(y, k)
  PROVE  Digits(x, l) = Digits(y, l)
  <1> DEFINE P == {d \in Nat : k + d \in 0..NumLevels => Digits(x, k + d) = Digits(y, k + d)}
  <1>1. 0 \in P
    BY k + 0 = k
  <1>2. ASSUME NEW d \in Nat, d \in P
        PROVE  d + 1 \in P
    <2> SUFFICES ASSUME k + (d + 1) \in 0..NumLevels
                 PROVE  Digits(x, k + (d + 1)) = Digits(y, k + (d + 1))
      OBVIOUS
    <2>1. PICK j \in Levels : j = k + d /\ k + (d + 1) = j + 1 /\ j \in 0..NumLevels
      BY WheelConstants DEF Levels
    <2>2. PICK c \in Nat : c = Digits(x, j) /\ c = Digits(y, j)
      BY <1>2, <2>1, DigitsFacts
    <2>3. PICK u \in Nat, v \in Nat, m \in Nat : u = Digits(x, j + 1) /\ v = Digits(y, j + 1) /\ m = Mult
      BY <2>1, DigitsFacts, WheelConstants
    <2>4. m * u <= c /\ c < m * (u + 1) /\ m * v <= c /\ c < m * (v + 1)
      BY <2>1, <2>2, <2>3, DigitsStep
    <2>5. u + 1 \in Nat /\ v + 1 \in Nat /\ m * u \in Nat /\ m * v \in Nat
          /\ m * (u + 1) \in Nat /\ m * (v + 1) \in Nat
      BY MulNat
    <2>6. m * u < m * (v + 1) /\ m * v < m * (u + 1)
      BY <2>4, <2>5
    <2>7. u < v + 1 /\ v < u + 1
      BY <2>5, <2>6, MulCancel
    <2>8. u = v
      BY <2>7
    <2> QED
      BY <2>1, <2>3, <2>8
  <1>3. l - k \in Nat /\ k + (l - k) = l
    BY WheelConstants
  <1>4. l - k \in P
    <2> HIDE DEF P
    <2> QED
      BY <1>1, <1>2, <1>3, SetInduction
  <1> QED
    BY <1>3, <1>4

(* An entry is filed at level l: it differs from elapsed in digit l, and   *)
(* not above unless that is the top level.                                 *)
FiledAt(e, w, l) ==
  /\ l \in Levels
  /\ Digits(e, l) < Digits(w, l)
  /\ l = NumLevels - 1 \/ Digits(e, l + 1) = Digits(w, l + 1)

(* level_for finds that level.                                             *)
LEMMA LevelForFiles ==
  ASSUME NEW e \in Nat, NEW w \in Nat, e < w
  PROVE  FiledAt(e, w, LevelFor(e, w))
  <1> DEFINE same == {l \in Levels : e \div LevelRange(l) = w \div LevelRange(l)}
  <1>1. same = {l \in Levels : Digits(e, l + 1) = Digits(w, l + 1)}
    BY DigitsStep
  <1>2. \A l \in 0..NumLevels : /\ Digits(e, l) \in Nat /\ Digits(w, l) \in Nat
                                /\ Digits(e, l) <= Digits(w, l)
    BY DigitsFacts, DigitsMono
  <1>3. LevelFor(e, w) = IF same = {} THEN NumLevels - 1 ELSE Min(same)
    BY DEF LevelFor
  <1> HIDE DEF same
  <1>4. CASE same = {}
    <2>1. PICK l \in Levels : l = NumLevels - 1 /\ l = LevelFor(e, w)
      BY <1>3, <1>4, WheelConstants
    <2>2. l \in 0..NumLevels /\ l + 1 \in 0..NumLevels /\ l <= l + 1
      BY WheelConstants
    <2>3. Digits(e, l + 1) # Digits(w, l + 1)
      BY <1>1, <1>4
    <2>4. Digits(e, l) # Digits(w, l)
      BY <2>2, <2>3, DigitsAgree
    <2> QED
      BY <1>2, <2>1, <2>2, <2>4 DEF FiledAt
  <1>5. CASE same # {}
    <2>1. same \subseteq Nat
      BY <1>1, WheelConstants
    <2>2. \E x \in same : \A y \in same : x <= y
      BY <1>5, <2>1, LeastNat
    <2>3. PICK l \in same : l = LevelFor(e, w) /\ \A y \in same : l <= y
      BY <1>3, <1>5, <2>2 DEF Min
    <2>4. l \in Levels /\ l \in Nat /\ l \in 0..NumLevels /\ Digits(e, l + 1) = Digits(w, l + 1)
      BY <1>1, WheelConstants
    <2>5. Digits(e, l) # Digits(w, l)
      <3>1. CASE l = 0
        <4>1. Digits(e, 0) = e /\ Digits(w, 0) = w
          BY <2>4, DigitsStep
        <4> QED
          BY <3>1, <4>1
      <3>2. CASE l # 0
        <4>1. l - 1 \in Levels /\ (l - 1) + 1 = l /\ ~(l <= l - 1)
          BY <2>4, <3>2, WheelConstants DEF Levels
        <4> QED
          BY <1>1, <2>3, <4>1
      <3> QED
        BY <3>1, <3>2
    <2> QED
      BY <1>2, <2>3, <2>4, <2>5 DEF FiledAt
  <1> QED
    BY <1>4, <1>5

(* There is one such level.                                                *)
LEMMA FiledOnce ==
  ASSUME NEW e \in Nat, NEW w \in Nat, NEW k, FiledAt(e, w, k), NEW l, FiledAt(e, w, l)
  PROVE  k = l
  <1>1. \A a, b \in Levels : FiledAt(e, w, a) /\ FiledAt(e, w, b) => ~(a < b)
    <2> SUFFICES ASSUME NEW a \in Levels, NEW b \in Levels,
                        FiledAt(e, w, a), FiledAt(e, w, b), a < b
                 PROVE  FALSE
      OBVIOUS
    <2>1. a \in Nat /\ b \in Nat /\ a + 1 \in 0..NumLevels /\ b \in 0..NumLevels /\ a + 1 <= b /\ a # NumLevels - 1
      BY WheelConstants
    <2>2. Digits(e, a + 1) = Digits(w, a + 1)
      BY <2>1 DEF FiledAt
    <2>3. Digits(e, b) = Digits(w, b) /\ Digits(e, b) \in Nat
      BY <2>1, <2>2, DigitsAgree, DigitsFacts
    <2> QED
      BY <2>3 DEF FiledAt
  <1>2. k \in Levels /\ l \in Levels /\ k \in Nat /\ l \in Nat
    BY WheelConstants DEF FiledAt
  <1>3. ~(k < l) /\ ~(l < k)
    BY <1>1, <1>2
  <1> QED
    BY <1>2, <1>3

(* So level_for finds the level at which an entry is filed.                *)
LEMMA LevelForIs ==
  ASSUME NEW e \in Nat, NEW w \in Nat, NEW l, FiledAt(e, w, l)
  PROVE  LevelFor(e, w) = l /\ e < w
  <1>1. l \in 0..NumLevels
    BY WheelConstants DEF FiledAt
  <1>2. e < w
    <2>1. w <= e => Digits(w, l) <= Digits(e, l)
      BY <1>1, DigitsMono
    <2>2. Digits(w, l) \in Nat /\ Digits(e, l) \in Nat
      BY <1>1, DigitsFacts
    <2> QED
      BY <2>1, <2>2 DEF FiledAt
  <1> QED
    BY <1>2, LevelForFiles, FiledOnce

(* An entry stays where it is filed as long as elapsed does not reach its  *)
(* slot.                                                                   *)
LEMMA FiledStays ==
  ASSUME NEW e \in Nat, NEW f \in Nat, NEW w \in Nat, NEW l, FiledAt(e, w, l),
         e <= f, f < Pow[l] * Digits(w, l)
  PROVE  FiledAt(f, w, l)
  <1>1. l \in Levels /\ l \in 0..NumLevels /\ l + 1 \in 0..NumLevels
    BY WheelConstants DEF FiledAt
  <1>2. Digits(w, l) \in Nat
    BY <1>1, DigitsFacts
  <1>3. Digits(f, l) < Digits(w, l)
    BY <1>1, <1>2, DigitsBelow
  <1>4. f <= w
    <2>1. PICK z \in Nat : z = Pow[l] * Digits(w, l) /\ z <= w
      BY <1>1, <1>2, DigitsFacts, PowFacts, MulNat
    <2> QED
      BY <2>1
  <1>5. CASE Digits(e, l + 1) = Digits(w, l + 1)
    <2>1. /\ Digits(e, l + 1) <= Digits(f, l + 1) /\ Digits(f, l + 1) <= Digits(w, l + 1)
          /\ Digits(f, l + 1) \in Nat /\ Digits(w, l + 1) \in Nat
      BY <1>1, <1>4, DigitsMono, DigitsFacts
    <2>2. Digits(f, l + 1) = Digits(w, l + 1)
      BY <1>5, <2>1
    <2> QED
      BY <1>1, <1>3, <2>2 DEF FiledAt
  <1> QED
    BY <1>1, <1>3, <1>5 DEF FiledAt

(* A stretch of Mult numbers reaches into one other block at most.         *)
LEMMA Blocks ==
  ASSUME NEW m \in Nat, m > 0, NEW d \in Nat, NEW u \in Nat, m * u <= d, d < m * (u + 1),
         NEW x \in Nat, d < x, x < d + m
  PROVE  \/ x \div m = u /\ x = m * u + (x % m)
         \/ x \div m = u + 1 /\ x = m * u + m + (x % m)
  <1>1. PICK q \in Nat, r \in Nat : q = x \div m /\ r = x % m /\ r < m /\ x = m * q + r
    BY DivMod
  <1>2. /\ m * u \in Nat /\ m * q \in Nat /\ m * (u + 1) = m * u + m /\ m * (q + 1) = m * q + m
        /\ m * ((u + 1) + 1) = (m * u + m) + m
    OBVIOUS
  <1>3. m * u < m * (q + 1) /\ m * q < m * ((u + 1) + 1)
    BY <1>1, <1>2
  <1>4. u < q + 1 /\ q < (u + 1) + 1
    <2>1. q + 1 \in Nat /\ (u + 1) + 1 \in Nat
      OBVIOUS
    <2> QED
      BY <1>3, <2>1, MulCancel
  <1>5. q = u \/ q = u + 1
    BY <1>4
  <1>6. q = u => x = m * u + r
    BY <1>1
  <1>7. q = u + 1 => x = m * u + m + r
    BY <1>1, <1>2
  <1> QED
    BY <1>1, <1>5, <1>6, <1>7

(* The deadline of a level, given what its occupied bits stand for: X has  *)
(* the upper digits of its entries.                                        *)
LEMMA DeadlineOfLevel ==
  ASSUME NEW e \in Nat, NEW l \in Levels, NEW X, X \subseteq Nat, X # {},
         \A x \in X : Digits(e, l) < x /\ x < Digits(e, l) + Mult,
         \A s : s \in OccupiedAt(l) <=> \E x \in X : s = x % Mult
  PROVE  \E x \in X : /\ \A y \in X : x <= y
                      /\ NextOccupiedSlot(l, e) = x % Mult
                      /\ LevelDeadline(l, e) = Pow[l] * x
                      /\ x \div Mult = Digits(e, l + 1) =>
                            (x % Mult) * Pow[l] > (e % LevelRange(l))
  <1>1. l \in 0..NumLevels /\ l + 1 \in 0..NumLevels
    BY WheelConstants
  <1>2. PICK m \in Nat : m = Mult /\ m > 0
    BY WheelConstants
  <1>3. PICK d \in Nat : d = Digits(e, l) /\ d = e \div SlotRange(l)
    BY <1>1, DigitsFacts DEF Digits, SlotRange
  <1>4. PICK x \in X : \A y \in X : x <= y
    BY LeastNat
  <1>5. x \in Nat /\ d < x /\ x < d + m
    BY <1>2, <1>3
  <1> DEFINE Z == {z \in 0..(m - 1) : (z + d) % m \in OccupiedAt(l)}
  <1>6. x - d \in Z /\ \A z \in Z : x - d <= z
    <2>1. x - d \in 0..(m - 1) /\ (x - d) + d = x
      BY <1>2, <1>5
    <2>2. x % m \in OccupiedAt(l)
      BY <1>2
    <2>3. ASSUME NEW z \in Z
          PROVE  x - d <= z
      <3>1. PICK y \in X : (z + d) % m = y % m
        BY <1>2
      <3>2. y \in Nat /\ d < y /\ y < d + m /\ x <= y
        BY <1>2, <1>3, <1>4
      <3>3. PICK c \in Nat : c = z + d /\ d <= c /\ c < d + m
        OBVIOUS
      <3>4. c % m = y % m
        BY <3>1, <3>3
      <3>5. c = y
        <4>1. PICK v \in Nat : v = y /\ v % m = c % m /\ v < d + m /\ d < v
          BY <3>2, <3>4
        <4>2. c <= v => c = v
          BY <1>2, <3>3, <4>1, v < c + m, SameRemainder
        <4>3. v <= c => v = c
          BY <1>2, <3>3, <4>1, c < v + m, SameRemainder
        <4> QED
          BY <3>3, <4>1, <4>2, <4>3
      <3> QED
        BY <1>5, <3>2, <3>3, <3>5
    <2> QED
      BY <2>1, <2>2, <2>3
  <1>7. NextOccupiedSlot(l, e) = x % m
    <2>1. Min(Z) \in Z /\ \A z \in Z : Min(Z) <= z
      <3> HIDE DEF Z
      <3> QED
        BY <1>6 DEF Min
    <2>2. PICK zeros \in Nat : zeros = Min(Z)
      <3>1. Z \subseteq Nat
        OBVIOUS
      <3> HIDE DEF Z
      <3> QED
        BY <2>1, <3>1
    <2>3. zeros = x - d
      <3>1. zeros <= x - d /\ x - d <= zeros /\ x - d \in Int
        <4> HIDE DEF Z
        <4> QED
          BY <1>5, <1>6, <2>1, <2>2
      <3> QED
        BY <3>1
    <2>4. zeros + d = x
      BY <1>5, <2>3
    <2>5. NextOccupiedSlot(l, e) = (Min(Z) + d) % m
      BY <1>2, <1>3 DEF NextOccupiedSlot
    <2> HIDE DEF Z
    <2> QED
      BY <2>2, <2>4, <2>5
  <1>8. PICK r \in Nat, s \in Nat : r = Pow[l] /\ r > 0 /\ s = x % m /\ s < m
    BY <1>1, <1>2, <1>5, PowFacts, DivMod
  <1>9. PICK lr \in Nat : lr = LevelRange(l) /\ lr > 0 /\ lr = m * r
    <2>1. m * r \in Nat /\ m * r > 0
      BY <1>2, <1>8
    <2> QED
      BY <1>2, <1>8, <2>1 DEF LevelRange, SlotRange
  <1>10. PICK u \in Nat, f \in Nat : /\ u = Digits(e, l + 1) /\ f = e % lr /\ f < lr
                                     /\ e = lr * u + f
    <2>1. e \div lr = Digits(e, l + 1)
      BY <1>9, DigitsStep
    <2>2. /\ e \div lr \in Nat /\ e % lr \in Nat /\ e % lr < lr
          /\ e = lr * (e \div lr) + (e % lr)
      BY <1>9, DivMod
    <2>3. PICK u \in Nat, f \in Nat : u = e \div lr /\ f = e % lr
      BY <2>2
    <2>4. f < lr /\ e = lr * u + f
      BY <2>2, <2>3
    <2> QED
      BY <2>1, <2>3, <2>4
  <1>11. m * u <= d /\ d < m * (u + 1)
    <2>1. Mult * Digits(e, l + 1) <= Digits(e, l) /\ Digits(e, l) < Mult * (Digits(e, l + 1) + 1)
      BY DigitsStep
    <2>2. m = Mult /\ d = Digits(e, l) /\ u = Digits(e, l + 1)
      BY <1>2, <1>3, <1>10
    <2> QED
      BY ONLY <2>1, <2>2
  <1>12. r * d <= e /\ e < r * (d + 1)
    BY <1>1, <1>3, <1>8, DigitsFacts
  <1>13. lr * u = r * (m * u) /\ lr * u \in Nat /\ r * (m * u) \in Nat /\ m * u \in Nat
    <2>1. m * u \in Nat
      BY <1>10, MulNat
    <2>2. lr * u \in Nat /\ r * (m * u) \in Nat
      BY <1>8, <1>9, <1>10, <2>1, MulNat
    <2>3. (m * r) * u = r * (m * u)
      BY <1>8, <1>10, MulAssoc
    <2> QED
      BY <1>9, <2>1, <2>2, <2>3
  <1>14. r * s = s * r /\ r * s \in Nat /\ r * x \in Nat /\ r * d \in Nat /\ r * (d + 1) \in Nat
    BY <1>3, <1>5, <1>8, MulNat
  <1>15. e < r * x
    <2>1. d + 1 <= x /\ d + 1 \in Nat
      BY <1>5
    <2>2. r * (d + 1) <= r * x
      BY <1>5, <2>1, MulMono
    <2> QED
      BY <1>12, <1>14, <2>2
  <1>16. LevelDeadline(l, e) = IF (e - f) + s * r <= e THEN ((e - f) + s * r) + lr ELSE (e - f) + s * r
    BY <1>2, <1>7, <1>8, <1>9, <1>10 DEF LevelDeadline, SlotRange
  <1>17. (e - f) + s * r = r * (m * u) + r * s
    BY <1>10, <1>13, <1>14
  <1>18. CASE x \div m = u /\ x = m * u + s
    <2>1. r * x = r * (m * u) + r * s
      BY <1>8, <1>13, <1>18
    <2>2. LevelDeadline(l, e) = r * x
      BY <1>14, <1>15, <1>16, <1>17, <2>1
    <2>3. s * r > f
      BY <1>10, <1>13, <1>14, <1>15, <2>1
    <2> QED
      BY <1>2, <1>4, <1>7, <1>8, <1>9, <1>10, <2>2, <2>3
  <1>19. CASE x \div m = u + 1 /\ x = m * u + m + s
    <2>1. m * u + s \in Nat /\ m * u + s <= d
      BY <1>5, <1>8, <1>13, <1>19
    <2>2. r * (m * u + s) <= r * d
      BY <1>3, <1>8, <2>1, MulMono
    <2>3. r * (m * u + s) = r * (m * u) + r * s
      BY <1>8, <1>13
    <2>4. (e - f) + s * r <= e
      BY <1>12, <1>13, <1>14, <1>17, <2>2, <2>3
    <2>5. r * x = r * (m * u) + r * s + m * r
      <3>1. PICK a \in Nat : a = m * u
        BY <1>13
      <3>2. r * (a + m + s) = r * a + r * s + m * r
        BY <1>8, <3>1
      <3> QED
        BY <1>19, <3>1, <3>2
    <2>6. LevelDeadline(l, e) = r * x
      BY <1>9, <1>16, <1>17, <2>4, <2>5
    <2>7. x \div m # u
      BY <1>10, <1>19
    <2> QED
      BY <1>2, <1>4, <1>7, <1>8, <1>9, <1>10, <2>6, <2>7
  <1>20. \/ x \div m = u /\ x = m * u + (x % m)
         \/ x \div m = u + 1 /\ x = m * u + m + (x % m)
    <2>1. PICK v \in Nat : v = x /\ d < v /\ v < d + m
      BY <1>5
    <2>2. PICK c \in Nat, b \in Nat, a \in Nat : /\ c = d /\ b = u /\ a = m /\ a > 0
                                               /\ a * b <= c /\ c < a * (b + 1)
                                               /\ c < v /\ v < c + a
      BY <1>2, <1>11, <2>1
    <2>3. \/ v \div a = b /\ v = a * b + (v % a)
          \/ v \div a = b + 1 /\ v = a * b + a + (v % a)
      BY ONLY <2>2, Blocks, a \in Nat, b \in Nat, c \in Nat, v \in Nat
    <2> QED
      BY <2>1, <2>2, <2>3
  <1> QED
    BY <1>8, <1>18, <1>19, <1>20

-----------------------------------------------------------------------------
(* Places.                                                                 *)

(* Less than a rotation of the top level ahead.                            *)
Near(e, w) == Digits(w, NumLevels - 1) < Digits(e, NumLevels - 1) + Mult

(* Where the slot of an entry begins.                                      *)
SlotStart(e, w) == Pow[LevelFor(e, w)] * Digits(w, LevelFor(e, w))

(* An entry that is near is less than a rotation of its own level ahead.   *)
LEMMA FiledNear ==
  ASSUME NEW e \in Nat, NEW w \in Nat, Near(e, w), NEW l, FiledAt(e, w, l)
  PROVE  Digits(w, l) < Digits(e, l) + Mult
  <1>1. l \in Levels /\ l \in 0..NumLevels /\ l + 1 \in 0..NumLevels
    BY WheelConstants DEF FiledAt
  <1>2. CASE l = NumLevels - 1
    BY <1>2 DEF Near
  <1>3. CASE Digits(e, l + 1) = Digits(w, l + 1)
    <2>1. PICK m \in Nat, u \in Nat, a \in Nat, b \in Nat :
             m = Mult /\ u = Digits(e, l + 1) /\ a = Digits(e, l) /\ b = Digits(w, l)
      BY <1>1, DigitsFacts, WheelConstants
    <2>2. m * u <= a /\ b < m * (u + 1)
      BY <1>1, <1>3, <2>1, DigitsStep
    <2>3. m * (u + 1) = m * u + m /\ m * u \in Nat
      OBVIOUS
    <2>4. b < a + m
      BY <2>2, <2>3
    <2> QED
      BY <2>1, <2>4
  <1> QED
    BY <1>2, <1>3 DEF FiledAt

(* Time only brings entries nearer.                                        *)
LEMMA NearLater ==
  ASSUME NEW e \in Nat, NEW f \in Nat, e <= f, NEW w \in Nat, Near(e, w)
  PROVE  Near(f, w)
  <1>1. NumLevels - 1 \in 0..NumLevels
    BY WheelConstants
  <1>2. PICK a \in Nat, b \in Nat, c \in Nat, m \in Nat :
           /\ a = Digits(e, NumLevels - 1) /\ b = Digits(f, NumLevels - 1)
           /\ c = Digits(w, NumLevels - 1) /\ m = Mult
    BY <1>1, DigitsFacts, WheelConstants
  <1>3. a <= b /\ c < a + m
    BY <1>1, <1>2, DigitsMono DEF Near
  <1>4. c < b + m
    BY <1>3
  <1> QED
    BY <1>2, <1>4 DEF Near

(* The place of a tick to come, and when the slot there begins.            *)
LEMMA PlaceFacts ==
  ASSUME NEW e \in Nat, NEW w \in Nat, e < w
  PROVE  /\ FiledAt(e, w, LevelFor(e, w))
         /\ LevelFor(e, w) \in Levels
         /\ Place(e, w) = <<LevelFor(e, w), Digits(w, LevelFor(e, w)) % Mult>>
         /\ Place(e, w) \in Places
         /\ SlotStart(e, w) \in Nat /\ e < SlotStart(e, w) /\ SlotStart(e, w) <= w
  <1>1. PICK l : l = LevelFor(e, w) /\ FiledAt(e, w, l)
    BY LevelForFiles
  <1>2. l \in Levels /\ l \in 0..NumLevels
    BY <1>1, WheelConstants DEF FiledAt
  <1>3. PICK d \in Nat : d = Digits(w, l)
    BY <1>2, DigitsFacts
  <1>4. Place(e, w) = <<l, d % Mult>>
    BY <1>1, <1>3 DEF Place, SlotFor, SlotRange, Digits
  <1>5. d % Mult \in 0..(Mult - 1)
    BY <1>3, WheelConstants, DivMod
  <1>6. Pow[l] * d \in Nat /\ Pow[l] * d <= w
    BY <1>2, <1>3, PowFacts, MulNat, DigitsFacts
  <1>7. e < Pow[l] * d
    BY <1>1, <1>2, <1>3, DigitsBelow DEF FiledAt
  <1> QED
    BY <1>1, <1>2, <1>3, <1>4, <1>5, <1>6, <1>7 DEF Places, SlotStart

(* The place of an entry stays the same until its slot begins.             *)
LEMMA PlaceStays ==
  ASSUME NEW e \in Nat, NEW f \in Nat, NEW w \in Nat, e < w, e <= f, f < SlotStart(e, w)
  PROVE  Place(f, w) = Place(e, w) /\ f < w
  <1>1. FiledAt(e, w, LevelFor(e, w))
    BY PlaceFacts
  <1>2. FiledAt(f, w, LevelFor(e, w))
    BY <1>1, FiledStays DEF SlotStart
  <1>3. LevelFor(f, w) = LevelFor(e, w) /\ f < w
    BY <1>2, LevelForIs
  <1> QED
    BY <1>3 DEF Place

(* The next slot of a level begins before the next one of a higher level,  *)
(* or with it.                                                             *)
LEMMA NextMultiple ==
  ASSUME NEW e \in Nat, NEW k \in 0..NumLevels, NEW h \in 0..NumLevels, k <= h
  PROVE  Pow[k] * (Digits(e, k) + 1) <= Pow[h] * (Digits(e, h) + 1)
  <1> DEFINE Nxt(j) == Pow[j] * (Digits(e, j) + 1)
             P == {d \in Nat : k + d \in 0..NumLevels => Nxt(k) <= Nxt(k + d)}
  <1>1. \A j \in 0..NumLevels : Nxt(j) \in Nat
    <2> SUFFICES ASSUME NEW j \in 0..NumLevels
                 PROVE  Nxt(j) \in Nat
      OBVIOUS
    <2>1. Pow[j] \in Nat /\ Digits(e, j) \in Nat
      BY PowFacts, DigitsFacts
    <2>2. Digits(e, j) + 1 \in Nat
      BY <2>1
    <2> QED
      BY <2>1, <2>2, MulNat
  <1>2. 0 \in P
    <2>1. k + 0 = k
      OBVIOUS
    <2> QED
      BY <1>1, <2>1
  <1>3. ASSUME NEW d \in Nat, d \in P
        PROVE  d + 1 \in P
    <2> SUFFICES ASSUME k + (d + 1) \in 0..NumLevels
                 PROVE  Nxt(k) <= Nxt(k + (d + 1))
      OBVIOUS
    <2>1. PICK j \in Levels : j = k + d /\ k + (d + 1) = j + 1 /\ j \in 0..NumLevels /\ j + 1 \in 0..NumLevels
      BY WheelConstants DEF Levels
    <2>2. PICK r \in Nat, m \in Nat, a \in Nat, u \in Nat :
             r = Pow[j] /\ m = Mult /\ a = Digits(e, j) /\ u = Digits(e, j + 1) /\ Pow[j + 1] = m * r
      BY <2>1, PowFacts, DigitsFacts, WheelConstants
    <2>3. a + 1 \in Nat /\ m * (u + 1) \in Nat /\ u + 1 \in Nat
      BY MulNat
    <2>4. a < m * (u + 1)
      BY <2>1, <2>2, DigitsStep
    <2>5. a + 1 <= m * (u + 1)
      BY <2>3, <2>4
    <2>6. r * (a + 1) <= r * (m * (u + 1))
      BY <2>3, <2>5, MulMono
    <2>7. (m * r) * (u + 1) = r * (m * (u + 1))
      BY <2>3, MulAssoc
    <2>8. Nxt(j) <= Nxt(j + 1)
      BY <2>2, <2>6, <2>7
    <2>9. Nxt(k) <= Nxt(j)
      BY <1>3, <2>1
    <2>10. Nxt(k) \in Nat /\ Nxt(j) \in Nat /\ Nxt(j + 1) \in Nat
      BY <1>1, <2>1
    <2> HIDE DEF Nxt
    <2> QED
      BY <2>1, <2>8, <2>9, <2>10
  <1>4. h - k \in Nat /\ k + (h - k) = h
    BY WheelConstants
  <1>5. h - k \in P
    <2> HIDE DEF P
    <2> QED
      BY <1>2, <1>3, <1>4, SetInduction
  <1> QED
    BY <1>4, <1>5

(* So the slot of an entry at a lower level begins before that of one at a *)
(* higher level.                                                           *)
LEMMA LowerLevelFirst ==
  ASSUME NEW e \in Nat, NEW v \in Nat, NEW w \in Nat, e < v, e < w,
         LevelFor(e, v) < LevelFor(e, w)
  PROVE  SlotStart(e, v) < SlotStart(e, w)
  <1>1. PICK k \in Levels : k = LevelFor(e, v) /\ FiledAt(e, v, k)
    BY PlaceFacts
  <1>2. PICK h \in Levels : h = LevelFor(e, w) /\ FiledAt(e, w, h)
    BY PlaceFacts
  <1>3. /\ k < h /\ k + 1 \in 0..NumLevels /\ h \in 0..NumLevels /\ k + 1 <= h /\ k # NumLevels - 1
    BY <1>1, <1>2, WheelConstants
  <1>4. PICK a \in Nat, z \in Nat, y \in Nat, x \in Nat :
           /\ a = SlotStart(e, v) /\ z = Pow[k + 1] * (Digits(v, k + 1) + 1)
           /\ y = Pow[h] * (Digits(e, h) + 1) /\ x = SlotStart(e, w)
    <2>1. Digits(v, k + 1) + 1 \in Nat /\ Digits(e, h) + 1 \in Nat
      BY <1>3, DigitsFacts
    <2>2. Pow[k + 1] \in Nat /\ Pow[h] \in Nat
      BY <1>3, PowFacts
    <2> QED
      BY <2>1, <2>2, MulNat, PlaceFacts
  <1>5. a <= v /\ v < z
    BY <1>3, <1>4, DigitsFacts, PlaceFacts
  <1>6. z <= y
    <2>1. Digits(v, k + 1) = Digits(e, k + 1)
      BY <1>1, <1>3 DEF FiledAt
    <2> QED
      BY <1>3, <1>4, <2>1, NextMultiple
  <1>7. y <= x
    <2>1. PICK c \in Nat, d \in Nat : c = Digits(e, h) /\ d = Digits(w, h) /\ c + 1 <= d
      BY <1>2, <1>3, DigitsFacts DEF FiledAt
    <2>2. Pow[h] * (c + 1) <= Pow[h] * d
      BY <1>3, <2>1, c + 1 \in Nat, PowFacts, MulMono
    <2> QED
      BY <1>2, <1>4, <2>1, <2>2 DEF SlotStart
  <1>8. a < x
    BY <1>5, <1>6, <1>7
  <1> QED
    BY <1>4, <1>8

(* Ticks and instants.                                                     *)
LEMMA TickFacts ==
  ASSUME NEW i \in Instants
  PROVE  /\ DeadlineToTick(i) \in Ticks /\ i <= Res * DeadlineToTick(i)
         /\ InstantToTick(i) \in Ticks /\ Res * InstantToTick(i) <= i
  <1>1. PICK r \in Nat, m \in Nat : r = Res /\ r > 0 /\ m = MaxInstant
    BY WheelConstants
  <1>2. i \in Nat /\ i <= m
    BY <1>1 DEF Instants
  <1>3. PICK a \in Nat, b \in Nat : a = i + (r - 1) /\ b = m + (r - 1) /\ a <= b /\ i <= a
    BY <1>1, <1>2
  <1>4. PICK p \in Nat, q \in Nat, s \in Nat : p = a \div r /\ q = b \div r /\ s = i \div r
    BY <1>1, <1>2, DivBounds
  <1>5. /\ r * p <= a /\ a < r * (p + 1) /\ r * q <= b /\ b < r * (q + 1)
        /\ r * s <= i /\ i < r * (s + 1)
    BY <1>1, <1>2, <1>4, DivBounds
  <1>6. /\ r * p \in Nat /\ r * q \in Nat /\ r * s \in Nat /\ r * (p + 1) = r * p + r
        /\ r * (q + 1) \in Nat /\ r * (s + 1) \in Nat /\ q + 1 \in Nat
    OBVIOUS
  <1>7. r * p < r * (q + 1) /\ r * s < r * (q + 1)
    <2>1. PICK x \in Nat, y \in Nat, z \in Nat, n \in Nat :
             x = r * p /\ y = r * s /\ z = r * (q + 1) /\ n = i
      BY <1>2, <1>6
    <2>2. x <= a /\ a <= b /\ b < z /\ y <= n /\ n <= a
      BY <1>3, <1>5, <2>1
    <2>3. x < z /\ y < z
      BY <2>2
    <2> QED
      BY <2>1, <2>3
  <1>8. p < q + 1 /\ s < q + 1
    BY <1>6, <1>7, MulCancel
  <1>9. i <= r * p
    <2>1. PICK x \in Nat, n \in Nat : x = r * p /\ n = i
      BY <1>2, <1>6
    <2>2. a < x + r /\ a = n + (r - 1)
      BY <1>3, <1>5, <1>6, <2>1
    <2>3. n <= x
      BY <2>2
    <2> QED
      BY <2>1, <2>3
  <1>10. DeadlineToTick(i) = p /\ InstantToTick(i) = s /\ MaxTick = q
    <2>1. DeadlineToTick(i) = (i + (r - 1)) \div r /\ MaxTick = (m + (r - 1)) \div r
      BY <1>1 DEF DeadlineToTick, MaxTick
    <2>2. InstantToTick(i) = i \div r
      BY <1>1 DEF InstantToTick
    <2> QED
      BY <1>3, <1>4, <2>1, <2>2
  <1>11. p \in 0..q /\ s \in 0..q
    BY <1>8
  <1> QED
    BY <1>1, <1>5, <1>9, <1>10, <1>11 DEF Ticks

(* Ticks and instants are natural numbers from zero on.                    *)
LEMMA TicksNat == Ticks \subseteq Nat /\ 0 \in Ticks /\ 0 \in Instants /\ Instants \subseteq Nat
                  /\ \A x \in Ticks : \A y \in Nat : y <= x => y \in Ticks
  <1>1. MaxInstant \in Instants
    BY WheelConstants DEF Instants
  <1>2. MaxTick \in Nat
    BY <1>1, TickFacts DEF Ticks, MaxTick
  <1> QED
    BY <1>2, WheelConstants DEF Ticks, Instants

-----------------------------------------------------------------------------
(* The inductive invariant.                                                *)

(* Entries: filed under an expiration that is not after the true one, and  *)
(* linked as their state says.                                             *)
EntryInv ==
  /\ FiledWhereSought
  /\ \A t \in Timers : /\ state[t] = Pending <=> at[t] = Pending
                       /\ state[t] = Off <=> at[t] = Off
  /\ \A t \in Registered : /\ cached[t] \in Ticks /\ cached[t] <= state[t]
                           /\ Near(elapsed, state[t])

(* Rounds: the wheel is never ahead of the clock, and entries are pending  *)
(* only inside of a round.                                                 *)
RoundInv ==
  /\ Res * elapsed <= clock
  /\ round # Off => elapsed <= round /\ Res * round <= clock
  /\ round = Off => PendingTimers = {}

(* Deadlines: a registered entry has the tick of its deadline, one that is *)
(* pending has reached it, and so has one that has fired.                  *)
SleepRight(t) ==
  /\ initial[t] # Off => /\ initial[t] = deadline[t] /\ state[t] = Off
                         /\ Near(elapsed, DeadlineToTick(initial[t]))
  /\ deadline[t] = Off => state[t] = Off
  /\ state[t] \in Ticks => state[t] = DeadlineToTick(deadline[t])
  /\ state[t] = Pending => DeadlineToTick(deadline[t]) <= elapsed
  /\ deadline[t] # Off /\ initial[t] = Off /\ state[t] = Off => clock >= deadline[t]

SleepInv == \A t \in Timers : SleepRight(t)

WheelInv == TypeOK /\ EntryInv /\ RoundInv /\ SleepInv

(* Types of what an entry has.                                             *)
LEMMA WheelTypes ==
  ASSUME TypeOK
  PROVE  /\ elapsed \in Nat /\ clock \in Nat
         /\ \A t \in Timers : state[t] \in Ticks \cup {Pending, Off}
         /\ \A t \in Registered : t \in Timers /\ state[t] \in Nat /\ state[t] # Off /\ state[t] # Pending
         /\ \A t \in Timers : t \in Registered \/ state[t] = Pending \/ state[t] = Off
  <1>1. elapsed \in Nat /\ clock \in Nat
    BY TicksNat DEF TypeOK
  <1>2. \A t \in Timers : state[t] \in Ticks \cup {Pending, Off}
    BY DEF TypeOK
  <1>3. \A t \in Registered : t \in Timers /\ state[t] \in Nat
    BY TicksNat DEF Registered
  <1>4. \A t \in Registered : state[t] # Off /\ state[t] # Pending
    BY <1>3, WheelConstants
  <1> QED
    BY <1>1, <1>2, <1>3, <1>4 DEF Registered

(* An entry of the wheel.                                                  *)
LEMMA EntryFacts ==
  ASSUME TypeOK, EntryInv, NEW t \in Registered
  PROVE  /\ elapsed \in Nat /\ cached[t] \in Nat /\ state[t] \in Nat
         /\ elapsed < cached[t] /\ cached[t] <= state[t]
         /\ Near(elapsed, cached[t])
         /\ at[t] = Place(elapsed, cached[t]) /\ at[t] \in Places
  <1>1. elapsed \in Nat /\ cached[t] \in Nat /\ state[t] \in Nat
    BY WheelTypes, TicksNat DEF EntryInv
  <1>2. elapsed < cached[t] /\ at[t] = Place(elapsed, cached[t]) /\ cached[t] <= state[t]
    BY <1>1 DEF EntryInv, FiledWhereSought
  <1>3. Near(elapsed, cached[t])
    <2>1. NumLevels - 1 \in 0..NumLevels
      BY WheelConstants
    <2>2. PICK a \in Nat, b \in Nat, c \in Nat, m \in Nat :
             /\ a = Digits(cached[t], NumLevels - 1) /\ b = Digits(state[t], NumLevels - 1)
             /\ c = Digits(elapsed, NumLevels - 1) /\ m = Mult
      BY <1>1, <2>1, DigitsFacts, WheelConstants
    <2>3. a <= b
      BY <1>1, <1>2, <2>1, <2>2, DigitsMono
    <2>4. b < c + m
      BY <2>2 DEF EntryInv, Near
    <2>5. a < c + m
      BY <2>3, <2>4
    <2> QED
      BY <2>2, <2>5 DEF Near
  <1>4. at[t] \in Places
    BY <1>1, <1>2, PlaceFacts
  <1> QED
    BY <1>1, <1>2, <1>3, <1>4

(* An entry is linked in a slot if and only if it is registered.           *)
LEMMA LinkedRegistered ==
  ASSUME TypeOK, EntryInv, NEW t \in Timers, at[t] \in Places
  PROVE  t \in Registered
  <1>1. Places \subseteq Nat \X Nat
    BY WheelConstants DEF Places, Levels
  <1>2. at[t] # Off /\ at[t] # Pending
    BY <1>1, WheelConstants
  <1> QED
    BY <1>2, WheelTypes DEF EntryInv

(* The expiration of a level: the start of the first slot that has an      *)
(* entry.                                                                  *)
LEMMA LevelExpires ==
  ASSUME TypeOK, EntryInv, NEW l \in Levels, OccupiedAt(l) # {}
  PROVE  \E u \in Registered :
            /\ LevelFor(elapsed, cached[u]) = l
            /\ at[u] = <<l, NextOccupiedSlot(l, elapsed)>>
            /\ LevelDeadline(l, elapsed) = SlotStart(elapsed, cached[u])
            /\ \A t \in Registered : LevelFor(elapsed, cached[t]) = l =>
                  Digits(cached[u], l) <= Digits(cached[t], l)
            /\ l # NumLevels - 1 =>
                  NextOccupiedSlot(l, elapsed) * SlotRange(l) > (elapsed % LevelRange(l))
  <1> DEFINE Here == {t \in Registered : LevelFor(elapsed, cached[t]) = l}
             X == {Digits(cached[t], l) : t \in Here}
  <1>1. l \in 0..NumLevels
    BY WheelConstants
  <1>2. \A t \in Here : /\ FiledAt(elapsed, cached[t], l)
                        /\ at[t] = <<l, Digits(cached[t], l) % Mult>>
                        /\ Digits(cached[t], l) \in Nat
                        /\ Digits(elapsed, l) < Digits(cached[t], l)
                        /\ Digits(cached[t], l) < Digits(elapsed, l) + Mult
                        /\ SlotStart(elapsed, cached[t]) = Pow[l] * Digits(cached[t], l)
    <2> SUFFICES ASSUME NEW t \in Here
                 PROVE  /\ FiledAt(elapsed, cached[t], l)
                        /\ at[t] = <<l, Digits(cached[t], l) % Mult>>
                        /\ Digits(cached[t], l) \in Nat
                        /\ Digits(elapsed, l) < Digits(cached[t], l)
                        /\ Digits(cached[t], l) < Digits(elapsed, l) + Mult
                        /\ SlotStart(elapsed, cached[t]) = Pow[l] * Digits(cached[t], l)
      OBVIOUS
    <2>1. /\ elapsed \in Nat /\ cached[t] \in Nat /\ elapsed < cached[t]
          /\ Near(elapsed, cached[t]) /\ at[t] = Place(elapsed, cached[t])
      BY EntryFacts
    <2>2. LevelFor(elapsed, cached[t]) = l
      OBVIOUS
    <2>3. FiledAt(elapsed, cached[t], l) /\ at[t] = <<l, Digits(cached[t], l) % Mult>>
      BY <2>1, <2>2, PlaceFacts
    <2>4. Digits(cached[t], l) < Digits(elapsed, l) + Mult
      BY <2>1, <2>3, FiledNear
    <2>5. Digits(cached[t], l) \in Nat
      BY <1>1, <2>1, DigitsFacts
    <2>6. SlotStart(elapsed, cached[t]) = Pow[l] * Digits(cached[t], l)
      BY <2>2 DEF SlotStart
    <2> QED
      BY <2>3, <2>4, <2>5, <2>6 DEF FiledAt
  <1>3. \A s : s \in OccupiedAt(l) <=> \E t \in Here : s = Digits(cached[t], l) % Mult
    <2> SUFFICES ASSUME NEW s
                 PROVE  s \in OccupiedAt(l) <=> \E t \in Here : s = Digits(cached[t], l) % Mult
      OBVIOUS
    <2>1. ASSUME s \in OccupiedAt(l)
          PROVE  \E t \in Here : s = Digits(cached[t], l) % Mult
      <3>1. PICK p \in occupied : p[1] = l /\ p[2] = s
        BY <2>1 DEF OccupiedAt
      <3>2. PICK t \in Registered : p = at[t]
        BY <3>1 DEF EntryInv, FiledWhereSought
      <3>3. elapsed \in Nat /\ cached[t] \in Nat /\ elapsed < cached[t] /\ p = Place(elapsed, cached[t])
        BY <3>2, EntryFacts
      <3>4. p = <<LevelFor(elapsed, cached[t]), Digits(cached[t], LevelFor(elapsed, cached[t])) % Mult>>
        BY <3>3, PlaceFacts
      <3> QED
        BY <3>1, <3>4
    <2>2. ASSUME NEW t \in Here, s = Digits(cached[t], l) % Mult
          PROVE  s \in OccupiedAt(l)
      <3>1. at[t] = <<l, s>> /\ at[t] \in occupied
        BY <1>2, <2>2 DEF EntryInv, FiledWhereSought
      <3>2. at[t][1] = l /\ at[t][2] = s
        BY <3>1
      <3> QED
        BY <3>1, <3>2 DEF OccupiedAt
    <2> QED
      BY <2>1, <2>2
  <1>4. X \subseteq Nat /\ X # {}
    BY <1>2, <1>3
  <1>5. \A x \in X : Digits(elapsed, l) < x /\ x < Digits(elapsed, l) + Mult
    BY <1>2
  <1>6. \A s : s \in OccupiedAt(l) <=> \E x \in X : s = x % Mult
    BY <1>3
  <1>7. elapsed \in Nat
    BY WheelTypes
  <1>8. PICK x \in X : /\ \A y \in X : x <= y
                       /\ NextOccupiedSlot(l, elapsed) = x % Mult
                       /\ LevelDeadline(l, elapsed) = Pow[l] * x
                       /\ x \div Mult = Digits(elapsed, l + 1) =>
                             (x % Mult) * Pow[l] > (elapsed % LevelRange(l))
    <2> HIDE DEF X
    <2> QED
      BY <1>4, <1>5, <1>6, <1>7, DeadlineOfLevel
  <1>9. PICK u \in Here : x = Digits(cached[u], l)
    OBVIOUS
  <1>10. l # NumLevels - 1 => x \div Mult = Digits(elapsed, l + 1)
    <2> SUFFICES ASSUME l # NumLevels - 1
                 PROVE  x \div Mult = Digits(elapsed, l + 1)
      OBVIOUS
    <2>1. cached[u] \in Nat /\ l + 1 \in 0..NumLevels
      BY EntryFacts, WheelConstants
    <2>2. PICK m \in Nat, a \in Nat, v \in Nat :
             m = Mult /\ m > 0 /\ a = x /\ v = Digits(cached[u], l + 1)
      BY <1>2, <1>9, <2>1, DigitsFacts, WheelConstants
    <2>3. m * v <= a /\ a < m * (v + 1)
      BY <1>9, <2>1, <2>2, DigitsStep
    <2>4. a \div m = v
      <3>1. PICK q \in Nat, r \in Nat : q = a \div m /\ r < m /\ a = m * q + r
        BY <2>2, DivMod
      <3>2. m * q \in Nat /\ m * v \in Nat /\ m * (q + 1) = m * q + m /\ m * (v + 1) = m * v + m
        OBVIOUS
      <3>3. m * v < m * (q + 1) /\ m * q < m * (v + 1)
        BY <2>3, <3>1, <3>2
      <3>4. v < q + 1 /\ q < v + 1
        BY <3>3, q + 1 \in Nat, v + 1 \in Nat, MulCancel
      <3> QED
        BY <3>1, <3>4
    <2>5. Digits(cached[u], l + 1) = Digits(elapsed, l + 1)
      BY <1>2 DEF FiledAt
    <2> QED
      BY <2>2, <2>4, <2>5
  <1>11. u \in Registered /\ LevelFor(elapsed, cached[u]) = l
    OBVIOUS
  <1>12. /\ at[u] = <<l, NextOccupiedSlot(l, elapsed)>>
         /\ LevelDeadline(l, elapsed) = SlotStart(elapsed, cached[u])
    BY <1>2, <1>8, <1>9
  <1>13. \A t \in Registered : LevelFor(elapsed, cached[t]) = l =>
            Digits(cached[u], l) <= Digits(cached[t], l)
    BY <1>8, <1>9
  <1>14. l # NumLevels - 1 =>
            NextOccupiedSlot(l, elapsed) * SlotRange(l) > (elapsed % LevelRange(l))
    BY <1>8, <1>10 DEF SlotRange
  <1> HIDE DEF Here, X
  <1> QED
    BY <1>11, <1>12, <1>13, <1>14

(* The expiration of the wheel is that of an entry, no slot in use begins  *)
(* before it and no other slot begins with it.                             *)
LEMMA NextExpires ==
  ASSUME TypeOK, EntryInv, BusyLevels # {}
  PROVE  \E l \in Levels, s, d \in Nat :
            /\ NextExpiration = [level |-> l, slot |-> s, deadline |-> d]
            /\ l = Min(BusyLevels) /\ d = LevelDeadline(l, elapsed)
            /\ elapsed < d /\ <<l, s>> \in Places
            /\ \A t \in Registered :
                  /\ SlotStart(elapsed, cached[t]) \in Nat
                  /\ d <= SlotStart(elapsed, cached[t])
                  /\ d <= cached[t] /\ d <= state[t]
                  /\ at[t] = <<l, s>> \/ d < SlotStart(elapsed, cached[t])
  <1>1. PICK l \in BusyLevels : l = Min(BusyLevels) /\ \A k \in BusyLevels : l <= k
    <2>1. BusyLevels \subseteq Nat
      BY WheelConstants DEF BusyLevels
    <2>2. \E x \in BusyLevels : \A y \in BusyLevels : x <= y
      BY <2>1, LeastNat
    <2> QED
      BY <2>2 DEF Min
  <1>2. l \in Levels /\ OccupiedAt(l) # {} /\ l \in 0..NumLevels
    BY WheelConstants DEF BusyLevels
  <1>3. PICK u \in Registered :
            /\ LevelFor(elapsed, cached[u]) = l
            /\ at[u] = <<l, NextOccupiedSlot(l, elapsed)>>
            /\ LevelDeadline(l, elapsed) = SlotStart(elapsed, cached[u])
            /\ \A t \in Registered : LevelFor(elapsed, cached[t]) = l =>
                  Digits(cached[u], l) <= Digits(cached[t], l)
    BY <1>2, LevelExpires
  <1>4. elapsed \in Nat /\ cached[u] \in Nat /\ elapsed < cached[u] /\ at[u] \in Places
    BY EntryFacts
  <1>5. PICK d \in Nat : d = SlotStart(elapsed, cached[u]) /\ elapsed < d
    BY <1>4, PlaceFacts
  <1>6. PICK s \in Nat : s = NextOccupiedSlot(l, elapsed) /\ <<l, s>> \in Places
    BY <1>3, <1>4, WheelConstants DEF Places
  <1>7. NextExpiration = [level |-> l, slot |-> s, deadline |-> d]
    BY <1>1, <1>3, <1>5, <1>6 DEF NextExpiration
  <1>8. ASSUME NEW t \in Registered
        PROVE  /\ SlotStart(elapsed, cached[t]) \in Nat
               /\ d <= SlotStart(elapsed, cached[t])
               /\ d <= cached[t] /\ d <= state[t]
               /\ at[t] = <<l, s>> \/ d < SlotStart(elapsed, cached[t])
    <2>1. /\ cached[t] \in Nat /\ elapsed < cached[t] /\ cached[t] <= state[t] /\ state[t] \in Nat
          /\ at[t] = Place(elapsed, cached[t])
      BY EntryFacts
    <2>2. PICK k \in Levels, z \in Nat :
             /\ k = LevelFor(elapsed, cached[t]) /\ z = SlotStart(elapsed, cached[t]) /\ z <= cached[t]
             /\ at[t] = <<k, Digits(cached[t], k) % Mult>>
      BY <1>4, <2>1, PlaceFacts
    <2>3. k \in BusyLevels /\ k \in Nat /\ l \in Nat
      <3>1. at[t] \in occupied /\ at[t][1] = k
        BY <2>2 DEF EntryInv, FiledWhereSought
      <3> QED
        BY <1>2, <2>2, <3>1, WheelConstants DEF BusyLevels, OccupiedAt
    <2>4. d <= z /\ (at[t] = <<l, s>> \/ d < z)
      <3>1. CASE k = l
        <4>1. PICK a \in Nat, b \in Nat, r \in Nat :
                 /\ a = Digits(cached[u], l) /\ b = Digits(cached[t], l) /\ r = Pow[l] /\ r > 0
          BY <1>2, <1>4, <2>1, DigitsFacts, PowFacts
        <4>2. a <= b /\ d = r * a /\ z = r * b
          BY <1>3, <1>5, <2>2, <3>1, <4>1 DEF SlotStart
        <4>3. d <= z
          BY <4>2, MulMono
        <4>4. a = b => at[t] = <<l, s>>
          <5>1. at[u] = <<l, a % Mult>>
            BY <1>3, <1>4, <4>1, EntryFacts, PlaceFacts
          <5>2. s = a % Mult
            BY <1>3, <1>6, <5>1
          <5> QED
            BY <2>2, <3>1, <4>1, <5>2
        <4>5. a < b => d < z
          <5>1. z <= d => ~(a < b)
            <6> SUFFICES ASSUME z <= d, a < b
                         PROVE  FALSE
              OBVIOUS
            <6>1. a + 1 <= b /\ a + 1 \in Nat /\ r * (a + 1) = r * a + r /\ r * a \in Nat
              OBVIOUS
            <6>2. r * (a + 1) <= r * b
              BY <6>1, MulMono
            <6> QED
              BY <4>1, <4>2, <6>1, <6>2
          <5> QED
            BY <5>1
        <4> QED
          BY <4>2, <4>3, <4>4, <4>5
      <3>2. CASE k # l
        <4>1. l < k
          BY <1>1, <2>3, <3>2
        <4>2. LevelFor(elapsed, cached[u]) < LevelFor(elapsed, cached[t])
          BY <1>3, <2>2, <4>1
        <4>3. d < z
          BY <1>4, <1>5, <2>1, <2>2, <4>2, LowerLevelFirst
        <4> QED
          BY <4>3
      <3> QED
        BY <3>1, <3>2
    <2>5. d <= cached[t] /\ d <= state[t]
      BY <2>1, <2>2, <2>4
    <2> QED
      BY <2>2, <2>4, <2>5
  <1>9. d = LevelDeadline(l, elapsed)
    BY <1>3, <1>5
  <1> QED
    BY <1>1, <1>2, <1>5, <1>6, <1>7, <1>8, <1>9
-----------------------------------------------------------------------------
(* Steps keep the entries in order.                                        *)

(* An entry whose slot has not begun at the tick f is sought at f where it *)
(* is.                                                                     *)
LEMMA EntryStays ==
  ASSUME TypeOK, EntryInv, NEW t \in Registered, NEW f \in Nat, elapsed <= f,
         f < SlotStart(elapsed, cached[t])
  PROVE  f < cached[t] /\ at[t] = Place(f, cached[t]) /\ Near(f, state[t])
  <1>1. /\ elapsed \in Nat /\ cached[t] \in Nat /\ state[t] \in Nat
        /\ elapsed < cached[t] /\ at[t] = Place(elapsed, cached[t])
    BY EntryFacts
  <1>2. f < cached[t] /\ Place(f, cached[t]) = Place(elapsed, cached[t])
    BY <1>1, PlaceStays
  <1>3. Near(elapsed, state[t])
    BY DEF EntryInv
  <1>4. Near(f, state[t])
    BY <1>1, <1>3, NearLater
  <1> QED
    BY <1>1, <1>2, <1>4

(* The level of an entry is busy.                                          *)
LEMMA BusyLevel ==
  ASSUME TypeOK, EntryInv, NEW t \in Registered
  PROVE  BusyLevels # {}
  <1>1. elapsed \in Nat /\ cached[t] \in Nat /\ elapsed < cached[t] /\ at[t] = Place(elapsed, cached[t])
    BY EntryFacts
  <1>2. PICK l \in Levels : at[t] = <<l, Digits(cached[t], l) % Mult>>
    BY <1>1, PlaceFacts
  <1>3. at[t] \in occupied /\ at[t][1] = l
    BY <1>2 DEF EntryInv, FiledWhereSought
  <1> QED
    BY <1>3 DEF BusyLevels, OccupiedAt

(* A step that changes nothing of the entries.                             *)
LEMMA EntryUnchanged ==
  ASSUME EntryInv, UNCHANGED <<elapsed, state, cached, at, occupied>>
  PROVE  EntryInv'
  BY DEF EntryInv, FiledWhereSought, Registered

(* A step that changes one entry.                                          *)
LEMMA EntryUpdate ==
  ASSUME TypeOK, TypeOK', EntryInv, elapsed' = elapsed, NEW t \in Timers,
         \A u \in Timers \ {t} : /\ state'[u] = state[u] /\ cached'[u] = cached[u]
                                 /\ at'[u] = at[u],
         \/ state'[t] = Off /\ at'[t] = Off
         \/ /\ state'[t] \in Ticks /\ cached'[t] \in Ticks
            /\ elapsed < cached'[t] /\ cached'[t] <= state'[t]
            /\ Near(elapsed, state'[t]) /\ at'[t] = Place(elapsed, cached'[t]),
         \A p : p \in occupied' <=> \/ \E u \in Registered \ {t} : p = at[u]
                                    \/ state'[t] \in Ticks /\ p = at'[t]
  PROVE  EntryInv'
  <1>1. /\ elapsed \in Nat /\ Off # Pending /\ Ticks \subseteq Nat /\ Off \notin Ticks /\ Pending \notin Ticks
    BY WheelTypes, TicksNat, WheelConstants
  <1>2. \A u \in Timers \ {t} : u \in Registered' <=> u \in Registered
    BY DEF Registered
  <1>3. t \in Registered' <=> state'[t] \in Ticks
    BY DEF Registered
  <1>4. Registered' \subseteq Timers /\ Registered \subseteq Timers
    BY DEF Registered
  <1>5. \A u \in Registered' : cached'[u] > elapsed' /\ at'[u] = Place(elapsed', cached'[u])
    <2> SUFFICES ASSUME NEW u \in Registered'
                 PROVE  cached'[u] > elapsed /\ at'[u] = Place(elapsed, cached'[u])
      OBVIOUS
    <2>1. CASE u = t
      BY <1>1, <1>3, <2>1
    <2>2. CASE u # t
      BY <1>1, <1>2, <1>4, <2>2, EntryFacts
    <2> QED
      BY <2>1, <2>2
  <1>6. occupied' = {at'[u] : u \in Registered'}
    <2>1. ASSUME NEW p \in occupied'
          PROVE  \E u \in Registered' : p = at'[u]
      <3>1. CASE \E u \in Registered \ {t} : p = at[u]
        BY <1>2, <1>4, <3>1
      <3>2. CASE state'[t] \in Ticks /\ p = at'[t]
        BY <1>3, <3>2
      <3> QED
        BY <3>1, <3>2
    <2>2. ASSUME NEW u \in Registered'
          PROVE  at'[u] \in occupied'
      <3>1. CASE u = t
        BY <1>3, <3>1
      <3>2. CASE u # t
        <4>1. u \in Registered \ {t} /\ at'[u] = at[u]
          BY <1>2, <1>4, <3>2
        <4> QED
          BY <4>1
      <3> QED
        BY <3>1, <3>2
    <2> QED
      BY <2>1, <2>2
  <1>7. \A u \in Timers : /\ state'[u] = Pending <=> at'[u] = Pending
                          /\ state'[u] = Off <=> at'[u] = Off
    <2> SUFFICES ASSUME NEW u \in Timers
                 PROVE  /\ state'[u] = Pending <=> at'[u] = Pending
                        /\ state'[u] = Off <=> at'[u] = Off
      OBVIOUS
    <2>1. CASE u # t
      BY <2>1 DEF EntryInv
    <2>2. CASE u = t /\ state'[t] = Off /\ at'[t] = Off
      BY <1>1, <2>2
    <2>3. CASE /\ u = t /\ state'[t] \in Ticks /\ cached'[t] \in Ticks
               /\ elapsed < cached'[t] /\ at'[t] = Place(elapsed, cached'[t])
      <3>1. at'[t] \in Places
        BY <1>1, <2>3, PlaceFacts
      <3>2. at'[t] # Off /\ at'[t] # Pending
        BY <3>1, WheelConstants DEF Places, Levels
      <3> QED
        BY <1>1, <2>3, <3>2
    <2> QED
      BY <2>1, <2>2, <2>3
  <1>8. \A u \in Registered' : /\ cached'[u] \in Ticks /\ cached'[u] <= state'[u]
                               /\ Near(elapsed', state'[u])
    <2> SUFFICES ASSUME NEW u \in Registered'
                 PROVE  /\ cached'[u] \in Ticks /\ cached'[u] <= state'[u]
                        /\ Near(elapsed, state'[u])
      OBVIOUS
    <2>1. CASE u = t
      BY <1>1, <1>3, <2>1
    <2>2. CASE u # t
      BY <1>2, <1>4, <2>2 DEF EntryInv
    <2> QED
      BY <2>1, <2>2
  <1> QED
    BY <1>5, <1>6, <1>7, <1>8 DEF EntryInv, FiledWhereSought

(* The bits left without an entry are the places of the others: the slot   *)
(* it is removed from is the one it is in.                                 *)
LEMMA RemovedWhereFiled ==
  ASSUME TypeOK, EntryInv, RoundInv, round = Off, NEW t \in Timers
  PROVE  \A p : p \in OccupiedWithout(t) <=> \E u \in Registered \ {t} : p = at[u]
  <1>1. \A p : p \in occupied <=> \E u \in Registered : p = at[u]
    BY DEF EntryInv, FiledWhereSought
  <1>2. CASE state[t] = Off
    <2>1. t \notin Registered
      BY <1>2, WheelTypes
    <2>2. OccupiedWithout(t) = occupied
      BY <1>2 DEF OccupiedWithout
    <2> QED
      BY <1>1, <2>1, <2>2
  <1>3. CASE state[t] # Off
    <2>1. state[t] # Pending
      BY DEF EntryInv, RoundInv, PendingTimers
    <2>2. t \in Registered
      BY <1>3, <2>1, WheelTypes
    <2>3. cached[t] # Off /\ RemovalPlace(t) = at[t] /\ at[t] \in Places
      BY <2>2, EntryFacts, WheelConstants DEF RemovalPlace
    <2>4. CASE \E u \in Timers \ {t} : at[u] = at[t]
      <3>1. PICK v \in Timers \ {t} : at[v] = at[t]
        BY <2>4
      <3>2. v \in Registered
        BY <2>3, <3>1, LinkedRegistered
      <3>3. OccupiedWithout(t) = occupied
        BY <2>3, <2>4 DEF OccupiedWithout
      <3> QED
        BY <1>1, <3>1, <3>2, <3>3
    <2>5. CASE ~ \E u \in Timers \ {t} : at[u] = at[t]
      <3>1. OccupiedWithout(t) = occupied \ {at[t]}
        BY <1>3, <2>3, <2>5 DEF OccupiedWithout
      <3>2. \A u \in Registered \ {t} : at[u] # at[t]
        BY <2>5 DEF Registered
      <3> QED
        BY <1>1, <3>1, <3>2
    <2> QED
      BY <2>4, <2>5
  <1> QED
    BY <1>2, <1>3
(* reset_entry arms the timer for the tick, or, if that has elapsed, fires *)
(* it; the types of what it changes.                                       *)
LEMMA ResetEntryEffect ==
  ASSUME TypeOK, EntryInv, RoundInv, round = Off, NEW t \in Timers, NEW tick \in Ticks,
         ResetEntry(t, tick)
  PROVE  /\ state' \in [Timers -> Ticks \cup {Pending, Off}]
         /\ cached' \in [Timers -> Ticks \cup {Off}]
         /\ at' \in [Timers -> Places \cup {Pending, Off}]
         /\ occupied' \subseteq Places
         /\ waker' \in [Timers -> Tasks \cup {NoTask}]
         /\ pollers' \in [Timers -> SUBSET Tasks]
         /\ \A u \in Timers \ {t} : /\ state'[u] = state[u] /\ cached'[u] = cached[u]
                                    /\ at'[u] = at[u]
         /\ state' = [state EXCEPT ![t] = IF tick <= elapsed THEN Off ELSE tick]
         /\ IF tick <= elapsed
            THEN at'[t] = Off
            ELSE /\ cached'[t] \in Ticks /\ elapsed < cached'[t] /\ cached'[t] <= tick
                 /\ at'[t] = Place(elapsed, cached'[t])
         /\ \A p : p \in occupied' <=> \/ \E u \in Registered \ {t} : p = at[u]
                                       \/ ~(tick <= elapsed) /\ p = at'[t]
  <1>1. elapsed \in Nat /\ tick \in Nat /\ Ticks \subseteq Nat
    BY WheelTypes, TicksNat
  <1>2. \A u \in Timers : u \in Registered => at[u] \in Places
    BY EntryFacts
  <1>3. CASE Extends(t, tick)
    <2>1. t \in Registered /\ tick >= state[t]
      BY <1>3 DEF Extends, Registered
    <2>2. /\ elapsed < cached[t] /\ cached[t] <= state[t] /\ cached[t] \in Ticks /\ state[t] \in Nat
          /\ at[t] = Place(elapsed, cached[t]) /\ cached[t] \in Nat
      BY <2>1, EntryFacts DEF EntryInv
    <2>3. ~(tick <= elapsed) /\ cached[t] <= tick
      BY <1>1, <2>1, <2>2
    <2>4. state' = [state EXCEPT ![t] = tick] /\ cached' = cached /\ at' = at /\ occupied' = occupied
          /\ waker' = waker /\ pollers' = pollers
      BY <1>3 DEF ResetEntry, wakers
    <2>5. \A p : p \in occupied <=> \/ \E u \in Registered \ {t} : p = at[u]
                                    \/ p = at[t]
      BY <2>1 DEF EntryInv, FiledWhereSought
    <2>6. state' \in [Timers -> Ticks \cup {Pending, Off}] /\ \A u \in Timers \ {t} : state'[u] = state[u]
      BY <2>4 DEF TypeOK
    <2> QED
      BY <2>2, <2>3, <2>4, <2>5, <2>6 DEF TypeOK
  <1>4. CASE ~Extends(t, tick) /\ tick <= elapsed
    <2>1. /\ cached' = [cached EXCEPT ![t] = tick]
          /\ state' = [state EXCEPT ![t] = Off]
          /\ at' = [at EXCEPT ![t] = Off]
          /\ occupied' = OccupiedWithout(t)
          /\ waker' = [waker EXCEPT ![t] = NoTask]
          /\ pollers' = [pollers EXCEPT ![t] = {}]
      BY <1>4 DEF ResetEntry, Reregister, TakeWaker
    <2>2. \A p : p \in occupied' <=> \E u \in Registered \ {t} : p = at[u]
      BY <2>1, RemovedWhereFiled
    <2>3. occupied' \subseteq Places
      BY <1>2, <2>2 DEF Registered
    <2>4. /\ state' \in [Timers -> Ticks \cup {Pending, Off}]
          /\ cached' \in [Timers -> Ticks \cup {Off}]
          /\ at' \in [Timers -> Places \cup {Pending, Off}]
          /\ waker' \in [Timers -> Tasks \cup {NoTask}]
          /\ pollers' \in [Timers -> SUBSET Tasks]
      BY <2>1 DEF TypeOK
    <2>5. /\ \A u \in Timers \ {t} : /\ state'[u] = state[u] /\ cached'[u] = cached[u]
                                     /\ at'[u] = at[u]
          /\ at'[t] = Off
      BY <2>1 DEF TypeOK
    <2> QED
      BY <1>4, <2>1, <2>2, <2>3, <2>4, <2>5
  <1>5. CASE ~Extends(t, tick) /\ ~(tick <= elapsed)
    <2>1. /\ cached' = [cached EXCEPT ![t] = tick]
          /\ state' = [state EXCEPT ![t] = tick]
          /\ at' = [at EXCEPT ![t] = Place(elapsed, tick)]
          /\ occupied' = OccupiedWithout(t) \cup {Place(elapsed, tick)}
          /\ waker' = waker /\ pollers' = pollers
      BY <1>5 DEF ResetEntry, Reregister, wakers
    <2>2. elapsed < tick /\ Place(elapsed, tick) \in Places
      BY <1>1, <1>5, PlaceFacts
    <2>3. \A p : p \in occupied' <=> \/ \E u \in Registered \ {t} : p = at[u]
                                     \/ p = Place(elapsed, tick)
      BY <2>1, RemovedWhereFiled
    <2>4. occupied' \subseteq Places
      BY <1>2, <2>2, <2>3 DEF Registered
    <2>5. /\ state' \in [Timers -> Ticks \cup {Pending, Off}]
          /\ cached' \in [Timers -> Ticks \cup {Off}]
          /\ at' \in [Timers -> Places \cup {Pending, Off}]
      BY <2>1, <2>2 DEF TypeOK
    <2>6. /\ \A u \in Timers \ {t} : /\ state'[u] = state[u] /\ cached'[u] = cached[u]
                                     /\ at'[u] = at[u]
          /\ at'[t] = Place(elapsed, tick) /\ cached'[t] = tick
      BY <2>1 DEF TypeOK
    <2>7. tick <= tick
      BY <1>1
    <2>8. /\ waker' \in [Timers -> Tasks \cup {NoTask}]
          /\ pollers' \in [Timers -> SUBSET Tasks]
      BY <2>1 DEF TypeOK
    <2> QED
      BY <1>5, <2>1, <2>2, <2>3, <2>4, <2>5, <2>6, <2>7, <2>8
  <1> QED
    BY <1>3, <1>4, <1>5

(* So it keeps the entries in order.                                       *)
LEMMA ResetEntryKeeps ==
  ASSUME TypeOK, TypeOK', EntryInv, RoundInv, round = Off, elapsed' = elapsed,
         NEW t \in Timers, NEW tick \in Ticks, Near(elapsed, tick), ResetEntry(t, tick)
  PROVE  EntryInv'
  <1>1. elapsed \in Nat /\ tick \in Nat /\ Off \notin Ticks
    BY WheelTypes, TicksNat, WheelConstants
  <1>2. /\ \A u \in Timers \ {t} : /\ state'[u] = state[u] /\ cached'[u] = cached[u]
                                   /\ at'[u] = at[u]
        /\ state'[t] = IF tick <= elapsed THEN Off ELSE tick
        /\ IF tick <= elapsed
           THEN at'[t] = Off
           ELSE /\ cached'[t] \in Ticks /\ elapsed < cached'[t] /\ cached'[t] <= tick
                /\ at'[t] = Place(elapsed, cached'[t])
        /\ \A p : p \in occupied' <=> \/ \E u \in Registered \ {t} : p = at[u]
                                      \/ ~(tick <= elapsed) /\ p = at'[t]
    BY ResetEntryEffect DEF TypeOK
  <1>3. state'[t] \in Ticks <=> ~(tick <= elapsed)
    BY <1>1, <1>2
  <1>4. \/ state'[t] = Off /\ at'[t] = Off
        \/ /\ state'[t] \in Ticks /\ cached'[t] \in Ticks
           /\ elapsed < cached'[t] /\ cached'[t] <= state'[t]
           /\ Near(elapsed, state'[t]) /\ at'[t] = Place(elapsed, cached'[t])
    BY <1>2, <1>3
  <1>5. \A p : p \in occupied' <=> \/ \E u \in Registered \ {t} : p = at[u]
                                   \/ state'[t] \in Ticks /\ p = at'[t]
    BY <1>2, <1>3
  <1> QED
    BY <1>2, <1>4, <1>5, EntryUpdate
(* What process_expiration does to an entry: one that is not in the slot   *)
(* has not begun, one in it is due at this very tick or filed again.       *)
LEMMA ExpirationEffect ==
  ASSUME TypeOK, EntryInv, ProcessExpiration
  PROVE  \E d \in Nat :
           /\ elapsed' = d /\ elapsed < d /\ d <= round /\ round # Off
           /\ state' = [t \in Timers |-> state'[t]] /\ cached' = [t \in Timers |-> cached'[t]]
           /\ at' = [t \in Timers |-> at'[t]]
           /\ \A t \in Timers :
                 \/ /\ state'[t] = state[t] /\ cached'[t] = cached[t] /\ at'[t] = at[t]
                    /\ t \in Registered => d < SlotStart(elapsed, cached[t])
                 \/ /\ t \in Registered /\ state[t] = d
                    /\ state'[t] = Pending /\ cached'[t] = Off /\ at'[t] = Pending
                 \/ /\ t \in Registered /\ d < state[t]
                    /\ state'[t] = state[t] /\ cached'[t] = state[t] /\ at'[t] = Place(d, state[t])
           /\ \A p : p \in occupied' <=> \E t \in Registered' : p = at'[t]
           /\ PendingTimers = {}
           /\ UNCHANGED <<clock, round, sleep, wakers>>
  <1>1. BusyLevels # {} /\ round # Off /\ PendingTimers = {} /\ UNCHANGED <<clock, round, sleep, wakers>>
    BY DEF ProcessExpiration
  <1>2. PICK l \in Levels, s, d \in Nat :
            /\ NextExpiration = [level |-> l, slot |-> s, deadline |-> d]
            /\ elapsed < d /\ <<l, s>> \in Places
            /\ \A t \in Registered :
                  /\ d <= state[t]
                  /\ at[t] = <<l, s>> \/ d < SlotStart(elapsed, cached[t])
    BY <1>1, NextExpires
  <1> DEFINE taken == {t \in Timers : at[t] = <<l, s>>}
             fired == {t \in taken : IsDue(t, d)}
             moved == taken \ fired
  <1>3. NextExpiration.level = l /\ NextExpiration.slot = s /\ NextExpiration.deadline = d
    BY <1>2
  <1>4. /\ d <= round /\ elapsed' = d
        /\ state' = [t \in Timers |-> IF t \in fired THEN Pending ELSE state[t]]
        /\ cached' = [t \in Timers |-> IF t \in fired THEN Off
                                       ELSE IF t \in moved THEN state[t] ELSE cached[t]]
        /\ at' = [t \in Timers |-> IF t \in fired THEN Pending
                                   ELSE IF t \in moved THEN Place(d, state[t]) ELSE at[t]]
        /\ occupied' = (occupied \ {<<l, s>>}) \cup {Place(d, state[t]) : t \in moved}
    BY <1>3 DEF ProcessExpiration
  <1>5. taken \subseteq Registered
    BY <1>2, LinkedRegistered
  <1>6. \A t \in Registered : state[t] \in Nat /\ t \in Timers
    BY WheelTypes
  <1>7. \A t \in fired : state[t] = d /\ t \in Registered
    BY <1>2, <1>5, <1>6 DEF IsDue
  <1>8. \A t \in moved : d < state[t] /\ t \in Registered
    BY <1>2, <1>5, <1>6 DEF IsDue
  <1>9. \A t \in Registered : t \notin taken => d < SlotStart(elapsed, cached[t])
    BY <1>2, <1>6
  <1>10. fired \subseteq taken /\ moved \subseteq taken /\ \A t \in taken : t \in fired \/ t \in moved
    OBVIOUS
  <1>11. fired \subseteq Timers /\ moved \subseteq Timers /\ \A t \in moved : t \notin fired
    OBVIOUS
  <1>12. \A t \in taken : at[t] = <<l, s>>
    OBVIOUS
  <1>13. \A t \in Timers : t \notin taken => at[t] # <<l, s>>
    OBVIOUS
  <1> HIDE DEF taken, fired, moved
  <1>14. ASSUME NEW t \in Timers
         PROVE  \/ /\ t \notin taken
                   /\ state'[t] = state[t] /\ cached'[t] = cached[t] /\ at'[t] = at[t]
                   /\ t \in Registered => d < SlotStart(elapsed, cached[t])
                \/ /\ t \in fired /\ t \in Registered /\ state[t] = d
                   /\ state'[t] = Pending /\ cached'[t] = Off /\ at'[t] = Pending
                \/ /\ t \in moved /\ t \in Registered /\ d < state[t]
                   /\ state'[t] = state[t] /\ cached'[t] = state[t] /\ at'[t] = Place(d, state[t])
    BY <1>4, <1>7, <1>8, <1>9, <1>10, <1>11
  <1>15. Pending \notin Ticks
    BY TicksNat, WheelConstants
  <1>16. \A t \in Timers : t \in Registered' <=> t \in Registered /\ t \notin fired
    BY <1>11, <1>14, <1>15, <1>10 DEF Registered
  <1>17. \A p : p \in occupied' <=> \E t \in Registered' : p = at'[t]
    <2> SUFFICES ASSUME NEW p
                 PROVE  p \in occupied' <=> \E t \in Registered' : p = at'[t]
      OBVIOUS
    <2>1. ASSUME p \in occupied, p # <<l, s>>
          PROVE  \E t \in Registered' : p = at'[t]
      <3>1. PICK t \in Registered : p = at[t]
        BY <2>1 DEF EntryInv, FiledWhereSought
      <3>2. t \notin taken
        BY <1>12, <2>1, <3>1
      <3> QED
        BY <1>6, <1>10, <1>14, <1>16, <3>1, <3>2
    <2>2. ASSUME NEW t \in moved, p = Place(d, state[t])
          PROVE  \E u \in Registered' : p = at'[u]
      <3>1. t \in Timers /\ t \in Registered' /\ at'[t] = Place(d, state[t])
        BY <1>4, <1>8, <1>11, <1>16
      <3> QED
        BY <2>2, <3>1
    <2>3. ASSUME NEW t \in Registered', p = at'[t]
          PROVE  p \in occupied'
      <3>1. t \in Timers
        BY DEF Registered
      <3>2. t \in Registered /\ t \notin fired
        BY <1>16, <3>1
      <3>3. CASE t \notin taken
        <4>1. p = at[t] /\ at[t] \in occupied /\ at[t] # <<l, s>>
          BY <1>10, <1>13, <1>14, <2>3, <3>1, <3>2, <3>3 DEF EntryInv, FiledWhereSought
        <4> QED
          BY <1>4, <4>1
      <3>4. CASE t \in moved
        BY <1>4, <1>11, <2>3, <3>1, <3>4
      <3> QED
        BY <1>10, <3>2, <3>3, <3>4
    <2>4. p \in occupied' <=> (p \in occupied /\ p # <<l, s>>) \/ \E t \in moved : p = Place(d, state[t])
      BY <1>4
    <2> QED
      BY <2>1, <2>2, <2>3, <2>4
  <1>18. /\ state' = [t \in Timers |-> state'[t]] /\ cached' = [t \in Timers |-> cached'[t]]
         /\ at' = [t \in Timers |-> at'[t]]
    BY <1>4
  <1> QED
    BY <1>1, <1>2, <1>4, <1>14, <1>17, <1>18
(* The round the driver begins is between elapsed and the clock.           *)
LEMMA ProcessEffect ==
  ASSUME TypeOK, RoundInv, Process
  PROVE  /\ round = Off /\ round' \in Ticks /\ elapsed <= round' /\ Res * round' <= clock
         /\ UNCHANGED <<clock, elapsed, entry, sleep, wakers>>
  <1>1. PICK i \in {clock, clock - 1} \cap Instants : round' = Max({InstantToTick(i), elapsed})
    BY DEF Process
  <1>2. /\ clock \in Nat /\ elapsed \in Ticks /\ elapsed \in Nat /\ i \in Nat /\ i <= clock
    BY WheelTypes, TicksNat DEF TypeOK
  <1>3. PICK a \in Nat, z \in Nat : a = InstantToTick(i) /\ a \in Ticks /\ z = Res * a /\ z <= i
    <2>1. InstantToTick(i) \in Nat /\ InstantToTick(i) \in Ticks /\ Res * InstantToTick(i) <= i
      BY TickFacts, TicksNat
    <2> QED
      BY <2>1, MulNat, WheelConstants
  <1>4. Max({a, elapsed}) \in {a, elapsed} /\ \A y \in {a, elapsed} : Max({a, elapsed}) >= y
    <2>1. \E x \in {a, elapsed} : \A y \in {a, elapsed} : x >= y
      BY <1>2
    <2> QED
      BY <2>1 DEF Max
  <1>5. round' \in {a, elapsed} /\ elapsed <= round'
    BY <1>1, <1>2, <1>3, <1>4
  <1>6. Res * a <= clock /\ Res * elapsed <= clock
    BY <1>2, <1>3 DEF RoundInv
  <1> QED
    BY <1>2, <1>3, <1>5, <1>6 DEF Process

(* The type invariant is kept.                                             *)
LEMMA TypeStep ==
  ASSUME TypeOK, EntryInv, RoundInv, [Next]_vars
  PROVE  TypeOK'
  <1>1. CASE UNCHANGED vars
    BY <1>1 DEF TypeOK, vars, entry, sleep, wakers
  <1>2. CASE ClockAdvances
    <2>1. clock + 1 \in Instants
      BY <1>2, WheelConstants DEF TypeOK, ClockAdvances, Instants
    <2> QED
      BY <1>2, <2>1 DEF TypeOK, ClockAdvances, entry, sleep, wakers
  <1>3. CASE Process
    BY <1>3, ProcessEffect DEF TypeOK, entry, sleep, wakers
  <1>4. CASE ProcessExpiration
    <2>1. PICK d \in Nat :
           /\ elapsed' = d /\ elapsed < d /\ d <= round /\ round # Off
           /\ state' = [t \in Timers |-> state'[t]] /\ cached' = [t \in Timers |-> cached'[t]]
           /\ at' = [t \in Timers |-> at'[t]]
           /\ \A t \in Timers :
                 \/ /\ state'[t] = state[t] /\ cached'[t] = cached[t] /\ at'[t] = at[t]
                 \/ /\ t \in Registered /\ state[t] = d
                    /\ state'[t] = Pending /\ cached'[t] = Off /\ at'[t] = Pending
                 \/ /\ t \in Registered /\ d < state[t]
                    /\ state'[t] = state[t] /\ cached'[t] = state[t] /\ at'[t] = Place(d, state[t])
           /\ \A p : p \in occupied' <=> \E t \in Registered' : p = at'[t]
           /\ UNCHANGED <<clock, round, sleep, wakers>>
      BY <1>4, ExpirationEffect
    <2>2. d \in Ticks
      BY <2>1, TicksNat DEF TypeOK
    <2>3. \A t \in Timers : /\ state'[t] \in Ticks \cup {Pending, Off}
                            /\ cached'[t] \in Ticks \cup {Off}
                            /\ at'[t] \in Places \cup {Pending, Off}
                            /\ t \in Registered' => at'[t] \in Places
      <3> SUFFICES ASSUME NEW t \in Timers
                   PROVE  /\ state'[t] \in Ticks \cup {Pending, Off}
                          /\ cached'[t] \in Ticks \cup {Off}
                          /\ at'[t] \in Places \cup {Pending, Off}
                          /\ t \in Registered' => at'[t] \in Places
        OBVIOUS
      <3>1. CASE state'[t] = state[t] /\ cached'[t] = cached[t] /\ at'[t] = at[t]
        <4>1. t \in Registered' => t \in Registered
          BY <3>1 DEF Registered
        <4> QED
          BY <3>1, <4>1, EntryFacts DEF TypeOK
      <3>2. CASE state'[t] = Pending /\ cached'[t] = Off /\ at'[t] = Pending
        <4>1. t \notin Registered'
          BY <3>2, TicksNat, WheelConstants DEF Registered
        <4> QED
          BY <3>2, <4>1
      <3>3. CASE /\ t \in Registered /\ d < state[t]
                 /\ state'[t] = state[t] /\ cached'[t] = state[t] /\ at'[t] = Place(d, state[t])
        <4>1. state[t] \in Ticks /\ state[t] \in Nat
          BY <3>3, WheelTypes DEF Registered
        <4>2. Place(d, state[t]) \in Places
          BY <3>3, <4>1, PlaceFacts
        <4> QED
          BY <3>3, <4>1, <4>2
      <3> QED
        BY <2>1, <3>1, <3>2, <3>3
    <2>4. occupied' \subseteq Places
      BY <2>1, <2>3 DEF Registered
    <2>5. /\ state' \in [Timers -> Ticks \cup {Pending, Off}]
          /\ cached' \in [Timers -> Ticks \cup {Off}]
          /\ at' \in [Timers -> Places \cup {Pending, Off}]
      BY <2>1, <2>3
    <2>6. /\ clock' = clock /\ round' = round /\ initial' = initial /\ deadline' = deadline
          /\ waker' = waker /\ pollers' = pollers /\ elapsed' = d
      BY <2>1 DEF sleep, wakers
    <2> QED
      BY <2>2, <2>4, <2>5, <2>6 DEF TypeOK
  <1>5. CASE RoundEnds
    BY <1>5 DEF TypeOK, RoundEnds, entry, sleep, wakers
  <1>6. ASSUME NEW t \in Timers, NewSleep(t)
        PROVE  TypeOK'
    <2>1. PICK i \in Instants : initial' = [initial EXCEPT ![t] = i] /\ deadline' = [deadline EXCEPT ![t] = i]
      BY <1>6 DEF NewSleep, Deadlines
    <2>2. UNCHANGED <<clock, elapsed, round, state, cached, at, occupied, waker, pollers>>
      BY <1>6 DEF NewSleep, entry, wakers
    <2> QED
      BY <2>1, <2>2 DEF TypeOK
  <1>7. ASSUME NEW t \in Timers, Reset(t)
        PROVE  TypeOK'
    <2>1. PICK i \in Instants : deadline' = [deadline EXCEPT ![t] = i] /\ ResetEntry(t, DeadlineToTick(i))
      BY <1>7 DEF Reset, Deadlines
    <2>2. initial' = [initial EXCEPT ![t] = Off] /\ round = Off /\ UNCHANGED <<clock, elapsed, round>>
      BY <1>7 DEF Reset
    <2>3. DeadlineToTick(i) \in Ticks
      BY TickFacts
    <2>4. /\ state' \in [Timers -> Ticks \cup {Pending, Off}]
          /\ cached' \in [Timers -> Ticks \cup {Off}]
          /\ at' \in [Timers -> Places \cup {Pending, Off}]
          /\ occupied' \subseteq Places
          /\ waker' \in [Timers -> Tasks \cup {NoTask}]
          /\ pollers' \in [Timers -> SUBSET Tasks]
      BY <2>1, <2>2, <2>3, ResetEntryEffect
    <2> QED
      BY <2>1, <2>2, <2>4 DEF TypeOK
  <1>8. ASSUME NEW t \in Timers, Register(t)
        PROVE  TypeOK'
    <2>1. initial[t] \in Instants /\ ResetEntry(t, DeadlineToTick(initial[t]))
      BY <1>8 DEF Register, TypeOK
    <2>2. initial' = [initial EXCEPT ![t] = Off] /\ round = Off /\ UNCHANGED <<clock, elapsed, round, deadline>>
      BY <1>8 DEF Register
    <2>3. DeadlineToTick(initial[t]) \in Ticks
      BY <2>1, TickFacts
    <2>4. /\ state' \in [Timers -> Ticks \cup {Pending, Off}]
          /\ cached' \in [Timers -> Ticks \cup {Off}]
          /\ at' \in [Timers -> Places \cup {Pending, Off}]
          /\ occupied' \subseteq Places
          /\ waker' \in [Timers -> Tasks \cup {NoTask}]
          /\ pollers' \in [Timers -> SUBSET Tasks]
      BY <2>1, <2>2, <2>3, ResetEntryEffect
    <2> QED
      BY <2>2, <2>4 DEF TypeOK
  <1>9. ASSUME NEW t \in Timers, DropSleep(t)
        PROVE  TypeOK'
    <2>1. OccupiedWithout(t) \subseteq Places
      BY DEF OccupiedWithout, TypeOK
    <2> QED
      BY <1>9, <2>1, TicksNat DEF TypeOK, DropSleep, TakeWaker
  <1>10. ASSUME NEW t \in Timers, PopPending(t)
         PROVE  TypeOK'
    <2>1. /\ waker' \in [Timers -> Tasks \cup {NoTask}]
          /\ pollers' \in [Timers -> SUBSET Tasks]
      BY <1>10 DEF TypeOK, PopPending, FireEntry, TakeWaker, wakers
    <2> QED
      BY <1>10, <2>1 DEF TypeOK, PopPending, sleep
  <1>11. ASSUME NEW t \in Timers, NEW k \in Tasks, Poll(t, k)
         PROVE  TypeOK'
    BY <1>11 DEF TypeOK, Poll, entry, sleep
  <1> QED
    BY <1>1, <1>2, <1>3, <1>4, <1>5, <1>6, <1>7, <1>8, <1>9, <1>10, <1>11 DEF Next
(* process_expiration keeps the entries in order.                          *)
LEMMA ExpirationKeeps ==
  ASSUME TypeOK, TypeOK', EntryInv, ProcessExpiration
  PROVE  EntryInv'
  <1>1. PICK d \in Nat :
           /\ elapsed' = d /\ elapsed < d
           /\ \A t \in Timers :
                 \/ /\ state'[t] = state[t] /\ cached'[t] = cached[t] /\ at'[t] = at[t]
                    /\ t \in Registered => d < SlotStart(elapsed, cached[t])
                 \/ /\ t \in Registered /\ state[t] = d
                    /\ state'[t] = Pending /\ cached'[t] = Off /\ at'[t] = Pending
                 \/ /\ t \in Registered /\ d < state[t]
                    /\ state'[t] = state[t] /\ cached'[t] = state[t] /\ at'[t] = Place(d, state[t])
           /\ \A p : p \in occupied' <=> \E t \in Registered' : p = at'[t]
    BY ExpirationEffect
  <1>2. elapsed \in Nat /\ elapsed <= d /\ Off # Pending /\ Off \notin Ticks /\ Pending \notin Ticks
    <2>1. elapsed \in Nat
      BY WheelTypes
    <2>2. Off # Pending /\ Off \notin Ticks /\ Pending \notin Ticks
      BY WheelConstants, TicksNat
    <2> QED
      BY <1>1, <2>1, <2>2
  <1>3. ASSUME NEW t \in Timers
        PROVE  /\ state'[t] = Pending <=> at'[t] = Pending
               /\ state'[t] = Off <=> at'[t] = Off
               /\ t \in Registered' =>
                     /\ cached'[t] > d /\ at'[t] = Place(d, cached'[t])
                     /\ cached'[t] \in Ticks /\ cached'[t] <= state'[t]
                     /\ Near(d, state'[t])
    <2>1. CASE /\ state'[t] = state[t] /\ cached'[t] = cached[t] /\ at'[t] = at[t]
               /\ t \in Registered => d < SlotStart(elapsed, cached[t])
      <3>1. t \in Registered' => t \in Registered
        BY <2>1 DEF Registered
      <3>2. t \in Registered => d < cached[t] /\ at[t] = Place(d, cached[t]) /\ Near(d, state[t])
        BY <1>2, <2>1, EntryStays
      <3>3. t \in Registered => cached[t] \in Ticks /\ cached[t] <= state[t] /\ cached[t] \in Nat
        BY EntryFacts DEF EntryInv
      <3> QED
        BY <2>1, <3>1, <3>2, <3>3 DEF EntryInv
    <2>2. CASE state'[t] = Pending /\ cached'[t] = Off /\ at'[t] = Pending
      <3>1. t \notin Registered'
        BY <1>2, <2>2 DEF Registered
      <3> QED
        BY <1>2, <2>2, <3>1
    <2>3. CASE /\ t \in Registered /\ d < state[t]
               /\ state'[t] = state[t] /\ cached'[t] = state[t] /\ at'[t] = Place(d, state[t])
      <3>1. state[t] \in Nat /\ state[t] \in Ticks /\ Near(elapsed, state[t])
        BY <2>3, WheelTypes DEF EntryInv, Registered
      <3>2. Near(d, state[t])
        BY <1>2, <3>1, NearLater
      <3>3. at'[t] \in Places
        BY <2>3, <3>1, PlaceFacts
      <3>4. at'[t] # Off /\ at'[t] # Pending
        BY <3>3, WheelConstants DEF Places, Levels
      <3> QED
        BY <1>2, <2>3, <3>1, <3>2, <3>4
    <2> QED
      BY <1>1, <2>1, <2>2, <2>3
  <1>4. occupied' = {at'[t] : t \in Registered'}
    BY <1>1
  <1>5. Registered' \subseteq Timers
    BY DEF Registered
  <1> QED
    BY <1>1, <1>3, <1>4, <1>5 DEF EntryInv, FiledWhereSought

(* So does the end of a round: no slot in use begins before it.            *)
LEMMA RoundEndKeeps ==
  ASSUME TypeOK, TypeOK', EntryInv, RoundInv, RoundEnds
  PROVE  EntryInv'
  <1>1. /\ round \in Nat /\ elapsed <= round /\ elapsed' = round
        /\ UNCHANGED <<state, cached, at, occupied>>
        /\ BusyLevels # {} => NextExpiration.deadline > round
    BY TicksNat DEF TypeOK, RoundInv, RoundEnds, entry
  <1>2. ASSUME NEW t \in Registered
        PROVE  round < cached[t] /\ at[t] = Place(round, cached[t]) /\ Near(round, state[t])
    <2>1. BusyLevels # {}
      BY BusyLevel
    <2>2. PICK d \in Nat : /\ NextExpiration.deadline = d
                           /\ SlotStart(elapsed, cached[t]) \in Nat
                           /\ d <= SlotStart(elapsed, cached[t])
      <3>1. PICK l \in Levels, s, d \in Nat :
              /\ NextExpiration = [level |-> l, slot |-> s, deadline |-> d]
              /\ SlotStart(elapsed, cached[t]) \in Nat
              /\ d <= SlotStart(elapsed, cached[t])
        BY <2>1, NextExpires
      <3> QED
        BY <3>1
    <2>3. round < SlotStart(elapsed, cached[t])
      BY <1>1, <2>1, <2>2
    <2> QED
      BY <1>1, <2>3, EntryStays
  <1>3. Registered' = Registered
    BY <1>1 DEF Registered
  <1>4. \A t \in Registered : cached[t] \in Nat
    BY EntryFacts
  <1>5. \A t \in Registered' : cached'[t] > elapsed' /\ at'[t] = Place(elapsed', cached'[t])
    BY <1>1, <1>2, <1>3, <1>4
  <1>6. \A t \in Registered' : /\ cached'[t] \in Ticks /\ cached'[t] <= state'[t]
                               /\ Near(elapsed', state'[t])
    BY <1>1, <1>2, <1>3 DEF EntryInv
  <1>7. /\ occupied' = {at'[t] : t \in Registered'}
        /\ \A t \in Timers : /\ state'[t] = Pending <=> at'[t] = Pending
                             /\ state'[t] = Off <=> at'[t] = Off
    BY <1>1, <1>3 DEF EntryInv, FiledWhereSought
  <1> QED
    BY <1>5, <1>6, <1>7 DEF EntryInv, FiledWhereSought

(* Every step keeps the entries in order.                                  *)
LEMMA EntryStep ==
  ASSUME WheelInv, TypeOK', [Next]_vars
  PROVE  EntryInv'
  <1> USE DEF WheelInv
  <1>1. CASE UNCHANGED vars \/ ClockAdvances \/ Process
    <2>1. UNCHANGED <<elapsed, state, cached, at, occupied>>
      BY <1>1 DEF vars, ClockAdvances, Process, entry
    <2> QED
      BY <2>1, EntryUnchanged
  <1>2. CASE ProcessExpiration
    BY <1>2, ExpirationKeeps
  <1>3. CASE RoundEnds
    BY <1>3, RoundEndKeeps
  <1>4. ASSUME NEW t \in Timers, NewSleep(t) \/ \E k \in Tasks : Poll(t, k)
        PROVE  EntryInv'
    <2>1. UNCHANGED <<elapsed, state, cached, at, occupied>>
      BY <1>4 DEF NewSleep, Poll, entry
    <2> QED
      BY <2>1, EntryUnchanged
  <1>5. ASSUME NEW t \in Timers, Reset(t)
        PROVE  EntryInv'
    <2>1. PICK i \in Deadlines : ResetEntry(t, DeadlineToTick(i))
      BY <1>5 DEF Reset
    <2>2. i \in Instants /\ Near(elapsed, DeadlineToTick(i))
      BY DEF Deadlines, Near, Digits, SlotRange
    <2>3. DeadlineToTick(i) \in Ticks
      BY <2>2, TickFacts
    <2>4. round = Off /\ elapsed' = elapsed
      BY <1>5 DEF Reset
    <2> QED
      BY <2>1, <2>2, <2>3, <2>4, ResetEntryKeeps
  <1>6. ASSUME NEW t \in Timers, Register(t)
        PROVE  EntryInv'
    <2>1. /\ initial[t] # Off /\ ResetEntry(t, DeadlineToTick(initial[t]))
          /\ round = Off /\ elapsed' = elapsed
      BY <1>6 DEF Register
    <2>2. initial[t] \in Instants /\ Near(elapsed, DeadlineToTick(initial[t]))
      BY <2>1 DEF TypeOK, SleepInv, SleepRight
    <2>3. DeadlineToTick(initial[t]) \in Ticks
      BY <2>2, TickFacts
    <2> QED
      BY <2>1, <2>2, <2>3, ResetEntryKeeps
  <1>7. ASSUME NEW t \in Timers, DropSleep(t)
        PROVE  EntryInv'
    <2>1. /\ round = Off /\ elapsed' = elapsed /\ occupied' = OccupiedWithout(t)
          /\ state'[t] = Off /\ at'[t] = Off
          /\ \A u \in Timers \ {t} : /\ state'[u] = state[u] /\ cached'[u] = cached[u]
                                     /\ at'[u] = at[u]
      BY <1>7 DEF DropSleep, TypeOK
    <2>2. Off \notin Ticks
      BY TicksNat, WheelConstants
    <2>3. \A p : p \in occupied' <=> \/ \E u \in Registered \ {t} : p = at[u]
                                     \/ state'[t] \in Ticks /\ p = at'[t]
      BY <2>1, <2>2, RemovedWhereFiled
    <2> QED
      BY <2>1, <2>3, EntryUpdate
  <1>8. ASSUME NEW t \in Timers, PopPending(t)
        PROVE  EntryInv'
    <2>1. /\ at[t] = Pending /\ elapsed' = elapsed /\ occupied' = occupied
          /\ state'[t] = Off /\ at'[t] = Off
          /\ \A u \in Timers \ {t} : /\ state'[u] = state[u] /\ cached'[u] = cached[u]
                                     /\ at'[u] = at[u]
      BY <1>8 DEF PopPending, TypeOK
    <2>2. Off \notin Ticks
      BY TicksNat, WheelConstants
    <2>3. t \notin Registered
      <3>1. state[t] = Pending
        BY <2>1 DEF EntryInv
      <3> QED
        BY <3>1, WheelTypes
    <2>4. \A p : p \in occupied' <=> \/ \E u \in Registered \ {t} : p = at[u]
                                     \/ state'[t] \in Ticks /\ p = at'[t]
      BY <2>1, <2>2, <2>3 DEF EntryInv, FiledWhereSought
    <2> QED
      BY <2>1, <2>4, EntryUpdate
  <1> QED
    BY <1>1, <1>2, <1>3, <1>4, <1>5, <1>6, <1>7, <1>8 DEF Next
(* Every step keeps the rounds in order.                                   *)
LEMMA RoundStep ==
  ASSUME WheelInv, TypeOK', EntryInv', [Next]_vars
  PROVE  RoundInv'
  <1>1. /\ elapsed \in Nat /\ clock \in Nat /\ Res * elapsed <= clock /\ Res * elapsed \in Nat
        /\ round # Off => elapsed <= round /\ Res * round <= clock
        /\ round = Off => PendingTimers = {}
        /\ Off # Pending
    BY WheelTypes, WheelConstants, MulNat DEF WheelInv, RoundInv
  <1>2. PendingTimers' = {t \in Timers : state'[t] = Pending} /\ PendingTimers = {t \in Timers : state[t] = Pending}
    BY DEF PendingTimers, EntryInv, WheelInv
  <1>3. CASE UNCHANGED vars
    BY <1>1, <1>3 DEF RoundInv, PendingTimers, vars, entry
  <1>4. CASE ClockAdvances
    BY <1>1, <1>4 DEF ClockAdvances, RoundInv, PendingTimers, entry
  <1>5. CASE Process
    <2>1. round' \in Nat /\ elapsed <= round' /\ Res * round' <= clock /\ clock' = clock /\ elapsed' = elapsed
      BY <1>5, ProcessEffect, TicksNat DEF WheelInv
    <2>2. round' # Off
      BY <2>1, WheelConstants
    <2> QED
      BY <1>1, <2>1, <2>2 DEF RoundInv
  <1>6. CASE ProcessExpiration
    <2>1. PICK d \in Nat : elapsed' = d /\ d <= round /\ round # Off /\ clock' = clock /\ round' = round
      BY <1>6, ExpirationEffect DEF WheelInv
    <2>2. PICK r \in Nat : r = round
      BY <2>1, TicksNat DEF WheelInv, TypeOK
    <2>3. Res * d <= Res * r /\ Res * d \in Nat /\ Res * r \in Nat
      BY <2>1, <2>2, WheelConstants, MulMono, MulNat
    <2>4. Res * d <= clock
      BY <1>1, <2>1, <2>2, <2>3
    <2> QED
      BY <1>1, <2>1, <2>2, <2>4 DEF RoundInv
  <1>7. CASE RoundEnds
    BY <1>1, <1>7 DEF RoundEnds, RoundInv, PendingTimers, entry
  <1>8. ASSUME NEW t \in Timers, PopPending(t)
        PROVE  RoundInv'
    BY <1>1, <1>8 DEF PopPending, RoundInv
  <1>9. ASSUME NEW t \in Timers, NewSleep(t) \/ \E k \in Tasks : Poll(t, k)
        PROVE  RoundInv'
    BY <1>1, <1>9 DEF NewSleep, Poll, RoundInv, PendingTimers, entry
  <1>10. ASSUME NEW t \in Timers, DropSleep(t)
         PROVE  RoundInv'
    <2>1. /\ UNCHANGED <<clock, elapsed, round>> /\ round = Off /\ state' = [state EXCEPT ![t] = Off]
      BY <1>10 DEF DropSleep
    <2>2. PendingTimers' = {}
      BY <1>1, <1>2, <2>1 DEF WheelInv, TypeOK
    <2> QED
      BY <1>1, <2>1, <2>2 DEF RoundInv
  <1>11. ASSUME NEW t \in Timers, Reset(t) \/ Register(t)
         PROVE  RoundInv'
    <2>1. PICK i \in Instants : ResetEntry(t, DeadlineToTick(i))
      BY <1>11 DEF Reset, Register, Deadlines, WheelInv, TypeOK
    <2>2. UNCHANGED <<clock, elapsed, round>> /\ round = Off
      BY <1>11 DEF Reset, Register
    <2>3. DeadlineToTick(i) \in Ticks
      BY TickFacts
    <2>4. state' = [state EXCEPT ![t] = IF DeadlineToTick(i) <= elapsed THEN Off ELSE DeadlineToTick(i)]
      BY <2>1, <2>2, <2>3, ResetEntryEffect DEF WheelInv
    <2>5. DeadlineToTick(i) # Pending
      BY <2>3, TicksNat, WheelConstants
    <2>6. PendingTimers' = {}
      BY <1>1, <1>2, <2>2, <2>4, <2>5 DEF WheelInv, TypeOK
    <2> QED
      BY <1>1, <2>2, <2>6 DEF RoundInv
  <1> QED
    BY <1>3, <1>4, <1>5, <1>6, <1>7, <1>8, <1>9, <1>10, <1>11 DEF Next
(* Time alone does not disturb a Sleep.                                    *)
LEMMA SleepKept ==
  ASSUME TypeOK, TypeOK', NEW u \in Timers, SleepRight(u),
         state'[u] = state[u], initial'[u] = initial[u], deadline'[u] = deadline[u],
         elapsed <= elapsed', clock <= clock'
  PROVE  SleepRight(u)'
  <1>1. /\ elapsed \in Nat /\ elapsed' \in Nat /\ clock \in Nat /\ clock' \in Nat
        /\ initial[u] \in Instants \cup {Off} /\ deadline[u] \in Instants \cup {Off}
    BY TicksNat DEF TypeOK
  <1>2. \A i \in Instants : DeadlineToTick(i) \in Nat /\ i \in Nat
    BY TickFacts, TicksNat
  <1>3. ASSUME initial[u] # Off
        PROVE  Near(elapsed', DeadlineToTick(initial[u]))
    <2>1. Near(elapsed, DeadlineToTick(initial[u])) /\ DeadlineToTick(initial[u]) \in Nat
      BY <1>1, <1>2, <1>3 DEF SleepRight
    <2> QED
      BY <1>1, <2>1, NearLater
  <1>4. state[u] = Pending => deadline[u] \in Instants
    <2>1. Off # Pending
      BY WheelConstants
    <2> QED
      BY <1>1, <2>1 DEF SleepRight
  <1>5. state[u] = Pending => DeadlineToTick(deadline[u]) <= elapsed'
    BY <1>1, <1>2, <1>4 DEF SleepRight
  <1>6. deadline[u] # Off /\ initial[u] = Off /\ state[u] = Off => clock' >= deadline[u]
    BY <1>1, <1>2 DEF SleepRight
  <1> QED
    BY <1>3, <1>5, <1>6 DEF SleepRight

(* A tick that has elapsed is not before the deadline it was made from.    *)
LEMMA ElapsedReached ==
  ASSUME TypeOK, RoundInv, NEW i \in Instants, DeadlineToTick(i) <= elapsed
  PROVE  clock >= i
  <1>1. PICK a \in Nat, e \in Nat, c \in Nat, r \in Nat :
           a = DeadlineToTick(i) /\ e = elapsed /\ c = clock /\ r = Res
    BY TickFacts, TicksNat, WheelTypes, WheelConstants
  <1>2. i \in Nat /\ i <= r * a /\ r * e <= c /\ a <= e
    BY <1>1, TickFacts, TicksNat DEF RoundInv
  <1>3. r * a <= r * e /\ r * a \in Nat /\ r * e \in Nat
    BY <1>2, MulMono, MulNat
  <1>4. i <= c
    BY <1>2, <1>3
  <1> QED
    BY <1>1, <1>2, <1>4

(* A Sleep whose entry was reset to its deadline.                          *)
LEMMA SleepReset ==
  ASSUME TypeOK, TypeOK', EntryInv, RoundInv, round = Off, NEW t \in Timers, NEW i \in Instants,
         ResetEntry(t, DeadlineToTick(i)), elapsed' = elapsed, clock' = clock,
         deadline'[t] = i, initial'[t] = Off
  PROVE  SleepRight(t)'
  <1>1. DeadlineToTick(i) \in Ticks /\ DeadlineToTick(i) \in Nat /\ i \in Nat /\ i # Off
    BY TickFacts, TicksNat, WheelConstants
  <1>2. state' = [state EXCEPT ![t] = IF DeadlineToTick(i) <= elapsed THEN Off ELSE DeadlineToTick(i)]
    BY <1>1, ResetEntryEffect
  <1>3. state'[t] = IF DeadlineToTick(i) <= elapsed THEN Off ELSE DeadlineToTick(i)
    BY <1>2 DEF TypeOK
  <1>4. DeadlineToTick(i) <= elapsed => clock >= i
    BY ElapsedReached
  <1>5. Off \notin Ticks /\ Off # Pending /\ DeadlineToTick(i) # Off /\ DeadlineToTick(i) # Pending
    BY <1>1, TicksNat, WheelConstants
  <1> QED
    BY <1>1, <1>3, <1>4, <1>5 DEF SleepRight

(* Every step keeps the Sleeps right.                                      *)
LEMMA SleepStep ==
  ASSUME WheelInv, TypeOK', [Next]_vars
  PROVE  SleepInv'
  <1> SUFFICES ASSUME NEW u \in Timers
               PROVE  SleepRight(u)'
    BY DEF SleepInv
  <1> USE DEF WheelInv
  <1>1. /\ SleepRight(u) /\ elapsed \in Nat /\ clock \in Nat /\ elapsed <= elapsed /\ clock <= clock
        /\ Off # Pending /\ Off \notin Ticks /\ Pending \notin Ticks
    <2>1. elapsed \in Nat /\ clock \in Nat
      BY WheelTypes
    <2>2. Off # Pending /\ Off \notin Ticks /\ Pending \notin Ticks
      BY WheelConstants, TicksNat
    <2> QED
      BY <2>1, <2>2 DEF SleepInv
  <1>2. CASE UNCHANGED vars \/ Process \/ \E t \in Timers, k \in Tasks : Poll(t, k)
    <2>1. UNCHANGED <<state, initial, deadline, elapsed, clock>>
      BY <1>2 DEF vars, Process, Poll, entry, sleep
    <2> QED
      BY <1>1, <2>1, SleepKept
  <1>3. CASE ClockAdvances
    <2>1. UNCHANGED <<state, initial, deadline, elapsed>> /\ clock' = clock + 1
      BY <1>3 DEF ClockAdvances, entry, sleep
    <2>2. clock <= clock'
      BY <1>1, <2>1
    <2> QED
      BY <1>1, <2>1, <2>2, SleepKept
  <1>4. CASE ProcessExpiration
    <2>1. PICK d \in Nat :
           /\ elapsed' = d /\ elapsed < d
           /\ \/ state'[u] = state[u]
              \/ u \in Registered /\ state[u] = d /\ state'[u] = Pending
           /\ clock' = clock /\ initial' = initial /\ deadline' = deadline
      BY <1>4, ExpirationEffect DEF sleep
    <2>2. CASE state'[u] = state[u]
      BY <1>1, <2>1, <2>2, SleepKept
    <2>3. CASE u \in Registered /\ state[u] = d /\ state'[u] = Pending
      <3>1. state[u] \in Ticks /\ state[u] # Off
        BY <2>3, WheelTypes DEF Registered
      <3>2. initial[u] = Off /\ deadline[u] # Off /\ d = DeadlineToTick(deadline[u])
        BY <1>1, <2>3, <3>1 DEF SleepRight
      <3>3. d <= d
        BY <2>1
      <3> QED
        BY <1>1, <2>1, <2>3, <3>2, <3>3 DEF SleepRight
    <2> QED
      BY <2>1, <2>2, <2>3
  <1>5. CASE RoundEnds
    <2>1. UNCHANGED <<state, initial, deadline, clock>> /\ elapsed <= elapsed'
      BY <1>5 DEF RoundEnds, RoundInv, entry, sleep
    <2> QED
      BY <1>1, <2>1, SleepKept
  <1>6. ASSUME NEW t \in Timers, NewSleep(t)
        PROVE  SleepRight(u)'
    <2>1. PICK i \in Deadlines : initial' = [initial EXCEPT ![t] = i] /\ deadline' = [deadline EXCEPT ![t] = i]
      BY <1>6 DEF NewSleep
    <2>2. UNCHANGED <<state, elapsed, clock>> /\ deadline[t] = Off
      BY <1>6 DEF NewSleep, entry
    <2>3. i \in Instants /\ Near(elapsed, DeadlineToTick(i))
      BY DEF Deadlines, Near, Digits, SlotRange
    <2>4. i # Off
      BY <2>3, TicksNat, WheelConstants
    <2>5. CASE u # t
      <3>1. initial'[u] = initial[u] /\ deadline'[u] = deadline[u]
        BY <2>1, <2>5 DEF TypeOK
      <3> QED
        BY <1>1, <2>2, <3>1, SleepKept
    <2>6. CASE u = t
      <3>1. initial'[u] = i /\ deadline'[u] = i
        BY <2>1, <2>6 DEF TypeOK
      <3>2. state[u] = Off
        BY <1>1, <2>2, <2>6 DEF SleepRight
      <3> QED
        BY <1>1, <2>2, <2>3, <2>4, <3>1, <3>2 DEF SleepRight
    <2> QED
      BY <2>5, <2>6
  <1>7. ASSUME NEW t \in Timers, Reset(t) \/ Register(t)
        PROVE  SleepRight(u)'
    <2>1. PICK i \in Instants : /\ ResetEntry(t, DeadlineToTick(i))
                                /\ deadline'[t] = i /\ initial'[t] = Off
                                /\ \A v \in Timers \ {t} : deadline'[v] = deadline[v] /\ initial'[v] = initial[v]
      <3>1. CASE Reset(t)
        BY <3>1 DEF Reset, Deadlines, TypeOK
      <3>2. CASE Register(t)
        <4>1. initial[t] \in Instants /\ deadline[t] = initial[t]
          BY <3>2 DEF Register, TypeOK, SleepInv, SleepRight
        <4> QED
          BY <3>2, <4>1 DEF Register, TypeOK
      <3> QED
        BY <1>7, <3>1, <3>2
    <2>2. UNCHANGED <<clock, elapsed>> /\ round = Off
      BY <1>7 DEF Reset, Register
    <2>3. DeadlineToTick(i) \in Ticks
      BY TickFacts
    <2>4. \A v \in Timers \ {t} : state'[v] = state[v]
      BY <2>1, <2>2, <2>3, ResetEntryEffect
    <2>5. CASE u # t
      BY <1>1, <2>1, <2>2, <2>4, <2>5, SleepKept
    <2>6. CASE u = t
      BY <2>1, <2>2, <2>6, SleepReset
    <2> QED
      BY <2>5, <2>6
  <1>8. ASSUME NEW t \in Timers, DropSleep(t)
        PROVE  SleepRight(u)'
    <2>1. /\ UNCHANGED <<clock, elapsed>> /\ state'[t] = Off /\ initial'[t] = Off /\ deadline'[t] = Off
          /\ u # t => state'[u] = state[u] /\ initial'[u] = initial[u] /\ deadline'[u] = deadline[u]
      BY <1>8 DEF DropSleep, TypeOK
    <2>2. CASE u # t
      BY <1>1, <2>1, <2>2, SleepKept
    <2>3. CASE u = t
      BY <1>1, <2>1, <2>3 DEF SleepRight
    <2> QED
      BY <2>2, <2>3
  <1>9. ASSUME NEW t \in Timers, PopPending(t)
        PROVE  SleepRight(u)'
    <2>1. /\ UNCHANGED <<clock, elapsed, initial, deadline>> /\ at[t] = Pending /\ state'[t] = Off
          /\ u # t => state'[u] = state[u]
      BY <1>9 DEF PopPending, TypeOK, sleep
    <2>2. CASE u # t
      BY <1>1, <2>1, <2>2, SleepKept
    <2>3. CASE u = t
      <3>1. state[u] = Pending
        BY <2>1, <2>3 DEF EntryInv
      <3>2. initial[u] = Off /\ deadline[u] \in Instants /\ DeadlineToTick(deadline[u]) <= elapsed
        BY <1>1, <3>1 DEF SleepRight, TypeOK
      <3>3. clock >= deadline[u]
        BY <3>2, ElapsedReached
      <3> QED
        BY <1>1, <2>1, <2>3, <3>2, <3>3 DEF SleepRight
    <2> QED
      BY <2>2, <2>3
  <1> QED
    BY <1>2, <1>3, <1>4, <1>5, <1>6, <1>7, <1>8, <1>9 DEF Next

(* The invariant holds in every state the time driver reaches.             *)
THEOREM WheelInvariant == Spec => []WheelInv
  <1>1. Init => WheelInv
    <2> SUFFICES ASSUME Init
                 PROVE  WheelInv
      OBVIOUS
    <2>1. 0 \in Ticks /\ 0 \in Instants /\ Off \notin Ticks /\ Off # Pending
      BY TicksNat, WheelConstants
    <2>2. TypeOK
      BY <2>1 DEF Init, TypeOK
    <2>3. Registered = {} /\ PendingTimers = {}
      BY <2>1 DEF Registered, PendingTimers, Init
    <2>4. EntryInv
      BY <2>1, <2>3 DEF EntryInv, FiledWhereSought, Init
    <2>5. RoundInv
      <3>1. Res * 0 = 0
        BY WheelConstants
      <3> QED
        BY <2>3, <3>1 DEF RoundInv, Init
    <2>6. SleepInv
      BY <2>1 DEF SleepInv, SleepRight, Init
    <2> QED
      BY <2>2, <2>4, <2>5, <2>6 DEF WheelInv
  <1>2. WheelInv /\ [Next]_vars => WheelInv'
    <2> SUFFICES ASSUME WheelInv, [Next]_vars
                 PROVE  WheelInv'
      OBVIOUS
    <2>1. TypeOK'
      BY TypeStep DEF WheelInv
    <2>2. EntryInv'
      BY <2>1, EntryStep
    <2>3. RoundInv'
      BY <2>1, <2>2, RoundStep
    <2>4. SleepInv'
      BY <2>1, SleepStep
    <2> QED
      BY <2>1, <2>2, <2>3, <2>4 DEF WheelInv
  <1> QED
    BY <1>1, <1>2, PTL DEF Spec
-----------------------------------------------------------------------------
(* What follows.                                                           *)

(* The wheel's assertions follow from where the entries are.               *)
LEMMA AssertionsHold ==
  ASSUME TypeOK, EntryInv
  PROVE  WheelAssertions
  <1>1. elapsed \in Nat
    BY WheelTypes
  <1>2. \A u \in Registered : /\ SlotStart(elapsed, cached[u]) \in Nat
                              /\ elapsed < SlotStart(elapsed, cached[u])
    BY EntryFacts, PlaceFacts
  <1>3. ASSUME NEW l \in BusyLevels
        PROVE  /\ LevelDeadline(l, elapsed) > elapsed
               /\ LevelDeadline(Min(BusyLevels), elapsed) <= LevelDeadline(l, elapsed)
               /\ l # NumLevels - 1 =>
                     NextOccupiedSlot(l, elapsed) * SlotRange(l) > (elapsed % LevelRange(l))
    <2>1. l \in Levels /\ OccupiedAt(l) # {} /\ BusyLevels # {}
      BY DEF BusyLevels
    <2>2. PICK u \in Registered :
            /\ LevelDeadline(l, elapsed) = SlotStart(elapsed, cached[u])
            /\ l # NumLevels - 1 =>
                  NextOccupiedSlot(l, elapsed) * SlotRange(l) > (elapsed % LevelRange(l))
      BY <2>1, LevelExpires
    <2>3. PICK d \in Nat : d = LevelDeadline(Min(BusyLevels), elapsed) /\ d <= SlotStart(elapsed, cached[u])
      <3>1. PICK k \in Levels, s, d \in Nat :
              /\ k = Min(BusyLevels) /\ d = LevelDeadline(k, elapsed)
              /\ d <= SlotStart(elapsed, cached[u])
        BY <2>1, NextExpires
      <3> QED
        BY <3>1
    <2> QED
      BY <1>1, <1>2, <2>2, <2>3
  <1>4. ASSUME NEW t \in Registered, at[t] = <<0, SlotFor(cached[t], 0)>>
        PROVE  cached[t] - elapsed < Mult
    <2>1. PICK e \in Nat, c \in Nat, m \in Nat :
             /\ e = elapsed /\ c = cached[t] /\ m = Mult /\ e < c
             /\ Near(e, c) /\ at[t] = Place(e, c)
      BY <1>1, EntryFacts, WheelConstants
    <2>2. FiledAt(e, c, LevelFor(e, c)) /\ at[t] = <<LevelFor(e, c), Digits(c, LevelFor(e, c)) % Mult>>
      BY <2>1, PlaceFacts
    <2>3. LevelFor(e, c) = 0
      BY <1>4, <2>2
    <2>4. Digits(c, 0) < Digits(e, 0) + m
      BY <2>1, <2>2, <2>3, FiledNear
    <2>5. Digits(c, 0) = c /\ Digits(e, 0) = e
      BY WheelConstants, DigitsStep
    <2>6. c - e < m
      BY <2>4, <2>5
    <2> QED
      BY <2>1, <2>6
  <1> QED
    BY <1>3, <1>4 DEF WheelAssertions

(* The wheel is consistent: level_for, slot_for and next_expiration agree  *)
(* with where add_entry and process_expiration left the entries, and the   *)
(* debug_asserts of the wheel hold, for every number of levels and slots.  *)
THEOREM WheelIsConsistent == Spec => []WheelConsistent
  <1>1. WheelInv => WheelConsistent
    BY AssertionsHold DEF WheelInv, EntryInv, WheelConsistent
  <1> QED
    BY <1>1, WheelInvariant, PTL

(* The next expiration is not after any timer's.                           *)
LEMMA WakesInTime ==
  ASSUME TypeOK, EntryInv
  PROVE  NextWakeInTime
  <1> SUFFICES ASSUME NEW t \in Registered
               PROVE  NextExpirationTime <= state[t]
    BY DEF NextWakeInTime
  <1>1. elapsed \in Nat /\ cached[t] \in Nat /\ state[t] \in Nat /\ elapsed < cached[t] /\ cached[t] <= state[t]
    BY EntryFacts
  <1>2. BusyLevels # {}
    BY BusyLevel
  <1>3. PICK d \in Nat : d = NextExpiration.deadline /\ d <= state[t]
    <2>1. PICK l \in Levels, s, d \in Nat :
            NextExpiration = [level |-> l, slot |-> s, deadline |-> d] /\ d <= state[t]
      BY <1>2, NextExpires
    <2> QED
      BY <2>1
  <1> QED
    BY <1>1, <1>2, <1>3 DEF NextExpirationTime

(* No park outlasts a timer and no Sleep ends before its deadline, however *)
(* many tasks poll it.                                                     *)
THEOREM SleepsInTime == Spec => [](NextWakeInTime /\ NeverEarly)
  <1>1. WheelInv => NextWakeInTime /\ NeverEarly
    BY WakesInTime DEF WheelInv, SleepInv, SleepRight, NeverEarly
  <1> QED
    BY <1>1, WheelInvariant, PTL

(* The waker of a Sleep is that of one of the tasks that polled it.        *)
WakerInv == \A t \in Timers : IF waker[t] = NoTask THEN pollers[t] = {} ELSE waker[t] \in pollers[t]

(* However many tasks poll a Sleep, it ends neither before its deadline    *)
(* nor after the park that should end at it, and whoever is alone in       *)
(* waiting for it is woken.                                                *)
THEOREM TimersOnTime == Spec => []OnTime
  <1>1. Init => WakerInv
    BY DEF Init, WakerInv
  <1>2. ASSUME WheelInv, WakerInv, [Next]_vars
        PROVE  WakerInv'
    <2>1. TypeOK /\ NoTask \notin Tasks
      BY <1>2, WheelAssumption DEF WheelInv
    <2>2. CASE UNCHANGED wakers
      BY <1>2, <2>2 DEF WakerInv, wakers
    <2>3. ASSUME NEW t \in Timers, TakeWaker(t)
          PROVE  WakerInv'
      BY <1>2, <2>1, <2>3 DEF WakerInv, TypeOK, TakeWaker
    <2>4. CASE UNCHANGED vars \/ ClockAdvances \/ Process \/ ProcessExpiration \/ RoundEnds
      BY <2>2, <2>4 DEF vars, ClockAdvances, Process, ProcessExpiration, RoundEnds
    <2>5. ASSUME NEW t \in Timers, NewSleep(t)
          PROVE  WakerInv'
      BY <2>2, <2>5 DEF NewSleep
    <2>6. ASSUME NEW t \in Timers, Reset(t) \/ Register(t)
          PROVE  WakerInv'
      <3>1. PICK tick : ResetEntry(t, tick)
        BY <2>6 DEF Reset, Register
      <3> QED
        BY <2>2, <2>3, <3>1 DEF ResetEntry, Reregister, wakers
    <2>7. ASSUME NEW t \in Timers, DropSleep(t)
          PROVE  WakerInv'
      BY <2>3, <2>7 DEF DropSleep
    <2>8. ASSUME NEW t \in Timers, PopPending(t)
          PROVE  WakerInv'
      BY <2>2, <2>3, <2>8 DEF PopPending, FireEntry
    <2>9. ASSUME NEW t \in Timers, NEW k \in Tasks, Poll(t, k)
          PROVE  WakerInv'
      <3>1. /\ waker' = [waker EXCEPT ![t] = IF waker[t] = NoTask THEN k ELSE waker[t]]
            /\ pollers' = [pollers EXCEPT ![t] = pollers[t] \cup {k}]
        BY <2>9 DEF Poll
      <3> QED
        BY <1>2, <2>1, <3>1 DEF WakerInv, TypeOK
    <2> QED
      BY <1>2, <2>4, <2>5, <2>6, <2>7, <2>8, <2>9 DEF Next
  <1>3. WakerInv => LonePollerWoken
    BY DEF WakerInv, LonePollerWoken
  <1>4. Spec => []WakerInv
    BY <1>1, <1>2, WheelInvariant, PTL DEF Spec
  <1> QED
    BY <1>3, <1>4, SleepsInTime, PTL DEF OnTime
(* The wheel implements the set of timers of TimerSpec: seen from outside, *)
(* a round fires exactly the timers that are due by its tick, whatever     *)
(* levels and slots they went through.                                     *)
THEOREM WheelImplements == Spec => Implements
  <1> DEFINE due == [t \in Timers |-> IF state[t] = Pending THEN elapsed ELSE state[t]]
             sv == <<due, elapsed, round>>
  <1>1. Init => Abstract!SpecInit
    <2>1. Off # Pending
      BY WheelConstants
    <2> QED
      BY <2>1 DEF Init, Abstract!SpecInit
  <1>2. WheelInv /\ [Next]_vars => [Abstract!SpecNext]_sv
    <2> SUFFICES ASSUME WheelInv, [Next]_vars
                 PROVE  [Abstract!SpecNext]_sv
      OBVIOUS
    <2>1. TypeOK /\ EntryInv /\ RoundInv
      BY DEF WheelInv
    <2>2. TypeOK' /\ EntryInv'
      BY <2>1, TypeStep, EntryStep
    <2>3. Off # Pending /\ Off \notin Nat
      BY WheelConstants
    <2>4. CASE UNCHANGED <<state, elapsed, round>>
      BY <2>4
    <2>5. CASE Process
      <3>1. round = Off /\ round' \in Nat /\ round' >= elapsed /\ state' = state /\ elapsed' = elapsed
        BY <2>1, <2>5, ProcessEffect, TicksNat DEF entry, TypeOK
      <3>2. due' = due
        BY <3>1
      <3> QED
        BY <3>1, <3>2 DEF Abstract!SpecNext, Abstract!Begin
    <2>6. CASE ProcessExpiration
      <3>1. PICK d \in Nat :
           /\ elapsed' = d /\ elapsed < d /\ d <= round /\ round # Off /\ round' = round
           /\ \A t \in Timers :
                 \/ /\ state'[t] = state[t]
                    /\ t \in Registered => d < SlotStart(elapsed, cached[t])
                 \/ t \in Registered /\ state[t] = d /\ state'[t] = Pending
                 \/ t \in Registered /\ d < state[t] /\ state'[t] = state[t]
           /\ PendingTimers = {}
        BY <2>1, <2>6, ExpirationEffect
      <3>2. \A t \in Timers : state[t] # Pending
        BY <2>1, <3>1 DEF PendingTimers, EntryInv
      <3>3. ASSUME NEW t \in Timers, state[t] # Off
            PROVE  t \in Registered /\ state[t] >= d
        <4>1. t \in Registered
          BY <2>1, <3>2, <3>3, WheelTypes
        <4>2. PICK e \in Nat, c \in Nat, w \in Nat, z \in Nat :
                 /\ e = elapsed /\ c = cached[t] /\ w = state[t] /\ z = SlotStart(elapsed, cached[t])
                 /\ z <= c /\ c <= w
          BY <2>1, <4>1, EntryFacts, PlaceFacts
        <4>3. d < z \/ w = d \/ d < w
          BY <3>1, <4>1, <4>2
        <4>4. w >= d
          BY <4>2, <4>3
        <4> QED
          BY <4>1, <4>2, <4>4
      <3>4. \A t \in Timers : due[t] = state[t]
        BY <3>2
      <3>5. \A t \in Timers : due[t] # Off => due[t] >= d
        BY <3>3, <3>4
      <3>6. due' = due
        <4>1. \A t \in Timers : (IF state'[t] = Pending THEN elapsed' ELSE state'[t]) = state[t]
          BY <3>1, <3>2
        <4> QED
          BY <3>2, <4>1
      <3>7. d \in Nat /\ d >= elapsed
        BY <2>1, <3>1, WheelTypes
      <3> HIDE DEF due
      <3> QED
        BY <3>1, <3>5, <3>6, <3>7 DEF Abstract!SpecNext, Abstract!Advance, due
    <2>7. CASE RoundEnds
      <3>1. /\ round # Off /\ PendingTimers = {} /\ elapsed' = round /\ round' = Off
            /\ state' = state /\ cached' = cached
        BY <2>7 DEF RoundEnds, entry
      <3>2. \A t \in Timers : state[t] # Pending
        BY <2>1, <3>1 DEF PendingTimers, EntryInv
      <3>3. ASSUME NEW t \in Timers, state[t] # Off
            PROVE  state[t] > round
        <4>1. t \in Registered /\ t \in Registered'
          BY <2>1, <3>1, <3>2, <3>3, WheelTypes DEF Registered
        <4>2. cached[t] \in Nat /\ state[t] \in Nat /\ cached[t] <= state[t]
          BY <2>1, <4>1, EntryFacts
        <4>3. cached[t] > round /\ round \in Nat
          BY <2>1, <2>2, <3>1, <4>1, TicksNat DEF EntryInv, FiledWhereSought, TypeOK
        <4> QED
          BY <4>2, <4>3
      <3>4. \A t \in Timers : due[t] # Off => due[t] > round
        BY <3>2, <3>3
      <3>5. due' = due
        BY <3>1, <3>2
      <3> HIDE DEF due
      <3> QED
        BY <3>1, <3>4, <3>5 DEF Abstract!SpecNext, Abstract!End, due
    <2>8. ASSUME NEW t \in Timers, PopPending(t)
          PROVE  [Abstract!SpecNext]_sv
      <3>1. /\ round # Off /\ at[t] = Pending /\ round' = round /\ elapsed' = elapsed
            /\ state' = [state EXCEPT ![t] = Off]
        BY <2>8 DEF PopPending
      <3>2. state[t] = Pending /\ elapsed <= round /\ elapsed \in Nat
        BY <2>1, <3>1, WheelTypes DEF EntryInv, RoundInv
      <3>3. due[t] # Off /\ due[t] <= round
        BY <2>3, <3>2
      <3>4. due' = [due EXCEPT ![t] = Off]
        BY <2>1, <2>3, <3>1 DEF TypeOK
      <3> HIDE DEF due
      <3> QED
        BY <3>1, <3>3, <3>4 DEF Abstract!SpecNext, Abstract!Fire, due
    <2>9. ASSUME NEW t \in Timers, DropSleep(t)
          PROVE  [Abstract!SpecNext]_sv
      <3>1. /\ round = Off /\ round' = round /\ elapsed' = elapsed /\ state' = [state EXCEPT ![t] = Off]
        BY <2>9 DEF DropSleep
      <3>2. due' = [due EXCEPT ![t] = Off]
        BY <2>1, <2>3, <3>1 DEF TypeOK
      <3> HIDE DEF due
      <3> QED
        BY <3>1, <3>2 DEF Abstract!SpecNext, Abstract!Set, due
    <2>10. ASSUME NEW t \in Timers, Reset(t) \/ Register(t)
           PROVE  [Abstract!SpecNext]_sv
      <3>1. PICK i \in Instants : ResetEntry(t, DeadlineToTick(i))
        BY <2>1, <2>10 DEF Reset, Register, Deadlines, TypeOK
      <3>2. PICK tick \in Ticks : tick = DeadlineToTick(i) /\ tick \in Nat
        BY TickFacts, TicksNat
      <3>3. round = Off /\ round' = round /\ elapsed' = elapsed
        BY <2>10 DEF Reset, Register
      <3>4. state' = [state EXCEPT ![t] = IF tick <= elapsed THEN Off ELSE tick]
        BY <2>1, <3>1, <3>2, <3>3, ResetEntryEffect
      <3>5. elapsed \in Nat /\ tick # Pending
        BY <2>1, <3>2, WheelTypes, WheelConstants
      <3>6. CASE tick <= elapsed
        <4>1. due' = [due EXCEPT ![t] = Off]
          BY <2>1, <2>3, <3>3, <3>4, <3>6 DEF TypeOK
        <4> HIDE DEF due
        <4> QED
          BY <3>3, <4>1 DEF Abstract!SpecNext, Abstract!Set, due
      <3>7. CASE ~(tick <= elapsed)
        <4>1. due' = [due EXCEPT ![t] = tick]
          BY <2>1, <2>3, <3>3, <3>4, <3>5, <3>7 DEF TypeOK
        <4>2. due'[t] = tick /\ tick > elapsed
          BY <3>2, <3>5, <3>7, <4>1
        <4>3. due' = [due EXCEPT ![t] = due'[t]]
          BY <4>1, <4>2
        <4> HIDE DEF due
        <4> QED
          BY <3>2, <3>3, <4>2, <4>3 DEF Abstract!SpecNext, Abstract!Set, due
      <3> QED
        BY <3>6, <3>7
    <2>11. CASE UNCHANGED vars \/ ClockAdvances
      BY <2>4, <2>11 DEF vars, ClockAdvances, entry
    <2>12. ASSUME NEW t \in Timers, NewSleep(t) \/ \E k \in Tasks : Poll(t, k)
           PROVE  [Abstract!SpecNext]_sv
      BY <2>4, <2>12 DEF NewSleep, Poll, entry
    <2> QED
      BY <2>5, <2>6, <2>7, <2>8, <2>9, <2>10, <2>11, <2>12 DEF Next
  <1>3. WheelInv /\ [Next]_vars => [Abstract!SpecNext]_(Abstract!specVars)
    BY <1>2 DEF Abstract!specVars
  <1> QED
    BY <1>1, <1>3, WheelInvariant, PTL DEF Spec, Implements, Abstract!TimerSpecification

-----------------------------------------------------------------------------

(* The types, with the reference and the position of a DrainFilter.        *)
ListTypeOK ==
  /\ content \in [Lists -> Seq(Nodes)]
  /\ head \in [Lists -> Nodes \cup {Null}] /\ tail \in [Lists -> Nodes \cup {Null}]
  /\ prev \in [Nodes -> Nodes \cup {Null}] /\ next \in [Nodes -> Nodes \cup {Null}]
  /\ curr \in [Lists -> Nodes \cup {Null}]

(* A node is in one place of one list at most.                             *)
OnePlace ==
  \A l, m \in Lists : \A i \in 1..Len(content[l]), j \in 1..Len(content[m]) :
    content[l][i] = content[m][j] => l = m /\ i = j

(* The node at a place of a list, Null before the first and after the last.*)
At(l, i) == IF i \in 1..Len(content[l]) THEN content[l][i] ELSE Null

(* The pointers of the lists, and of the nodes in them.                    *)
EndsRight == \A l \in Lists : tail[l] = At(l, 1) /\ head[l] = At(l, Len(content[l]))
LinksRight ==
  \A l \in Lists : \A i \in 1..Len(content[l]) :
    prev[content[l][i]] = At(l, i + 1) /\ next[content[l][i]] = At(l, i - 1)

(* A node in no list is clean; a DrainFilter stands on a node of its list. *)
FreeClean == \A n \in Nodes : Free(n) => prev[n] = Null /\ next[n] = Null
CurrIn == \A l \in Lists : curr[l] # Null => curr[l] \in In(l)

ListInv == ListTypeOK /\ OnePlace /\ EndsRight /\ LinksRight /\ FreeClean /\ CurrIn

-----------------------------------------------------------------------------
(* Places.                                                                 *)

(* A list holds the nodes that have a place in it, before a step and after *)
(* it.                                                                     *)
LEMMA InFacts ==
  ListTypeOK => \A l \in Lists, n \in Nodes :
                  n \in In(l) <=> \E i \in 1..Len(content[l]) : content[l][i] = n
  <1> SUFFICES ASSUME ListTypeOK, NEW l \in Lists, NEW n \in Nodes
               PROVE  n \in In(l) <=> \E i \in 1..Len(content[l]) : content[l][i] = n
    OBVIOUS
  <1>1. DOMAIN content[l] = 1..Len(content[l])
    BY LenProperties DEF ListTypeOK
  <1> QED
    BY <1>1 DEF In, ToSet

(* The same of the next state.                                             *)
LEMMA InFactsNext ==
  ListTypeOK' => \A l \in Lists, n \in Nodes :
                   n \in In(l)' <=> \E i \in 1..Len(content'[l]) : content'[l][i] = n
  <1> SUFFICES ASSUME ListTypeOK', NEW l \in Lists, NEW n \in Nodes
               PROVE  n \in In(l)' <=> \E i \in 1..Len(content'[l]) : content'[l][i] = n
    OBVIOUS
  <1>1. DOMAIN content'[l] = 1..Len(content'[l])
    BY LenProperties DEF ListTypeOK
  <1> QED
    BY <1>1 DEF In, ToSet

(* What is left when the node at place k is taken out.                     *)
LEMMA WithoutFacts ==
  ASSUME ListTypeOK, OnePlace, NEW l \in Lists, NEW k \in 1..Len(content[l])
  PROVE  /\ Without(l, content[l][k]) \in Seq(Nodes)
         /\ Len(Without(l, content[l][k])) = Len(content[l]) - 1
         /\ \A j \in 1..(Len(content[l]) - 1) :
              Without(l, content[l][k])[j] = IF j < k THEN content[l][j] ELSE content[l][j + 1]
  <1> DEFINE s == content[l]
  <1>1. s \in Seq(Nodes) /\ Len(s) \in Nat /\ DOMAIN s = 1..Len(s)
    BY LenProperties DEF ListTypeOK
  <1>2. s[k] \in In(l)
    BY <1>1, InFacts
  <1>3. IndexIn(l, s[k]) = k
    BY <1>1 DEF IndexIn, OnePlace
  <1>4. Without(l, s[k]) = SubSeq(s, 1, k - 1) \o SubSeq(s, k + 1, Len(s))
    BY <1>2, <1>3 DEF Without, RemoveAt
  <1>5. PICK n \in Nat : n = Len(s)
    BY <1>1
  <1> HIDE DEF s
  <1>6. PICK p \in Seq(Nodes) : /\ p = SubSeq(s, 1, k - 1) /\ Len(p) = k - 1
                               /\ \A j \in 1..(k - 1) : p[j] = s[j]
    <2>1. /\ SubSeq(s, 1, k - 1) \in Seq(Nodes) /\ Len(SubSeq(s, 1, k - 1)) = k - 1
          /\ \A j \in 1..(k - 1) : SubSeq(s, 1, k - 1)[j] = s[j]
      BY <1>1, SubSeqProperties DEF s
    <2> QED
      BY <2>1
  <1>7. PICK q \in Seq(Nodes) : /\ q = SubSeq(s, k + 1, Len(s)) /\ Len(q) = Len(s) - k
                               /\ \A j \in 1..(Len(s) - k) : q[j] = s[k + j]
    <2>1. /\ SubSeq(s, k + 1, Len(s)) \in Seq(Nodes) /\ Len(SubSeq(s, k + 1, Len(s))) = Len(s) - k
          /\ \A j \in 1..(Len(s) - k) : SubSeq(s, k + 1, Len(s))[j] = s[k + j]
      BY <1>1, SubSeqProperties DEF s
    <2> QED
      BY <2>1
  <1>8. PICK t : t = Without(l, s[k]) /\ t = p \o q
    BY <1>4, <1>6, <1>7
  <1>9. /\ t \in Seq(Nodes) /\ Len(t) = Len(p) + Len(q)
        /\ \A j \in 1..(Len(p) + Len(q)) : t[j] = IF j <= Len(p) THEN p[j] ELSE q[j - Len(p)]
    BY <1>8, ConcatProperties, Zenon
  <1>10. Len(t) = n - 1 /\ k \in 1..n /\ k \in Nat
    BY <1>5, <1>6, <1>7, <1>9 DEF s
  <1>11. \A j \in 1..Len(t) : t[j] = IF j < k THEN s[j] ELSE s[j + 1]
    <2> SUFFICES ASSUME NEW j \in 1..(n - 1)
                 PROVE  t[j] = IF j < k THEN s[j] ELSE s[j + 1]
      BY <1>10
    <2>1. t[j] = IF j <= k - 1 THEN p[j] ELSE q[j - (k - 1)]
      <3>1. Len(p) = k - 1 /\ Len(p) + Len(q) = n - 1
        BY <1>6, <1>9, <1>10
      <3>2. t[j] = IF j <= Len(p) THEN p[j] ELSE q[j - Len(p)]
        BY <1>9, <3>1
      <3> QED
        BY <3>1, <3>2
    <2>2. CASE j < k
      BY <1>6, <1>10, <2>1, <2>2
    <2>3. CASE ~(j < k)
      <3>1. j - (k - 1) \in 1..(n - k) /\ k + (j - (k - 1)) = j + 1
        BY <1>5, <1>10, <2>3
      <3> QED
        BY <1>5, <1>7, <1>10, <2>1, <2>3, <3>1
    <2> QED
      BY <2>2, <2>3
  <1> QED
    BY <1>5, <1>8, <1>9, <1>10, <1>11 DEF s

(* The neighbours of a node are in its list, and are other nodes.          *)
LEMMA NeighbourFacts ==
  ASSUME ListInv, NEW l \in Lists, NEW k \in 1..Len(content[l])
  PROVE  /\ Len(content[l]) \in Nat /\ content[l][k] \in Nodes
         /\ prev[content[l][k]] = At(l, k + 1) /\ next[content[l][k]] = At(l, k - 1)
         /\ tail[l] = content[l][1] /\ head[l] = content[l][Len(content[l])]
         /\ \A m \in Lists : \A i \in 1..Len(content[m]), j \in Int :
              content[m][i] = At(l, j) => m = l /\ i = j
  <1>1. content[l] \in Seq(Nodes) /\ Len(content[l]) \in Nat /\ content[l][k] \in Nodes
    BY DEF ListInv, ListTypeOK
  <1>2. prev[content[l][k]] = At(l, k + 1) /\ next[content[l][k]] = At(l, k - 1)
    BY DEF ListInv, LinksRight
  <1>3. tail[l] = content[l][1] /\ head[l] = content[l][Len(content[l])]
    <2>1. 1 \in 1..Len(content[l]) /\ Len(content[l]) \in 1..Len(content[l])
      BY <1>1
    <2> QED
      BY <2>1 DEF ListInv, EndsRight, At
  <1>4. ASSUME NEW m \in Lists, NEW i \in 1..Len(content[m]), NEW j \in Int, content[m][i] = At(l, j)
        PROVE  m = l /\ i = j
    <2>1. content[m] \in Seq(Nodes) /\ content[m][i] \in Nodes
      BY DEF ListInv, ListTypeOK
    <2>2. j \in 1..Len(content[l]) /\ content[m][i] = content[l][j]
      BY <1>4, <2>1, ListAssumption DEF At
    <2> QED
      BY <2>2 DEF ListInv, OnePlace
  <1> QED
    BY <1>1, <1>2, <1>3, <1>4

(* unlink takes a node out of its list, wherever in it the node is, and    *)
(* touches no other list.                                                  *)
LEMMA UnlinkKeepsListInv ==
  ASSUME ListInv, NEW l \in Lists, NEW k \in 1..Len(content[l]), unlink(l, content[l][k]),
         content' = [content EXCEPT ![l] = Without(l, content[l][k])],
         curr' \in [Lists -> Nodes \cup {Null}],
         \A m \in Lists : m # l => curr'[m] = curr[m],
         curr'[l] \in {Null, next[content[l][k]]}
  PROVE  ListInv'
  <1> USE DEF ListInv
  <1>1. PICK len \in Nat : len = Len(content[l]) /\ k \in 1..len /\ k \in Nat
    BY NeighbourFacts
  <1>2. PICK n \in Nodes, a, b \in Nodes \cup {Null} :
          /\ n = content[l][k] /\ a = prev[n] /\ b = next[n]
          /\ a = At(l, k + 1) /\ b = At(l, k - 1)
    BY NeighbourFacts DEF ListTypeOK
  <1>3. /\ head' = [head EXCEPT ![l] = IF @ = n THEN b ELSE @]
        /\ tail' = [tail EXCEPT ![l] = IF @ = n THEN a ELSE @]
        /\ next' = [m \in Nodes |-> CASE m = n -> Null
                                      [] m = a /\ m # n -> b
                                      [] OTHER -> next[m]]
        /\ prev' = [m \in Nodes |-> CASE m = n -> Null
                                      [] m = b /\ m # n -> a
                                      [] OTHER -> prev[m]]
    BY <1>2 DEF unlink
  <1>4. /\ content'[l] \in Seq(Nodes) /\ Len(content'[l]) = len - 1
        /\ \A j \in 1..(len - 1) : content'[l][j] = IF j < k THEN content[l][j] ELSE content[l][j + 1]
        /\ \A m \in Lists : m # l => content'[m] = content[m]
    <2>1. content'[l] = Without(l, content[l][k])
      BY DEF ListTypeOK
    <2>2. \A m \in Lists : m # l => content'[m] = content[m]
      BY DEF ListTypeOK
    <2>3. /\ Without(l, content[l][k]) \in Seq(Nodes)
          /\ Len(Without(l, content[l][k])) = Len(content[l]) - 1
          /\ \A j \in 1..(Len(content[l]) - 1) :
               Without(l, content[l][k])[j] = IF j < k THEN content[l][j] ELSE content[l][j + 1]
      BY WithoutFacts
    <2>4. Len(content[l]) = len
      BY <1>1
    <2> QED
      BY ONLY <2>1, <2>2, <2>3, <2>4
  <1>5. ListTypeOK'
    <2>1. content' \in [Lists -> Seq(Nodes)]
      BY <1>4 DEF ListTypeOK
    <2> QED
      BY <1>2, <1>3, <2>1 DEF ListTypeOK
  <1>6. \A j \in Int : At(l, j)' = IF j < k THEN At(l, j) ELSE At(l, j + 1)
    BY <1>1, <1>4 DEF At
  <1>7. \A m \in Lists, j \in Int : m # l => At(m, j)' = At(m, j)
    BY <1>4 DEF At
  <1>8. OnePlace'
    <2>1. ASSUME NEW m \in Lists, NEW j \in 1..Len(content'[m])
          PROVE  \E i \in 1..Len(content[m]) :
                   /\ content'[m][j] = content[m][i] /\ i = IF m = l /\ j >= k THEN j + 1 ELSE j
      <3>1. CASE m = l
        BY <1>1, <1>4, <3>1
      <3>2. CASE m # l
        BY <1>4, <3>2
      <3> QED
        BY <3>1, <3>2
    <2> SUFFICES ASSUME NEW m \in Lists, NEW m2 \in Lists,
                        NEW j \in 1..Len(content'[m]), NEW j2 \in 1..Len(content'[m2]),
                        content'[m][j] = content'[m2][j2]
                 PROVE  m = m2 /\ j = j2
      BY DEF OnePlace
    <2>2. PICK i \in 1..Len(content[m]) :
                   /\ content'[m][j] = content[m][i] /\ i = IF m = l /\ j >= k THEN j + 1 ELSE j
      BY <2>1
    <2>3. PICK i2 \in 1..Len(content[m2]) :
                   /\ content'[m2][j2] = content[m2][i2] /\ i2 = IF m2 = l /\ j2 >= k THEN j2 + 1 ELSE j2
      BY <2>1
    <2>4. m = m2 /\ i = i2
      BY <2>2, <2>3 DEF OnePlace
    <2>5. j \in Int /\ j2 \in Int
      OBVIOUS
    <2> QED
      BY <1>1, <2>2, <2>3, <2>4, <2>5
  <1>9. EndsRight'
    <2> SUFFICES ASSUME NEW m \in Lists
                 PROVE  (tail[m] = At(m, 1) /\ head[m] = At(m, Len(content[m])))'
      BY DEF EndsRight
    <2>1. CASE m # l
      <3>1. tail'[m] = tail[m] /\ head'[m] = head[m] /\ content'[m] = content[m]
        BY <1>3, <1>4, <2>1 DEF ListTypeOK
      <3> QED
        BY <3>1 DEF EndsRight, At
    <2>2. CASE m = l
      <3>1. tail[l] = content[l][1] /\ head[l] = content[l][len]
        BY <1>1, NeighbourFacts
      <3>2. tail'[l] = (IF tail[l] = n THEN a ELSE tail[l]) /\ head'[l] = IF head[l] = n THEN b ELSE head[l]
        BY <1>3 DEF ListTypeOK
      <3>3. (tail[l] = n <=> k = 1) /\ (head[l] = n <=> k = len)
        BY <1>1, <1>2, <3>1 DEF OnePlace
      <3>4. tail'[l] = At(l, 1)'
        BY <1>1, <1>2, <1>6, <3>1, <3>2, <3>3 DEF At
      <3>5. At(l, len - 1)' = IF len - 1 < k THEN At(l, len - 1) ELSE At(l, len)
        BY <1>1, <1>4 DEF At
      <3>6. head'[l] = At(l, len - 1)'
        BY <1>1, <1>2, <3>1, <3>2, <3>3, <3>5 DEF At
      <3> QED
        BY <1>4, <2>2, <3>4, <3>6 DEF At
    <2> QED
      BY <2>1, <2>2
  <1>10. LinksRight'
    <2> SUFFICES ASSUME NEW m \in Lists, NEW j \in 1..Len(content'[m])
                 PROVE  prev'[content'[m][j]] = At(m, j + 1)' /\ next'[content'[m][j]] = At(m, j - 1)'
      BY DEF LinksRight, At
    <2>1. j \in Int
      OBVIOUS
    <2>2. CASE m # l
      <3>1. /\ content'[m][j] = content[m][j] /\ content[m][j] \in Nodes /\ j \in 1..Len(content[m])
            /\ prev[content[m][j]] = At(m, j + 1) /\ next[content[m][j]] = At(m, j - 1)
        BY <1>4, <2>2 DEF LinksRight, ListTypeOK
      <3>2. content[m][j] \notin {a, b, n}
        BY <1>1, <1>2, <2>2, <3>1, NeighbourFacts DEF OnePlace
      <3>3. prev'[content[m][j]] = prev[content[m][j]] /\ next'[content[m][j]] = next[content[m][j]]
        BY <1>3, <3>1, <3>2
      <3> QED
        BY <1>7, <2>1, <2>2, <3>1, <3>3
    <2>3. CASE m = l
      <3>1. PICK i \in 1..len : /\ i = (IF j < k THEN j ELSE j + 1)
                                /\ content'[l][j] = content[l][i]
        BY <1>1, <1>4, <2>3
      <3>2. PICK x \in Nodes : x = content[l][i] /\ prev[x] = At(l, i + 1) /\ next[x] = At(l, i - 1)
        BY <1>1, NeighbourFacts
      <3>3. x # n /\ (x = a <=> i = k + 1) /\ (x = b <=> i = k - 1)
        <4>1. x # n
          BY <1>1, <1>2, <2>1, <3>1, <3>2 DEF OnePlace
        <4>2. (x = a => i = k + 1) /\ (x = b => i = k - 1)
          BY <1>1, <1>2, <3>2, NeighbourFacts
        <4>3. (i = k + 1 => x = a) /\ (i = k - 1 => x = b)
          BY <1>1, <1>2, <3>2 DEF At
        <4> QED
          BY <4>1, <4>2, <4>3
      <3>4. prev'[x] = (IF i = k - 1 THEN a ELSE prev[x]) /\ next'[x] = IF i = k + 1 THEN b ELSE next[x]
        BY <1>3, <3>3
      <3>5. At(l, j + 1)' = IF i = k - 1 THEN At(l, k + 1) ELSE At(l, i + 1)
        BY <1>1, <1>4, <2>1, <3>1 DEF At
      <3>6. At(l, j - 1)' = IF i = k + 1 THEN At(l, k - 1) ELSE At(l, i - 1)
        BY <1>1, <1>4, <2>1, <3>1 DEF At
      <3> QED
        BY <1>2, <2>3, <3>1, <3>2, <3>4, <3>5, <3>6
    <2> QED
      BY <2>2, <2>3
  <1>11. \A m \in Lists, x \in Nodes : m # l \/ x # n => (x \in In(m) => x \in In(m)')
    <2> SUFFICES ASSUME NEW m \in Lists, NEW x \in Nodes, m # l \/ x # n, x \in In(m)
                 PROVE  x \in In(m)'
      OBVIOUS
    <2>1. PICK i \in 1..Len(content[m]) : content[m][i] = x
      BY InFacts
    <2>2. \E j \in 1..Len(content'[m]) : content'[m][j] = x
      <3>1. CASE m # l
        BY <1>4, <2>1, <3>1
      <3>2. CASE m = l /\ i < k
        BY <1>1, <1>4, <2>1, <3>2
      <3>3. CASE m = l /\ i > k
        <4>1. PICK h \in 1..(len - 1) : ~(h < k) /\ h + 1 = i
          BY <1>1, <2>1, <3>3
        <4>2. content'[l][h] = content[l][i]
          BY <1>4, <4>1
        <4> QED
          BY <1>4, <2>1, <3>3, <4>1, <4>2
      <3>4. CASE m = l /\ i = k
        BY <1>2, <2>1, <3>4
      <3> QED
        BY <1>1, <3>1, <3>2, <3>3, <3>4
    <2> QED
      BY <1>5, <2>2, InFactsNext
  <1>12. FreeClean'
    <2> SUFFICES ASSUME NEW x \in Nodes, Free(x)'
                 PROVE  prev'[x] = Null /\ next'[x] = Null
      BY DEF FreeClean
    <2>1. CASE x = n
      BY <1>3, <2>1
    <2>2. CASE x # n
      <3>1. Free(x)
        BY <1>11, <2>2 DEF Free
      <3>2. a \in In(l) \cup {Null} /\ b \in In(l) \cup {Null}
        BY <1>1, <1>2, InFacts DEF At
      <3>3. x # a /\ x # b
        BY <3>1, <3>2, ListAssumption DEF Free
      <3> QED
        BY <1>3, <2>2, <3>1, <3>3 DEF FreeClean
    <2> QED
      BY <2>1, <2>2
  <1>13. CurrIn'
    <2> SUFFICES ASSUME NEW m \in Lists, curr'[m] # Null
                 PROVE  curr'[m] \in In(m)'
      BY DEF CurrIn
    <2>1. curr'[m] \in Nodes
      BY <1>5 DEF ListTypeOK
    <2>2. CASE m # l
      BY <1>11, <2>1, <2>2 DEF CurrIn
    <2>3. CASE m = l
      <3>1. curr'[l] = b /\ b # n /\ b \in In(l)
        <4>1. curr'[l] = b /\ b # Null
          BY <1>2, <2>3
        <4>2. k - 1 \in 1..len /\ b = content[l][k - 1]
          BY <1>1, <1>2, <4>1 DEF At
        <4> QED
          BY <1>1, <1>2, <4>1, <4>2, InFacts DEF OnePlace
      <3> QED
        BY <1>11, <2>1, <2>3, <3>1
    <2> QED
      BY <2>2, <2>3
  <1> QED
    BY <1>5, <1>8, <1>9, <1>10, <1>12, <1>13

(* A step that changes no pointer of a list, and moves DrainFilters only   *)
(* within their lists.                                                     *)
LEMMA MoveKeepsListInv ==
  ASSUME ListInv, UNCHANGED <<head, tail, prev, next, content>>,
         curr' \in [Lists -> Nodes \cup {Null}],
         \A l \in Lists : curr'[l] = Null \/ curr'[l] \in In(l)
  PROVE  ListInv'
  <1> USE DEF ListInv
  <1>1. ListTypeOK' /\ OnePlace'
    BY DEF ListTypeOK, OnePlace
  <1>2. EndsRight'
    BY DEF EndsRight, At
  <1>3. LinksRight'
    <2>1. \A l \in Lists : Len(content[l]) \in Nat
      BY DEF ListTypeOK
    <2> QED
      BY <2>1 DEF LinksRight, At
  <1>4. FreeClean' /\ CurrIn'
    BY DEF FreeClean, CurrIn, Free, In
  <1> QED
    BY <1>1, <1>2, <1>3, <1>4

(* A node that is in no list becomes the head of one.                      *)
LEMMA PushFrontKeepsListInv ==
  ASSUME ListInv, NEW l \in Lists, NEW n \in Nodes, push_front(l, n)
  PROVE  ListInv'
  <1> USE DEF ListInv
  <1>1. PICK len \in Nat : len = Len(content[l])
    BY DEF ListTypeOK
  <1>2. PICK h \in Nodes \cup {Null} : h = head[l] /\ h = At(l, len)
    BY <1>1 DEF ListTypeOK, EndsRight
  <1>3. /\ Free(n)
        /\ next' = [next EXCEPT ![n] = h]
        /\ prev' = [m \in Nodes |-> CASE m = n -> Null
                                      [] m = h /\ m # n -> n
                                      [] OTHER -> prev[m]]
        /\ head' = [head EXCEPT ![l] = n]
        /\ tail' = [tail EXCEPT ![l] = IF @ = Null THEN n ELSE @]
        /\ content' = [content EXCEPT ![l] = Append(@, n)]
        /\ UNCHANGED curr
    BY <1>2 DEF push_front
  <1>4. /\ content'[l] \in Seq(Nodes) /\ Len(content'[l]) = len + 1 /\ content'[l][len + 1] = n
        /\ \A j \in 1..len : content'[l][j] = content[l][j]
        /\ \A m \in Lists : m # l => content'[m] = content[m]
    BY <1>1, <1>3, AppendProperties DEF ListTypeOK
  <1>5. ListTypeOK'
    <2>1. content' \in [Lists -> Seq(Nodes)]
      BY <1>3, <1>4 DEF ListTypeOK
    <2> QED
      BY <1>2, <1>3, <2>1 DEF ListTypeOK
  <1>6. \A m \in Lists : \A i \in 1..Len(content[m]) : content[m][i] # n /\ content[m][i] \in Nodes
    BY <1>3, InFacts DEF Free, ListTypeOK
  <1>7. \A m \in Lists : \A i \in 1..Len(content[m]) : content[m][i] = h => m = l /\ i = len
    BY <1>1, <1>2, <1>6, ListAssumption DEF OnePlace, At
  <1>8. OnePlace'
    <2>1. \A m \in Lists : \A j \in 1..Len(content'[m]) :
             IF m = l /\ j = len + 1 THEN content'[m][j] = n
             ELSE j \in 1..Len(content[m]) /\ content'[m][j] = content[m][j] /\ content[m][j] # n
      BY <1>1, <1>4, <1>6
    <2> SUFFICES ASSUME NEW m \in Lists, NEW m2 \in Lists,
                        NEW j \in 1..Len(content'[m]), NEW j2 \in 1..Len(content'[m2]),
                        content'[m][j] = content'[m2][j2]
                 PROVE  m = m2 /\ j = j2
      BY DEF OnePlace
    <2>2. CASE m = l /\ j = len + 1
      BY <2>1, <2>2
    <2>3. CASE ~(m = l /\ j = len + 1)
      <3>1. j \in 1..Len(content[m]) /\ content'[m][j] = content[m][j] /\ content[m][j] # n
        BY <2>1, <2>3
      <3>2. j2 \in 1..Len(content[m2]) /\ content'[m2][j2] = content[m2][j2]
        BY <2>1, <3>1
      <3>3. content[m][j] = content[m2][j2]
        BY <3>1, <3>2
      <3>4. OnePlace
        OBVIOUS
      <3> QED
        BY ONLY <3>1, <3>2, <3>3, <3>4, m \in Lists, m2 \in Lists DEF OnePlace
    <2> QED
      BY <2>2, <2>3
  <1>9. EndsRight'
    <2> SUFFICES ASSUME NEW m \in Lists
                 PROVE  (tail[m] = At(m, 1) /\ head[m] = At(m, Len(content[m])))'
      BY DEF EndsRight
    <2>1. CASE m # l
      <3>1. tail'[m] = tail[m] /\ head'[m] = head[m] /\ content'[m] = content[m]
        BY <1>3, <1>4, <2>1 DEF ListTypeOK
      <3> QED
        BY <3>1 DEF EndsRight, At
    <2>2. CASE m = l
      <3>1. head'[l] = n /\ tail'[l] = IF tail[l] = Null THEN n ELSE tail[l]
        BY <1>3 DEF ListTypeOK
      <3>2. tail[l] = At(l, 1) /\ (tail[l] = Null <=> len = 0)
        BY <1>1, <1>6, ListAssumption DEF EndsRight, At
      <3> QED
        BY <1>1, <1>4, <2>2, <3>1, <3>2 DEF At
    <2> QED
      BY <2>1, <2>2
  <1>10. LinksRight'
    <2> SUFFICES ASSUME NEW m \in Lists, NEW j \in 1..Len(content'[m])
                 PROVE  prev'[content'[m][j]] = At(m, j + 1)' /\ next'[content'[m][j]] = At(m, j - 1)'
      BY DEF LinksRight, At
    <2>1. CASE m = l /\ j = len + 1
      <3>1. prev'[n] = Null /\ next'[n] = h
        BY <1>3 DEF ListTypeOK
      <3>2. At(l, j + 1)' = Null /\ At(l, j - 1)' = At(l, len)
        BY <1>1, <1>4, <2>1 DEF At
      <3> QED
        BY <1>2, <1>4, <2>1, <3>1, <3>2
    <2>2. CASE m # l \/ j # len + 1
      <3>1. /\ j \in 1..Len(content[m]) /\ content'[m][j] = content[m][j]
            /\ m = l => j \in 1..len
        BY <1>1, <1>4, <2>2
      <3>2. PICK x \in Nodes : x = content[m][j] /\ x # n
        BY <1>6, <3>1
      <3>3. prev[x] = At(m, j + 1) /\ next[x] = At(m, j - 1)
        BY <3>1, <3>2 DEF LinksRight
      <3>4. (x = h <=> m = l /\ j = len) /\ next'[x] = next[x] /\ prev'[x] = IF x = h THEN n ELSE prev[x]
        BY <1>1, <1>2, <1>3, <1>7, <3>1, <3>2 DEF ListTypeOK, At
      <3>5. At(m, j - 1)' = At(m, j - 1)
        BY <1>1, <1>4, <3>1 DEF At
      <3>6. At(m, j + 1)' = IF m = l /\ j = len THEN n ELSE At(m, j + 1)
        BY <1>1, <1>4, <3>1 DEF At
      <3> QED
        BY <3>1, <3>2, <3>3, <3>4, <3>5, <3>6
    <2> QED
      BY <2>1, <2>2
  <1>11. \A m \in Lists, x \in Nodes : x \in In(m) => x \in In(m)'
    <2> SUFFICES ASSUME NEW m \in Lists, NEW x \in Nodes, x \in In(m)
                 PROVE  x \in In(m)'
      OBVIOUS
    <2>1. PICK i \in 1..Len(content[m]) : content[m][i] = x
      BY InFacts
    <2>2. i \in 1..Len(content'[m]) /\ content'[m][i] = x
      BY <1>1, <1>4, <2>1
    <2> QED
      BY <1>5, <2>2, InFactsNext
  <1>12. FreeClean'
    <2> SUFFICES ASSUME NEW x \in Nodes, Free(x)'
                 PROVE  prev'[x] = Null /\ next'[x] = Null
      BY DEF FreeClean
    <2>1. Free(x)
      BY <1>11 DEF Free
    <2>2. x # n
      <3>1. len + 1 \in 1..Len(content'[l])
        BY <1>4
      <3>2. n \in In(l)'
        BY <1>4, <1>5, <3>1, InFactsNext
      <3> QED
        BY <3>2 DEF Free
    <2>3. x # h
      <3>1. h = Null \/ h \in In(l)
        BY <1>1, <1>2, InFacts DEF At
      <3> QED
        BY <2>1, <3>1, ListAssumption DEF Free
    <2> QED
      BY <1>3, <2>1, <2>2, <2>3 DEF FreeClean, ListTypeOK
  <1>13. CurrIn'
    BY <1>3, <1>11 DEF CurrIn, ListTypeOK
  <1> QED
    BY <1>5, <1>8, <1>9, <1>10, <1>12, <1>13

(* pop_back is the unlink of the tail, written out.                        *)
LEMMA PopBackKeepsListInv ==
  ASSUME ListInv, NEW l \in Lists, pop_back(l)
  PROVE  ListInv'
  <1> USE DEF ListInv
  <1>1. PICK len \in Nat : len = Len(content[l])
    BY DEF ListTypeOK
  <1>2. PICK n \in Nodes : n = tail[l] /\ n = content[l][1] /\ len >= 1
    BY <1>1 DEF pop_back, ListTypeOK, EndsRight, At
  <1>3. 1 \in 1..len
    BY <1>1, <1>2
  <1>4. PICK a \in Nodes \cup {Null} : a = prev[n] /\ a = At(l, 2) /\ next[n] = Null
    BY <1>1, <1>2, <1>3, NeighbourFacts DEF At, ListTypeOK
  <1>5. head[l] = content[l][len] /\ a # n /\ (a = Null <=> len = 1) /\ (head[l] = n <=> len = 1)
    <2>1. head[l] = content[l][len] /\ a # n
      BY <1>1, <1>2, <1>3, <1>4, NeighbourFacts
    <2>2. a = Null <=> len = 1
      BY <1>1, <1>3, <1>4, ListAssumption DEF At, ListTypeOK
    <2>3. head[l] = n <=> len = 1
      <3>1. len \in 1..Len(content[l]) /\ 1 \in 1..Len(content[l])
        BY <1>1, <1>2, <1>3
      <3>2. content[l][len] = content[l][1] => len = 1
        BY <3>1 DEF OnePlace
      <3> QED
        BY <1>2, <2>1, <3>2
    <2> QED
      BY <2>1, <2>2, <2>3
  <1>6. /\ tail' = [tail EXCEPT ![l] = a]
        /\ head' = [head EXCEPT ![l] = IF a = Null THEN Null ELSE @]
        /\ next' = [m \in Nodes |-> IF m \in {n, a} THEN Null ELSE next[m]]
        /\ prev' = [prev EXCEPT ![n] = Null]
        /\ content' = [content EXCEPT ![l] = Tail(@)]
        /\ curr' = curr /\ curr[l] = Null
    BY <1>2, <1>4 DEF pop_back, Borrowed
  <1>7. unlink(l, content[l][1])
    <2>1. head' = [head EXCEPT ![l] = IF @ = n THEN next[n] ELSE @]
      BY <1>4, <1>5, <1>6 DEF ListTypeOK
    <2>2. tail' = [tail EXCEPT ![l] = IF @ = n THEN prev[n] ELSE @]
      BY <1>2, <1>4, <1>6 DEF ListTypeOK
    <2>3. next' = [m \in Nodes |-> CASE m = n -> Null
                                      [] m = prev[n] /\ m # n -> next[n]
                                      [] OTHER -> next[m]]
      BY <1>4, <1>6 DEF ListTypeOK
    <2>4. prev' = [m \in Nodes |-> CASE m = n -> Null
                                      [] m = next[n] /\ m # n -> prev[n]
                                      [] OTHER -> prev[m]]
      BY <1>4, <1>6, ListAssumption DEF ListTypeOK
    <2> QED
      BY <1>2, <2>1, <2>2, <2>3, <2>4 DEF unlink
  <1>8. Tail(content[l]) = Without(l, content[l][1])
    <2>1. /\ Without(l, content[l][1]) \in Seq(Nodes) /\ Len(Without(l, content[l][1])) = len - 1
          /\ \A j \in 1..(len - 1) :
               Without(l, content[l][1])[j] = IF j < 1 THEN content[l][j] ELSE content[l][j + 1]
      BY <1>1, <1>3, WithoutFacts
    <2>2. content[l] \in Seq(Nodes) /\ content[l] # <<>>
      BY <1>1, <1>2 DEF ListTypeOK
    <2>3. /\ Tail(content[l]) \in Seq(Nodes) /\ Len(Tail(content[l])) = len - 1
          /\ \A j \in 1..(len - 1) : Tail(content[l])[j] = content[l][j + 1]
      BY <1>1, <2>2, HeadTailProperties
    <2>4. \A j \in 1..(len - 1) : Tail(content[l])[j] = Without(l, content[l][1])[j]
      BY <2>1, <2>3
    <2> QED
      BY <2>1, <2>3, <2>4, SeqEqual
  <1>9. /\ content' = [content EXCEPT ![l] = Without(l, content[l][1])]
        /\ curr' \in [Lists -> Nodes \cup {Null}]
        /\ \A m \in Lists : m # l => curr'[m] = curr[m]
        /\ curr'[l] \in {Null, next[content[l][1]]}
    BY <1>6, <1>8 DEF ListTypeOK
  <1> QED
    BY <1>1, <1>3, <1>7, <1>9, UnlinkKeepsListInv

(* remove: a node of the list is unlinked; the test that tells it from one *)
(* that is in no list, whose pointers say nothing, is right.               *)
LEMMA RemoveNodeKeepsListInv ==
  ASSUME ListInv, NEW l \in Lists, NEW n \in Nodes, remove_node(l, n)
  PROVE  ListInv'
  <1> USE DEF ListInv
  <1>1. /\ curr[l] = Null /\ UNCHANGED curr
        /\ n \in In(l) \/ Free(n)
        /\ content' = [content EXCEPT ![l] = Without(l, n)]
        /\ IF prev[n] = Null /\ head[l] # n THEN UNCHANGED <<head, tail, prev, next>> ELSE unlink(l, n)
    BY DEF remove_node, Borrowed
  <1>2. CASE n \in In(l)
    <2>1. PICK k \in 1..Len(content[l]) : n = content[l][k]
      BY <1>2, InFacts
    <2>2. ~(prev[n] = Null /\ head[l] # n)
      <3>1. /\ prev[n] = At(l, k + 1) /\ head[l] = content[l][Len(content[l])]
            /\ Len(content[l]) \in Nat /\ content[l] \in Seq(Nodes)
        BY <2>1, NeighbourFacts DEF ListTypeOK
      <3>2. k < Len(content[l]) => prev[n] \in Nodes
        BY <3>1 DEF At
      <3> QED
        BY <2>1, <3>1, <3>2, ListAssumption
    <2>3. unlink(l, content[l][k]) /\ content' = [content EXCEPT ![l] = Without(l, content[l][k])]
      BY <1>1, <2>1, <2>2
    <2> QED
      BY <1>1, <2>3, UnlinkKeepsListInv DEF ListTypeOK
  <1>3. CASE n \notin In(l)
    <2>1. prev[n] = Null
      BY <1>1, <1>3 DEF FreeClean
    <2>2. head[l] # n
      <3>1. head[l] = Null \/ head[l] \in In(l)
        <4>1. Len(content[l]) \in Nat /\ head[l] = At(l, Len(content[l])) /\ head[l] \in Nodes \cup {Null}
          BY DEF EndsRight, ListTypeOK
        <4> QED
          BY <4>1, InFacts DEF At
      <3> QED
        BY <1>3, <3>1, ListAssumption
    <2>3. Without(l, n) = content[l]
      BY <1>3 DEF Without
    <2>4. UNCHANGED <<head, tail, prev, next, curr, content>>
      BY <1>1, <2>1, <2>2, <2>3 DEF ListTypeOK
    <2> QED
      BY <2>4, MoveKeepsListInv DEF ListTypeOK, CurrIn
  <1> QED
    BY <1>2, <1>3

(* A DrainFilter starts at the head and moves on before the node it stood  *)
(* on is taken out.                                                        *)
LEMMA DrainKeepsListInv ==
  ASSUME ListInv, NEW l \in Lists, drain_filter(l) \/ drain_next(l)
  PROVE  ListInv'
  <1> USE DEF ListInv
  <1>1. CASE drain_filter(l)
    <2>1. curr' = [curr EXCEPT ![l] = head[l]] /\ UNCHANGED <<head, tail, prev, next, content>> /\ head[l] # Null
      BY <1>1 DEF drain_filter
    <2>2. head[l] \in In(l)
      <3>1. Len(content[l]) \in Nat /\ head[l] = At(l, Len(content[l])) /\ head[l] \in Nodes
        BY <2>1 DEF EndsRight, ListTypeOK
      <3> QED
        BY <2>1, <3>1, InFacts DEF At
    <2>3. curr' \in [Lists -> Nodes \cup {Null}] /\ \A m \in Lists : curr'[m] = Null \/ curr'[m] \in In(m)
      BY <2>1, <2>2 DEF ListTypeOK, CurrIn
    <2> QED
      BY <2>1, <2>3, MoveKeepsListInv
  <1>2. CASE drain_next(l)
    <2>1. curr[l] \in Nodes /\ curr[l] \in In(l) /\ curr' = [curr EXCEPT ![l] = next[curr[l]]]
      BY <1>2 DEF drain_next, Borrowed, CurrIn, ListTypeOK
    <2>2. PICK k \in 1..Len(content[l]) : curr[l] = content[l][k]
      BY <2>1, InFacts
    <2>3. /\ curr' \in [Lists -> Nodes \cup {Null}]
          /\ \A m \in Lists : m # l => curr'[m] = curr[m]
          /\ curr'[l] = next[content[l][k]]
      BY <2>1, <2>2 DEF ListTypeOK
    <2>4. CASE unlink(l, curr[l]) /\ content' = [content EXCEPT ![l] = Without(l, curr[l])]
      BY <2>2, <2>3, <2>4, UnlinkKeepsListInv
    <2>5. CASE UNCHANGED <<head, tail, prev, next, content>>
      <3>1. curr'[l] = Null \/ curr'[l] \in In(l)
        <4>1. Len(content[l]) \in Nat /\ curr'[l] = At(l, k - 1) /\ curr'[l] \in Nodes \cup {Null}
          BY <2>3, NeighbourFacts
        <4> QED
          BY <4>1, InFacts, ListAssumption DEF At
      <3>2. \A m \in Lists : curr'[m] = Null \/ curr'[m] \in In(m)
        BY <2>3, <3>1 DEF CurrIn
      <3> QED
        BY <2>3, <2>5, <3>2, MoveKeepsListInv
    <2> QED
      BY <1>2, <2>4, <2>5 DEF drain_next
  <1> QED
    BY <1>1, <1>2

-----------------------------------------------------------------------------
(* Every call keeps the lists well formed.                                 *)
THEOREM ListInvariant == ListSpec => []ListInv
  <1>1. ListInit => ListInv
    <2> SUFFICES ASSUME ListInit
                 PROVE  ListInv
      OBVIOUS
    <2>1. content = [l \in Lists |-> <<>>] /\ \A l \in Lists : content[l] = <<>> /\ Len(content[l]) = 0
      BY DEF ListInit
    <2>2. ListTypeOK
      BY <2>1, EmptySeq DEF ListInit, ListTypeOK
    <2>3. OnePlace /\ LinksRight
      BY <2>1 DEF OnePlace, LinksRight
    <2>4. EndsRight /\ FreeClean /\ CurrIn
      BY <2>1 DEF ListInit, EndsRight, FreeClean, CurrIn, At
    <2> QED
      BY <2>2, <2>3, <2>4 DEF ListInv
  <1>2. ListInv /\ [ListNext]_listVars => ListInv'
    <2> SUFFICES ASSUME ListInv, [ListNext]_listVars
                 PROVE  ListInv'
      OBVIOUS
    <2>1. CASE ListNext
      BY <2>1, PopBackKeepsListInv, DrainKeepsListInv, PushFrontKeepsListInv, RemoveNodeKeepsListInv
         DEF ListNext
    <2>2. CASE UNCHANGED listVars
      BY <2>2, MoveKeepsListInv DEF listVars, ListInv, ListTypeOK, CurrIn
    <2> QED
      BY <2>1, <2>2
  <1> QED
    BY <1>1, <1>2, PTL DEF ListSpec

(* The pointers of utils/linked_list.rs spell out the contents of every    *)
(* list in both directions, and a node that has left its list, by          *)
(* pop_back, remove or a DrainFilter, holds no pointer and is not the one  *)
(* a DrainFilter is going to look at.                                      *)
THEOREM ListsAreSequences == ListSpec => []ListIsSequence
  <1>1. ListInv => ListIsSequence
    <2> SUFFICES ASSUME ListInv
                 PROVE  ListIsSequence
      OBVIOUS
    <2> USE DEF ListInv
    <2>1. \A l \in Lists : DOMAIN content[l] = 1..Len(content[l])
      BY LenProperties DEF ListTypeOK
    <2>2. \A l \in Lists :
             LET s == content[l]
                 place(i) == IF i \in DOMAIN s THEN s[i] ELSE Null
             IN  /\ tail[l] = place(1)
                 /\ head[l] = place(Len(s))
                 /\ \A i \in DOMAIN s : prev[s[i]] = place(i + 1) /\ next[s[i]] = place(i - 1)
      BY <2>1 DEF EndsRight, LinksRight, At
    <2>3. \A n \in Nodes : Free(n) => /\ prev[n] = Null /\ next[n] = Null
                                      /\ \A l \in Lists : curr[l] # n
      BY ListAssumption DEF FreeClean, CurrIn, Free
    <2> QED
      BY <2>2, <2>3 DEF ListIsSequence
  <1> QED
    BY <1>1, ListInvariant, PTL
=============================================================================
