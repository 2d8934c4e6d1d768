-------------------------- MODULE RobotDataPathProofs --------------------------
(***************************************************************************)
(* Proofs about the way of joint values, for any robot that is accepted, any *)
(* motion, any commands and any number of rounds: the vectors are told of the *)
(* one robot in their layout, and every actuator is told of its own joint.    *)
(***************************************************************************)
EXTENDS RobotDataPath, WellFoundedInduction, SequenceTheorems, TLAPS

-----------------------------------------------------------------------------
(* Angles and planar motion.                                               *)

\* What is left of an angle after full turns.
LEMMA Turns ==
  ASSUME NEW a \in Int
  PROVE  a % 4 \in 0 .. 3 /\ \E k \in Int : a = 4 * k + (a % 4)
<1>1. a % 4 \in 0 .. 3
  OBVIOUS
<1>2. a \div 4 \in Int
  OBVIOUS
<1>3. PICK q \in Int : q = a \div 4 /\ 4 * q <= a /\ a < 4 * (q + 1)
  BY <1>2
<1>4. PICK r \in 0 .. 3 : a = 4 * q + r
  <2>1. a - 4 * q \in 0 .. 3
    BY <1>3
  <2>2. QED
    BY <2>1
<1>5. a % 4 = r
  <2> DEFINE x == 4 * q + r
  <2>1. x % 4 = r
    OBVIOUS
  <2>2. a = x
    BY <1>4
  <2> HIDE DEF x
  <2>3. QED
    BY <2>1, <2>2
<1>6. \E k \in Int : a = 4 * k + r
  BY <1>4
<1>7. QED
  BY <1>1, <1>5, <1>6, Zenon

LEMMA RestOfTurns ==
  ASSUME NEW k \in Int, NEW r \in 0 .. 3
  PROVE  (4 * k + r) % 4 = r
OBVIOUS

LEMMA SameByTurns ==
  ASSUME NEW a \in Int, NEW b \in Int
  PROVE  SameAngle(a, b) <=> \E k \in Int : a = b + 4 * k
<1>1. SameAngle(a, b) => \E k \in Int : a = b + 4 * k
  <2>1. a - b \in Int
    OBVIOUS
  <2>2. PICK k \in Int : a - b = 4 * k + ((a - b) % 4)
    BY <2>1, Turns
  <2>3. QED
    BY <2>2 DEF SameAngle
<1>2. ASSUME NEW k \in Int, a = b + 4 * k
      PROVE  SameAngle(a, b)
  <2>1. a - b = 4 * k + 0
    BY <1>2
  <2>2. QED
    BY <2>1, RestOfTurns DEF SameAngle
<1>3. QED
  BY <1>1, <1>2

LEMMA SameAsItself ==
  ASSUME NEW a \in Int
  PROVE  SameAngle(a, a)
BY SameByTurns

LEMMA SameBackwards ==
  ASSUME NEW a \in Int, NEW b \in Int, SameAngle(a, b)
  PROVE  SameAngle(b, a)
<1>1. PICK k \in Int : a = b + 4 * k
  BY SameByTurns
<1>2. b = a + 4 * (-k) /\ -k \in Int
  BY <1>1
<1>3. QED
  BY <1>2, SameByTurns

LEMMA SameRest ==
  ASSUME NEW a \in Int
  PROVE  SameAngle(a % 4, a)
<1>1. PICK k \in Int : a = 4 * k + (a % 4)
  BY Turns
<1>2. a % 4 = a + 4 * (-k) /\ -k \in Int /\ a % 4 \in Int
  BY <1>1, Turns
<1>3. QED
  BY <1>2, SameByTurns

LEMMA SameOnwards ==
  ASSUME NEW a \in Int, NEW b \in Int, NEW c \in Int, SameAngle(a, b), SameAngle(b, c)
  PROVE  SameAngle(a, c)
<1>1. PICK k \in Int : a = b + 4 * k
  BY SameByTurns
<1>2. PICK l \in Int : b = c + 4 * l
  BY SameByTurns
<1>3. a = c + 4 * (k + l) /\ k + l \in Int
  BY <1>1, <1>2
<1>4. QED
  BY <1>3, SameByTurns

LEMMA SameTurned ==
  ASSUME NEW a \in Int, NEW b \in Int, NEW c \in Int, SameAngle(a, b)
  PROVE  SameAngle(a + c, b + c)
<1>1. PICK k \in Int : a = b + 4 * k
  BY SameByTurns
<1>2. a + c = (b + c) + 4 * k /\ a + c \in Int /\ b + c \in Int
  BY <1>1
<1>3. QED
  BY <1>2, SameByTurns

LEMMA SameLeft ==
  ASSUME NEW a \in Int, NEW b \in Int, SameAngle(a, b)
  PROVE  a % 4 = b % 4
<1>1. PICK k \in Int : a = b + 4 * k
  BY SameByTurns
<1>2. PICK r \in 0 .. 3 : r = b % 4
  BY Turns
<1>3. PICK l \in Int : b = 4 * l + r
  BY <1>2, Turns
<1>4. a = 4 * (k + l) + r /\ k + l \in Int
  BY <1>1, <1>3
<1>5. QED
  BY <1>2, <1>4, RestOfTurns

\* Sine and cosine by the rest of the full turns.
LEMMA SineAndCosine ==
  ASSUME NEW a \in Int
  PROVE  /\ Cosine(a) = IF a % 4 = 0 THEN 1 ELSE IF a % 4 = 2 THEN -1 ELSE 0
         /\ Sine(a) = IF a % 4 = 1 THEN 1 ELSE IF a % 4 = 3 THEN -1 ELSE 0
         /\ Cosine(a) \in {-1, 0, 1} /\ Sine(a) \in {-1, 0, 1}
<1>1. a % 4 \in {0, 1, 2, 3}
  BY Turns
<1>2. /\ Cosine(a) = IF a % 4 = 0 THEN 1 ELSE IF a % 4 = 2 THEN -1 ELSE 0
      /\ Sine(a) = IF a % 4 = 1 THEN 1 ELSE IF a % 4 = 3 THEN -1 ELSE 0
  BY <1>1 DEF Cosine, Sine
<1>3. QED
  BY <1>1, <1>2

\* An angle is its sine and cosine, but for full turns.
LEMMA ArcTan2Of ==
  ASSUME NEW a \in Int
  PROVE  ArcTan2(Sine(a), Cosine(a)) \in -1 .. 2 /\ SameAngle(ArcTan2(Sine(a), Cosine(a)), a)
<1> DEFINE fits(x) == Sine(x) = Sine(a) /\ Cosine(x) = Cosine(a)
<1>1. a % 4 \in {0, 1, 2, 3}
  BY Turns
<1>2. ~(Sine(a) = 0 /\ Cosine(a) = 0)
  BY <1>1, SineAndCosine
<1>3. ASSUME NEW x \in Int, fits(x)
      PROVE  x % 4 = a % 4
  <2>1. x % 4 \in {0, 1, 2, 3}
    BY Turns
  <2>2. QED
    BY <1>1, <1>3, <2>1, SineAndCosine
<1>4. \E x \in -1 .. 2 : fits(x)
  <2>1. \E x \in -1 .. 2 : x % 4 = a % 4
    <3>1. (-1) % 4 = 3 /\ 0 % 4 = 0 /\ 1 % 4 = 1 /\ 2 % 4 = 2
      <4>1. /\ -1 \in Int /\ 0 \in Int /\ 0 \in 0 .. 3 /\ 1 \in 0 .. 3 /\ 2 \in 0 .. 3 /\ 3 \in 0 .. 3
            /\ 4 * (-1) + 3 = -1 /\ 4 * 0 + 0 = 0 /\ 4 * 0 + 1 = 1 /\ 4 * 0 + 2 = 2
        OBVIOUS
      <4>2. (-1) % 4 = 3
        BY <4>1, RestOfTurns
      <4>3. 0 % 4 = 0
        BY <4>1, RestOfTurns
      <4>4. 1 % 4 = 1
        BY <4>1, RestOfTurns
      <4>5. 2 % 4 = 2
        BY <4>1, RestOfTurns
      <4>6. QED
        BY <4>2, <4>3, <4>4, <4>5
    <3>2. QED
      BY <1>1, <3>1
  <2>2. QED
    BY <2>1, SineAndCosine
<1>5. ArcTan2(Sine(a), Cosine(a)) = CHOOSE x \in -1 .. 2 : fits(x)
  BY <1>2 DEF ArcTan2
<1> DEFINE chosen == CHOOSE x \in -1 .. 2 : fits(x)
<1>6. chosen \in -1 .. 2 /\ fits(chosen)
  BY <1>4
<1> HIDE DEF chosen
<1>7. chosen \in Int /\ chosen % 4 = a % 4
  BY <1>3, <1>6
<1>8. SameAngle(chosen, a)
  <2>1. SameAngle(a % 4, a) /\ a % 4 \in Int
    BY <1>1, SameRest
  <2>2. SameAngle(chosen % 4, chosen)
    BY <1>7, SameRest
  <2>3. SameAngle(chosen, a % 4)
    BY <1>7, <2>1, <2>2, SameBackwards
  <2>4. QED
    BY <1>7, <2>1, <2>3, SameOnwards
<1>9. QED
  BY <1>5, <1>6, <1>8 DEF chosen

Places == Int \X Int \X Int

\* What a twist makes of a place.
LEMMA MovedBy ==
  ASSUME NEW p \in Places, NEW t \in Places
  PROVE  /\ Moved(p, t) = <<p[1] + (Cosine(p[3]) * t[1] - Sine(p[3]) * t[2]),
                            p[2] + (Sine(p[3]) * t[1] + Cosine(p[3]) * t[2]), p[3] + t[3]>>
         /\ Moved(p, t) \in Places
         /\ Moved(p, <<0, 0, 0>>) = p
<1>1. p[1] \in Int /\ p[2] \in Int /\ p[3] \in Int /\ t[1] \in Int /\ t[2] \in Int /\ t[3] \in Int
      /\ p = <<p[1], p[2], p[3]>>
  BY DEF Places
<1>2. PICK c \in {-1, 0, 1}, s \in {-1, 0, 1} : c = Cosine(p[3]) /\ s = Sine(p[3])
  BY <1>1, SineAndCosine
<1>3. Moved(p, t) = <<p[1] + (c * t[1] - s * t[2]), p[2] + (s * t[1] + c * t[2]), p[3] + t[3]>>
  BY <1>2 DEF Moved, Turned
<1>4. c * t[1] - s * t[2] \in Int /\ s * t[1] + c * t[2] \in Int
  BY <1>1, <1>2
<1>5. Moved(p, <<0, 0, 0>>) = <<p[1] + (c * 0 - s * 0), p[2] + (s * 0 + c * 0), p[3] + 0>>
  BY <1>2 DEF Moved, Turned
<1>6. c * 0 - s * 0 = 0 /\ s * 0 + c * 0 = 0
  BY <1>2
<1>7. Moved(p, t) \in Places
  BY <1>1, <1>3, <1>4 DEF Places
<1>8. Moved(p, <<0, 0, 0>>) = p
  BY <1>1, <1>5, <1>6
<1>9. QED
  BY <1>2, <1>3, <1>7, <1>8

\* The same place, moved alike, is the same place.
LEMMA SamePlaces ==
  ASSUME NEW p \in Places, NEW r \in Places
  PROVE  /\ SamePlace(p, p)
         /\ SamePlace(p, r) => SamePlace(r, p)
         /\ \A u \in Places : SamePlace(p, r) /\ SamePlace(r, u) => SamePlace(p, u)
         /\ \A t \in Places : SamePlace(p, r) => SamePlace(Moved(p, t), Moved(r, t))
<1>1. p[1] \in Int /\ p[2] \in Int /\ p[3] \in Int /\ r[1] \in Int /\ r[2] \in Int /\ r[3] \in Int
  BY DEF Places
<1>2. SamePlace(p, p) /\ (SamePlace(p, r) => SamePlace(r, p))
  <2>1. SameAngle(p[3], p[3]) /\ (SameAngle(p[3], r[3]) => SameAngle(r[3], p[3]))
    BY <1>1, SameAsItself, SameBackwards
  <2>2. QED
    BY <2>1 DEF SamePlace
<1>3. ASSUME NEW u \in Places, SamePlace(p, r), SamePlace(r, u) PROVE SamePlace(p, u)
  <2>1. u[3] \in Int
    BY DEF Places
  <2>2. SameAngle(p[3], r[3]) /\ SameAngle(r[3], u[3])
    BY <1>3 DEF SamePlace
  <2>3. SameAngle(p[3], u[3])
    BY <1>1, <2>1, <2>2, SameOnwards
  <2>4. QED
    BY <1>3, <2>3 DEF SamePlace
<1>4. ASSUME NEW t \in Places, SamePlace(p, r) PROVE SamePlace(Moved(p, t), Moved(r, t))
  <2>1. p[3] % 4 = r[3] % 4 /\ SameAngle(p[3] + t[3], r[3] + t[3]) /\ p[1] = r[1] /\ p[2] = r[2]
    <3>1. t[3] \in Int
      BY DEF Places
    <3>2. SameAngle(p[3], r[3]) /\ p[1] = r[1] /\ p[2] = r[2]
      BY <1>4 DEF SamePlace
    <3>3. p[3] % 4 = r[3] % 4
      BY <1>1, <3>2, SameLeft
    <3>4. SameAngle(p[3] + t[3], r[3] + t[3])
      BY <1>1, <3>1, <3>2, SameTurned
    <3>5. QED
      BY <3>2, <3>3, <3>4
  <2>2. Cosine(p[3]) = Cosine(r[3]) /\ Sine(p[3]) = Sine(r[3])
    BY <2>1 DEF Cosine, Sine
  <2>3. QED
    BY <2>1, <2>2 DEF Moved, Turned, SamePlace
<1>5. QED
  BY <1>2, <1>3, <1>4
-----------------------------------------------------------------------------
(* The layout of the vectors.                                              *)

\* A set of natural numbers that has 0 and the next of each of its own has all of them.
LEMMA Induction ==
  ASSUME NEW S \in SUBSET Nat, 0 \in S, \A k \in S : k + 1 \in S
  PROVE  S = Nat
<1> DEFINE R == OpToRel(<, Nat)
           T == Nat \ S
<1> SUFFICES ASSUME T # {} PROVE FALSE
  OBVIOUS
<1>1. IsWellFoundedOn(R, Nat)
  BY NatLessThanWellFounded
<1>2. \A x, y \in Nat : <<y, x>> \in R <=> y < x
  BY DEF OpToRel
<1> HIDE DEF R
<1>3. PICK n \in T : \A k \in T : ~ (<<k, n>> \in R)
  BY <1>1, WFMin
<1>4. n \in Nat /\ n # 0 /\ n - 1 \in Nat
  BY <1>3
<1>5. n - 1 \in S
  <2>1. n - 1 < n
    BY <1>4
  <2>2. <<n - 1, n>> \in R
    BY <1>2, <1>4, <2>1
  <2>3. n - 1 \notin T
    BY <1>3, <2>2
  <2>4. QED
    BY <1>4, <2>3
<1>6. (n - 1) + 1 \in S
  BY <1>5
<1>7. n \in S
  BY <1>4, <1>6
<1>8. QED
  BY <1>3, <1>7

Kind == {"planar", "continuous", "revolute"}
Sizes == [Kind -> Nat \ {0}]

StartsStep(kinds, size, f) ==
  [i \in 1..(Len(kinds) + 1) |-> IF i = 1 THEN 1 ELSE f[i - 1] + size[kinds[i - 1]]]

\* There is a function that starts each joint where the one before it ends.
LEMMA StartsExists ==
  ASSUME NEW kinds \in Seq(Kind), NEW size \in Sizes
  PROVE  \E f \in [1 .. Len(kinds) + 1 -> Nat \ {0}] : f = StartsStep(kinds, size, f)
<1> DEFINE L == Len(kinds)
           Upto(k, f) == \A i \in 1 .. L + 1 : i <= k =>
                            f[i] = IF i = 1 THEN 1 ELSE f[i - 1] + size[kinds[i - 1]]
           S == {k \in Nat : \E f \in [1 .. L + 1 -> Nat \ {0}] : Upto(k, f)}
<1>1. L \in Nat
  OBVIOUS
<1> HIDE DEF L
<1>2. 0 \in S
  <2>1. [i \in 1 .. L + 1 |-> 1] \in [1 .. L + 1 -> Nat \ {0}]
    OBVIOUS
  <2>2. \A f : Upto(0, f)
    OBVIOUS
  <2>3. QED
    BY <2>1, <2>2
<1>3. ASSUME NEW k \in S
      PROVE  k + 1 \in S
  <2>1. PICK f \in [1 .. L + 1 -> Nat \ {0}] : Upto(k, f)
    OBVIOUS
  <2> DEFINE value == IF k = 0 THEN 1 ELSE f[k] + size[kinds[k]]
             g == [i \in 1 .. L + 1 |-> IF i = k + 1 THEN value ELSE f[i]]
  <2>2. k + 1 \in 1 .. L + 1 => value \in Nat \ {0}
    <3> SUFFICES ASSUME k + 1 \in 1 .. L + 1, k # 0
                 PROVE  f[k] + size[kinds[k]] \in Nat \ {0}
      OBVIOUS
    <3>1. k \in 1 .. L /\ k \in 1 .. L + 1
      BY <1>1
    <3>2. kinds[k] \in Kind
      BY <3>1 DEF L
    <3>3. size[kinds[k]] \in Nat \ {0} /\ f[k] \in Nat \ {0}
      BY <3>1, <3>2 DEF Sizes
    <3>4. QED
      BY <3>3
  <2> HIDE DEF value
  <2>3. g \in [1 .. L + 1 -> Nat \ {0}]
    BY <2>2
  <2>4. Upto(k + 1, g)
    <3> SUFFICES ASSUME NEW i \in 1 .. L + 1, i <= k + 1
                 PROVE  g[i] = IF i = 1 THEN 1 ELSE g[i - 1] + size[kinds[i - 1]]
      OBVIOUS
    <3>1. CASE i = k + 1
      <4>1. g[i] = value
        BY <3>1
      <4>2. CASE k = 0
        BY <3>1, <4>1, <4>2 DEF value
      <4>3. CASE k # 0
        <5>1. i # 1 /\ i - 1 = k /\ k \in 1 .. L + 1 /\ k # k + 1
          BY <1>1, <3>1, <4>3
        <5>2. g[i - 1] = f[k]
          BY <5>1
        <5>3. QED
          BY <4>1, <4>3, <5>1, <5>2 DEF value
      <4>4. QED
        BY <4>2, <4>3
    <3>2. CASE i # k + 1
      <4>1. i <= k /\ g[i] = f[i]
        BY <1>1, <3>2
      <4>2. f[i] = IF i = 1 THEN 1 ELSE f[i - 1] + size[kinds[i - 1]]
        BY <2>1, <4>1
      <4>3. i # 1 => i - 1 \in 1 .. L + 1 /\ i - 1 # k + 1
        BY <1>1, <4>1
      <4>4. i # 1 => g[i - 1] = f[i - 1]
        BY <4>3
      <4>5. QED
        BY <4>1, <4>2, <4>4
    <3>3. QED
      BY <3>1, <3>2
  <2> HIDE DEF g, Upto
  <2>5. k + 1 \in Nat
    OBVIOUS
  <2>6. QED
    BY <2>3, <2>4, <2>5
<1>4. S = Nat
  <2> HIDE DEF Upto
  <2>1. S \in SUBSET Nat
    OBVIOUS
  <2> HIDE DEF S
  <2>2. QED
    BY <1>2, <1>3, <2>1, Induction
<1>5. PICK f \in [1 .. L + 1 -> Nat \ {0}] : Upto(L + 1, f)
  <2>1. L + 1 \in Nat
    BY <1>1
  <2>2. L + 1 \in S
    <3> HIDE DEF S
    <3>1. QED
      BY <1>4, <2>1
  <2>3. QED
    BY <2>2
<1>6. f = StartsStep(kinds, size, f)
  <2>1. \A i \in 1 .. L + 1 : f[i] = IF i = 1 THEN 1 ELSE f[i - 1] + size[kinds[i - 1]]
    BY <1>1, <1>5
  <2> HIDE DEF Upto
  <2>2. f = [i \in 1 .. L + 1 |-> IF i = 1 THEN 1 ELSE f[i - 1] + size[kinds[i - 1]]]
    BY <2>1
  <2>3. QED
    BY <2>2 DEF StartsStep, L
<1>7. QED
  BY <1>6 DEF L

\* Where the joints start: the first at 1, each where the one before it ends.
LEMMA StartsOf ==
  ASSUME NEW kinds \in Seq(Kind), NEW size \in Sizes
  PROVE  LET idx == Starts(kinds, size) IN
         /\ idx \in [1 .. Len(kinds) + 1 -> Nat \ {0}]
         /\ DOMAIN idx = 1 .. Len(kinds) + 1
         /\ \A i \in 1 .. Len(kinds) + 1 : idx[i] \in Nat \ {0}
         /\ idx[1] = 1
         /\ \A i \in 1 .. Len(kinds) : idx[i + 1] = idx[i] + size[kinds[i]]
<1> DEFINE idx == Starts(kinds, size)
<1>1. idx = CHOOSE f : f = StartsStep(kinds, size, f)
  BY DEF Starts, StartsStep
<1>2. idx = StartsStep(kinds, size, idx)
  BY <1>1, StartsExists
<1> HIDE DEF idx
<1>3. Len(kinds) \in Nat
  OBVIOUS
<1>4. DOMAIN idx = 1 .. Len(kinds) + 1
  BY <1>2 DEF StartsStep
<1>5. \A i \in 1 .. Len(kinds) + 1 : idx[i] = IF i = 1 THEN 1 ELSE idx[i - 1] + size[kinds[i - 1]]
  BY <1>2 DEF StartsStep
<1>6. idx[1] = 1
  <2>1. 1 \in 1 .. Len(kinds) + 1
    BY <1>3
  <2>2. QED
    BY <1>5, <2>1
<1>7. ASSUME NEW i \in 1 .. Len(kinds)
      PROVE  idx[i + 1] = idx[i] + size[kinds[i]]
  <2>1. i + 1 \in 1 .. Len(kinds) + 1 /\ i + 1 # 1 /\ (i + 1) - 1 = i
    BY <1>3
  <2>2. QED
    BY <1>5, <2>1
<1>8. \A i \in 1 .. Len(kinds) + 1 : idx[i] \in Nat \ {0}
  <2> DEFINE S == {k \in Nat : k + 1 \in 1 .. Len(kinds) + 1 => idx[k + 1] \in Nat \ {0}}
  <2>1. 0 \in S
    BY <1>6
  <2>2. ASSUME NEW k \in S
        PROVE  k + 1 \in S
    <3> SUFFICES ASSUME k + 2 \in 1 .. Len(kinds) + 1
                 PROVE  idx[k + 2] \in Nat \ {0}
      OBVIOUS
    <3>1. k \in Nat /\ k + 1 \in 1 .. Len(kinds) /\ k + 1 \in 1 .. Len(kinds) + 1 /\ (k + 1) + 1 = k + 2
      BY <1>3
    <3>2. idx[k + 1] \in Nat \ {0} /\ size[kinds[k + 1]] \in Nat \ {0}
      BY <3>1 DEF Sizes
    <3>3. idx[k + 2] = idx[k + 1] + size[kinds[k + 1]]
      BY <1>7, <3>1
    <3>4. QED
      BY <3>2, <3>3
  <2>3. S \in SUBSET Nat
    OBVIOUS
  <2>4. S = Nat
    <3> HIDE DEF S
    <3>1. QED
      BY <2>1, <2>2, <2>3, Induction
  <2>5. QED
    <3> SUFFICES ASSUME NEW i \in 1 .. Len(kinds) + 1 PROVE idx[i] \in Nat \ {0}
      OBVIOUS
    <3>1. i - 1 \in Nat /\ (i - 1) + 1 = i
      BY <1>3
    <3>2. i - 1 \in S
      <4> HIDE DEF S
      <4>1. QED
        BY <2>4, <3>1
    <3>3. QED
      BY <3>1, <3>2
<1>9. idx \in [1 .. Len(kinds) + 1 -> Nat \ {0}]
  <2>1. idx = [i \in 1 .. Len(kinds) + 1 |-> idx[i]]
    BY <1>2, <1>4 DEF StartsStep
  <2>2. QED
    BY <1>8, <2>1
<1>10. QED
  BY <1>4, <1>6, <1>7, <1>8, <1>9 DEF idx
\* The joints follow each other: the range of one ends where that of a later one starts, or before.
LEMMA RangesFollow ==
  ASSUME NEW kinds \in Seq(Kind), NEW size \in Sizes, NEW j \in 1 .. Len(kinds)
  PROVE  \A k \in 1 .. Len(kinds) + 1 : j < k => Starts(kinds, size)[j + 1] <= Starts(kinds, size)[k]
<1> DEFINE idx == Starts(kinds, size)
           L == Len(kinds)
           S == {k \in Nat : j + k \in 1 .. L => idx[j + 1] <= idx[j + k + 1]}
<1>1. L \in Nat /\ j \in 1 .. L
  OBVIOUS
<1>2. /\ \A i \in 1 .. L + 1 : idx[i] \in Nat \ {0}
      /\ \A i \in 1 .. L : idx[i + 1] = idx[i] + size[kinds[i]] /\ size[kinds[i]] \in Nat \ {0}
  <2>1. \A i \in 1 .. L : size[kinds[i]] \in Nat \ {0}
    BY DEF Sizes
  <2>2. QED
    BY <2>1, StartsOf
<1> HIDE DEF idx, L
<1>3. 0 \in S
  <2>1. idx[j + 1] \in Nat /\ j + 0 + 1 = j + 1
    BY <1>1, <1>2
  <2>2. QED
    BY <2>1
<1>4. ASSUME NEW k \in S
      PROVE  k + 1 \in S
  <2> SUFFICES ASSUME j + (k + 1) \in 1 .. L
               PROVE  idx[j + 1] <= idx[j + (k + 1) + 1]
    OBVIOUS
  <2>1. /\ k \in Nat /\ j + k \in 1 .. L /\ j + k + 1 \in 1 .. L /\ j + 1 \in 1 .. L + 1
        /\ j + (k + 1) + 1 = (j + k + 1) + 1 /\ j + k + 1 \in 1 .. L + 1
    BY <1>1
  <2>2. idx[j + 1] <= idx[j + k + 1]
    BY <2>1
  <2>3. PICK a \in Nat, c \in Nat, d \in Nat : a = idx[j + 1] /\ c = idx[j + k + 1] /\ d = size[kinds[j + k + 1]]
    BY <1>2, <2>1
  <2>4. idx[j + (k + 1) + 1] = c + d
    BY <1>2, <2>1, <2>3
  <2>5. a <= c + d
    BY <2>2, <2>3
  <2>6. QED
    BY <2>3, <2>4, <2>5
<1>5. S = Nat
  <2>1. S \in SUBSET Nat
    OBVIOUS
  <2> HIDE DEF S
  <2>2. QED
    BY <1>3, <1>4, <2>1, Induction
<1>6. ASSUME NEW k \in 1 .. L + 1, j < k
      PROVE  idx[j + 1] <= idx[k]
  <2>1. k - j - 1 \in Nat /\ j + (k - j - 1) \in 1 .. L /\ j + (k - j - 1) + 1 = k
    BY <1>1, <1>6
  <2>2. k - j - 1 \in S
    <3> HIDE DEF S
    <3>1. QED
      BY <1>5, <2>1
  <2>3. QED
    BY <2>1, <2>2
<1>7. QED
  BY <1>6 DEF idx, L

\* A coordinate in the range of a joint is that joint's and no other's.
LEMMA OneJoint ==
  ASSUME NEW kinds \in Seq(Kind), NEW size \in Sizes, NEW idx, idx = Starts(kinds, size),
         NEW j \in 1 .. Len(kinds), NEW i \in Int, idx[j] <= i, i < idx[j + 1]
  PROVE  /\ i \in Coordinates(idx)
         /\ JointOf(idx, i) = j
         /\ \A js \in SUBSET (1 .. Len(kinds)) : i \in Owned(idx, js) <=> j \in js
<1>1. PICK L \in Nat : L = Len(kinds)
  OBVIOUS
<1>2. /\ DOMAIN idx = 1 .. L + 1 /\ \A k \in 1 .. L + 1 : idx[k] \in Nat \ {0}
  BY <1>1, StartsOf
<1>3. Len(idx) = L + 1
  <2>1. idx \in [1 .. L + 1 -> Nat \ {0}]
    BY <1>1, StartsOf
  <2>2. QED
    BY <2>1
<1>4. \A k \in 1 .. L, m \in 1 .. L + 1 : k < m => idx[k + 1] <= idx[m]
  BY <1>1, RangesFollow
<1>5. ASSUME NEW k \in 1 .. L, idx[k] <= i, i < idx[k + 1]
      PROVE  k = j
  <2>1. j \in 1 .. L /\ j + 1 \in 1 .. L + 1 /\ k + 1 \in 1 .. L + 1 /\ k \in 1 .. L + 1 /\ j \in 1 .. L + 1
    BY <1>1
  <2>2. idx[j] \in Nat /\ idx[j + 1] \in Nat /\ idx[k] \in Nat /\ idx[k + 1] \in Nat
    BY <1>2, <2>1
  <2>3. ~(k < j)
    <3>1. k < j => idx[k + 1] <= idx[j]
      BY <1>4, <2>1
    <3>2. QED
      BY <1>5, <2>2, <3>1
  <2>4. ~(j < k)
    <3>1. j < k => idx[j + 1] <= idx[k]
      BY <1>4, <2>1
    <3>2. QED
      BY <1>5, <2>2, <3>1
  <2>5. QED
    BY <2>1, <2>3, <2>4
<1>6. i >= 1 /\ i < idx[L + 1]
  <2>1. j \in 1 .. L /\ j \in 1 .. L + 1 /\ j + 1 \in 1 .. L + 1 /\ L + 1 \in 1 .. L + 1
    BY <1>1
  <2>2. idx[j] \in Nat \ {0} /\ idx[j + 1] \in Nat /\ idx[L + 1] \in Nat
    BY <1>2, <2>1
  <2>3. idx[j + 1] <= idx[L + 1]
    <3>1. j < L + 1
      BY <2>1
    <3>2. QED
      BY <1>4, <2>1, <3>1
  <2>4. QED
    BY <2>2, <2>3
<1>7. i \in Coordinates(idx)
  <2>1. idx[L + 1] \in Nat
    BY <1>2
  <2>2. QED
    BY <1>3, <1>6, <2>1 DEF Coordinates
<1>8. JointOf(idx, i) = j
  <2> DEFINE has(k) == idx[k] <= i /\ i < idx[k + 1]
  <2>1. \A k \in DOMAIN idx : has(k) => k = j
    <3> SUFFICES ASSUME NEW k \in 1 .. L + 1, has(k) PROVE k = j
      BY <1>2
    <3>1. k # L + 1
      <4>1. L + 1 \in 1 .. L + 1
        BY <1>1
      <4>2. idx[L + 1] \in Int /\ i \in Int
        BY <1>2, <1>3, <4>1
      <4>3. ~(idx[L + 1] <= i)
        BY <1>6, <4>2
      <4>4. ~has(L + 1)
        BY <4>3
      <4>5. QED
        BY <4>4
    <3>2. k \in 1 .. L
      BY <3>1
    <3>3. QED
      BY <1>5, <3>2
  <2>2. j \in DOMAIN idx /\ has(j)
    BY <1>1, <1>2
  <2>3. JointOf(idx, i) = CHOOSE k \in DOMAIN idx : has(k)
    BY DEF JointOf
  <2> HIDE DEF has
  <2>4. QED
    BY <2>1, <2>2, <2>3
<1>9. ASSUME NEW js \in SUBSET (1 .. L)
      PROVE  i \in Owned(idx, js) <=> j \in js
  <2>1. \A k \in js : k \in 1 .. L /\ idx[k] \in Int /\ idx[k + 1] \in Int
    <3>1. \A k \in js : k \in 1 .. L + 1 /\ k + 1 \in 1 .. L + 1
      OBVIOUS
    <3>2. QED
      BY <1>2, <3>1
  <2>2. \A k \in js : i \in idx[k] .. (idx[k + 1] - 1) <=> idx[k] <= i /\ i < idx[k + 1]
    BY <2>1
  <2>3. i \in Owned(idx, js) <=> \E k \in js : i \in idx[k] .. (idx[k + 1] - 1)
    BY DEF Owned
  <2>4. QED
    BY <1>5, <2>1, <2>2, <2>3
<1>10. QED
  BY <1>1, <1>7, <1>8, <1>9

-----------------------------------------------------------------------------
(* The robot.                                                              *)

\* The robots that a configuration may become.
Bodies == {Robot(c) : c \in {c \in Candidates : Accepted(c)}}

\* A robot keeps what its configuration says, and with it what was validated.
LEMMA BodyIs ==
  ASSUME NEW b \in Bodies
  PROVE  /\ b.base \in BOOLEAN /\ b.joints \in Seq(JointConfiguration) /\ b.wheels \in Seq(Nat)
         /\ b.gripper \in Seq(Nat) /\ b.home \in Seq(Int)
         /\ Accepted(b) /\ Supported(b)
         /\ b.kinds = Kinds(b) /\ b.idxQ = Starts(b.kinds, nq) /\ b.idxV = Starts(b.kinds, nv)
<1>1. PICK c \in Candidates : Accepted(c) /\ b = Robot(c)
  BY DEF Bodies
<1>2. c \in Configurations /\ Supported(c)
  BY <1>1, CandidatesAssumption
<1>3. /\ b.base = c.base /\ b.estimator = c.estimator /\ b.joints = c.joints /\ b.tool = c.tool /\ b.wheels = c.wheels
      /\ b.gripper = c.gripper /\ b.home = c.home
      /\ b.kinds = Kinds(c) /\ b.idxQ = Starts(Kinds(c), nq) /\ b.idxV = Starts(Kinds(c), nv)
  BY <1>1 DEF Robot
<1>4. Kinds(b) = Kinds(c)
  BY <1>3 DEF Kinds, Names
<1>5. /\ Names(b) = Names(c) /\ Gripper(b) = Gripper(c) /\ Wheels(b) = Wheels(c) /\ Controlled(b) = Controlled(c)
      /\ \A m : InMode(b, m) = InMode(c, m)
  BY <1>3 DEF Names, Gripper, Wheels, Controlled, InMode
<1>6. Arm(b) = Arm(c)
  BY <1>3 DEF Arm
<1>7. Accepted(b)
  BY <1>1, <1>3, <1>5 DEF Accepted, ConfigAccepted, GripperNamed, GripperInPosition, AddressesAccepted, WheelsAccepted,
                          GripperAccepted
<1>8. Supported(b)
  BY <1>2, <1>3, <1>5, <1>6 DEF Supported
<1>9. b.base \in BOOLEAN /\ b.joints \in Seq(JointConfiguration) /\ b.wheels \in Seq(Nat)
      /\ b.gripper \in Seq(Nat) /\ b.home \in Seq(Int)
  BY <1>2, <1>3 DEF Configurations
<1>10. QED
  BY <1>3, <1>4, <1>7, <1>8, <1>9
\* The joints of the model: the root, if there is one, and then those of the configuration.
LEMMA BodyJoints ==
  ASSUME NEW b \in Bodies
  PROVE  /\ b.kinds \in Seq(Kind) /\ nq \in Sizes /\ nv \in Sizes
         /\ Names(b) = 1 .. Len(b.joints)
         /\ \A n \in Names(b) : /\ b.joints[n].kind \in {"revolute", "continuous"}
                                /\ b.joints[n].mode \in {Absent, "position", "velocity"}
                                /\ n \in Nat /\ JointIndex(b, n) \in 1 .. Len(b.kinds)
                                /\ b.kinds[JointIndex(b, n)] = b.joints[n].kind
                                /\ b.base => JointIndex(b, n) >= 2
         /\ \A m, n \in Names(b) : JointIndex(b, m) = JointIndex(b, n) => m = n
         /\ b.base => 1 \in 1 .. Len(b.kinds) /\ b.kinds[1] = "planar"
<1> DEFINE J == Len(b.joints)
           own == [n \in Names(b) |-> b.joints[n].kind]
<1>1. b.joints \in Seq(JointConfiguration) /\ b.kinds = Kinds(b) /\ J \in Nat /\ Names(b) = 1 .. J
  BY BodyIs DEF Names
<1>2. \A n \in 1 .. J : /\ b.joints[n].kind \in {"revolute", "continuous"}
                         /\ b.joints[n].mode \in {Absent, "position", "velocity"}
  <2>1. \A n \in 1 .. J : b.joints[n] \in JointConfiguration
    BY <1>1, ElementOfSeq
  <2>2. \A j \in JointConfiguration : j.kind \in {"revolute", "continuous"} /\ j.mode \in {Absent, "position", "velocity"}
    BY DEF JointConfiguration
  <2>3. QED
    BY <2>1, <2>2
<1>3. nq \in Sizes /\ nv \in Sizes
  BY DEF nq, nv, Sizes, Kind
<1> HIDE DEF J
<1>4. own = [n \in 1 .. J |-> b.joints[n].kind]
  BY <1>1
<1>5. own \in Seq(Kind) /\ Len(own) = J /\ \A n \in 1 .. J : own[n] = b.joints[n].kind
  BY <1>1, <1>2, <1>4 DEF Kind
<1> HIDE DEF own
<1>6. CASE b.base
  <2>1. b.kinds = <<"planar">> \o own
    BY <1>1, <1>6 DEF Kinds, own
  <2>2. <<"planar">> \in Seq(Kind) /\ Len(<<"planar">>) = 1 /\ <<"planar">>[1] = "planar"
    BY DEF Kind
  <2>3. /\ b.kinds \in Seq(Kind) /\ Len(b.kinds) = 1 + J
        /\ \A k \in 1 .. 1 + J : b.kinds[k] = IF k <= 1 THEN "planar" ELSE own[k - 1]
    BY <1>5, <2>1, <2>2, ConcatProperties
  <2>4. \A n \in 1 .. J : JointIndex(b, n) = n + 1
    BY <1>6 DEF JointIndex
  <2>5. ASSUME NEW n \in 1 .. J
        PROVE  b.kinds[n + 1] = b.joints[n].kind
    <3>1. n + 1 \in 1 .. 1 + J /\ ~(n + 1 <= 1) /\ (n + 1) - 1 = n
      BY <1>1
    <3>2. QED
      BY <1>5, <2>3, <3>1
  <2>6. 1 \in 1 .. 1 + J
    BY <1>1
  <2>7. ASSUME NEW n \in 1 .. J
        PROVE  /\ n \in Nat /\ JointIndex(b, n) \in 1 .. Len(b.kinds)
               /\ b.kinds[JointIndex(b, n)] = b.joints[n].kind /\ JointIndex(b, n) >= 2
    <3>1. n \in Nat /\ n + 1 \in 1 .. 1 + J /\ n + 1 >= 2
      BY <1>1
    <3>2. QED
      BY <2>3, <2>4, <2>5, <3>1
  <2>8. \A m, n \in 1 .. J : JointIndex(b, m) = JointIndex(b, n) => m = n
    BY <1>1, <2>4
  <2>9. 1 \in 1 .. Len(b.kinds) /\ b.kinds[1] = "planar"
    BY <2>3, <2>6
  <2>10. QED
    BY <1>1, <1>2, <1>3, <2>3, <2>7, <2>8, <2>9 DEF J
<1>7. CASE ~b.base
  <2>1. b.kinds = <<>> \o own
    BY <1>1, <1>7 DEF Kinds, own
  <2>2. b.kinds = own
    BY <1>5, <2>1
  <2>3. \A n \in 1 .. J : JointIndex(b, n) = n
    BY <1>7 DEF JointIndex
  <2>4. ASSUME NEW n \in 1 .. J
        PROVE  /\ n \in Nat /\ JointIndex(b, n) \in 1 .. Len(b.kinds)
               /\ b.kinds[JointIndex(b, n)] = b.joints[n].kind
    BY <1>1, <1>5, <2>2, <2>3
  <2>5. \A m, n \in 1 .. J : JointIndex(b, m) = JointIndex(b, n) => m = n
    BY <2>3
  <2>6. QED
    BY <1>1, <1>2, <1>3, <1>5, <1>7, <2>2, <2>4, <2>5 DEF J
<1>8. QED
  BY <1>6, <1>7

\* The coordinates of a joint's position.
PositionsOf(b, n) ==
  IF b.joints[n].kind = "continuous" THEN {PositionIndex(b, n), PositionIndex(b, n) + 1} ELSE {PositionIndex(b, n)}

\* Every coordinate of a joint is in the vector and that joint's alone; the root's come first.
LEMMA PositionCoordinates ==
  ASSUME NEW b \in Bodies, NEW n \in Names(b), NEW i \in PositionsOf(b, n)
  PROVE  /\ i \in Coordinates(b.idxQ) /\ i \in Nat
         /\ JointOf(b.idxQ, i) = JointIndex(b, n)
         /\ \A js \in SUBSET (1 .. Len(b.kinds)) : i \in Owned(b.idxQ, js) <=> JointIndex(b, n) \in js
         /\ \A m \in Names(b) : i \in Owned(b.idxQ, {JointIndex(b, m)}) <=> m = n
         /\ \A m \in Names(b) : i = PositionIndex(b, m) => m = n
         /\ b.base => i > 4
<1> DEFINE j == JointIndex(b, n)
<1>1. /\ b.kinds \in Seq(Kind) /\ nq \in Sizes /\ j \in 1 .. Len(b.kinds) /\ b.kinds[j] = b.joints[n].kind
      /\ b.joints[n].kind \in {"revolute", "continuous"} /\ (b.base => j >= 2)
  BY BodyJoints
<1>2. b.idxQ = Starts(b.kinds, nq)
  BY BodyIs
<1>3. PICK L \in Nat : L = Len(b.kinds)
  BY <1>1
<1>4. /\ \A k \in 1 .. L + 1 : b.idxQ[k] \in Nat \ {0}
      /\ b.idxQ[1] = 1 /\ \A k \in 1 .. L : b.idxQ[k + 1] = b.idxQ[k] + nq[b.kinds[k]]
  BY <1>1, <1>2, <1>3, StartsOf
<1> HIDE DEF j
<1>5. j \in 1 .. L /\ j \in 1 .. L + 1 /\ j + 1 \in 1 .. L + 1
  BY <1>1, <1>3
<1>6. b.idxQ[j] \in Nat \ {0} /\ b.idxQ[j + 1] = b.idxQ[j] + nq[b.joints[n].kind] /\ PositionIndex(b, n) = b.idxQ[j]
  BY <1>1, <1>4, <1>5 DEF PositionIndex, j
<1>7. i \in Nat /\ b.idxQ[j] <= i /\ i < b.idxQ[j + 1]
  BY <1>1, <1>6 DEF PositionsOf, nq
<1>8. /\ i \in Coordinates(b.idxQ) /\ JointOf(b.idxQ, i) = j
      /\ \A js \in SUBSET (1 .. Len(b.kinds)) : i \in Owned(b.idxQ, js) <=> j \in js
  <2>1. i \in Int /\ j \in 1 .. Len(b.kinds)
    BY <1>1, <1>7
  <2> DEFINE idx == b.idxQ
  <2>2. idx = Starts(b.kinds, nq) /\ idx[j] <= i /\ i < idx[j + 1]
    BY <1>2, <1>7
  <2> HIDE DEF idx
  <2>3. /\ i \in Coordinates(idx) /\ JointOf(idx, i) = j
        /\ \A js \in SUBSET (1 .. Len(b.kinds)) : i \in Owned(idx, js) <=> j \in js
    BY <1>1, <2>1, <2>2, OneJoint
  <2>4. QED
    BY <2>3 DEF idx
<1>9. ASSUME NEW m \in Names(b)
      PROVE  /\ i \in Owned(b.idxQ, {JointIndex(b, m)}) <=> m = n
             /\ i = PositionIndex(b, m) => m = n
  <2>1. JointIndex(b, m) \in 1 .. Len(b.kinds) /\ (JointIndex(b, m) = j => m = n) /\ (m = n => JointIndex(b, m) = j)
        /\ b.kinds[JointIndex(b, m)] = b.joints[m].kind /\ b.joints[m].kind \in {"revolute", "continuous"}
    BY BodyJoints DEF j
  <2>2. i \in Owned(b.idxQ, {JointIndex(b, m)}) <=> j \in {JointIndex(b, m)}
    BY <1>8, <2>1
  <2>3. ASSUME i = PositionIndex(b, m)
        PROVE  i \in Owned(b.idxQ, {JointIndex(b, m)})
    <3> DEFINE k == JointIndex(b, m)
    <3>1. k \in 1 .. L /\ k \in 1 .. L + 1 /\ b.kinds[k] \in {"revolute", "continuous"}
      BY <1>3, <2>1
    <3> HIDE DEF k
    <3>2. b.idxQ[k] \in Nat /\ b.idxQ[k + 1] = b.idxQ[k] + nq[b.kinds[k]]
      BY <1>4, <3>1
    <3>3. nq[b.kinds[k]] \in {1, 2}
      BY <3>1 DEF nq
    <3>4. i = b.idxQ[k]
      BY <2>3 DEF PositionIndex, k
    <3>5. i \in b.idxQ[k] .. (b.idxQ[k + 1] - 1)
      BY <3>2, <3>3, <3>4
    <3>6. QED
      BY <3>5 DEF Owned, k
  <2>4. QED
    BY <2>1, <2>2, <2>3
<1>10. b.base => i > 4
  <2> SUFFICES ASSUME b.base PROVE i > 4
    OBVIOUS
  <2>1. 1 \in 1 .. Len(b.kinds) /\ b.kinds[1] = "planar" /\ j >= 2
    BY <1>1, BodyJoints
  <2>2. b.idxQ[1 + 1] = 5
    BY <1>3, <1>4, <2>1 DEF nq
  <2>3. b.idxQ[2] <= b.idxQ[j]
    <3>1. 1 < j /\ j \in 1 .. Len(b.kinds) + 1
      BY <1>1, <1>3, <1>5, <2>1
    <3>2. Starts(b.kinds, nq)[1 + 1] <= Starts(b.kinds, nq)[j]
      BY <1>1, <2>1, <3>1, RangesFollow
    <3>3. QED
      BY <1>2, <3>2
  <2>4. b.idxQ[2] = 5
    BY <2>2
  <2>5. QED
    BY <1>6, <1>7, <2>3, <2>4
<1>11. QED
  BY <1>7, <1>8, <1>9, <1>10 DEF j

\* The same of velocities, of which every joint has one.
LEMMA VelocityCoordinates ==
  ASSUME NEW b \in Bodies, NEW n \in Names(b)
  PROVE  /\ VelocityIndex(b, n) \in Coordinates(b.idxV) /\ VelocityIndex(b, n) \in Nat
         /\ JointOf(b.idxV, VelocityIndex(b, n)) = JointIndex(b, n)
         /\ \A js \in SUBSET (1 .. Len(b.kinds)) : VelocityIndex(b, n) \in Owned(b.idxV, js) <=> JointIndex(b, n) \in js
         /\ \A m \in Names(b) : VelocityIndex(b, n) = VelocityIndex(b, m) => m = n
         /\ b.base => VelocityIndex(b, n) > 3
<1> DEFINE j == JointIndex(b, n)
           i == VelocityIndex(b, n)
<1>1. /\ b.kinds \in Seq(Kind) /\ nv \in Sizes /\ j \in 1 .. Len(b.kinds) /\ b.kinds[j] = b.joints[n].kind
      /\ b.joints[n].kind \in {"revolute", "continuous"} /\ (b.base => j >= 2)
  BY BodyJoints
<1>2. b.idxV = Starts(b.kinds, nv)
  BY BodyIs
<1>3. PICK L \in Nat : L = Len(b.kinds)
  BY <1>1
<1>4. /\ \A k \in 1 .. L + 1 : b.idxV[k] \in Nat \ {0}
      /\ b.idxV[1] = 1 /\ \A k \in 1 .. L : b.idxV[k + 1] = b.idxV[k] + nv[b.kinds[k]]
  BY <1>1, <1>2, <1>3, StartsOf
<1>5. i = b.idxV[j]
  BY DEF VelocityIndex
<1> HIDE DEF j, i
<1>6. j \in 1 .. L /\ j \in 1 .. L + 1 /\ j + 1 \in 1 .. L + 1
  BY <1>1, <1>3
<1>7. b.idxV[j] \in Nat \ {0} /\ b.idxV[j + 1] = b.idxV[j] + 1
  BY <1>1, <1>4, <1>6 DEF nv
<1>8. i \in Nat /\ b.idxV[j] <= i /\ i < b.idxV[j + 1]
  BY <1>5, <1>7
<1> DEFINE idx == b.idxV
<1>9. /\ i \in Coordinates(idx) /\ JointOf(idx, i) = j
      /\ \A js \in SUBSET (1 .. Len(b.kinds)) : i \in Owned(idx, js) <=> j \in js
  <2>1. i \in Int /\ j \in 1 .. Len(b.kinds)
    BY <1>1, <1>8
  <2>2. idx = Starts(b.kinds, nv) /\ idx[j] <= i /\ i < idx[j + 1]
    BY <1>2, <1>8
  <2> HIDE DEF idx
  <2>3. QED
    BY <1>1, <2>1, <2>2, OneJoint
<1>10. ASSUME NEW m \in Names(b), i = VelocityIndex(b, m)
       PROVE  m = n
  <2> DEFINE k == JointIndex(b, m)
  <2>1. k \in 1 .. Len(b.kinds) /\ b.kinds[k] \in {"revolute", "continuous"}
    BY BodyJoints
  <2>2. i = b.idxV[k]
    BY <1>10 DEF VelocityIndex
  <2> HIDE DEF k
  <2>3. idx = Starts(b.kinds, nv) /\ idx[k] <= i /\ i < idx[k + 1] /\ i \in Int
    <3>1. idx[k + 1] = idx[k] + nv[b.kinds[k]] /\ nv[b.kinds[k]] = 1
      BY <1>3, <1>4, <2>1 DEF nv
    <3>2. QED
      BY <1>2, <1>8, <2>2, <3>1
  <2> HIDE DEF idx
  <2>4. JointOf(idx, i) = k
    BY <1>1, <2>1, <2>3, OneJoint
  <2>5. j = k
    BY <1>9, <2>4
  <2>6. QED
    BY <2>5, BodyJoints DEF j, k
<1>11. b.base => i > 3
  <2> SUFFICES ASSUME b.base PROVE i > 3
    OBVIOUS
  <2>1. 1 \in 1 .. Len(b.kinds) /\ b.kinds[1] = "planar" /\ j >= 2
    BY <1>1, BodyJoints
  <2>2. b.idxV[1 + 1] = 4
    BY <1>3, <1>4, <2>1 DEF nv
  <2>3. b.idxV[2] <= b.idxV[j]
    <3>1. 1 < j /\ j \in 1 .. Len(b.kinds) + 1
      BY <1>1, <1>3, <1>6, <2>1
    <3>2. Starts(b.kinds, nv)[1 + 1] <= Starts(b.kinds, nv)[j]
      BY <1>1, <2>1, <3>1, RangesFollow
    <3>3. QED
      BY <1>2, <3>2
  <2>4. b.idxV[2] = 4
    BY <2>2
  <2>5. QED
    BY <1>5, <1>7, <2>3, <2>4
<1>12. QED
  BY <1>8, <1>9, <1>10, <1>11 DEF i, j

\* The root's coordinates are its own.
LEMMA RootCoordinates ==
  ASSUME NEW b \in Bodies, b.base
  PROVE  /\ \A i \in 1 .. 4 : /\ i \in Coordinates(b.idxQ)
                              /\ \A js \in SUBSET (1 .. Len(b.kinds)) : i \in Owned(b.idxQ, js) <=> 1 \in js
         /\ \A i \in 1 .. 3 : /\ i \in Coordinates(b.idxV) /\ JointOf(b.idxV, i) = 1
                              /\ \A js \in SUBSET (1 .. Len(b.kinds)) : i \in Owned(b.idxV, js) <=> 1 \in js
<1>1. /\ b.kinds \in Seq(Kind) /\ nq \in Sizes /\ nv \in Sizes /\ 1 \in 1 .. Len(b.kinds) /\ b.kinds[1] = "planar"
  BY BodyJoints
<1>2. b.idxQ = Starts(b.kinds, nq) /\ b.idxV = Starts(b.kinds, nv)
  BY BodyIs
<1>3. b.idxQ[1] = 1 /\ b.idxQ[1 + 1] = b.idxQ[1] + nq[b.kinds[1]]
  BY <1>1, <1>2, StartsOf
<1>4. b.idxV[1] = 1 /\ b.idxV[1 + 1] = b.idxV[1] + nv[b.kinds[1]]
  BY <1>1, <1>2, StartsOf
<1>5. b.idxQ[1] = 1 /\ b.idxQ[1 + 1] = 5 /\ b.idxV[1] = 1 /\ b.idxV[1 + 1] = 4
  BY <1>1, <1>3, <1>4 DEF nq, nv
<1> DEFINE iq == b.idxQ
           iv == b.idxV
<1>6. iq = Starts(b.kinds, nq) /\ iv = Starts(b.kinds, nv) /\ iq[1] = 1 /\ iq[1 + 1] = 5 /\ iv[1] = 1 /\ iv[1 + 1] = 4
  BY <1>2, <1>5
<1> HIDE DEF iq, iv
<1>7. ASSUME NEW i \in 1 .. 4
      PROVE  /\ i \in Coordinates(iq)
             /\ \A js \in SUBSET (1 .. Len(b.kinds)) : i \in Owned(iq, js) <=> 1 \in js
  <2>1. i \in Int /\ iq[1] <= i /\ i < iq[1 + 1]
    BY <1>6
  <2>2. QED
    BY <1>1, <1>6, <2>1, OneJoint
<1>8. ASSUME NEW i \in 1 .. 3
      PROVE  /\ i \in Coordinates(iv) /\ JointOf(iv, i) = 1
             /\ \A js \in SUBSET (1 .. Len(b.kinds)) : i \in Owned(iv, js) <=> 1 \in js
  <2>1. i \in Int /\ iv[1] <= i /\ i < iv[1 + 1]
    BY <1>6
  <2>2. QED
    BY <1>1, <1>6, <2>1, OneJoint
<1>9. QED
  BY <1>7, <1>8 DEF iq, iv
LEMMA CoordinatesAre ==
  ASSUME NEW b \in Bodies
  PROVE  /\ \E N \in Nat : Coordinates(b.idxQ) = 1 .. N
         /\ \E N \in Nat : Coordinates(b.idxV) = 1 .. N
<1>1. ASSUME NEW kinds \in Seq(Kind), NEW size \in Sizes
      PROVE  \E N \in Nat : Coordinates(Starts(kinds, size)) = 1 .. N
  <2> DEFINE idx == Starts(kinds, size)
  <2>1. PICK L \in Nat : L = Len(kinds)
    OBVIOUS
  <2>2. idx \in [1 .. L + 1 -> Nat \ {0}]
    BY <2>1, StartsOf
  <2> HIDE DEF idx
  <2>3. Len(idx) = L + 1
    BY <2>2
  <2>4. idx[L + 1] \in Nat \ {0}
    BY <2>2
  <2>5. idx[L + 1] - 1 \in Nat
    BY <2>4
  <2>6. Coordinates(idx) = 1 .. (idx[L + 1] - 1)
    BY <2>3 DEF Coordinates
  <2>7. QED
    BY <2>5, <2>6 DEF idx
<1>2. QED
  BY <1>1, BodyIs, BodyJoints

-----------------------------------------------------------------------------
(* What a configuration vector means.                                      *)

Angles(b) == [Names(b) -> Int]
Rates(b) == [Coordinates(b.idxV) -> Int]

JointsMean(b, q, angle) ==
    /\ q \in [Coordinates(b.idxQ) -> Int]
    /\ \A n \in Names(b) :
         IF b.joints[n].kind = "continuous"
         THEN q[PositionIndex(b, n)] = Cosine(angle[n]) /\ q[PositionIndex(b, n) + 1] = Sine(angle[n])
         ELSE q[PositionIndex(b, n)] = angle[n]

RootMeans(b, q, p) ==
    b.base => q[1] = p[1] /\ q[2] = p[2] /\ q[3] = Cosine(p[3]) /\ q[4] = Sine(p[3])

\* The same angle, and of a bounded joint the very same.
Alike(b, n, x, y) == SameAngle(x, y) /\ (b.joints[n].kind # "continuous" => x = y)

LEMMA SameSides ==
  ASSUME NEW x \in Int, NEW y \in Int, SameAngle(x, y)
  PROVE  Cosine(x) = Cosine(y) /\ Sine(x) = Sine(y)
BY SameLeft DEF Cosine, Sine

LEMMA MeansAlike ==
  ASSUME NEW b \in Bodies, NEW q, NEW angle \in Angles(b), NEW other \in Angles(b), JointsMean(b, q, angle),
         \A n \in Names(b) : Alike(b, n, angle[n], other[n])
  PROVE  JointsMean(b, q, other)
<1> SUFFICES ASSUME NEW n \in Names(b)
             PROVE  IF b.joints[n].kind = "continuous"
                    THEN q[PositionIndex(b, n)] = Cosine(other[n]) /\ q[PositionIndex(b, n) + 1] = Sine(other[n])
                    ELSE q[PositionIndex(b, n)] = other[n]
  BY DEF JointsMean
<1>1. angle[n] \in Int /\ other[n] \in Int /\ Alike(b, n, angle[n], other[n])
  BY DEF Angles
<1>2. SameAngle(angle[n], other[n]) /\ (b.joints[n].kind # "continuous" => angle[n] = other[n])
  BY <1>1 DEF Alike
<1>3. Cosine(angle[n]) = Cosine(other[n]) /\ Sine(angle[n]) = Sine(other[n])
  BY <1>1, <1>2, SameSides
<1>4. QED
  BY <1>2, <1>3 DEF JointsMean

\* An angle read back is the one that was written.
LEMMA FromMeans ==
  ASSUME NEW b \in Bodies, NEW q, NEW angle \in Angles(b), JointsMean(b, q, angle), NEW n \in Names(b)
  PROVE  FromQ(b, q, n) \in Int /\ Alike(b, n, FromQ(b, q, n), angle[n])
<1>1. angle[n] \in Int
  BY DEF Angles
<1>2. CASE b.joints[n].kind = "continuous"
  <2>1. FromQ(b, q, n) = ArcTan2(Sine(angle[n]), Cosine(angle[n]))
    BY <1>2 DEF FromQ, JointsMean
  <2>2. QED
    BY <1>1, <1>2, <2>1, ArcTan2Of DEF Alike
<1>3. CASE b.joints[n].kind # "continuous"
  <2>1. FromQ(b, q, n) = angle[n]
    BY <1>3 DEF FromQ, JointsMean
  <2>2. QED
    BY <1>1, <2>1, SameAsItself DEF Alike
<1>4. QED
  BY <1>2, <1>3

LEMMA NeutralIs ==
  ASSUME NEW b \in Bodies
  PROVE  /\ \A i \in Coordinates(b.idxQ) : Neutral(b)[i] \in Int
         /\ \A n \in Names(b) : /\ b.joints[n].kind = "continuous" => /\ Neutral(b)[PositionIndex(b, n)] = 1
                                                                     /\ Neutral(b)[PositionIndex(b, n) + 1] = 0
                                /\ b.joints[n].kind # "continuous" => Neutral(b)[PositionIndex(b, n)] = 0
<1>1. ASSUME NEW i \in Coordinates(b.idxQ)
      PROVE  Neutral(b)[i] \in Int
  BY DEF Neutral
<1>2. ASSUME NEW n \in Names(b), NEW i \in PositionsOf(b, n)
      PROVE  Neutral(b)[i] = IF b.joints[n].kind = "continuous" /\ i = PositionIndex(b, n) THEN 1 ELSE 0
  <2>1. i \in Coordinates(b.idxQ) /\ JointOf(b.idxQ, i) = JointIndex(b, n)
    BY PositionCoordinates
  <2>2. b.kinds[JointIndex(b, n)] = b.joints[n].kind /\ b.joints[n].kind \in {"revolute", "continuous"}
    BY BodyJoints
  <2>3. QED
    BY <2>1, <2>2 DEF Neutral, PositionIndex
<1>3. ASSUME NEW n \in Names(b)
      PROVE  /\ b.joints[n].kind = "continuous" => /\ Neutral(b)[PositionIndex(b, n)] = 1
                                                   /\ Neutral(b)[PositionIndex(b, n) + 1] = 0
             /\ b.joints[n].kind # "continuous" => Neutral(b)[PositionIndex(b, n)] = 0
  <2>1. PositionIndex(b, n) \in PositionsOf(b, n) /\ (b.joints[n].kind = "continuous" => PositionIndex(b, n) + 1 \in PositionsOf(b, n))
    BY DEF PositionsOf
  <2>2. PositionIndex(b, n) \in Nat
    BY <2>1, PositionCoordinates
  <2>3. PositionIndex(b, n) + 1 # PositionIndex(b, n)
    BY <2>2
  <2>4. QED
    BY <1>2, <2>1, <2>3
<1>4. QED
  BY <1>1, <1>3

LEMMA ToQMeans ==
  ASSUME NEW b \in Bodies, NEW ns \in SUBSET Names(b), NEW angle \in [ns -> Int]
  PROVE  JointsMean(b, ToQ(b, angle), [n \in Names(b) |-> IF n \in ns THEN angle[n] ELSE 0])
<1> DEFINE q == ToQ(b, angle)
           whose(i) == {m \in DOMAIN angle : i \in Owned(b.idxQ, {JointIndex(b, m)})}
           value(i) == IF whose(i) = {} THEN Neutral(b)[i]
                       ELSE LET m == CHOOSE m \in whose(i) : TRUE IN
                            IF b.joints[m].kind = "revolute" THEN angle[m]
                            ELSE IF i = PositionIndex(b, m) THEN Cosine(angle[m]) ELSE Sine(angle[m])
<1>1. q = [i \in Coordinates(b.idxQ) |-> value(i)]
  BY DEF ToQ
<1>2. ASSUME NEW i \in Coordinates(b.idxQ)
      PROVE  value(i) \in Int
  <2>1. CASE whose(i) = {}
    BY <2>1, NeutralIs
  <2>2. CASE whose(i) # {}
    <3>1. PICK m \in ns : m = CHOOSE x \in whose(i) : TRUE
      BY <2>2
    <3>2. angle[m] \in Int
      OBVIOUS
    <3>3. Cosine(angle[m]) \in Int /\ Sine(angle[m]) \in Int
      BY <3>2, SineAndCosine
    <3> HIDE DEF whose
    <3>4. QED
      BY <2>2, <3>1, <3>2, <3>3
  <2>3. QED
    BY <2>1, <2>2
<1>3. q \in [Coordinates(b.idxQ) -> Int]
  <2> HIDE DEF value, q
  <2>1. QED
    BY <1>1, <1>2
<1>4. ASSUME NEW n \in Names(b)
      PROVE  IF b.joints[n].kind = "continuous"
             THEN /\ q[PositionIndex(b, n)] = Cosine(IF n \in ns THEN angle[n] ELSE 0)
                  /\ q[PositionIndex(b, n) + 1] = Sine(IF n \in ns THEN angle[n] ELSE 0)
             ELSE q[PositionIndex(b, n)] = IF n \in ns THEN angle[n] ELSE 0
  <2>1. ASSUME NEW i \in PositionsOf(b, n)
        PROVE  i \in Coordinates(b.idxQ) /\ whose(i) = IF n \in ns THEN {n} ELSE {}
    <3>1. i \in Coordinates(b.idxQ) /\ \A m \in Names(b) : i \in Owned(b.idxQ, {JointIndex(b, m)}) <=> m = n
      BY PositionCoordinates
    <3>2. DOMAIN angle = ns
      OBVIOUS
    <3>3. QED
      BY <3>1, <3>2
  <2>2. /\ PositionIndex(b, n) \in PositionsOf(b, n)
        /\ b.joints[n].kind = "continuous" => PositionIndex(b, n) + 1 \in PositionsOf(b, n)
    BY DEF PositionsOf
  <2>3. PositionIndex(b, n) + 1 # PositionIndex(b, n)
    <3>1. PositionIndex(b, n) \in Nat
      BY <2>2, PositionCoordinates
    <3>2. QED
      BY <3>1
  <2>4. b.joints[n].kind \in {"revolute", "continuous"}
    BY BodyJoints
  <2> HIDE DEF q, whose
  <2>5. CASE n \in ns
    <3>1. ASSUME NEW i \in PositionsOf(b, n)
          PROVE  q[i] = IF b.joints[n].kind = "revolute" THEN angle[n]
                        ELSE IF i = PositionIndex(b, n) THEN Cosine(angle[n]) ELSE Sine(angle[n])
      <4>1. i \in Coordinates(b.idxQ) /\ whose(i) = {n}
        BY <2>1, <2>5
      <4>2. (CHOOSE m \in whose(i) : TRUE) = n /\ whose(i) # {}
        BY <4>1
      <4>3. QED
        BY <1>1, <4>1, <4>2
    <3>2. QED
      BY <2>2, <2>3, <2>4, <2>5, <3>1
  <2>6. CASE n \notin ns
    <3>1. ASSUME NEW i \in PositionsOf(b, n)
          PROVE  q[i] = Neutral(b)[i]
      BY <1>1, <2>1, <2>6
    <3>2. Cosine(0) = 1 /\ Sine(0) = 0
      <4>1. 0 \in Int /\ 0 % 4 = 0
        OBVIOUS
      <4>2. QED
        BY <4>1, SineAndCosine
    <3>3. QED
      BY <2>2, <2>4, <2>6, <3>1, <3>2, NeutralIs
  <2>7. QED
    BY <2>5, <2>6
<1> HIDE DEF q
<1>5. QED
  BY <1>3, <1>4 DEF JointsMean, q

LEMMA WithRootQMeans ==
  ASSUME NEW b \in Bodies, NEW q, NEW angle \in Angles(b), JointsMean(b, q, angle), NEW p \in Places
  PROVE  JointsMean(b, WithRootQ(b, q, p), angle) /\ RootMeans(b, WithRootQ(b, q, p), p)
<1>1. CASE ~b.base
  BY <1>1 DEF WithRootQ, RootMeans
<1>2. CASE b.base
  <2> DEFINE r == WithRootQ(b, q, p)
  <2>1. r = [i \in Coordinates(b.idxQ) |-> IF i <= 4 THEN RootToQ(p)[i] ELSE q[i]]
    BY <1>2 DEF WithRootQ, JointsMean
  <2>2. p[1] \in Int /\ p[2] \in Int /\ p[3] \in Int
    BY DEF Places
  <2>3. RootToQ(p) \in [1 .. 4 -> Int]
    <3>1. Cosine(p[3]) \in Int /\ Sine(p[3]) \in Int
      BY <2>2, SineAndCosine
    <3>2. QED
      BY <2>2, <3>1 DEF RootToQ
  <2>4. \A i \in Coordinates(b.idxQ) : i \in Nat /\ i >= 1
    BY CoordinatesAre
  <2> HIDE DEF r
  <2>5. r \in [Coordinates(b.idxQ) -> Int]
    <3>1. ASSUME NEW i \in Coordinates(b.idxQ)
          PROVE  (IF i <= 4 THEN RootToQ(p)[i] ELSE q[i]) \in Int
      BY <2>3, <2>4 DEF JointsMean
    <3>2. QED
      BY <2>1, <3>1
  <2>6. ASSUME NEW n \in Names(b), NEW i \in PositionsOf(b, n)
        PROVE  r[i] = q[i]
    <3>1. i \in Coordinates(b.idxQ) /\ i \in Nat /\ i > 4
      BY <1>2, PositionCoordinates
    <3>2. QED
      BY <2>1, <3>1
  <2>7. JointsMean(b, r, angle)
    <3>1. \A n \in Names(b) : /\ PositionIndex(b, n) \in PositionsOf(b, n)
                              /\ b.joints[n].kind = "continuous" => PositionIndex(b, n) + 1 \in PositionsOf(b, n)
      BY DEF PositionsOf
    <3>2. QED
      BY <2>5, <2>6, <3>1 DEF JointsMean
  <2>8. \A i \in 1 .. 4 : r[i] = RootToQ(p)[i]
    BY <1>2, <2>1, RootCoordinates
  <2>9. RootMeans(b, r, p)
    BY <2>8 DEF RootMeans, RootToQ
  <2>10. QED
    BY <2>7, <2>9 DEF r
<1>3. QED
  BY <1>1, <1>2
\* The last of these is a step of the motion of all joints, and of the root with them.
LEMMA IntegrateMeans ==
  ASSUME NEW b \in Bodies, NEW q, NEW angle \in Angles(b), JointsMean(b, q, angle),
         NEW p \in Places, RootMeans(b, q, p), NEW v \in Rates(b),
         NEW next, next = [n \in Names(b) |-> angle[n] + v[VelocityIndex(b, n)]]
  PROVE  /\ next \in Angles(b)
         /\ JointsMean(b, Integrate(b, q, v), next)
         /\ b.base => RootMeans(b, Integrate(b, q, v), Moved(p, <<v[1], v[2], v[3]>>))
<1> DEFINE read == [n \in Names(b) |-> FromQ(b, q, n) + v[VelocityIndex(b, n)]]
           all == [n \in Names(b) |-> IF n \in Names(b) THEN read[n] ELSE 0]
           to == IF b.base THEN Moved(RootOfQ(q), SubSeq(v, 1, 3)) ELSE <<0, 0, 0>>
<1>1. ASSUME NEW n \in Names(b)
      PROVE  /\ v[VelocityIndex(b, n)] \in Int /\ angle[n] \in Int /\ FromQ(b, q, n) \in Int
             /\ Alike(b, n, FromQ(b, q, n), angle[n])
  <2>1. VelocityIndex(b, n) \in Coordinates(b.idxV)
    BY VelocityCoordinates
  <2>2. QED
    BY <2>1, FromMeans DEF Rates, Angles
<1>2. ASSUME NEW n \in Names(b)
      PROVE  /\ FromQ(b, q, n) + v[VelocityIndex(b, n)] \in Int /\ angle[n] + v[VelocityIndex(b, n)] \in Int
             /\ Alike(b, n, FromQ(b, q, n) + v[VelocityIndex(b, n)], angle[n] + v[VelocityIndex(b, n)])
  <2>1. PICK x \in Int, y \in Int, z \in Int : x = FromQ(b, q, n) /\ y = angle[n] /\ z = v[VelocityIndex(b, n)]
    BY <1>1
  <2>2. SameAngle(x, y) /\ (b.joints[n].kind # "continuous" => x = y)
    BY <1>1, <2>1 DEF Alike
  <2>3. SameAngle(x + z, y + z)
    BY <2>2, SameTurned
  <2>4. Alike(b, n, x + z, y + z)
    BY <2>2, <2>3 DEF Alike
  <2>5. QED
    BY <2>1, <2>4
<1>3. next \in Angles(b) /\ read \in Angles(b) /\ \A n \in Names(b) : Alike(b, n, read[n], next[n])
  BY <1>2 DEF Angles
<1>4. JointsMean(b, ToQ(b, read), all)
  <2>1. read \in [Names(b) -> Int] /\ Names(b) \in SUBSET Names(b)
    BY <1>3 DEF Angles
  <2> HIDE DEF read
  <2>2. QED
    BY <2>1, ToQMeans
<1>5. all = read
  OBVIOUS
<1> HIDE DEF read, all
<1>6. JointsMean(b, ToQ(b, read), next)
  BY <1>3, <1>4, <1>5, MeansAlike
<1>7. ASSUME b.base
      PROVE  /\ to \in Places
             /\ SamePlace(to, Moved(p, <<v[1], v[2], v[3]>>)) /\ Moved(p, <<v[1], v[2], v[3]>>) \in Places
  <2>1. v[1] \in Int /\ v[2] \in Int /\ v[3] \in Int
    BY <1>7, RootCoordinates DEF Rates
  <2>2. SubSeq(v, 1, 3) = <<v[1], v[2], v[3]>>
    <3>1. PICK N \in Nat : Coordinates(b.idxV) = 1 .. N
      BY CoordinatesAre
    <3>2. v \in Seq(Int) /\ Len(v) = N
      BY <3>1 DEF Rates
    <3>3. 3 \in 1 .. N
      BY <1>7, <3>1, RootCoordinates
    <3>4. /\ SubSeq(v, 1, 3) \in Seq(Int) /\ Len(SubSeq(v, 1, 3)) = 3
          /\ \A i \in 1 .. 3 : SubSeq(v, 1, 3)[i] = v[1 + i - 1]
      BY <3>2, <3>3, SubSeqProperties
    <3>5. SubSeq(v, 1, 3)[1] = v[1] /\ SubSeq(v, 1, 3)[2] = v[2] /\ SubSeq(v, 1, 3)[3] = v[3]
      BY <3>4
    <3> DEFINE s == SubSeq(v, 1, 3)
               t == <<v[1], v[2], v[3]>>
    <3>6. t \in Seq(Int) /\ Len(t) = 3 /\ t[1] = v[1] /\ t[2] = v[2] /\ t[3] = v[3]
      BY <2>1
    <3>7. s \in Seq(Int) /\ Len(s) = Len(t)
      BY <3>4, <3>6
    <3>8. \A i \in 1 .. 3 : s[i] = t[i]
      <4> HIDE DEF s, t
      <4>1. 1 .. 3 = {1, 2, 3}
        OBVIOUS
      <4>2. s[1] = t[1] /\ s[2] = t[2] /\ s[3] = t[3]
        BY <3>5, <3>6 DEF s
      <4>3. QED
        BY <4>1, <4>2
    <3> HIDE DEF s, t
    <3>9. s = t
      BY <3>6, <3>7, <3>8, SeqEqual
    <3>10. QED
      BY <3>9 DEF s, t
  <2>3. RootOfQ(q) = <<p[1], p[2], ArcTan2(Sine(p[3]), Cosine(p[3]))>>
    BY <1>7 DEF RootOfQ, RootMeans
  <2>4. p[1] \in Int /\ p[2] \in Int /\ p[3] \in Int
    BY DEF Places
  <2>5. ArcTan2(Sine(p[3]), Cosine(p[3])) \in Int /\ SameAngle(ArcTan2(Sine(p[3]), Cosine(p[3])), p[3])
    BY <2>4, ArcTan2Of
  <2>6. RootOfQ(q) \in Places /\ SamePlace(RootOfQ(q), p)
    BY <2>3, <2>4, <2>5 DEF Places, SamePlace
  <2>7. <<v[1], v[2], v[3]>> \in Places
    BY <2>1 DEF Places
  <2>8. SamePlace(Moved(RootOfQ(q), <<v[1], v[2], v[3]>>), Moved(p, <<v[1], v[2], v[3]>>))
    BY <2>6, <2>7, SamePlaces
  <2>9. QED
    BY <1>7, <2>2, <2>6, <2>7, <2>8, MovedBy
<1>8. to \in Places
  <2>1. <<0, 0, 0>> \in Places
    BY DEF Places
  <2>2. QED
    BY <1>7, <2>1
<1>9. Integrate(b, q, v) = WithRootQ(b, ToQ(b, read), to)
  BY DEF Integrate, read
<1> HIDE DEF to
<1>10. JointsMean(b, Integrate(b, q, v), next) /\ RootMeans(b, Integrate(b, q, v), to)
  BY <1>3, <1>6, <1>8, <1>9, WithRootQMeans
<1>11. ASSUME b.base
       PROVE  RootMeans(b, Integrate(b, q, v), Moved(p, <<v[1], v[2], v[3]>>))
  <2> DEFINE r == Moved(p, <<v[1], v[2], v[3]>>)
  <2>1. SamePlace(to, r) /\ to \in Places /\ r \in Places
    BY <1>7, <1>11
  <2> HIDE DEF r
  <2>2. to[1] = r[1] /\ to[2] = r[2] /\ SameAngle(to[3], r[3]) /\ to[3] \in Int /\ r[3] \in Int
    BY <2>1 DEF SamePlace, Places
  <2>3. Cosine(to[3]) = Cosine(r[3]) /\ Sine(to[3]) = Sine(r[3])
    BY <2>2, SameSides
  <2>4. RootMeans(b, Integrate(b, q, v), r)
    BY <1>10, <2>2, <2>3 DEF RootMeans
  <2>5. QED
    BY <2>4 DEF r
<1>12. QED
  BY <1>3, <1>10, <1>11

\* What a controller owns is from its result, the rest as it was.
LEMMA MergeMeans ==
  ASSUME NEW b \in Bodies, NEW js \in SUBSET (1 .. Len(b.kinds)), NEW from, NEW into, NEW x, NEW y,
         JointsMean(b, from, x), JointsMean(b, into, y)
  PROVE  /\ JointsMean(b, Merge(Owned(b.idxQ, js), from, into),
                       [n \in Names(b) |-> IF JointIndex(b, n) \in js THEN x[n] ELSE y[n]])
         /\ \A p : (IF 1 \in js THEN RootMeans(b, from, p) ELSE RootMeans(b, into, p))
                   => RootMeans(b, Merge(Owned(b.idxQ, js), from, into), p)
<1> DEFINE q == Merge(Owned(b.idxQ, js), from, into)
<1>1. q = [i \in Coordinates(b.idxQ) |-> IF i \in Owned(b.idxQ, js) THEN from[i] ELSE into[i]]
  BY DEF Merge, JointsMean
<1>2. from \in [Coordinates(b.idxQ) -> Int] /\ into \in [Coordinates(b.idxQ) -> Int]
  BY DEF JointsMean
<1> HIDE DEF q
<1>3. q \in [Coordinates(b.idxQ) -> Int]
  BY <1>1, <1>2
<1>4. ASSUME NEW n \in Names(b), NEW i \in PositionsOf(b, n)
      PROVE  q[i] = IF JointIndex(b, n) \in js THEN from[i] ELSE into[i]
  <2>1. i \in Coordinates(b.idxQ) /\ (i \in Owned(b.idxQ, js) <=> JointIndex(b, n) \in js)
    BY PositionCoordinates
  <2>2. QED
    BY <1>1, <2>1
<1>5. \A n \in Names(b) : /\ PositionIndex(b, n) \in PositionsOf(b, n)
                          /\ b.joints[n].kind = "continuous" => PositionIndex(b, n) + 1 \in PositionsOf(b, n)
  BY DEF PositionsOf
<1>6. JointsMean(b, q, [n \in Names(b) |-> IF JointIndex(b, n) \in js THEN x[n] ELSE y[n]])
  BY <1>3, <1>4, <1>5 DEF JointsMean
<1>7. ASSUME NEW p, IF 1 \in js THEN RootMeans(b, from, p) ELSE RootMeans(b, into, p)
      PROVE  RootMeans(b, q, p)
  <2> SUFFICES ASSUME b.base
               PROVE  q[1] = p[1] /\ q[2] = p[2] /\ q[3] = Cosine(p[3]) /\ q[4] = Sine(p[3])
    BY DEF RootMeans
  <2>1. \A i \in 1 .. 4 : q[i] = IF 1 \in js THEN from[i] ELSE into[i]
    <3>1. \A i \in 1 .. 4 : i \in Coordinates(b.idxQ) /\ (i \in Owned(b.idxQ, js) <=> 1 \in js)
      BY RootCoordinates
    <3>2. QED
      BY <1>1, <3>1
  <2>2. QED
    BY <1>7, <2>1 DEF RootMeans
<1>8. QED
  BY <1>6, <1>7 DEF q

\* The joints of the gripper take the target, the others stay.
LEMMA GripperMeans ==
  ASSUME NEW b \in Bodies, NEW q, NEW angle, JointsMean(b, q, angle), NEW target \in Int
  PROVE  /\ JointsMean(b, SetGripperPositions(b, q, target),
                       [n \in Names(b) |-> IF n \in Gripper(b) THEN target ELSE angle[n]])
         /\ \A p : RootMeans(b, q, p) => RootMeans(b, SetGripperPositions(b, q, target), p)
<1> DEFINE r == SetGripperPositions(b, q, target)
<1>1. r = [i \in Coordinates(b.idxQ) |-> IF \E n \in Gripper(b) : i = PositionIndex(b, n) THEN target ELSE q[i]]
  BY DEF SetGripperPositions, JointsMean
<1>2. q \in [Coordinates(b.idxQ) -> Int]
  BY DEF JointsMean
<1> HIDE DEF r
<1>3. r \in [Coordinates(b.idxQ) -> Int]
  BY <1>1, <1>2
<1>4. Gripper(b) \subseteq Names(b) /\ \A n \in Gripper(b) : b.joints[n].kind = "revolute"
  BY BodyIs DEF Accepted, GripperInPosition, GripperAccepted, InMode, Controlled
<1>5. ASSUME NEW n \in Names(b), NEW i \in PositionsOf(b, n)
      PROVE  r[i] = IF n \in Gripper(b) THEN target ELSE q[i]
  <2>1. i \in Coordinates(b.idxQ) /\ \A m \in Names(b) : i = PositionIndex(b, m) => m = n
    BY PositionCoordinates
  <2>2. n \in Gripper(b) => i = PositionIndex(b, n)
    BY <1>4 DEF PositionsOf
  <2>3. QED
    BY <1>1, <1>4, <2>1, <2>2
<1>6. \A n \in Names(b) : /\ PositionIndex(b, n) \in PositionsOf(b, n)
                          /\ b.joints[n].kind = "continuous" => PositionIndex(b, n) + 1 \in PositionsOf(b, n)
  BY DEF PositionsOf
<1>7. JointsMean(b, r, [n \in Names(b) |-> IF n \in Gripper(b) THEN target ELSE angle[n]])
  BY <1>3, <1>4, <1>5, <1>6 DEF JointsMean
<1>8. ASSUME NEW p, RootMeans(b, q, p)
      PROVE  RootMeans(b, r, p)
  <2> SUFFICES ASSUME b.base
               PROVE  r[1] = p[1] /\ r[2] = p[2] /\ r[3] = Cosine(p[3]) /\ r[4] = Sine(p[3])
    BY DEF RootMeans
  <2>1. \A i \in 1 .. 4 : r[i] = q[i]
    <3>1. \A i \in 1 .. 4 : i \in Coordinates(b.idxQ)
      BY RootCoordinates
    <3>2. \A n \in Gripper(b) : PositionIndex(b, n) > 4
      BY <1>4, <1>6, PositionCoordinates
    <3>3. QED
      BY <1>1, <3>1, <3>2
  <2>2. QED
    BY <1>8, <2>1 DEF RootMeans
<1>9. QED
  BY <1>7, <1>8 DEF r
-----------------------------------------------------------------------------
(* Rates and wheels.                                                       *)

LEMMA ToVIs ==
  ASSUME NEW b \in Bodies, NEW ns \in SUBSET Names(b), NEW rate \in [ns -> Int]
  PROVE  /\ ToV(b, rate) \in Rates(b)
         /\ \A n \in Names(b) : ToV(b, rate)[VelocityIndex(b, n)] = IF n \in ns THEN rate[n] ELSE 0
         /\ b.base => \A i \in 1 .. 3 : ToV(b, rate)[i] = 0
<1> DEFINE v == ToV(b, rate)
           whose(i) == {m \in ns : i = VelocityIndex(b, m)}
<1>1. v = [i \in Coordinates(b.idxV) |-> IF whose(i) = {} THEN 0 ELSE rate[CHOOSE m \in whose(i) : TRUE]]
  BY DEF ToV
<1> HIDE DEF v
<1>2. \A i : whose(i) # {} => (CHOOSE m \in whose(i) : TRUE) \in ns
  OBVIOUS
<1>3. v \in [Coordinates(b.idxV) -> Int]
  <2> HIDE DEF whose
  <2>1. QED
    BY <1>1, <1>2
<1>4. ASSUME NEW n \in Names(b)
      PROVE  v[VelocityIndex(b, n)] = IF n \in ns THEN rate[n] ELSE 0
  <2>1. /\ VelocityIndex(b, n) \in Coordinates(b.idxV)
        /\ \A m \in Names(b) : VelocityIndex(b, n) = VelocityIndex(b, m) => m = n
    BY VelocityCoordinates
  <2>2. whose(VelocityIndex(b, n)) = IF n \in ns THEN {n} ELSE {}
    BY <2>1
  <2> HIDE DEF whose
  <2>3. QED
    BY <1>1, <2>1, <2>2
<1>5. ASSUME b.base, NEW i \in 1 .. 3
      PROVE  v[i] = 0
  <2>1. i \in Coordinates(b.idxV)
    BY <1>5, RootCoordinates
  <2>2. \A m \in Names(b) : VelocityIndex(b, m) \in Nat /\ VelocityIndex(b, m) > 3
    BY <1>5, VelocityCoordinates
  <2>3. whose(i) = {}
    BY <2>2
  <2> HIDE DEF whose
  <2>4. QED
    BY <1>1, <2>1, <2>3
<1>6. QED
  BY <1>3, <1>4, <1>5 DEF Rates, v

LEMMA WithRootVIs ==
  ASSUME NEW b \in Bodies, NEW v \in Rates(b), NEW t \in Places
  PROVE  /\ WithRootV(b, v, t) \in Rates(b)
         /\ \A n \in Names(b) : WithRootV(b, v, t)[VelocityIndex(b, n)] = v[VelocityIndex(b, n)]
         /\ b.base => \A i \in 1 .. 3 : WithRootV(b, v, t)[i] = t[i]
<1>1. CASE ~b.base
  BY <1>1 DEF WithRootV
<1>2. CASE b.base
  <2> DEFINE r == WithRootV(b, v, t)
  <2>1. r = [i \in Coordinates(b.idxV) |-> IF i <= 3 THEN t[i] ELSE v[i]]
    BY <1>2 DEF WithRootV, Rates
  <2> HIDE DEF r
  <2>2. t[1] \in Int /\ t[2] \in Int /\ t[3] \in Int
    BY DEF Places
  <2>3. \A i \in Coordinates(b.idxV) : i \in Nat /\ i >= 1
    BY CoordinatesAre
  <2>4. \A i \in Coordinates(b.idxV) : (IF i <= 3 THEN t[i] ELSE v[i]) \in Int
    BY <2>2, <2>3 DEF Rates
  <2>5. r \in Rates(b)
    BY <2>1, <2>4 DEF Rates
  <2>6. \A n \in Names(b) : r[VelocityIndex(b, n)] = v[VelocityIndex(b, n)]
    <3>1. \A n \in Names(b) : /\ VelocityIndex(b, n) \in Coordinates(b.idxV) /\ VelocityIndex(b, n) \in Nat
                              /\ VelocityIndex(b, n) > 3
      BY <1>2, VelocityCoordinates
    <3>2. QED
      BY <2>1, <3>1
  <2>7. \A i \in 1 .. 3 : r[i] = t[i]
    <3>1. \A i \in 1 .. 3 : i \in Coordinates(b.idxV)
      BY <1>2, RootCoordinates
    <3>2. QED
      BY <2>1, <3>1
  <2>8. QED
    BY <2>5, <2>6, <2>7 DEF r
<1>3. QED
  BY <1>1, <1>2

LEMMA UnitIs ==
  ASSUME NEW u \in Units
  PROVE  /\ u = <<u[1], u[2], u[3]>>
         /\ u[1] \in 0 .. 1 /\ u[2] \in -1 .. 0 /\ u[3] \in 0 .. 1
         /\ u[1] = 0 \/ (u[2] = 0 /\ u[3] = 0)
         /\ u[2] = 0 \/ u[3] = 0
         /\ Times2(u) = <<2 * u[1], 2 * u[2], 2 * u[3]>>
         /\ u \in Twists /\ Times2(u) \in Twists
<1>1. /\ u = <<u[1], u[2], u[3]>>
      /\ u[1] \in 0 .. 1 /\ u[2] \in -1 .. 0 /\ u[3] \in 0 .. 1
      /\ u[1] = 0 \/ (u[2] = 0 /\ u[3] = 0)
      /\ u[2] = 0 \/ u[3] = 0
  BY DEF Units
<1>2. Times2(u) = <<2 * u[1], 2 * u[2], 2 * u[3]>>
  <2>1. 1 .. 3 = {1, 2, 3}
    OBVIOUS
  <2>2. Times2(u) = [i \in {1, 2, 3} |-> 2 * u[i]]
    BY <2>1 DEF Times2
  <2>3. QED
    BY <2>1, <2>2
<1>3. u \in Twists /\ Times2(u) \in Twists
  BY DEF Twists
<1>4. QED
  BY <1>1, <1>2, <1>3

LEMMA TwistIs ==
  ASSUME NEW t \in Twists
  PROVE  /\ t = <<t[1], t[2], t[3]>> /\ t[1] \in Int /\ t[2] \in Int /\ t[3] \in Int
         /\ t[1] = 0 \/ (t[2] = 0 /\ t[3] = 0)
         /\ t[2] = 0 \/ t[3] = 0
         /\ t \in Places
<1>1. CASE t = <<0, 0, 0>>
  BY <1>1 DEF Places
<1>2. CASE t \in Units
  BY <1>2, UnitIs DEF Places
<1>3. ASSUME NEW u \in Units, t = Times2(u)
      PROVE  /\ t = <<t[1], t[2], t[3]>> /\ t[1] \in Int /\ t[2] \in Int /\ t[3] \in Int
             /\ t[1] = 0 \/ (t[2] = 0 /\ t[3] = 0)
             /\ t[2] = 0 \/ t[3] = 0
             /\ t \in Places
  <2>1. PICK x \in 0 .. 1, y \in -1 .. 0, z \in 0 .. 1 : x = u[1] /\ y = u[2] /\ z = u[3]
    BY UnitIs
  <2>2. t = <<2 * x, 2 * y, 2 * z>>
    BY <1>3, <2>1, UnitIs
  <2>3. (x = 0 \/ (y = 0 /\ z = 0)) /\ (y = 0 \/ z = 0)
    BY <2>1, UnitIs
  <2>4. QED
    BY <2>2, <2>3 DEF Places
<1>4. QED
  BY <1>1, <1>2, <1>3 DEF Twists

LEMMA TwistsArePlaces == <<0, 0, 0>> \in Twists /\ Twists \subseteq Places
  BY TwistIs DEF Twists

\* The wheels of a mobile base, and the rate each takes for a twist.
LEMMA WheelsAre ==
  ASSUME NEW b \in Bodies
  PROVE  /\ Wheels(b) \subseteq InMode(b, "velocity")
         /\ ~b.base => Wheels(b) = {}
         /\ b.base => /\ Wheels(b) = {b.wheels[1], b.wheels[2], b.wheels[3]}
                      /\ \A t \in Twists : /\ WheelRate(b, t, b.wheels[1]) = 2 * t[2] + t[3]
                                           /\ WheelRate(b, t, b.wheels[2]) = t[3] - 2 * t[1] - t[2]
                                           /\ WheelRate(b, t, b.wheels[3]) = t[3] + 2 * t[1] - t[2]
<1>1. Supported(b) /\ b.wheels \in Seq(Nat) /\ b.base \in BOOLEAN
  BY BodyIs
<1>2. CASE ~b.base
  <2>1. b.wheels = <<>>
    BY <1>1, <1>2 DEF Supported
  <2>2. Wheels(b) = {}
    BY <2>1 DEF Wheels
  <2>3. QED
    BY <1>2, <2>2
<1>3. CASE b.base
  <2>1. /\ Len(b.wheels) = 3 /\ Wheels(b) \subseteq InMode(b, "velocity")
        /\ \A i, j \in 1 .. 3 : i # j => b.wheels[i] # b.wheels[j]
    BY <1>1, <1>3 DEF Supported
  <2>2. DOMAIN b.wheels = 1 .. 3 /\ 1 .. 3 = {1, 2, 3}
    BY <1>1, <2>1
  <2>3. Wheels(b) = {b.wheels[1], b.wheels[2], b.wheels[3]}
    BY <2>2 DEF Wheels
  <2>4. ASSUME NEW k \in 1 .. 3
        PROVE  (CHOOSE i \in DOMAIN b.wheels : b.wheels[i] = b.wheels[k]) = k
    BY <2>1, <2>2
  <2>5. ASSUME NEW t \in Twists
        PROVE  /\ WheelRate(b, t, b.wheels[1]) = 2 * t[2] + t[3]
               /\ WheelRate(b, t, b.wheels[2]) = t[3] - 2 * t[1] - t[2]
               /\ WheelRate(b, t, b.wheels[3]) = t[3] + 2 * t[1] - t[2]
    <3>1. PICK x \in Int, y \in Int, z \in Int : x = t[1] /\ y = t[2] /\ z = t[3]
      BY TwistIs
    <3>2. \A k \in 1 .. 3 : WheelRate(b, t, b.wheels[k]) = Gear[k][1] * x + Gear[k][2] * y + Gear[k][3] * z
      BY <2>4, <3>1 DEF WheelRate
    <3>3. WheelRate(b, t, b.wheels[1]) = 0 * x + 2 * y + 1 * z
      BY <3>2 DEF Gear
    <3>4. WheelRate(b, t, b.wheels[2]) = (-2) * x + (-1) * y + 1 * z
      BY <3>2 DEF Gear
    <3>5. WheelRate(b, t, b.wheels[3]) = 2 * x + (-1) * y + 1 * z
      BY <3>2 DEF Gear
    <3>6. QED
      BY <3>1, <3>3, <3>4, <3>5
  <2>6. QED
    BY <1>3, <2>1, <2>3, <2>5
<1>4. QED
  BY <1>1, <1>2, <1>3

\* A base that rests turns no wheel.
LEMMA NoTwist ==
  ASSUME NEW b \in Bodies
  PROVE  \A n \in Wheels(b) : WheelRate(b, <<0, 0, 0>>, n) = 0
<1>1. PICK t \in Twists : t = <<0, 0, 0>>
  BY DEF Twists
<1>2. t[1] = 0 /\ t[2] = 0 /\ t[3] = 0
  BY <1>1
<1>3. ASSUME b.base, NEW n \in Wheels(b)
      PROVE  WheelRate(b, t, n) = 0
  BY <1>2, <1>3, WheelsAre
<1>4. QED
  BY <1>1, <1>3, WheelsAre

LEMMA WheelRateIs ==
  ASSUME NEW b \in Bodies, NEW t \in Twists, NEW n \in Wheels(b)
  PROVE  WheelRate(b, t, n) \in Int
<1>1. b.base
  BY WheelsAre
<1>2. t[1] \in Int /\ t[2] \in Int /\ t[3] \in Int
  BY TwistIs
<1>3. QED
  BY <1>1, <1>2, WheelsAre

\* The wheels' rates tell the twist.
LEMMA TwistIsTold ==
  ASSUME NEW b \in Bodies, b.base, NEW v, NEW t \in Twists,
         \A n \in Wheels(b) : v[VelocityIndex(b, n)] = WheelRate(b, t, n)
  PROVE  EstimatedTwist(b, v) = t
<1> DEFINE fits(u) == \A n \in Wheels(b) : WheelRate(b, u, n) = v[VelocityIndex(b, n)]
<1>1. fits(t)
  OBVIOUS
<1>2. ASSUME NEW u \in Twists, fits(u)
      PROVE  u = t
  <2>1. \A n \in Wheels(b) : WheelRate(b, u, n) = WheelRate(b, t, n)
    BY <1>2
  <2>2. /\ WheelRate(b, u, b.wheels[1]) = WheelRate(b, t, b.wheels[1])
        /\ WheelRate(b, u, b.wheels[2]) = WheelRate(b, t, b.wheels[2])
        /\ WheelRate(b, u, b.wheels[3]) = WheelRate(b, t, b.wheels[3])
    BY <2>1, WheelsAre
  <2>3. /\ u = <<u[1], u[2], u[3]>> /\ t = <<t[1], t[2], t[3]>>
        /\ u[1] \in Int /\ u[2] \in Int /\ u[3] \in Int /\ t[1] \in Int /\ t[2] \in Int /\ t[3] \in Int
    BY TwistIs
  <2>4. /\ 2 * u[2] + u[3] = 2 * t[2] + t[3]
        /\ u[3] - 2 * u[1] - u[2] = t[3] - 2 * t[1] - t[2]
        /\ u[3] + 2 * u[1] - u[2] = t[3] + 2 * t[1] - t[2]
    BY <2>2, WheelsAre
  <2>5. u[1] = t[1] /\ u[2] = t[2] /\ u[3] = t[3]
    BY <2>3, <2>4
  <2>6. QED
    BY <2>3, <2>5
<1>3. EstimatedTwist(b, v) = IF \E u \in Twists : fits(u) THEN CHOOSE u \in Twists : fits(u) ELSE <<0, 0, 0>>
  BY DEF EstimatedTwist
<1> HIDE DEF fits
<1>4. QED
  BY <1>1, <1>2, <1>3

\* Whatever twist is asked for, the one that is commanded asks no wheel for too much.
LEMMA ScaledFits ==
  ASSUME NEW b \in Bodies, NEW t \in Twists
  PROVE  /\ ScaledTwist(b, t) \in Twists
         /\ \A n \in Wheels(b) : WheelRate(b, ScaledTwist(b, t), n) \in -WheelLimit .. WheelLimit
<1>1. CASE WithinLimit(b, t)
  BY <1>1 DEF ScaledTwist, WithinLimit
<1>2. CASE ~WithinLimit(b, t)
  <2>1. WheelLimit \in Nat /\ WheelLimit >= 2
    BY DataPathAssumption
  <2>2. b.base
    BY <1>2, WheelsAre DEF WithinLimit
  <2>3. ASSUME NEW u \in Twists, u[1] \in 0 .. 1, u[2] \in -1 .. 0, u[3] \in 0 .. 1
        PROVE  \A n \in Wheels(b) : WheelRate(b, u, n) \in -WheelLimit .. WheelLimit
    <3>1. /\ u[1] = 0 \/ (u[2] = 0 /\ u[3] = 0)
          /\ u[2] = 0 \/ u[3] = 0
      BY TwistIs
    <3>2. PICK x \in 0 .. 1, y \in -1 .. 0, z \in 0 .. 1 : x = u[1] /\ y = u[2] /\ z = u[3]
      BY <2>3
    <3>3. (x = 0 \/ (y = 0 /\ z = 0)) /\ (y = 0 \/ z = 0)
      BY <3>1, <3>2
    <3>4. 2 * y + z \in -2 .. 2 /\ z - 2 * x - y \in -2 .. 2 /\ z + 2 * x - y \in -2 .. 2
      <4>1. CASE y = 0 /\ z = 0
        BY <4>1
      <4>2. CASE x = 0 /\ y = 0
        BY <4>2
      <4>3. CASE x = 0 /\ z = 0
        BY <4>3
      <4>4. QED
        BY <3>3, <4>1, <4>2, <4>3
    <3>5. \A k \in -2 .. 2 : k \in -WheelLimit .. WheelLimit
      BY <2>1
    <3>6. \A n \in Wheels(b) : WheelRate(b, u, n) \in -2 .. 2
      BY <2>2, <3>2, <3>4, WheelsAre
    <3>7. QED
      BY <3>5, <3>6
  <2>4. t # <<0, 0, 0>>
    BY <1>2, <2>3 DEF WithinLimit
  <2>5. t \notin Units
    BY <1>2, <2>3, UnitIs DEF WithinLimit
  <2>6. PICK u \in Units : t = Times2(u)
    BY <2>4, <2>5 DEF Twists
  <2>7. ScaledTwist(b, t) \in Units
    BY <1>2, <2>6 DEF ScaledTwist
  <2>8. QED
    BY <2>3, <2>7, UnitIs
<1>3. QED
  BY <1>1, <1>2

LEMMA BaseVelocityIs ==
  ASSUME NEW b \in Bodies, NEW t \in Twists
  PROVE  /\ BaseVelocity(b, t) \in Rates(b)
         /\ \A n \in Names(b) : BaseVelocity(b, t)[VelocityIndex(b, n)] = IF n \in Wheels(b) THEN WheelRate(b, t, n) ELSE 0
         /\ b.base => \A i \in 1 .. 3 : BaseVelocity(b, t)[i] = t[i]
<1> DEFINE rate == [n \in Wheels(b) |-> WheelRate(b, t, n)]
<1>1. rate \in [Wheels(b) -> Int] /\ \A n \in Wheels(b) : rate[n] = WheelRate(b, t, n)
  BY WheelRateIs
<1>2. Wheels(b) \in SUBSET Names(b) /\ t \in Places
  BY WheelsAre, TwistIs DEF InMode, Controlled
<1>3. BaseVelocity(b, t) = WithRootV(b, ToV(b, rate), t)
  BY DEF BaseVelocity
<1> HIDE DEF rate
<1>4. /\ ToV(b, rate) \in Rates(b)
      /\ \A n \in Names(b) : ToV(b, rate)[VelocityIndex(b, n)] = IF n \in Wheels(b) THEN rate[n] ELSE 0
  BY <1>1, <1>2, ToVIs
<1>5. QED
  BY <1>1, <1>2, <1>3, <1>4, WithRootVIs
-----------------------------------------------------------------------------
(* A command and what it means.                                            *)

Vectors(b) == [Coordinates(b.idxQ) -> Int]
Commands(b) == [q : Vectors(b), v : Rates(b) \cup {Absent}]

WorldType(b) == [angle : Angles(b), goal : Angles(b), rate : Angles(b), root : Places, twist : Places]

\* Angles and a place are those of the world.
AtWorld(b, angle, p, w) ==
    /\ \A n \in InMode(b, "position") : angle[n] = w.angle[n]
    /\ \A n \in InMode(b, "velocity") : SameAngle(angle[n], w.angle[n])
    /\ b.base => SamePlace(p, w.root)

\* They are those that the world comes to with these goals, rates and twist.
Ahead(b, angle, p, w, goal, rate, t) ==
    /\ \A n \in InMode(b, "position") : angle[n] = goal[n]
    /\ \A n \in InMode(b, "velocity") : SameAngle(angle[n], w.angle[n] + rate[n])
    /\ b.base => SamePlace(p, Moved(w.root, t))

Describes(b, q, w) ==
    \E angle \in Angles(b), p \in Places : JointsMean(b, q, angle) /\ RootMeans(b, q, p) /\ AtWorld(b, angle, p, w)

Foresees(b, q, w, goal, rate, t) ==
    \E angle \in Angles(b), p \in Places :
        JointsMean(b, q, angle) /\ RootMeans(b, q, p) /\ Ahead(b, angle, p, w, goal, rate, t)

\* A command asks for these goals, rates and twist, and no joint for too much.
CommandMeans(b, c, goal, rate, t) ==
    /\ c \in Commands(b) /\ t \in Twists
    /\ \A n \in InMode(b, "position") : goal[n] \in Lowest .. Highest /\ c.q[PositionIndex(b, n)] = goal[n]
    /\ \A n \in InMode(b, "velocity") : /\ rate[n] \in -WheelLimit .. WheelLimit
                                       /\ rate[n] = IF c.v = Absent THEN 0 ELSE c.v[VelocityIndex(b, n)]
    /\ b.base => /\ \A n \in Wheels(b) : rate[n] = WheelRate(b, t, n)
                 /\ \A i \in 1 .. 3 : t[i] = IF c.v = Absent THEN 0 ELSE c.v[i]

WithinLimits(b, w) ==
    \A n \in InMode(b, "position") : w.angle[n] \in Lowest .. Highest /\ w.goal[n] \in Lowest .. Highest

LEMMA Limits ==
  /\ Lowest \in Int /\ Highest \in Int /\ Lowest <= Highest
  /\ \A a \in Travel : a \in Lowest .. Highest
  /\ \A x \in Int : Bounded(x, Lowest, Highest) \in Lowest .. Highest
  /\ \A x \in Lowest .. Highest : Bounded(x, Lowest, Highest) = x
  /\ WheelLimit \in Nat
<1>1. Travel \subseteq Int /\ WheelLimit \in Nat
      /\ \E low, high \in Travel : \A a \in Travel : low <= a /\ a <= high
  BY DataPathAssumption
<1>2. Lowest \in Travel /\ \A a \in Travel : Lowest <= a
  BY <1>1 DEF Lowest
<1>3. Highest \in Travel /\ \A a \in Travel : a <= Highest
  BY <1>1 DEF Highest
<1>4. Lowest \in Int /\ Highest \in Int /\ Lowest <= Highest
  BY <1>1, <1>2, <1>3
<1>5. QED
  BY <1>1, <1>2, <1>3, <1>4 DEF Bounded

LEMMA ModesAre ==
  ASSUME NEW b \in Bodies
  PROVE  /\ Controlled(b) \subseteq Names(b)
         /\ Controlled(b) = InMode(b, "position") \cup InMode(b, "velocity")
         /\ InMode(b, "position") \cap InMode(b, "velocity") = {}
         /\ \A n \in InMode(b, "position") : b.joints[n].kind = "revolute" /\ b.home[n] \in Lowest .. Highest
         /\ Gripper(b) \subseteq InMode(b, "position") /\ Wheels(b) \subseteq InMode(b, "velocity")
         /\ Arm(b) \cap (Gripper(b) \cup InMode(b, "velocity")) = {}
         /\ b.home \in Angles(b)
<1>1. Supported(b) /\ Accepted(b) /\ b.home \in Seq(Int) /\ b.joints \in Seq(JointConfiguration)
  BY BodyIs
<1>2. Controlled(b) \subseteq Names(b)
  BY DEF Controlled
<1>3. Controlled(b) = InMode(b, "position") \cup InMode(b, "velocity")
  <2>1. \A n \in Names(b) : b.joints[n].mode \in {Absent, "position", "velocity"}
    BY BodyJoints
  <2>2. QED
    BY <2>1 DEF Controlled, InMode
<1>4. b.home \in Angles(b)
  <2>1. Len(b.home) = Len(b.joints) /\ Names(b) = 1 .. Len(b.joints)
    BY <1>1, BodyJoints DEF Supported
  <2>2. QED
    BY <1>1, <2>1 DEF Angles
<1>5. Gripper(b) \subseteq InMode(b, "position") /\ Wheels(b) \subseteq InMode(b, "velocity")
  BY <1>1, WheelsAre DEF Accepted, GripperInPosition
<1>6. \A n \in InMode(b, "position") : b.joints[n].kind = "revolute" /\ b.home[n] \in Lowest .. Highest
  <2>1. \A n \in Gripper(b) : b.joints[n].kind = "revolute"
    BY <1>1 DEF Accepted, GripperAccepted
  <2>2. QED
    BY <1>1, <2>1 DEF Supported
<1>7. InMode(b, "position") \cap InMode(b, "velocity") = {} /\ Arm(b) \cap (Gripper(b) \cup InMode(b, "velocity")) = {}
  BY <1>1 DEF Supported, InMode
<1>8. QED
  BY <1>2, <1>3, <1>4, <1>5, <1>6, <1>7

LEMMA VectorsAreSequences ==
  ASSUME NEW b \in Bodies
  PROVE  /\ Vectors(b) \subseteq Seq(Int) /\ Rates(b) \subseteq Seq(Int)
         /\ Absent \notin Vectors(b) /\ Absent \notin Rates(b) /\ Absent \notin Commands(b)
<1>1. Vectors(b) \subseteq Seq(Int)
  <2>1. PICK N \in Nat : Coordinates(b.idxQ) = 1 .. N
    BY CoordinatesAre
  <2>2. QED
    BY <2>1 DEF Vectors
<1>2. Rates(b) \subseteq Seq(Int)
  <2>1. PICK N \in Nat : Coordinates(b.idxV) = 1 .. N
    BY CoordinatesAre
  <2>2. QED
    BY <2>1 DEF Rates
<1>3. Commands(b) \subseteq [q : Seq(Int), v : Seq(Int) \cup {Absent}]
  BY <1>1, <1>2 DEF Commands
<1>4. QED
  BY <1>1, <1>2, <1>3, AbsentAssumption

\* What the arm's solver asks for moves one joint of the arm, or none.
LEMMA MotionIs ==
  ASSUME NEW b \in Bodies, NEW motion \in ArmMotions(b)
  PROVE  motion \in Angles(b) /\ \A n \in Names(b) : n \notin Arm(b) => motion[n] = 0
BY DEF ArmMotions, Rest, Angles

\* The controllers' results put together: each joint is where its controller wants it.
LEMMA PeriodMeans ==
  ASSUME NEW b \in Bodies, NEW q, NEW w \in WorldType(b), Describes(b, q, w), WithinLimits(b, w),
         NEW motion \in ArmMotions(b), \A n \in Arm(b) : w.angle[n] + motion[n] \in Travel,
         NEW target \in GripperTargets(b), NEW t \in Twists,
         \A n \in Wheels(b) : WheelRate(b, t, n) \in -WheelLimit .. WheelLimit,
         NEW held, held = IF target = Absent THEN q ELSE GripperControl(b, q, target),
         NEW merged, merged = Merged(b, held, ToV(b, motion), BaseVelocity(b, t)),
         NEW goal, goal = [n \in Names(b) |-> IF n \in Gripper(b) /\ target # Absent THEN Bounded(target, Lowest, Highest)
                                              ELSE w.angle[n] + motion[n]],
         NEW rate, rate = [n \in Names(b) |-> IF n \in Wheels(b) THEN WheelRate(b, t, n) ELSE 0]
  PROVE  /\ CommandMeans(b, [q |-> merged[1], v |-> merged[2]], goal, rate, t)
         /\ Foresees(b, merged[1], w, goal, rate, t)
<1> DEFINE armV == ToV(b, motion)
           baseV == BaseVelocity(b, t)
           armQ == Integrate(b, held, armV)
           baseQ == Integrate(b, held, baseV)
           still == [i \in Coordinates(b.idxV) |-> 0]
           moved == Merge(Owned(b.idxQ, BaseOwns(b)), baseQ, armQ)
           cq == Merge(Owned(b.idxQ, GripperOwns(b)), held, moved)
           armOnly == Merge(Owned(b.idxV, ArmOwns(b)), armV, still)
           cv == Merge(Owned(b.idxV, BaseOwns(b)), baseV, armOnly)
<1>1. merged[1] = cq /\ merged[2] = cv
  BY DEF Merged
<1>2. PICK start \in Angles(b), p \in Places : JointsMean(b, q, start) /\ RootMeans(b, q, p) /\ AtWorld(b, start, p, w)
  BY DEF Describes
<1>3. motion \in Angles(b) /\ \A n \in Names(b) : n \notin Arm(b) => motion[n] = 0
  BY MotionIs
<1>4. /\ Controlled(b) \subseteq Names(b)
      /\ InMode(b, "position") \cup InMode(b, "velocity") = Controlled(b) /\ InMode(b, "position") \cap InMode(b, "velocity") = {}
      /\ Gripper(b) \subseteq InMode(b, "position") /\ Wheels(b) \subseteq InMode(b, "velocity")
      /\ Arm(b) \cap (Gripper(b) \cup InMode(b, "velocity")) = {}
  BY ModesAre
<1> DEFINE kept == [n \in Names(b) |-> IF n \in Gripper(b) THEN Bounded(target, Lowest, Highest) ELSE start[n]]
           hold == IF target = Absent THEN start ELSE kept
<1>5. target # Absent => target \in Int /\ Bounded(target, Lowest, Highest) \in Lowest .. Highest
  BY Limits DEF GripperTargets
<1>6. hold \in Angles(b) /\ JointsMean(b, held, hold) /\ RootMeans(b, held, p)
  <2>1. CASE target = Absent
    BY <1>2, <2>1
  <2>2. CASE target # Absent
    <3>1. Bounded(target, Lowest, Highest) \in Int
      BY <1>5, <2>2, Limits
    <3>2. held = SetGripperPositions(b, q, Bounded(target, Lowest, Highest))
      BY <2>2 DEF GripperControl
    <3>3. kept \in Angles(b)
      BY <3>1 DEF Angles
    <3>4. JointsMean(b, held, kept) /\ RootMeans(b, held, p)
      BY <1>2, <3>1, <3>2, GripperMeans
    <3> HIDE DEF kept
    <3>5. QED
      BY <2>2, <3>3, <3>4
  <2>3. QED
    BY <2>1, <2>2
<1>7. ASSUME NEW n \in Names(b)
      PROVE  hold[n] = IF n \in Gripper(b) /\ target # Absent THEN Bounded(target, Lowest, Highest) ELSE start[n]
  OBVIOUS
<1> HIDE DEF hold, kept
<1>8. /\ armV \in Rates(b) /\ \A n \in Names(b) : armV[VelocityIndex(b, n)] = motion[n]
      /\ b.base => armV[1] = 0 /\ armV[2] = 0 /\ armV[3] = 0
  <2>1. Names(b) \in SUBSET Names(b) /\ motion \in [Names(b) -> Int]
    BY <1>3 DEF Angles
  <2>2. /\ ToV(b, motion) \in Rates(b)
        /\ \A n \in Names(b) : ToV(b, motion)[VelocityIndex(b, n)] = IF n \in Names(b) THEN motion[n] ELSE 0
        /\ b.base => \A i \in 1 .. 3 : ToV(b, motion)[i] = 0
    BY <2>1, ToVIs
  <2>3. 1 \in 1 .. 3 /\ 2 \in 1 .. 3 /\ 3 \in 1 .. 3
    OBVIOUS
  <2>4. QED
    BY <2>2, <2>3
<1>9. /\ baseV \in Rates(b)
      /\ \A n \in Names(b) : baseV[VelocityIndex(b, n)] = IF n \in Wheels(b) THEN WheelRate(b, t, n) ELSE 0
      /\ b.base => \A i \in 1 .. 3 : baseV[i] = t[i]
  BY BaseVelocityIs
<1> HIDE DEF armV, baseV
<1> DEFINE byArm == [n \in Names(b) |-> hold[n] + armV[VelocityIndex(b, n)]]
           byBase == [n \in Names(b) |-> hold[n] + baseV[VelocityIndex(b, n)]]
<1>10. byArm \in Angles(b) /\ JointsMean(b, armQ, byArm)
  <2>1. /\ hold \in Angles(b) /\ JointsMean(b, held, hold) /\ RootMeans(b, held, p) /\ armV \in Rates(b)
        /\ byArm = [n \in Names(b) |-> hold[n] + armV[VelocityIndex(b, n)]]
    BY <1>6, <1>8
  <2>2. /\ byArm \in Angles(b) /\ JointsMean(b, armQ, byArm)
        /\ b.base => RootMeans(b, armQ, Moved(p, <<armV[1], armV[2], armV[3]>>))
    <3> HIDE DEF byArm
    <3>1. QED
      BY <2>1, IntegrateMeans
  <2>3. QED
    BY <2>2
<1>11. byBase \in Angles(b) /\ JointsMean(b, baseQ, byBase) /\ (b.base => RootMeans(b, baseQ, Moved(p, t)))
  <2>1. /\ byBase \in Angles(b) /\ JointsMean(b, baseQ, byBase)
        /\ b.base => RootMeans(b, baseQ, Moved(p, <<baseV[1], baseV[2], baseV[3]>>))
    <3>1. /\ hold \in Angles(b) /\ JointsMean(b, held, hold) /\ RootMeans(b, held, p) /\ baseV \in Rates(b)
          /\ byBase = [n \in Names(b) |-> hold[n] + baseV[VelocityIndex(b, n)]]
      BY <1>6, <1>9
    <3> HIDE DEF byBase
    <3>2. QED
      BY <3>1, IntegrateMeans
  <2>2. b.base => <<baseV[1], baseV[2], baseV[3]>> = t
    <3>1. b.base => baseV[1] = t[1] /\ baseV[2] = t[2] /\ baseV[3] = t[3]
      BY <1>9
    <3>2. QED
      BY <3>1, TwistIs
  <2> HIDE DEF baseQ, byBase
  <2>3. QED
    BY <2>1, <2>2
<1>12. /\ BaseOwns(b) \in SUBSET (1 .. Len(b.kinds)) /\ GripperOwns(b) \in SUBSET (1 .. Len(b.kinds))
       /\ \A n \in Names(b) : JointIndex(b, n) \in BaseOwns(b) <=> n \in Wheels(b)
       /\ \A n \in Names(b) : JointIndex(b, n) \in GripperOwns(b) <=> n \in Gripper(b)
       /\ b.base => 1 \in BaseOwns(b) /\ 1 \notin GripperOwns(b)
  <2>1. /\ \A n \in Names(b) : JointIndex(b, n) \in 1 .. Len(b.kinds) /\ (b.base => JointIndex(b, n) >= 2)
        /\ \A m, n \in Names(b) : JointIndex(b, m) = JointIndex(b, n) => m = n
        /\ b.base => 1 \in 1 .. Len(b.kinds)
    BY BodyJoints
  <2>2. Gripper(b) \subseteq Names(b) /\ Wheels(b) \subseteq Names(b) /\ (~b.base => Wheels(b) = {})
    BY <1>4, WheelsAre
  <2>3. \A n \in Names(b) : b.base => JointIndex(b, n) # 1
    BY <2>1
  <2>4. GripperOwns(b) \in SUBSET (1 .. Len(b.kinds)) /\ \A n \in Names(b) : JointIndex(b, n) \in GripperOwns(b) <=> n \in Gripper(b)
    BY <2>1, <2>2 DEF GripperOwns
  <2>5. b.base => 1 \in BaseOwns(b) /\ 1 \notin GripperOwns(b)
    BY <2>2, <2>3 DEF BaseOwns, GripperOwns
  <2>6. BaseOwns(b) \in SUBSET (1 .. Len(b.kinds)) /\ \A n \in Names(b) : JointIndex(b, n) \in BaseOwns(b) <=> n \in Wheels(b)
    <3>1. CASE b.base
      BY <2>1, <2>2, <2>3, <3>1 DEF BaseOwns
    <3>2. CASE ~b.base
      BY <2>2, <3>2 DEF BaseOwns
    <3>3. QED
      BY <3>1, <3>2
  <2>7. QED
    BY <2>4, <2>5, <2>6
<1> HIDE DEF armQ, baseQ, byArm, byBase
<1> DEFINE between == [n \in Names(b) |-> IF JointIndex(b, n) \in BaseOwns(b) THEN byBase[n] ELSE byArm[n]]
           final == [n \in Names(b) |-> IF JointIndex(b, n) \in GripperOwns(b) THEN hold[n] ELSE between[n]]
<1>13. JointsMean(b, moved, between) /\ (b.base => RootMeans(b, moved, Moved(p, t)))
  <2> DEFINE js == BaseOwns(b)
  <2>1. js \in SUBSET (1 .. Len(b.kinds)) /\ (b.base => 1 \in js)
    BY <1>12
  <2> HIDE DEF js
  <2>2. /\ JointsMean(b, Merge(Owned(b.idxQ, js), baseQ, armQ),
                      [n \in Names(b) |-> IF JointIndex(b, n) \in js THEN byBase[n] ELSE byArm[n]])
        /\ \A r : (IF 1 \in js THEN RootMeans(b, baseQ, r) ELSE RootMeans(b, armQ, r))
                  => RootMeans(b, Merge(Owned(b.idxQ, js), baseQ, armQ), r)
    BY <1>10, <1>11, <2>1, MergeMeans
  <2>3. b.base => RootMeans(b, Merge(Owned(b.idxQ, js), baseQ, armQ), Moved(p, t))
    BY <1>11, <2>1, <2>2
  <2>4. QED
    BY <2>2, <2>3 DEF js
<1>14. JointsMean(b, cq, final) /\ (b.base => RootMeans(b, cq, Moved(p, t)))
  <2> HIDE DEF between, final, moved
  <2>1. QED
    BY <1>6, <1>12, <1>13, MergeMeans DEF final
<1>15. ASSUME NEW n \in Names(b)
       PROVE  /\ start[n] \in Int /\ motion[n] \in Int /\ w.angle[n] \in Int
              /\ final[n] = IF n \in Gripper(b) THEN hold[n]
                            ELSE IF n \in Wheels(b) THEN hold[n] + WheelRate(b, t, n) ELSE hold[n] + motion[n]
  <2>1. start[n] \in Int /\ motion[n] \in Int /\ w.angle[n] \in Int
    BY <1>2, <1>3 DEF Angles, WorldType
  <2>2. final[n] = IF n \in Gripper(b) THEN hold[n] ELSE IF n \in Wheels(b) THEN byBase[n] ELSE byArm[n]
    BY <1>12
  <2>3. /\ byArm[n] = hold[n] + motion[n]
        /\ n \in Wheels(b) => byBase[n] = hold[n] + WheelRate(b, t, n)
    BY <1>8, <1>9 DEF byArm, byBase
  <2>4. QED
    BY <2>1, <2>2, <2>3
<1> HIDE DEF moved, between, final, cq
<1>16. ASSUME NEW n \in InMode(b, "position")
       PROVE  /\ final[n] = goal[n] /\ goal[n] \in Lowest .. Highest
  <2>1. n \in Names(b) /\ n \notin Wheels(b) /\ start[n] = w.angle[n] /\ w.angle[n] \in Lowest .. Highest
    BY <1>2, <1>4 DEF AtWorld, WithinLimits
  <2>2. goal[n] = IF n \in Gripper(b) /\ target # Absent THEN Bounded(target, Lowest, Highest) ELSE w.angle[n] + motion[n]
    BY <2>1
  <2>3. CASE n \in Gripper(b)
    <3>1. motion[n] = 0
      BY <1>3, <1>4, <2>1, <2>3
    <3>2. w.angle[n] + motion[n] = w.angle[n]
      BY <1>15, <2>1, <3>1
    <3>3. QED
      BY <1>5, <1>7, <1>15, <2>1, <2>2, <2>3, <3>2
  <2>4. CASE n \notin Gripper(b)
    <3>1. final[n] = goal[n]
      BY <1>7, <1>15, <2>1, <2>2, <2>4
    <3>2. goal[n] \in Lowest .. Highest
      <4>1. CASE n \in Arm(b)
        BY <2>2, <2>4, <4>1, Limits
      <4>2. CASE n \notin Arm(b)
        <5>1. w.angle[n] + motion[n] = w.angle[n]
          BY <1>3, <1>15, <2>1, <4>2
        <5>2. QED
          BY <2>1, <2>2, <2>4, <5>1
      <4>3. QED
        BY <4>1, <4>2
    <3>3. QED
      BY <3>1, <3>2
  <2>5. QED
    BY <2>3, <2>4
<1>17. ASSUME NEW n \in InMode(b, "velocity")
       PROVE  /\ rate[n] \in -WheelLimit .. WheelLimit /\ rate[n] \in Int
              /\ final[n] = start[n] + rate[n] /\ SameAngle(final[n], w.angle[n] + rate[n])
  <2>1. n \in Names(b) /\ n \notin Gripper(b) /\ n \notin Arm(b) /\ SameAngle(start[n], w.angle[n]) /\ motion[n] = 0
    BY <1>2, <1>3, <1>4 DEF AtWorld
  <2>2. rate[n] = IF n \in Wheels(b) THEN WheelRate(b, t, n) ELSE 0
    BY <2>1
  <2>3. rate[n] \in -WheelLimit .. WheelLimit /\ rate[n] \in Int
    BY <2>2, Limits
  <2>4. final[n] = start[n] + rate[n]
    BY <1>7, <1>15, <2>1, <2>2
  <2>5. SameAngle(start[n] + rate[n], w.angle[n] + rate[n])
    BY <1>15, <2>1, <2>3, SameTurned
  <2>6. QED
    BY <2>3, <2>4, <2>5
<1>18. final \in Angles(b)
  <2>1. \A n \in Names(b) : hold[n] \in Int
    BY <1>6 DEF Angles
  <2>2. \A n \in Wheels(b) : WheelRate(b, t, n) \in Int
    BY WheelRateIs
  <2>3. \A n \in Names(b) : final[n] \in Int
    BY <1>15, <2>1, <2>2
  <2>4. QED
    BY <2>3 DEF final, Angles
<1>19. Foresees(b, cq, w, goal, rate, t)
  <2> DEFINE place == IF b.base THEN Moved(p, t) ELSE p
  <2>1. t \in Places /\ w.root \in Places
    BY TwistIs DEF WorldType
  <2>2. place \in Places
    BY <2>1, MovedBy
  <2>3. b.base => SamePlace(place, Moved(w.root, t))
    <3> SUFFICES ASSUME b.base PROVE SamePlace(Moved(p, t), Moved(w.root, t))
      OBVIOUS
    <3>1. SamePlace(p, w.root)
      BY <1>2 DEF AtWorld
    <3>2. QED
      BY <2>1, <3>1, SamePlaces
  <2>4. RootMeans(b, cq, place)
    BY <1>14 DEF RootMeans
  <2> HIDE DEF place
  <2>5. Ahead(b, final, place, w, goal, rate, t)
    BY <1>16, <1>17, <2>3 DEF Ahead
  <2>6. QED
    BY <1>14, <1>18, <2>2, <2>4, <2>5 DEF Foresees
<1>20. cv \in Rates(b)
  <2>1. armOnly \in Rates(b)
    BY <1>8 DEF Merge, Rates
  <2> HIDE DEF armOnly
  <2>2. QED
    BY <1>9, <2>1 DEF Merge, Rates
<1>21. ASSUME NEW n \in InMode(b, "velocity")
       PROVE  cv[VelocityIndex(b, n)] = rate[n]
  <2>1. n \in Names(b) /\ n \notin Arm(b)
    BY <1>4
  <2>2. /\ VelocityIndex(b, n) \in Coordinates(b.idxV)
        /\ VelocityIndex(b, n) \in Owned(b.idxV, BaseOwns(b)) <=> JointIndex(b, n) \in BaseOwns(b)
    BY <1>12, <2>1, VelocityCoordinates
  <2>3. armV[VelocityIndex(b, n)] = 0
    BY <1>3, <1>8, <2>1
  <2>4. armOnly[VelocityIndex(b, n)] = 0
    BY <2>2, <2>3 DEF Merge
  <2>5. DOMAIN armOnly = Coordinates(b.idxV)
    BY DEF Merge
  <2> HIDE DEF armOnly
  <2>6. cv[VelocityIndex(b, n)] = IF n \in Wheels(b) THEN baseV[VelocityIndex(b, n)] ELSE 0
    BY <1>12, <2>1, <2>2, <2>4, <2>5 DEF Merge
  <2>7. QED
    BY <1>9, <2>1, <2>6
<1>22. ASSUME b.base, NEW i \in 1 .. 3
       PROVE  cv[i] = t[i]
  <2>1. i \in Coordinates(b.idxV) /\ i \in Owned(b.idxV, BaseOwns(b))
    BY <1>12, <1>22, RootCoordinates
  <2>2. DOMAIN armOnly = Coordinates(b.idxV)
    BY DEF Merge
  <2> HIDE DEF armOnly
  <2>3. cv[i] = baseV[i]
    BY <2>1, <2>2 DEF Merge
  <2>4. QED
    BY <1>9, <1>22, <2>3
<1> HIDE DEF cv
<1>23. CommandMeans(b, [q |-> cq, v |-> cv], goal, rate, t)
  <2>1. cq \in Vectors(b) /\ [q |-> cq, v |-> cv] \in Commands(b)
    BY <1>14, <1>20 DEF Commands, Vectors, JointsMean
  <2>2. cv # Absent
    BY <1>20, VectorsAreSequences
  <2>3. \A n \in InMode(b, "position") : cq[PositionIndex(b, n)] = goal[n] /\ goal[n] \in Lowest .. Highest
    <3>1. \A n \in InMode(b, "position") : n \in Names(b) /\ b.joints[n].kind = "revolute"
      BY <1>4, ModesAre
    <3>2. QED
      BY <1>14, <1>16, <3>1 DEF JointsMean
  <2>4. \A n \in Wheels(b) : rate[n] = WheelRate(b, t, n)
    BY <1>4
  <2>5. QED
    BY <1>17, <1>21, <1>22, <2>1, <2>2, <2>3, <2>4 DEF CommandMeans
<1>24. QED
  BY <1>1, <1>19, <1>23
-----------------------------------------------------------------------------
(* The driver, the simulation and the robot.                               *)

\* A world that was told goals and rates, and is otherwise the same.
Told(b, w, u, goal, rate) ==
    /\ u \in WorldType(b) /\ u.angle = w.angle /\ u.root = w.root
    /\ \A n \in InMode(b, "position") : u.goal[n] = goal[n]
    /\ \A n \in InMode(b, "velocity") : u.rate[n] = rate[n]

\* What is left of a command when it is normalised.
LEMMA Normalised ==
  ASSUME NEW b \in Bodies, NEW w \in WorldType(b), NEW c, NEW goal, NEW rate, NEW t, CommandMeans(b, c, goal, rate, t)
  PROVE  /\ \A n \in InMode(b, "position") : Positions(b, c)[PositionIndex(b, n)] = goal[n] /\ goal[n] \in Int
         /\ \A n \in InMode(b, "velocity") : Velocities(b, w, c)[VelocityIndex(b, n)] = rate[n] /\ rate[n] \in Int
         /\ b.base => \A i \in 1 .. 3 : Velocities(b, w, c)[i] = t[i]
<1>1. /\ c \in Commands(b)
      /\ \A n \in InMode(b, "position") : goal[n] \in Lowest .. Highest /\ c.q[PositionIndex(b, n)] = goal[n]
      /\ \A n \in InMode(b, "velocity") : /\ rate[n] \in -WheelLimit .. WheelLimit
                                         /\ rate[n] = IF c.v = Absent THEN 0 ELSE c.v[VelocityIndex(b, n)]
  BY DEF CommandMeans
<1>2. /\ InMode(b, "position") \subseteq Names(b) /\ InMode(b, "velocity") \subseteq Names(b)
      /\ \A n \in InMode(b, "position") : b.joints[n].kind = "revolute"
  BY ModesAre
<1>3. ASSUME NEW n \in InMode(b, "position")
      PROVE  Positions(b, c)[PositionIndex(b, n)] = goal[n] /\ goal[n] \in Int
  <2>1. n \in Names(b) /\ PositionIndex(b, n) \in PositionsOf(b, n)
    BY <1>2 DEF PositionsOf
  <2>2. PositionIndex(b, n) \in Coordinates(b.idxQ) /\ JointOf(b.idxQ, PositionIndex(b, n)) = JointIndex(b, n)
    BY <2>1, PositionCoordinates
  <2>3. b.kinds[JointIndex(b, n)] = "revolute"
    BY <1>2, <2>1, BodyJoints
  <2>4. Positions(b, c)[PositionIndex(b, n)] = Bounded(c.q[PositionIndex(b, n)], Lowest, Highest)
    BY <2>2, <2>3 DEF Positions
  <2>5. QED
    BY <1>1, <2>4, Limits
<1>4. ASSUME NEW n \in InMode(b, "velocity")
      PROVE  Velocities(b, w, c)[VelocityIndex(b, n)] = rate[n] /\ rate[n] \in Int
  <2>1. n \in Names(b)
    BY <1>2
  <2>2. VelocityIndex(b, n) \in Coordinates(b.idxV) /\ JointOf(b.idxV, VelocityIndex(b, n)) = JointIndex(b, n)
    BY <2>1, VelocityCoordinates
  <2>3. b.kinds[JointIndex(b, n)] # "planar"
    <3>1. b.kinds[JointIndex(b, n)] \in {"revolute", "continuous"}
      BY <2>1, BodyJoints
    <3>2. QED
      BY <3>1
  <2>4. Velocities(b, w, c)[VelocityIndex(b, n)]
          = IF c.v = Absent THEN 0 ELSE Bounded(c.v[VelocityIndex(b, n)], -WheelLimit, WheelLimit)
    BY <2>2, <2>3 DEF Velocities
  <2>5. \A x \in -WheelLimit .. WheelLimit : Bounded(x, -WheelLimit, WheelLimit) = x /\ x \in Int
    BY Limits DEF Bounded
  <2>6. QED
    BY <1>1, <2>4, <2>5
<1>5. ASSUME b.base, NEW i \in 1 .. 3
      PROVE  Velocities(b, w, c)[i] = t[i]
  <2>1. i \in Coordinates(b.idxV) /\ JointOf(b.idxV, i) = 1 /\ b.kinds[1] = "planar"
    BY <1>5, RootCoordinates, BodyJoints
  <2>2. Velocities(b, w, c)[i] = IF c.v = Absent THEN 0 ELSE c.v[i]
    BY <2>1 DEF Velocities
  <2>3. QED
    BY <1>5, <2>2 DEF CommandMeans
<1>6. QED
  BY <1>3, <1>4, <1>5

LEMMA DriverTells ==
  ASSUME NEW b \in Bodies, NEW w \in WorldType(b), NEW c, NEW goal, NEW rate, NEW t, CommandMeans(b, c, goal, rate, t)
  PROVE  /\ Told(b, w, DriverTargets(b, w, c), goal, rate)
         /\ b.base => DriverTargets(b, w, c).twist = t
<1> DEFINE u == DriverTargets(b, w, c)
           vel == Velocities(b, w, c)
           g == [n \in Names(b) |-> IF n \in InMode(b, "position") THEN Positions(b, c)[PositionIndex(b, n)] ELSE 0]
           r == [n \in Names(b) |-> IF n \in InMode(b, "velocity") THEN vel[VelocityIndex(b, n)] ELSE 0]
           s == IF b.base THEN EstimatedTwist(b, vel) ELSE w.twist
<1>1. u = [w EXCEPT !.goal = g, !.rate = r, !.twist = s]
  BY DEF DriverTargets
<1>2. /\ \A n \in InMode(b, "position") : Positions(b, c)[PositionIndex(b, n)] = goal[n] /\ goal[n] \in Int
      /\ \A n \in InMode(b, "velocity") : vel[VelocityIndex(b, n)] = rate[n] /\ rate[n] \in Int
  <2> HIDE DEF u, g, r, s
  <2>1. CommandMeans(b, c, goal, rate, t)
    OBVIOUS
  <2>2. /\ \A n \in InMode(b, "position") : Positions(b, c)[PositionIndex(b, n)] = goal[n] /\ goal[n] \in Int
        /\ \A n \in InMode(b, "velocity") : Velocities(b, w, c)[VelocityIndex(b, n)] = rate[n] /\ rate[n] \in Int
    BY <2>1, Normalised
  <2>3. QED
    BY <2>2
<1>3. InMode(b, "position") \subseteq Names(b) /\ InMode(b, "velocity") \subseteq Names(b) /\ Wheels(b) \subseteq InMode(b, "velocity")
  BY ModesAre
<1> HIDE DEF u, vel
<1>4. g \in Angles(b) /\ r \in Angles(b)
  BY <1>2, <1>3 DEF Angles
<1>5. /\ \A n \in InMode(b, "position") : g[n] = goal[n]
      /\ \A n \in InMode(b, "velocity") : r[n] = rate[n]
  BY <1>2, <1>3
<1>6. b.base => EstimatedTwist(b, vel) = t
  <2> SUFFICES ASSUME b.base PROVE EstimatedTwist(b, vel) = t
    OBVIOUS
  <2>1. \A n \in Wheels(b) : vel[VelocityIndex(b, n)] = WheelRate(b, t, n)
    BY <1>2, <1>3 DEF CommandMeans
  <2>2. t \in Twists
    BY DEF CommandMeans
  <2>3. QED
    BY <2>1, <2>2, TwistIsTold
<1>7. s \in Places /\ (b.base => s = t)
  <2>1. t \in Places
    BY TwistIs DEF CommandMeans
  <2>2. QED
    BY <1>6, <2>1 DEF WorldType
<1> HIDE DEF g, r, s
<1>8. u \in WorldType(b) /\ u.angle = w.angle /\ u.root = w.root /\ u.goal = g /\ u.rate = r /\ u.twist = s
  BY <1>1, <1>4, <1>7 DEF WorldType
<1>9. QED
  BY <1>5, <1>7, <1>8 DEF Told, u

\* The simulation's base has its target in the world; it comes to the same place.
LEMMA SimulationTells ==
  ASSUME NEW b \in Bodies, NEW w \in WorldType(b), NEW c, NEW goal, NEW rate, NEW t, CommandMeans(b, c, goal, rate, t)
  PROVE  /\ Told(b, w, SimulationTargets(b, w, c), goal, rate)
         /\ b.base => SimulatedBase(SimulationTargets(b, w, c)) = Moved(w.root, t)
<1> DEFINE u == SimulationTargets(b, w, c)
           vel == Velocities(b, w, c)
           turned == Turned(w.root[3], vel)
           g == [n \in Names(b) |-> IF n \in InMode(b, "position") THEN FromQ(b, Positions(b, c), n) ELSE 0]
           r == [n \in Names(b) |-> IF n \in InMode(b, "velocity") THEN vel[VelocityIndex(b, n)] ELSE 0]
           s == IF b.base THEN <<turned[1], turned[2], vel[3]>> ELSE w.twist
<1>1. u = [w EXCEPT !.goal = g, !.rate = r, !.twist = s]
  BY DEF SimulationTargets
<1>2. /\ \A n \in InMode(b, "position") : FromQ(b, Positions(b, c), n) = goal[n] /\ goal[n] \in Int
      /\ \A n \in InMode(b, "velocity") : vel[VelocityIndex(b, n)] = rate[n] /\ rate[n] \in Int
      /\ b.base => vel[1] = t[1] /\ vel[2] = t[2] /\ vel[3] = t[3]
  <2>1. CommandMeans(b, c, goal, rate, t)
    OBVIOUS
  <2>2. /\ \A n \in InMode(b, "position") : Positions(b, c)[PositionIndex(b, n)] = goal[n] /\ goal[n] \in Int
        /\ \A n \in InMode(b, "velocity") : Velocities(b, w, c)[VelocityIndex(b, n)] = rate[n] /\ rate[n] \in Int
        /\ b.base => \A i \in 1 .. 3 : Velocities(b, w, c)[i] = t[i]
    BY <2>1, Normalised
  <2>3. \A n \in InMode(b, "position") : b.joints[n].kind # "continuous"
    BY ModesAre
  <2>4. 1 \in 1 .. 3 /\ 2 \in 1 .. 3 /\ 3 \in 1 .. 3
    OBVIOUS
  <2>5. \A n \in InMode(b, "position") : FromQ(b, Positions(b, c), n) = Positions(b, c)[PositionIndex(b, n)]
    BY <2>3 DEF FromQ
  <2>6. vel = Velocities(b, w, c)
    OBVIOUS
  <2> HIDE DEF vel, u, g, r, s
  <2>7. QED
    BY <2>2, <2>4, <2>5, <2>6
<1>3. InMode(b, "position") \subseteq Names(b) /\ InMode(b, "velocity") \subseteq Names(b)
  BY ModesAre
<1> HIDE DEF u, vel
<1>4. g \in Angles(b) /\ r \in Angles(b)
  BY <1>2, <1>3 DEF Angles
<1>5. /\ \A n \in InMode(b, "position") : g[n] = goal[n]
      /\ \A n \in InMode(b, "velocity") : r[n] = rate[n]
  BY <1>2, <1>3
<1>6. t \in Places /\ t[1] \in Int /\ t[2] \in Int /\ t[3] \in Int
      /\ w.root \in Places /\ w.root[1] \in Int /\ w.root[2] \in Int /\ w.root[3] \in Int
  BY TwistIs DEF CommandMeans, WorldType, Places
<1>7. PICK k \in {-1, 0, 1}, l \in {-1, 0, 1} : k = Cosine(w.root[3]) /\ l = Sine(w.root[3])
  BY <1>6, SineAndCosine
<1>8. b.base => s = <<k * t[1] - l * t[2], l * t[1] + k * t[2], t[3]>>
  BY <1>2, <1>7 DEF Turned
<1>9. k * t[1] - l * t[2] \in Int /\ l * t[1] + k * t[2] \in Int
  BY <1>6, <1>7
<1>10. s \in Places
  BY <1>6, <1>8, <1>9 DEF WorldType, Places
<1> HIDE DEF g, r, s
<1>11. u \in WorldType(b) /\ u.angle = w.angle /\ u.root = w.root /\ u.goal = g /\ u.rate = r /\ u.twist = s
  BY <1>1, <1>4, <1>10 DEF WorldType
<1>12. b.base => SimulatedBase(u) = Moved(w.root, t)
  <2> SUFFICES ASSUME b.base PROVE SimulatedBase(u) = Moved(w.root, t)
    OBVIOUS
  <2>1. Moved(w.root, t) = <<w.root[1] + (Cosine(w.root[3]) * t[1] - Sine(w.root[3]) * t[2]),
                             w.root[2] + (Sine(w.root[3]) * t[1] + Cosine(w.root[3]) * t[2]), w.root[3] + t[3]>>
    BY <1>6, MovedBy
  <2>2. Moved(w.root, t) = <<w.root[1] + (k * t[1] - l * t[2]), w.root[2] + (l * t[1] + k * t[2]), w.root[3] + t[3]>>
    BY <1>7, <2>1
  <2>3. SimulatedBase(u) = <<w.root[1] + s[1], w.root[2] + s[2], w.root[3] + s[3]>>
    BY <1>11 DEF SimulatedBase
  <2>4. s[1] = k * t[1] - l * t[2] /\ s[2] = l * t[1] + k * t[2] /\ s[3] = t[3]
    BY <1>8
  <2>5. QED
    BY <2>2, <2>3, <2>4
<1>13. QED
  BY <1>5, <1>11, <1>12 DEF Told, u

\* What a bus says of an address is of the joint there.
LEMMA ReadStatesIs ==
  ASSUME NEW b \in Bodies, NEW w
  PROVE  /\ ReadStates(b, w).angle = [n \in Controlled(b) |-> w.angle[n]]
         /\ ReadStates(b, w).rate = [n \in Controlled(b) |-> w.rate[n]]
<1>1. ASSUME NEW n \in Controlled(b)
      PROVE  JointAt(b, b.joints[n].address) = n
  <2>1. \A m \in Controlled(b) : b.joints[m].address = b.joints[n].address => m = n
    BY BodyIs DEF Accepted, AddressesAccepted
  <2>2. QED
    BY <2>1 DEF JointAt
<1> DEFINE known == {JointAt(b, b.joints[n].address) : n \in Controlled(b)}
           source(n) == CHOOSE m \in Controlled(b) : JointAt(b, b.joints[m].address) = n
<1>2. known = Controlled(b)
  BY <1>1
<1>3. \A n \in Controlled(b) : source(n) = n
  BY <1>1
<1>4. ReadStates(b, w) = [angle |-> [n \in known |-> w.angle[source(n)]], rate |-> [n \in known |-> w.rate[source(n)]]]
  BY DEF ReadStates
<1> HIDE DEF known, source
<1>5. QED
  BY <1>2, <1>3, <1>4

\* A state describes the world it was made from.
StateDescribes(b, m, w) ==
    /\ m \in [q : Vectors(b), v : Rates(b)]
    /\ Describes(b, m.q, w)
    /\ \A n \in Controlled(b) : m.v[VelocityIndex(b, n)] = w.rate[n]

LEMMA StateIs ==
  ASSUME NEW b \in Bodies, NEW w \in WorldType(b), NEW ns \in SUBSET Names(b), Controlled(b) \subseteq ns,
         NEW joints, joints.angle = [x \in ns |-> w.angle[x]], joints.rate = [x \in ns |-> w.rate[x]],
         NEW root \in [position : Places, velocity : Places], b.base => root.position = w.root
  PROVE  StateDescribes(b, State(b, joints, root), w)
<1> DEFINE angle == [n \in Names(b) |-> IF n \in ns THEN joints.angle[n] ELSE 0]
<1>1. /\ joints.angle \in [ns -> Int] /\ joints.rate \in [ns -> Int]
      /\ \A n \in ns : joints.rate[n] = w.rate[n]
      /\ \A n \in ns : joints.angle[n] = w.angle[n] /\ w.angle[n] \in Int
  <2>1. \A n \in ns : w.angle[n] \in Int /\ w.rate[n] \in Int
    BY DEF WorldType, Angles
  <2>2. QED
    BY <2>1
<1>2. JointsMean(b, ToQ(b, joints.angle), angle)
  BY <1>1, ToQMeans
<1>3. angle \in Angles(b)
  BY <1>1 DEF Angles
<1>4. root.position \in Places /\ root.velocity \in Places
  OBVIOUS
<1>5. \A n \in ns : angle[n] = w.angle[n] /\ w.angle[n] \in Int
  BY <1>1
<1> HIDE DEF angle
<1> DEFINE q == WithRootQ(b, ToQ(b, joints.angle), root.position)
           v == WithRootV(b, ToV(b, joints.rate), root.velocity)
<1>6. JointsMean(b, q, angle) /\ RootMeans(b, q, root.position)
  BY <1>2, <1>3, <1>4, WithRootQMeans
<1>7. v \in Rates(b) /\ \A n \in Controlled(b) : v[VelocityIndex(b, n)] = w.rate[n]
  <2>1. /\ ToV(b, joints.rate) \in Rates(b)
        /\ \A n \in Names(b) : ToV(b, joints.rate)[VelocityIndex(b, n)] = IF n \in ns THEN joints.rate[n] ELSE 0
    <3>1. joints.rate \in [ns -> Int]
      BY <1>1
    <3>2. QED
      BY <3>1, ToVIs
  <2>2. /\ v \in Rates(b)
        /\ \A n \in Names(b) : v[VelocityIndex(b, n)] = ToV(b, joints.rate)[VelocityIndex(b, n)]
    BY <1>4, <2>1, WithRootVIs
  <2>3. QED
    BY <1>1, <2>1, <2>2
<1>8. State(b, joints, root) = [q |-> q, v |-> v]
  BY DEF State
<1> HIDE DEF q, v
<1>9. AtWorld(b, angle, root.position, w)
  <2>1. \A n \in Controlled(b) : angle[n] = w.angle[n] /\ SameAngle(angle[n], w.angle[n])
    BY <1>5, SameAsItself
  <2>2. InMode(b, "position") \subseteq Controlled(b) /\ InMode(b, "velocity") \subseteq Controlled(b)
    BY DEF InMode
  <2>3. b.base => SamePlace(root.position, w.root)
    BY <1>4, SamePlaces DEF WorldType
  <2>4. QED
    BY <2>1, <2>2, <2>3 DEF AtWorld
<1>10. Describes(b, q, w) /\ q \in Vectors(b)
  BY <1>3, <1>4, <1>6, <1>9 DEF Describes, JointsMean, Vectors
<1>11. QED
  BY <1>7, <1>8, <1>10 DEF StateDescribes

\* Time brings the world where it was told to go.
LEMMA Arrives ==
  ASSUME NEW b \in Bodies, NEW w \in WorldType(b), NEW u \in WorldType(b), NEW q, NEW goal, NEW rate, NEW t \in Places,
         Foresees(b, q, w, goal, rate, t),
         \A n \in InMode(b, "position") : u.angle[n] = goal[n],
         \A n \in InMode(b, "velocity") : u.angle[n] = (w.angle[n] + rate[n]) % 4 /\ rate[n] \in Int,
         b.base => u.root = Moved(w.root, t)
  PROVE  Describes(b, q, u)
<1>1. PICK angle \in Angles(b), p \in Places :
        JointsMean(b, q, angle) /\ RootMeans(b, q, p) /\ Ahead(b, angle, p, w, goal, rate, t)
  BY DEF Foresees
<1>2. ASSUME NEW n \in InMode(b, "velocity")
      PROVE  SameAngle(angle[n], u.angle[n])
  <2>1. n \in Names(b)
    BY DEF InMode, Controlled
  <2>2. angle[n] \in Int /\ w.angle[n] \in Int /\ u.angle[n] \in Int /\ rate[n] \in Int
    BY <2>1 DEF Angles, WorldType
  <2>3. PICK x \in Int : x = w.angle[n] + rate[n]
    BY <2>2
  <2>4. SameAngle(angle[n], x) /\ u.angle[n] = x % 4
    BY <1>1, <2>3 DEF Ahead
  <2>5. SameAngle(x, u.angle[n])
    BY <2>2, <2>4, SameRest, SameBackwards
  <2>6. QED
    BY <2>2, <2>4, <2>5, SameOnwards
<1>3. AtWorld(b, angle, p, u)
  BY <1>1, <1>2 DEF AtWorld, Ahead
<1>4. QED
  BY <1>1, <1>3 DEF Describes
-----------------------------------------------------------------------------
(* The invariant.                                                          *)

\* A world at rest: every goal is reached, nothing moves.
Still(b, w) ==
    /\ \A n \in InMode(b, "position") : w.goal[n] = w.angle[n]
    /\ \A n \in Names(b) : w.rate[n] = 0
    /\ w.twist = <<0, 0, 0>>

\* Before the first robot is accepted, and when the last has been left.
Empty == body = Absent /\ rounds = 0 /\ Nothing

RobotTyped ==
    /\ body \in Bodies
    /\ world \in WorldType(body) /\ WithinLimits(body, world)
    /\ believedRoot \in [position : Places, velocity : Places]
    /\ measured = Absent \/ measured \in [q : Vectors(body), v : Rates(body)]
    /\ model = Absent \/ model \in Vectors(body)
    /\ jointCommand = Absent \/ jointCommand \in Commands(body)

\* Until the first command the robot rests, and nobody wants anything.
Uncommanded ==
    /\ rounds = 0 => jointCommand = Absent
    /\ jointCommand = Absent => Still(body, world) /\ wanted = Absent
    /\ jointCommand = Absent /\ stage \in {"drive", "time"} => model = Absent

\* The command under way means what is wanted, and the controllers' model is where it leads.
UnderWay ==
    jointCommand # Absent /\ stage = "drive" =>
        \E t \in Twists :
            /\ CommandMeans(body, jointCommand, wanted.angle, wanted.rate, t)
            /\ model # Absent => Foresees(body, model, world, wanted.angle, wanted.rate, t)

\* Once it is received, the actuators have it.
Obeyed ==
    jointCommand # Absent /\ stage # "drive" =>
        /\ \A n \in InMode(body, "position") : world.goal[n] = wanted.angle[n]
        /\ \A n \in InMode(body, "velocity") : world.rate[n] = wanted.rate[n]

\* The believed root is the robot's, one unit of time behind when its state was not read since.
Reckoned ==
    runtime = "real" /\ body.base =>
        IF stage = "time" THEN believedRoot = [position |-> world.root, velocity |-> world.twist]
        ELSE world.root = Moved(believedRoot.position, believedRoot.velocity)

\* What is known of the robot at each stage.
Known ==
    /\ stage = "time" => /\ runtime = "real"
                         /\ model # Absent => Foresees(body, model, world, world.goal, world.rate, world.twist)
    /\ stage = "time" \/ (stage \in {"follow", "control"} /\ runtime = "simulation") => StateDescribes(body, measured, world)
    /\ stage = "follow" /\ rounds = 0 => Describes(body, measured.q, world)
    /\ stage = "control" => Describes(body, model, world)

OnItsWay == RobotTyped /\ Uncommanded /\ UnderWay /\ Obeyed /\ Reckoned /\ Known

DataPathInv ==
    /\ stage \in DataPathStages /\ runtime \in {"real", "simulation"} /\ rounds \in 0 .. MaxRounds
    /\ IF stage \in {"configure", "end"} THEN Empty ELSE OnItsWay

-----------------------------------------------------------------------------
(* The world, a unit of time later.                                        *)

LEMMA TellsAhead ==
  ASSUME NEW b \in Bodies, NEW w \in WorldType(b), NEW u, NEW q, NEW goal, NEW rate, NEW t,
         Foresees(b, q, w, goal, rate, t), Told(b, w, u, goal, rate), b.base => u.twist = t
  PROVE  Foresees(b, q, u, u.goal, u.rate, u.twist)
<1>1. PICK angle \in Angles(b), p \in Places :
        JointsMean(b, q, angle) /\ RootMeans(b, q, p) /\ Ahead(b, angle, p, w, goal, rate, t)
  BY DEF Foresees
<1>2. Ahead(b, angle, p, u, u.goal, u.rate, u.twist)
  BY <1>1 DEF Ahead, Told
<1>3. QED
  BY <1>1, <1>2 DEF Foresees

\* A robot at rest is where it goes.
LEMMA Rests ==
  ASSUME NEW b \in Bodies, NEW w \in WorldType(b), NEW q, Describes(b, q, w), Still(b, w)
  PROVE  Foresees(b, q, w, w.goal, w.rate, w.twist)
<1>1. PICK angle \in Angles(b), p \in Places : JointsMean(b, q, angle) /\ RootMeans(b, q, p) /\ AtWorld(b, angle, p, w)
  BY DEF Describes
<1>2. ASSUME NEW n \in InMode(b, "velocity")
      PROVE  w.angle[n] + w.rate[n] = w.angle[n]
  <2>1. n \in Names(b)
    BY DEF InMode, Controlled
  <2>2. w.rate[n] = 0 /\ w.angle[n] \in Int
    BY <2>1 DEF Still, WorldType, Angles
  <2>3. QED
    BY <2>2
<1>3. Moved(w.root, w.twist) = w.root
  <2>1. w.root \in Places /\ <<0, 0, 0>> \in Places
    BY DEF WorldType, Places
  <2>2. QED
    BY <2>1, MovedBy DEF Still
<1>4. Ahead(b, angle, p, w, w.goal, w.rate, w.twist)
  BY <1>1, <1>2, <1>3 DEF Ahead, AtWorld, Still
<1>5. QED
  BY <1>1, <1>4 DEF Foresees

LEMMA JointsMovedIs ==
  ASSUME NEW b \in Bodies, NEW w \in WorldType(b)
  PROVE  /\ JointsMoved(b, w) \in Angles(b)
         /\ \A n \in InMode(b, "position") : JointsMoved(b, w)[n] = w.goal[n]
         /\ \A n \in InMode(b, "velocity") : JointsMoved(b, w)[n] = (w.angle[n] + w.rate[n]) % 4 /\ w.rate[n] \in Int
<1>1. /\ InMode(b, "position") \subseteq Names(b) /\ InMode(b, "velocity") \subseteq Names(b)
      /\ InMode(b, "position") \cap InMode(b, "velocity") = {}
  BY ModesAre
<1>2. ASSUME NEW n \in Names(b)
      PROVE  w.goal[n] \in Int /\ w.rate[n] \in Int /\ (w.angle[n] + w.rate[n]) % 4 \in Int
  <2>1. w.goal[n] \in Int /\ w.rate[n] \in Int /\ w.angle[n] \in Int
    BY DEF WorldType, Angles
  <2>2. PICK x \in Int : x = w.angle[n] + w.rate[n]
    BY <2>1
  <2>3. x % 4 \in Int
    BY Turns
  <2>4. QED
    BY <2>1, <2>2, <2>3
<1>3. JointsMoved(b, w) \in Angles(b)
  BY <1>2 DEF JointsMoved, Angles
<1>4. QED
  BY <1>1, <1>2, <1>3 DEF JointsMoved

\* A world that moved on, from one where the goals are within the limits.
LEMMA MovedOn ==
  ASSUME NEW b \in Bodies, NEW w \in WorldType(b), \A n \in InMode(b, "position") : w.goal[n] \in Lowest .. Highest,
         NEW root \in Places, NEW u, u = [angle |-> JointsMoved(b, w), goal |-> w.goal, rate |-> w.rate,
                                          root |-> root, twist |-> w.twist]
  PROVE  /\ u \in WorldType(b) /\ WithinLimits(b, u)
         /\ u.goal = w.goal /\ u.rate = w.rate /\ u.twist = w.twist /\ u.root = root
         /\ \A n \in InMode(b, "position") : u.angle[n] = w.goal[n]
         /\ \A n \in InMode(b, "velocity") : u.angle[n] = (w.angle[n] + w.rate[n]) % 4 /\ w.rate[n] \in Int
         /\ Still(b, w) => Still(b, u)
<1> DEFINE moved == JointsMoved(b, w)
<1>1. /\ moved \in Angles(b)
      /\ \A n \in InMode(b, "position") : moved[n] = w.goal[n]
      /\ \A n \in InMode(b, "velocity") : moved[n] = (w.angle[n] + w.rate[n]) % 4 /\ w.rate[n] \in Int
  BY JointsMovedIs
<1>2. u = [angle |-> moved, goal |-> w.goal, rate |-> w.rate, root |-> root, twist |-> w.twist]
  OBVIOUS
<1> HIDE DEF moved
<1>3. /\ u \in WorldType(b)
      /\ u.angle = moved /\ u.goal = w.goal /\ u.rate = w.rate /\ u.twist = w.twist /\ u.root = root
  BY <1>1, <1>2 DEF WorldType
<1>4. WithinLimits(b, u)
  BY <1>1, <1>3 DEF WithinLimits
<1>5. Still(b, w) => Still(b, u)
  BY <1>1, <1>3 DEF Still
<1>6. QED
  BY <1>1, <1>3, <1>4, <1>5

\* A goal that was asked for is within the limits.
LEMMA ToldWithinLimits ==
  ASSUME NEW b \in Bodies, NEW w, NEW u, WithinLimits(b, w), NEW c, NEW goal, NEW rate, NEW t,
         CommandMeans(b, c, goal, rate, t), Told(b, w, u, goal, rate)
  PROVE  WithinLimits(b, u)
BY DEF WithinLimits, CommandMeans, Told

-----------------------------------------------------------------------------
(* The steps.                                                              *)

LEMMA Configured ==
  ASSUME DataPathInv, NEW b \in Candidates, NEW r \in {"real", "simulation"}, Configure(b, r)
  PROVE  DataPathInv'
<1>1. /\ stage = "configure" /\ Accepted(b) /\ body' = Robot(b) /\ runtime' = r /\ stage' = "drive"
      /\ world' = HomeWorld(b) /\ believedRoot' = [position |-> <<0, 0, 0>>, velocity |-> <<0, 0, 0>>]
      /\ UNCHANGED <<rounds, measured, model, jointCommand, wanted>>
  BY DEF Configure
<1>2. rounds = 0 /\ measured = Absent /\ model = Absent /\ jointCommand = Absent /\ wanted = Absent /\ 0 \in 0 .. MaxRounds
  BY <1>1 DEF DataPathInv, Empty, Nothing
<1>3. body' \in Bodies /\ Names(b) = Names(body') /\ b.home = body'.home
  BY <1>1 DEF Bodies, Robot, Names
<1>4. world' = [angle |-> body'.home, goal |-> body'.home, rate |-> [n \in Names(body') |-> 0],
                root |-> <<0, 0, 0>>, twist |-> <<0, 0, 0>>]
  BY <1>1, <1>3 DEF HomeWorld, Rest
<1> DEFINE z == <<0, 0, 0>>
<1>5. z \in Places /\ Moved(z, z) = z
  <2>1. z \in Places
    BY DEF Places
  <2>2. QED
    BY <2>1, MovedBy
<1>6. /\ body'.home \in Angles(body')
      /\ \A n \in InMode(body', "position") : body'.home[n] \in Lowest .. Highest
  BY <1>3, ModesAre
<1> HIDE DEF z
<1>7. world' = [angle |-> body'.home, goal |-> body'.home, rate |-> [n \in Names(body') |-> 0], root |-> z, twist |-> z]
      /\ believedRoot' = [position |-> z, velocity |-> z]
  BY <1>1, <1>4 DEF z
<1>8. world' \in WorldType(body') /\ WithinLimits(body', world')
  BY <1>5, <1>6, <1>7 DEF WorldType, WithinLimits, Angles
<1>9. Still(body', world')
  BY <1>7 DEF Still, z
<1>10. RobotTyped'
  BY <1>1, <1>2, <1>3, <1>5, <1>7, <1>8 DEF RobotTyped
<1>11. Uncommanded' /\ UnderWay' /\ Obeyed'
  BY <1>1, <1>2, <1>9 DEF Uncommanded, UnderWay, Obeyed
<1>12. Reckoned' /\ Known'
  BY <1>1, <1>5, <1>7 DEF Reckoned, Known
<1>13. stage' \in DataPathStages /\ runtime' \in {"real", "simulation"} /\ rounds' \in 0 .. MaxRounds
  BY <1>1, <1>2, DataPathAssumption DEF DataPathStages
<1>14. QED
  BY <1>1, <1>10, <1>11, <1>12, <1>13 DEF DataPathInv, OnItsWay

LEMMA DriverSteps ==
  ASSUME DataPathInv, RobotDriverStep
  PROVE  DataPathInv'
<1> DEFINE joints == ReadStates(body, world')
<1>1. /\ stage = "drive" /\ runtime = "real" /\ stage' = "time"
      /\ world' = IF jointCommand = Absent THEN world ELSE DriverTargets(body, world, jointCommand)
      /\ believedRoot' = RootEstimate(body, believedRoot, ToV(body, joints.rate))
      /\ measured' = State(body, joints, believedRoot')
      /\ UNCHANGED <<body, runtime, rounds, model, jointCommand, wanted>>
  BY DEF RobotDriverStep
<1>2. /\ RobotTyped /\ Uncommanded /\ UnderWay /\ Reckoned
      /\ runtime \in {"real", "simulation"} /\ rounds \in 0 .. MaxRounds
  BY <1>1 DEF DataPathInv, OnItsWay
<1>3. /\ body \in Bodies /\ world \in WorldType(body) /\ WithinLimits(body, world)
      /\ believedRoot \in [position : Places, velocity : Places]
      /\ model = Absent \/ model \in Vectors(body)
      /\ jointCommand = Absent \/ jointCommand \in Commands(body)
  BY <1>2 DEF RobotTyped
<1> HIDE DEF joints
<1>4. ASSUME jointCommand # Absent
      PROVE  /\ Told(body, world, world', wanted.angle, wanted.rate) /\ WithinLimits(body, world')
             /\ body.base => \E t \in Twists : world'.twist = t /\ \A n \in Wheels(body) : world'.rate[n] = WheelRate(body, t, n)
             /\ model # Absent => Foresees(body, model, world', world'.goal, world'.rate, world'.twist)
  <2>1. PICK t \in Twists : /\ CommandMeans(body, jointCommand, wanted.angle, wanted.rate, t)
                            /\ model # Absent => Foresees(body, model, world, wanted.angle, wanted.rate, t)
    BY <1>1, <1>2, <1>4 DEF UnderWay
  <2>2. world' = DriverTargets(body, world, jointCommand)
    BY <1>1, <1>4
  <2>3. Told(body, world, world', wanted.angle, wanted.rate) /\ (body.base => world'.twist = t)
    BY <1>3, <2>1, <2>2, DriverTells
  <2>4. WithinLimits(body, world')
    BY <1>3, <2>1, <2>3, ToldWithinLimits
  <2>5. body.base => \A n \in Wheels(body) : world'.rate[n] = WheelRate(body, t, n)
    BY <1>3, <2>1, <2>3, WheelsAre DEF Told, CommandMeans
  <2>6. model # Absent => Foresees(body, model, world', world'.goal, world'.rate, world'.twist)
    BY <1>3, <2>1, <2>3, TellsAhead
  <2>7. QED
    BY <2>3, <2>4, <2>5, <2>6
<1>5. ASSUME jointCommand = Absent
      PROVE  /\ world' = world /\ Still(body, world') /\ model = Absent
             /\ \E t \in Twists : world'.twist = t /\ \A n \in Wheels(body) : world'.rate[n] = WheelRate(body, t, n)
  <2>1. world' = world /\ Still(body, world') /\ model = Absent
    BY <1>1, <1>2, <1>5 DEF Uncommanded
  <2>2. \A n \in Wheels(body) : WheelRate(body, <<0, 0, 0>>, n) = 0 /\ world'.rate[n] = 0
    <3>1. Wheels(body) \subseteq Names(body)
      BY <1>3, ModesAre
    <3>2. \A n \in Wheels(body) : WheelRate(body, <<0, 0, 0>>, n) = 0
      BY <1>3, NoTwist
    <3>3. QED
      BY <2>1, <3>1, <3>2 DEF Still
  <2>3. <<0, 0, 0>> \in Twists /\ world'.twist = <<0, 0, 0>>
    BY <2>1, TwistsArePlaces DEF Still
  <2>4. QED
    BY <2>1, <2>2, <2>3
<1>6. world' \in WorldType(body) /\ WithinLimits(body, world') /\ world'.root = world.root
  BY <1>3, <1>4, <1>5 DEF Told
<1>7. /\ joints.angle = [n \in Controlled(body) |-> world'.angle[n]]
      /\ joints.rate = [n \in Controlled(body) |-> world'.rate[n]]
  BY <1>3, ReadStatesIs DEF joints
<1>8. Controlled(body) \subseteq Names(body) /\ Wheels(body) \subseteq Controlled(body)
  BY <1>3, ModesAre
<1>9. ASSUME body.base
      PROVE  believedRoot' = [position |-> world'.root, velocity |-> world'.twist]
  <2>1. PICK t \in Twists : world'.twist = t /\ \A n \in Wheels(body) : world'.rate[n] = WheelRate(body, t, n)
    BY <1>4, <1>5, <1>9
  <2>2. \A n \in Wheels(body) : ToV(body, joints.rate)[VelocityIndex(body, n)] = WheelRate(body, t, n)
    <3>1. joints.rate \in [Controlled(body) -> Int]
      BY <1>6, <1>7, <1>8 DEF WorldType, Angles
    <3>2. \A n \in Names(body) : ToV(body, joints.rate)[VelocityIndex(body, n)]
                                   = IF n \in Controlled(body) THEN joints.rate[n] ELSE 0
      BY <1>3, <1>8, <3>1, ToVIs
    <3>3. QED
      BY <1>7, <1>8, <2>1, <3>2
  <2>3. EstimatedTwist(body, ToV(body, joints.rate)) = t
    BY <1>3, <1>9, <2>2, TwistIsTold
  <2>4. world.root = Moved(believedRoot.position, believedRoot.velocity)
    BY <1>1, <1>2, <1>9 DEF Reckoned
  <2>5. QED
    BY <1>1, <1>3, <1>6, <1>9, <2>1, <2>3, <2>4 DEF RootEstimate, DeadReckoned
<1>10. believedRoot' \in [position : Places, velocity : Places]
  <2>1. CASE body.base
    BY <1>6, <1>9, <2>1 DEF WorldType
  <2>2. CASE ~body.base
    BY <1>1, <1>3, <2>2 DEF RootEstimate
  <2>3. QED
    BY <2>1, <2>2
<1>11. StateDescribes(body, measured', world')
  <2>1. body.base => believedRoot'.position = world'.root
    BY <1>9
  <2>2. QED
    BY <1>1, <1>3, <1>6, <1>7, <1>8, <1>10, <2>1, StateIs
<1>12. RobotTyped'
  BY <1>1, <1>3, <1>6, <1>10, <1>11 DEF RobotTyped, StateDescribes
<1>13. Uncommanded' /\ UnderWay'
  BY <1>1, <1>2, <1>5 DEF Uncommanded, UnderWay
<1>14. Obeyed' /\ Reckoned'
  BY <1>1, <1>4, <1>9 DEF Obeyed, Reckoned, Told
<1>15. Known'
  BY <1>1, <1>4, <1>5, <1>11 DEF Known
<1>16. QED
  BY <1>1, <1>2, <1>12, <1>13, <1>14, <1>15 DEF DataPathInv, OnItsWay, DataPathStages

LEMMA TimeSteps ==
  ASSUME DataPathInv, TimePasses
  PROVE  DataPathInv'
<1>1. /\ stage = "time" /\ stage' = IF model = Absent THEN "follow" ELSE "control"
      /\ world' = [world EXCEPT !.angle = JointsMoved(body, world), !.root = Moved(world.root, world.twist)]
      /\ UNCHANGED <<body, runtime, rounds, believedRoot, measured, model, jointCommand, wanted>>
  BY DEF TimePasses
<1>2. /\ RobotTyped /\ Uncommanded /\ Obeyed /\ Reckoned /\ Known
      /\ runtime \in {"real", "simulation"} /\ rounds \in 0 .. MaxRounds
  BY <1>1 DEF DataPathInv, OnItsWay
<1>3. /\ body \in Bodies /\ world \in WorldType(body) /\ WithinLimits(body, world)
      /\ Moved(world.root, world.twist) \in Places /\ world.twist \in Places
  BY <1>2, MovedBy DEF RobotTyped, WorldType
<1>4. /\ world' \in WorldType(body) /\ WithinLimits(body, world')
      /\ world'.goal = world.goal /\ world'.rate = world.rate /\ world'.twist = world.twist
      /\ world'.root = Moved(world.root, world.twist)
      /\ \A n \in InMode(body, "position") : world'.angle[n] = world.goal[n]
      /\ \A n \in InMode(body, "velocity") : world'.angle[n] = (world.angle[n] + world.rate[n]) % 4 /\ world.rate[n] \in Int
      /\ Still(body, world) => Still(body, world')
  <2>1. \A n \in InMode(body, "position") : world.goal[n] \in Lowest .. Highest
    BY <1>3 DEF WithinLimits
  <2>2. world' = [angle |-> JointsMoved(body, world), goal |-> world.goal, rate |-> world.rate,
                  root |-> Moved(world.root, world.twist), twist |-> world.twist]
    BY <1>1, <1>3 DEF WorldType
  <2>3. QED
    BY <1>3, <2>1, <2>2, MovedOn
<1>5. runtime = "real" /\ StateDescribes(body, measured, world)
      /\ (model # Absent => Foresees(body, model, world, world.goal, world.rate, world.twist))
  BY <1>1, <1>2 DEF Known
<1>6. model # Absent => Describes(body, model, world')
  BY <1>3, <1>4, <1>5, Arrives
<1>7. rounds = 0 => Describes(body, measured.q, world')
  <2> SUFFICES ASSUME rounds = 0 PROVE Describes(body, measured.q, world')
    OBVIOUS
  <2>1. Still(body, world)
    BY <1>2 DEF Uncommanded
  <2>2. Describes(body, measured.q, world)
    BY <1>5 DEF StateDescribes
  <2>3. Foresees(body, measured.q, world, world.goal, world.rate, world.twist)
    BY <1>3, <2>1, <2>2, Rests
  <2>4. QED
    BY <1>3, <1>4, <2>3, Arrives
<1>8. RobotTyped'
  BY <1>1, <1>2, <1>4 DEF RobotTyped
<1>9. Uncommanded' /\ UnderWay' /\ Obeyed'
  BY <1>1, <1>2, <1>4 DEF Uncommanded, UnderWay, Obeyed
<1>10. Reckoned'
  BY <1>1, <1>2, <1>4 DEF Reckoned
<1>11. Known'
  BY <1>1, <1>5, <1>6, <1>7 DEF Known
<1>12. QED
  BY <1>1, <1>2, <1>8, <1>9, <1>10, <1>11 DEF DataPathInv, OnItsWay, DataPathStages

LEMMA SimulationSteps ==
  ASSUME DataPathInv, SimulationStep
  PROVE  DataPathInv'
<1> DEFINE w == IF jointCommand = Absent THEN world ELSE SimulationTargets(body, world, jointCommand)
<1>1. /\ stage = "drive" /\ runtime = "simulation" /\ stage' = IF model = Absent THEN "follow" ELSE "control"
      /\ world' = [w EXCEPT !.angle = JointsMoved(body, w), !.root = SimulatedBase(w)]
      /\ measured' = State(body, world', SimulatedRoot(world'))
      /\ UNCHANGED <<body, runtime, rounds, believedRoot, model, jointCommand, wanted>>
  BY DEF SimulationStep
<1>2. /\ RobotTyped /\ Uncommanded /\ UnderWay /\ Reckoned
      /\ runtime \in {"real", "simulation"} /\ rounds \in 0 .. MaxRounds
  BY <1>1 DEF DataPathInv, OnItsWay
<1>3. body \in Bodies /\ world \in WorldType(body) /\ WithinLimits(body, world)
  BY <1>2 DEF RobotTyped
<1>4. ASSUME jointCommand # Absent
      PROVE  /\ Told(body, world, w, wanted.angle, wanted.rate) /\ WithinLimits(body, w)
             /\ \E t \in Twists : /\ body.base => SimulatedBase(w) = Moved(world.root, t)
                                  /\ model # Absent => Foresees(body, model, world, wanted.angle, wanted.rate, t)
  <2>1. PICK t \in Twists : /\ CommandMeans(body, jointCommand, wanted.angle, wanted.rate, t)
                            /\ model # Absent => Foresees(body, model, world, wanted.angle, wanted.rate, t)
    BY <1>1, <1>2, <1>4 DEF UnderWay
  <2>2. w = SimulationTargets(body, world, jointCommand)
    BY <1>4
  <2> HIDE DEF w
  <2>3. Told(body, world, w, wanted.angle, wanted.rate) /\ (body.base => SimulatedBase(w) = Moved(world.root, t))
    BY <1>3, <2>1, <2>2, SimulationTells
  <2>4. WithinLimits(body, w)
    BY <1>3, <2>1, <2>3, ToldWithinLimits
  <2>5. QED
    BY <2>1, <2>3, <2>4
<1>5. ASSUME jointCommand = Absent
      PROVE  w = world /\ Still(body, w) /\ model = Absent
  BY <1>1, <1>2, <1>5 DEF Uncommanded
<1> HIDE DEF w
<1>6. w \in WorldType(body) /\ WithinLimits(body, w)
  BY <1>3, <1>4, <1>5 DEF Told
<1>7. SimulatedBase(w) \in Places
  <2>1. /\ w.root[1] \in Int /\ w.root[2] \in Int /\ w.root[3] \in Int
        /\ w.twist[1] \in Int /\ w.twist[2] \in Int /\ w.twist[3] \in Int
    BY <1>6 DEF WorldType, Places
  <2>2. QED
    BY <2>1 DEF SimulatedBase, Places
<1>8. /\ world' \in WorldType(body) /\ WithinLimits(body, world')
      /\ world'.goal = w.goal /\ world'.rate = w.rate /\ world'.root = SimulatedBase(w)
      /\ \A n \in InMode(body, "position") : world'.angle[n] = w.goal[n]
      /\ \A n \in InMode(body, "velocity") : world'.angle[n] = (w.angle[n] + w.rate[n]) % 4 /\ w.rate[n] \in Int
      /\ Still(body, w) => Still(body, world')
  <2>1. \A n \in InMode(body, "position") : w.goal[n] \in Lowest .. Highest
    BY <1>6 DEF WithinLimits
  <2>2. world' = [angle |-> JointsMoved(body, w), goal |-> w.goal, rate |-> w.rate,
                  root |-> SimulatedBase(w), twist |-> w.twist]
    BY <1>1, <1>6 DEF WorldType
  <2>3. QED
    BY <1>3, <1>6, <1>7, <2>1, <2>2, MovedOn
<1>9. StateDescribes(body, measured', world')
  <2>1. SimulatedRoot(world') \in [position : Places, velocity : Places]
    <3>1. /\ world'.root \in Places /\ world'.root[3] \in Int
          /\ world'.twist[1] \in Int /\ world'.twist[2] \in Int /\ world'.twist[3] \in Int
      BY <1>8 DEF WorldType, Places
    <3>2. PICK yaw \in Int : yaw = -world'.root[3]
      BY <3>1
    <3>3. PICK k \in {-1, 0, 1}, l \in {-1, 0, 1} : k = Cosine(yaw) /\ l = Sine(yaw)
      BY SineAndCosine
    <3>4. k * world'.twist[1] - l * world'.twist[2] \in Int /\ l * world'.twist[1] + k * world'.twist[2] \in Int
      BY <3>1
    <3>5. Turned(yaw, world'.twist) = <<k * world'.twist[1] - l * world'.twist[2], l * world'.twist[1] + k * world'.twist[2]>>
      BY <3>3 DEF Turned
    <3>6. QED
      BY <3>1, <3>2, <3>4, <3>5 DEF SimulatedRoot, Places
  <2>2. SimulatedRoot(world').position = world'.root
    BY DEF SimulatedRoot
  <2>3. Controlled(body) \subseteq Names(body)
    BY <1>3, ModesAre
  <2>4. world'.angle = [n \in Names(body) |-> world'.angle[n]] /\ world'.rate = [n \in Names(body) |-> world'.rate[n]]
    BY <1>8 DEF WorldType, Angles
  <2>5. body \in Bodies /\ world' \in WorldType(body) /\ Names(body) \in SUBSET Names(body)
    BY <1>3, <1>8
  <2>6. QED
    BY <1>1, <2>1, <2>2, <2>3, <2>4, <2>5, StateIs
<1>10. ASSUME model # Absent
       PROVE  Describes(body, model, world')
  <2>1. jointCommand # Absent
    BY <1>5, <1>10
  <2>2. PICK t \in Twists : /\ body.base => SimulatedBase(w) = Moved(world.root, t)
                            /\ Foresees(body, model, world, wanted.angle, wanted.rate, t)
    BY <1>4, <1>10, <2>1
  <2>3. t \in Places
    BY TwistIs
  <2>4. Told(body, world, w, wanted.angle, wanted.rate)
    BY <1>4, <2>1
  <2>5. \A n \in InMode(body, "position") : world'.angle[n] = wanted.angle[n]
    BY <1>8, <2>4 DEF Told
  <2>6. \A n \in InMode(body, "velocity") : /\ world'.angle[n] = (world.angle[n] + wanted.rate[n]) % 4
                                            /\ wanted.rate[n] \in Int
    BY <1>8, <2>4 DEF Told
  <2>7. body.base => world'.root = Moved(world.root, t)
    BY <1>8, <2>2
  <2>8. QED
    BY <1>3, <1>8, <2>2, <2>3, <2>5, <2>6, <2>7, Arrives
<1>11. RobotTyped'
  BY <1>1, <1>2, <1>8, <1>9 DEF RobotTyped, StateDescribes
<1>12. Uncommanded' /\ UnderWay'
  BY <1>1, <1>2, <1>5, <1>8 DEF Uncommanded, UnderWay
<1>13. Obeyed' /\ Reckoned'
  BY <1>1, <1>4, <1>8 DEF Obeyed, Reckoned, Told
<1>14. Known'
  <2>1. Describes(body, measured'.q, world')
    BY <1>9 DEF StateDescribes
  <2>2. QED
    BY <1>1, <1>9, <1>10, <2>1 DEF Known
<1>15. QED
  BY <1>1, <1>2, <1>11, <1>12, <1>13, <1>14 DEF DataPathInv, OnItsWay, DataPathStages

LEMMA FollowSteps ==
  ASSUME DataPathInv, Follow
  PROVE  DataPathInv'
<1>1. /\ stage = "follow" /\ rounds = 0 /\ model' = measured.q /\ stage' = "control"
      /\ UNCHANGED <<body, runtime, rounds, world, believedRoot, measured, jointCommand, wanted>>
  BY DEF Follow
<1>2. /\ RobotTyped /\ Uncommanded /\ Obeyed /\ Reckoned /\ Known
      /\ runtime \in {"real", "simulation"} /\ rounds \in 0 .. MaxRounds
  BY <1>1 DEF DataPathInv, OnItsWay
<1>3. Describes(body, model', world')
  BY <1>1, <1>2 DEF Known
<1>4. RobotTyped'
  <2>1. model' \in Vectors(body)
    BY <1>3 DEF Describes, JointsMean, Vectors
  <2>2. QED
    BY <1>1, <1>2, <2>1 DEF RobotTyped
<1>5. Uncommanded' /\ UnderWay' /\ Obeyed' /\ Reckoned'
  BY <1>1, <1>2 DEF Uncommanded, UnderWay, Obeyed, Reckoned
<1>6. Known'
  BY <1>1, <1>2, <1>3 DEF Known
<1>7. QED
  BY <1>1, <1>2, <1>4, <1>5, <1>6 DEF DataPathInv, OnItsWay, DataPathStages

LEMMA PeriodSteps ==
  ASSUME DataPathInv, stage = "control", NEW motion \in ArmMotions(body), NEW target \in GripperTargets(body),
         NEW twist \in BaseTwists(body), ControlPeriod(motion, target, twist)
  PROVE  DataPathInv'
<1> DEFINE t == ScaledTwist(body, twist)
           held == Held(body, target)
           merged == Merged(body, held, ToV(body, motion), BaseVelocity(body, t))
           goal == [n \in Names(body) |-> IF n \in Gripper(body) /\ target # Absent THEN Bounded(target, Lowest, Highest)
                                          ELSE world.angle[n] + motion[n]]
           rate == [n \in Names(body) |-> IF n \in Wheels(body) THEN WheelRate(body, t, n) ELSE 0]
<1>1. /\ rounds < MaxRounds /\ rounds' = rounds + 1 /\ stage' = "drive"
      /\ \A n \in Arm(body) : world.angle[n] + motion[n] \in Travel
      /\ model' = merged[1] /\ jointCommand' = [q |-> merged[1], v |-> merged[2]]
      /\ wanted' = [angle |-> goal, rate |-> rate]
      /\ UNCHANGED <<body, runtime, world, believedRoot, measured>>
  BY DEF ControlPeriod, WithinTravel
<1>2. /\ RobotTyped /\ Reckoned /\ Known
      /\ runtime \in {"real", "simulation"} /\ rounds \in 0 .. MaxRounds
  BY DEF DataPathInv, OnItsWay
<1>3. body \in Bodies /\ world \in WorldType(body) /\ WithinLimits(body, world) /\ Describes(body, model, world)
  BY <1>2 DEF RobotTyped, Known
<1>4. t \in Twists /\ \A n \in Wheels(body) : WheelRate(body, t, n) \in -WheelLimit .. WheelLimit
  <2>1. twist \in Twists
    BY TwistsArePlaces DEF BaseTwists
  <2>2. QED
    BY <1>3, <2>1, ScaledFits
<1>5. held = IF target = Absent THEN model ELSE GripperControl(body, model, target)
  BY DEF Held
<1> HIDE DEF t, held
<1>6. CommandMeans(body, [q |-> merged[1], v |-> merged[2]], goal, rate, t) /\ Foresees(body, merged[1], world, goal, rate, t)
  <2>1. PICK m : m = merged
    OBVIOUS
  <2>2. PICK g : g = goal
    OBVIOUS
  <2>3. PICK r : r = rate
    OBVIOUS
  <2>4. /\ m = Merged(body, held, ToV(body, motion), BaseVelocity(body, t))
        /\ g = [n \in Names(body) |-> IF n \in Gripper(body) /\ target # Absent THEN Bounded(target, Lowest, Highest)
                                      ELSE world.angle[n] + motion[n]]
        /\ r = [n \in Names(body) |-> IF n \in Wheels(body) THEN WheelRate(body, t, n) ELSE 0]
    BY <2>1, <2>2, <2>3
  <2> HIDE DEF merged, goal, rate
  <2>5. CommandMeans(body, [q |-> m[1], v |-> m[2]], g, r, t) /\ Foresees(body, m[1], world, g, r, t)
    BY <1>1, <1>3, <1>4, <1>5, <2>4, PeriodMeans
  <2>6. QED
    BY <2>1, <2>2, <2>3, <2>5
<1> HIDE DEF merged, goal, rate
<1>7. /\ CommandMeans(body, jointCommand', wanted'.angle, wanted'.rate, t)
      /\ Foresees(body, model', world, wanted'.angle, wanted'.rate, t)
  BY <1>1, <1>6
<1>8. jointCommand' \in Commands(body) /\ jointCommand' # Absent
  BY <1>3, <1>7, VectorsAreSequences DEF CommandMeans
<1>9. model' \in Vectors(body)
  BY <1>7 DEF Foresees, JointsMean, Vectors
<1>10. rounds' \in 0 .. MaxRounds /\ rounds' # 0
  BY <1>1, <1>2, DataPathAssumption
<1>11. RobotTyped'
  BY <1>1, <1>2, <1>8, <1>9 DEF RobotTyped
<1>12. Uncommanded' /\ Obeyed'
  BY <1>1, <1>8, <1>10 DEF Uncommanded, Obeyed
<1>13. UnderWay'
  BY <1>1, <1>4, <1>7 DEF UnderWay
<1>14. Reckoned' /\ Known'
  BY <1>1, <1>2 DEF Reckoned, Known
<1>15. QED
  BY <1>1, <1>2, <1>10, <1>11, <1>12, <1>13, <1>14 DEF DataPathInv, OnItsWay, DataPathStages

LEMMA HomingSteps ==
  ASSUME DataPathInv, HomingCommand
  PROVE  DataPathInv'
<1> DEFINE z == <<0, 0, 0>>
<1>1. /\ stage = "control" /\ rounds \in 1 .. (MaxRounds - 1) /\ rounds' = MaxRounds /\ stage' = "drive"
      /\ jointCommand' = [q |-> ToQ(body, body.home), v |-> Absent]
      /\ wanted' = [angle |-> body.home, rate |-> Rest(body)] /\ model' = Absent
      /\ UNCHANGED <<body, runtime, world, believedRoot, measured>>
  BY DEF HomingCommand
<1>2. /\ RobotTyped /\ Reckoned
      /\ runtime \in {"real", "simulation"} /\ rounds \in 0 .. MaxRounds
  BY <1>1 DEF DataPathInv, OnItsWay
<1>3. body \in Bodies
  BY <1>2 DEF RobotTyped
<1>4. /\ body.home \in Angles(body) /\ InMode(body, "velocity") \subseteq Names(body) /\ Wheels(body) \subseteq Names(body)
      /\ \A n \in InMode(body, "position") : /\ n \in Names(body) /\ body.joints[n].kind = "revolute"
                                             /\ body.home[n] \in Lowest .. Highest
  BY <1>3, ModesAre
<1>5. JointsMean(body, ToQ(body, body.home), body.home)
  <2>1. Names(body) \in SUBSET Names(body) /\ body.home \in [Names(body) -> Int]
    BY <1>4 DEF Angles
  <2>2. JointsMean(body, ToQ(body, body.home), [n \in Names(body) |-> IF n \in Names(body) THEN body.home[n] ELSE 0])
    BY <1>3, <2>1, ToQMeans
  <2>3. [n \in Names(body) |-> IF n \in Names(body) THEN body.home[n] ELSE 0] = body.home
    BY <2>1
  <2>4. QED
    BY <2>2, <2>3
<1>6. z \in Twists /\ z[1] = 0 /\ z[2] = 0 /\ z[3] = 0 /\ \A n \in Wheels(body) : WheelRate(body, z, n) = 0
  BY <1>3, NoTwist, TwistsArePlaces
<1>7. 0 \in -WheelLimit .. WheelLimit
  BY Limits
<1>8. jointCommand' \in Commands(body) /\ jointCommand' # Absent
  <2>1. jointCommand' \in Commands(body)
    BY <1>1, <1>5 DEF Commands, JointsMean, Vectors
  <2>2. QED
    BY <1>3, <2>1, VectorsAreSequences
<1> HIDE DEF z
<1>9. CommandMeans(body, jointCommand', wanted'.angle, wanted'.rate, z)
  <2>1. /\ jointCommand'.q = ToQ(body, body.home) /\ jointCommand'.v = Absent
        /\ wanted'.angle = body.home /\ \A n \in Names(body) : wanted'.rate[n] = 0
    BY <1>1 DEF Rest
  <2>2. \A n \in InMode(body, "position") : /\ wanted'.angle[n] \in Lowest .. Highest
                                            /\ jointCommand'.q[PositionIndex(body, n)] = wanted'.angle[n]
    BY <1>4, <1>5, <2>1 DEF JointsMean
  <2>3. \A n \in InMode(body, "velocity") : wanted'.rate[n] = 0
    BY <1>4, <2>1
  <2>4. \A n \in Wheels(body) : wanted'.rate[n] = WheelRate(body, z, n)
    BY <1>4, <1>6, <2>1
  <2>5. \A i \in 1 .. 3 : z[i] = 0
    BY <1>6
  <2>6. QED
    BY <1>6, <1>7, <1>8, <2>1, <2>2, <2>3, <2>4, <2>5 DEF CommandMeans
<1>10. rounds' \in 0 .. MaxRounds /\ rounds' # 0
  BY <1>1, DataPathAssumption
<1>11. RobotTyped'
  BY <1>1, <1>2, <1>8 DEF RobotTyped
<1>12. Uncommanded' /\ Obeyed'
  BY <1>1, <1>8, <1>10 DEF Uncommanded, Obeyed
<1>13. UnderWay'
  BY <1>1, <1>6, <1>9 DEF UnderWay
<1>14. Reckoned' /\ Known'
  BY <1>1, <1>2 DEF Reckoned, Known
<1>15. QED
  BY <1>1, <1>2, <1>10, <1>11, <1>12, <1>13, <1>14 DEF DataPathInv, OnItsWay, DataPathStages

\* Every step of the data path, and every stutter.
LEMMA DataPathSteps ==
  ASSUME DataPathInv, [DataPathNext]_dataPathVars
  PROVE  DataPathInv'
<1>1. ASSUME NEW b \in Candidates, NEW r \in {"real", "simulation"}, Configure(b, r)
      PROVE  DataPathInv'
  BY <1>1, Configured
<1>2. CASE RobotDriverStep
  BY <1>2, DriverSteps
<1>3. CASE TimePasses
  BY <1>3, TimeSteps
<1>4. CASE SimulationStep
  BY <1>4, SimulationSteps
<1>5. CASE Follow
  BY <1>5, FollowSteps
<1>6. ASSUME stage = "control", NEW motion \in ArmMotions(body), NEW target \in GripperTargets(body),
             NEW twist \in BaseTwists(body), ControlPeriod(motion, target, twist)
      PROVE  DataPathInv'
  BY <1>6, PeriodSteps
<1>7. CASE HomingCommand
  BY <1>7, HomingSteps
<1>8. CASE DataPathEnds
  <2>1. 0 \in 0 .. MaxRounds
    BY DataPathAssumption
  <2>2. QED
    BY <1>8, <2>1 DEF DataPathEnds, DataPathInv, Empty, Nothing, DataPathStages
<1>9. CASE UNCHANGED dataPathVars
  <2>1. UNCHANGED <<body, runtime, stage, rounds, world, believedRoot, measured, model, jointCommand, wanted>>
    BY <1>9 DEF dataPathVars
  <2>2. (Empty => Empty') /\ (OnItsWay => OnItsWay')
    BY <2>1 DEF Empty, Nothing, OnItsWay, RobotTyped, Uncommanded, UnderWay, Obeyed, Reckoned, Known
  <2>3. QED
    BY <2>1, <2>2 DEF DataPathInv
<1>10. QED
  BY <1>1, <1>2, <1>3, <1>4, <1>5, <1>6, <1>7, <1>8, <1>9 DEF DataPathNext

\* Nothing is known of a robot before there is one, and when the data path has been left.
LEMMA DataPathStarts ==
  ASSUME DataPathInit \/ DataPathOver
  PROVE  DataPathInv
BY DataPathAssumption DEF DataPathInit, DataPathOver, DataPathInv, Empty, DataPathStages

-----------------------------------------------------------------------------
(* What follows.                                                           *)

\* A configuration that describes the world says so joint by joint.
LEMMA DescribedWorld ==
  ASSUME body \in Bodies, world \in WorldType(body), NEW q, Describes(body, q, world)
  PROVE  DescribesWorld(q)
<1>1. PICK angle \in Angles(body), p \in Places :
        JointsMean(body, q, angle) /\ RootMeans(body, q, p) /\ AtWorld(body, angle, p, world)
  BY DEF Describes
<1>2. ASSUME NEW n \in Controlled(body)
      PROVE  SameAngle(FromQ(body, q, n), world.angle[n])
  <2>1. n \in Names(body) /\ (n \in InMode(body, "position") \/ n \in InMode(body, "velocity"))
    BY ModesAre
  <2>2. angle[n] \in Int /\ world.angle[n] \in Int
    BY <2>1 DEF Angles, WorldType
  <2>3. SameAngle(angle[n], world.angle[n])
    BY <1>1, <2>1, <2>2, SameAsItself DEF AtWorld
  <2>4. FromQ(body, q, n) \in Int /\ SameAngle(FromQ(body, q, n), angle[n])
    BY <1>1, <2>1, FromMeans DEF Alike
  <2>5. QED
    BY <2>2, <2>3, <2>4, SameOnwards
<1>3. ASSUME body.base
      PROVE  SamePlace(RootOfQ(q), world.root)
  <2>1. p[1] \in Int /\ p[2] \in Int /\ p[3] \in Int /\ world.root \in Places
    BY DEF Places, WorldType
  <2>2. PICK yaw \in Int : yaw = ArcTan2(Sine(p[3]), Cosine(p[3])) /\ SameAngle(yaw, p[3])
    BY <2>1, ArcTan2Of
  <2>3. RootOfQ(q) = <<p[1], p[2], yaw>>
    BY <1>1, <1>3, <2>2 DEF RootOfQ, RootMeans
  <2>4. RootOfQ(q) \in Places /\ SamePlace(RootOfQ(q), p)
    BY <2>1, <2>2, <2>3 DEF Places, SamePlace
  <2>5. SamePlace(p, world.root)
    BY <1>1, <1>3 DEF AtWorld
  <2>6. QED
    BY <2>1, <2>4, <2>5, SamePlaces
<1>4. QED
  BY <1>2, <1>3 DEF DescribesWorld

LEMMA DataPathFollows ==
  ASSUME DataPathInv
  PROVE  DataPathTypeOK /\ CommandReachesItsJoint /\ ConfigurationsAreTheRobots
<1>1. CASE stage \in {"configure", "end"}
  BY <1>1 DEF DataPathInv, Empty, Nothing, DataPathTypeOK, CommandReachesItsJoint, ConfigurationsAreTheRobots,
              StateIsTheRobots, OpenLoopHolds
<1>2. CASE stage \notin {"configure", "end"}
  <2>1. /\ stage \in DataPathStages /\ runtime \in {"real", "simulation"} /\ rounds \in 0 .. MaxRounds
        /\ RobotTyped /\ Uncommanded /\ Obeyed /\ Known
    BY <1>2 DEF DataPathInv, OnItsWay
  <2>2. body \in Bodies /\ world \in WorldType(body)
    BY <2>1 DEF RobotTyped
  <2>3. DataPathTypeOK
    <3>1. Accepted(body)
      BY <2>2, BodyIs
    <3>2. measured = Absent \/ (DOMAIN measured.q = Coordinates(body.idxQ) /\ DOMAIN measured.v = Coordinates(body.idxV))
      BY <2>1 DEF RobotTyped, Vectors, Rates
    <3>3. model = Absent \/ DOMAIN model = Coordinates(body.idxQ)
      BY <2>1 DEF RobotTyped, Vectors
    <3>4. jointCommand = Absent \/ DOMAIN jointCommand.q = Coordinates(body.idxQ)
      BY <2>1 DEF RobotTyped, Commands, Vectors
    <3>5. QED
      BY <2>1, <3>1, <3>2, <3>3, <3>4 DEF DataPathTypeOK
  <2>4. CommandReachesItsJoint
    BY <2>1 DEF CommandReachesItsJoint, Uncommanded, Obeyed
  <2>5. StateIsTheRobots
    BY <2>1, <2>2, DescribedWorld DEF StateIsTheRobots, Known, StateDescribes
  <2>6. OpenLoopHolds
    BY <2>1, <2>2, DescribedWorld DEF OpenLoopHolds, Known
  <2>7. QED
    BY <2>3, <2>4, <2>5, <2>6 DEF ConfigurationsAreTheRobots
<1>3. QED
  BY <1>1, <1>2

-----------------------------------------------------------------------------
(* Theorems.                                                               *)

\* At every stage of the way of joint values, what the driver, the controllers and the actuators hold is told of
\* the one robot (robots/base.py, nodes/hardware/driver.py, nodes/simulation, nodes/controllers).
THEOREM DataPathHolds == DataPathSpec => []DataPathInv
<1>1. DataPathInit => DataPathInv
  BY DataPathStarts
<1>2. DataPathInv /\ [DataPathNext]_dataPathVars => DataPathInv'
  BY DataPathSteps
<1>3. QED
  BY <1>1, <1>2, PTL DEF DataPathSpec

\* The vectors always have the layout of the robot that was accepted (joint_positions_to_q and its kin).
THEOREM DataPathIsTyped == DataPathSpec => []DataPathTypeOK
BY DataPathHolds, DataPathFollows, PTL

\* Whatever the robot, every actuator is told what the command means for its joint, and a command without
\* velocities stops the wheels (receive() of the driver, apply_joint_command of the simulation).
THEOREM CommandsReachTheirJoints == DataPathSpec => []CommandReachesItsJoint
BY DataPathHolds, DataPathFollows, PTL

\* Whatever the robot, what is published of it is true of it, and so is what the controllers hold without
\* looking at it again (publish() of the driver, read_robot_state, compute_control of the controllers).
THEOREM ConfigurationsAreTrue == DataPathSpec => []ConfigurationsAreTheRobots
BY DataPathHolds, DataPathFollows, PTL

================================================================================
