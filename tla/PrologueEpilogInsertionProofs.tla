-------------------- MODULE PrologueEpilogInsertionProofs --------------------
(***************************************************************************)
(* Theorems about StackFrame and PrologueEpilogInsertion.                  *)
(***************************************************************************)
EXTENDS PrologueEpilogInsertion, SequenceLemmas, FiniteSetTheorems

-----------------------------------------------------------------------------
(* Rounding *)

AndStep(f, p) ==
  IF p[1] = 0 \/ p[2] = 0 THEN 0
  ELSE 2 * f[<<p[1] \div 2, p[2] \div 2>>]
         + (IF p[1] % 2 = 1 /\ p[2] % 2 = 1 THEN 1 ELSE 0)

LEMMA Halves ==
  ASSUME NEW n \in Nat
  PROVE  /\ n \div 2 \in Nat /\ n % 2 \in {0, 1}
         /\ n = 2 * (n \div 2) + (n % 2)
         /\ n # 0 => n \div 2 <= n - 1
  OBVIOUS

\* And is defined, by induction on the first of the words.
LEMMA AndExists ==
  \E f : f = [p \in Words \X Words |-> AndStep(f, p)]
<1> DEFINE Upto(n, f) == f = [p \in (0..n) \X Words |-> AndStep(f, p)]
           Good == {n \in Nat : \E f : Upto(n, f)}
<1>1. 0 \in Good
  <2>1. Upto(0, [p \in (0..0) \X Words |-> 0])
    BY DEF AndStep
  <2> QED BY <2>1
<1>2. ASSUME NEW n \in Nat \ {0}, n - 1 \in Good PROVE n \in Good
  <2>1. PICK g : Upto(n - 1, g)
    BY <1>2
  <2> DEFINE f == [p \in (0..n) \X Words |-> IF p[1] < n THEN g[p] ELSE AndStep(g, p)]
  <2>2. ASSUME NEW p \in (0..n) \X Words PROVE f[p] = AndStep(f, p)
    <3>1. p[1] \in 0..n /\ p[1] \in Nat /\ p[2] \in Words /\ p[2] \in Nat
      BY DEF Words
    <3>2. p[1] # 0 /\ p[2] # 0 =>
            f[<<p[1] \div 2, p[2] \div 2>>] = g[<<p[1] \div 2, p[2] \div 2>>]
      <4> SUFFICES ASSUME p[1] # 0, p[2] # 0
                   PROVE  f[<<p[1] \div 2, p[2] \div 2>>] = g[<<p[1] \div 2, p[2] \div 2>>]
        OBVIOUS
      <4>1. p[1] \div 2 \in 0..(n - 1)
        BY <3>1, Halves
      <4>2. p[2] \div 2 \in Words
        BY <3>1, Halves, WordAssumption DEF Words
      <4>3. <<p[1] \div 2, p[2] \div 2>> \in (0..n) \X Words
        BY <4>1, <4>2
      <4>4. <<p[1] \div 2, p[2] \div 2>>[1] < n
        BY <4>1
      <4> QED BY <4>3, <4>4
    <3>3. AndStep(f, p) = AndStep(g, p)
      BY <3>2 DEF AndStep
    <3>4. p[1] < n => p \in (0..(n - 1)) \X Words
      BY <3>1
    <3>5. p[1] < n => g[p] = AndStep(g, p)
      BY <2>1, <3>4
    <3> QED BY <3>3, <3>5
  <2>3. Upto(n, f)
    BY <2>2
  <2> QED BY <2>3
<1> HIDE DEF Good
<1>3. WordModulus - 1 \in Good
  BY <1>1, <1>2, Induction, WordAssumption
<1> QED BY <1>3 DEF Good, Words

LEMMA AndUnfold ==
  ASSUME NEW x \in Words, NEW y \in Words
  PROVE  And[<<x, y>>] = AndStep(And, <<x, y>>)
  BY AndExists DEF And, AndStep

\* No more bits than the first word has.
LEMMA AndBound ==
  ASSUME NEW x \in Words, NEW y \in Words
  PROVE  And[<<x, y>>] \in 0..x /\ And[<<x, y>>] <= y
<1> DEFINE Good == {n \in Nat : \A a, b \in Words : a <= n =>
                      And[<<a, b>>] \in 0..a /\ And[<<a, b>>] <= b}
<1>1. 0 \in Good
  <2>1. ASSUME NEW a \in Words, NEW b \in Words, a <= 0
        PROVE  And[<<a, b>>] \in 0..a /\ And[<<a, b>>] <= b
    <3>1. a = 0 /\ b \in Nat
      BY <2>1 DEF Words
    <3>2. And[<<a, b>>] = AndStep(And, <<a, b>>)
      BY AndUnfold
    <3>3. And[<<a, b>>] = 0
      BY <3>1, <3>2 DEF AndStep
    <3> QED BY <3>1, <3>3
  <2> QED BY <2>1
<1>2. ASSUME NEW n \in Nat \ {0}, n - 1 \in Good PROVE n \in Good
  <2> SUFFICES ASSUME NEW a \in Words, NEW b \in Words, a <= n
               PROVE  And[<<a, b>>] \in 0..a /\ And[<<a, b>>] <= b
    OBVIOUS
  <2>1. a \in Nat /\ b \in Nat /\ And[<<a, b>>] = AndStep(And, <<a, b>>)
    BY AndUnfold DEF Words
  <2>2. CASE a = 0 \/ b = 0
    BY <2>1, <2>2 DEF AndStep
  <2>3. CASE a # 0 /\ b # 0
    <3> DEFINE c == a \div 2
               d == b \div 2
               bit == IF a % 2 = 1 /\ b % 2 = 1 THEN 1 ELSE 0
    <3>1. c \in Nat /\ d \in Nat /\ c <= n - 1 /\ c <= a /\ d <= b
      BY <2>1, <2>3, Halves
    <3>2. c \in Words /\ d \in Words
      <4> HIDE DEF c, d
      <4> QED BY <2>1, <3>1, WordAssumption DEF Words
    <3>3. And[<<c, d>>] \in 0..c /\ And[<<c, d>>] <= d
      BY <1>2, <3>1, <3>2
    <3>4. And[<<a, b>>] = 2 * And[<<c, d>>] + bit
      BY <2>1, <2>3 DEF AndStep
    <3>5. bit \in {0, 1} /\ bit <= a % 2 /\ bit <= b % 2
      BY <2>1, Halves
    <3>6. a = 2 * c + (a % 2) /\ b = 2 * d + (b % 2) /\ a % 2 \in {0, 1} /\ b % 2 \in {0, 1}
      BY <2>1, Halves
    <3> HIDE DEF c, d, bit
    <3> QED BY <2>1, <3>1, <3>3, <3>4, <3>5, <3>6
  <2> QED BY <2>2, <2>3
<1> HIDE DEF Good
<1>3. Nat \subseteq Good
  BY <1>1, <1>2, Induction
<1>4. x \in Nat
  BY DEF Words
<1>5. x \in Good
  BY <1>3, <1>4
<1> QED BY <1>4, <1>5 DEF Good

\* The remainder by 16 from that of the half by 8.
LEMMA RemainderOfDouble ==
  ASSUME NEW n \in Nat, NEW h \in Nat, n = 2 * h + (n % 2)
  PROVE  2 * (h % 8) + (n % 2) = (n % 16)
<1>1. h % 8 \in 0..7 /\ h \div 8 \in Nat /\ h = 8 * (h \div 8) + (h % 8)
  OBVIOUS
<1>2. n % 2 \in 0..1
  OBVIOUS
<1>3. ASSUME NEW q \in Nat, NEW r \in 0..7, NEW e \in 0..1, h = 8 * q + r, n = 2 * h + e
      PROVE  2 * r + e = (n % 16)
  <2>1. n = 16 * q + (2 * r + e) /\ 2 * r + e \in 0..15
    BY <1>3
  <2> QED BY <2>1
<1> QED BY <1>1, <1>2, <1>3

\* The low four bits are the remainder.
LEMMA AndFifteen ==
  ASSUME NEW x \in Words, 15 \in Words
  PROVE  And[<<x, 15>>] = x % 16
<1> DEFINE a == x \div 2
           b == a \div 2
           c == b \div 2
           d == c \div 2
<1>1. ASSUME NEW n \in Words
      PROVE  n \in Nat /\ n \div 2 \in Words
  <2>1. n \in Nat /\ n \div 2 \in Nat /\ n \div 2 <= n
    BY Halves DEF Words
  <2> QED BY <2>1, WordAssumption DEF Words
<1>2. a \in Words /\ b \in Words /\ c \in Words /\ d \in Words
  BY <1>1
<1>3. {0, 1, 3, 7} \subseteq Words
  BY WordAssumption DEF Words
<1>4. ASSUME NEW n \in Words, NEW m \in {1, 3, 7, 15}
      PROVE  And[<<n, m>>] = IF n = 0 THEN 0 ELSE 2 * And[<<n \div 2, m \div 2>>] + (n % 2)
  <2>1. m \in Words /\ m # 0 /\ m % 2 = 1
    BY <1>3
  <2>2. And[<<n, m>>] = AndStep(And, <<n, m>>)
    BY <2>1, AndUnfold
  <2>3. n % 2 \in {0, 1}
    BY <1>1, Halves
  <2> QED BY <2>1, <2>2, <2>3 DEF AndStep
<1>5. ASSUME NEW n \in Words PROVE And[<<n, 0>>] = 0
  BY <1>3, AndUnfold DEF AndStep
<1>6. 15 \div 2 = 7 /\ 7 \div 2 = 3 /\ 3 \div 2 = 1 /\ 1 \div 2 = 0
  OBVIOUS
<1>7. And[<<c, 1>>] = c % 2
  <2>1. And[<<c, 1>>] = IF c = 0 THEN 0 ELSE 2 * And[<<d, 0>>] + (c % 2)
    BY <1>2, <1>4, <1>6
  <2>2. c \in Nat /\ And[<<d, 0>>] = 0
    BY <1>1, <1>2, <1>5
  <2> HIDE DEF c, d
  <2> QED BY <2>1, <2>2
<1>8. And[<<b, 3>>] = b % 4
  <2>1. And[<<b, 3>>] = IF b = 0 THEN 0 ELSE 2 * And[<<c, 1>>] + (b % 2)
    BY <1>2, <1>4, <1>6
  <2>2. b \in Nat
    BY <1>1, <1>2
  <2> HIDE DEF b
  <2> QED BY <2>1, <2>2, <1>7
<1>9. And[<<a, 7>>] = a % 8
  <2>1. And[<<a, 7>>] = IF a = 0 THEN 0 ELSE 2 * And[<<b, 3>>] + (a % 2)
    BY <1>2, <1>4, <1>6
  <2>2. a \in Nat
    BY <1>1, <1>2
  <2> HIDE DEF a
  <2> QED BY <2>1, <2>2, <1>8
<1>10. And[<<x, 15>>] = IF x = 0 THEN 0 ELSE 2 * And[<<a, 7>>] + (x % 2)
  BY <1>4, <1>6
<1>11. x \in Nat /\ a \in Nat /\ x = 2 * a + (x % 2)
  BY <1>1, <1>2, Halves
<1> HIDE DEF a, b, c, d
<1>12. And[<<x, 15>>] = 2 * (a % 8) + (x % 2)
  <2>1. CASE x = 0
    <3>1. a = 0 /\ x % 2 = 0 /\ 0 % 8 = 0
      BY <1>11, <2>1
    <3>2. And[<<x, 15>>] = 0
      BY <1>10, <2>1
    <3> QED BY <3>1, <3>2
  <2>2. CASE x # 0
    <3>1. And[<<x, 15>>] = 2 * And[<<a, 7>>] + (x % 2)
      BY <1>10, <2>2, Zenon
    <3> QED BY <1>9, <3>1, Zenon
  <2> QED BY <2>1, <2>2
<1>13. 2 * (a % 8) + (x % 2) = (x % 16)
  BY <1>11, RemainderOfDouble
<1> QED BY <1>12, <1>13

\* Rounding goes up, by less than the alignment.
LEMMA RoundingBound ==
  ASSUME NEW val \in Nat, NEW alignment \in Nat \ {0}, val + alignment <= WordModulus
  PROVE  GetNextAlignedValue(val, alignment) \in val..(val + alignment - 1)
<1> DEFINE mask == (alignment - 1) % WordModulus
           sum == (val + mask) % WordModulus
<1>1. mask = alignment - 1 /\ sum = val + alignment - 1
  BY WordAssumption
<1>2. mask \in Words /\ sum \in Words /\ mask \in Nat /\ sum \in Nat
  BY <1>1, WordAssumption DEF Words
<1>3. And[<<sum, mask>>] \in 0..sum /\ And[<<sum, mask>>] <= mask
  BY <1>2, AndBound
<1>4. GetNextAlignedValue(val, alignment) = sum - And[<<sum, mask>>]
  BY DEF GetNextAlignedValue
<1> HIDE DEF mask, sum
<1> QED BY <1>1, <1>2, <1>3, <1>4

\* To sixteen, it rounds up to a multiple, and leaves multiples alone.
LEMMA RoundingToSixteen ==
  ASSUME NEW val \in Nat, val + 16 <= WordModulus
  PROVE  /\ GetNextAlignedValue(val, 16) % 16 = 0
         /\ val % 16 = 0 => GetNextAlignedValue(val, 16) = val
<1> DEFINE sum == val + 15
<1>1. 15 % WordModulus = 15 /\ sum % WordModulus = sum
  BY WordAssumption
<1>2. sum \in Words /\ 15 \in Words
  BY WordAssumption DEF Words
<1>3. GetNextAlignedValue(val, 16) = sum - And[<<sum, 15>>]
  BY <1>1 DEF GetNextAlignedValue
<1>4. And[<<sum, 15>>] = sum % 16
  BY <1>2, AndFifteen
<1> QED BY <1>3, <1>4

-----------------------------------------------------------------------------
(* The layout of a frame *)

WalkStep(f, position, i) ==
  IF i = 0 THEN 0
  ELSE IF IsStackSlot(f, i - 1) THEN Behind(f, position[i - 1], i - 1)
  ELSE position[i - 1]

\* The walk over the objects is defined, by induction on the IDs.
LEMMA WalkExists ==
  ASSUME NEW f
  PROVE  \E position : position = [i \in 0..WordModulus |-> WalkStep(f, position, i)]
<1> DEFINE Upto(n, position) == position = [i \in 0..n |-> WalkStep(f, position, i)]
           Good == {n \in Nat : \E position : Upto(n, position)}
<1>1. 0 \in Good
  <2>1. Upto(0, [i \in 0..0 |-> 0])
    BY DEF WalkStep
  <2> QED BY <2>1
<1>2. ASSUME NEW n \in Nat \ {0}, n - 1 \in Good PROVE n \in Good
  <2>1. PICK g : Upto(n - 1, g)
    BY <1>2
  <2> DEFINE h == [i \in 0..n |-> IF i < n THEN g[i] ELSE WalkStep(f, g, n)]
  <2>2. ASSUME NEW i \in 0..n PROVE h[i] = WalkStep(f, h, i)
    <3>1. i # 0 => i - 1 \in 0..n /\ h[i - 1] = g[i - 1]
      OBVIOUS
    <3>2. WalkStep(f, h, i) = WalkStep(f, g, i)
      BY <3>1 DEF WalkStep
    <3>3. i < n => i \in 0..(n - 1)
      OBVIOUS
    <3>4. i < n => g[i] = WalkStep(f, g, i)
      BY <2>1, <3>3
    <3>5. ~(i < n) => i = n
      OBVIOUS
    <3> QED BY <3>2, <3>4, <3>5
  <2>3. Upto(n, h)
    BY <2>2
  <2> QED BY <2>3
<1> HIDE DEF Good
<1>3. WordModulus \in Good
  BY <1>1, <1>2, Induction, WordAssumption
<1> QED BY <1>3 DEF Good

LEMMA PositionBelowUnfold ==
  ASSUME NEW f, NEW n \in 0..WordModulus
  PROVE  PositionBelow(f, n) =
           IF n = 0 THEN 0
           ELSE IF IsStackSlot(f, n - 1) THEN Behind(f, PositionBelow(f, n - 1), n - 1)
           ELSE PositionBelow(f, n - 1)
<1> DEFINE position == CHOOSE g : g = [i \in 0..WordModulus |-> WalkStep(f, g, i)]
<1>1. position = [i \in 0..WordModulus |-> WalkStep(f, position, i)]
  BY WalkExists
<1>2. \A k : PositionBelow(f, k) = position[k]
  BY DEF PositionBelow, WalkStep
<1> HIDE DEF position
<1>3. position[n] = WalkStep(f, position, n)
  BY <1>1
<1> QED BY <1>2, <1>3 DEF WalkStep

\* An object behind all others leaves the walk up to it as it was.
LEMMA PushKeepsPositions ==
  ASSUME NEW f, NEW id \in 0..(WordModulus - 1), NEW size,
         \A j \in DOMAIN f.slots : j \in Nat /\ j < id,
         NEW g, g = InsertStackSlot(f, id, size)
  PROVE  \A n \in 0..WordModulus :
           PositionBelow(g, n) = IF n <= id THEN PositionBelow(f, n)
                                 ELSE Behind(g, PositionBelow(f, id), id)
<1> DEFINE Goal(n) == PositionBelow(g, n) = IF n <= id THEN PositionBelow(f, n)
                                            ELSE Behind(g, PositionBelow(f, id), id)
           Good == {n \in Nat : n <= WordModulus => Goal(n)}
<1>1. /\ \A j \in DOMAIN f.slots : g.slots[j] = f.slots[j]
      /\ DOMAIN g.slots = DOMAIN f.slots \cup {id}
  BY DEF InsertStackSlot
<1>2. 0 \in Good
  <2>1. 0 \in 0..WordModulus /\ 0 <= id
    BY WordAssumption
  <2>2. PositionBelow(g, 0) = 0 /\ PositionBelow(f, 0) = 0
    BY <2>1, PositionBelowUnfold
  <2> QED BY <2>1, <2>2
<1>3. ASSUME NEW n \in Nat \ {0}, n - 1 \in Good PROVE n \in Good
  <2> SUFFICES ASSUME n <= WordModulus PROVE Goal(n)
    OBVIOUS
  <2>1. n \in 0..WordModulus /\ n - 1 \in Nat /\ n # 0 /\ n - 1 <= WordModulus
    BY WordAssumption
  <2>2. Goal(n - 1)
    BY <1>3, <2>1
  <2>3. PositionBelow(g, n) = IF IsStackSlot(g, n - 1)
                              THEN Behind(g, PositionBelow(g, n - 1), n - 1)
                              ELSE PositionBelow(g, n - 1)
    BY <2>1, PositionBelowUnfold
  <2>4. CASE n <= id
    <3>1. n - 1 # id /\ n - 1 <= id
      BY <2>1, <2>4
    <3>2. IsStackSlot(g, n - 1) <=> IsStackSlot(f, n - 1)
      BY <1>1, <3>1 DEF IsStackSlot
    <3>3. \A p : IsStackSlot(f, n - 1) => Behind(g, p, n - 1) = Behind(f, p, n - 1)
      BY <1>1 DEF IsStackSlot, Behind
    <3>4. PositionBelow(f, n) = IF IsStackSlot(f, n - 1)
                                THEN Behind(f, PositionBelow(f, n - 1), n - 1)
                                ELSE PositionBelow(f, n - 1)
      BY <2>1, PositionBelowUnfold
    <3>5. PositionBelow(g, n - 1) = PositionBelow(f, n - 1)
      BY <2>2, <3>1
    <3> QED BY <2>3, <2>4, <3>2, <3>3, <3>4, <3>5
  <2>5. CASE n - 1 = id
    <3>1. IsStackSlot(g, n - 1) /\ ~(n <= id) /\ n - 1 <= id
      BY <1>1, <2>1, <2>5 DEF IsStackSlot
    <3>2. PositionBelow(g, n - 1) = PositionBelow(f, id)
      BY <2>2, <2>5, <3>1
    <3> QED BY <2>3, <2>5, <3>1, <3>2
  <2>6. CASE n - 1 > id
    <3>1. ~(n <= id) /\ ~(n - 1 <= id)
      BY <2>1, <2>6
    <3>2. ~IsStackSlot(g, n - 1)
      BY <1>1, <2>1, <2>6 DEF IsStackSlot
    <3> QED BY <2>2, <2>3, <3>1, <3>2
  <2> QED BY <2>1, <2>4, <2>5, <2>6
<1> HIDE DEF Good
<1>4. Nat \subseteq Good
  BY <1>2, <1>3, Induction
<1> QED BY <1>4, WordAssumption DEF Good

\* The objects of a frame lie one behind the other, and the walk ends where
\* pushing them ended.
Layout(f) ==
  /\ f.size \in Nat
  /\ DOMAIN f.slots \subseteq 0..(WordModulus - 1)
  /\ \A i \in DOMAIN f.slots :
       /\ f.slots[i] \in Nat \ {0} /\ GetPosition(f, i) \in Nat
       /\ GetPosition(f, i) + f.slots[i] <= f.size
  /\ \A i, j \in DOMAIN f.slots :
       i < j => GetPosition(f, i) + f.slots[i] <= GetPosition(f, j)
  /\ \A n \in 0..WordModulus :
       (\A i \in DOMAIN f.slots : i < n) => PositionBelow(f, n) = f.size

LEMMA EmptyLayout == Layout(EmptyFrame)
<1> DEFINE Good == {n \in Nat : n <= WordModulus => PositionBelow(EmptyFrame, n) = 0}
<1>1. DOMAIN EmptyFrame.slots = {} /\ EmptyFrame.size = 0
  BY DEF EmptyFrame
<1>2. 0 \in Good
  BY PositionBelowUnfold, WordAssumption
<1>3. ASSUME NEW n \in Nat \ {0}, n - 1 \in Good PROVE n \in Good
  <2> SUFFICES ASSUME n <= WordModulus PROVE PositionBelow(EmptyFrame, n) = 0
    OBVIOUS
  <2>1. n \in 0..WordModulus /\ n # 0 /\ n - 1 <= WordModulus
    BY WordAssumption
  <2>2. ~IsStackSlot(EmptyFrame, n - 1)
    BY <1>1 DEF IsStackSlot
  <2>3. PositionBelow(EmptyFrame, n) = PositionBelow(EmptyFrame, n - 1)
    BY <2>1, <2>2, PositionBelowUnfold
  <2> QED BY <1>3, <2>1, <2>3
<1> HIDE DEF Good
<1>4. Nat \subseteq Good
  BY <1>2, <1>3, Induction
<1>5. \A n \in 0..WordModulus : PositionBelow(EmptyFrame, n) = 0
  BY <1>4, WordAssumption DEF Good
<1> QED BY <1>1, <1>5 DEF Layout

\* Pushing an object behind all others keeps the layout and moves no object.
LEMMA PushKeepsLayout ==
  ASSUME NEW f, Layout(f), NEW id \in 0..(WordModulus - 1), NEW size \in Nat \ {0},
         \A j \in DOMAIN f.slots : j < id,
         f.size + 2 * size <= WordModulus,
         NEW g, g = InsertStackSlot(f, id, size)
  PROVE  /\ Layout(g)
         /\ DOMAIN g.slots = DOMAIN f.slots \cup {id} /\ g.slots[id] = size
         /\ \A i \in DOMAIN f.slots : g.slots[i] = f.slots[i]
         /\ \A i \in DOMAIN f.slots : GetPosition(g, i) = GetPosition(f, i)
         /\ GetPosition(g, id) = GetNextAlignedValue(f.size, size)
         /\ g.size < f.size + 2 * size
<1> DEFINE start == GetNextAlignedValue(f.size, size)
<1>1. /\ \A i \in DOMAIN f.slots : g.slots[i] = f.slots[i]
      /\ DOMAIN g.slots = DOMAIN f.slots \cup {id} /\ g.slots[id] = size
      /\ g.size = (start + size) % WordModulus
  BY DEF InsertStackSlot
<1>2. f.size \in Nat /\ \A j \in DOMAIN f.slots : j \in Nat /\ j < id
  BY DEF Layout
<1>3. start \in f.size..(f.size + size - 1)
  <2>1. f.size \in Nat /\ f.size + size <= WordModulus
    BY <1>2, WordAssumption
  <2> QED BY <2>1, RoundingBound
<1>4. start \in Nat /\ f.size <= start /\ start + size < f.size + 2 * size
  BY <1>2, <1>3
<1> HIDE DEF start
<1>5. g.size = start + size
  BY <1>1, <1>2, <1>4, WordAssumption
<1>6. \A n \in 0..WordModulus :
        PositionBelow(g, n) = IF n <= id THEN PositionBelow(f, n)
                              ELSE Behind(g, PositionBelow(f, id), id)
  <2> HIDE DEF InsertStackSlot
  <2> QED BY <1>2, PushKeepsPositions
<1>7. id \in 0..WordModulus /\ PositionBelow(f, id) = f.size
  BY <1>2, WordAssumption DEF Layout
<1>8. GetPosition(g, id) = start
  <2>1. PositionBelow(g, id) = f.size
    BY <1>6, <1>7
  <2> QED BY <1>1, <2>1 DEF GetPosition, start
<1>9. ASSUME NEW i \in DOMAIN f.slots
      PROVE  /\ GetPosition(g, i) = GetPosition(f, i) /\ GetPosition(f, i) \in Nat
             /\ f.slots[i] \in Nat \ {0} /\ GetPosition(f, i) + f.slots[i] <= f.size
             /\ i \in 0..WordModulus /\ i < id /\ i \in Nat
  <2>1. i \in 0..WordModulus /\ i <= id
    BY <1>2, WordAssumption
  <2>2. PositionBelow(g, i) = PositionBelow(f, i)
    BY <1>6, <2>1
  <2> QED BY <1>1, <1>2, <2>1, <2>2 DEF GetPosition, Layout
<1>10. Behind(g, PositionBelow(f, id), id) = g.size
  BY <1>1, <1>7 DEF Behind, start
<1>11. Layout(g)
  <2>1. ASSUME NEW i \in DOMAIN g.slots
        PROVE  /\ i \in 0..(WordModulus - 1)
               /\ g.slots[i] \in Nat \ {0} /\ GetPosition(g, i) \in Nat
               /\ GetPosition(g, i) + g.slots[i] <= g.size
    <3>1. CASE i = id
      BY <1>1, <1>2, <1>4, <1>5, <1>8, <3>1
    <3>2. CASE i \in DOMAIN f.slots
      <4>1. i \in 0..(WordModulus - 1)
        BY <3>2 DEF Layout
      <4> QED BY <1>1, <1>2, <1>4, <1>5, <1>9, <3>2, <4>1
    <3> QED BY <1>1, <3>1, <3>2
  <2>2. ASSUME NEW i \in DOMAIN g.slots, NEW j \in DOMAIN g.slots, i < j
        PROVE  GetPosition(g, i) + g.slots[i] <= GetPosition(g, j)
    <3>1. CASE j \in DOMAIN f.slots
      <4>1. i \in DOMAIN f.slots
        BY <1>1, <1>9, <2>2, <3>1
      <4>2. GetPosition(f, i) + f.slots[i] <= GetPosition(f, j)
        BY <2>2, <3>1, <4>1 DEF Layout
      <4> QED BY <1>1, <1>9, <3>1, <4>1, <4>2
    <3>2. CASE j = id
      <4>1. i \in DOMAIN f.slots
        BY <1>1, <2>2, <3>2
      <4> QED BY <1>1, <1>2, <1>4, <1>8, <1>9, <3>2, <4>1
    <3> QED BY <1>1, <3>1, <3>2
  <2>3. ASSUME NEW n \in 0..WordModulus, \A i \in DOMAIN g.slots : i < n
        PROVE  PositionBelow(g, n) = g.size
    <3>1. id < n /\ ~(n <= id)
      BY <1>1, <2>3
    <3> QED BY <1>6, <1>10, <3>1
  <2>4. g.size \in Nat
    BY <1>4, <1>5
  <2>5. DOMAIN g.slots \subseteq 0..(WordModulus - 1)
    BY <2>1
  <2> QED BY <2>1, <2>2, <2>3, <2>4, <2>5 DEF Layout
<1> QED BY <1>1, <1>4, <1>5, <1>8, <1>9, <1>11 DEF start

-----------------------------------------------------------------------------
(* The invariant *)

\* An object without a size would move the others (see PositionsInPushOrder).
NoEmptyObjects ==
  \A f \in Functions : \A s \in DOMAIN f.slots : f.slots[s].size # 0

ObjectIDs(f) == {f.slots[s].id : s \in DOMAIN f.slots}

Largest(f) ==
  CHOOSE largest \in Words :
    /\ \A s \in DOMAIN f.slots : f.slots[s].size <= largest
    /\ Len(f.slots) * (2 * largest) + 64 <= WordModulus

Compiling == {"push", "frame", "slots", "adjust", "save", "spill", "reload", "release"}
Running == {"run", "returned"}
Phases == Compiling \cup Running \cup {"aborted"}

\* No frame and hence no prologue.
IsSkipped == pc \in Running /\ HasNothingToAdjust

\* The objects that were pushed, in order; there is room for the others.
PushInv ==
  LET n == Cardinality(DOMAIN frame.slots) IN
  pc = "push" =>
    /\ blocks = func.blocks
    /\ IsFiniteSet(DOMAIN frame.slots) /\ n <= Len(func.slots)
    /\ DOMAIN frame.slots = {func.slots[s].id : s \in 1..n}
    /\ frame.size <= n * (2 * Largest(func))

HasLinkSlot ==
  func.caller /\ pc \notin {"push", "frame", "slots"} /\ ~IsSkipped

\* The objects of the frame behind that, and what the link register's is.
FrameInv ==
  pc # "push" =>
    /\ DOMAIN frame.slots = ObjectIDs(func) \cup (IF HasLinkSlot THEN {FirstSlot} ELSE {})
    /\ frame.size + (IF HasLinkSlot THEN 32 ELSE 64) <= WordModulus
    /\ pc = "slots" => next = FirstSlot
    /\ pc \in Compiling \ {"push", "frame"} => ~HasNothingToAdjust
    /\ HasLinkSlot =>
         /\ frame.slots[FirstSlot] = 16 /\ slotOf[LinkRegister] = FirstSlot
         /\ GetPosition(frame, FirstSlot) % 16 = 0

\* What code generation made, and what prologue insertion added to it.
FrameOps == {"adjust", "save", "reload"}
Offsets == [id : Int, offset : Int]
MachineInstructions ==
  [op : Accesses \cup FrameOps \cup {"call", "jump", "ret"}, arg : Int \cup Offsets]

\* Where an instruction may be, and what an access names: an object, at the
\* offset the frame says, written before it is read.
WellPlaced(f, fr, bs, b, i) ==
  LET instr == bs[b][i] IN
  /\ instr.op = "ret" <=> b = Len(bs) /\ i = Len(bs[b])
  /\ instr.op = "jump" <=> b # Len(bs) /\ i = Len(bs[b])
  /\ instr.op = "call" => f.caller
  /\ instr.op \in Accesses =>
       /\ instr.arg \in Offsets /\ instr.arg.id \in ObjectIDs(f)
       /\ instr.arg.offset = GetPosition(fr, instr.arg.id)
  /\ instr.op = "read" =>
       \E c \in 1..b : \E k \in DOMAIN bs[c] :
         /\ c = b => k < i
         /\ bs[c][k].op = "write" /\ bs[c][k].arg.id = instr.arg.id

Code(f, fr, bs) ==
  /\ bs \in Seq(Seq(MachineInstructions)) /\ bs # <<>>
  /\ \A b \in DOMAIN bs : bs[b] # <<>>
  /\ \A b \in DOMAIN bs : \A i \in DOMAIN bs[b] : WellPlaced(f, fr, bs, b, i)

\* How much of the prologue and of the epilogue was inserted.
PrologueLength ==
  IF IsSkipped \/ pc \in {"frame", "slots", "adjust"} THEN 0
  ELSE IF pc = "save" \/ ~func.caller THEN 1
  ELSE 2
EpilogueLength ==
  IF IsSkipped \/ pc \in {"frame", "slots", "adjust", "save", "spill", "reload"} THEN 0
  ELSE IF pc = "release" THEN (IF func.caller THEN 1 ELSE 0)
  ELSE IF func.caller THEN 2 ELSE 1

\* The first and the last instructions of a function are these, and no others are.
Inserted(caller, adjustment, offset, bs, front, back) ==
  LET last == bs[Len(bs)]
      end == Len(last)
  IN
  /\ end > back + (IF Len(bs) = 1 THEN front ELSE 0) /\ Len(bs[1]) > front
  /\ front >= 1 => bs[1][1] = Instr("adjust", -adjustment)
  /\ front = 2 => bs[1][2] = Instr("save", offset)
  /\ caller /\ back >= 1 => last[end - back] = Instr("reload", offset)
  /\ back = (IF caller THEN 2 ELSE 1) => last[end - 1] = Instr("adjust", adjustment)
  /\ \A b \in DOMAIN bs : \A i \in DOMAIN bs[b] :
       bs[b][i].op \in FrameOps =>
         (b = 1 /\ i <= front) \/ (b = Len(bs) /\ i >= end - back)

CodeInv ==
  pc \notin {"push", "aborted"} =>
    /\ Code(func, frame, blocks)
    /\ Inserted(func.caller, Adjustment, LinkOffset, blocks, PrologueLength, EpilogueLength)

\* Where the machine is: at the end, and behind an instruction.
AtEnd == at = <<Len(blocks), Len(blocks[Len(blocks)])>>
IsPast(b, i) == b < at[1] \/ (b = at[1] /\ i < at[2])

LinkBytes == {LinkOffset - Adjustment + k : k \in 0..7}

AtStart ==
  /\ at = <<1, 1>> /\ sp = 0 /\ lr = CallerOwned
  /\ mem = [a \in CallerBytes |-> CallerOwned] /\ seen = {}

\* The stack pointer is down between prologue and epilogue...
StackInv ==
  /\ sp = IF at = <<1, 1>> \/ AtEnd THEN 0 ELSE -Adjustment
  /\ \A a \in CallerBytes : a \in DOMAIN mem /\ mem[a] = CallerOwned

\* ... the return address is in its slot and comes back from there...
LinkInv ==
  /\ ~func.caller => lr = CallerOwned
  /\ at[1] = 1 /\ at[2] <= 2 => lr = CallerOwned
  /\ at[1] = Len(blocks) /\ at[2] >= Len(blocks[Len(blocks)]) - 1 => lr = CallerOwned
  /\ func.caller /\ IsPast(1, 2) =>
       \A a \in LinkBytes : a \in DOMAIN mem /\ mem[a] = LinkRegister

\* ... and an object that was written has its value.
WrittenInv ==
  \A b \in DOMAIN blocks : \A i \in DOMAIN blocks[b] :
    blocks[b][i].op = "write" /\ IsPast(b, i) =>
      \A x \in Bytes(frame, blocks[b][i].arg.id) :
        x - Adjustment \in DOMAIN mem /\ mem[x - Adjustment] = blocks[b][i].arg.id

RunInv ==
  IF pc \notin Running THEN AtStart
  ELSE /\ at \in Nat \X Nat /\ at[1] \in DOMAIN blocks /\ at[2] \in DOMAIN blocks[at[1]]
       /\ pc = "returned" => AtEnd
       /\ LocalsKeepTheirValues
       /\ IF IsSkipped THEN sp = 0
          ELSE StackInv /\ LinkInv /\ WrittenInv

FrameAndCodeInv == Layout(frame) /\ PushInv /\ FrameInv /\ CodeInv /\ RunInv

\* A function that uses callee-saved registers is never finished; of the others
\* the invariant says the rest.
IInv ==
  /\ func \in Functions /\ pc \in Phases
  /\ DOMAIN slotOf = CalleeSaved \cup {LinkRegister}
  /\ func.used # <<>> => pc \in {"push", "frame", "slots", "adjust", "save", "spill", "aborted"}
                           /\ AtStart
  /\ func.used = <<>> => FrameAndCodeInv


-----------------------------------------------------------------------------
(* Inserting into a block *)

LEMMA FunctionFacts ==
  ASSUME NEW f \in Functions
  PROVE  /\ SlotsAssumption(f.slots) /\ BlocksAssumption(f)
         /\ f.caller \in BOOLEAN /\ f.used \in Seq(CalleeSaved)
         /\ FirstSlot + Len(f.used) < WordModulus
  BY FunctionAssumption DEF FunctionAssumption

LEMMA LargestFacts ==
  ASSUME NEW f \in Functions
  PROVE  /\ Largest(f) \in Nat
         /\ \A s \in DOMAIN f.slots : f.slots[s].size <= Largest(f)
         /\ Len(f.slots) * (2 * Largest(f)) + 64 <= WordModulus
<1>1. \E largest \in Words :
        /\ \A s \in DOMAIN f.slots : f.slots[s].size <= largest
        /\ Len(f.slots) * (2 * largest) + 64 <= WordModulus
  BY FunctionFacts DEF SlotsAssumption
<1>2. Words \subseteq Nat
  BY DEF Words
<1> QED BY <1>1, <1>2 DEF Largest

\* The instruction that is inserted, and where the others are then.
HasInserted(bs, b, p, instr, cs) ==
  /\ DOMAIN cs = 1..Len(bs) /\ Len(cs) = Len(bs) /\ Len(bs) \in Nat /\ DOMAIN bs = 1..Len(bs)
  /\ \A c \in 1..Len(bs) :
       /\ Len(bs[c]) \in Nat /\ Len(cs[c]) = IF c = b THEN Len(bs[c]) + 1 ELSE Len(bs[c])
       /\ DOMAIN cs[c] = 1..Len(cs[c]) /\ DOMAIN bs[c] = 1..Len(bs[c])
       /\ \A i \in 1..Len(cs[c]) :
            cs[c][i] = IF c # b \/ i < p THEN bs[c][i]
                       ELSE IF i = p THEN instr
                       ELSE bs[c][i - 1]

LEMMA InsertFacts ==
  ASSUME NEW S, NEW bs \in Seq(Seq(S)),
         NEW b \in DOMAIN bs, NEW p \in 1..Len(bs[b]), NEW instr \in S,
         NEW cs, cs = [bs EXCEPT ![b] = InsertAt(@, p, instr)]
  PROVE  cs \in Seq(Seq(S)) /\ HasInserted(bs, b, p, instr, cs)
<1> DEFINE new == InsertAt(bs[b], p, instr)
<1>1. bs[b] \in Seq(S)
  BY ElementOfSeq, LenProperties
<1>2. /\ new \in Seq(S) /\ Len(new) = Len(bs[b]) + 1
      /\ \A j \in 1..(Len(bs[b]) + 1) :
           new[j] = IF j < p THEN bs[b][j] ELSE IF j = p THEN instr ELSE bs[b][j - 1]
  <2>1. new \in Seq(S) /\ Len(new) = Len(bs[b]) + 1
    BY <1>1, InsertAtProperties
  <2>2. ASSUME NEW j \in 1..(Len(bs[b]) + 1)
        PROVE  new[j] = IF j < p THEN bs[b][j] ELSE IF j = p THEN instr ELSE bs[b][j - 1]
    <3>1. /\ j < p => new[j] = bs[b][j]
          /\ j = p => new[j] = instr
          /\ j > p => new[j] = bs[b][j - 1]
      BY <1>1, InsertedElement
    <3> HIDE DEF new
    <3> QED BY <1>1, <3>1
  <2> HIDE DEF new
  <2> QED BY <2>1, <2>2
<1>3. cs = [bs EXCEPT ![b] = new]
  OBVIOUS
<1> HIDE DEF new
<1>4. cs \in Seq(Seq(S)) /\ Len(cs) = Len(bs) /\ DOMAIN cs = DOMAIN bs
  BY <1>2, <1>3, ExceptSeq, LenProperties
<1>5. cs[b] = new /\ \A c \in DOMAIN bs : c # b => cs[c] = bs[c]
  BY <1>3
<1>6. Len(bs) \in Nat /\ DOMAIN bs = 1..Len(bs)
  BY LenProperties
<1>7. ASSUME NEW c \in DOMAIN bs
      PROVE  /\ bs[c] \in Seq(S) /\ cs[c] \in Seq(S)
             /\ Len(bs[c]) \in Nat /\ DOMAIN bs[c] = 1..Len(bs[c])
             /\ DOMAIN cs[c] = 1..Len(cs[c])
  BY <1>4, <1>6, ElementOfSeq, LenProperties
<1>8. ASSUME NEW c \in DOMAIN bs
      PROVE  /\ Len(cs[c]) = IF c = b THEN Len(bs[c]) + 1 ELSE Len(bs[c])
             /\ \A i \in 1..Len(cs[c]) :
                  cs[c][i] = IF c # b \/ i < p THEN bs[c][i]
                             ELSE IF i = p THEN instr
                             ELSE bs[c][i - 1]
  BY <1>2, <1>5
<1> QED BY <1>4, <1>6, <1>7, <1>8 DEF HasInserted

\* What an instruction of a block was, and where it is now.
LEMMA BeforeInsertion ==
  ASSUME NEW bs, NEW b \in DOMAIN bs, NEW p \in 1..Len(bs[b]), NEW instr, NEW cs,
         HasInserted(bs, b, p, instr, cs),
         NEW c \in DOMAIN cs, NEW i \in DOMAIN cs[c]
  PROVE  \/ c = b /\ i = p /\ i < Len(cs[c]) /\ cs[c][i] = instr
         \/ \E j \in DOMAIN bs[c] :
              /\ cs[c][i] = bs[c][j] /\ (i = Len(cs[c]) <=> j = Len(bs[c]))
              /\ i = IF c = b /\ j >= p THEN j + 1 ELSE j
<1>1. c \in 1..Len(bs) /\ i \in 1..Len(cs[c]) /\ b \in 1..Len(bs) /\ Len(bs[c]) \in Nat
  BY DEF HasInserted
<1>2. CASE c = b /\ i = p
  BY <1>1, <1>2 DEF HasInserted
<1>3. CASE c # b \/ i < p
  <2>1. i \in DOMAIN bs[c] /\ cs[c][i] = bs[c][i]
    BY <1>1, <1>3 DEF HasInserted
  <2>2. i = Len(cs[c]) <=> i = Len(bs[c])
    BY <1>1, <1>3 DEF HasInserted
  <2> QED BY <1>3, <2>1, <2>2
<1>4. CASE c = b /\ i > p
  <2>1. i - 1 \in DOMAIN bs[c] /\ cs[c][i] = bs[c][i - 1]
    BY <1>1, <1>4 DEF HasInserted
  <2>2. i = Len(cs[c]) <=> i - 1 = Len(bs[c])
    BY <1>1, <1>4 DEF HasInserted
  <2> QED BY <1>1, <1>4, <2>1, <2>2
<1> QED BY <1>1, <1>2, <1>3, <1>4

LEMMA BehindInsertion ==
  ASSUME NEW bs, NEW b \in DOMAIN bs, NEW p \in 1..Len(bs[b]), NEW instr, NEW cs,
         HasInserted(bs, b, p, instr, cs),
         NEW c \in DOMAIN bs, NEW j \in DOMAIN bs[c]
  PROVE  /\ c = b /\ j >= p => j + 1 \in DOMAIN cs[c] /\ cs[c][j + 1] = bs[c][j]
         /\ ~(c = b /\ j >= p) => j \in DOMAIN cs[c] /\ cs[c][j] = bs[c][j]
<1>1. c \in 1..Len(bs) /\ j \in 1..Len(bs[c]) /\ Len(bs[c]) \in Nat
  BY DEF HasInserted
<1>2. CASE c = b /\ j >= p
  <2>1. j + 1 \in 1..Len(cs[c]) /\ ~(j + 1 < p) /\ j + 1 # p /\ j + 1 - 1 = j
    BY <1>1, <1>2 DEF HasInserted
  <2>2. cs[c][j + 1] = bs[c][j + 1 - 1]
    BY <1>1, <1>2, <2>1 DEF HasInserted
  <2> QED BY <1>1, <1>2, <2>1, <2>2 DEF HasInserted
<1>3. CASE ~(c = b /\ j >= p)
  <2>1. j \in 1..Len(cs[c])
    BY <1>1, <1>3 DEF HasInserted
  <2>2. c # b \/ j < p
    BY <1>1, <1>3
  <2> QED BY <1>1, <1>3, <2>1, <2>2 DEF HasInserted
<1> QED BY <1>2, <1>3

LEMMA InsertKeepsCode ==
  ASSUME NEW f, NEW fr, NEW bs, Code(f, fr, bs),
         NEW b \in DOMAIN bs, NEW p \in 1..Len(bs[b]),
         NEW instr \in MachineInstructions, instr.op \in FrameOps,
         NEW cs \in Seq(Seq(MachineInstructions)), HasInserted(bs, b, p, instr, cs)
  PROVE  Code(f, fr, cs)
<1>1. bs # <<>>
  BY DEF Code
<1>2. HasInserted(bs, b, p, instr, cs)
  OBVIOUS
<1>3. DOMAIN cs = DOMAIN bs /\ Len(cs) = Len(bs) /\ DOMAIN bs = 1..Len(bs) /\ Len(bs) \in Nat
  BY <1>2 DEF HasInserted
<1>4. ASSUME NEW c \in DOMAIN cs PROVE cs[c] # <<>>
  <2>1. Len(cs[c]) # 0
    BY <1>2, <1>3, <1>4, EmptySeq, LenProperties DEF HasInserted, Code
  <2> QED BY <2>1
<1>7. ASSUME NEW c \in DOMAIN bs, NEW j \in DOMAIN bs[c]
      PROVE  /\ c = b /\ j >= p => j + 1 \in DOMAIN cs[c] /\ cs[c][j + 1] = bs[c][j]
             /\ ~(c = b /\ j >= p) => j \in DOMAIN cs[c] /\ cs[c][j] = bs[c][j]
  BY <1>2, BehindInsertion
<1>5. ASSUME NEW c \in DOMAIN cs, NEW i \in DOMAIN cs[c]
      PROVE  WellPlaced(f, fr, cs, c, i)
  <2>1. CASE c = b /\ i = p /\ i < Len(cs[c]) /\ cs[c][i] = instr
    <3>1. i # Len(cs[c])
      BY <1>2, <1>3, <2>1 DEF HasInserted
    <3>2. cs[c][i].op \notin Accesses \cup {"call", "jump", "ret"}
      BY <2>1 DEF FrameOps, Accesses
    <3> QED BY <3>1, <3>2 DEF WellPlaced, Accesses
  <2>2. ASSUME NEW j \in DOMAIN bs[c],
               cs[c][i] = bs[c][j], i = Len(cs[c]) <=> j = Len(bs[c]),
               i = IF c = b /\ j >= p THEN j + 1 ELSE j
        PROVE  WellPlaced(f, fr, cs, c, i)
    <3>1. WellPlaced(f, fr, bs, c, j)
      BY <1>3 DEF Code
    <3>2. ASSUME bs[c][j].op = "read"
          PROVE  \E d \in 1..c : \E k \in DOMAIN cs[d] :
                   /\ d = c => k < i
                   /\ cs[d][k].op = "write" /\ cs[d][k].arg.id = cs[c][i].arg.id
      <4>0. PICK d \in 1..c : \E k \in DOMAIN bs[d] :
              /\ d = c => k < j
              /\ bs[d][k].op = "write" /\ bs[d][k].arg.id = bs[c][j].arg.id
        BY <3>1, <3>2 DEF WellPlaced
      <4>1. PICK k \in DOMAIN bs[d] :
              /\ d = c => k < j
              /\ bs[d][k].op = "write" /\ bs[d][k].arg.id = bs[c][j].arg.id
        BY <4>0
      <4>2. d \in DOMAIN bs /\ c \in 1..Len(bs)
        BY <1>3
      <4> DEFINE m == IF d = b /\ k >= p THEN k + 1 ELSE k
      <4>6. m = IF d = b /\ k >= p THEN k + 1 ELSE k
        OBVIOUS
      <4>7. /\ d = b /\ k >= p => k + 1 \in DOMAIN cs[d] /\ cs[d][k + 1] = bs[d][k]
            /\ ~(d = b /\ k >= p) => k \in DOMAIN cs[d] /\ cs[d][k] = bs[d][k]
        BY <1>7, <4>2
      <4>3. m \in DOMAIN cs[d] /\ cs[d][m] = bs[d][k]
        BY <4>7
      <4> HIDE DEF m
      <4>4. d = c => k \in Nat /\ j \in Nat
        BY <1>2, <4>2 DEF HasInserted
      <4>5. d = c => m < i
        BY <2>2, <4>1, <4>6, <4>4
      <4> QED BY <2>2, <4>1, <4>3, <4>5
    <3>3. c = Len(cs) <=> c = Len(bs)
      BY <1>3
    <3>4. bs[c][j].op = "read" <=> cs[c][i].op = "read"
      BY <2>2
    <3>5. /\ cs[c][i].op = "ret" <=> c = Len(cs) /\ i = Len(cs[c])
          /\ cs[c][i].op = "jump" <=> c # Len(cs) /\ i = Len(cs[c])
      BY <2>2, <3>1, <3>3 DEF WellPlaced
    <3>6. /\ cs[c][i].op = "call" => f.caller
          /\ cs[c][i].op \in Accesses =>
               /\ cs[c][i].arg \in Offsets /\ cs[c][i].arg.id \in ObjectIDs(f)
               /\ cs[c][i].arg.offset = GetPosition(fr, cs[c][i].arg.id)
      BY <2>2, <3>1 DEF WellPlaced
    <3>7. cs[c][i].op = "read" =>
            \E d \in 1..c : \E k \in DOMAIN cs[d] :
              /\ d = c => k < i
              /\ cs[d][k].op = "write" /\ cs[d][k].arg.id = cs[c][i].arg.id
      BY <3>2, <3>4
    <3> QED BY <3>5, <3>6, <3>7 DEF WellPlaced
  <2> QED BY <1>2, <2>1, <2>2, BeforeInsertion
<1>6. cs # <<>>
  BY <1>1, <1>2, <1>3
<1> QED BY <1>2, <1>4, <1>5, <1>6 DEF Code

-----------------------------------------------------------------------------
(* Pushing the objects and lowering the accesses *)

LEMMA ObjectFacts ==
  ASSUME NoEmptyObjects, NEW f \in Functions
  PROVE  /\ Len(f.slots) \in Nat /\ DOMAIN f.slots = 1..Len(f.slots)
         /\ \A s \in DOMAIN f.slots :
              /\ f.slots[s].id \in 0..(WordModulus - 1) /\ f.slots[s].id < FirstSlot
              /\ f.slots[s].size \in Nat \ {0}
         /\ \A s, t \in DOMAIN f.slots : s < t => f.slots[s].id < f.slots[t].id
<1>1. SlotsAssumption(f.slots) /\ FirstSlot < WordModulus
  <2>1. Len(f.used) \in Nat /\ FirstSlot + Len(f.used) < WordModulus
    BY FunctionFacts, LenProperties
  <2> QED BY <2>1, FunctionFacts, RegisterAssumption, WordAssumption
<1>2. f.slots \in Seq([id : 0..(FirstSlot - 1), size : Nat])
  BY <1>1 DEF SlotsAssumption
<1>3. Len(f.slots) \in Nat /\ DOMAIN f.slots = 1..Len(f.slots)
  BY <1>2, LenProperties
<1>4. \A s \in DOMAIN f.slots : f.slots[s] \in [id : 0..(FirstSlot - 1), size : Nat]
  BY <1>2, <1>3, ElementOfSeq
<1>5. \A s \in DOMAIN f.slots :
        /\ f.slots[s].id \in 0..(WordModulus - 1) /\ f.slots[s].id < FirstSlot
        /\ f.slots[s].size \in Nat \ {0}
  BY <1>1, <1>4, RegisterAssumption, WordAssumption DEF NoEmptyObjects
<1> QED BY <1>1, <1>3, <1>5 DEF SlotsAssumption

LEMMA Products ==
  ASSUME NEW n \in Nat \ {0}, NEW m \in Nat, n <= m, NEW d \in Nat
  PROVE  /\ (n - 1) * d \in Nat /\ n * d \in Nat /\ m * d \in Nat
         /\ (n - 1) * d + d = n * d /\ n * d <= m * d
<1>1. (n - 1) * d \in Nat /\ n * d \in Nat /\ m * d \in Nat /\ (m - n) * d \in Nat
  OBVIOUS
<1>2. (n - 1) * d + d = n * d
  OBVIOUS
<1>3. m * d = n * d + (m - n) * d
  OBVIOUS
<1> QED BY <1>1, <1>2, <1>3

LEMMA PushObjectKeeps ==
  ASSUME NoEmptyObjects, func.used = <<>>, IInv, PushObject
  PROVE  FrameAndCodeInv'
<1> DEFINE n == Cardinality(DOMAIN frame.slots) + 1
           id == func.slots[n].id
           size == func.slots[n].size
           double == 2 * Largest(func)
<1>1. /\ pc = "push" /\ n <= Len(func.slots) /\ pc' = "push"
      /\ frame' = InsertStackSlot(frame, id, size) /\ blocks' = blocks /\ func' = func
      /\ UNCHANGED machine
  BY DEF PushObject
<1>2. /\ func \in Functions /\ Layout(frame) /\ PushInv /\ RunInv
  BY DEF IInv, FrameAndCodeInv
<1>3. /\ IsFiniteSet(DOMAIN frame.slots) /\ n - 1 \in Nat /\ n \in Nat
      /\ DOMAIN frame.slots = {func.slots[s].id : s \in 1..(n - 1)}
      /\ frame.size <= (n - 1) * double /\ blocks = func.blocks
  BY <1>1, <1>2, FS_CardinalityType DEF PushInv
<1>4. /\ Len(func.slots) \in Nat /\ n \in DOMAIN func.slots /\ 1..n \subseteq DOMAIN func.slots
      /\ id \in 0..(WordModulus - 1) /\ size \in Nat \ {0}
  BY <1>1, <1>2, <1>3, ObjectFacts
<1>5. \A j \in DOMAIN frame.slots : j < id
  <2>1. \A s \in 1..(n - 1) : s \in DOMAIN func.slots /\ s < n
    BY <1>3, <1>4
  <2>2. \A s \in 1..(n - 1) : func.slots[s].id < func.slots[n].id
    BY <1>2, <1>4, <2>1, ObjectFacts
  <2> HIDE DEF n
  <2> QED BY <1>3, <2>2
<1>6. /\ double \in Nat /\ 2 * size <= double /\ Len(func.slots) * double + 64 <= WordModulus
  <2>1. Largest(func) \in Nat /\ size <= Largest(func)
    BY <1>2, <1>4, LargestFacts
  <2> QED BY <1>2, <1>4, <2>1, LargestFacts
<1>7. frame.size \in Nat
  BY <1>2 DEF Layout
<1> HIDE DEF n, id, size, double
<1>8. /\ (n - 1) * double + double = n * double
      /\ n * double <= Len(func.slots) * double
      /\ (n - 1) * double \in Nat /\ n * double \in Nat /\ Len(func.slots) * double \in Nat
  <2>1. n \in Nat \ {0} /\ n <= Len(func.slots)
    BY <1>1, <1>3
  <2> QED BY <1>4, <1>6, <2>1, Products
<1>10. frame.size + 2 * size <= WordModulus
  <2> DEFINE before == (n - 1) * double
             behind == n * double
             all == Len(func.slots) * double
  <2>1. /\ before + double = behind /\ behind <= all /\ all + 64 <= WordModulus
        /\ before \in Nat /\ behind \in Nat /\ all \in Nat /\ frame.size <= before
    BY <1>3, <1>6, <1>8
  <2> HIDE DEF before, behind, all
  <2> QED BY <1>4, <1>6, <1>7, <2>1, WordAssumption
<1>11. /\ Layout(frame') /\ DOMAIN frame'.slots = DOMAIN frame.slots \cup {id}
       /\ frame'.size < frame.size + 2 * size
  BY <1>1, <1>2, <1>4, <1>5, <1>10, PushKeepsLayout
<1>12. frame'.size <= n * double
  <2>1. frame'.size \in Nat
    BY <1>11 DEF Layout
  <2> DEFINE before == (n - 1) * double
             behind == n * double
  <2>2. before + double = behind /\ before \in Nat /\ behind \in Nat /\ frame.size <= before
    BY <1>3, <1>8
  <2> HIDE DEF before, behind
  <2>3. frame'.size <= before + double
    BY <1>4, <1>6, <1>7, <1>11, <2>1, <2>2
  <2>4. frame'.size <= behind
    BY <2>2, <2>3
  <2> QED BY <2>4 DEF behind
<1>13. id \notin DOMAIN frame.slots
  BY <1>4, <1>5
<1>14. IsFiniteSet(DOMAIN frame'.slots) /\ Cardinality(DOMAIN frame'.slots) = n
  <2>1. Cardinality(DOMAIN frame.slots) = n - 1
    BY <1>3, FS_CardinalityType DEF n
  <2>2. /\ IsFiniteSet(DOMAIN frame.slots \cup {id})
        /\ Cardinality(DOMAIN frame.slots \cup {id}) = n - 1 + 1
    BY <1>3, <1>13, <2>1, FS_AddElement
  <2> QED BY <1>3, <1>11, <2>2
<1>15. DOMAIN frame'.slots = {func.slots[s].id : s \in 1..n}
  <2>1. 1..n = 1..(n - 1) \cup {n}
    BY <1>3
  <2> QED BY <1>3, <1>11, <2>1 DEF id
<1>16. PushInv'
  BY <1>1, <1>3, <1>12, <1>14, <1>15 DEF PushInv, double
<1>17. FrameInv' /\ CodeInv'
  BY <1>1 DEF FrameInv, CodeInv
<1>18. RunInv'
  BY <1>1, <1>2 DEF RunInv, AtStart, machine, Running
<1> QED BY <1>11, <1>16, <1>17, <1>18 DEF FrameAndCodeInv

\* The lowered accesses are well placed, as those of the IR were.
IsLowered(f, fr, cs) ==
  /\ cs \in Seq(Seq(MachineInstructions)) /\ DOMAIN cs = DOMAIN f.blocks
  /\ \A b \in DOMAIN cs : DOMAIN cs[b] = DOMAIN f.blocks[b]
  /\ \A b \in DOMAIN cs : \A i \in DOMAIN cs[b] :
       /\ cs[b][i].op = f.blocks[b][i].op
       /\ f.blocks[b][i].op \in Accesses =>
            cs[b][i].arg = [id |-> f.blocks[b][i].arg,
                            offset |-> GetPosition(fr, f.blocks[b][i].arg)]

LEMMA LoweringMakesCode ==
  ASSUME NoEmptyObjects, NEW f \in Functions, NEW fr,
         \A id \in ObjectIDs(f) : GetPosition(fr, id) \in Int,
         NEW cs, IsLowered(f, fr, cs)
  PROVE  /\ Code(f, fr, cs) /\ DOMAIN cs = 1..Len(cs) /\ Len(cs) \in Nat \ {0}
         /\ \A b \in DOMAIN cs : Len(cs[b]) \in Nat \ {0} /\ DOMAIN cs[b] = 1..Len(cs[b])
         /\ \A b \in DOMAIN cs : \A i \in DOMAIN cs[b] : cs[b][i].op \notin FrameOps
<1>10. /\ cs \in Seq(Seq(MachineInstructions)) /\ DOMAIN cs = DOMAIN f.blocks
       /\ \A b \in DOMAIN cs : DOMAIN cs[b] = DOMAIN f.blocks[b]
       /\ \A b \in DOMAIN cs : \A i \in DOMAIN cs[b] :
            /\ cs[b][i].op = f.blocks[b][i].op
            /\ f.blocks[b][i].op \in Accesses =>
                 cs[b][i].arg = [id |-> f.blocks[b][i].arg,
                                 offset |-> GetPosition(fr, f.blocks[b][i].arg)]
  BY DEF IsLowered
<1>1. /\ f.blocks \in Seq(Seq(Instructions)) /\ f.blocks # <<>>
      /\ \A b \in DOMAIN f.blocks : f.blocks[b] # <<>>
  BY FunctionFacts DEF BlocksAssumption
<1>2. /\ Len(f.blocks) \in Nat /\ DOMAIN f.blocks = 1..Len(f.blocks) /\ Len(f.blocks) # 0
  BY <1>1, LenProperties, EmptySeq
<1>3. ASSUME NEW b \in DOMAIN f.blocks
      PROVE  /\ f.blocks[b] \in Seq(Instructions)
             /\ Len(f.blocks[b]) \in Nat /\ DOMAIN f.blocks[b] = 1..Len(f.blocks[b])
             /\ Len(f.blocks[b]) # 0
  <2>1. f.blocks[b] \in Seq(Instructions) /\ f.blocks[b] # <<>>
    BY <1>1, <1>2, ElementOfSeq
  <2> QED BY <2>1, LenProperties, EmptySeq
<1>4. cs \in Seq(Seq(MachineInstructions)) /\ Len(cs) = Len(f.blocks)
  BY <1>2, <1>10, LenProperties
<1>5. ASSUME NEW b \in DOMAIN cs
      PROVE  Len(cs[b]) = Len(f.blocks[b])
  <2>1. cs[b] \in Seq(MachineInstructions)
    BY <1>2, <1>4, <1>10, ElementOfSeq
  <2> QED BY <1>3, <1>10, <2>1, LenProperties
<1>6. ASSUME NEW b \in DOMAIN cs, NEW i \in DOMAIN cs[b]
      PROVE  WellPlaced(f, fr, cs, b, i) /\ cs[b][i].op \notin FrameOps
  <2> DEFINE instr == f.blocks[b][i]
  <2>1. instr \in Instructions /\ b \in 1..Len(f.blocks)
    BY <1>2, <1>3, <1>10, ElementOfSeq
  <2>10. BlocksAssumption(f)
    BY FunctionFacts
  <2>2. /\ instr.op = "ret" <=> b = Len(f.blocks) /\ i = Len(f.blocks[b])
        /\ instr.op = "jump" <=> b # Len(f.blocks) /\ i = Len(f.blocks[b])
        /\ instr.op = "call" => f.caller
    BY <1>10, <2>10 DEF BlocksAssumption
  <2>3. instr.op \in Accesses => instr.arg \in ObjectIDs(f)
    <3>1. instr.op \in Accesses => \E s \in DOMAIN f.slots : f.slots[s].id = instr.arg
      BY <1>10, <2>10 DEF BlocksAssumption
    <3> HIDE DEF instr
    <3> QED BY <3>1 DEF ObjectIDs
  <2>4. instr.op = "read" =>
          \E c \in 1..b : \E k \in DOMAIN f.blocks[c] :
            (c = b => k < i) /\ f.blocks[c][k] = [op |-> "write", arg |-> instr.arg]
    <3>1. b \in DOMAIN f.blocks /\ i \in DOMAIN f.blocks[b]
      BY <1>10
    <3> QED BY <2>10, <3>1 DEF BlocksAssumption
  <2>5. cs[b][i].op = instr.op
    BY <1>10
  <2>6. cs[b][i].op \in Accesses =>
          /\ cs[b][i].arg \in Offsets /\ cs[b][i].arg.id = instr.arg
          /\ cs[b][i].arg.id \in ObjectIDs(f)
          /\ cs[b][i].arg.offset = GetPosition(fr, cs[b][i].arg.id)
    <3> SUFFICES ASSUME cs[b][i].op \in Accesses
                 PROVE  /\ cs[b][i].arg \in Offsets /\ cs[b][i].arg.id = instr.arg
                        /\ cs[b][i].arg.id \in ObjectIDs(f)
                        /\ cs[b][i].arg.offset = GetPosition(fr, cs[b][i].arg.id)
      OBVIOUS
    <3>1. instr.op \in Accesses /\ instr.arg \in ObjectIDs(f) /\ instr.arg \in Int
      BY <2>1, <2>3, <2>5 DEF Instructions
    <3>2. cs[b][i].arg = [id |-> instr.arg, offset |-> GetPosition(fr, instr.arg)]
      BY <1>10, <3>1
    <3>3. GetPosition(fr, instr.arg) \in Int
      BY <3>1
    <3> HIDE DEF instr
    <3> QED BY <3>1, <3>2, <3>3 DEF Offsets
  <2>7. cs[b][i].op = "read" =>
          \E c \in 1..b : \E k \in DOMAIN cs[c] :
            /\ c = b => k < i
            /\ cs[c][k].op = "write" /\ cs[c][k].arg.id = cs[b][i].arg.id
    <3> SUFFICES ASSUME cs[b][i].op = "read"
                 PROVE  \E c \in 1..b : \E k \in DOMAIN cs[c] :
                          /\ c = b => k < i
                          /\ cs[c][k].op = "write" /\ cs[c][k].arg.id = cs[b][i].arg.id
      OBVIOUS
    <3>1. PICK c \in 1..b : \E k \in DOMAIN f.blocks[c] :
            (c = b => k < i) /\ f.blocks[c][k] = [op |-> "write", arg |-> instr.arg]
      BY <2>4, <2>5
    <3>2. PICK k \in DOMAIN f.blocks[c] :
            (c = b => k < i) /\ f.blocks[c][k] = [op |-> "write", arg |-> instr.arg]
      BY <3>1
    <3>3. c \in DOMAIN cs /\ k \in DOMAIN cs[c]
      <4>1. c \in DOMAIN cs
        BY <1>2, <1>10, <2>1
      <4> QED BY <1>10, <3>2, <4>1
    <3>4. f.blocks[c][k].op = "write" /\ f.blocks[c][k].arg = instr.arg /\ "write" \in Accesses
      BY <3>2 DEF Accesses
    <3>5. cs[c][k].op = "write" /\ cs[c][k].arg.id = instr.arg
      <4>1. /\ cs[c][k].op = f.blocks[c][k].op
            /\ cs[c][k].arg = [id |-> f.blocks[c][k].arg,
                               offset |-> GetPosition(fr, f.blocks[c][k].arg)]
        BY <1>10, <3>3, <3>4
      <4> HIDE DEF instr
      <4> QED BY <3>4, <4>1
    <3>6. cs[b][i].arg.id = instr.arg
      BY <2>6 DEF Accesses
    <3> QED BY <3>2, <3>3, <3>5, <3>6
  <2>8. cs[b][i].op \notin FrameOps
    BY <2>1, <2>5 DEF Instructions, Accesses, FrameOps
  <2>9. /\ cs[b][i].op = "ret" <=> b = Len(cs) /\ i = Len(cs[b])
        /\ cs[b][i].op = "jump" <=> b # Len(cs) /\ i = Len(cs[b])
        /\ cs[b][i].op = "call" => f.caller
    BY <1>4, <1>5, <2>2, <2>5
  <2> HIDE DEF instr
  <2> QED BY <2>6, <2>7, <2>8, <2>9 DEF WellPlaced
<1>7. \A b \in DOMAIN cs : Len(cs[b]) \in Nat \ {0} /\ DOMAIN cs[b] = 1..Len(cs[b])
  BY <1>3, <1>5, <1>10
<1>8. \A b \in DOMAIN cs : cs[b] # <<>>
  BY <1>7
<1>9. cs # <<>> /\ Len(cs) \in Nat \ {0} /\ DOMAIN cs = 1..Len(cs)
  BY <1>2, <1>4, <1>10
<1> QED BY <1>4, <1>6, <1>7, <1>8, <1>9 DEF Code

LEMMA LowerStackAccessesKeeps ==
  ASSUME NoEmptyObjects, func.used = <<>>, IInv, LowerStackAccesses
  PROVE  FrameAndCodeInv'
<1> DEFINE n == Cardinality(DOMAIN frame.slots)
           m == Len(func.slots)
           double == 2 * Largest(func)
<1>1. /\ pc = "push" /\ n = m /\ pc' = "frame"
      /\ blocks' = [b \in DOMAIN blocks |->
                      [i \in DOMAIN blocks[b] |-> LowerInstr(blocks[b][i])]]
      /\ UNCHANGED <<func, frame, slotOf, next, machine>>
  BY DEF LowerStackAccesses
<1>2. func \in Functions /\ Layout(frame) /\ PushInv /\ RunInv
  BY DEF IInv, FrameAndCodeInv
<1>3. /\ blocks = func.blocks
      /\ DOMAIN frame.slots = {func.slots[s].id : s \in 1..m}
      /\ frame.size <= m * double
  BY <1>1, <1>2 DEF PushInv
<1>4. m \in Nat /\ DOMAIN func.slots = 1..m
  BY <1>2, ObjectFacts
<1>5. DOMAIN frame.slots = ObjectIDs(func)
  BY <1>3, <1>4 DEF ObjectIDs
<1>6. frame.size + 64 <= WordModulus
  <2>1. double \in Nat /\ m * double + 64 <= WordModulus
    BY <1>2, LargestFacts
  <2> DEFINE all == m * double
  <2>2. all \in Nat /\ frame.size <= all /\ all + 64 <= WordModulus
    BY <1>3, <1>4, <2>1
  <2>3. frame.size \in Nat
    BY <1>2 DEF Layout
  <2> HIDE DEF all, double
  <2> QED BY <2>2, <2>3, WordAssumption
<1>7. \A id \in ObjectIDs(func) : GetPosition(frame, id) \in Int
  BY <1>2, <1>5 DEF Layout
<1>8. /\ blocks \in Seq(Seq(Instructions)) /\ blocks # <<>>
      /\ \A b \in DOMAIN blocks : blocks[b] # <<>>
  BY <1>2, <1>3, FunctionFacts DEF BlocksAssumption
<1>9. /\ DOMAIN blocks' = DOMAIN func.blocks
      /\ \A b \in DOMAIN blocks' : DOMAIN blocks'[b] = DOMAIN func.blocks[b]
      /\ \A b \in DOMAIN blocks' : \A i \in DOMAIN blocks'[b] :
           blocks'[b][i] = LowerInstr(func.blocks[b][i])
  BY <1>1, <1>3
<1>10. ASSUME NEW b \in DOMAIN blocks', NEW i \in DOMAIN blocks'[b]
       PROVE  /\ blocks'[b][i] \in MachineInstructions
              /\ blocks'[b][i].op = func.blocks[b][i].op
              /\ func.blocks[b][i].op \in Accesses =>
                   blocks'[b][i].arg = [id |-> func.blocks[b][i].arg,
                                        offset |-> GetPosition(frame, func.blocks[b][i].arg)]
  <2> DEFINE instr == func.blocks[b][i]
  <2>1. instr \in Instructions
    <3>1. func.blocks[b] \in Seq(Instructions)
      BY <1>3, <1>8, <1>9, ElementOfSeq, LenProperties
    <3> QED BY <1>9, <3>1, ElementOfSeq, LenProperties
  <2>2. instr.op \in Accesses => instr.arg \in ObjectIDs(func)
    <3>1. BlocksAssumption(func)
      BY <1>2, FunctionFacts
    <3>2. instr.op \in Accesses => \E s \in DOMAIN func.slots : func.slots[s].id = instr.arg
      BY <1>9, <3>1 DEF BlocksAssumption
    <3> HIDE DEF instr
    <3> QED BY <3>2 DEF ObjectIDs
  <2>3. blocks'[b][i] = LowerInstr(instr)
    BY <1>9
  <2>4. CASE instr.op \in Accesses
    <3> DEFINE arg == [id |-> instr.arg, offset |-> GetPosition(frame, instr.arg)]
    <3> HIDE DEF instr
    <3>1. arg \in Offsets
      BY <1>7, <2>1, <2>2, <2>4 DEF Offsets, Instructions
    <3>2. blocks'[b][i] = [instr EXCEPT !.arg = arg]
      BY <2>3, <2>4 DEF LowerInstr
    <3> HIDE DEF arg
    <3>3. /\ blocks'[b][i] \in MachineInstructions
          /\ blocks'[b][i].op = instr.op /\ blocks'[b][i].arg = arg
      BY <2>1, <3>1, <3>2 DEF Instructions, MachineInstructions
    <3> QED BY <3>3 DEF arg, instr
  <2>5. CASE instr.op \notin Accesses
    <3> HIDE DEF instr
    <3>1. blocks'[b][i] = instr
      BY <2>3, <2>5 DEF LowerInstr
    <3>2. instr \in MachineInstructions
      BY <2>1 DEF Instructions, MachineInstructions
    <3> QED BY <2>5, <3>1, <3>2 DEF instr
  <2> QED BY <2>4, <2>5
<1>11. blocks' \in Seq(Seq(MachineInstructions))
  <2>1. Len(blocks) \in Nat /\ DOMAIN blocks = 1..Len(blocks)
    BY <1>8, LenProperties
  <2>2. ASSUME NEW b \in DOMAIN blocks PROVE blocks'[b] \in Seq(MachineInstructions)
    <3>1. blocks[b] \in Seq(Instructions)
      BY <1>8, <2>1, ElementOfSeq
    <3>2. Len(blocks[b]) \in Nat /\ DOMAIN blocks[b] = 1..Len(blocks[b])
      BY <3>1, LenProperties
    <3>3. blocks'[b] = [i \in 1..Len(blocks[b]) |-> LowerInstr(blocks[b][i])]
      BY <1>1, <3>2
    <3>4. \A i \in 1..Len(blocks[b]) : blocks'[b][i] \in MachineInstructions
      BY <1>3, <1>9, <1>10, <3>2
    <3>5. \A i \in 1..Len(blocks[b]) : LowerInstr(blocks[b][i]) \in MachineInstructions
      BY <3>3, <3>4
    <3> QED BY <3>2, <3>3, <3>5, IsASeq
  <2>3. blocks' = [b \in 1..Len(blocks) |-> blocks'[b]]
    BY <1>1, <2>1
  <2> QED BY <2>1, <2>2, <2>3
<1>12. /\ Code(func, frame, blocks') /\ DOMAIN blocks' = 1..Len(blocks') /\ Len(blocks') \in Nat \ {0}
       /\ \A b \in DOMAIN blocks' :
            Len(blocks'[b]) \in Nat \ {0} /\ DOMAIN blocks'[b] = 1..Len(blocks'[b])
       /\ \A b \in DOMAIN blocks' : \A i \in DOMAIN blocks'[b] : blocks'[b][i].op \notin FrameOps
  <2>1. IsLowered(func, frame, blocks')
    BY <1>9, <1>10, <1>11 DEF IsLowered
  <2> QED BY <1>2, <1>7, <2>1, LoweringMakesCode
<1>13. CodeInv'
  <2>1. PrologueLength' = 0 /\ EpilogueLength' = 0
    BY <1>1 DEF PrologueLength, EpilogueLength
  <2>2. Inserted(func.caller, Adjustment', LinkOffset', blocks', 0, 0)
    BY <1>12, FunctionFacts, <1>2 DEF Inserted
  <2> QED BY <1>1, <1>12, <2>1, <2>2 DEF CodeInv
<1>14. FrameInv'
  <2>1. ~HasLinkSlot'
    BY <1>1 DEF HasLinkSlot
  <2> QED BY <1>1, <1>5, <1>6, <2>1 DEF FrameInv, Compiling
<1>15. Layout(frame)' /\ PushInv' /\ RunInv'
  BY <1>1, <1>2 DEF PushInv, RunInv, AtStart, machine, Running
<1> QED BY <1>13, <1>14, <1>15 DEF FrameAndCodeInv

-----------------------------------------------------------------------------
(* Inserting prologue and epilogue *)

LEMMA StartInsertionKeeps ==
  ASSUME func.used = <<>>, IInv, StartInsertion
  PROVE  FrameAndCodeInv'
<1>1. /\ pc = "frame" /\ ~HasNothingToAdjust /\ pc' = "slots" /\ next' = FirstSlot
      /\ UNCHANGED <<func, frame, slotOf, blocks, machine>>
  BY DEF StartInsertion
<1>2. Layout(frame) /\ PushInv /\ FrameInv /\ CodeInv /\ RunInv
  BY DEF IInv, FrameAndCodeInv
<1>3. FrameInv'
  BY <1>1, <1>2 DEF FrameInv, HasLinkSlot, HasNothingToAdjust, Compiling
<1>4. CodeInv'
  <2>1. PrologueLength = 0 /\ PrologueLength' = 0 /\ EpilogueLength = 0 /\ EpilogueLength' = 0
    BY <1>1 DEF PrologueLength, EpilogueLength
  <2>2. Adjustment' = Adjustment /\ LinkOffset' = LinkOffset
    BY <1>1 DEF Adjustment, LinkOffset
  <2> QED BY <1>1, <1>2, <2>1, <2>2 DEF CodeInv
<1>5. Layout(frame)' /\ PushInv' /\ RunInv'
  BY <1>1, <1>2 DEF PushInv, RunInv, AtStart, machine, Running
<1> QED BY <1>3, <1>4, <1>5 DEF FrameAndCodeInv

LEMMA FrameTooLargeKeeps ==
  ASSUME func.used = <<>>, IInv, FrameTooLarge
  PROVE  FrameAndCodeInv'
<1>1. /\ pc = "adjust" /\ pc' = "aborted"
      /\ UNCHANGED <<func, frame, slotOf, next, blocks, machine>>
  BY DEF FrameTooLarge
<1>2. Layout(frame) /\ FrameInv /\ RunInv
  BY DEF IInv, FrameAndCodeInv
<1>3. FrameInv'
  BY <1>1, <1>2 DEF FrameInv, HasLinkSlot, IsSkipped, Running, Compiling
<1>4. Layout(frame)' /\ PushInv' /\ RunInv' /\ CodeInv'
  BY <1>1, <1>2 DEF PushInv, CodeInv, RunInv, AtStart, machine, Running
<1> QED BY <1>3, <1>4 DEF FrameAndCodeInv

\* The first instruction of a function with code.
LEMMA FirstInstruction ==
  ASSUME NEW f, NEW fr, NEW bs, Code(f, fr, bs)
  PROVE  /\ Len(bs) \in Nat \ {0} /\ DOMAIN bs = 1..Len(bs)
         /\ \A b \in DOMAIN bs :
              /\ Len(bs[b]) \in Nat \ {0} /\ DOMAIN bs[b] = 1..Len(bs[b])
              /\ \A i \in DOMAIN bs[b] : bs[b][i] \in MachineInstructions
<1>1. bs \in Seq(Seq(MachineInstructions)) /\ bs # <<>> /\ \A b \in DOMAIN bs : bs[b] # <<>>
  BY DEF Code
<1>2. Len(bs) \in Nat \ {0} /\ DOMAIN bs = 1..Len(bs)
  BY <1>1, LenProperties, EmptySeq
<1>3. ASSUME NEW b \in DOMAIN bs
      PROVE  /\ Len(bs[b]) \in Nat \ {0} /\ DOMAIN bs[b] = 1..Len(bs[b])
             /\ \A i \in DOMAIN bs[b] : bs[b][i] \in MachineInstructions
  <2>1. bs[b] \in Seq(MachineInstructions) /\ bs[b] # <<>>
    BY <1>1, <1>2, ElementOfSeq
  <2>2. Len(bs[b]) \in Nat \ {0} /\ DOMAIN bs[b] = 1..Len(bs[b])
    BY <2>1, LenProperties, EmptySeq
  <2> QED BY <2>1, <2>2, ElementOfSeq
<1> QED BY <1>2, <1>3

LEMMA SkipFunctionKeeps ==
  ASSUME func.used = <<>>, IInv, SkipFunction
  PROVE  FrameAndCodeInv'
<1>1. /\ pc = "frame" /\ HasNothingToAdjust /\ pc' = "run"
      /\ UNCHANGED <<func, frame, slotOf, next, blocks, machine>>
  BY DEF SkipFunction
<1>2. Layout(frame) /\ FrameInv /\ RunInv /\ CodeInv
  BY DEF IInv, FrameAndCodeInv
<1>3. IsSkipped' /\ HasNothingToAdjust'
  BY <1>1 DEF IsSkipped, Running, HasNothingToAdjust
<1>4. FrameInv'
  BY <1>1, <1>2, <1>3 DEF FrameInv, HasLinkSlot, Compiling
<1>5. Code(func, frame, blocks) /\ CodeInv'
  <2>1. PrologueLength = 0 /\ PrologueLength' = 0 /\ EpilogueLength = 0 /\ EpilogueLength' = 0
    BY <1>1, <1>3 DEF PrologueLength, EpilogueLength
  <2>2. Adjustment' = Adjustment /\ LinkOffset' = LinkOffset
    BY <1>1 DEF Adjustment, LinkOffset
  <2> QED BY <1>1, <1>2, <2>1, <2>2 DEF CodeInv
<1>6. AtStart'
  BY <1>1, <1>2 DEF RunInv, AtStart, machine, Running
<1>7. RunInv'
  <2>1. at' = <<1, 1>> /\ 1 \in DOMAIN blocks' /\ 1 \in DOMAIN blocks'[1]
    BY <1>1, <1>5, <1>6, FirstInstruction DEF AtStart
  <2> QED BY <1>1, <1>3, <1>6, <2>1 DEF RunInv, AtStart, Running, LocalsKeepTheirValues
<1>8. Layout(frame)' /\ PushInv'
  BY <1>1, <1>2 DEF PushInv
<1> QED BY <1>4, <1>5, <1>7, <1>8 DEF FrameAndCodeInv

LEMMA InsertLinkRegisterSlotKeeps ==
  ASSUME NoEmptyObjects, func.used = <<>>, IInv, InsertLinkRegisterSlot
  PROVE  FrameAndCodeInv'
<1>1. /\ pc = "slots" /\ pc' = "adjust" /\ UNCHANGED <<func, blocks, machine>>
      /\ func.caller => /\ frame' = InsertStackSlot(frame, next, 16)
                        /\ slotOf' = [slotOf EXCEPT ![LinkRegister] = next]
      /\ ~func.caller => UNCHANGED <<frame, slotOf>>
  BY DEF InsertLinkRegisterSlot, LinkSlot
<1>2. /\ func \in Functions /\ Layout(frame) /\ FrameInv /\ RunInv /\ CodeInv
      /\ LinkRegister \in DOMAIN slotOf
  BY DEF IInv, FrameAndCodeInv
<1>3. /\ DOMAIN frame.slots = ObjectIDs(func) /\ frame.size + 64 <= WordModulus
      /\ next = FirstSlot /\ frame.size \in Nat /\ ~HasNothingToAdjust
  BY <1>1, <1>2 DEF FrameInv, HasLinkSlot, Layout, Compiling
<1>4. \A j \in DOMAIN frame.slots : j < FirstSlot
  BY <1>2, <1>3, ObjectFacts DEF ObjectIDs
<1>5. FirstSlot \in 0..(WordModulus - 1)
  <2>1. Len(func.used) \in Nat /\ FirstSlot + Len(func.used) < WordModulus
    BY <1>2, FunctionFacts, LenProperties
  <2> QED BY <2>1, RegisterAssumption, WordAssumption
<1>6. ASSUME func.caller
      PROVE  /\ Layout(frame') /\ frame'.size # 0 /\ frame'.size + 32 <= WordModulus
             /\ DOMAIN frame'.slots = ObjectIDs(func) \cup {FirstSlot}
             /\ frame'.slots[FirstSlot] = 16 /\ slotOf'[LinkRegister] = FirstSlot
             /\ \A i \in ObjectIDs(func) : GetPosition(frame', i) = GetPosition(frame, i)
             /\ GetPosition(frame', FirstSlot) % 16 = 0
  <2>1. frame.size + 2 * 16 <= WordModulus /\ 16 \in Nat \ {0}
    BY <1>3, WordAssumption
  <2>2. frame' = InsertStackSlot(frame, FirstSlot, 16)
    BY <1>1, <1>3, <1>6
  <2>3. /\ Layout(frame') /\ frame'.size < frame.size + 2 * 16
        /\ DOMAIN frame'.slots = DOMAIN frame.slots \cup {FirstSlot}
        /\ frame'.slots[FirstSlot] = 16
        /\ \A i \in DOMAIN frame.slots : GetPosition(frame', i) = GetPosition(frame, i)
        /\ GetPosition(frame', FirstSlot) = GetNextAlignedValue(frame.size, 16)
    BY <1>2, <1>4, <1>5, <2>1, <2>2, PushKeepsLayout
  <2>4. GetNextAlignedValue(frame.size, 16) % 16 = 0
    BY <1>3, <2>1, RoundingToSixteen, WordAssumption
  <2>5. frame'.size \in Nat /\ frame'.size # 0
    BY <2>3 DEF Layout
  <2> QED BY <1>1, <1>2, <1>3, <1>6, <2>3, <2>4, <2>5, WordAssumption
<1>7. /\ Layout(frame') /\ ~HasNothingToAdjust'
      /\ \A i \in ObjectIDs(func) : GetPosition(frame', i) = GetPosition(frame, i)
  BY <1>1, <1>2, <1>3, <1>6 DEF HasNothingToAdjust
<1>8. FrameInv'
  <2>1. HasLinkSlot' <=> func.caller
    BY <1>1 DEF HasLinkSlot, IsSkipped, Running
  <2>2. CASE func.caller
    BY <1>1, <1>6, <1>7, <2>1, <2>2 DEF FrameInv
  <2>3. CASE ~func.caller
    BY <1>1, <1>3, <1>7, <2>1, <2>3 DEF FrameInv
  <2> QED BY <2>2, <2>3
<1>9. CodeInv'
  <2>1. PrologueLength = 0 /\ PrologueLength' = 0 /\ EpilogueLength = 0 /\ EpilogueLength' = 0
    BY <1>1 DEF PrologueLength, EpilogueLength, IsSkipped, Running
  <2>2. Code(func, frame, blocks)
        /\ Inserted(func.caller, Adjustment, LinkOffset, blocks, 0, 0)
    BY <1>1, <1>2, <2>1 DEF CodeInv
  <2>3. Inserted(func.caller, Adjustment', LinkOffset', blocks, 0, 0)
    BY <2>2 DEF Inserted
  <2>4. Code(func, frame', blocks)
    BY <1>7, <2>2 DEF Code, WellPlaced
  <2> QED BY <1>1, <2>1, <2>3, <2>4 DEF CodeInv
<1>10. PushInv' /\ RunInv'
  BY <1>1, <1>2 DEF PushInv, RunInv, AtStart, machine, Running
<1> QED BY <1>7, <1>8, <1>9, <1>10 DEF FrameAndCodeInv

\* The next instruction of the prologue comes behind the ones there are.
LEMMA PrologueGrows ==
  ASSUME NEW caller \in BOOLEAN, NEW adjustment, NEW offset,
         NEW bs, NEW cs, NEW front \in {0, 1}, NEW instr,
         instr = IF front = 0 THEN Instr("adjust", -adjustment) ELSE Instr("save", offset),
         Len(bs) \in Nat \ {0}, Len(bs[1]) \in Nat,
         HasInserted(bs, 1, front + 1, instr, cs),
         Inserted(caller, adjustment, offset, bs, front, 0)
  PROVE  Inserted(caller, adjustment, offset, cs, front + 1, 0)
<1> DEFINE last == bs[Len(bs)]
           end == Len(last)
<1>1. /\ end > 0 + (IF Len(bs) = 1 THEN front ELSE 0) /\ Len(bs[1]) > front
      /\ front >= 1 => bs[1][1] = Instr("adjust", -adjustment)
      /\ \A b \in DOMAIN bs : \A i \in DOMAIN bs[b] :
           bs[b][i].op \in FrameOps => (b = 1 /\ i <= front) \/ (b = Len(bs) /\ i >= end - 0)
  BY DEF Inserted
<1>2. /\ DOMAIN cs = 1..Len(bs) /\ Len(cs) = Len(bs) /\ DOMAIN bs = 1..Len(bs)
      /\ 1 \in 1..Len(bs) /\ Len(bs) \in 1..Len(bs)
  BY DEF HasInserted
<1>3. \A c \in 1..Len(bs) :
        /\ Len(bs[c]) \in Nat /\ Len(cs[c]) = IF c = 1 THEN Len(bs[c]) + 1 ELSE Len(bs[c])
        /\ DOMAIN cs[c] = 1..Len(cs[c]) /\ DOMAIN bs[c] = 1..Len(bs[c])
  BY DEF HasInserted
<1>4. /\ cs[1][front + 1] = instr
      /\ front = 1 => cs[1][1] = bs[1][1]
  BY <1>1, <1>2, <1>3 DEF HasInserted
<1>5. Len(cs[Len(cs)]) = IF Len(bs) = 1 THEN end + 1 ELSE end
  BY <1>2, <1>3
<1>6. ASSUME NEW b \in DOMAIN cs, NEW i \in DOMAIN cs[b], cs[b][i].op \in FrameOps
      PROVE  (b = 1 /\ i <= front + 1) \/ (b = Len(cs) /\ i >= Len(cs[Len(cs)]))
  <2>1. 1 \in DOMAIN bs /\ front + 1 \in 1..Len(bs[1])
    BY <1>1, <1>2
  <2>2. CASE b = 1 /\ i = front + 1
    BY <2>2
  <2>3. ASSUME NEW j \in DOMAIN bs[b], cs[b][i] = bs[b][j],
               i = Len(cs[b]) <=> j = Len(bs[b]),
               i = IF b = 1 /\ j >= front + 1 THEN j + 1 ELSE j
        PROVE  (b = 1 /\ i <= front + 1) \/ (b = Len(cs) /\ i >= Len(cs[Len(cs)]))
    <3>1. j \in 1..Len(bs[b]) /\ Len(bs[b]) \in Nat /\ b \in DOMAIN bs
      BY <1>2, <1>3
    <3>2. (b = 1 /\ j <= front) \/ (b = Len(bs) /\ j >= end)
      BY <1>1, <1>6, <2>3, <3>1
    <3> QED BY <1>2, <1>3, <1>5, <2>3, <3>1, <3>2
  <2> QED BY <2>1, <2>2, <2>3, BeforeInsertion
<1>7. Len(cs[1]) > front + 1 /\ Len(cs[Len(cs)]) > 0 + (IF Len(cs) = 1 THEN front + 1 ELSE 0)
  BY <1>1, <1>2, <1>3, <1>5
<1>8. /\ front + 1 >= 1 => cs[1][1] = Instr("adjust", -adjustment)
      /\ front + 1 = 2 => cs[1][2] = Instr("save", offset)
  BY <1>1, <1>4
<1> QED BY <1>6, <1>7, <1>8 DEF Inserted

\* The next instruction of the epilogue comes right above the return.
IsEnd(bs, n, end) == n = Len(bs) /\ end = Len(bs[n])

EpilogueInstr(caller, back, adjustment, offset) ==
  IF caller /\ back = 0 THEN Instr("reload", offset) ELSE Instr("adjust", adjustment)

EpilogueGoesOn(caller, back) == back \in {0, 1} /\ (back = 1 => caller)

LEMMA EpilogueGrows ==
  ASSUME NEW caller, NEW adjustment, NEW offset,
         NEW bs, NEW cs, NEW front \in {1, 2}, NEW back,
         caller \in BOOLEAN /\ EpilogueGoesOn(caller, back),
         NEW n \in Nat \ {0}, NEW end \in Nat, IsEnd(bs, n, end),
         HasInserted(bs, n, end, EpilogueInstr(caller, back, adjustment, offset), cs),
         Inserted(caller, adjustment, offset, bs, front, back)
  PROVE  Inserted(caller, adjustment, offset, cs, front, back + 1)
<1> DEFINE instr == EpilogueInstr(caller, back, adjustment, offset)
<1>13. /\ caller /\ back = 0 => instr = Instr("reload", offset)
       /\ back = 1 \/ ~caller => instr = Instr("adjust", adjustment)
       /\ back = 1 => caller
       /\ back \in {0, 1} /\ caller \in BOOLEAN
       /\ HasInserted(bs, n, end, instr, cs)
  BY DEF EpilogueInstr, EpilogueGoesOn
<1> HIDE DEF instr
<1>1. /\ end > back + (IF n = 1 THEN front ELSE 0) /\ Len(bs[1]) > front
      /\ front >= 1 => bs[1][1] = Instr("adjust", -adjustment)
      /\ front = 2 => bs[1][2] = Instr("save", offset)
      /\ caller /\ back >= 1 => bs[n][end - back] = Instr("reload", offset)
      /\ \A b \in DOMAIN bs : \A i \in DOMAIN bs[b] :
           bs[b][i].op \in FrameOps => (b = 1 /\ i <= front) \/ (b = n /\ i >= end - back)
  BY <1>13 DEF Inserted, IsEnd
<1>2. /\ DOMAIN cs = 1..n /\ Len(cs) = n /\ DOMAIN bs = 1..n
      /\ 1 \in 1..n /\ n \in 1..n /\ Len(bs[n]) = end
  BY <1>13 DEF HasInserted, IsEnd
<1>3. \A c \in 1..n :
        /\ Len(bs[c]) \in Nat
        /\ Len(cs[c]) = IF c = n THEN Len(bs[c]) + 1 ELSE Len(bs[c])
        /\ DOMAIN cs[c] = 1..Len(cs[c]) /\ DOMAIN bs[c] = 1..Len(bs[c])
        /\ \A i \in 1..Len(cs[c]) :
             cs[c][i] = IF c # n \/ i < end THEN bs[c][i]
                        ELSE IF i = end THEN instr
                        ELSE bs[c][i - 1]
  BY <1>13 DEF HasInserted, IsEnd
<1>4. Len(cs[n]) = end + 1 /\ end > 0
  BY <1>1, <1>2, <1>3, <1>13
<1>5. cs[n][end] = instr
  BY <1>2, <1>3, <1>4
<1>6. ASSUME NEW i \in 1..(end - 1)
      PROVE  cs[n][i] = bs[n][i]
  <2>1. i \in 1..Len(cs[n]) /\ i < end
    BY <1>4
  <2> QED BY <1>2, <1>3, <2>1
<1>7. \A i \in 1..front : cs[1][i] = bs[1][i]
  <2>1. CASE n = 1
    BY <1>1, <1>4, <1>6, <1>13, <2>1
  <2>2. CASE n # 1
    <3>1. 1..front \subseteq 1..Len(cs[1]) /\ 1 # n
      BY <1>1, <1>2, <1>3, <2>2
    <3> QED BY <1>2, <1>3, <3>1
  <2> QED BY <2>1, <2>2
<1>8. ASSUME NEW b \in DOMAIN cs, NEW i \in DOMAIN cs[b], cs[b][i].op \in FrameOps
      PROVE  (b = 1 /\ i <= front) \/ (b = n /\ i >= end + 1 - (back + 1))
  <2>1. n \in DOMAIN bs /\ end \in 1..Len(bs[n])
    BY <1>2, <1>4
  <2>2. CASE b = n /\ i = end
    BY <1>13, <2>2
  <2>3. ASSUME NEW j \in DOMAIN bs[b], cs[b][i] = bs[b][j],
               i = Len(cs[b]) <=> j = Len(bs[b]),
               i = IF b = n /\ j >= end THEN j + 1 ELSE j
        PROVE  (b = 1 /\ i <= front) \/ (b = n /\ i >= end + 1 - (back + 1))
    <3>1. j \in 1..Len(bs[b]) /\ Len(bs[b]) \in Nat /\ b \in DOMAIN bs
      BY <1>2, <1>3
    <3>2. (b = 1 /\ j <= front) \/ (b = n /\ j >= end - back)
      BY <1>1, <1>8, <2>3, <3>1
    <3>3. b = 1 /\ j <= front => ~(b = n /\ j >= end)
      BY <1>1, <1>13, <3>1
    <3> QED BY <1>13, <2>3, <3>1, <3>2, <3>3
  <2> QED BY <1>13, <2>1, <2>2, <2>3, BeforeInsertion
<1>9. end + 1 > back + 1 + (IF n = 1 THEN front ELSE 0) /\ Len(cs[1]) > front
  BY <1>1, <1>2, <1>3, <1>13
<1>10. /\ front >= 1 => cs[1][1] = Instr("adjust", -adjustment)
       /\ front = 2 => cs[1][2] = Instr("save", offset)
  BY <1>1, <1>7
<1>11. caller => cs[n][end + 1 - (back + 1)] = Instr("reload", offset)
  <2>1. CASE back = 0
    BY <1>5, <1>13, <2>1
  <2>2. CASE back = 1
    <3>1. end - 1 \in 1..(end - 1)
      BY <1>1, <1>13, <2>2
    <3> QED BY <1>1, <1>6, <2>2, <3>1
  <2> QED BY <1>13, <2>1, <2>2
<1>12. back + 1 = (IF caller THEN 2 ELSE 1) => cs[n][end + 1 - 1] = Instr("adjust", adjustment)
  BY <1>5, <1>13
<1> QED BY <1>2, <1>4, <1>8, <1>9, <1>10, <1>11, <1>12, <1>13 DEF Inserted

\* Where things are in a frame: SP goes down by whole units and by as much as
\* the objects take up, and the link register lies above them.
LEMMA FrameFacts ==
  ASSUME NoEmptyObjects, func.used = <<>>, IInv, pc # "push"
  PROVE  /\ Adjustment \in Nat /\ Adjustment % 16 = 0
         /\ \A id \in ObjectIDs(func) :
              /\ id \in DOMAIN frame.slots /\ frame.slots[id] \in Nat \ {0}
              /\ GetPosition(frame, id) \in Nat
              /\ GetPosition(frame, id) + frame.slots[id] <= Adjustment
         /\ HasLinkSlot =>
              /\ LinkOffset \in Nat /\ LinkOffset + 16 <= Adjustment
              /\ \A id \in ObjectIDs(func) :
                   GetPosition(frame, id) + frame.slots[id] <= LinkOffset
<1>1. func \in Functions /\ Layout(frame) /\ FrameInv
  BY DEF IInv, FrameAndCodeInv
<1>2. /\ frame.size \in Nat /\ frame.size + 32 <= WordModulus
      /\ \A i \in DOMAIN frame.slots :
           /\ frame.slots[i] \in Nat \ {0} /\ GetPosition(frame, i) \in Nat
           /\ GetPosition(frame, i) + frame.slots[i] <= frame.size
      /\ \A i, j \in DOMAIN frame.slots :
           i < j => GetPosition(frame, i) + frame.slots[i] <= GetPosition(frame, j)
  <2>1. frame.size \in Nat
    BY <1>1 DEF Layout
  <2>2. frame.size + 32 <= WordModulus
    BY <1>1, <2>1, WordAssumption DEF FrameInv
  <2> QED BY <1>1, <2>1, <2>2 DEF Layout
<1>3. Adjustment \in Nat /\ frame.size <= Adjustment /\ Adjustment % 16 = 0
  <2>1. frame.size + 16 <= WordModulus /\ 16 \in Nat \ {0}
    BY <1>2, WordAssumption
  <2>2. Adjustment \in frame.size..(frame.size + 16 - 1) /\ Adjustment % 16 = 0
    BY <1>2, <2>1, RoundingBound, RoundingToSixteen, RegisterAssumption DEF Adjustment
  <2> QED BY <1>2, <2>2
<1>4. ObjectIDs(func) \subseteq DOMAIN frame.slots
  BY <1>1 DEF FrameInv
<1>5. ASSUME HasLinkSlot
      PROVE  /\ LinkOffset \in Nat /\ LinkOffset + 16 <= Adjustment
             /\ \A id \in ObjectIDs(func) :
                  GetPosition(frame, id) + frame.slots[id] <= LinkOffset
  <2>1. /\ FirstSlot \in DOMAIN frame.slots /\ frame.slots[FirstSlot] = 16
        /\ slotOf[LinkRegister] = FirstSlot /\ GetPosition(frame, FirstSlot) % 16 = 0
    BY <1>1, <1>5 DEF FrameInv
  <2> DEFINE position == GetPosition(frame, FirstSlot)
  <2>2. position \in Nat /\ position + 16 <= frame.size
    BY <1>2, <2>1
  <2>3. LinkOffset = GetNextAlignedValue(position, 16)
    BY <2>1 DEF LinkOffset
  <2>4. position % 16 = 0
    BY <2>1
  <2> HIDE DEF position
  <2>5. LinkOffset = position
    <3>1. position + 16 <= WordModulus
      BY <1>2, <2>2, WordAssumption
    <3> QED BY <2>2, <2>3, <2>4, <3>1, RoundingToSixteen
  <2>6. \A id \in ObjectIDs(func) : id < FirstSlot
    BY <1>1, ObjectFacts DEF ObjectIDs
  <2>7. \A id \in ObjectIDs(func) : GetPosition(frame, id) + frame.slots[id] <= position
    BY <1>2, <1>4, <2>1, <2>6 DEF position
  <2> QED BY <1>2, <1>3, <2>2, <2>5, <2>7
<1>6. \A id \in ObjectIDs(func) : GetPosition(frame, id) + frame.slots[id] <= Adjustment
  BY <1>2, <1>3, <1>4
<1> QED BY <1>2, <1>3, <1>4, <1>5, <1>6

\* What the steps of the insertion have in common: the frame stays as it is.
LEMMA FrameStays ==
  ASSUME func.used = <<>>, IInv,
         pc \in {"adjust", "save", "spill", "reload", "release"},
         pc' \in {"save", "spill", "reload", "release", "run"},
         UNCHANGED <<func, frame, slotOf, next, machine>>
  PROVE  /\ Layout(frame)' /\ PushInv' /\ FrameInv' /\ AtStart'
         /\ pc' # "run" => RunInv'
         /\ Adjustment' = Adjustment /\ LinkOffset' = LinkOffset
         /\ ~IsSkipped /\ ~IsSkipped' /\ HasLinkSlot = func.caller
         /\ func.caller \in BOOLEAN /\ Code(func, frame, blocks)
         /\ Inserted(func.caller, Adjustment, LinkOffset, blocks, PrologueLength, EpilogueLength)
<1>1. Layout(frame) /\ PushInv /\ FrameInv /\ CodeInv /\ RunInv /\ func \in Functions
  BY DEF IInv, FrameAndCodeInv
<1>2. ~HasNothingToAdjust /\ ~HasNothingToAdjust'
  BY <1>1 DEF FrameInv, Compiling, HasNothingToAdjust
<1>3. ~IsSkipped /\ ~IsSkipped'
  BY <1>2 DEF IsSkipped
<1>4. func.caller \in BOOLEAN
  BY <1>1, FunctionFacts
<1>5. HasLinkSlot = func.caller /\ HasLinkSlot' = func.caller
  BY <1>3, <1>4 DEF HasLinkSlot
<1>6. FrameInv'
  BY <1>1, <1>2, <1>5 DEF FrameInv
<1>7. AtStart' /\ (pc' # "run" => RunInv')
  BY <1>1 DEF RunInv, AtStart, machine, Running
<1>8. Adjustment' = Adjustment /\ LinkOffset' = LinkOffset
  BY DEF Adjustment, LinkOffset
<1>9. Layout(frame)' /\ PushInv'
  BY <1>1 DEF PushInv
<1>10. /\ Code(func, frame, blocks)
       /\ Inserted(func.caller, Adjustment, LinkOffset, blocks, PrologueLength, EpilogueLength)
  BY <1>1 DEF CodeInv
<1> QED BY <1>3, <1>4, <1>5, <1>6, <1>7, <1>8, <1>9, <1>10

LEMMA NothingToSpillKeeps ==
  ASSUME func.used = <<>>, IInv, NothingToSpill
  PROVE  FrameAndCodeInv'
<1>1. /\ pc = "spill" /\ pc' = "reload"
      /\ UNCHANGED <<func, frame, slotOf, next, blocks, machine>>
  BY DEF NothingToSpill
<1>2. /\ Layout(frame)' /\ PushInv' /\ FrameInv' /\ RunInv'
      /\ Adjustment' = Adjustment /\ LinkOffset' = LinkOffset /\ ~IsSkipped /\ ~IsSkipped'
      /\ Code(func, frame, blocks)
      /\ Inserted(func.caller, Adjustment, LinkOffset, blocks, PrologueLength, EpilogueLength)
  BY <1>1, FrameStays
<1>3. PrologueLength' = PrologueLength /\ EpilogueLength' = EpilogueLength
  BY <1>1, <1>2 DEF PrologueLength, EpilogueLength
<1>4. CodeInv'
  BY <1>1, <1>2, <1>3 DEF CodeInv
<1> QED BY <1>2, <1>4 DEF FrameAndCodeInv

LEMMA InsertStackAdjustmentUpwardKeeps ==
  ASSUME NoEmptyObjects, func.used = <<>>, IInv, InsertStackAdjustmentUpward
  PROVE  FrameAndCodeInv'
<1> DEFINE instr == Instr("adjust", -Adjustment)
<1>1. /\ pc = "adjust" /\ pc' = "save"
      /\ blocks' = [blocks EXCEPT ![1] = InsertAt(@, 1, instr)]
      /\ UNCHANGED <<func, frame, slotOf, next, machine>>
  BY DEF InsertStackAdjustmentUpward
<1>2. /\ Layout(frame)' /\ PushInv' /\ FrameInv' /\ RunInv'
      /\ Adjustment' = Adjustment /\ LinkOffset' = LinkOffset /\ ~IsSkipped /\ ~IsSkipped'
      /\ func.caller \in BOOLEAN /\ Code(func, frame, blocks)
      /\ Inserted(func.caller, Adjustment, LinkOffset, blocks, PrologueLength, EpilogueLength)
  BY <1>1, FrameStays
<1>3. /\ PrologueLength = 0 /\ EpilogueLength = 0 /\ PrologueLength' = 1 /\ EpilogueLength' = 0
  BY <1>1, <1>2 DEF PrologueLength, EpilogueLength
<1>4. instr \in MachineInstructions /\ instr.op \in FrameOps
  BY <1>1, FrameFacts DEF Instr, MachineInstructions, FrameOps
<1>5. /\ 1 \in DOMAIN blocks /\ 1 \in 1..Len(blocks[1]) /\ Len(blocks[1]) \in Nat
      /\ Len(blocks) \in Nat \ {0}
  BY <1>2, FirstInstruction
<1>6. blocks \in Seq(Seq(MachineInstructions))
  BY <1>2 DEF Code
<1>7. blocks' \in Seq(Seq(MachineInstructions)) /\ HasInserted(blocks, 1, 1, instr, blocks')
  <2> HIDE DEF instr
  <2> QED BY <1>1, <1>4, <1>5, <1>6, InsertFacts
<1>8. Code(func, frame, blocks')
  <2> HIDE DEF instr
  <2> QED BY <1>2, <1>4, <1>5, <1>7, InsertKeepsCode
<1>9. Inserted(func.caller, Adjustment, LinkOffset, blocks', 1, 0)
  <2>1. Inserted(func.caller, Adjustment, LinkOffset, blocks, 0, 0)
    BY <1>2, <1>3
  <2>2. HasInserted(blocks, 1, 0 + 1, Instr("adjust", -Adjustment), blocks')
    BY <1>7
  <2>3. Inserted(func.caller, Adjustment, LinkOffset, blocks', 0 + 1, 0)
    BY <1>2, <1>5, <2>1, <2>2, PrologueGrows
  <2> QED BY <2>3
<1>10. CodeInv'
  BY <1>1, <1>2, <1>3, <1>8, <1>9 DEF CodeInv
<1> QED BY <1>2, <1>10 DEF FrameAndCodeInv

LEMMA InsertLinkRegisterSaveKeeps ==
  ASSUME NoEmptyObjects, func.used = <<>>, IInv, InsertLinkRegisterSave
  PROVE  FrameAndCodeInv'
<1> DEFINE instr == Instr("save", LinkOffset)
<1>1. /\ pc = "save" /\ pc' = "spill"
      /\ blocks' = IF func.caller THEN [blocks EXCEPT ![1] = InsertAt(@, 2, instr)] ELSE blocks
      /\ UNCHANGED <<func, frame, slotOf, next, machine>>
  BY DEF InsertLinkRegisterSave
<1>2. /\ Layout(frame)' /\ PushInv' /\ FrameInv' /\ RunInv'
      /\ Adjustment' = Adjustment /\ LinkOffset' = LinkOffset /\ ~IsSkipped /\ ~IsSkipped'
      /\ HasLinkSlot = func.caller /\ func.caller \in BOOLEAN /\ Code(func, frame, blocks)
      /\ Inserted(func.caller, Adjustment, LinkOffset, blocks, PrologueLength, EpilogueLength)
  BY <1>1, FrameStays
<1>3. /\ PrologueLength = 1 /\ EpilogueLength = 0
      /\ PrologueLength' = (IF func.caller THEN 2 ELSE 1) /\ EpilogueLength' = 0
  BY <1>1, <1>2 DEF PrologueLength, EpilogueLength
<1>4. CASE func.caller
  <2>1. instr \in MachineInstructions /\ instr.op \in FrameOps
    BY <1>1, <1>2, <1>4, FrameFacts DEF Instr, MachineInstructions, FrameOps
  <2>2. Inserted(func.caller, Adjustment, LinkOffset, blocks, 1, 0)
    BY <1>2, <1>3
  <2>3. /\ 1 \in DOMAIN blocks /\ 2 \in 1..Len(blocks[1]) /\ Len(blocks[1]) \in Nat
        /\ Len(blocks) \in Nat \ {0}
    <3>1. Len(blocks[1]) > 1
      BY <2>2 DEF Inserted
    <3> QED BY <1>2, <3>1, FirstInstruction
  <2>4. blocks \in Seq(Seq(MachineInstructions))
    BY <1>2 DEF Code
  <2>5. blocks' \in Seq(Seq(MachineInstructions)) /\ HasInserted(blocks, 1, 2, instr, blocks')
    <3>1. blocks' = [blocks EXCEPT ![1] = InsertAt(@, 2, instr)]
      BY <1>1, <1>4
    <3> HIDE DEF instr
    <3> QED BY <2>1, <2>3, <2>4, <3>1, InsertFacts
  <2>6. Code(func, frame, blocks')
    <3> HIDE DEF instr
    <3> QED BY <1>2, <2>1, <2>3, <2>5, InsertKeepsCode
  <2>7. Inserted(func.caller, Adjustment, LinkOffset, blocks', 2, 0)
    <3>1. HasInserted(blocks, 1, 1 + 1, Instr("save", LinkOffset), blocks')
      BY <2>5
    <3>2. Inserted(func.caller, Adjustment, LinkOffset, blocks', 1 + 1, 0)
      BY <1>2, <2>2, <2>3, <3>1, PrologueGrows
    <3> QED BY <3>2
  <2> QED BY <1>1, <1>2, <1>3, <1>4, <2>6, <2>7 DEF CodeInv, FrameAndCodeInv
<1>5. CASE ~func.caller
  <2>1. CodeInv'
    BY <1>1, <1>2, <1>3, <1>5 DEF CodeInv
  <2> QED BY <1>2, <2>1 DEF FrameAndCodeInv
<1> QED BY <1>2, <1>4, <1>5

\* Where an instruction above the return goes.
LEMMA AboveReturnInserts ==
  ASSUME NEW f, NEW fr, NEW bs, Code(f, fr, bs), NEW instr \in MachineInstructions,
         NEW cs, cs = [bs EXCEPT ![Len(bs)] = InsertAt(@, Len(@), instr)]
  PROVE  /\ cs \in Seq(Seq(MachineInstructions))
         /\ \E n \in DOMAIN bs : \E end \in 1..Len(bs[n]) :
              /\ n \in Nat \ {0} /\ end \in Nat
              /\ IsEnd(bs, n, end) /\ HasInserted(bs, n, end, instr, cs)
<1>1. PICK n : n = Len(bs)
  OBVIOUS
<1>2. PICK end : end = Len(bs[n])
  OBVIOUS
<1>3. n \in DOMAIN bs /\ n \in Nat \ {0} /\ end \in 1..Len(bs[n]) /\ end \in Nat
  BY <1>1, <1>2, FirstInstruction
<1>4. bs \in Seq(Seq(MachineInstructions))
  BY DEF Code
<1>5. cs \in Seq(Seq(MachineInstructions)) /\ HasInserted(bs, n, end, instr, cs)
  <2>1. cs = [bs EXCEPT ![n] = InsertAt(@, end, instr)]
    BY <1>1, <1>2
  <2> QED BY <1>3, <1>4, <2>1, InsertFacts
<1>6. IsEnd(bs, n, end)
  BY <1>1, <1>2 DEF IsEnd
<1> QED BY <1>3, <1>5, <1>6

LEMMA InsertLinkRegisterReloadKeeps ==
  ASSUME NoEmptyObjects, func.used = <<>>, IInv, InsertLinkRegisterReload
  PROVE  FrameAndCodeInv'
<1> DEFINE instr == Instr("reload", LinkOffset)
<1>1. /\ pc = "reload" /\ pc' = "release"
      /\ blocks' = IF func.caller
                   THEN [blocks EXCEPT ![Len(blocks)] = InsertAt(@, Len(@), instr)]
                   ELSE blocks
      /\ UNCHANGED <<func, frame, slotOf, next, machine>>
  BY DEF InsertLinkRegisterReload, AboveReturn
<1>2. /\ Layout(frame)' /\ PushInv' /\ FrameInv' /\ RunInv'
      /\ Adjustment' = Adjustment /\ LinkOffset' = LinkOffset /\ ~IsSkipped /\ ~IsSkipped'
      /\ HasLinkSlot = func.caller /\ func.caller \in BOOLEAN /\ Code(func, frame, blocks)
      /\ Inserted(func.caller, Adjustment, LinkOffset, blocks, PrologueLength, EpilogueLength)
  BY <1>1, FrameStays
<1>3. /\ PrologueLength = (IF func.caller THEN 2 ELSE 1) /\ EpilogueLength = 0
      /\ PrologueLength' = PrologueLength /\ EpilogueLength' = (IF func.caller THEN 1 ELSE 0)
  BY <1>1, <1>2 DEF PrologueLength, EpilogueLength
<1>4. CASE func.caller
  <2>1. instr \in MachineInstructions /\ instr.op \in FrameOps
    BY <1>1, <1>2, <1>4, FrameFacts DEF Instr, MachineInstructions, FrameOps
  <2>2. Inserted(func.caller, Adjustment, LinkOffset, blocks, 2, 0)
    BY <1>2, <1>3, <1>4
  <2>3. blocks' = [blocks EXCEPT ![Len(blocks)] = InsertAt(@, Len(@), instr)]
    BY <1>1, <1>4
  <2>4. /\ Code(func, frame, blocks')
        /\ Inserted(TRUE, Adjustment, LinkOffset, blocks', 2, 1)
    <3>0. PICK n \in DOMAIN blocks : \E end \in 1..Len(blocks[n]) :
            /\ n \in Nat \ {0} /\ end \in Nat
            /\ IsEnd(blocks, n, end) /\ HasInserted(blocks, n, end, instr, blocks')
            /\ blocks' \in Seq(Seq(MachineInstructions))
      <4> HIDE DEF instr
      <4> QED BY <1>2, <2>1, <2>3, AboveReturnInserts
    <3>1. PICK end \in 1..Len(blocks[n]) :
            /\ n \in Nat \ {0} /\ end \in Nat
            /\ IsEnd(blocks, n, end) /\ HasInserted(blocks, n, end, instr, blocks')
            /\ blocks' \in Seq(Seq(MachineInstructions))
      BY <3>0
    <3>2. Code(func, frame, blocks')
      <4> HIDE DEF instr
      <4> QED BY <1>2, <2>1, <3>1, InsertKeepsCode
    <3>3. Inserted(TRUE, Adjustment, LinkOffset, blocks, 2, 0)
      BY <1>2, <1>4, <2>2
    <3>4. Inserted(TRUE, Adjustment, LinkOffset, blocks', 2, 0 + 1)
      <4>1. instr = EpilogueInstr(TRUE, 0, Adjustment, LinkOffset) /\ EpilogueGoesOn(TRUE, 0)
        BY DEF EpilogueInstr, EpilogueGoesOn
      <4> HIDE DEF instr
      <4> QED BY <3>1, <3>3, <4>1, EpilogueGrows
    <3>5. 0 + 1 = 1
      OBVIOUS
    <3> QED BY <3>2, <3>4, <3>5
  <2>5. func.caller = TRUE
    BY <1>2, <1>4
  <2>6. CodeInv'
    BY <1>1, <1>2, <1>3, <2>4, <2>5 DEF CodeInv
  <2> QED BY <1>2, <2>6 DEF FrameAndCodeInv
<1>5. CASE ~func.caller
  <2>1. CodeInv'
    BY <1>1, <1>2, <1>3, <1>5 DEF CodeInv
  <2> QED BY <1>2, <2>1 DEF FrameAndCodeInv
<1> QED BY <1>2, <1>4, <1>5

LEMMA InsertStackAdjustmentDownwardKeeps ==
  ASSUME NoEmptyObjects, func.used = <<>>, IInv, InsertStackAdjustmentDownward
  PROVE  FrameAndCodeInv'
<1> DEFINE instr == Instr("adjust", Adjustment)
           back == IF func.caller THEN 1 ELSE 0
<1>1. /\ pc = "release" /\ pc' = "run"
      /\ blocks' = [blocks EXCEPT ![Len(blocks)] = InsertAt(@, Len(@), instr)]
      /\ UNCHANGED <<func, frame, slotOf, next, machine>>
  BY DEF InsertStackAdjustmentDownward, AboveReturn
<1>2. /\ Layout(frame)' /\ PushInv' /\ FrameInv' /\ AtStart'
      /\ Adjustment' = Adjustment /\ LinkOffset' = LinkOffset /\ ~IsSkipped /\ ~IsSkipped'
      /\ func.caller \in BOOLEAN /\ Code(func, frame, blocks)
      /\ Inserted(func.caller, Adjustment, LinkOffset, blocks, PrologueLength, EpilogueLength)
  BY <1>1, FrameStays
<1>3. /\ PrologueLength = (IF func.caller THEN 2 ELSE 1) /\ EpilogueLength = back
      /\ PrologueLength' = PrologueLength /\ EpilogueLength' = back + 1
  BY <1>1, <1>2 DEF PrologueLength, EpilogueLength
<1>4. instr \in MachineInstructions /\ instr.op \in FrameOps
  BY <1>1, FrameFacts DEF Instr, MachineInstructions, FrameOps
<1>5. /\ Code(func, frame, blocks')
      /\ Inserted(func.caller, Adjustment, LinkOffset, blocks', PrologueLength, back + 1)
  <2>1. PICK n \in DOMAIN blocks : \E end \in 1..Len(blocks[n]) :
          /\ n \in Nat \ {0} /\ end \in Nat
          /\ IsEnd(blocks, n, end) /\ HasInserted(blocks, n, end, instr, blocks')
          /\ blocks' \in Seq(Seq(MachineInstructions))
    <3> HIDE DEF instr
    <3> QED BY <1>1, <1>2, <1>4, AboveReturnInserts
  <2>2. PICK end \in 1..Len(blocks[n]) :
          /\ n \in Nat \ {0} /\ end \in Nat
          /\ IsEnd(blocks, n, end) /\ HasInserted(blocks, n, end, instr, blocks')
          /\ blocks' \in Seq(Seq(MachineInstructions))
    BY <2>1
  <2>3. Code(func, frame, blocks')
    <3> HIDE DEF instr
    <3> QED BY <1>2, <1>4, <2>2, InsertKeepsCode
  <2>4. CASE func.caller = TRUE
    <3>1. Inserted(TRUE, Adjustment, LinkOffset, blocks, 2, 1)
      BY <1>2, <1>3, <2>4
    <3>2. Inserted(TRUE, Adjustment, LinkOffset, blocks', 2, 1 + 1)
      <4>1. instr = EpilogueInstr(TRUE, 1, Adjustment, LinkOffset) /\ EpilogueGoesOn(TRUE, 1)
        BY DEF EpilogueInstr, EpilogueGoesOn
      <4> HIDE DEF instr
      <4> QED BY <2>2, <3>1, <4>1, EpilogueGrows
    <3> QED BY <1>3, <2>3, <2>4, <3>2
  <2>5. CASE func.caller = FALSE
    <3>1. Inserted(FALSE, Adjustment, LinkOffset, blocks, 1, 0)
      BY <1>2, <1>3, <2>5
    <3>2. Inserted(FALSE, Adjustment, LinkOffset, blocks', 1, 0 + 1)
      <4>1. instr = EpilogueInstr(FALSE, 0, Adjustment, LinkOffset) /\ EpilogueGoesOn(FALSE, 0)
        BY DEF EpilogueInstr, EpilogueGoesOn
      <4> HIDE DEF instr
      <4> QED BY <2>2, <3>1, <4>1, EpilogueGrows
    <3> QED BY <1>3, <2>3, <2>5, <3>2
  <2> QED BY <1>2, <2>4, <2>5
<1>6. CodeInv'
  BY <1>1, <1>2, <1>3, <1>5 DEF CodeInv
<1>7. RunInv'
  <2>1. /\ at' = <<1, 1>> /\ 1 \in DOMAIN blocks' /\ 1 \in DOMAIN blocks'[1]
        /\ \A b \in DOMAIN blocks' : b \in Nat \ {0} /\ \A i \in DOMAIN blocks'[b] : i \in Nat \ {0}
    BY <1>2, <1>5, FirstInstruction DEF AtStart
  <2>2. \A b \in DOMAIN blocks' : \A i \in DOMAIN blocks'[b] : ~IsPast(b, i)'
    BY <2>1 DEF IsPast
  <2>3. StackInv'
    BY <1>2, <2>1 DEF StackInv, AtStart
  <2>4. LinkInv'
    BY <1>2, <2>1 DEF LinkInv, AtStart, IsPast
  <2>5. WrittenInv'
    BY <2>2 DEF WrittenInv
  <2>6. LocalsKeepTheirValues'
    BY <1>2 DEF AtStart, LocalsKeepTheirValues
  <2> QED BY <1>1, <1>2, <2>1, <2>3, <2>4, <2>5, <2>6 DEF RunInv, Running
<1> QED BY <1>2, <1>6, <1>7 DEF FrameAndCodeInv

-----------------------------------------------------------------------------
(* Running the code *)

\* Running changes nothing of what was compiled.
LEMMA CompiledStays ==
  ASSUME func.used = <<>>, IInv, pc \in Running, pc' \in Running, UNCHANGED compiled
  PROVE  /\ Layout(frame)' /\ PushInv' /\ FrameInv' /\ CodeInv'
         /\ func' = func /\ frame' = frame /\ blocks' = blocks
         /\ Adjustment' = Adjustment /\ LinkOffset' = LinkOffset
         /\ IsSkipped' = IsSkipped
<1>1. Layout(frame) /\ PushInv /\ FrameInv /\ CodeInv
  BY DEF IInv, FrameAndCodeInv
<1>2. func' = func /\ frame' = frame /\ blocks' = blocks /\ slotOf' = slotOf /\ next' = next
  BY DEF compiled
<1>3. Adjustment' = Adjustment /\ LinkOffset' = LinkOffset /\ IsSkipped' = IsSkipped
      /\ HasNothingToAdjust' = HasNothingToAdjust
  BY <1>2 DEF Adjustment, LinkOffset, IsSkipped, HasNothingToAdjust
<1>4. PrologueLength' = PrologueLength /\ EpilogueLength' = EpilogueLength
  BY <1>2, <1>3 DEF PrologueLength, EpilogueLength, Running
<1>5. HasLinkSlot' = HasLinkSlot
  BY <1>2, <1>3 DEF HasLinkSlot, Running
<1>6. PushInv'
  BY DEF PushInv, Running
<1>7. FrameInv'
  BY <1>1, <1>2, <1>3, <1>5 DEF FrameInv, Running, Compiling
<1>8. CodeInv'
  BY <1>1, <1>2, <1>3, <1>4 DEF CodeInv, Running
<1> QED BY <1>1, <1>2, <1>3, <1>6, <1>7, <1>8

\* The instruction the machine is at.
LEMMA CurrentFacts ==
  ASSUME func.used = <<>>, IInv, pc = "run"
  PROVE  /\ at = <<at[1], at[2]>> /\ at[1] \in Nat \ {0} /\ at[2] \in Nat \ {0}
         /\ Len(blocks) \in Nat \ {0} /\ at[1] <= Len(blocks)
         /\ Len(blocks[at[1]]) \in Nat /\ at[2] <= Len(blocks[at[1]])
         /\ Len(blocks[Len(blocks)]) \in Nat \ {0}
         /\ DOMAIN blocks = 1..Len(blocks) /\ DOMAIN blocks[at[1]] = 1..Len(blocks[at[1]])
         /\ Current \in MachineInstructions
         /\ WellPlaced(func, frame, blocks, at[1], at[2])
         /\ Current.op = "ret" <=> AtEnd
         /\ Current.op \notin {"jump", "ret"} => at[2] < Len(blocks[at[1]])
         /\ Current.op = "jump" => at[1] < Len(blocks) /\ at[2] = Len(blocks[at[1]])
<1>1. /\ Code(func, frame, blocks)
      /\ at \in Nat \X Nat /\ at[1] \in DOMAIN blocks /\ at[2] \in DOMAIN blocks[at[1]]
  BY DEF IInv, FrameAndCodeInv, CodeInv, RunInv, Running
<1>2. /\ Len(blocks) \in Nat \ {0} /\ DOMAIN blocks = 1..Len(blocks)
      /\ Len(blocks[at[1]]) \in Nat /\ DOMAIN blocks[at[1]] = 1..Len(blocks[at[1]])
      /\ Len(blocks[Len(blocks)]) \in Nat \ {0}
      /\ Current \in MachineInstructions
  BY <1>1, FirstInstruction DEF Current
<1>3. WellPlaced(func, frame, blocks, at[1], at[2])
  BY <1>1 DEF Code
<1>4. /\ at = <<at[1], at[2]>> /\ at[1] \in Nat \ {0} /\ at[2] \in Nat \ {0}
      /\ at[1] <= Len(blocks) /\ at[2] <= Len(blocks[at[1]])
  BY <1>1, <1>2
<1>5. /\ Current.op = "ret" <=> at[1] = Len(blocks) /\ at[2] = Len(blocks[at[1]])
      /\ Current.op = "jump" <=> at[1] # Len(blocks) /\ at[2] = Len(blocks[at[1]])
  BY <1>3 DEF WellPlaced, Current
<1>6. Current.op = "ret" <=> AtEnd
  BY <1>4, <1>5 DEF AtEnd
<1> QED BY <1>2, <1>3, <1>4, <1>5, <1>6

\* Prologue and epilogue are where they belong, and nowhere else.
LEMMA PrologueFacts ==
  ASSUME func.used = <<>>, IInv, pc = "run", ~IsSkipped,
         NEW n, n = Len(blocks), NEW end, end = Len(blocks[n])
  PROVE  /\ end >= 2 /\ func.caller \in BOOLEAN /\ (func.caller => end >= 3)
         /\ n = 1 => end >= 3
         /\ n = 1 /\ func.caller => end >= 5
         /\ Current.op = "adjust" =>
              \/ at = <<1, 1>> /\ Current.arg = -Adjustment
              \/ at[1] = n /\ at[2] = end - 1 /\ at # <<1, 1>> /\ Current.arg = Adjustment
         /\ Current.op = "save" => func.caller /\ at = <<1, 2>> /\ Current.arg = LinkOffset
         /\ Current.op = "reload" =>
              /\ func.caller /\ at[1] = n /\ at[2] = end - 2 /\ Current.arg = LinkOffset
              /\ IsPast(1, 2) /\ at # <<1, 1>>
         /\ Current.op \notin FrameOps =>
              /\ at # <<1, 1>>
              /\ at[1] = n => at[2] # end - 1 /\ (func.caller => at[2] # end - 2)
              /\ func.caller => IsPast(1, 2)
<1> DEFINE front == IF func.caller THEN 2 ELSE 1
           i == at[2]
           b == at[1]
<1>1. func \in Functions /\ func.caller \in BOOLEAN
  BY FunctionFacts DEF IInv
<1>2. PrologueLength = front /\ EpilogueLength = front
  BY DEF PrologueLength, EpilogueLength
<1>3. /\ end > front + (IF n = 1 THEN front ELSE 0) /\ Len(blocks[1]) > front
      /\ blocks[1][1] = Instr("adjust", -Adjustment)
      /\ func.caller => blocks[1][2] = Instr("save", LinkOffset)
      /\ func.caller => blocks[n][end - 2] = Instr("reload", LinkOffset)
      /\ blocks[n][end - 1] = Instr("adjust", Adjustment)
      /\ \A c \in DOMAIN blocks : \A k \in DOMAIN blocks[c] :
           blocks[c][k].op \in FrameOps => (c = 1 /\ k <= front) \/ (c = n /\ k >= end - front)
  <2>1. Inserted(func.caller, Adjustment, LinkOffset, blocks, front, front)
    BY <1>2 DEF IInv, FrameAndCodeInv, CodeInv
  <2>2. CASE func.caller = TRUE
    <3>1. front = 2 /\ Inserted(TRUE, Adjustment, LinkOffset, blocks, 2, 2)
      BY <2>1, <2>2
    <3> HIDE DEF front
    <3> QED BY <2>2, <3>1 DEF Inserted
  <2>3. CASE func.caller = FALSE
    <3>1. front = 1 /\ Inserted(FALSE, Adjustment, LinkOffset, blocks, 1, 1)
      BY <2>1, <2>3
    <3> HIDE DEF front
    <3> QED BY <2>3, <3>1 DEF Inserted
  <2> QED BY <1>1, <2>2, <2>3
<1>4. /\ at = <<b, i>> /\ b \in Nat \ {0} /\ i \in Nat \ {0} /\ n \in Nat \ {0} /\ b <= n
      /\ Len(blocks[b]) \in Nat /\ i <= Len(blocks[b]) /\ end \in Nat
      /\ DOMAIN blocks = 1..n /\ DOMAIN blocks[b] = 1..Len(blocks[b])
      /\ Current.op = "ret" <=> AtEnd
  BY CurrentFacts
<1>5. Current = blocks[b][i]
  BY DEF Current
<1>6. AtEnd <=> b = n /\ i = end
  BY <1>4 DEF AtEnd
<1> HIDE DEF i, b
<1>7. Current.op \in FrameOps =>
        (b = 1 /\ i <= front) \/ (b = n /\ i >= end - front /\ i < end)
  <2>1. Current.op \in FrameOps => Current.op # "ret"
    BY DEF FrameOps
  <2>2. b = n => i <= end
    BY <1>4
  <2>3. Current.op \in FrameOps => (b = 1 /\ i <= front) \/ (b = n /\ i >= end - front)
    <3>1. b \in DOMAIN blocks /\ i \in DOMAIN blocks[b]
      BY <1>4
    <3> HIDE DEF front
    <3> QED BY <1>3, <1>5, <3>1
  <2>4. Current.op \in FrameOps => ~(b = n /\ i = end)
    BY <1>4, <1>6, <2>1
  <2> QED BY <1>4, <2>2, <2>3, <2>4
<1>8. end \in Nat /\ end >= 2 /\ (func.caller => end >= 3) /\ (n = 1 => end >= 3)
      /\ (n = 1 /\ func.caller => end >= 5)
  BY <1>1, <1>3, <1>4
<1>9. \A op : Instr("adjust", op).op = "adjust" /\ Instr("adjust", op).arg = op
              /\ Instr("save", op).op = "save" /\ Instr("save", op).arg = op
              /\ Instr("reload", op).op = "reload" /\ Instr("reload", op).arg = op
  BY DEF Instr
<1>10. /\ b = 1 /\ i = 1 => Current = Instr("adjust", -Adjustment)
       /\ b = 1 /\ i = 2 /\ func.caller => Current = Instr("save", LinkOffset)
       /\ b = n /\ i = end - 1 => Current = Instr("adjust", Adjustment)
       /\ b = n /\ i = end - 2 /\ func.caller => Current = Instr("reload", LinkOffset)
  BY <1>3, <1>5
<1>11. Current.op \in FrameOps =>
         \/ b = 1 /\ i = 1
         \/ b = 1 /\ i = 2 /\ func.caller
         \/ b = n /\ i = end - 1
         \/ b = n /\ i = end - 2 /\ func.caller
  BY <1>1, <1>4, <1>7, <1>8
<1>12. at = <<1, 1>> <=> b = 1 /\ i = 1
  BY <1>4
<1>13. Current.op = "adjust" =>
         \/ at = <<1, 1>> /\ Current.arg = -Adjustment
         \/ b = n /\ i = end - 1 /\ at # <<1, 1>> /\ Current.arg = Adjustment
  <2>1. b = n /\ i = end - 1 => at # <<1, 1>>
    BY <1>8, <1>12
  <2> QED BY <1>9, <1>10, <1>11, <1>12, <2>1 DEF FrameOps
<1>14. Current.op = "save" => func.caller /\ at = <<1, 2>> /\ Current.arg = LinkOffset
  BY <1>4, <1>9, <1>10, <1>11 DEF FrameOps
<1>15. Current.op = "reload" =>
         /\ func.caller /\ b = n /\ i = end - 2 /\ Current.arg = LinkOffset
         /\ b > 1 \/ i > 2
  <2>1. b = n /\ i = end - 2 /\ func.caller => b > 1 \/ i > 2
    BY <1>4, <1>8
  <2> QED BY <1>9, <1>10, <1>11, <2>1 DEF FrameOps
<1>16. Current.op \notin FrameOps =>
         /\ at # <<1, 1>>
         /\ b = n => i # end - 1 /\ (func.caller => i # end - 2)
         /\ func.caller => b > 1 \/ i > 2
  BY <1>4, <1>9, <1>10, <1>12 DEF FrameOps
<1>17. IsPast(1, 2) <=> b > 1 \/ (b = 1 /\ i > 2)
  BY <1>4 DEF IsPast, b, i
<1> QED BY <1>1, <1>4, <1>8, <1>12, <1>13, <1>14, <1>15, <1>16, <1>17 DEF b, i

\* Without a frame there is nothing to access and nothing to adjust.
LEMMA SkippedFacts ==
  ASSUME func.used = <<>>, IInv, pc = "run", IsSkipped
  PROVE  Current.op \notin FrameOps /\ Current.op \notin Accesses
<1>1. /\ Layout(frame) /\ FrameInv /\ CodeInv /\ frame.size = 0
  BY DEF IInv, FrameAndCodeInv, IsSkipped, HasNothingToAdjust
<1>2. Current.op \notin FrameOps
  <2>1. Inserted(func.caller, Adjustment, LinkOffset, blocks, 0, 0)
    BY <1>1 DEF CodeInv, PrologueLength, EpilogueLength
  <2>2. /\ at[1] \in DOMAIN blocks /\ at[2] \in DOMAIN blocks[at[1]] /\ at[2] \in Nat \ {0}
        /\ at[1] = Len(blocks) => at[2] <= Len(blocks[Len(blocks)])
        /\ Len(blocks[Len(blocks)]) \in Nat /\ at = <<at[1], at[2]>>
    BY CurrentFacts
  <2>3. Current.op \in FrameOps => at[1] = Len(blocks) /\ at[2] >= Len(blocks[Len(blocks)])
    BY <2>1, <2>2 DEF Inserted, Current
  <2>4. Current.op \in FrameOps => AtEnd
    BY <2>2, <2>3 DEF AtEnd
  <2> QED BY <2>4, CurrentFacts DEF FrameOps
<1>3. Current.op \notin Accesses
  <2>1. DOMAIN frame.slots = ObjectIDs(func)
    BY <1>1 DEF FrameInv, HasLinkSlot
  <2>2. \A i \in DOMAIN frame.slots : FALSE
    BY <1>1 DEF Layout
  <2>3. WellPlaced(func, frame, blocks, at[1], at[2])
    BY CurrentFacts
  <2> QED BY <2>1, <2>2, <2>3 DEF WellPlaced, Current
<1> QED BY <1>2, <1>3

\* One instruction further on.
LEMMA FollowingFacts ==
  ASSUME func.used = <<>>, IInv, pc = "run", pc' = "run", UNCHANGED compiled,
         Current.op \notin {"jump", "ret"}, at' = Following
  PROVE  /\ at' \in Nat \X Nat /\ at'[1] \in DOMAIN blocks' /\ at'[2] \in DOMAIN blocks'[at'[1]]
         /\ at'[1] = at[1] /\ at'[2] = at[2] + 1 /\ at' # <<1, 1>>
         /\ AtEnd' <=> at[1] = Len(blocks) /\ at[2] = Len(blocks[Len(blocks)]) - 1
         /\ \A b, i \in Nat :
              IsPast(b, i)' <=> IsPast(b, i) \/ (b = at[1] /\ i = at[2])
         /\ ~AtEnd
<1>1. /\ at = <<at[1], at[2]>> /\ at[1] \in Nat \ {0} /\ at[2] \in Nat \ {0}
      /\ at[2] < Len(blocks[at[1]]) /\ Len(blocks[at[1]]) \in Nat
      /\ at[1] \in DOMAIN blocks /\ DOMAIN blocks[at[1]] = 1..Len(blocks[at[1]])
      /\ ~AtEnd
  BY CurrentFacts
<1>2. at' = <<at[1], at[2] + 1>> /\ blocks' = blocks
  BY DEF Following, compiled
<1>3. at'[1] = at[1] /\ at'[2] = at[2] + 1
  BY <1>2
<1>4. AtEnd' <=> at[1] = Len(blocks) /\ at[2] = Len(blocks[Len(blocks)]) - 1
  BY <1>1, <1>2 DEF AtEnd
<1>5. ASSUME NEW b \in Nat, NEW i \in Nat
      PROVE  IsPast(b, i)' <=> IsPast(b, i) \/ (b = at[1] /\ i = at[2])
  BY <1>1, <1>3 DEF IsPast
<1>6. at' # <<1, 1>>
  BY <1>1, <1>2
<1>7. at' \in Nat \X Nat /\ at'[1] \in DOMAIN blocks' /\ at'[2] \in DOMAIN blocks'[at'[1]]
  BY <1>1, <1>2
<1> QED BY <1>1, <1>3, <1>4, <1>5, <1>6, <1>7

LEMMA PlaceFacts ==
  ASSUME func.used = <<>>, IInv, pc = "run"
  PROVE  \A b \in DOMAIN blocks : b \in Nat \ {0} /\ \A i \in DOMAIN blocks[b] : i \in Nat \ {0}
<1>1. Code(func, frame, blocks)
  BY DEF IInv, FrameAndCodeInv, CodeInv
<1>2. /\ Len(blocks) \in Nat \ {0} /\ DOMAIN blocks = 1..Len(blocks)
      /\ \A b \in DOMAIN blocks : Len(blocks[b]) \in Nat \ {0} /\ DOMAIN blocks[b] = 1..Len(blocks[b])
  BY <1>1, FirstInstruction
<1> QED BY <1>2

\* What is left to show of a step of the machine.
LEMMA StepKeeps ==
  ASSUME func.used = <<>>, IInv, pc = "run", pc' \in Running, UNCHANGED compiled,
         at' \in Nat \X Nat /\ at'[1] \in DOMAIN blocks' /\ at'[2] \in DOMAIN blocks'[at'[1]],
         pc' = "returned" => AtEnd',
         LocalsKeepTheirValues',
         IsSkipped => sp' = 0,
         ~IsSkipped => StackInv' /\ LinkInv' /\ WrittenInv'
  PROVE  FrameAndCodeInv'
<1>1. /\ Layout(frame)' /\ PushInv' /\ FrameInv' /\ CodeInv' /\ IsSkipped' = IsSkipped
  BY CompiledStays DEF Running
<1>2. RunInv'
  BY <1>1 DEF RunInv
<1> QED BY <1>1, <1>2 DEF FrameAndCodeInv

LEMMA WriteFacts ==
  ASSUME NEW first \in Int, NEW size \in Int, NEW owner, mem' = WriteBytes(first, size, owner)
  PROVE  /\ \A a \in first..(first + size - 1) : a \in DOMAIN mem' /\ mem'[a] = owner
         /\ \A a \in DOMAIN mem :
              a \notin first..(first + size - 1) => a \in DOMAIN mem' /\ mem'[a] = mem[a]
  BY DEF WriteBytes

LEMMA AdjustSPKeeps ==
  ASSUME NoEmptyObjects, func.used = <<>>, IInv, AdjustSP
  PROVE  FrameAndCodeInv'
<1> DEFINE n == Len(blocks)
           end == Len(blocks[n])
<1>1. /\ pc = "run" /\ pc' = "run" /\ Current.op = "adjust" /\ sp' = sp + Current.arg
      /\ at' = Following /\ UNCHANGED compiled /\ lr' = lr /\ mem' = mem /\ seen' = seen
  BY DEF AdjustSP
<1>2. /\ CodeInv' /\ func' = func /\ frame' = frame /\ blocks' = blocks
      /\ Adjustment' = Adjustment /\ LinkOffset' = LinkOffset /\ IsSkipped' = IsSkipped
  BY <1>1, CompiledStays DEF Running
<1>3. ~IsSkipped
  BY <1>1, SkippedFacts DEF FrameOps
<1>4. LocalsKeepTheirValues /\ StackInv /\ LinkInv /\ WrittenInv
  BY <1>1, <1>3 DEF IInv, FrameAndCodeInv, RunInv, Running
<1>5. /\ at' \in Nat \X Nat /\ at'[1] \in DOMAIN blocks' /\ at'[2] \in DOMAIN blocks'[at'[1]]
      /\ at'[1] = at[1] /\ at'[2] = at[2] + 1 /\ at' # <<1, 1>>
      /\ AtEnd' <=> at[1] = n /\ at[2] = end - 1
      /\ \A b, i \in Nat : IsPast(b, i)' <=> IsPast(b, i) \/ (b = at[1] /\ i = at[2])
      /\ ~AtEnd
  BY <1>1, FollowingFacts
<1>6. /\ end >= 2 /\ func.caller \in BOOLEAN /\ (func.caller => end >= 3) /\ (n = 1 => end >= 3)
      /\ n = 1 /\ func.caller => end >= 5
      /\ \/ at = <<1, 1>> /\ Current.arg = -Adjustment
         \/ at[1] = n /\ at[2] = end - 1 /\ at # <<1, 1>> /\ Current.arg = Adjustment
  BY <1>1, <1>3, PrologueFacts
<1>7. /\ n \in Nat \ {0} /\ end \in Nat \ {0} /\ at[1] \in Nat \ {0} /\ at[2] \in Nat \ {0}
      /\ at = <<at[1], at[2]>>
  BY <1>1, CurrentFacts
<1>8. Adjustment \in Nat
  BY <1>1, FrameFacts
<1> HIDE DEF n, end
<1>9. sp' = IF at' = <<1, 1>> \/ AtEnd' THEN 0 ELSE -Adjustment
  <2>1. CASE at = <<1, 1>> /\ Current.arg = -Adjustment
    <3>1. sp = 0
      BY <1>4, <2>1 DEF StackInv
    <3>2. ~AtEnd'
      BY <1>5, <1>6, <1>7, <2>1
    <3> QED BY <1>1, <1>5, <1>8, <2>1, <3>1, <3>2
  <2>2. CASE at[1] = n /\ at[2] = end - 1 /\ at # <<1, 1>> /\ Current.arg = Adjustment
    <3>1. sp = -Adjustment
      BY <1>4, <1>5, <2>2 DEF StackInv
    <3> QED BY <1>1, <1>5, <1>8, <2>2, <3>1
  <2> QED BY <1>6, <2>1, <2>2
<1>10. StackInv'
  BY <1>1, <1>2, <1>4, <1>9 DEF StackInv
<1>11. LinkInv'
  <2>1. func.caller => ~(at[1] = 1 /\ at[2] = 2)
    BY <1>6, <1>7
  <2>4. func.caller /\ IsPast(1, 2)' => IsPast(1, 2)
    BY <1>5, <2>1
  <2>2. lr = CallerOwned
    BY <1>4, <1>6, <1>7 DEF LinkInv, n, end
  <2>3. LinkBytes' = LinkBytes
    BY <1>2 DEF LinkBytes
  <2> QED BY <1>1, <1>2, <1>4, <2>2, <2>3, <2>4 DEF LinkInv
<1>12. WrittenInv'
  <2>1. blocks[at[1]][at[2]].op # "write"
    BY <1>1 DEF Current
  <2>2. \A b \in DOMAIN blocks : b \in Nat /\ \A i \in DOMAIN blocks[b] : i \in Nat
    BY <1>1, PlaceFacts
  <2> QED BY <1>1, <1>2, <1>4, <1>5, <2>1, <2>2 DEF WrittenInv
<1> QED BY <1>1, <1>3, <1>4, <1>5, <1>10, <1>11, <1>12, StepKeeps DEF Running, LocalsKeepTheirValues

LEMMA SaveLRKeeps ==
  ASSUME NoEmptyObjects, func.used = <<>>, IInv, SaveLR
  PROVE  FrameAndCodeInv'
<1> DEFINE n == Len(blocks)
           end == Len(blocks[n])
           first == sp + Current.arg
<1>1. /\ pc = "run" /\ pc' = "run" /\ Current.op = "save" /\ sp' = sp
      /\ mem' = WriteBytes(first, 8, IF lr = CallerOwned THEN LinkRegister ELSE Nobody)
      /\ at' = Following /\ UNCHANGED compiled /\ lr' = lr /\ seen' = seen
  BY DEF SaveLR
<1>2. /\ CodeInv' /\ func' = func /\ frame' = frame /\ blocks' = blocks
      /\ Adjustment' = Adjustment /\ LinkOffset' = LinkOffset /\ IsSkipped' = IsSkipped
  BY <1>1, CompiledStays DEF Running
<1>3. ~IsSkipped
  BY <1>1, SkippedFacts DEF FrameOps
<1>4. LocalsKeepTheirValues /\ StackInv /\ LinkInv /\ WrittenInv
  BY <1>1, <1>3 DEF IInv, FrameAndCodeInv, RunInv, Running
<1>5. /\ at' \in Nat \X Nat /\ at'[1] \in DOMAIN blocks' /\ at'[2] \in DOMAIN blocks'[at'[1]]
      /\ at'[1] = at[1] /\ at'[2] = at[2] + 1 /\ at' # <<1, 1>>
      /\ AtEnd' <=> at[1] = n /\ at[2] = end - 1
      /\ \A b, i \in Nat : IsPast(b, i)' <=> IsPast(b, i) \/ (b = at[1] /\ i = at[2])
      /\ ~AtEnd
  BY <1>1, FollowingFacts
<1>6. /\ func.caller /\ at = <<1, 2>> /\ Current.arg = LinkOffset
      /\ n = 1 => end >= 5
  BY <1>1, <1>3, PrologueFacts
<1>7. n \in Nat \ {0} /\ end \in Nat \ {0}
  BY <1>1, CurrentFacts
<1>8. /\ Adjustment \in Nat /\ LinkOffset \in Nat /\ LinkOffset + 16 <= Adjustment
  <2>1. HasLinkSlot
    BY <1>1, <1>3, <1>6 DEF HasLinkSlot
  <2> QED BY <1>1, <2>1, FrameFacts
<1> HIDE DEF n, end
<1>9. sp = -Adjustment /\ lr = CallerOwned
  BY <1>4, <1>5, <1>6 DEF StackInv, LinkInv
<1>10. first = LinkOffset - Adjustment /\ first \in Int /\ first + 8 <= 0
  BY <1>6, <1>8, <1>9
<1> HIDE DEF first
<1>11. /\ \A a \in first..(first + 8 - 1) : a \in DOMAIN mem' /\ mem'[a] = LinkRegister
       /\ \A a \in DOMAIN mem :
            a \notin first..(first + 8 - 1) => a \in DOMAIN mem' /\ mem'[a] = mem[a]
  BY <1>1, <1>9, <1>10, WriteFacts
<1>12. StackInv'
  <2>1. ~AtEnd'
    BY <1>5, <1>6, <1>7
  <2>2. \A a \in CallerBytes : a \in DOMAIN mem' /\ mem'[a] = CallerOwned
    <3>1. \A a \in CallerBytes : a \notin first..(first + 8 - 1)
      BY <1>10 DEF CallerBytes
    <3> QED BY <1>4, <1>11, <3>1 DEF StackInv
  <2> QED BY <1>1, <1>2, <1>5, <1>9, <2>1, <2>2 DEF StackInv
<1>13. LinkInv'
  <2>1. \A a \in LinkBytes' : a \in DOMAIN mem' /\ mem'[a] = LinkRegister
    <3>1. LinkBytes' \subseteq first..(first + 8 - 1)
      BY <1>2, <1>8, <1>10 DEF LinkBytes
    <3> QED BY <1>11, <3>1
  <2> QED BY <1>1, <1>2, <1>9, <2>1 DEF LinkInv
<1>14. WrittenInv'
  <2>1. \A b \in DOMAIN blocks : b \in Nat \ {0} /\ \A i \in DOMAIN blocks[b] : i \in Nat \ {0}
    BY <1>1, PlaceFacts
  <2>2. \A b \in DOMAIN blocks : \A i \in DOMAIN blocks[b] :
          IsPast(b, i)' => b = 1 /\ (i = 1 \/ i = 2)
    BY <1>5, <1>6, <2>1 DEF IsPast
  <2>3. blocks[1][2].op = "save"
    BY <1>1, <1>6 DEF Current
  <2>4. blocks[1][1].op = "adjust"
    <3>1. Inserted(func.caller, Adjustment, LinkOffset, blocks, 2, EpilogueLength)
      BY <1>1, <1>3, <1>6 DEF IInv, FrameAndCodeInv, CodeInv, PrologueLength
    <3> QED BY <3>1 DEF Inserted, Instr
  <2> QED BY <1>2, <2>2, <2>3, <2>4 DEF WrittenInv
<1> QED BY <1>1, <1>3, <1>4, <1>5, <1>12, <1>13, <1>14, StepKeeps DEF Running, LocalsKeepTheirValues

LEMMA ReloadLRKeeps ==
  ASSUME NoEmptyObjects, func.used = <<>>, IInv, ReloadLR
  PROVE  FrameAndCodeInv'
<1> DEFINE n == Len(blocks)
           end == Len(blocks[n])
           first == sp + Current.arg
<1>1. /\ pc = "run" /\ pc' = "run" /\ Current.op = "reload" /\ sp' = sp
      /\ lr' = IF \A a \in first..(first + 7) : Owner(a) = LinkRegister
               THEN CallerOwned ELSE Nobody
      /\ at' = Following /\ UNCHANGED compiled /\ mem' = mem /\ seen' = seen
  BY DEF ReloadLR
<1>2. /\ CodeInv' /\ func' = func /\ frame' = frame /\ blocks' = blocks
      /\ Adjustment' = Adjustment /\ LinkOffset' = LinkOffset /\ IsSkipped' = IsSkipped
  BY <1>1, CompiledStays DEF Running
<1>3. ~IsSkipped
  BY <1>1, SkippedFacts DEF FrameOps
<1>4. LocalsKeepTheirValues /\ StackInv /\ LinkInv /\ WrittenInv
  BY <1>1, <1>3 DEF IInv, FrameAndCodeInv, RunInv, Running
<1>5. /\ at' \in Nat \X Nat /\ at'[1] \in DOMAIN blocks' /\ at'[2] \in DOMAIN blocks'[at'[1]]
      /\ at'[1] = at[1] /\ at'[2] = at[2] + 1 /\ at' # <<1, 1>>
      /\ AtEnd' <=> at[1] = n /\ at[2] = end - 1
      /\ \A b, i \in Nat : IsPast(b, i)' <=> IsPast(b, i) \/ (b = at[1] /\ i = at[2])
      /\ ~AtEnd
  BY <1>1, FollowingFacts
<1>6. /\ func.caller /\ at[1] = n /\ at[2] = end - 2 /\ Current.arg = LinkOffset
      /\ IsPast(1, 2) /\ at # <<1, 1>>
  BY <1>1, <1>3, PrologueFacts
<1>7. n \in Nat \ {0} /\ end \in Nat \ {0}
  BY <1>1, CurrentFacts
<1>8. /\ Adjustment \in Nat /\ LinkOffset \in Nat
  <2>1. HasLinkSlot
    BY <1>1, <1>3, <1>6 DEF HasLinkSlot
  <2> QED BY <1>1, <2>1, FrameFacts
<1> HIDE DEF n, end
<1>9. sp = -Adjustment
  BY <1>4, <1>5, <1>6 DEF StackInv
<1>10. lr' = CallerOwned
  <2>1. first = LinkOffset - Adjustment
    BY <1>6, <1>8, <1>9
  <2> HIDE DEF first
  <2>2. first..(first + 7) \subseteq LinkBytes
    <3>1. first \in Int
      BY <1>8, <2>1
    <3>2. \A a \in first..(first + 7) : \E k \in 0..7 : a = first + k
      <4> SUFFICES ASSUME NEW a \in first..(first + 7) PROVE a - first \in 0..7 /\ a = first + (a - first)
        OBVIOUS
      <4> QED BY <3>1
    <3> QED BY <2>1, <3>2 DEF LinkBytes
  <2>3. \A a \in LinkBytes : Owner(a) = LinkRegister
    BY <1>4, <1>6 DEF LinkInv, Owner
  <2> QED BY <1>1, <2>2, <2>3
<1>11. StackInv'
  <2>1. ~AtEnd'
    BY <1>5, <1>6, <1>7
  <2> QED BY <1>1, <1>2, <1>4, <1>5, <1>9, <2>1 DEF StackInv
<1>12. LinkInv'
  <2>1. LinkBytes' = LinkBytes
    BY <1>2 DEF LinkBytes
  <2> QED BY <1>1, <1>2, <1>4, <1>6, <1>10, <2>1 DEF LinkInv
<1>13. WrittenInv'
  <2>1. blocks[at[1]][at[2]].op # "write"
    BY <1>1 DEF Current
  <2>2. \A b \in DOMAIN blocks : b \in Nat /\ \A i \in DOMAIN blocks[b] : i \in Nat
    BY <1>1, PlaceFacts
  <2> QED BY <1>1, <1>2, <1>4, <1>5, <2>1, <2>2 DEF WrittenInv
<1> QED BY <1>1, <1>3, <1>4, <1>5, <1>11, <1>12, <1>13, StepKeeps DEF Running, LocalsKeepTheirValues

\* Between prologue and epilogue SP is down, and only a function that does not
\* call may rely on x30.
LEMMA BodyFacts ==
  ASSUME func.used = <<>>, IInv, pc = "run", pc' = "run", UNCHANGED compiled, ~IsSkipped,
         Current.op \notin FrameOps \cup {"jump", "ret"}, at' = Following
  PROVE  /\ sp = -Adjustment /\ at' # <<1, 1>> /\ ~AtEnd'
         /\ func.caller \in BOOLEAN /\ (func.caller => IsPast(1, 2))
         /\ ~(at'[1] = 1 /\ at'[2] <= 2)
         /\ func.caller =>
              ~(at'[1] = Len(blocks) /\ at'[2] >= Len(blocks[Len(blocks)]) - 1)
<1> DEFINE n == Len(blocks)
           end == Len(blocks[n])
<1>1. StackInv
  BY DEF IInv, FrameAndCodeInv, RunInv, Running
<1>2. /\ at'[1] = at[1] /\ at'[2] = at[2] + 1 /\ at' # <<1, 1>>
      /\ AtEnd' <=> at[1] = n /\ at[2] = end - 1
      /\ ~AtEnd
  BY FollowingFacts
<1>3. /\ at # <<1, 1>>
      /\ at[1] = n => at[2] # end - 1 /\ (func.caller => at[2] # end - 2)
      /\ func.caller => IsPast(1, 2)
      /\ func.caller \in BOOLEAN
  BY PrologueFacts
<1>4. /\ at = <<at[1], at[2]>> /\ at[1] \in Nat \ {0} /\ at[2] \in Nat \ {0}
      /\ end \in Nat \ {0} /\ (at[1] = n => at[2] < end)
  BY CurrentFacts
<1> HIDE DEF n, end
<1>5. sp = -Adjustment
  BY <1>1, <1>2, <1>3 DEF StackInv
<1>6. ~(at'[1] = 1 /\ at'[2] <= 2)
  BY <1>2, <1>3, <1>4
<1>7. func.caller => ~(at'[1] = n /\ at'[2] >= end - 1)
  BY <1>2, <1>3, <1>4
<1> QED BY <1>2, <1>3, <1>5, <1>6, <1>7 DEF n, end

LEMMA WriteObjectKeeps ==
  ASSUME NoEmptyObjects, func.used = <<>>, IInv, WriteObject
  PROVE  FrameAndCodeInv'
<1> DEFINE id == Current.arg.id
           first == sp + Current.arg.offset
           size == frame.slots[id]
<1>1. /\ pc = "run" /\ pc' = "run" /\ Current.op = "write" /\ sp' = sp
      /\ mem' = WriteBytes(first, size, id)
      /\ at' = Following /\ UNCHANGED compiled /\ lr' = lr /\ seen' = seen
  BY DEF WriteObject
<1>2. /\ func' = func /\ frame' = frame /\ blocks' = blocks
      /\ Adjustment' = Adjustment /\ LinkOffset' = LinkOffset /\ IsSkipped' = IsSkipped
  BY <1>1, CompiledStays DEF Running
<1>3. ~IsSkipped
  BY <1>1, SkippedFacts DEF Accesses
<1>4. LocalsKeepTheirValues /\ StackInv /\ LinkInv /\ WrittenInv
  BY <1>1, <1>3 DEF IInv, FrameAndCodeInv, RunInv, Running
<1>5. /\ at' \in Nat \X Nat /\ at'[1] \in DOMAIN blocks' /\ at'[2] \in DOMAIN blocks'[at'[1]]
      /\ \A b, i \in Nat : IsPast(b, i)' <=> IsPast(b, i) \/ (b = at[1] /\ i = at[2])
  BY <1>1, FollowingFacts
<1>6. /\ sp = -Adjustment /\ at' # <<1, 1>> /\ ~AtEnd'
      /\ func.caller \in BOOLEAN /\ (func.caller => IsPast(1, 2))
      /\ ~(at'[1] = 1 /\ at'[2] <= 2)
      /\ func.caller => ~(at'[1] = Len(blocks) /\ at'[2] >= Len(blocks[Len(blocks)]) - 1)
  BY <1>1, <1>3, BodyFacts DEF FrameOps
<1>7. id \in ObjectIDs(func) /\ Current.arg.offset = GetPosition(frame, id)
  BY <1>1, CurrentFacts DEF WellPlaced, Accesses, Current
<1>8. /\ Adjustment \in Nat
      /\ \A o \in ObjectIDs(func) :
           /\ o \in DOMAIN frame.slots /\ frame.slots[o] \in Nat \ {0}
           /\ GetPosition(frame, o) \in Nat
           /\ GetPosition(frame, o) + frame.slots[o] <= Adjustment
      /\ func.caller =>
           /\ LinkOffset \in Nat
           /\ \A o \in ObjectIDs(func) : GetPosition(frame, o) + frame.slots[o] <= LinkOffset
  <2>1. func.caller => HasLinkSlot
    BY <1>1, <1>3 DEF HasLinkSlot
  <2> QED BY <1>1, <2>1, FrameFacts
<1>9. /\ first = GetPosition(frame, id) - Adjustment /\ first \in Int /\ size \in Nat \ {0}
      /\ first + size <= 0 /\ (func.caller => first + size <= LinkOffset - Adjustment)
  <2> HIDE DEF id
  <2> QED BY <1>6, <1>7, <1>8
<1>10. Layout(frame)
  BY DEF IInv, FrameAndCodeInv
<1> HIDE DEF id, first, size
<1>11. /\ \A a \in first..(first + size - 1) : a \in DOMAIN mem' /\ mem'[a] = id
       /\ \A a \in DOMAIN mem :
            a \notin first..(first + size - 1) => a \in DOMAIN mem' /\ mem'[a] = mem[a]
  BY <1>1, <1>9, WriteFacts
<1>12. StackInv'
  <2>1. \A a \in CallerBytes : a \notin first..(first + size - 1)
    BY <1>9 DEF CallerBytes
  <2>2. \A a \in CallerBytes : a \in DOMAIN mem' /\ mem'[a] = CallerOwned
    BY <1>4, <1>11, <2>1 DEF StackInv
  <2> QED BY <1>1, <1>2, <1>6, <2>2 DEF StackInv
<1>13. LinkInv'
  <2>1. ASSUME func.caller
        PROVE  \A a \in LinkBytes' : a \in DOMAIN mem' /\ mem'[a] = LinkRegister
    <3>1. LinkBytes' = LinkBytes
      BY <1>2 DEF LinkBytes
    <3>2. \A a \in LinkBytes : a \notin first..(first + size - 1)
      <4>1. ASSUME NEW k \in 0..7
            PROVE  LinkOffset - Adjustment + k \notin first..(first + size - 1)
        <5>1. LinkOffset \in Nat /\ first + size <= LinkOffset - Adjustment
          BY <1>8, <1>9, <2>1
        <5> QED BY <1>8, <1>9, <5>1
      <4> QED BY <4>1 DEF LinkBytes
    <3> QED BY <1>4, <1>6, <1>11, <2>1, <3>1, <3>2 DEF LinkInv
  <2> QED BY <1>1, <1>2, <1>4, <1>6, <2>1 DEF LinkInv
<1>14. WrittenInv'
  <2> SUFFICES ASSUME NEW b \in DOMAIN blocks, NEW i \in DOMAIN blocks[b],
                      blocks[b][i].op = "write", IsPast(b, i)',
                      NEW x \in Bytes(frame, blocks[b][i].arg.id)
               PROVE  /\ x - Adjustment \in DOMAIN mem'
                      /\ mem'[x - Adjustment] = blocks[b][i].arg.id
    BY <1>2 DEF WrittenInv
  <2> DEFINE o == blocks[b][i].arg.id
  <2>1. IsPast(b, i) \/ (b = at[1] /\ i = at[2])
    BY <1>1, <1>5, PlaceFacts
  <2>2. o \in ObjectIDs(func)
    BY <1>1 DEF IInv, FrameAndCodeInv, CodeInv, Code, WellPlaced, Accesses
  <2>3. b = at[1] /\ i = at[2] => o = id
    BY DEF Current, id
  <2>4. o # id => x - Adjustment \in DOMAIN mem /\ mem[x - Adjustment] = o
    BY <1>4, <2>1, <2>3 DEF WrittenInv
  <2> HIDE DEF o
  <2>5. /\ GetPosition(frame, o) \in Nat /\ frame.slots[o] \in Nat \ {0}
        /\ x \in GetPosition(frame, o)..(GetPosition(frame, o) + frame.slots[o] - 1)
    BY <1>8, <2>2 DEF Bytes, o
  <2>6. CASE o = id
    <3>1. x - Adjustment \in first..(first + size - 1)
      BY <1>8, <1>9, <2>5, <2>6 DEF size
    <3> QED BY <1>11, <2>6, <3>1 DEF o
  <2>7. CASE o # id
    <3>1. \/ o < id /\ GetPosition(frame, o) + frame.slots[o] <= GetPosition(frame, id)
          \/ id < o /\ GetPosition(frame, id) + size <= GetPosition(frame, o)
      <4>1. o \in DOMAIN frame.slots /\ id \in DOMAIN frame.slots
        BY <1>7, <1>8, <2>2
      <4>2. o \in Nat /\ id \in Nat
        BY <1>10, <4>1, WordAssumption DEF Layout
      <4> QED BY <1>10, <2>7, <4>1, <4>2 DEF Layout, size
    <3>2. GetPosition(frame, id) \in Nat
      BY <1>7, <1>8
    <3>4. x \in Int /\ (x < GetPosition(frame, id) \/ x >= GetPosition(frame, id) + size)
      BY <1>9, <2>5, <3>1, <3>2
    <3>3. x - Adjustment \notin first..(first + size - 1)
      BY <1>8, <1>9, <3>2, <3>4
    <3> QED BY <1>11, <2>4, <2>7, <3>3 DEF o
  <2> QED BY <2>6, <2>7
<1> QED BY <1>1, <1>3, <1>4, <1>5, <1>12, <1>13, <1>14, StepKeeps DEF Running, LocalsKeepTheirValues

LEMMA ReadObjectKeeps ==
  ASSUME NoEmptyObjects, func.used = <<>>, IInv, ReadObject
  PROVE  FrameAndCodeInv'
<1> DEFINE id == Current.arg.id
           first == sp + Current.arg.offset
           size == frame.slots[id]
<1>1. /\ pc = "run" /\ pc' = "run" /\ Current.op = "read" /\ sp' = sp
      /\ seen' = seen \cup {<<id, Owner(a)>> : a \in first..(first + size - 1)}
      /\ at' = Following /\ UNCHANGED compiled /\ lr' = lr /\ mem' = mem
  BY DEF ReadObject
<1>2. /\ func' = func /\ frame' = frame /\ blocks' = blocks
      /\ Adjustment' = Adjustment /\ LinkOffset' = LinkOffset /\ IsSkipped' = IsSkipped
  BY <1>1, CompiledStays DEF Running
<1>3. ~IsSkipped
  BY <1>1, SkippedFacts DEF Accesses
<1>4. LocalsKeepTheirValues /\ StackInv /\ LinkInv /\ WrittenInv
  BY <1>1, <1>3 DEF IInv, FrameAndCodeInv, RunInv, Running
<1>5. /\ at' \in Nat \X Nat /\ at'[1] \in DOMAIN blocks' /\ at'[2] \in DOMAIN blocks'[at'[1]]
      /\ \A b, i \in Nat : IsPast(b, i)' <=> IsPast(b, i) \/ (b = at[1] /\ i = at[2])
  BY <1>1, FollowingFacts
<1>6. /\ sp = -Adjustment /\ at' # <<1, 1>> /\ ~AtEnd'
      /\ func.caller \in BOOLEAN /\ (func.caller => IsPast(1, 2))
      /\ ~(at'[1] = 1 /\ at'[2] <= 2)
      /\ func.caller => ~(at'[1] = Len(blocks) /\ at'[2] >= Len(blocks[Len(blocks)]) - 1)
  BY <1>1, <1>3, BodyFacts DEF FrameOps
<1>7. id \in ObjectIDs(func) /\ Current.arg.offset = GetPosition(frame, id)
  BY <1>1, CurrentFacts DEF WellPlaced, Accesses, Current
<1>8. /\ Adjustment \in Nat /\ size \in Nat \ {0} /\ GetPosition(frame, id) \in Nat
  BY <1>1, <1>7, FrameFacts
\* The object was written before.
<1>17. PICK c \in 1..at[1] : \E k \in DOMAIN blocks[c] :
         /\ c = at[1] => k < at[2]
         /\ blocks[c][k].op = "write" /\ blocks[c][k].arg.id = id
  BY <1>1, CurrentFacts DEF WellPlaced, Current
<1>9. PICK k \in DOMAIN blocks[c] :
        /\ c = at[1] => k < at[2]
        /\ blocks[c][k].op = "write" /\ blocks[c][k].arg.id = id
  BY <1>17
<1>10. c \in DOMAIN blocks /\ IsPast(c, k)
  <2>1. at[1] \in Nat \ {0} /\ at[1] <= Len(blocks) /\ DOMAIN blocks = 1..Len(blocks)
        /\ Len(blocks) \in Nat
    BY <1>1, CurrentFacts
  <2> QED BY <1>9, <2>1 DEF IsPast
<1>11. \A x \in Bytes(frame, id) :
         x - Adjustment \in DOMAIN mem /\ mem[x - Adjustment] = id
  BY <1>4, <1>9, <1>10 DEF WrittenInv
<1>12. ASSUME NEW a \in first..(first + size - 1)
       PROVE  Owner(a) = id
  <2>1. first = GetPosition(frame, id) - Adjustment
    BY <1>6, <1>7, <1>8
  <2> HIDE DEF first, size, id
  <2>2. a + Adjustment \in Int /\ (a + Adjustment) - Adjustment = a
    BY <1>8, <2>1
  <2>3. a + Adjustment \in GetPosition(frame, id)..(GetPosition(frame, id) + size - 1)
    BY <1>8, <2>1
  <2>4. a + Adjustment \in Bytes(frame, id)
    BY <2>3 DEF Bytes, size
  <2> QED BY <1>11, <2>2, <2>4 DEF Owner
<1>13. LocalsKeepTheirValues'
  <2> HIDE DEF first, size, id
  <2> SUFFICES ASSUME NEW s \in seen' PROVE s[1] = s[2]
    BY DEF LocalsKeepTheirValues
  <2>1. CASE s \in seen
    BY <1>4, <2>1 DEF LocalsKeepTheirValues
  <2>2. CASE s \in {<<id, Owner(a)>> : a \in first..(first + size - 1)}
    BY <1>12, <2>2
  <2> QED BY <1>1, <2>1, <2>2
<1>14. StackInv'
  BY <1>1, <1>2, <1>4, <1>6 DEF StackInv
<1>15. LinkInv'
  <2>1. LinkBytes' = LinkBytes
    BY <1>2 DEF LinkBytes
  <2> QED BY <1>1, <1>2, <1>4, <1>6, <2>1 DEF LinkInv
<1>16. WrittenInv'
  <2>1. blocks[at[1]][at[2]].op # "write"
    BY <1>1 DEF Current
  <2>2. \A b \in DOMAIN blocks : b \in Nat /\ \A i \in DOMAIN blocks[b] : i \in Nat
    BY <1>1, PlaceFacts
  <2> QED BY <1>1, <1>2, <1>4, <1>5, <2>1, <2>2 DEF WrittenInv
<1> QED BY <1>1, <1>3, <1>5, <1>13, <1>14, <1>15, <1>16, StepKeeps DEF Running

\* The callee writes below SP only, and all of the frame is above it.
LEMMA CallFunctionKeeps ==
  ASSUME NoEmptyObjects, func.used = <<>>, IInv, CallFunction
  PROVE  FrameAndCodeInv'
<1>1. /\ pc = "run" /\ pc' = "run" /\ Current.op = "call" /\ sp' = sp /\ lr' = Own
      /\ mem' = [a \in {b \in DOMAIN mem : b >= sp} |-> mem[a]]
      /\ at' = Following /\ UNCHANGED compiled /\ seen' = seen
  BY DEF CallFunction
<1>2. /\ func' = func /\ frame' = frame /\ blocks' = blocks
      /\ Adjustment' = Adjustment /\ LinkOffset' = LinkOffset /\ IsSkipped' = IsSkipped
  BY <1>1, CompiledStays DEF Running
<1>3. LocalsKeepTheirValues'
  BY <1>1 DEF IInv, FrameAndCodeInv, RunInv, Running, LocalsKeepTheirValues
<1>4. /\ at' \in Nat \X Nat /\ at'[1] \in DOMAIN blocks' /\ at'[2] \in DOMAIN blocks'[at'[1]]
      /\ \A b, i \in Nat : IsPast(b, i)' <=> IsPast(b, i) \/ (b = at[1] /\ i = at[2])
  BY <1>1, FollowingFacts
<1>5. IsSkipped => sp' = 0
  BY <1>1 DEF IInv, FrameAndCodeInv, RunInv, Running
<1>6. ASSUME ~IsSkipped
      PROVE  StackInv' /\ LinkInv' /\ WrittenInv'
  <2>1. StackInv /\ LinkInv /\ WrittenInv
    BY <1>1, <1>6 DEF IInv, FrameAndCodeInv, RunInv, Running
  <2>2. func.caller
    BY <1>1, CurrentFacts DEF WellPlaced, Current
  <2>3. /\ sp = -Adjustment /\ at' # <<1, 1>> /\ ~AtEnd' /\ IsPast(1, 2)
        /\ ~(at'[1] = 1 /\ at'[2] <= 2)
        /\ ~(at'[1] = Len(blocks) /\ at'[2] >= Len(blocks[Len(blocks)]) - 1)
    BY <1>1, <1>6, <2>2, BodyFacts DEF FrameOps
  <2>4. /\ Adjustment \in Nat /\ LinkOffset \in Nat
        /\ \A o \in ObjectIDs(func) :
             GetPosition(frame, o) \in Nat /\ frame.slots[o] \in Nat \ {0}
    <3>1. HasLinkSlot
      BY <1>1, <1>6, <2>2 DEF HasLinkSlot
    <3> QED BY <1>1, <3>1, FrameFacts
  <2>5. \A a \in DOMAIN mem : a >= -Adjustment => a \in DOMAIN mem' /\ mem'[a] = mem[a]
    BY <1>1, <2>3
  <2>6. StackInv'
    <3>1. \A a \in CallerBytes : a >= -Adjustment
      BY <2>4 DEF CallerBytes
    <3> QED BY <1>1, <1>2, <2>1, <2>3, <2>5, <3>1 DEF StackInv
  <2>7. LinkInv'
    <3>1. LinkBytes' = LinkBytes
      BY <1>2 DEF LinkBytes
    <3>2. \A a \in LinkBytes : a >= -Adjustment
      BY <2>4 DEF LinkBytes
    <3>3. \A a \in LinkBytes : a \in DOMAIN mem' /\ mem'[a] = LinkRegister
      BY <2>1, <2>2, <2>3, <2>5, <3>2 DEF LinkInv
    <3> QED BY <1>2, <2>2, <2>3, <3>1, <3>3 DEF LinkInv
  <2>8. WrittenInv'
    <3> SUFFICES ASSUME NEW b \in DOMAIN blocks, NEW i \in DOMAIN blocks[b],
                        blocks[b][i].op = "write", IsPast(b, i)',
                        NEW x \in Bytes(frame, blocks[b][i].arg.id)
                 PROVE  /\ x - Adjustment \in DOMAIN mem'
                        /\ mem'[x - Adjustment] = blocks[b][i].arg.id
      BY <1>2 DEF WrittenInv
    <3>1. blocks[at[1]][at[2]].op # "write"
      BY <1>1 DEF Current
    <3>2. IsPast(b, i)
      BY <1>1, <1>4, <3>1, PlaceFacts
    <3>3. blocks[b][i].arg.id \in ObjectIDs(func)
      BY <1>1 DEF IInv, FrameAndCodeInv, CodeInv, Code, WellPlaced, Accesses
    <3>4. x - Adjustment >= -Adjustment
      BY <2>4, <3>3 DEF Bytes
    <3>5. x - Adjustment \in DOMAIN mem /\ mem[x - Adjustment] = blocks[b][i].arg.id
      BY <2>1, <3>2 DEF WrittenInv
    <3> QED BY <2>5, <3>4, <3>5
  <2> QED BY <2>6, <2>7, <2>8
<1> QED BY <1>1, <1>3, <1>4, <1>5, <1>6, StepKeeps DEF Running

LEMMA JumpToNextBlockKeeps ==
  ASSUME NoEmptyObjects, func.used = <<>>, IInv, JumpToNextBlock
  PROVE  FrameAndCodeInv'
<1> DEFINE n == Len(blocks)
           end == Len(blocks[n])
<1>1. /\ pc = "run" /\ pc' = "run" /\ Current.op = "jump" /\ sp' = sp /\ lr' = lr
      /\ at' = <<at[1] + 1, 1>> /\ UNCHANGED compiled /\ seen' = seen /\ mem' = mem
  BY DEF JumpToNextBlock
<1>2. /\ func' = func /\ frame' = frame /\ blocks' = blocks
      /\ Adjustment' = Adjustment /\ LinkOffset' = LinkOffset /\ IsSkipped' = IsSkipped
  BY <1>1, CompiledStays DEF Running
<1>3. LocalsKeepTheirValues'
  BY <1>1 DEF IInv, FrameAndCodeInv, RunInv, Running, LocalsKeepTheirValues
<1>4. /\ at = <<at[1], at[2]>> /\ at[1] \in Nat \ {0} /\ at[2] \in Nat \ {0} /\ n \in Nat \ {0}
      /\ end \in Nat \ {0} /\ at[1] < n /\ at[2] = Len(blocks[at[1]]) /\ DOMAIN blocks = 1..n
  BY <1>1, CurrentFacts
<1>5. \A b \in DOMAIN blocks : Len(blocks[b]) \in Nat \ {0} /\ DOMAIN blocks[b] = 1..Len(blocks[b])
  <2>1. Code(func, frame, blocks)
    BY <1>1 DEF IInv, FrameAndCodeInv, CodeInv
  <2> QED BY <2>1, FirstInstruction
<1> HIDE DEF n, end
<1>6. at'[1] = at[1] + 1 /\ at'[2] = 1
  BY <1>1
<1>7. at' \in Nat \X Nat /\ at'[1] \in DOMAIN blocks' /\ at'[2] \in DOMAIN blocks'[at'[1]]
  <2>1. at[1] + 1 \in DOMAIN blocks
    BY <1>4
  <2>2. 1 \in DOMAIN blocks[at[1] + 1]
    BY <1>5, <2>1
  <2> QED BY <1>1, <1>2, <1>4, <2>1, <2>2
<1>8. IsSkipped => sp' = 0
  BY <1>1 DEF IInv, FrameAndCodeInv, RunInv, Running
<1>9. ASSUME ~IsSkipped
      PROVE  StackInv' /\ LinkInv' /\ WrittenInv'
  <2>1. StackInv /\ LinkInv /\ WrittenInv
    BY <1>1, <1>9 DEF IInv, FrameAndCodeInv, RunInv, Running
  <2>2. /\ end >= 2 /\ func.caller \in BOOLEAN /\ (func.caller => end >= 3)
        /\ at # <<1, 1>> /\ (func.caller => IsPast(1, 2))
    BY <1>1, <1>9, PrologueFacts DEF FrameOps, n, end
  <2>3. ~AtEnd
    BY <1>1, CurrentFacts
  <2>4. sp = -Adjustment
    BY <2>1, <2>2, <2>3 DEF StackInv
  <2>5. at' # <<1, 1>> /\ ~AtEnd'
    <3>1. at' # <<1, 1>>
      BY <1>4, <1>6
    <3>2. AtEnd' => at'[2] = end
      BY <1>2 DEF AtEnd, n, end
    <3>3. ~AtEnd'
      BY <1>4, <1>6, <2>2, <3>2
    <3> QED BY <3>1, <3>3
  <2>6. StackInv'
    BY <1>1, <1>2, <2>1, <2>4, <2>5 DEF StackInv
  <2>7. LinkInv'
    <3>1. LinkBytes' = LinkBytes
      BY <1>2 DEF LinkBytes
    <3>2. ~(at'[1] = 1 /\ at'[2] <= 2)
      BY <1>4, <1>6
    <3>3. func.caller => ~(at'[1] = n /\ at'[2] >= end - 1)
      BY <1>4, <1>6, <2>2
    <3> QED BY <1>1, <1>2, <2>1, <2>2, <3>1, <3>2, <3>3 DEF LinkInv, n, end
  <2>8. WrittenInv'
    <3>1. ASSUME NEW b \in DOMAIN blocks, NEW i \in DOMAIN blocks[b],
                 blocks[b][i].op = "write", IsPast(b, i)'
          PROVE  IsPast(b, i)
      <4>1. b \in Nat /\ i \in Nat /\ (b = at[1] => i <= at[2])
        BY <1>4, <1>5
      <4>2. b < at[1] \/ b = at[1]
        BY <1>4, <1>5, <1>6, <3>1 DEF IsPast
      <4>3. ~(b = at[1] /\ i = at[2])
        BY <1>1, <3>1 DEF Current
      <4> QED BY <1>4, <4>1, <4>2, <4>3 DEF IsPast
    <3> QED BY <1>1, <1>2, <2>1, <3>1 DEF WrittenInv
  <2> QED BY <2>6, <2>7, <2>8
<1> QED BY <1>1, <1>3, <1>7, <1>8, <1>9, StepKeeps DEF Running

LEMMA ReturnFromFunctionKeeps ==
  ASSUME NoEmptyObjects, func.used = <<>>, IInv, ReturnFromFunction
  PROVE  FrameAndCodeInv'
<1>1. /\ pc = "run" /\ pc' = "returned" /\ Current.op = "ret" /\ UNCHANGED compiled
      /\ at' = at /\ sp' = sp /\ lr' = lr /\ mem' = mem /\ seen' = seen
  BY DEF ReturnFromFunction, machine
<1>2. /\ func' = func /\ frame' = frame /\ blocks' = blocks
      /\ Adjustment' = Adjustment /\ LinkOffset' = LinkOffset /\ IsSkipped' = IsSkipped
  BY <1>1, CompiledStays DEF Running
<1>3. AtEnd'
  BY <1>1, <1>2, CurrentFacts DEF AtEnd
<1>4. RunInv
  BY DEF IInv, FrameAndCodeInv
<1>5. /\ at' \in Nat \X Nat /\ at'[1] \in DOMAIN blocks' /\ at'[2] \in DOMAIN blocks'[at'[1]]
      /\ LocalsKeepTheirValues' /\ (IsSkipped => sp' = 0)
  BY <1>1, <1>2, <1>4 DEF RunInv, Running, LocalsKeepTheirValues
<1>6. ASSUME ~IsSkipped
      PROVE  StackInv' /\ LinkInv' /\ WrittenInv'
  <2>1. StackInv /\ LinkInv /\ WrittenInv
    BY <1>1, <1>4, <1>6 DEF RunInv, Running
  <2>2. AtEnd' <=> AtEnd
    BY <1>1, <1>2 DEF AtEnd
  <2>3. LinkBytes' = LinkBytes
    BY <1>2 DEF LinkBytes
  <2>4. StackInv'
    BY <1>1, <1>2, <2>1, <2>2 DEF StackInv
  <2>5. LinkInv'
    BY <1>1, <1>2, <2>1, <2>3 DEF LinkInv, IsPast
  <2>6. WrittenInv'
    BY <1>1, <1>2, <2>1 DEF WrittenInv, IsPast
  <2> QED BY <2>4, <2>5, <2>6
<1> QED BY <1>1, <1>3, <1>5, <1>6, StepKeeps DEF Running

-----------------------------------------------------------------------------
(* The invariant, and what follows from it *)

LEMMA InitIInv == Init => IInv
<1> SUFFICES ASSUME Init PROVE IInv
  OBVIOUS
<1>1. /\ func \in Functions /\ pc = "push" /\ frame = EmptyFrame /\ blocks = func.blocks
      /\ DOMAIN slotOf = CalleeSaved \cup {LinkRegister} /\ AtStart
  BY DEF Init, AtStart
<1>2. Layout(frame)
  BY <1>1, EmptyLayout
<1>3. PushInv
  <2>1. DOMAIN frame.slots = {} /\ frame.size = 0
    BY <1>1 DEF EmptyFrame
  <2>2. IsFiniteSet(DOMAIN frame.slots) /\ Cardinality(DOMAIN frame.slots) = 0
    BY <2>1, FS_EmptySet
  <2>3. Len(func.slots) \in Nat
    BY <1>1, FunctionFacts DEF SlotsAssumption
  <2>4. Largest(func) \in Nat
    BY <1>1, LargestFacts
  <2>5. 0 <= 0 * (2 * Largest(func))
    BY <2>4
  <2>6. {func.slots[s].id : s \in 1..0} = {}
    OBVIOUS
  <2> QED BY <1>1, <2>1, <2>2, <2>3, <2>5, <2>6 DEF PushInv
<1>4. FrameInv /\ CodeInv /\ RunInv
  BY <1>1 DEF FrameInv, CodeInv, RunInv, Running
<1> QED BY <1>1, <1>2, <1>3, <1>4 DEF IInv, FrameAndCodeInv, Phases, Compiling

\* The function is chosen once; the map of the slots keeps its registers.
LEMMA StepKeepsTypes ==
  ASSUME IInv, [Next]_vars
  PROVE  func' = func /\ pc' \in Phases /\ DOMAIN slotOf' = CalleeSaved \cup {LinkRegister}
<1>1. func' = func
  BY DEF Next, vars, machine, compiled, PushObject, LowerStackAccesses, SkipFunction,
         StartInsertion, SlotOfCalleeSavedIsTaken, InsertCalleeSavedSlot,
         InsertLinkRegisterSlot, FrameTooLarge, InsertStackAdjustmentUpward,
         InsertLinkRegisterSave, SlotOfCalleeSavedIsMissing, NothingToSpill,
         InsertLinkRegisterReload, InsertStackAdjustmentDownward, AdjustSP, SaveLR,
         ReloadLR, WriteObject, ReadObject, CallFunction, JumpToNextBlock,
         ReturnFromFunction, Terminated
<1>2. pc \in Phases
  BY DEF IInv
<1>3. pc' \in Phases
  BY <1>2
     DEF Phases, Compiling, Running, Next, vars, machine, compiled, PushObject,
         LowerStackAccesses, SkipFunction, StartInsertion, SlotOfCalleeSavedIsTaken,
         InsertCalleeSavedSlot, InsertLinkRegisterSlot, FrameTooLarge,
         InsertStackAdjustmentUpward, InsertLinkRegisterSave,
         SlotOfCalleeSavedIsMissing, NothingToSpill, InsertLinkRegisterReload,
         InsertStackAdjustmentDownward, AdjustSP, SaveLR, ReloadLR, WriteObject,
         ReadObject, CallFunction, JumpToNextBlock, ReturnFromFunction, Terminated
<1>4. DOMAIN slotOf' = DOMAIN slotOf
  BY DEF Next, vars, machine, compiled, PushObject, LowerStackAccesses, SkipFunction,
         StartInsertion, SlotOfCalleeSavedIsTaken, InsertCalleeSavedSlot,
         InsertLinkRegisterSlot, FrameTooLarge, InsertStackAdjustmentUpward,
         InsertLinkRegisterSave, SlotOfCalleeSavedIsMissing, NothingToSpill,
         InsertLinkRegisterReload, InsertStackAdjustmentDownward, AdjustSP, SaveLR,
         ReloadLR, WriteObject, ReadObject, CallFunction, JumpToNextBlock,
         ReturnFromFunction, Terminated
<1> QED BY <1>1, <1>3, <1>4 DEF IInv

\* The insertion gives up on a function that uses callee-saved registers before
\* it has finished its code.
LEMMA SpillingStep ==
  ASSUME func.used # <<>>, IInv, [Next]_vars
  PROVE  /\ pc' \in {"push", "frame", "slots", "adjust", "save", "spill", "aborted"}
         /\ AtStart'
<1>1. pc \in {"push", "frame", "slots", "adjust", "save", "spill", "aborted"} /\ AtStart
  BY DEF IInv
<1>2. ~HasNothingToAdjust
  BY DEF HasNothingToAdjust
<1>3. UNCHANGED machine
  BY <1>1
     DEF Next, vars, machine, PushObject, LowerStackAccesses, SkipFunction,
         StartInsertion, SlotOfCalleeSavedIsTaken, InsertCalleeSavedSlot,
         InsertLinkRegisterSlot, FrameTooLarge, InsertStackAdjustmentUpward,
         InsertLinkRegisterSave, SlotOfCalleeSavedIsMissing, NothingToSpill,
         InsertLinkRegisterReload, InsertStackAdjustmentDownward, AdjustSP, SaveLR,
         ReloadLR, WriteObject, ReadObject, CallFunction, JumpToNextBlock,
         ReturnFromFunction, Terminated
<1>4. pc' \in {"push", "frame", "slots", "adjust", "save", "spill", "aborted"}
  BY <1>1, <1>2
     DEF Next, vars, machine, PushObject, LowerStackAccesses, SkipFunction,
         StartInsertion, SlotOfCalleeSavedIsTaken, InsertCalleeSavedSlot,
         InsertLinkRegisterSlot, FrameTooLarge, InsertStackAdjustmentUpward,
         InsertLinkRegisterSave, SlotOfCalleeSavedIsMissing, NothingToSpill,
         InsertLinkRegisterReload, InsertStackAdjustmentDownward, AdjustSP, SaveLR,
         ReloadLR, WriteObject, ReadObject, CallFunction, JumpToNextBlock,
         ReturnFromFunction, Terminated
<1> QED BY <1>1, <1>3, <1>4 DEF AtStart, machine

\* Every step of another function keeps the invariant.
LEMMA FinishingStep ==
  ASSUME NoEmptyObjects, func.used = <<>>, IInv, [Next]_vars
  PROVE  FrameAndCodeInv'
<1>1. CASE PushObject
  BY <1>1, PushObjectKeeps
<1>2. CASE LowerStackAccesses
  BY <1>2, LowerStackAccessesKeeps
<1>3. CASE SkipFunction
  BY <1>3, SkipFunctionKeeps
<1>4. CASE StartInsertion
  BY <1>4, StartInsertionKeeps
<1>5. CASE SlotOfCalleeSavedIsTaken \/ InsertCalleeSavedSlot
  <2>1. pc = "slots" /\ HasNextUsed
    BY <1>5 DEF SlotOfCalleeSavedIsTaken, InsertCalleeSavedSlot
  <2>2. next = FirstSlot
    BY <2>1 DEF IInv, FrameAndCodeInv, FrameInv
  <2>3. ~HasNextUsed
    BY <2>2, RegisterAssumption DEF HasNextUsed
  <2> QED BY <2>1, <2>3
<1>6. CASE InsertLinkRegisterSlot
  BY <1>6, InsertLinkRegisterSlotKeeps
<1>7. CASE FrameTooLarge
  BY <1>7, FrameTooLargeKeeps
<1>8. CASE InsertStackAdjustmentUpward
  BY <1>8, InsertStackAdjustmentUpwardKeeps
<1>9. CASE InsertLinkRegisterSave
  BY <1>9, InsertLinkRegisterSaveKeeps
<1>10. CASE SlotOfCalleeSavedIsMissing
  BY <1>10 DEF SlotOfCalleeSavedIsMissing
<1>11. CASE NothingToSpill
  BY <1>11, NothingToSpillKeeps
<1>12. CASE InsertLinkRegisterReload
  BY <1>12, InsertLinkRegisterReloadKeeps
<1>13. CASE InsertStackAdjustmentDownward
  BY <1>13, InsertStackAdjustmentDownwardKeeps
<1>14. CASE AdjustSP
  BY <1>14, AdjustSPKeeps
<1>15. CASE SaveLR
  BY <1>15, SaveLRKeeps
<1>16. CASE ReloadLR
  BY <1>16, ReloadLRKeeps
<1>17. CASE WriteObject
  BY <1>17, WriteObjectKeeps
<1>18. CASE ReadObject
  BY <1>18, ReadObjectKeeps
<1>19. CASE CallFunction
  BY <1>19, CallFunctionKeeps
<1>20. CASE JumpToNextBlock
  BY <1>20, JumpToNextBlockKeeps
<1>21. CASE ReturnFromFunction
  BY <1>21, ReturnFromFunctionKeeps
<1>22. CASE Terminated \/ UNCHANGED vars
  <2>1. /\ func' = func /\ pc' = pc /\ frame' = frame /\ slotOf' = slotOf /\ next' = next
        /\ blocks' = blocks
        /\ at' = at /\ sp' = sp /\ lr' = lr /\ mem' = mem /\ seen' = seen
    BY <1>22 DEF Terminated, vars, machine
  <2>2. /\ Adjustment' = Adjustment /\ LinkOffset' = LinkOffset
        /\ HasNothingToAdjust' = HasNothingToAdjust
    BY <2>1 DEF Adjustment, LinkOffset, HasNothingToAdjust
  <2>3. IsSkipped' = IsSkipped /\ HasLinkSlot' = HasLinkSlot
    BY <2>1, <2>2 DEF IsSkipped, HasLinkSlot
  <2>4. PrologueLength' = PrologueLength /\ EpilogueLength' = EpilogueLength
    BY <2>1, <2>3 DEF PrologueLength, EpilogueLength
  <2>5. Layout(frame) /\ PushInv /\ FrameInv /\ CodeInv /\ RunInv
    BY DEF IInv, FrameAndCodeInv
  <2>6. Layout(frame)' /\ PushInv' /\ FrameInv' /\ CodeInv'
    BY <2>1, <2>2, <2>3, <2>4, <2>5 DEF PushInv, FrameInv, CodeInv
  <2>7. AtStart' <=> AtStart
    BY <2>1 DEF AtStart
  <2>8. AtEnd' <=> AtEnd
    BY <2>1 DEF AtEnd
  <2>9. StackInv' <=> StackInv
    BY <2>1, <2>2, <2>8 DEF StackInv
  <2>10. LinkInv' <=> LinkInv
    BY <2>1, <2>2 DEF LinkInv, LinkBytes, IsPast
  <2>11. WrittenInv' <=> WrittenInv
    BY <2>1, <2>2 DEF WrittenInv, IsPast
  <2>12. RunInv'
    BY <2>1, <2>3, <2>5, <2>7, <2>8, <2>9, <2>10, <2>11 DEF RunInv, LocalsKeepTheirValues
  <2> QED BY <2>6, <2>12 DEF FrameAndCodeInv
<1> QED BY <1>1, <1>2, <1>3, <1>4, <1>5, <1>6, <1>7, <1>8, <1>9, <1>10, <1>11, <1>12,
           <1>13, <1>14, <1>15, <1>16, <1>17, <1>18, <1>19, <1>20, <1>21, <1>22
        DEF Next

\* The invariant is inductive.
LEMMA NextIInv ==
  ASSUME NoEmptyObjects
  PROVE  IInv /\ [Next]_vars => IInv'
<1> SUFFICES ASSUME IInv, [Next]_vars PROVE IInv'
  OBVIOUS
<1>1. func' = func /\ pc' \in Phases /\ DOMAIN slotOf' = CalleeSaved \cup {LinkRegister}
  BY StepKeepsTypes
<1>2. func.used # <<>> =>
        /\ pc' \in {"push", "frame", "slots", "adjust", "save", "spill", "aborted"}
        /\ AtStart'
  BY SpillingStep
<1>3. func.used = <<>> => FrameAndCodeInv'
  BY FinishingStep
<1>4. func \in Functions
  BY DEF IInv
<1> QED BY <1>1, <1>2, <1>3, <1>4 DEF IInv

\* The invariant holds of every function whose objects have a size.
LEMMA InvariantIInv ==
  ASSUME NoEmptyObjects
  PROVE  Spec => []IInv
<1>1. IInv /\ [Next]_vars => IInv'
  BY NextIInv
<1> QED BY <1>1, InitIInv, PTL DEF Spec

\* Two objects of a frame never share a byte: in the order of their numbers each
\* starts where the one before it has ended.
THEOREM ObjectsAreDisjoint ==
  ASSUME NoEmptyObjects
  PROVE  Spec => []ObjectsDisjoint
<1>1. IInv => ObjectsDisjoint
  <2> SUFFICES ASSUME IInv, func.used = <<>>,
                      NEW i \in DOMAIN frame.slots, NEW j \in DOMAIN frame.slots, i # j
               PROVE  Bytes(frame, i) \cap Bytes(frame, j) = {}
    BY DEF ObjectsDisjoint, SavesNoRegister
  <2>1. Layout(frame)
    BY DEF IInv, FrameAndCodeInv
  <2>2. i \in Nat /\ j \in Nat
    BY <2>1, WordAssumption DEF Layout
  <2>3. \/ GetPosition(frame, i) + frame.slots[i] <= GetPosition(frame, j)
        \/ GetPosition(frame, j) + frame.slots[j] <= GetPosition(frame, i)
    BY <2>1, <2>2 DEF Layout
  <2>4. /\ GetPosition(frame, i) \in Nat /\ GetPosition(frame, j) \in Nat
        /\ frame.slots[i] \in Nat /\ frame.slots[j] \in Nat
    BY <2>1 DEF Layout
  <2> QED BY <2>3, <2>4 DEF Bytes
<1> QED BY <1>1, InvariantIInv, PTL

\* The size that was added up while pushing covers the positions that are
\* recomputed from the map, also when the slot of the link register is in it.
THEOREM FrameIsLargeEnough ==
  ASSUME NoEmptyObjects
  PROVE  Spec => []FrameCoversObjects
<1>1. IInv => FrameCoversObjects
  <2> SUFFICES ASSUME IInv, func.used = <<>>, NEW i \in DOMAIN frame.slots
               PROVE  Bytes(frame, i) \subseteq 0..(frame.size - 1)
    BY DEF FrameCoversObjects, SavesNoRegister
  <2>1. /\ frame.size \in Nat /\ frame.slots[i] \in Nat /\ GetPosition(frame, i) \in Nat
        /\ GetPosition(frame, i) + frame.slots[i] <= frame.size
    BY DEF IInv, FrameAndCodeInv, Layout
  <2> QED BY <2>1 DEF Bytes
<1> QED BY <1>1, InvariantIInv, PTL

\* The offsets the code was given when only its locals were in the frame stay
\* right when prologue insertion adds to the frame and to the code.
THEOREM OffsetsStayValid ==
  ASSUME NoEmptyObjects
  PROVE  Spec => []LoweredOffsetsStayValid
<1>1. IInv => LoweredOffsetsStayValid
  BY DEF IInv, FrameAndCodeInv, CodeInv, Code, WellPlaced, LoweredOffsetsStayValid,
         SavesNoRegister
<1> QED BY <1>1, InvariantIInv, PTL

\* What the finished code reads from a local is what it last wrote to it, across
\* calls and beside the saved link register.
THEOREM LocalsAreSafe ==
  ASSUME NoEmptyObjects
  PROVE  Spec => []LocalsKeepTheirValues
<1>1. IInv => LocalsKeepTheirValues
  BY DEF IInv, FrameAndCodeInv, RunInv, AtStart, LocalsKeepTheirValues
<1> QED BY <1>1, InvariantIInv, PTL

\* A function that has a prologue returns to its caller with SP, x30 and the
\* caller's stack as they were.
THEOREM ReturnIsSafe ==
  ASSUME NoEmptyObjects
  PROVE  Spec => []ReturnsToItsCaller
<1>1. IInv => ReturnsToItsCaller
  <2> SUFFICES ASSUME IInv, pc = "returned", ~HasNothingToAdjust
               PROVE  /\ sp = 0 /\ lr = CallerOwned
                      /\ \A a \in CallerBytes : mem[a] = CallerOwned
    BY DEF ReturnsToItsCaller
  <2>1. func.used = <<>> /\ ~IsSkipped
    BY DEF IInv, IsSkipped
  <2>2. StackInv /\ LinkInv /\ AtEnd /\ Code(func, frame, blocks)
    BY <2>1 DEF IInv, FrameAndCodeInv, RunInv, CodeInv, Running
  <2>3. Len(blocks[Len(blocks)]) \in Nat
    BY <2>2, FirstInstruction
  <2>4. at[1] = Len(blocks) /\ at[2] = Len(blocks[Len(blocks)])
    BY <2>2 DEF AtEnd
  <2>5. lr = CallerOwned
    BY <2>2, <2>3, <2>4 DEF LinkInv
  <2> QED BY <2>2, <2>5 DEF StackInv
<1> QED BY <1>1, InvariantIInv, PTL

\* Every call finds SP aligned as the ABI demands: the adjustment is a multiple of
\* the alignment, and a function that calls without a prologue never moves SP.
THEOREM CallsAreAligned ==
  ASSUME NoEmptyObjects
  PROVE  Spec => []CallsWithAlignedStack
<1>1. IInv => CallsWithAlignedStack
  <2> SUFFICES ASSUME IInv, pc = "run", Current.op = "call"
               PROVE  sp % 16 = 0
    BY RegisterAssumption DEF CallsWithAlignedStack
  <2>1. func.used = <<>>
    BY DEF IInv
  <2>2. RunInv
    BY <2>1 DEF IInv, FrameAndCodeInv
  <2>3. CASE IsSkipped
    BY <2>2, <2>3 DEF RunInv, Running
  <2>4. CASE ~IsSkipped
    <3>1. StackInv
      BY <2>2, <2>4 DEF RunInv, Running
    <3>2. at # <<1, 1>>
      BY <2>1, <2>4, PrologueFacts DEF FrameOps
    <3>3. ~AtEnd
      BY <2>1, CurrentFacts
    <3>4. Adjustment \in Nat /\ Adjustment % 16 = 0
      BY <2>1, FrameFacts
    <3>5. sp = -Adjustment
      BY <3>1, <3>2, <3>3 DEF StackInv
    <3> QED BY <3>4, <3>5
  <2> QED BY <2>3, <2>4
<1> QED BY <1>1, InvariantIInv, PTL
=============================================================================
