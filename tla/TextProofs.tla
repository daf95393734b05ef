----------------------------- MODULE TextProofs -----------------------------
(***************************************************************************)
(* Proofs about texts of any length: what is written as the decimal digits *)
(* of a number is read as that number, and does not begin with a zero; and *)
(* a text that is put together of parts with separators between them is    *)
(* taken apart into those parts.                                           *)
(*                                                                         *)
(* Induction is over sets of numbers here.  It rests on the pigeonhole     *)
(* principle: a set with 0 and all successors, but without some n, would   *)
(* map the numbers up to n that are in it into those above 0.              *)
(***************************************************************************)
EXTENDS Text, TLAPS, FiniteSetTheorems, SequenceTheorems

-----------------------------------------------------------------------------
(* Induction and recursion on the natural numbers *)

\* A set with 0 and the successor of each number in it has all natural numbers.
LEMMA SetInduction ==
  ASSUME NEW S, 0 \in S, \A i \in Nat : i \in S => i + 1 \in S
  PROVE  Nat \subseteq S
<1> SUFFICES ASSUME NEW n \in Nat, n \notin S
             PROVE  FALSE
  OBVIOUS
<1> DEFINE U == {i \in 0..n : i \in S}
           next == [i \in U |-> i + 1]
<1>1. /\ IsFiniteSet(U) /\ IsFiniteSet(U \ {0})
      /\ Cardinality(U) \in Nat /\ Cardinality(U \ {0}) = Cardinality(U) - 1
  <2>1. IsFiniteSet(0..n)
    BY FS_Interval
  <2>2. IsFiniteSet(U)
    BY <2>1, FS_Subset
  <2>3. 0 \in U
    OBVIOUS
  <2> HIDE DEF U
  <2> QED
    BY <2>2, <2>3, FS_RemoveElement, FS_CardinalityType
<1>2. next \in [U -> U \ {0}]
  OBVIOUS
<1>3. \A i, j \in U : i # j => next[i] # next[j]
  OBVIOUS
<1>4. Cardinality(U \ {0}) < Cardinality(U)
  BY <1>1
<1> HIDE DEF U, next
<1>5. \E i, j \in U : i # j /\ next[i] = next[j]
  BY <1>1, <1>2, <1>4, FS_PigeonHole
<1> QED
  BY <1>3, <1>5

\* Induction on all smaller numbers.
LEMMA StrongInduction ==
  ASSUME NEW S, \A n \in Nat : (\A i \in 0..(n - 1) : i \in S) => n \in S
  PROVE  Nat \subseteq S
<1> DEFINE T == {n \in Nat : \A i \in 0..n : i \in S}
<1>1. 0 \in T
  OBVIOUS
<1>2. \A n \in Nat : n \in T => n + 1 \in T
  <2> SUFFICES ASSUME NEW n \in Nat, n \in T
               PROVE  n + 1 \in S
    OBVIOUS
  <2> QED
    OBVIOUS
<1> HIDE DEF T
<1>3. Nat \subseteq T
  BY <1>1, <1>2, SetInduction
<1> USE DEF T
<1> QED
  BY <1>3

\* A function on the naturals is defined by its values at base and, elsewhere, by its value
\* at a smaller number.
Recursion(V, base, start, before, next) ==
  \E f \in [Nat -> V] :
    \A n \in Nat : f[n] = IF n \in base THEN start[n] ELSE next[n][f[before[n]]]

\* There is such a function, if the smaller numbers are smaller.
LEMMA RecursionExists ==
  ASSUME NEW V, NEW base \in SUBSET Nat, 0 \in base, NEW start \in [base -> V],
         NEW before \in [Nat -> Nat], \A n \in Nat \ base : before[n] < n,
         NEW next \in [Nat -> [V -> V]]
  PROVE  Recursion(V, base, start, before, next)
<1> DEFINE Step(g, n)  == IF n \in base THEN start[n] ELSE next[n][g[before[n]]]
           Upto(g, m)  == g \in [0..m -> V] /\ \A n \in 0..m : g[n] = Step(g, n)
           Part(m)     == CHOOSE g : Upto(g, m)
<1>1. \A n \in Nat : n \in base \/ before[n] \in 0..(n - 1)
  OBVIOUS
<1>2. ASSUME NEW g, NEW n \in Nat, n \in base \/ g[before[n]] \in V
      PROVE  Step(g, n) \in V
  <2>1. CASE n \in base
    BY <2>1
  <2>2. CASE n \notin base
    BY <1>2, <2>2
  <2> QED
    BY <2>1, <2>2
<1>3. ASSUME NEW g, NEW h, NEW n \in Nat, n \in base \/ g[before[n]] = h[before[n]]
      PROVE  Step(g, n) = Step(h, n)
  <2>1. CASE n \in base
    BY <2>1
  <2>2. CASE n \notin base
    BY <1>3, <2>2
  <2> QED
    BY <2>1, <2>2
<1> HIDE DEF Step
<1>4. \A m \in Nat : \E g : Upto(g, m)
  <2> DEFINE S == {m \in Nat : \E g : Upto(g, m)}
  <2>1. 0 \in S
    <3> DEFINE g == [n \in 0..0 |-> start[0]]
    <3>1. g \in [0..0 -> V] /\ 0..0 = {0} /\ g[0] = start[0]
      OBVIOUS
    <3>2. Step(g, 0) = start[0]
      BY DEF Step
    <3> HIDE DEF g
    <3>3. Upto(g, 0)
      BY <3>1, <3>2
    <3> QED
      BY <3>3
  <2>2. ASSUME NEW m \in Nat, m \in S
        PROVE  m + 1 \in S
    <3>1. PICK g : Upto(g, m)
      BY <2>2
    <3> DEFINE h == [n \in 0..(m + 1) |-> IF n = m + 1 THEN Step(g, n) ELSE g[n]]
    <3>2. g \in [0..m -> V] /\ \A n \in 0..m : g[n] = Step(g, n)
      BY <3>1
    <3>3. Step(g, m + 1) \in V
      <4>1. m + 1 \in base \/ before[m + 1] \in 0..m
        BY <1>1
      <4> QED
        BY <1>2, <3>2, <4>1
    <3>4. h \in [0..(m + 1) -> V]
      BY <3>2, <3>3
    <3>5. \A n \in 0..(m + 1) : h[n] = Step(g, n)
      BY <3>2
    <3>6. \A n \in 0..m : h[n] = g[n]
      OBVIOUS
    <3> HIDE DEF h
    <3>7. ASSUME NEW n \in 0..(m + 1)
          PROVE  Step(h, n) = Step(g, n)
      <4>1. n \in base \/ before[n] \in 0..m
        BY <1>1
      <4> QED
        BY <1>3, <3>6, <4>1
    <3>8. Upto(h, m + 1)
      BY <3>4, <3>5, <3>7
    <3> HIDE DEF Upto
    <3>9. m + 1 \in Nat /\ \E k : Upto(k, m + 1)
      BY <3>8
    <3> QED
      BY <3>9
  <2> HIDE DEF S, Upto
  <2>3. Nat \subseteq S
    BY <2>1, <2>2, SetInduction
  <2> QED
    BY <2>3 DEF S
<1>5. ASSUME NEW m \in Nat, NEW k \in 0..m, NEW g, NEW h, Upto(g, m), Upto(h, k)
      PROVE  \A n \in 0..k : g[n] = h[n]
  <2> DEFINE S == {n \in Nat : n \in 0..k => g[n] = h[n]}
  <2>1. ASSUME NEW n \in Nat, \A i \in 0..(n - 1) : i \in S
        PROVE  n \in S
    <3> SUFFICES ASSUME n \in 0..k
                 PROVE  g[n] = h[n]
      OBVIOUS
    <3>1. n \in base \/ g[before[n]] = h[before[n]]
      <4>1. n \in base \/ before[n] \in 0..(n - 1)
        BY <1>1
      <4> QED
        BY <2>1, <4>1
    <3>2. Step(g, n) = Step(h, n)
      BY <1>3, <3>1
    <3>3. g[n] = Step(g, n) /\ h[n] = Step(h, n)
      BY <1>5, SMTT(30)
    <3> QED
      BY <3>2, <3>3
  <2> HIDE DEF S, Upto
  <2>2. Nat \subseteq S
    BY <2>1, StrongInduction
  <2> QED
    BY <2>2 DEF S
<1>6. \A m \in Nat : Upto(Part(m), m)
  <2> HIDE DEF Upto
  <2> SUFFICES ASSUME NEW m \in Nat
               PROVE  Upto(Part(m), m)
    OBVIOUS
  <2>1. \E g : Upto(g, m)
    BY <1>4
  <2> QED
    BY <2>1, Zenon
<1> DEFINE f == [m \in Nat |-> Part(m)[m]]
<1>7. ASSUME NEW n \in Nat
      PROVE  Part(n)[n] \in V /\ Part(n)[n] = Step(Part(n), n)
  <2> HIDE DEF Part
  <2>1. Upto(Part(n), n)
    BY <1>6
  <2> QED
    BY <2>1
<1>8. f \in [Nat -> V]
  <2> HIDE DEF Part
  <2> QED
    BY <1>7
<1>9. ASSUME NEW n \in Nat
      PROVE  f[n] = Step(f, n)
  <2> HIDE DEF Part, Upto
  <2>1. f[n] = Step(Part(n), n)
    BY <1>7
  <2>2. n \in base \/ Part(n)[before[n]] = f[before[n]]
    <3>1. CASE n \notin base
      <4>1. before[n] \in 0..n
        BY <1>1, <3>1
      <4>2. Part(n)[before[n]] = Part(before[n])[before[n]]
        BY <1>5, <1>6, <4>1
      <4> QED
        BY <4>1, <4>2
    <3> QED
      BY <3>1
  <2> HIDE DEF f
  <2> QED
    BY <1>3, <2>1, <2>2
<1> HIDE DEF f
<1> QED
  BY <1>8, <1>9 DEF Step, Recursion

-----------------------------------------------------------------------------
(* Numbers in decimal digits *)

\* The symbols of digits.
DigitSet == {Digits[d] : d \in 1..10}

\* There are ten digits, each with its value.
LEMMA DigitsDiffer ==
  /\ DigitSet = {"0", "1", "2", "3", "4", "5", "6", "7", "8", "9"}
  /\ \A d \in 1..10 : Digits[d] \in DigitSet /\ DigitValue(Digits[d]) = d - 1
  /\ \A c : IsDigit(c) <=> c \in DigitSet
<1>1. /\ Digits[1] = "0" /\ Digits[2] = "1" /\ Digits[3] = "2" /\ Digits[4] = "3" /\ Digits[5] = "4"
      /\ Digits[6] = "5" /\ Digits[7] = "6" /\ Digits[8] = "7" /\ Digits[9] = "8" /\ Digits[10] = "9"
  BY DEF Digits
<1>0. \A d, e \in 1..10 : Digits[d] = Digits[e] => d = e
  BY <1>1
<1>2. DigitSet = {"0", "1", "2", "3", "4", "5", "6", "7", "8", "9"}
  BY <1>1 DEF DigitSet
<1>3. \A d \in 1..10 : Digits[d] \in DigitSet /\ DigitValue(Digits[d]) = d - 1
  BY <1>0 DEF DigitSet, DigitValue
<1>4. \A c : IsDigit(c) <=> c \in DigitSet
  BY DEF IsDigit, DigitSet
<1> QED
  BY <1>2, <1>3, <1>4

\* Decimal is defined for every number, and gives digits.
LEMMA DecimalIs ==
  /\ Decimal \in [Nat -> Seq(DigitSet)]
  /\ \A n \in Nat : Decimal[n] = IF n < 10 THEN <<Digits[n + 1]>>
                                 ELSE Append(Decimal[n \div 10], Digits[(n % 10) + 1])
<1> DEFINE V      == Seq(DigitSet)
           base   == 0..9
           start  == [n \in base |-> <<Digits[n + 1]>>]
           before == [n \in Nat |-> n \div 10]
           next   == [n \in Nat |-> [s \in V |-> Append(s, Digits[(n % 10) + 1])]]
<1>1. \A n \in Nat : n \div 10 \in Nat /\ (n % 10) + 1 \in 1..10 /\ (n \notin base => n \div 10 < n)
  OBVIOUS
<1>2. start \in [base -> V]
  BY DigitsDiffer
<1>3. next \in [Nat -> [V -> V]]
  BY <1>1, DigitsDiffer
<1>4. before \in [Nat -> Nat] /\ \A n \in Nat \ base : before[n] < n
  BY <1>1
<1>5. base \in SUBSET Nat /\ 0 \in base
  OBVIOUS
<1>6. \A n \in base : start[n] = <<Digits[n + 1]>>
  OBVIOUS
<1>7. \A s \in V, n \in Nat : next[n][s] = Append(s, Digits[(n % 10) + 1])
  OBVIOUS
<1>8. \A n \in Nat : before[n] = n \div 10 /\ (n \in base <=> n < 10)
  OBVIOUS
<1> HIDE DEF V, base, start, before, next
<1>9. PICK f \in [Nat -> V] :
        \A n \in Nat : f[n] = IF n \in base THEN start[n] ELSE next[n][f[before[n]]]
  <2>1. \A n \in Nat \ base : before[n] < n
    BY <1>4
  <2>2. before \in [Nat -> Nat]
    BY <1>4
  <2>3. base \in SUBSET Nat
    BY <1>5
  <2>4. 0 \in base
    BY <1>5
  <2>5. Recursion(V, base, start, before, next)
    BY <1>2, <1>3, <2>1, <2>2, <2>3, <2>4, RecursionExists
  <2> QED
    BY <2>5 DEF Recursion
<1>10. f = [n \in Nat |-> IF n < 10 THEN <<Digits[n + 1]>>
                         ELSE Append(f[n \div 10], Digits[(n % 10) + 1])]
  <2>1. ASSUME NEW n \in Nat
        PROVE  f[n] = IF n < 10 THEN <<Digits[n + 1]>> ELSE Append(f[n \div 10], Digits[(n % 10) + 1])
    <3>1. CASE n < 10
      BY <1>6, <1>8, <1>9, <3>1
    <3>2. CASE ~(n < 10)
      <4>1. f[n \div 10] \in V
        BY <1>1
      <4>2. f[n] = next[n][f[n \div 10]]
        BY <1>8, <1>9, <3>2
      <4> QED
        BY <1>7, <3>2, <4>1, <4>2
    <3> QED
      BY <3>1, <3>2
  <2> QED
    BY <1>9, <2>1
<1>11. Decimal = [n \in Nat |-> IF n < 10 THEN <<Digits[n + 1]>>
                               ELSE Append(Decimal[n \div 10], Digits[(n % 10) + 1])]
  BY <1>10, Zenon DEF Decimal
<1>12. ASSUME NEW n \in Nat
       PROVE  Decimal[n] = IF n < 10 THEN <<Digits[n + 1]>>
                           ELSE Append(Decimal[n \div 10], Digits[(n % 10) + 1])
  BY <1>11
<1> DEFINE S == {n \in Nat : Decimal[n] \in Seq(DigitSet)}
<1>13. ASSUME NEW n \in Nat, \A i \in 0..(n - 1) : i \in S
       PROVE  n \in S
  <2>1. CASE n < 10
    <3>1. n + 1 \in 1..10
      BY <2>1
    <3>2. Digits[n + 1] \in DigitSet
      BY <3>1, DigitsDiffer
    <3>3. Decimal[n] = <<Digits[n + 1]>>
      BY <1>12, <2>1
    <3>4. <<Digits[n + 1]>> \in Seq(DigitSet)
      BY <3>2
    <3>5. Decimal[n] \in Seq(DigitSet)
      BY <3>3, <3>4
    <3> QED
      BY <3>5
  <2>2. CASE ~(n < 10)
    <3>1. n \div 10 \in 0..(n - 1) /\ (n % 10) + 1 \in 1..10
      BY <2>2
    <3>2. Decimal[n \div 10] \in Seq(DigitSet)
      BY <1>13, <3>1
    <3>3. Digits[(n % 10) + 1] \in DigitSet
      BY <3>1, DigitsDiffer
    <3>4. Decimal[n] = Append(Decimal[n \div 10], Digits[(n % 10) + 1])
      BY <1>12, <2>2
    <3>5. Append(Decimal[n \div 10], Digits[(n % 10) + 1]) \in Seq(DigitSet)
      BY <3>2, <3>3
    <3>6. Decimal[n] \in Seq(DigitSet)
      BY <3>4, <3>5
    <3> QED
      BY <3>6
  <2> QED
    BY <2>1, <2>2
<1> HIDE DEF S
<1>14. Nat \subseteq S
  BY <1>13, StrongInduction
<1> USE DEF S
<1>15. Decimal \in [Nat -> Seq(DigitSet)]
  BY <1>11, <1>14
<1> QED
  BY <1>12, <1>15

-----------------------------------------------------------------------------
(* Numbers read from digits *)

\* v[i] is the number that the first i digits of s stand for.
ReadsAs(s, v) ==
  /\ v \in [0..Len(s) -> Nat] /\ v[0] = 0
  /\ \A i \in 1..Len(s) : v[i] = 10 * v[i - 1] + DigitValue(s[i])

\* The value of a digit is below ten.
LEMMA DigitValueType == \A c \in DigitSet : DigitValue(c) \in 0..9
BY DigitsDiffer DEF DigitSet

\* What the first digits stand for depends on them only.
LEMMA ReadsUnique ==
  ASSUME NEW s \in Seq(DigitSet), NEW t \in Seq(DigitSet), NEW v, NEW w, ReadsAs(s, v), ReadsAs(t, w),
         Len(t) <= Len(s), \A i \in 1..Len(t) : s[i] = t[i]
  PROVE  v[Len(t)] = w[Len(t)]
<1> DEFINE S == {i \in Nat : i <= Len(t) => v[i] = w[i]}
<1>1. 0 \in S
  BY DEF ReadsAs
<1>2. ASSUME NEW i \in Nat, i \in S
      PROVE  i + 1 \in S
  <2> SUFFICES ASSUME i + 1 <= Len(t)
               PROVE  v[i + 1] = w[i + 1]
    OBVIOUS
  <2>1. i + 1 \in 1..Len(t) /\ i + 1 \in 1..Len(s) /\ (i + 1) - 1 = i
    OBVIOUS
  <2>2. v[i] = w[i]
    BY <1>2
  <2> QED
    BY <2>1, <2>2 DEF ReadsAs
<1> HIDE DEF S
<1>3. Nat \subseteq S
  BY <1>1, <1>2, SetInduction
<1> QED
  BY <1>3 DEF S

\* NumberOf reads digit by digit.
LEMMA NumberOfReads ==
  ASSUME NEW s \in Seq(DigitSet)
  PROVE  \E v : ReadsAs(s, v) /\ NumberOf(s) = v[Len(s)]
<1> DEFINE add(n) == IF n \in 1..Len(s) THEN DigitValue(s[n]) ELSE 0
           base   == {0}
           start  == [n \in base |-> 0]
           before == [n \in Nat |-> IF n = 0 THEN 0 ELSE n - 1]
           next   == [n \in Nat |-> [x \in Nat |-> 10 * x + add(n)]]
<1>1. ASSUME NEW n \in Nat
      PROVE  add(n) \in Nat
  <2>1. CASE n \in 1..Len(s)
    <3>1. s[n] \in DigitSet
      BY <2>1
    <3> QED
      BY <2>1, <3>1, DigitValueType
  <2>2. CASE n \notin 1..Len(s)
    BY <2>2
  <2> QED
    BY <2>1, <2>2
<1>2. \A i \in 1..Len(s) : add(i) = DigitValue(s[i])
  OBVIOUS
<1> HIDE DEF add
<1>3. next \in [Nat -> [Nat -> Nat]]
  BY <1>1, SMTT(30)
<1>4. start \in [base -> Nat] /\ base \in SUBSET Nat /\ 0 \in base
  OBVIOUS
<1>5. before \in [Nat -> Nat] /\ \A n \in Nat \ base : before[n] < n
  OBVIOUS
<1>6. \A n \in Nat, x \in Nat : next[n][x] = 10 * x + add(n)
  OBVIOUS
<1>7. start[0] = 0 /\ \A n \in Nat : n \in base <=> n = 0
  OBVIOUS
<1>8. \A n \in Nat \ {0} : before[n] = n - 1
  OBVIOUS
<1> HIDE DEF base, start, before, next
<1>9. Recursion(Nat, base, start, before, next)
  BY <1>3, <1>4, <1>5, RecursionExists
<1>10. PICK f \in [Nat -> Nat] :
         \A n \in Nat : f[n] = IF n \in base THEN start[n] ELSE next[n][f[before[n]]]
  BY <1>9 DEF Recursion
<1>11. f[0] = 0
  BY <1>7, <1>10
<1>12. ASSUME NEW i \in 1..Len(s)
       PROVE  f[i] = 10 * f[i - 1] + DigitValue(s[i])
  <2>1. i \in Nat /\ i # 0 /\ i - 1 \in Nat
    OBVIOUS
  <2>2. f[i] = next[i][f[i - 1]]
    BY <1>7, <1>8, <1>10, <2>1
  <2>3. next[i][f[i - 1]] = 10 * f[i - 1] + add(i)
    BY <1>6, <2>1
  <2> QED
    BY <1>2, <2>2, <2>3
<1> DEFINE g == [i \in 0..Len(s) |-> f[i]]
<1>13. g = [i \in 0..Len(s) |-> IF i = 0 THEN 0 ELSE 10 * g[i - 1] + DigitValue(s[i])]
  <2>1. ASSUME NEW i \in 0..Len(s)
        PROVE  f[i] = IF i = 0 THEN 0 ELSE 10 * g[i - 1] + DigitValue(s[i])
    <3>1. CASE i = 0
      BY <1>11, <3>1
    <3>2. CASE i # 0
      <4>1. i \in 1..Len(s) /\ i - 1 \in 0..Len(s)
        BY <3>2
      <4>2. g[i - 1] = f[i - 1]
        BY <4>1
      <4> QED
        BY <1>12, <3>2, <4>1, <4>2
    <3> QED
      BY <3>1, <3>2
  <2> QED
    BY <2>1
<1> HIDE DEF g
<1> DEFINE value == CHOOSE v : v = [i \in 0..Len(s) |->
                                     IF i = 0 THEN 0 ELSE 10 * v[i - 1] + DigitValue(s[i])]
<1>14. value = [i \in 0..Len(s) |-> IF i = 0 THEN 0 ELSE 10 * value[i - 1] + DigitValue(s[i])]
  BY <1>13, Zenon
<1>15. NumberOf(s) = value[Len(s)]
  BY Zenon DEF NumberOf
<1> HIDE DEF value
<1>16. /\ DOMAIN value = 0..Len(s) /\ value[0] = 0
       /\ \A i \in 1..Len(s) : value[i] = 10 * value[i - 1] + DigitValue(s[i])
  <2>1. \A i \in 0..Len(s) : value[i] = IF i = 0 THEN 0 ELSE 10 * value[i - 1] + DigitValue(s[i])
    BY <1>14
  <2>2. DOMAIN value = 0..Len(s)
    BY <1>14
  <2>3. Len(s) \in Nat
    OBVIOUS
  <2>4. value[0] = 0
    BY <2>1, <2>3
  <2>5. ASSUME NEW i \in 1..Len(s)
        PROVE  value[i] = 10 * value[i - 1] + DigitValue(s[i])
    <3>1. i \in 0..Len(s) /\ i # 0
      BY <2>3
    <3> QED
      BY <2>1, <3>1
  <2> QED
    BY <2>2, <2>4, <2>5
<1> DEFINE S == {i \in Nat : i <= Len(s) => value[i] \in Nat}
<1>17. Nat \subseteq S
  <2>1. 0 \in S
    BY <1>16
  <2>2. ASSUME NEW i \in Nat, i \in S
        PROVE  i + 1 \in S
    <3> SUFFICES ASSUME i + 1 <= Len(s)
                 PROVE  value[i + 1] \in Nat
      OBVIOUS
    <3>1. i + 1 \in 1..Len(s) /\ (i + 1) - 1 = i
      OBVIOUS
    <3>2. value[i + 1] = 10 * value[i] + DigitValue(s[i + 1])
      BY <1>16, <3>1
    <3>3. value[i] \in Nat
      BY <2>2
    <3>4. s[i + 1] \in DigitSet
      BY <3>1
    <3>5. DigitValue(s[i + 1]) \in 0..9
      BY <3>4, DigitValueType
    <3>6. \A x \in Nat, d \in 0..9 : 10 * x + d \in Nat
      OBVIOUS
    <3>7. 10 * value[i] + DigitValue(s[i + 1]) \in Nat
      BY <3>3, <3>5, <3>6, Zenon
    <3> QED
      BY <3>2, <3>7, Zenon
  <2> HIDE DEF S
  <2> QED
    BY <2>1, <2>2, SetInduction
<1>18. \A i \in 0..Len(s) : value[i] \in Nat
  BY <1>17
<1>19. value \in [0..Len(s) -> Nat]
  BY <1>14, <1>18
<1>20. ReadsAs(s, value)
  BY <1>16, <1>19 DEF ReadsAs
<1> QED
  BY <1>15, <1>20

\* One more digit makes ten times the number, and the digit.
LEMMA NumberOfAppend ==
  ASSUME NEW s \in Seq(DigitSet), NEW c \in DigitSet
  PROVE  /\ NumberOf(s) \in Nat
         /\ NumberOf(Append(s, c)) = 10 * NumberOf(s) + DigitValue(c)
<1> DEFINE t == Append(s, c)
<1>1. t \in Seq(DigitSet) /\ Len(t) = Len(s) + 1 /\ t[Len(t)] = c /\ \A i \in 1..Len(s) : t[i] = s[i]
  OBVIOUS
<1>2. PICK v : ReadsAs(s, v) /\ NumberOf(s) = v[Len(s)]
  BY NumberOfReads
<1> HIDE DEF t
<1>3. PICK w : ReadsAs(t, w) /\ NumberOf(t) = w[Len(t)]
  BY <1>1, NumberOfReads
<1>4. w[Len(s)] = v[Len(s)]
  BY <1>1, <1>2, <1>3, ReadsUnique
<1>5. w[Len(t)] = 10 * w[Len(t) - 1] + DigitValue(t[Len(t)])
  BY <1>1, <1>3 DEF ReadsAs
<1>6. NumberOf(s) \in Nat
  BY <1>2 DEF ReadsAs
<1>7. NumberOf(t) = 10 * NumberOf(s) + DigitValue(c)
  BY <1>1, <1>2, <1>3, <1>4, <1>5
<1> QED
  BY <1>6, <1>7 DEF t

\* No digits stand for zero.
LEMMA NumberOfEmpty == NumberOf(<<>>) = 0
<1>1. <<>> \in Seq(DigitSet) /\ Len(<<>>) = 0
  OBVIOUS
<1>2. PICK v : ReadsAs(<<>>, v) /\ NumberOf(<<>>) = v[Len(<<>>)]
  BY <1>1, NumberOfReads
<1> QED
  BY <1>1, <1>2 DEF ReadsAs

\* A number is what its decimal digits say.
THEOREM NumberOfDecimal == \A n \in Nat : NumberOf(Decimal[n]) = n
<1> DEFINE S == {n \in Nat : NumberOf(Decimal[n]) = n}
<1>1. ASSUME NEW n \in Nat, \A i \in 0..(n - 1) : i \in S
      PROVE  NumberOf(Decimal[n]) = n
  <2>1. CASE n < 10
    <3>0. Decimal[n] = <<Digits[n + 1]>>
      BY <2>1, DecimalIs
    <3>1. n + 1 \in 1..10 /\ Decimal[n] = <<Digits[n + 1]>>
      BY <2>1, <3>0
    <3>2. Digits[n + 1] \in DigitSet /\ DigitValue(Digits[n + 1]) = n
      BY <3>1, DigitsDiffer
    <3>3. <<Digits[n + 1]>> = Append(<<>>, Digits[n + 1]) /\ <<>> \in Seq(DigitSet)
      OBVIOUS
    <3>4. NumberOf(Append(<<>>, Digits[n + 1])) = 10 * NumberOf(<<>>) + DigitValue(Digits[n + 1])
      BY <3>2, <3>3, NumberOfAppend
    <3> QED
      BY <3>1, <3>2, <3>3, <3>4, NumberOfEmpty
  <2>2. CASE ~(n < 10)
    <3>1. n \div 10 \in 0..(n - 1) /\ (n % 10) + 1 \in 1..10 /\ n = 10 * (n \div 10) + (n % 10)
      BY <2>2
    <3>2. Decimal[n] = Append(Decimal[n \div 10], Digits[(n % 10) + 1])
      BY <2>2, DecimalIs
    <3>3. Digits[(n % 10) + 1] \in DigitSet /\ DigitValue(Digits[(n % 10) + 1]) = n % 10
      BY <3>1, DigitsDiffer
    <3>4. Decimal[n \div 10] \in Seq(DigitSet) /\ NumberOf(Decimal[n \div 10]) = n \div 10
      BY <1>1, <3>1, DecimalIs
    <3> QED
      BY <3>1, <3>2, <3>3, <3>4, NumberOfAppend
  <2> QED
    BY <2>1, <2>2
<1> HIDE DEF S
<1>2. Nat \subseteq S
  BY <1>1, StrongInduction DEF S
<1> QED
  BY <1>2 DEF S

-----------------------------------------------------------------------------
(* Beginnings of texts, and of numbers *)

\* The first n symbols of a text.
LEMMA PrefixIs ==
  ASSUME NEW T, NEW s \in Seq(T), NEW n \in 0..Len(s)
  PROVE  /\ Prefix(s, n) \in Seq(T) /\ Len(Prefix(s, n)) = n
         /\ \A i \in 1..n : Prefix(s, n)[i] = s[i]
<1>1. \A i \in 1..n : s[i] \in T
  BY ElementOfSeq
<1>2. n \in Int /\ (1 <= n \/ n = 0)
  OBVIOUS
<1> QED
  BY <1>1, <1>2, SubSeqProperties DEF Prefix

\* The whole is its own beginning.
LEMMA PrefixWhole ==
  ASSUME NEW T, NEW s \in Seq(T)
  PROVE  Prefix(s, Len(s)) = s
<1>1. Len(s) \in 0..Len(s)
  OBVIOUS
<1> QED
  BY <1>1, PrefixIs, SeqEqual

\* One more symbol does not change the beginnings.
LEMMA PrefixAppend ==
  ASSUME NEW T, NEW s \in Seq(T), NEW c \in T, NEW n \in 0..Len(s)
  PROVE  Prefix(Append(s, c), n) = Prefix(s, n)
<1> DEFINE t == Append(s, c)
<1>1. /\ t \in Seq(T) /\ Len(t) = Len(s) + 1
      /\ \A i \in 1..Len(s) : t[i] = s[i]
  BY AppendProperties
<1> HIDE DEF t
<1>2. n \in 0..Len(t)
  BY <1>1
<1>3. /\ Prefix(s, n) \in Seq(T) /\ Len(Prefix(s, n)) = n
      /\ \A i \in 1..n : Prefix(s, n)[i] = s[i]
  BY PrefixIs
<1>4. /\ Prefix(t, n) \in Seq(T) /\ Len(Prefix(t, n)) = n
      /\ \A i \in 1..n : Prefix(t, n)[i] = t[i]
  BY <1>1, <1>2, PrefixIs
<1>5. \A i \in 1..n : Prefix(t, n)[i] = Prefix(s, n)[i]
  BY <1>1, <1>3, <1>4
<1>6. Prefix(t, n) = Prefix(s, n)
  BY <1>3, <1>4, <1>5, SeqEqual
<1> QED
  BY <1>6 DEF t

\* The number of a text of digits is a natural number.
LEMMA NumberOfType == \A s \in Seq(DigitSet) : NumberOf(s) \in Nat
<1>1. Digits[1] \in DigitSet
  BY DEF DigitSet
<1> QED
  BY <1>1, NumberOfAppend

\* The decimal digits of a number do not begin with a zero, unless it is zero.
LEMMA DecimalBegins ==
  ASSUME NEW n \in Nat \ {0}, NEW j \in 1..Len(Decimal[n])
  PROVE  NumberOf(Prefix(Decimal[n], j)) # 0
<1> DEFINE S == {i \in Nat : i # 0 => \A l \in 1..Len(Decimal[i]) : NumberOf(Prefix(Decimal[i], l)) # 0}
<1>1. ASSUME NEW i \in Nat, \A h \in 0..(i - 1) : h \in S, i # 0, NEW l \in 1..Len(Decimal[i])
      PROVE  NumberOf(Prefix(Decimal[i], l)) # 0
  <2> HIDE DEF S
  <2>1. Decimal[i] \in Seq(DigitSet) /\ NumberOf(Decimal[i]) = i
    BY DecimalIs, NumberOfDecimal
  <2>2. CASE l = Len(Decimal[i])
    <3>1. Prefix(Decimal[i], l) = Decimal[i]
      BY <2>1, <2>2, PrefixWhole
    <3> QED
      BY <1>1, <2>1, <3>1
  <2>3. CASE l # Len(Decimal[i])
    <3>1. ~(i < 10)
      <4>1. CASE i < 10
        <5>1. Decimal[i] = <<Digits[i + 1]>>
          BY <4>1, DecimalIs
        <5>2. Len(Decimal[i]) = 1
          BY <5>1
        <5> QED
          BY <2>3, <5>2
      <4> QED
        BY <4>1
    <3>2. i \div 10 \in 0..(i - 1) /\ i \div 10 # 0 /\ (i % 10) + 1 \in 1..10
      BY <3>1
    <3>3. Decimal[i] = Append(Decimal[i \div 10], Digits[(i % 10) + 1])
      BY <3>1, DecimalIs
    <3>4. Decimal[i \div 10] \in Seq(DigitSet) /\ Digits[(i % 10) + 1] \in DigitSet
      <4>1. i \div 10 \in Nat
        BY <3>2
      <4>2. Decimal[i \div 10] \in Seq(DigitSet)
        BY <4>1, DecimalIs
      <4>3. Digits[(i % 10) + 1] \in DigitSet
        BY <3>2, DigitsDiffer
      <4> QED
        BY <4>2, <4>3
    <3>5. Len(Decimal[i]) = Len(Decimal[i \div 10]) + 1
      BY <3>3, <3>4, AppendProperties
    <3>6. l \in 1..Len(Decimal[i \div 10]) /\ l \in 0..Len(Decimal[i \div 10])
      BY <2>3, <3>4, <3>5
    <3>7. Prefix(Decimal[i], l) = Prefix(Decimal[i \div 10], l)
      BY <3>3, <3>4, <3>6, PrefixAppend
    <3>8. NumberOf(Prefix(Decimal[i \div 10], l)) # 0
      BY <1>1, <3>2, <3>6 DEF S
    <3> QED
      BY <3>7, <3>8
  <2> QED
    BY <2>2, <2>3
<1>2. \A i \in Nat : (\A h \in 0..(i - 1) : h \in S) => i \in S
  BY <1>1
<1> HIDE DEF S
<1>3. Nat \subseteq S
  BY <1>2, StrongInduction
<1> QED
  BY <1>3 DEF S

-----------------------------------------------------------------------------
(* Texts put together *)

\* A text of some symbols is one of more symbols.
LEMMA MoreSymbols ==
  ASSUME NEW S, NEW T, S \subseteq T, NEW s \in Seq(S)
  PROVE  s \in Seq(T)
<1>1. \A i \in 1..Len(s) : s[i] \in T
  OBVIOUS
<1>2. s = [i \in 1..Len(s) |-> s[i]] /\ Len(s) \in Nat
  OBVIOUS
<1> QED
  BY <1>1, <1>2

\* A symbol of a text.
LEMMA SymbolOf ==
  ASSUME NEW T, NEW s \in Seq(T), NEW i \in 1..Len(s)
  PROVE  s[i] \in T
OBVIOUS

\* One text after another.
Join(s, t) == s \o t

\* It is a text.
LEMMA JoinIs ==
  ASSUME NEW T, NEW s \in Seq(T), NEW t \in Seq(T)
  PROVE  Join(s, t) \in Seq(T) /\ Len(Join(s, t)) = Len(s) + Len(t)
BY DEF Join

\* One symbol is a text.
LEMMA OneSymbol ==
  ASSUME NEW T, NEW c \in T
  PROVE  <<c>> \in Seq(T) /\ Len(<<c>>) = 1
OBVIOUS

\* Where two texts that are put together end up.
LEMMA JoinAt ==
  ASSUME NEW T, NEW s \in Seq(T), NEW t \in Seq(T)
  PROVE  /\ \A i \in 1..Len(s) : Join(s, t)[i] = s[i]
         /\ \A i \in 1..Len(t) : Join(s, t)[Len(s) + i] = t[i]
<1>1. \A i \in 1..(Len(s) + Len(t)) : Join(s, t)[i] = IF i <= Len(s) THEN s[i] ELSE t[i - Len(s)]
  BY ConcatProperties DEF Join
<1>2. Len(s) \in Nat /\ Len(t) \in Nat
  OBVIOUS
<1>3. ASSUME NEW i \in 1..Len(s)
      PROVE  Join(s, t)[i] = s[i]
  BY <1>1, <1>2
<1>4. ASSUME NEW i \in 1..Len(t)
      PROVE  Join(s, t)[Len(s) + i] = t[i]
  <2>1. Len(s) + i \in 1..(Len(s) + Len(t)) /\ ~(Len(s) + i <= Len(s)) /\ (Len(s) + i) - Len(s) = i
    BY <1>2
  <2> QED
    BY <1>1, <2>1
<1> QED
  BY <1>3, <1>4

\* Symbols may be added to the second text before or after.
LEMMA JoinAppend ==
  ASSUME NEW T, NEW s \in Seq(T), NEW t \in Seq(T), NEW x \in T
  PROVE  Join(s, Append(t, x)) = Append(Join(s, t), x)
<1> DEFINE a == Join(s, Append(t, x))
           b == Append(Join(s, t), x)
<1>1. /\ Append(t, x) \in Seq(T) /\ Len(Append(t, x)) = Len(t) + 1
      /\ \A i \in 1..Len(t) : Append(t, x)[i] = t[i]
      /\ Append(t, x)[Len(t) + 1] = x
  BY AppendProperties
<1>2. Join(s, t) \in Seq(T) /\ Len(Join(s, t)) = Len(s) + Len(t)
  BY JoinIs
<1>3. /\ a \in Seq(T) /\ Len(a) = Len(s) + (Len(t) + 1)
      /\ \A i \in 1..Len(s) : a[i] = s[i]
      /\ \A i \in 1..(Len(t) + 1) : a[Len(s) + i] = Append(t, x)[i]
  <2> DEFINE e == Append(t, x)
  <2>1. e \in Seq(T) /\ Len(e) = Len(t) + 1
    BY <1>1
  <2> HIDE DEF e
  <2>2. Join(s, e) \in Seq(T) /\ Len(Join(s, e)) = Len(s) + Len(e)
    BY <2>1, JoinIs
  <2>3. /\ \A i \in 1..Len(s) : Join(s, e)[i] = s[i]
        /\ \A i \in 1..Len(e) : Join(s, e)[Len(s) + i] = e[i]
    BY <2>1, JoinAt
  <2> QED
    BY <2>1, <2>2, <2>3 DEF e
<1>4. /\ b \in Seq(T) /\ Len(b) = (Len(s) + Len(t)) + 1
      /\ \A i \in 1..(Len(s) + Len(t)) : b[i] = Join(s, t)[i]
      /\ b[(Len(s) + Len(t)) + 1] = x
  BY <1>2, AppendProperties
<1>5. /\ \A i \in 1..Len(s) : Join(s, t)[i] = s[i]
      /\ \A i \in 1..Len(t) : Join(s, t)[Len(s) + i] = t[i]
  BY JoinAt
<1>6. Len(s) \in Nat /\ Len(t) \in Nat
  OBVIOUS
<1> HIDE DEF a, b
<1>7. ASSUME NEW i \in 1..Len(a)
      PROVE  a[i] = b[i]
  <2>0. i \in 1..(Len(s) + (Len(t) + 1))
    BY <1>3
  <2>1. CASE i <= Len(s)
    <3>1. i \in 1..Len(s) /\ i \in 1..(Len(s) + Len(t))
      BY <1>6, <2>0, <2>1
    <3>2. a[i] = s[i]
      BY <1>3, <3>1
    <3>3. b[i] = s[i]
      BY <1>4, <1>5, <3>1
    <3> QED
      BY <3>2, <3>3
  <2>2. CASE i > Len(s) /\ i <= Len(s) + Len(t)
    <3>1. PICK j \in 1..Len(t) : i = Len(s) + j
      <4>1. i - Len(s) \in 1..Len(t) /\ i = Len(s) + (i - Len(s))
        BY <1>6, <2>0, <2>2
      <4> QED
        BY <4>1
    <3>2. a[i] = t[j]
      BY <1>1, <1>3, <1>6, <3>1
    <3>3. b[i] = t[j]
      <4>1. i \in 1..(Len(s) + Len(t))
        BY <1>6, <2>0, <2>2
      <4>2. b[i] = Join(s, t)[i]
        BY <1>4, <4>1
      <4> QED
        BY <1>5, <3>1, <4>2
    <3> QED
      BY <3>2, <3>3
  <2>3. CASE i > Len(s) + Len(t)
    <3>1. i = Len(s) + (Len(t) + 1) /\ i = (Len(s) + Len(t)) + 1 /\ Len(t) + 1 \in 1..(Len(t) + 1)
      BY <1>6, <2>0, <2>3
    <3>2. a[i] = x
      BY <1>1, <1>3, <3>1
    <3>3. b[i] = x
      BY <1>4, <3>1
    <3> QED
      BY <3>2, <3>3
  <2> QED
    BY <1>6, <2>0, <2>1, <2>2, <2>3
<1>8. Len(a) = Len(b)
  BY <1>3, <1>4, <1>6
<1>9. a = b
  BY <1>3, <1>4, <1>7, <1>8, SeqEqual
<1> QED
  BY <1>9 DEF a, b

\* A text that ends in one more symbol.
LEMMA TextEnds ==
  ASSUME NEW T, NEW u \in Seq(T), u # <<>>
  PROVE  \E s \in Seq(T), x \in T : u = Append(s, x) /\ Len(u) = Len(s) + 1
<1> DEFINE n == Len(u) - 1
           s == Prefix(u, n)
           x == u[Len(u)]
<1>1. Len(u) \in Nat /\ Len(u) >= 1
  OBVIOUS
<1>2. n \in 0..Len(u) /\ Len(u) \in 1..Len(u) /\ Len(u) = n + 1
  BY <1>1
<1>3. s \in Seq(T) /\ Len(s) = n /\ \A i \in 1..n : s[i] = u[i]
  BY <1>2, PrefixIs
<1>4. x \in T
  BY <1>2, SymbolOf
<1> HIDE DEF s, x
<1>5. /\ Append(s, x) \in Seq(T) /\ Len(Append(s, x)) = Len(s) + 1
      /\ \A i \in 1..Len(s) : Append(s, x)[i] = s[i]
      /\ Append(s, x)[Len(s) + 1] = x
  BY <1>3, <1>4, AppendProperties
<1>6. \A i \in 1..Len(u) : u[i] = Append(s, x)[i]
  <2> SUFFICES ASSUME NEW i \in 1..Len(u)
               PROVE  u[i] = Append(s, x)[i]
    OBVIOUS
  <2>0. i \in Nat /\ n \in Nat /\ 1 <= i /\ i <= n + 1 /\ Len(u) = n + 1
    BY <1>1, <1>2
  <2> HIDE DEF n
  <2>1. CASE i <= n
    BY <1>3, <1>5, <2>0, <2>1
  <2>2. CASE i > n
    <3>1. i = Len(u) /\ i = Len(s) + 1
      BY <1>3, <2>0, <2>2
    <3> QED
      BY <1>5, <3>1 DEF x
  <2>3. i <= n \/ i > n
    BY <2>0
  <2> QED
    BY <2>1, <2>2, <2>3, Zenon
<1>7. u = Append(s, x)
  BY <1>2, <1>3, <1>5, <1>6, SeqEqual
<1> QED
  BY <1>2, <1>3, <1>4, <1>7

\* Induction on texts.
LEMMA TextInduction ==
  ASSUME NEW T, NEW S, <<>> \in S,
         \A s \in Seq(T), x \in T : s \in S => Append(s, x) \in S
  PROVE  Seq(T) \subseteq S
<1> DEFINE N == {n \in Nat : \A u \in Seq(T) : Len(u) = n => u \in S}
<1>1. 0 \in N
  <2>1. \A u \in Seq(T) : Len(u) = 0 => u = <<>>
    OBVIOUS
  <2> QED
    BY <2>1
<1>2. ASSUME NEW n \in Nat, n \in N
      PROVE  n + 1 \in N
  <2> SUFFICES ASSUME NEW u \in Seq(T), Len(u) = n + 1
               PROVE  u \in S
    OBVIOUS
  <2>1. u # <<>>
    OBVIOUS
  <2>2. PICK s \in Seq(T), x \in T : u = Append(s, x) /\ Len(u) = Len(s) + 1
    BY <2>1, TextEnds
  <2>3. Len(s) = n
    <3>1. Len(s) \in Nat
      OBVIOUS
    <3> QED
      BY <2>2, <3>1
  <2> QED
    BY <1>2, <2>2, <2>3
<1> HIDE DEF N
<1>3. Nat \subseteq N
  BY <1>1, <1>2, SetInduction
<1> SUFFICES ASSUME NEW u \in Seq(T)
             PROVE  u \in S
  OBVIOUS
<1>4. Len(u) \in Nat
  OBVIOUS
<1> QED
  BY <1>3, <1>4 DEF N

-----------------------------------------------------------------------------
(* Parts of a text *)

\* v is the value after each of n steps from a.
StepsTo(v, n, a, step) ==
  /\ DOMAIN v = 0..n /\ v[0] = a
  /\ \A i \in 1..n : v[i] = step[i][v[i - 1]]

\* There are such values, each of the type that the steps keep.
LEMMA StepsExist ==
  ASSUME NEW V, NEW n \in Nat, NEW a \in V, NEW step \in [1..n -> [V -> V]]
  PROVE  \E v \in [0..n -> V] : StepsTo(v, n, a, step)
<1> DEFINE base   == {0}
           start  == [i \in base |-> a]
           before == [i \in Nat |-> IF i = 0 THEN 0 ELSE i - 1]
           next   == [i \in Nat |-> IF i \in 1..n THEN step[i] ELSE [y \in V |-> y]]
<1>1. next \in [Nat -> [V -> V]]
  OBVIOUS
<1>2. start \in [base -> V] /\ base \in SUBSET Nat /\ 0 \in base
  OBVIOUS
<1>3. before \in [Nat -> Nat] /\ \A i \in Nat \ base : before[i] < i
  OBVIOUS
<1>4. start[0] = a /\ \A i \in Nat : i \in base <=> i = 0
  OBVIOUS
<1>5. \A i \in 1..n : i \in Nat \ {0} /\ before[i] = i - 1 /\ next[i] = step[i]
  OBVIOUS
<1> HIDE DEF base, start, before, next
<1>6. PICK f \in [Nat -> V] :
        \A i \in Nat : f[i] = IF i \in base THEN start[i] ELSE next[i][f[before[i]]]
  <2>1. Recursion(V, base, start, before, next)
    BY <1>1, <1>2, <1>3, RecursionExists
  <2> QED
    BY <2>1 DEF Recursion
<1> DEFINE v == [i \in 0..n |-> f[i]]
<1>7. v \in [0..n -> V] /\ DOMAIN v = 0..n /\ v[0] = f[0]
  OBVIOUS
<1>8. f[0] = a
  BY <1>4, <1>6
<1>9. ASSUME NEW i \in 1..n
      PROVE  v[i] = step[i][v[i - 1]]
  <2>1. i \in 0..n /\ i - 1 \in 0..n
    OBVIOUS
  <2>2. f[i] = next[i][f[before[i]]]
    BY <1>4, <1>5, <1>6
  <2>3. v[i] = f[i] /\ v[i - 1] = f[i - 1]
    BY <2>1
  <2> QED
    BY <1>5, <2>2, <2>3
<1> HIDE DEF v
<1> QED
  BY <1>7, <1>8, <1>9 DEF StepsTo

\* The values after the first steps depend on those steps only.
LEMMA StepsUnique ==
  ASSUME NEW n \in Nat, NEW m \in 0..n, NEW a, NEW step, NEW other, NEW v, NEW w,
         StepsTo(v, n, a, step), StepsTo(w, m, a, other),
         \A i \in 1..m : step[i] = other[i]
  PROVE  v[m] = w[m]
<1> DEFINE S == {i \in Nat : i <= m => v[i] = w[i]}
<1>1. 0 \in S
  BY DEF StepsTo
<1>2. ASSUME NEW i \in Nat, i \in S
      PROVE  i + 1 \in S
  <2> SUFFICES ASSUME i + 1 <= m
               PROVE  v[i + 1] = w[i + 1]
    OBVIOUS
  <2>1. i + 1 \in 1..m /\ i + 1 \in 1..n /\ (i + 1) - 1 = i
    OBVIOUS
  <2>2. v[i] = w[i]
    BY <1>2
  <2>3. v[i + 1] = step[i + 1][v[i]] /\ w[i + 1] = other[i + 1][w[i]]
    BY <2>1 DEF StepsTo
  <2> QED
    BY <2>1, <2>2, <2>3
<1> HIDE DEF S
<1>3. Nat \subseteq S
  BY <1>1, <1>2, SetInduction
<1> QED
  BY <1>3 DEF S

\* Parts of texts: there is at least one.
Parts(T) == {ps \in Seq(Seq(T)) : Len(ps) > 0}

\* The last part.
LastPart(ps) == ps[Len(ps)]

\* One more symbol goes to the last part, or begins a new one.
LEMMA ExtendedIs ==
  ASSUME NEW T, NEW ps \in Parts(T), NEW x \in T, NEW c
  PROVE  /\ Extended(ps, x, c) \in Parts(T)
         /\ x = c => Extended(ps, x, c) = Append(ps, <<>>)
         /\ x # c => /\ Len(Extended(ps, x, c)) = Len(ps)
                     /\ \A k \in 1..(Len(ps) - 1) : Extended(ps, x, c)[k] = ps[k]
                     /\ Extended(ps, x, c)[Len(ps)] = Append(ps[Len(ps)], x)
<1>1. ps \in Seq(Seq(T)) /\ Len(ps) \in 1..Len(ps) /\ Len(ps) > 0 /\ Len(ps) \in Nat
  BY DEF Parts
<1>2. CASE x = c
  <2>1. <<>> \in Seq(T)
    OBVIOUS
  <2>2. Append(ps, <<>>) \in Seq(Seq(T)) /\ Len(Append(ps, <<>>)) = Len(ps) + 1
    BY <1>1, <2>1, AppendProperties
  <2>3. Append(ps, <<>>) \in Parts(T)
    BY <1>1, <2>2 DEF Parts
  <2> QED
    BY <1>2, <2>3 DEF Extended
<1>3. CASE x # c
  <2> DEFINE e == Append(ps[Len(ps)], x)
  <2>1. e \in Seq(T)
    <3>1. ps[Len(ps)] \in Seq(T)
      BY <1>1, ElementOfSeq
    <3> QED
      BY <3>1, AppendProperties
  <2>2. Extended(ps, x, c) = [ps EXCEPT ![Len(ps)] = e]
    BY <1>3 DEF Extended
  <2> HIDE DEF e
  <2>3. /\ [ps EXCEPT ![Len(ps)] = e] \in Seq(Seq(T))
        /\ Len([ps EXCEPT ![Len(ps)] = e]) = Len(ps)
        /\ \A j \in 1..Len(ps) : [ps EXCEPT ![Len(ps)] = e][j] = IF j = Len(ps) THEN e ELSE ps[j]
    BY <1>1, <2>1, ExceptSeq
  <2>4. Extended(ps, x, c) \in Parts(T) /\ Len(Extended(ps, x, c)) = Len(ps)
    BY <1>1, <2>2, <2>3 DEF Parts
  <2>5. \A k \in 1..(Len(ps) - 1) : Extended(ps, x, c)[k] = ps[k]
    BY <1>1, <2>2, <2>3
  <2>6. Extended(ps, x, c)[Len(ps)] = e
    BY <1>1, <2>2, <2>3
  <2> QED
    BY <1>3, <2>4, <2>5, <2>6 DEF e
<1> QED
  BY <1>2, <1>3

\* The step that each symbol of text s is.
SplitStep(T, s, c) == [i \in 1..Len(s) |-> [ps \in Parts(T) |-> Extended(ps, s[i], c)]]

\* Split goes symbol by symbol.
LEMMA SplitSteps ==
  ASSUME NEW T, NEW s \in Seq(T), NEW c
  PROVE  \E v : /\ v \in [0..Len(s) -> Parts(T)]
                /\ StepsTo(v, Len(s), << <<>> >>, SplitStep(T, s, c))
                /\ Split(s, c) = v[Len(s)]
<1> DEFINE one == << <<>> >>
           next(v, i) == Extended(v, s[i], c)
<1>1. one \in Parts(T)
  BY DEF Parts
<1>2. SplitStep(T, s, c) \in [1..Len(s) -> [Parts(T) -> Parts(T)]]
  <2>1. ASSUME NEW i \in 1..Len(s), NEW ps \in Parts(T)
        PROVE  Extended(ps, s[i], c) \in Parts(T)
    <3>1. s[i] \in T
      BY SymbolOf
    <3> QED
      BY <3>1, ExtendedIs
  <2> QED
    BY <2>1 DEF SplitStep
<1>3. \A i \in 1..Len(s), ps \in Parts(T) : SplitStep(T, s, c)[i][ps] = next(ps, i)
  BY DEF SplitStep
<1>0. Len(s) \in Nat
  OBVIOUS
<1> HIDE DEF one
<1>4. PICK v \in [0..Len(s) -> Parts(T)] : StepsTo(v, Len(s), one, SplitStep(T, s, c))
  BY <1>0, <1>1, <1>2, StepsExist
<1> HIDE DEF next
<1>5. v = [i \in 0..Len(s) |-> IF i = 0 THEN one ELSE next(v[i - 1], i)]
  <2>1. ASSUME NEW i \in 0..Len(s)
        PROVE  v[i] = IF i = 0 THEN one ELSE next(v[i - 1], i)
    <3>1. CASE i = 0
      BY <1>4, <3>1 DEF StepsTo
    <3>2. CASE i # 0
      <4>1. i \in 1..Len(s) /\ i - 1 \in 0..Len(s)
        BY <1>0, <3>2
      <4>2. v[i] = SplitStep(T, s, c)[i][v[i - 1]]
        BY <1>4, <4>1 DEF StepsTo
      <4>3. v[i - 1] \in Parts(T)
        BY <4>1
      <4> QED
        BY <1>3, <3>2, <4>1, <4>2, <4>3
    <3> QED
      BY <3>1, <3>2
  <2> QED
    BY <2>1
<1> DEFINE upto == CHOOSE u : u = [i \in 0..Len(s) |-> IF i = 0 THEN one ELSE next(u[i - 1], i)]
<1>6. upto = [i \in 0..Len(s) |-> IF i = 0 THEN one ELSE next(upto[i - 1], i)]
  BY <1>5, Zenon
<1>7. Split(s, c) = upto[Len(s)]
  BY Zenon DEF Split, one, next
<1> HIDE DEF upto
<1> DEFINE S == {i \in Nat : i <= Len(s) => upto[i] = v[i]}
<1>8. Nat \subseteq S
  <2>1. 0 \in S
    BY <1>0, <1>5, <1>6
  <2>2. ASSUME NEW i \in Nat, i \in S
        PROVE  i + 1 \in S
    <3> SUFFICES ASSUME i + 1 <= Len(s)
                 PROVE  upto[i + 1] = v[i + 1]
      OBVIOUS
    <3>1. i + 1 \in 0..Len(s) /\ i + 1 # 0 /\ (i + 1) - 1 = i /\ upto[i] = v[i]
      BY <1>0, <2>2
    <3>2. upto[i + 1] = next(upto[i], i + 1)
      BY <1>6, <3>1
    <3>3. v[i + 1] = next(v[i], i + 1)
      BY <1>5, <3>1
    <3> QED
      BY <3>1, <3>2, <3>3
  <2> HIDE DEF S
  <2> QED
    BY <2>1, <2>2, SetInduction
<1>9. upto[Len(s)] = v[Len(s)]
  BY <1>0, <1>8
<1> HIDE DEF S
<1> QED
  BY <1>4, <1>7, <1>9 DEF one

\* The parts of a text.
LEMMA SplitIs ==
  ASSUME NEW T, NEW s \in Seq(T), NEW c
  PROVE  Split(s, c) \in Parts(T)
<1>1. PICK v : v \in [0..Len(s) -> Parts(T)] /\ Split(s, c) = v[Len(s)]
  BY SplitSteps
<1>2. Len(s) \in 0..Len(s)
  OBVIOUS
<1> QED
  BY <1>1, <1>2

\* The empty text has one part, which is empty.
LEMMA SplitEmpty ==
  ASSUME NEW c
  PROVE  Split(<<>>, c) = << <<>> >>
<1> DEFINE s == <<>>
           T == {c}
<1>1. s \in Seq(T) /\ Len(s) = 0
  OBVIOUS
<1>2. PICK v : StepsTo(v, Len(s), << <<>> >>, SplitStep(T, s, c)) /\ Split(s, c) = v[Len(s)]
  BY <1>1, SplitSteps
<1> QED
  BY <1>1, <1>2 DEF StepsTo

\* The parts of a text that ends in one more symbol.
LEMMA SplitAppend ==
  ASSUME NEW T, NEW s \in Seq(T), NEW x \in T, NEW c
  PROVE  Split(Append(s, x), c) = Extended(Split(s, c), x, c)
<1> DEFINE t   == Append(s, x)
           one == << <<>> >>
<1>1. /\ t \in Seq(T) /\ Len(t) = Len(s) + 1 /\ t[Len(t)] = x
      /\ \A i \in 1..Len(s) : t[i] = s[i]
  BY AppendProperties
<1>2. Len(s) \in Nat /\ Len(t) \in Nat /\ Len(s) \in 0..Len(t) /\ Len(t) \in 1..Len(t) /\ Len(t) - 1 = Len(s)
  BY <1>1
<1> HIDE DEF t, one
<1>3. PICK v : /\ v \in [0..Len(s) -> Parts(T)] /\ StepsTo(v, Len(s), one, SplitStep(T, s, c))
               /\ Split(s, c) = v[Len(s)]
  BY SplitSteps DEF one
<1>4. PICK w : /\ w \in [0..Len(t) -> Parts(T)] /\ StepsTo(w, Len(t), one, SplitStep(T, t, c))
               /\ Split(t, c) = w[Len(t)]
  BY <1>1, SplitSteps DEF one
<1>5. \A i \in 1..Len(s) : SplitStep(T, t, c)[i] = SplitStep(T, s, c)[i]
  BY <1>1, <1>2 DEF SplitStep
<1>6. w[Len(s)] = v[Len(s)]
  BY <1>2, <1>3, <1>4, <1>5, StepsUnique
<1>7. w[Len(t)] = SplitStep(T, t, c)[Len(t)][w[Len(s)]]
  BY <1>2, <1>4 DEF StepsTo
<1>8. w[Len(s)] \in Parts(T)
  BY <1>2, <1>4
<1>9. SplitStep(T, t, c)[Len(t)][w[Len(s)]] = Extended(w[Len(s)], x, c)
  BY <1>1, <1>2, <1>8 DEF SplitStep
<1>10. Split(t, c) = Extended(Split(s, c), x, c)
  BY <1>3, <1>4, <1>6, <1>7, <1>9
<1> QED
  BY <1>10 DEF t

\* Text s is how text t begins.
Begins(s, t) == Len(s) <= Len(t) /\ \A i \in 1..Len(s) : t[i] = s[i]

\* So does the beginning of the beginning.
LEMMA BeginsTwice ==
  ASSUME NEW T, NEW s \in Seq(T), NEW t \in Seq(T), NEW u \in Seq(T), Begins(s, t), Begins(t, u)
  PROVE  Begins(s, u)
<1>1. Len(s) \in Nat /\ Len(t) \in Nat /\ Len(u) \in Nat
  OBVIOUS
<1>2. Len(s) <= Len(u)
  BY <1>1 DEF Begins
<1>3. ASSUME NEW i \in 1..Len(s)
      PROVE  u[i] = s[i]
  <2>1. i \in 1..Len(t)
    BY <1>1 DEF Begins
  <2> QED
    BY <2>1 DEF Begins
<1> QED
  BY <1>2, <1>3 DEF Begins

\* A text that goes on.
LEMMA BeginsAppend ==
  ASSUME NEW T, NEW s \in Seq(T), NEW x \in T
  PROVE  Begins(s, Append(s, x))
<1>1. Len(Append(s, x)) = Len(s) + 1 /\ \A i \in 1..Len(s) : Append(s, x)[i] = s[i]
  BY AppendProperties
<1>2. Len(s) \in Nat
  OBVIOUS
<1> QED
  BY <1>1, <1>2 DEF Begins

\* What more text does to the parts: those before the last stay, the last one may go on.
Grows(ps, qs) ==
  /\ Len(ps) <= Len(qs)
  /\ \A k \in 1..Len(ps) : Begins(ps[k], qs[k])
  /\ \A k \in 1..(Len(ps) - 1) : qs[k] = ps[k]

\* One more symbol makes parts grow.
LEMMA ExtendedGrows ==
  ASSUME NEW T, NEW ps \in Parts(T), NEW qs \in Parts(T), Grows(ps, qs), NEW x \in T, NEW c
  PROVE  Grows(ps, Extended(qs, x, c))
<1> DEFINE rs == Extended(qs, x, c)
<1>1. /\ ps \in Seq(Seq(T)) /\ qs \in Seq(Seq(T)) /\ Len(ps) \in Nat /\ Len(qs) \in Nat
      /\ Len(ps) > 0 /\ Len(qs) > 0 /\ Len(ps) <= Len(qs)
  BY DEF Parts, Grows
<1>2. /\ rs \in Parts(T)
      /\ x = c => rs = Append(qs, <<>>)
      /\ x # c => /\ Len(rs) = Len(qs)
                  /\ \A k \in 1..(Len(qs) - 1) : rs[k] = qs[k]
                  /\ rs[Len(qs)] = Append(qs[Len(qs)], x)
  BY ExtendedIs
<1>3. \A k \in 1..Len(qs) : qs[k] \in Seq(T)
  BY <1>1
<1>4. rs \in Seq(Seq(T)) /\ Len(rs) \in Nat
  BY <1>2 DEF Parts
<1> HIDE DEF rs
<1>5. /\ Len(qs) <= Len(rs)
      /\ \A k \in 1..(Len(qs) - 1) : rs[k] = qs[k]
      /\ rs[Len(qs)] = qs[Len(qs)] \/ rs[Len(qs)] = Append(qs[Len(qs)], x)
  <2>1. CASE x = c
    <3> DEFINE new == <<>>
    <3>1. new \in Seq(T) /\ rs = Append(qs, new)
      BY <1>2, <2>1
    <3> HIDE DEF new
    <3>2. Len(rs) = Len(qs) + 1 /\ \A k \in 1..Len(qs) : rs[k] = qs[k]
      BY <1>1, <3>1, AppendProperties
    <3>3. Len(qs) <= Len(rs) /\ Len(qs) \in 1..Len(qs) /\ \A k \in 1..(Len(qs) - 1) : k \in 1..Len(qs)
      BY <1>1, <3>2
    <3> QED
      BY <3>2, <3>3
  <2>2. CASE x # c
    BY <1>1, <1>2, <2>2
  <2> QED
    BY <2>1, <2>2
<1>6. ASSUME NEW k \in 1..Len(ps)
      PROVE  Begins(ps[k], rs[k])
  <2>1. k \in 1..Len(qs) /\ Begins(ps[k], qs[k])
    BY <1>1 DEF Grows
  <2>2. CASE k < Len(qs)
    <3>1. rs[k] = qs[k]
      BY <1>1, <1>5, <2>1, <2>2
    <3> QED
      BY <2>1, <3>1
  <2>3. CASE k = Len(qs)
    <3>1. ps[k] \in Seq(T) /\ qs[k] \in Seq(T)
      BY <1>1, <1>3, <2>1
    <3>2. CASE rs[k] = qs[k]
      BY <2>1, <3>2
    <3>3. CASE rs[k] = Append(qs[k], x)
      <4> DEFINE e == Append(qs[k], x)
      <4>1. Begins(qs[k], e) /\ e \in Seq(T)
        BY <3>1, BeginsAppend, AppendProperties
      <4> HIDE DEF e
      <4>2. Begins(ps[k], e)
        BY <2>1, <3>1, <4>1, BeginsTwice
      <4> QED
        BY <3>3, <4>2 DEF e
    <3> QED
      BY <1>5, <2>3, <3>2, <3>3
  <2> QED
    BY <1>1, <2>1, <2>2, <2>3
<1>7. ASSUME NEW k \in 1..(Len(ps) - 1)
      PROVE  rs[k] = ps[k]
  <2>1. k \in 1..(Len(qs) - 1)
    BY <1>1
  <2>2. qs[k] = ps[k]
    BY DEF Grows
  <2> QED
    BY <1>5, <2>1, <2>2
<1>8. Len(ps) <= Len(rs)
  BY <1>1, <1>4, <1>5
<1>9. Grows(ps, rs)
  BY <1>6, <1>7, <1>8 DEF Grows
<1> QED
  BY <1>9 DEF rs

\* Parts are not less than themselves.
LEMMA GrowsSame ==
  ASSUME NEW T, NEW ps \in Parts(T)
  PROVE  Grows(ps, ps)
<1>1. Len(ps) \in Nat /\ \A k \in 1..Len(ps) : ps[k] \in Seq(T)
  BY DEF Parts
<1>2. \A k \in 1..Len(ps) : Len(ps[k]) \in Nat
  BY <1>1
<1> QED
  BY <1>1, <1>2 DEF Grows, Begins

\* Nothing follows.
LEMMA JoinEmpty ==
  ASSUME NEW T, NEW s \in Seq(T)
  PROVE  Join(s, <<>>) = s
BY DEF Join

\* The parts of a text are there in every longer one.
LEMMA SplitGrows ==
  ASSUME NEW T, NEW s \in Seq(T), NEW t \in Seq(T), NEW c
  PROVE  Grows(Split(s, c), Split(Join(s, t), c))
<1> DEFINE S == {u \in Seq(T) : Grows(Split(s, c), Split(Join(s, u), c))}
<1>1. <<>> \in S
  <2>1. Grows(Split(s, c), Split(s, c))
    BY SplitIs, GrowsSame
  <2>2. Join(s, <<>>) = s /\ <<>> \in Seq(T)
    BY JoinEmpty
  <2> QED
    BY <2>1, <2>2
<1>2. ASSUME NEW u \in Seq(T), NEW x \in T, u \in S
      PROVE  Append(u, x) \in S
  <2>1. Append(u, x) \in Seq(T)
    BY AppendProperties
  <2>2. Join(s, u) \in Seq(T)
    BY JoinIs
  <2>3. Join(s, Append(u, x)) = Append(Join(s, u), x)
    BY JoinAppend
  <2>4. Split(Append(Join(s, u), x), c) = Extended(Split(Join(s, u), c), x, c)
    BY <2>2, SplitAppend
  <2>5. Split(s, c) \in Parts(T) /\ Split(Join(s, u), c) \in Parts(T)
    BY <2>2, SplitIs
  <2>6. Grows(Split(s, c), Extended(Split(Join(s, u), c), x, c))
    BY <1>2, <2>5, ExtendedGrows
  <2> QED
    BY <2>1, <2>3, <2>4, <2>6
<1> HIDE DEF S
<1>3. Seq(T) \subseteq S
  BY <1>1, <1>2, TextInduction
<1> QED
  BY <1>3 DEF S

\* Symbol c does not occur in text t.
Without(t, c) == \A i \in 1..Len(t) : t[i] # c

\* A part of a text has no symbol that is not in the text.
LEMMA PrefixWithout ==
  ASSUME NEW T, NEW s \in Seq(T), NEW n \in 0..Len(s), NEW c, Without(s, c)
  PROVE  Without(Prefix(s, n), c)
<1>1. Len(Prefix(s, n)) = n /\ \A i \in 1..n : Prefix(s, n)[i] = s[i]
  BY PrefixIs
<1> QED
  BY <1>1 DEF Without

\* Text without the separator goes to the last part.
LEMMA SplitLast ==
  ASSUME NEW T, NEW s \in Seq(T), NEW t \in Seq(T), NEW c, Without(t, c)
  PROVE  /\ Len(Split(Join(s, t), c)) = Len(Split(s, c))
         /\ \A k \in 1..(Len(Split(s, c)) - 1) : Split(Join(s, t), c)[k] = Split(s, c)[k]
         /\ LastPart(Split(Join(s, t), c)) = Join(LastPart(Split(s, c)), t)
<1> DEFINE ps == Split(s, c)
           S == {u \in Seq(T) : Without(u, c) =>
                   /\ Len(Split(Join(s, u), c)) = Len(ps)
                   /\ \A k \in 1..(Len(ps) - 1) : Split(Join(s, u), c)[k] = ps[k]
                   /\ LastPart(Split(Join(s, u), c)) = Join(LastPart(ps), u)}
<1>0. ps \in Parts(T) /\ Len(ps) \in Nat /\ Len(ps) > 0 /\ LastPart(ps) \in Seq(T)
  <2>1. ps \in Parts(T)
    BY SplitIs
  <2> HIDE DEF ps
  <2> QED
    BY <2>1 DEF Parts, LastPart
<1> HIDE DEF ps
<1>1. <<>> \in S
  <2>1. Join(s, <<>>) = s /\ Join(LastPart(ps), <<>>) = LastPart(ps) /\ <<>> \in Seq(T)
    BY <1>0, JoinEmpty
  <2> QED
    BY <2>1 DEF ps
<1>2. ASSUME NEW u \in Seq(T), NEW x \in T, u \in S
      PROVE  Append(u, x) \in S
  <2>1. /\ Append(u, x) \in Seq(T) /\ Len(Append(u, x)) = Len(u) + 1
        /\ \A i \in 1..Len(u) : Append(u, x)[i] = u[i]
        /\ Append(u, x)[Len(u) + 1] = x
    BY AppendProperties
  <2> SUFFICES ASSUME Without(Append(u, x), c)
               PROVE  /\ Len(Split(Join(s, Append(u, x)), c)) = Len(ps)
                      /\ \A k \in 1..(Len(ps) - 1) : Split(Join(s, Append(u, x)), c)[k] = ps[k]
                      /\ LastPart(Split(Join(s, Append(u, x)), c)) = Join(LastPart(ps), Append(u, x))
    BY <2>1
  <2>2. Len(u) \in Nat
    OBVIOUS
  <2>3. Without(u, c)
    BY <2>1, <2>2 DEF Without
  <2>4. x # c
    BY <2>1, <2>2 DEF Without
  <2> DEFINE qs == Split(Join(s, u), c)
             rs == Extended(qs, x, c)
  <2>5. /\ Len(qs) = Len(ps)
        /\ \A k \in 1..(Len(ps) - 1) : qs[k] = ps[k]
        /\ LastPart(qs) = Join(LastPart(ps), u)
    BY <1>2, <2>3
  <2>6. Join(s, u) \in Seq(T)
    BY JoinIs
  <2>7. Split(Join(s, Append(u, x)), c) = rs
    <3>1. Split(Append(Join(s, u), x), c) = rs
      BY <2>6, SplitAppend
    <3>2. Join(s, Append(u, x)) = Append(Join(s, u), x)
      BY JoinAppend
    <3> QED
      BY <3>1, <3>2, Zenon
  <2>8. qs \in Parts(T)
    BY <2>6, SplitIs
  <2> HIDE DEF qs
  <2>9. /\ Len(rs) = Len(qs)
        /\ \A k \in 1..(Len(qs) - 1) : rs[k] = qs[k]
        /\ rs[Len(qs)] = Append(qs[Len(qs)], x)
    BY <2>4, <2>8, ExtendedIs
  <2>10. Append(Join(LastPart(ps), u), x) = Join(LastPart(ps), Append(u, x))
    BY <1>0, JoinAppend
  <2> HIDE DEF rs
  <2>11. LastPart(rs) = Join(LastPart(ps), Append(u, x))
    BY <2>5, <2>9, <2>10 DEF LastPart
  <2>12. \A k \in 1..(Len(ps) - 1) : rs[k] = ps[k]
    BY <2>5, <2>9
  <2> QED
    BY <2>5, <2>7, <2>9, <2>11, <2>12
<1> HIDE DEF S
<1>3. Seq(T) \subseteq S
  BY <1>1, <1>2, TextInduction
<1> QED
  BY <1>3 DEF S, ps

\* Two texts with symbol c between them.
Separated(s, c, t) == Join(Append(s, c), t)

\* A separator, and text without it, make one more part.
LEMMA SplitField ==
  ASSUME NEW T, NEW s \in Seq(T), NEW c \in T, NEW t \in Seq(T), Without(t, c)
  PROVE  /\ Len(Split(Separated(s, c, t), c)) = Len(Split(s, c)) + 1
         /\ \A k \in 1..Len(Split(s, c)) : Split(Separated(s, c, t), c)[k] = Split(s, c)[k]
         /\ Split(Separated(s, c, t), c)[Len(Split(s, c)) + 1] = t
<1> DEFINE ps  == Split(s, c)
           new == <<>>
           u   == Append(s, c)
           qs  == Split(u, c)
           rs  == Split(Join(u, t), c)
<1>1. u \in Seq(T) /\ new \in Seq(T)
  BY AppendProperties
<1>2. ps \in Parts(T)
  BY SplitIs
<1>3. qs = Append(ps, new)
  <2>1. qs = Extended(ps, c, c)
    BY SplitAppend
  <2> QED
    BY <1>2, <2>1 DEF Extended
<1> HIDE DEF ps, u, qs
<1>4. ps \in Seq(Seq(T)) /\ Len(ps) \in Nat
  BY <1>2 DEF Parts
<1>5. /\ Len(qs) = Len(ps) + 1 /\ \A k \in 1..Len(ps) : qs[k] = ps[k]
      /\ qs[Len(ps) + 1] = new
  <2> HIDE DEF new
  <2> QED
    BY <1>1, <1>3, <1>4, AppendProperties
<1>6. /\ Len(rs) = Len(qs)
      /\ \A k \in 1..(Len(qs) - 1) : rs[k] = qs[k]
      /\ LastPart(rs) = Join(LastPart(qs), t)
  BY <1>1, SplitLast DEF qs
<1>7. Join(new, t) = t
  BY DEF Join
<1> HIDE DEF rs, new
<1>8. /\ Len(rs) = Len(ps) + 1 /\ \A k \in 1..Len(ps) : rs[k] = ps[k]
      /\ rs[Len(ps) + 1] = t
  BY <1>4, <1>5, <1>6, <1>7 DEF LastPart
<1> QED
  BY <1>8 DEF rs, u, ps, Separated

\* A text without the separator is its only part.
LEMMA SplitOne ==
  ASSUME NEW T, NEW t \in Seq(T), NEW c, Without(t, c)
  PROVE  Split(t, c) = <<t>>
<1> DEFINE new == <<>>
           one == <<new>>
           rs  == Split(Join(new, t), c)
<1>1. new \in Seq(T) /\ Join(new, t) = t
  BY DEF Join
<1>2. Split(new, c) = one
  BY SplitEmpty
<1>3. Len(one) = 1 /\ LastPart(one) = new
  BY DEF LastPart
<1>4. rs \in Seq(Seq(T))
  BY <1>1, SplitIs DEF Parts
<1> HIDE DEF new, one
<1>5. Len(rs) = 1 /\ LastPart(rs) = t
  BY <1>1, <1>2, <1>3, SplitLast
<1>6. rs[1] = t
  BY <1>5 DEF LastPart
<1> HIDE DEF rs
<1>7. rs = <<t>>
  BY <1>4, <1>5, <1>6
<1> QED
  BY <1>1, <1>7 DEF rs

\* Symbol x is in one of the parts: in the first one, at place i.
IsIn(ps, x, i) == \E k \in 1..Len(ps) : \E j \in 1..Len(ps[k]) : ps[k][j] = x /\ (k = 1 => j = i)

\* Every symbol of a text but the separators is in a part.
LEMMA SplitHas ==
  ASSUME NEW T, NEW s \in Seq(T), NEW c, NEW i \in 1..Len(s), s[i] # c
  PROVE  IsIn(Split(s, c), s[i], i)
<1> DEFINE S == {u \in Seq(T) :
                  /\ Len(Split(u, c)) = 1 => Len(Split(u, c)[1]) = Len(u)
                  /\ \A h \in 1..Len(u) : u[h] # c => IsIn(Split(u, c), u[h], h)}
<1>1. <<>> \in S
  <2>1. Split(<<>>, c)[1] = <<>>
    <3>1. << <<>> >>[1] = <<>>
      OBVIOUS
    <3> QED
      BY <3>1, SplitEmpty, Zenon
  <2>2. <<>> \in Seq(T) /\ Len(<<>>) = 0
    OBVIOUS
  <2> QED
    BY <2>1, <2>2
<1>2. ASSUME NEW u \in Seq(T), NEW x \in T, u \in S
      PROVE  Append(u, x) \in S
  <2> DEFINE w  == Append(u, x)
             ps == Split(u, c)
             rs == Split(w, c)
  <2>1. /\ w \in Seq(T) /\ Len(w) = Len(u) + 1
        /\ \A h \in 1..Len(u) : w[h] = u[h]
        /\ w[Len(u) + 1] = x
    BY AppendProperties
  <2>2. ps \in Parts(T) /\ rs = Extended(ps, x, c)
    BY SplitIs, SplitAppend
  <2>3. /\ Len(ps) = 1 => Len(ps[1]) = Len(u)
        /\ \A h \in 1..Len(u) : u[h] # c => IsIn(ps, u[h], h)
    BY <1>2
  <2>4. Len(u) \in Nat
    OBVIOUS
  <2> HIDE DEF S, w, ps, rs
  <2>5. /\ rs \in Parts(T)
        /\ x = c => rs = Append(ps, <<>>)
        /\ x # c => /\ Len(rs) = Len(ps)
                    /\ rs[Len(ps)] = Append(ps[Len(ps)], x)
    BY <2>2, ExtendedIs
  <2>6. /\ ps \in Seq(Seq(T)) /\ Len(ps) \in Nat /\ Len(ps) > 0 /\ Len(ps) \in 1..Len(ps)
        /\ Len(rs) \in Nat
    <3>1. ps \in Parts(T) /\ rs \in Parts(T)
      BY <2>2, <2>5
    <3> QED
      BY <3>1 DEF Parts
  <2>7. Grows(ps, rs)
    BY <2>2, GrowsSame, ExtendedGrows
  <2>8. \A k \in 1..Len(rs) : Len(rs[k]) \in Nat
    BY <2>5 DEF Parts
  <2>9. ASSUME NEW y, NEW h, IsIn(ps, y, h)
        PROVE  IsIn(rs, y, h)
    <3>1. PICK k \in 1..Len(ps) : \E j \in 1..Len(ps[k]) : ps[k][j] = y /\ (k = 1 => j = h)
      BY <2>9 DEF IsIn
    <3>2. PICK j \in 1..Len(ps[k]) : ps[k][j] = y /\ (k = 1 => j = h)
      BY <3>1
    <3>3. k \in 1..Len(rs) /\ Begins(ps[k], rs[k])
      BY <2>6, <2>7 DEF Grows
    <3>4. ps[k] \in Seq(T)
      BY <2>6
    <3>5. Len(ps[k]) \in Nat /\ Len(rs[k]) \in Nat /\ Len(ps[k]) <= Len(rs[k]) /\ rs[k][j] = ps[k][j]
      BY <2>8, <3>3, <3>4 DEF Begins
    <3>6. j \in 1..Len(rs[k])
      BY <3>5
    <3> QED
      BY <3>2, <3>3, <3>5, <3>6 DEF IsIn
  <2>10. ASSUME x # c
         PROVE  /\ IsIn(rs, x, Len(w))
                /\ Len(rs) = 1 => Len(rs[1]) = Len(w)
    <3> DEFINE last == ps[Len(ps)]
    <3>1. last \in Seq(T) /\ Len(last) \in Nat
      BY <2>6
    <3>2. Len(rs[Len(ps)]) = Len(last) + 1 /\ rs[Len(ps)][Len(last) + 1] = x
      <4> HIDE DEF last
      <4>1. Len(Append(last, x)) = Len(last) + 1 /\ Append(last, x)[Len(last) + 1] = x
        BY <3>1, AppendProperties
      <4> QED
        BY <2>5, <2>10, <4>1 DEF last
    <3>3. Len(ps) = 1 => Len(last) + 1 = Len(w)
      BY <2>1, <2>3
    <3> HIDE DEF last
    <3>4. Len(last) + 1 \in 1..Len(rs[Len(ps)])
      BY <3>1, <3>2
    <3>5. Len(rs) = Len(ps) /\ Len(ps) \in 1..Len(rs)
      BY <2>5, <2>6, <2>10
    <3>6. IsIn(rs, x, Len(w))
      BY <3>2, <3>3, <3>4, <3>5 DEF IsIn
    <3>7. Len(rs) = 1 => Len(rs[1]) = Len(w)
      BY <3>2, <3>3, <3>5
    <3> QED
      BY <3>6, <3>7
  <2>11. ASSUME x = c
         PROVE  Len(rs) # 1
    <3> DEFINE new == <<>>
    <3>1. new \in Seq(T) /\ rs = Append(ps, new)
      BY <2>5, <2>11
    <3> HIDE DEF new
    <3>2. Len(rs) = Len(ps) + 1
      BY <2>6, <3>1, AppendProperties
    <3> QED
      BY <2>6, <3>2
  <2>12. ASSUME NEW h \in 1..Len(w), w[h] # c
         PROVE  IsIn(rs, w[h], h)
    <3>1. h \in 1..Len(u) \/ h = Len(w)
      BY <2>1, <2>4
    <3>2. CASE h \in 1..Len(u)
      BY <2>1, <2>3, <2>9, <2>12, <3>2
    <3>3. CASE h = Len(w)
      BY <2>1, <2>10, <2>12, <3>3
    <3> QED
      BY <3>1, <3>2, <3>3
  <2>13. Len(rs) = 1 => Len(rs[1]) = Len(w)
    BY <2>10, <2>11
  <2> QED
    BY <2>1, <2>12, <2>13 DEF S, w, rs
<1> HIDE DEF S
<1>3. Seq(T) \subseteq S
  BY <1>1, <1>2, TextInduction
<1> QED
  BY <1>3 DEF S

\* Two texts without symbol d, and another symbol between them.
LEMMA SeparatedIs ==
  ASSUME NEW T, NEW s \in Seq(T), NEW c \in T, NEW t \in Seq(T), NEW d
  PROVE  /\ Separated(s, c, t) \in Seq(T)
         /\ Len(Separated(s, c, t)) = Len(s) + 1 + Len(t)
         /\ Without(s, d) /\ Without(t, d) /\ c # d => Without(Separated(s, c, t), d)
<1> DEFINE u == Append(s, c)
<1>2. /\ u \in Seq(T) /\ Len(u) = Len(s) + 1
      /\ \A i \in 1..Len(s) : u[i] = s[i]
      /\ u[Len(s) + 1] = c
  BY AppendProperties
<1> HIDE DEF u
<1>3. Join(u, t) \in Seq(T) /\ Len(Join(u, t)) = Len(u) + Len(t)
  BY <1>2, JoinIs
<1>1. u \in Seq(T)
  BY <1>2
<1>4. /\ \A i \in 1..Len(u) : Join(u, t)[i] = u[i]
      /\ \A i \in 1..Len(t) : Join(u, t)[Len(u) + i] = t[i]
  BY <1>1, JoinAt
<1>5. Len(s) \in Nat /\ Len(t) \in Nat
  OBVIOUS
<1>6. ASSUME Without(s, d), Without(t, d), c # d, NEW i \in 1..(Len(u) + Len(t))
      PROVE  Join(u, t)[i] # d
  <2>0. i \in Nat /\ 1 <= i /\ i <= Len(s) + 1 + Len(t)
    BY <1>2, <1>5
  <2>1. CASE i \in 1..Len(s)
    <3>1. i \in 1..Len(u)
      BY <1>2, <1>5, <2>1
    <3>2. Join(u, t)[i] = s[i]
      BY <1>2, <1>4, <2>1, <3>1
    <3> QED
      BY <1>6, <2>1, <3>2 DEF Without
  <2>2. CASE i = Len(s) + 1
    <3>1. i \in 1..Len(u)
      BY <1>2, <1>5, <2>2
    <3> QED
      BY <1>2, <1>4, <1>6, <2>2, <3>1
  <2>3. CASE i > Len(s) + 1
    <3>1. PICK j \in 1..Len(t) : i = Len(u) + j
      <4>1. i - Len(u) \in 1..Len(t) /\ i = Len(u) + (i - Len(u))
        BY <1>2, <1>5, <2>0, <2>3
      <4> QED
        BY <4>1
    <3>2. Join(u, t)[i] = t[j]
      BY <1>4, <3>1
    <3> QED
      BY <1>6, <3>2 DEF Without
  <2>4. i \in 1..Len(s) \/ i = Len(s) + 1 \/ i > Len(s) + 1
    BY <1>5, <2>0
  <2> QED
    BY <2>1, <2>2, <2>3, <2>4
<1>7. Without(s, d) /\ Without(t, d) /\ c # d => Without(Join(u, t), d)
  BY <1>3, <1>6 DEF Without
<1>8. Len(Join(u, t)) = Len(s) + 1 + Len(t)
  BY <1>2, <1>3, <1>5
<1> QED
  BY <1>3, <1>7, <1>8 DEF u, Separated

\* A text is its beginning and the rest.
LEMMA PrefixRest ==
  ASSUME NEW T, NEW s \in Seq(T), NEW n \in 0..Len(s)
  PROVE  \E rest \in Seq(T) : s = Join(Prefix(s, n), rest) /\ Len(s) = n + Len(rest)
<1> DEFINE rest == [i \in 1..(Len(s) - n) |-> s[n + i]]
           pre  == Prefix(s, n)
<1>1. Len(s) \in Nat /\ n \in Nat /\ n <= Len(s)
  OBVIOUS
<1>2. \A i \in 1..(Len(s) - n) : n + i \in 1..Len(s)
  BY <1>1
<1>3. rest \in Seq(T) /\ Len(rest) = Len(s) - n
  BY <1>1, <1>2
<1>4. \A i \in 1..Len(rest) : rest[i] = s[n + i]
  BY <1>3
<1>5. pre \in Seq(T) /\ Len(pre) = n /\ \A i \in 1..n : pre[i] = s[i]
  BY PrefixIs
<1> HIDE DEF rest, pre
<1>6. Join(pre, rest) \in Seq(T) /\ Len(Join(pre, rest)) = Len(s)
  <2>1. Join(pre, rest) \in Seq(T) /\ Len(Join(pre, rest)) = Len(pre) + Len(rest)
    BY <1>3, <1>5, JoinIs
  <2> QED
    BY <1>1, <1>3, <1>5, <2>1
<1>7. /\ \A i \in 1..Len(pre) : Join(pre, rest)[i] = pre[i]
      /\ \A i \in 1..Len(rest) : Join(pre, rest)[Len(pre) + i] = rest[i]
  <2>1. pre \in Seq(T) /\ rest \in Seq(T)
    BY <1>3, <1>5
  <2> QED
    BY <2>1, JoinAt
<1>8. ASSUME NEW i \in 1..Len(s)
      PROVE  s[i] = Join(pre, rest)[i]
  <2>1. CASE i <= n
    BY <1>1, <1>5, <1>7, <2>1
  <2>2. CASE i > n
    <3>1. PICK j \in 1..Len(rest) : i = n + j
      <4>1. i - n \in 1..Len(rest) /\ i = n + (i - n)
        BY <1>1, <1>3, <2>2
      <4> QED
        BY <4>1
    <3> QED
      BY <1>4, <1>5, <1>7, <3>1
  <2> QED
    BY <1>1, <2>1, <2>2
<1>9. s = Join(pre, rest)
  BY <1>6, <1>8, SeqEqual
<1> QED
  BY <1>1, <1>3, <1>9 DEF pre

\* Joining texts is associative.
LEMMA JoinTwice ==
  ASSUME NEW T, NEW s \in Seq(T), NEW t \in Seq(T), NEW u \in Seq(T)
  PROVE  Join(s, Join(t, u)) = Join(Join(s, t), u)
BY ConcatAssociative, SMTT(30) DEF Join

\* What begins the parts of a text begins those of the text that it is cut from.
LEMMA SplitCut ==
  ASSUME NEW T, NEW s \in Seq(T), NEW n \in 0..Len(s), NEW t \in Seq(T), NEW c, Without(t, c),
         Len(Split(Join(Prefix(s, n), t), c)) = Len(Split(s, c)),
         NEW k \in 1..(Len(Split(s, c)) - 1)
  PROVE  Split(Join(Prefix(s, n), t), c)[k] = Split(s, c)[k]
<1> DEFINE pre == Prefix(s, n)
           ps  == Split(pre, c)
           qs  == Split(Join(pre, t), c)
           rs  == Split(s, c)
<1>1. pre \in Seq(T)
  BY PrefixIs
<1>2. PICK rest \in Seq(T) : s = Join(pre, rest)
  BY PrefixRest
<1> HIDE DEF pre
<1>3. Grows(ps, rs)
  BY <1>1, <1>2, SplitGrows
<1>4. Len(qs) = Len(ps) /\ \A j \in 1..(Len(ps) - 1) : qs[j] = ps[j]
  BY <1>1, SplitLast
<1>5. Len(qs) = Len(rs)
  BY DEF pre
<1> HIDE DEF ps, qs, rs
<1>6. k \in 1..(Len(ps) - 1)
  BY <1>4, <1>5 DEF rs
<1>7. rs[k] = ps[k] /\ qs[k] = ps[k]
  BY <1>3, <1>4, <1>6 DEF Grows
<1> QED
  BY <1>7 DEF pre, qs, rs

\* Adding the separator begins a new part.
LEMMA SplitSeparator ==
  ASSUME NEW T, NEW s \in Seq(T), NEW c \in T
  PROVE  /\ Len(Split(Append(s, c), c)) = Len(Split(s, c)) + 1
         /\ \A k \in 1..Len(Split(s, c)) : Split(Append(s, c), c)[k] = Split(s, c)[k]
         /\ Split(Append(s, c), c)[Len(Split(s, c)) + 1] = <<>>
<1> DEFINE ps == Split(s, c)
           qs == Split(Append(s, c), c)
           new == <<>>
<1>1. ps \in Parts(T)
  BY SplitIs
<1>2. qs = Extended(ps, c, c)
  BY SplitAppend
<1>3. qs = Append(ps, new)
  BY <1>2 DEF Extended
<1> HIDE DEF ps, qs
<1>4. ps \in Seq(Seq(T)) /\ new \in Seq(T)
  BY <1>1 DEF Parts
<1> HIDE DEF new
<1>5. Len(qs) = Len(ps) + 1 /\ (\A k \in 1..Len(ps) : qs[k] = ps[k]) /\ qs[Len(ps) + 1] = new
  BY <1>3, <1>4, AppendProperties
<1> QED
  BY <1>5 DEF ps, qs, new
=============================================================================
