---------------------------- MODULE TextsProofs -----------------------------
(***************************************************************************)
(* Numbers, addresses and URLs are read as they are written, and checksums *)
(* verify: for every int, every address of four octets, every URL and      *)
(* every block of data that is short enough not to overflow the sum.       *)
(***************************************************************************)
EXTENDS FormatsProofs, FiniteSetTheorems

-----------------------------------------------------------------------------
(* Numbers.                                                                *)

\* The ten digits are different characters.
LEMMA DigitCharsDiffer ==
  ASSUME NEW d \in 1 .. 10, NEW e \in 1 .. 10, DigitChars[d] = DigitChars[e]
  PROVE  d = e
<1>1. d \in {1, 2, 3, 4, 5, 6, 7, 8, 9, 10} /\ e \in {1, 2, 3, 4, 5, 6, 7, 8, 9, 10}
  OBVIOUS
<1>2. /\ DigitChars[1] = "0" /\ DigitChars[2] = "1" /\ DigitChars[3] = "2" /\ DigitChars[4] = "3"
      /\ DigitChars[5] = "4" /\ DigitChars[6] = "5" /\ DigitChars[7] = "6" /\ DigitChars[8] = "7"
      /\ DigitChars[9] = "8" /\ DigitChars[10] = "9"
  BY DEF DigitChars
<1> QED BY <1>1, <1>2

\* A digit is read as it is written.
LEMMA DigitIs ==
  ASSUME NEW d \in 0 .. 9
  PROVE  DigitChars[d + 1] \in DigitSet /\ Digit(DigitChars[d + 1]) = d
<1> DEFINE c == DigitChars[d + 1]
           x == CHOOSE e \in 1 .. 10 : DigitChars[e] = c
<1>1. d + 1 \in 1 .. 10
  OBVIOUS
<1>2. c \in DigitSet
  BY <1>1, Zenon DEF DigitSet
<1>3. x \in 1 .. 10 /\ DigitChars[x] = c
  BY <1>1, Zenon
<1>4. Digit(c) = x - 1
  BY Zenon DEF Digit
<1> HIDE DEF x
<1>5. x = d + 1
  BY <1>1, <1>3, DigitCharsDiffer
<1> QED BY <1>2, <1>4, <1>5

\* The value of a digit.
LEMMA DigitType ==
  ASSUME NEW c \in DigitSet
  PROVE  Digit(c) \in 0 .. 9
<1>1. PICK d \in 1 .. 10 : c = DigitChars[d]
  BY DEF DigitSet
<1>2. d - 1 \in 0 .. 9 /\ d - 1 + 1 = d
  OBVIOUS
<1>3. Digit(DigitChars[d - 1 + 1]) = d - 1
  BY <1>2, DigitIs, Zenon
<1> QED BY <1>1, <1>2, <1>3

\* No digit is a blank, a sign or a separator.
LEMMA DigitsApart ==
  ASSUME NEW c \in DigitSet
  PROVE  c \notin Blanks /\ c \notin Signs /\ c \notin HostEnd /\ c # "."
<1>1. PICK d \in 1 .. 10 : c = DigitChars[d]
  BY DEF DigitSet
<1>2. c \in {"0", "1", "2", "3", "4", "5", "6", "7", "8", "9"}
  <2>1. d \in {1, 2, 3, 4, 5, 6, 7, 8, 9, 10}
    OBVIOUS
  <2>2. /\ DigitChars[1] = "0" /\ DigitChars[2] = "1" /\ DigitChars[3] = "2" /\ DigitChars[4] = "3"
        /\ DigitChars[5] = "4" /\ DigitChars[6] = "5" /\ DigitChars[7] = "6" /\ DigitChars[8] = "7"
        /\ DigitChars[9] = "8" /\ DigitChars[10] = "9"
    BY DEF DigitChars
  <2> QED BY <1>1, <2>1, <2>2
<1> QED BY <1>2 DEF Blanks, Signs, HostEnd

\* A number is less than what it is divided by, and nothing else is left.
LEMMA ModSmall ==
  ASSUME NEW x \in Nat, NEW m \in Nat, x < m
  PROVE  x % m = x
  OBVIOUS

\* A remainder is in its range.
LEMMA ModRange ==
  ASSUME NEW x \in Int, NEW m \in Nat, m > 0
  PROVE  x % m \in 0 .. m - 1
  OBVIOUS

\* The values IntMax is doubled through.
LEMMA IntMaxIs ==
  /\ IntMax \in Nat
  /\ \E f : /\ f[0] = 0 /\ f[IntBits - 1] = IntMax /\ (\A k \in 0 .. IntBits - 1 : f[k] \in Nat)
            /\ \A k \in 1 .. IntBits - 1 : f[k] = 2 * f[k - 1] + 1
<1> DEFINE n == IntBits - 1
           step == [k \in 1 .. n |-> [v \in Nat |-> 2 * v + 1]]
<1>1. n \in Nat
  BY TextsAssumption
<1>2. IntMax = Runs(step, 0, n)
  BY Zenon DEF IntMax
<1>3. PICK f : Through(f, step, 0, n)
  BY <1>1, RunsBy
<1>4. f[0] = 0 /\ f[n] = IntMax /\ \A k \in 1 .. n : f[k] = step[k][f[k - 1]]
  BY <1>2, <1>3, Zenon DEF Through
<1> DEFINE T == {k \in 0 .. n : f[k] \in Nat}
<1>5. \A k \in 0 .. n : k \in T
  <2>1. 0 \in T
    BY <1>1, <1>4
  <2>2. ASSUME NEW k \in 1 .. n, k - 1 \in T PROVE k \in T
    <3>1. f[k - 1] \in Nat /\ k \in 0 .. n
      BY <1>1, <2>2
    <3>2. f[k] = 2 * f[k - 1] + 1
      BY <1>4, <2>2, <3>1, Zenon
    <3> QED BY <3>1, <3>2
  <2> HIDE DEF T, n
  <2> QED BY <1>1, <2>1, <2>2, LoopInduction, Zenon
<1>6. \A k \in 0 .. n : f[k] \in Nat
  BY <1>5, Zenon
<1>7. ASSUME NEW k \in 1 .. n PROVE f[k] = 2 * f[k - 1] + 1
  <2>1. k - 1 \in 0 .. n
    BY <1>1
  <2> QED BY <1>4, <1>6, <2>1, Zenon
<1>8. n \in 0 .. n
  BY <1>1
<1>9. IntMax \in Nat
  BY <1>4, <1>6, <1>8, Zenon
<1> QED BY <1>4, <1>6, <1>7, <1>9, Zenon

\* An int is itself.
LEMMA AsIntIs ==
  ASSUME NEW n \in IntMin .. IntMax
  PROVE  AsInt(n) = n /\ n \in Int
<1>1. IntMax \in Nat /\ IntMin = -IntMax - 1
  BY IntMaxIs DEF IntMin
<1> DEFINE x == n - IntMin
           m == 2 * (IntMax + 1)
<1>2. x \in Nat /\ m \in Nat /\ x < m /\ n \in Int /\ x + IntMin = n
  BY <1>1
<1> HIDE DEF x, m
<1>3. x % m = x
  BY <1>2, ModSmall
<1>4. AsInt(n) = (x % m) + IntMin
  BY Zenon DEF AsInt, x, m
<1> QED BY <1>2, <1>3, <1>4

\* AsInt makes an int.
LEMMA AsIntType ==
  ASSUME NEW n \in Int
  PROVE  AsInt(n) \in Int
<1>1. IntMax \in Nat /\ IntMin = -IntMax - 1
  BY IntMaxIs DEF IntMin
<1> DEFINE x == n - IntMin
           m == 2 * (IntMax + 1)
<1>2. x \in Int /\ m \in Nat /\ m > 0
  BY <1>1
<1> HIDE DEF x, m
<1>3. x % m \in 0 .. m - 1
  BY <1>2, ModRange
<1>4. AsInt(n) = (x % m) + IntMin
  BY Zenon DEF AsInt, x, m
<1> DEFINE y == x % m
<1> HIDE DEF y
<1>5. y \in Int /\ AsInt(n) = y + IntMin /\ IntMin \in Int
  BY <1>1, <1>2, <1>3, <1>4 DEF y
<1> QED BY <1>5

\* What atoi makes of the digits that follow a value.
ValueStep(digits) == [k \in 1 .. Len(digits) |-> [r \in Int |-> AsInt(r * 10 + Digit(digits[k]))]]
ValueFrom(a, digits) == Runs(ValueStep(digits), a, Len(digits))

\* Nothing follows.
LEMMA ValueNone ==
  ASSUME NEW a
  PROVE  ValueFrom(a, <<>>) = a
<1> DEFINE step == ValueStep(<<>>)
<1>1. Len(<<>>) = 0
  OBVIOUS
<1>2. PICK f : Through(f, step, a, 0)
  BY RunsBy
<1> HIDE DEF step
<1>3. f[0] = a /\ f[0] = Runs(step, a, 0)
  BY <1>2, Zenon DEF Through
<1> QED BY <1>1, <1>3, Zenon DEF ValueFrom, step

\* A turn of the loop.
LEMMA ValueTurn ==
  ASSUME NEW digits \in Seq(DigitSet), NEW k \in 1 .. Len(digits), NEW r \in Int
  PROVE  /\ ValueStep(digits)[k][r] = AsInt(r * 10 + Digit(digits[k]))
         /\ AsInt(r * 10 + Digit(digits[k])) \in Int
<1>1. digits[k] \in DigitSet
  OBVIOUS
<1>2. Digit(digits[k]) \in Int
  BY <1>1, DigitType
<1>3. r * 10 + Digit(digits[k]) \in Int
  BY <1>2
<1>4. AsInt(r * 10 + Digit(digits[k])) \in Int
  BY <1>3, AsIntType, Zenon
<1> QED BY <1>4, Zenon DEF ValueStep

\* The first digit goes into the value.
LEMMA ValueMore ==
  ASSUME NEW a \in Int, NEW c \in DigitSet, NEW digits \in Seq(DigitSet)
  PROVE  ValueFrom(a, <<c>> \o digits) = ValueFrom(AsInt(a * 10 + Digit(c)), digits)
<1> DEFINE n == Len(digits)
           t == <<c>> \o digits
           b == AsInt(a * 10 + Digit(c))
<1>1. n \in Nat /\ t \in Seq(DigitSet) /\ Len(t) = n + 1 /\ t[1] = c /\ n + 1 \in Nat /\ 1 \in 1 .. n + 1
  OBVIOUS
<1>2. \A k \in 1 .. n : t[k + 1] = digits[k]
  OBVIOUS
<1> HIDE DEF t
<1>3. PICK f : Through(f, ValueStep(t), a, n + 1)
  BY <1>1, RunsBy
<1>4. f[0] = a /\ f[n + 1] = ValueFrom(a, t) /\ \A k \in 1 .. n + 1 : f[k] = ValueStep(t)[k][f[k - 1]]
  BY <1>1, <1>3, Zenon DEF Through, ValueFrom
<1>5. f[1] = b /\ b \in Int
  <2>1. f[1 - 1] = a
    BY <1>4
  <2>2. f[1] = ValueStep(t)[1][f[1 - 1]]
    BY <1>1, <1>4, Zenon
  <2>3. 1 \in 1 .. Len(t)
    BY <1>1, Zenon
  <2>4. ValueStep(t)[1][a] = AsInt(a * 10 + Digit(t[1])) /\ AsInt(a * 10 + Digit(t[1])) \in Int
    BY <1>1, <2>3, ValueTurn, Zenon
  <2> QED BY <1>1, <2>1, <2>2, <2>4, Zenon
<1> DEFINE P == [k \in 0 .. n |-> {u \in Int : u = f[k + 1]}]
<1>6. b \in P[0]
  <2>1. 0 \in 0 .. n /\ 0 + 1 = 1
    BY <1>1
  <2> HIDE DEF b
  <2> QED BY <1>5, <2>1, Zenon
<1>7. ASSUME NEW k \in 1 .. n, NEW u \in P[k - 1] PROVE ValueStep(digits)[k][u] \in P[k]
  <2>1. k - 1 \in 0 .. n /\ k \in 0 .. n /\ k - 1 + 1 = k /\ k + 1 \in 1 .. n + 1 /\ k + 1 - 1 = k
    BY <1>1
  <2>2. u \in Int /\ u = f[k]
    BY <1>7, <2>1, Zenon
  <2>3. f[k + 1] = ValueStep(t)[k + 1][u]
    <3> DEFINE x == k + 1
    <3>1. x \in 1 .. n + 1 /\ x - 1 = k
      BY <2>1
    <3> HIDE DEF x
    <3>2. f[x] = ValueStep(t)[x][f[x - 1]]
      BY <1>4, <3>1, Zenon
    <3>3. f[x] = ValueStep(t)[x][u]
      BY <2>2, <3>1, <3>2, Zenon
    <3> QED BY <3>3 DEF x
  <2>4. ValueStep(t)[k + 1][u] = AsInt(u * 10 + Digit(t[k + 1]))
    <3>1. k + 1 \in 1 .. Len(t)
      BY <1>1, <2>1, Zenon
    <3> QED BY <1>1, <2>2, <3>1, ValueTurn, Zenon
  <2>5. /\ ValueStep(digits)[k][u] = AsInt(u * 10 + Digit(digits[k]))
        /\ AsInt(u * 10 + Digit(digits[k])) \in Int
    BY <2>2, ValueTurn, Zenon
  <2>6. ValueStep(digits)[k][u] \in Int /\ ValueStep(digits)[k][u] = f[k + 1]
    BY <1>2, <2>3, <2>4, <2>5, Zenon
  <2> QED BY <2>1, <2>6, Zenon
<1> HIDE DEF P, b
<1>8. Runs(ValueStep(digits), b, n) \in P[n]
  BY <1>1, <1>6, <1>7, RunsIn
<1>9. n \in 0 .. n
  BY <1>1
<1>10. Runs(ValueStep(digits), b, n) = f[n + 1]
  BY <1>8, <1>9, Zenon DEF P
<1> QED BY <1>4, <1>10, Zenon DEF ValueFrom, b, t

\* The numbers of up to three digits.
ThreeDigits == 10 * 100

\* A value with the digits behind it that itoa has written already.
Split(s, n) ==
  /\ s \in [value : Nat, out : Seq(DigitSet)] /\ s.value <= IntMax
  /\ ValueFrom(s.value, s.out) = n
  /\ n < ThreeDigits => \/ Len(s.out) = 0 /\ s.value < ThreeDigits
                        \/ Len(s.out) = 1 /\ s.value < 100
                        \/ Len(s.out) = 2 /\ s.value < 10
                        \/ Len(s.out) <= 3 /\ s.value = 0

\* Another digit.
LEMMA SplitMore ==
  ASSUME NEW n, NEW s, Split(s, n), s.value # 0
  PROVE  Split(DigitStep(s), n) /\ DigitStep(s).value = s.value \div 10
<1> DEFINE v == s.value
           o == s.out
           d == v % 10
           w == v \div 10
           c == DigitChars[d + 1]
           e == <<c>> \o o
           r == DigitStep(s)
<1>1. v \in Nat /\ o \in Seq(DigitSet) /\ v <= IntMax /\ ValueFrom(v, o) = n
  BY Zenon DEF Split
<1>2. IntMax \in Nat
  BY IntMaxIs
<1>3. r = [value |-> w, out |-> e]
  BY Zenon DEF DigitStep
<1> HIDE DEF v, o
<1>4. d \in 0 .. 9 /\ w \in Nat /\ w * 10 + d = v /\ w <= v
  BY <1>1
<1> HIDE DEF d, w
<1>5. c \in DigitSet /\ Digit(c) = d
  BY <1>4, DigitIs, Zenon
<1> HIDE DEF c
<1>6. ValueFrom(w, e) = n
  <2>1. ValueFrom(w, e) = ValueFrom(AsInt(w * 10 + Digit(c)), o)
    BY <1>1, <1>4, <1>5, ValueMore
  <2>2. v \in IntMin .. IntMax
    BY <1>1, <1>2 DEF IntMin
  <2>3. AsInt(v) = v
    BY <2>2, AsIntIs, Zenon
  <2> QED BY <1>1, <1>4, <1>5, <2>1, <2>3, Zenon
<1>7. e \in Seq(DigitSet) /\ Len(e) = Len(o) + 1 /\ Len(o) \in Nat
  BY <1>1, <1>5
<1> HIDE DEF e
<1>8. r.value = w /\ r.out = e /\ r \in [value : Nat, out : Seq(DigitSet)]
  BY <1>3, <1>4, <1>7
<1>9. w <= IntMax
  BY <1>1, <1>2, <1>4
<1>10. ASSUME n < ThreeDigits
       PROVE  \/ Len(e) = 0 /\ w < ThreeDigits
              \/ Len(e) = 1 /\ w < 100
              \/ Len(e) = 2 /\ w < 10
              \/ Len(e) <= 3 /\ w = 0
  <2>1. \/ Len(o) = 0 /\ v < ThreeDigits
        \/ Len(o) = 1 /\ v < 100
        \/ Len(o) = 2 /\ v < 10
        \/ Len(o) <= 3 /\ v = 0
    BY <1>10, Zenon DEF Split, v, o
  <2>2. v # 0
    BY DEF v
  <2>3. v \in Nat
    BY <1>1
  <2>4. (v < ThreeDigits => w < 100) /\ (v < 100 => w < 10) /\ (v < 10 => w = 0)
    BY ONLY <1>4, <2>3 DEF ThreeDigits
  <2>5. (Len(o) = 0 => Len(e) = 1) /\ (Len(o) = 1 => Len(e) = 2) /\ (Len(o) = 2 => Len(e) <= 3)
    <3> DEFINE i == Len(o)
               j == Len(e)
    <3>1. j = i + 1 /\ i \in Nat
      BY <1>7
    <3> HIDE DEF i, j
    <3>2. (i = 0 => j = 1) /\ (i = 1 => j = 2) /\ (i = 2 => j <= 3)
      BY <3>1
    <3> QED BY <3>2 DEF i, j
  <2>6. CASE Len(o) = 0 /\ v < ThreeDigits
    BY <2>4, <2>5, <2>6, Zenon
  <2>7. CASE Len(o) = 1 /\ v < 100
    BY <2>4, <2>5, <2>7, Zenon
  <2>8. CASE Len(o) = 2 /\ v < 10
    BY <2>4, <2>5, <2>8, Zenon
  <2> QED BY <2>1, <2>2, <2>6, <2>7, <2>8, Zenon
<1> HIDE DEF r
<1>11. Split(r, n)
  <2>1. ASSUME n < ThreeDigits
        PROVE  \/ Len(r.out) = 0 /\ r.value < ThreeDigits
               \/ Len(r.out) = 1 /\ r.value < 100
               \/ Len(r.out) = 2 /\ r.value < 10
               \/ Len(r.out) <= 3 /\ r.value = 0
    BY <1>8, <1>10, <2>1, Zenon
  <2> QED BY <1>6, <1>8, <1>9, <2>1, Zenon DEF Split
<1> QED BY <1>8, <1>11, Zenon DEF r, w, v

\* The digits of a number.
AreDigits(out, n) ==
  out \in Seq(DigitSet) /\ out # <<>> /\ Value(out) = n /\ (n < ThreeDigits => Len(out) <= 3)

\* itoa writes digits that atoi reads.
LEMMA DigitsIs ==
  ASSUME NEW n \in 1 .. IntMax
  PROVE  AreDigits(Digits(n), n)
<1> DEFINE B == IntBits
           S == [value : Nat, out : Seq(DigitSet)]
           step == [k \in 1 .. B |-> [s \in S |-> DigitStep(s)]]
           a == [value |-> n, out |-> <<>>]
           e == Runs(step, a, B)
<1>1. B \in Nat /\ B > 0 /\ IntMax \in Nat
  BY TextsAssumption, IntMaxIs
<1>2. PICK f : /\ f[0] = 0 /\ f[B - 1] = IntMax /\ (\A k \in 0 .. B - 1 : f[k] \in Nat)
               /\ \A k \in 1 .. B - 1 : f[k] = 2 * f[k - 1] + 1
  BY IntMaxIs, Zenon
<1> DEFINE P == [k \in 0 .. B |-> {s \in S : /\ Split(s, n) /\ (k < B => s.value <= f[B - 1 - k])
                                             /\ (k = B => s.value = 0)}]
<1>3. Digits(n) = e.out
  BY Zenon DEF Digits
<1>4. a \in P[0]
  <2>1. a \in S /\ a.value = n /\ a.out = <<>> /\ n <= IntMax /\ n \in Nat
    BY <1>1
  <2> HIDE DEF a
  <2>2. Split(a, n)
    <3>1. ValueFrom(n, <<>>) = n
      BY ValueNone
    <3>2. Len(<<>>) = 0
      OBVIOUS
    <3> QED BY <2>1, <3>1, <3>2, Zenon DEF Split
  <2>3. 0 \in 0 .. B /\ B - 1 - 0 = B - 1 /\ ~(0 = B)
    BY <1>1
  <2>4. a.value <= f[B - 1 - 0]
    BY <1>2, <2>1, <2>3, Zenon
  <2> HIDE DEF S
  <2> QED BY <2>1, <2>2, <2>3, <2>4, Zenon
<1>5. ASSUME NEW k \in 1 .. B, NEW s \in P[k - 1] PROVE step[k][s] \in P[k]
  <2>1. k - 1 \in 0 .. B /\ k \in 0 .. B /\ k - 1 < B /\ B - 1 - (k - 1) = B - k /\ B - k \in 0 .. B - 1
    BY <1>1
  <2>2. s \in S /\ Split(s, n) /\ s.value <= f[B - k]
    <3>1. s \in S /\ Split(s, n) /\ s.value <= f[B - 1 - (k - 1)]
      BY <1>5, <2>1, Zenon
    <3> QED BY <2>1, <3>1, Zenon
  <2>3. step[k][s] = DigitStep(s)
    BY <2>2, Zenon
  <2> DEFINE d == DigitStep(s)
  <2>4. s.value \in Nat /\ f[B - k] \in Nat
    BY <1>2, <2>1, <2>2, Zenon
  <2>5. Split(d, n) /\ d \in S /\ d.value = s.value \div 10
    <3>1. CASE s.value = 0
      <4>1. d = s
        BY <3>1, Zenon DEF DigitStep
      <4> QED BY <2>2, <3>1, <4>1
    <3>2. CASE s.value # 0
      <4>1. Split(d, n) /\ d.value = s.value \div 10
        BY <2>2, <3>2, SplitMore
      <4> QED BY <4>1, Zenon DEF Split
    <3> QED BY <3>1, <3>2
  <2>6. k < B => d.value <= f[B - 1 - k]
    <3>1. SUFFICES ASSUME k < B PROVE d.value <= f[B - 1 - k]
      OBVIOUS
    <3>2. B - k \in 1 .. B - 1 /\ B - k - 1 = B - 1 - k /\ B - 1 - k \in 0 .. B - 1
      BY <1>1, <3>1
    <3> DEFINE y == f[B - 1 - k]
    <3>3. f[B - k] = 2 * f[B - k - 1] + 1
      BY <1>2, <3>2, Zenon
    <3>4. f[B - k] = 2 * y + 1 /\ y \in Nat
      BY <1>2, <3>2, <3>3, Zenon
    <3> HIDE DEF y
    <3> DEFINE v == s.value
               z == f[B - k]
               w == d.value
    <3>5. v \in Nat /\ v <= z /\ z = 2 * y + 1 /\ w = v \div 10
      BY <2>2, <2>4, <2>5, <3>4, Zenon
    <3> HIDE DEF v, z, w
    <3>6. w <= y
      BY ONLY <3>4, <3>5
    <3> QED BY <3>6 DEF w, y
  <2>7. k = B => d.value = 0
    <3>1. SUFFICES ASSUME k = B PROVE d.value = 0
      OBVIOUS
    <3>2. B - k = 0
      BY <1>1, <3>1
    <3>3. s.value <= 0
      BY <1>2, <2>2, <3>2, Zenon
    <3> DEFINE v == s.value
               w == d.value
    <3>4. v \in Nat /\ v <= 0 /\ w = v \div 10
      BY <2>4, <2>5, <3>3, Zenon
    <3> HIDE DEF v, w
    <3>5. w = 0
      BY ONLY <3>4
    <3> QED BY <3>5 DEF w
  <2> HIDE DEF step, S, d
  <2> QED BY <2>1, <2>3, <2>5, <2>6, <2>7, Zenon DEF d
<1> HIDE DEF step, a, P, S, e
<1>6. e \in P[B]
  BY <1>1, <1>4, <1>5, RunsIn DEF e
<1>7. B \in 0 .. B
  BY <1>1
<1>8. Split(e, n) /\ e.value = 0
  BY <1>6, <1>7, Zenon DEF P
<1> DEFINE o == e.out
<1>9. o \in Seq(DigitSet) /\ ValueFrom(0, o) = n
  BY <1>8, Zenon DEF Split
<1>10. o # <<>>
  <2>1. ASSUME o = <<>> PROVE FALSE
    <3>1. ValueFrom(0, <<>>) = 0
      BY ValueNone
    <3>2. n = 0
      BY <1>9, <2>1, <3>1, Zenon
    <3> QED BY <3>2
  <2> QED BY <2>1, Zenon
<1>11. Value(o) = n
  BY <1>9, Zenon DEF Value, ValueFrom, ValueStep
<1>12. ASSUME n < ThreeDigits PROVE Len(o) <= 3
  <2>1. \/ Len(o) = 0 \/ Len(o) = 1 \/ Len(o) = 2 \/ Len(o) <= 3
    BY <1>8, <1>12, Zenon DEF Split
  <2> DEFINE m == Len(o)
  <2> HIDE DEF m
  <2>2. m = 0 \/ m = 1 \/ m = 2 \/ m <= 3
    BY <2>1 DEF m
  <2>3. m <= 3
    BY ONLY <2>2
  <2> QED BY <2>3 DEF m
<1> HIDE DEF o
<1>13. AreDigits(o, n)
  BY <1>9, <1>10, <1>11, <1>12, Zenon DEF AreDigits
<1> QED BY <1>3, <1>13, Zenon DEF o

\* All of a text of digits is its longest prefix of them.
LEMMA DigitsPrefix ==
  ASSUME NEW d \in Seq(DigitSet)
  PROVE  Spn(d, DigitSet) = Len(d) /\ SubSeq(d, 1, Len(d)) = d /\ Spn(d, Blanks) = 0
<1>1. Len(d) \in Nat /\ \A k \in 1 .. Len(d) : d[k] \in DigitSet
  OBVIOUS
<1>2. InPrefix(d, DigitSet, Len(d))
  BY <1>1 DEF InPrefix
<1>3. Spn(d, DigitSet) = Len(d)
  BY <1>1, <1>2, SpnIs
<1>4. InPrefix(d, Blanks, 0)
  <2>1. Len(d) = 0 \/ d[1] \notin Blanks
    <3>1. Len(d) = 0 \/ 1 \in 1 .. Len(d)
      BY <1>1
    <3> QED BY <1>1, <3>1, DigitsApart
  <2>2. 0 \in 0 .. Len(d) /\ 0 + 1 = 1
    BY <1>1
  <2>3. \A k \in 1 .. 0 : d[k] \in Blanks
    OBVIOUS
  <2> QED BY <2>1, <2>2, <2>3, Zenon DEF InPrefix
<1>5. Spn(d, Blanks) = 0
  BY <1>1, <1>4, SpnIs
<1>6. SubSeq(d, 1, Len(d)) = d
  OBVIOUS
<1> QED BY <1>3, <1>5, <1>6

\* atoi of a text of digits.
LEMMA AtoiDigits ==
  ASSUME NEW d \in Seq(DigitSet)
  PROVE  atoi(d) = Value(d)
<1> DEFINE s == From(d, Spn(d, Blanks) + 1)
           signed == s # <<>> /\ s[1] \in Signs
           rest == IF signed THEN From(s, 2) ELSE s
           n == Value(SubSeq(rest, 1, Spn(rest, DigitSet)))
<1>1. s = d
  <2>1. Spn(d, Blanks) + 1 = 1
    BY DigitsPrefix
  <2> QED BY <2>1, DigitsPrefix, Zenon DEF From
<1>2. ~signed
  <2>1. CASE d = <<>>
    BY <1>1, <2>1, Zenon
  <2>2. CASE d # <<>>
    <3>1. d[1] \in DigitSet
      BY <2>2
    <3> QED BY <1>1, <3>1, DigitsApart, Zenon
  <2> QED BY <2>1, <2>2
<1>3. atoi(d) = IF signed /\ s[1] = "-" THEN AsInt(-n) ELSE n
  BY Zenon DEF atoi
<1>4. rest = d
  BY <1>1, <1>2, Zenon
<1>5. n = Value(d)
  BY <1>4, DigitsPrefix, Zenon
<1> HIDE DEF n, signed, s
<1> QED BY <1>2, <1>3, <1>5, Zenon

\* atoi of a minus and digits.
LEMMA AtoiMinus ==
  ASSUME NEW d \in Seq(DigitSet)
  PROVE  atoi(<<"-">> \o d) = AsInt(-Value(d))
<1> DEFINE t == <<"-">> \o d
           s == From(t, Spn(t, Blanks) + 1)
           signed == s # <<>> /\ s[1] \in Signs
           rest == IF signed THEN From(s, 2) ELSE s
           n == Value(SubSeq(rest, 1, Spn(rest, DigitSet)))
           C == DigitSet \cup {"-"}
<1>1. t \in Seq(C) /\ Len(t) = Len(d) + 1 /\ t[1] = "-" /\ Len(d) \in Nat /\ \A k \in 1 .. Len(d) : t[k + 1] = d[k]
  OBVIOUS
<1> HIDE DEF t, C
<1>2. Spn(t, Blanks) = 0
  <2>1. "-" \notin Blanks
    BY DEF Blanks
  <2>2. 0 \in 0 .. Len(t) /\ 0 + 1 = 1 /\ Len(t) \in Nat
    BY <1>1
  <2>3. \A k \in 1 .. 0 : t[k] \in Blanks
    OBVIOUS
  <2>4. InPrefix(t, Blanks, 0)
    BY <1>1, <2>1, <2>2, <2>3, Zenon DEF InPrefix
  <2> QED BY <2>2, <2>4, SpnIs
<1>3. s = t
  <2>1. From(t, 1) = t
    BY <1>1 DEF From
  <2>2. 0 + 1 = 1
    OBVIOUS
  <2> QED BY <1>2, <2>1, <2>2, Zenon
<1>4. signed /\ s[1] = "-"
  <2>1. t # <<>>
    BY <1>1
  <2>2. "-" \in Signs
    BY DEF Signs
  <2> QED BY <1>1, <1>3, <2>1, <2>2, Zenon
<1>5. From(t, 2) = d
  <2> DEFINE r == From(t, 2)
  <2>1. 2 \in 1 .. Len(t) + 1 /\ Len(t) - 2 + 1 = Len(d)
    BY <1>1
  <2>2. r \in Seq(C) /\ Len(r) = Len(t) - 2 + 1 /\ \A k \in 1 .. Len(t) - 2 + 1 : r[k] = t[2 + k - 1]
    BY <1>1, <2>1, FromIs
  <2> HIDE DEF r
  <2>3. ASSUME NEW k \in 1 .. Len(d) PROVE r[k] = d[k]
    <3>1. 2 + k - 1 = k + 1
      OBVIOUS
    <3> QED BY <1>1, <2>1, <2>2, <3>1, Zenon
  <2>4. Len(r) = Len(d)
    BY <2>1, <2>2, Zenon
  <2>5. r = d
    BY <2>2, <2>3, <2>4
  <2> QED BY <2>5 DEF r
<1>6. rest = d
  BY <1>3, <1>4, <1>5, Zenon
<1>7. n = Value(d)
  BY <1>6, DigitsPrefix, Zenon
<1>8. atoi(t) = IF signed /\ s[1] = "-" THEN AsInt(-n) ELSE n
  BY Zenon DEF atoi
<1>9. atoi(t) = AsInt(-Value(d))
  <2> HIDE DEF n, signed, s
  <2> QED BY <1>4, <1>7, <1>8, Zenon
<1> QED BY <1>9 DEF t

\* itoa of a natural number.
LEMMA ItoaIs ==
  ASSUME NEW v \in 0 .. IntMax
  PROVE  AreDigits(itoa(v), v)
<1>1. ~(v < 0) /\ IntMax \in Nat
  BY IntMaxIs
<1> DEFINE t == IF v = 0 THEN <<"0">> ELSE Digits(v)
<1>2. itoa(v) = <<>> \o t
  BY <1>1, Zenon DEF itoa
<1>3. AreDigits(t, v)
  <2>1. CASE v = 0
    <3> DEFINE z == <<"0">>
    <3>1. "0" = DigitChars[0 + 1] /\ 0 \in 0 .. 9
      BY DEF DigitChars
    <3>2. "0" \in DigitSet /\ Digit("0") = 0
      BY <3>1, DigitIs, Zenon
    <3>3. z \in Seq(DigitSet) /\ z # <<>> /\ Len(z) <= 3 /\ z = <<"0">> \o <<>>
      BY <3>2
    <3>4. Value(z) = 0
      <4>1. ValueFrom(0, <<"0">> \o <<>>) = ValueFrom(AsInt(0 * 10 + Digit("0")), <<>>)
        <5>1. <<>> \in Seq(DigitSet) /\ 0 \in Int
          OBVIOUS
        <5> QED BY <3>2, <5>1, ValueMore, Zenon
      <4>2. 0 * 10 + 0 = 0 /\ 0 \in IntMin .. IntMax
        BY <1>1 DEF IntMin
      <4>3. AsInt(0 * 10 + Digit("0")) = 0
        BY <3>2, <4>2, AsIntIs, Zenon
      <4>4. ValueFrom(0, <<>>) = 0
        BY ValueNone
      <4> HIDE DEF z
      <4> QED BY <3>3, <4>1, <4>3, <4>4, Zenon DEF Value, ValueFrom, ValueStep
    <3>5. t = z
      BY <2>1, Zenon
    <3> HIDE DEF z, t
    <3> QED BY <2>1, <3>3, <3>4, <3>5, Zenon DEF AreDigits
  <2>2. CASE v # 0
    <3>1. v \in 1 .. IntMax
      BY <1>1, <2>2
    <3> QED BY <2>2, <3>1, DigitsIs, Zenon
  <2> QED BY <2>1, <2>2
<1> HIDE DEF t
<1>4. <<>> \o t = t
  <2>1. t \in Seq(DigitSet)
    BY <1>3, Zenon DEF AreDigits
  <2> QED BY <2>1
<1> QED BY <1>2, <1>3, <1>4, Zenon

\* atoi reads what itoa writes.
LEMMA AtoiItoa ==
  ASSUME NEW v \in IntMin .. IntMax, v # IntMin
  PROVE  atoi(itoa(v)) = v
<1>1. IntMax \in Nat /\ IntMin = -IntMax - 1
  BY IntMaxIs DEF IntMin
<1>2. CASE v >= 0
  <2>1. v \in 0 .. IntMax
    BY <1>1, <1>2
  <2>2. itoa(v) \in Seq(DigitSet) /\ Value(itoa(v)) = v
    BY <2>1, ItoaIs, Zenon DEF AreDigits
  <2> QED BY <2>2, AtoiDigits, Zenon
<1>3. CASE ~(v >= 0)
  <2> DEFINE n == -v
  <2>1. v < 0 /\ n \in 1 .. IntMax /\ n \in IntMin .. IntMax /\ n # 0 /\ ~(n < 0) /\ -n = v
    BY <1>1, <1>3
  <2>2. AsInt(-v) = n
    BY <2>1, AsIntIs, Zenon
  <2> HIDE DEF n
  <2>3. itoa(v) = <<"-">> \o Digits(n)
    BY <2>1, <2>2, Zenon DEF itoa
  <2>4. Digits(n) \in Seq(DigitSet) /\ Value(Digits(n)) = n
    BY <2>1, DigitsIs, Zenon DEF AreDigits
  <2>5. atoi(itoa(v)) = AsInt(-n)
    BY <2>3, <2>4, AtoiMinus, Zenon
  <2>6. AsInt(v) = v
    BY AsIntIs, Zenon
  <2> QED BY <2>1, <2>5, <2>6, Zenon
<1> QED BY <1>2, <1>3

-----------------------------------------------------------------------------
(* URLs.                                                                   *)

\* Sequences with the same elements are equal.
LEMMA SameElements ==
  ASSUME NEW S, NEW s \in Seq(S), NEW t \in Seq(S), Len(s) = Len(t), \A k \in 1 .. Len(s) : s[k] = t[k]
  PROVE  s = t
  OBVIOUS

\* A sequence and what follows it.
PutTogether(t, a, b) ==
  /\ Len(t) = Len(a) + Len(b) /\ Len(a) \in Nat /\ Len(b) \in Nat
  /\ \A k \in 1 .. Len(a) : t[k] = a[k]
  /\ b # <<>> => t[Len(a) + 1] = b[1] /\ Len(b) > 0
  /\ SubSeq(t, 1, Len(a)) = a /\ From(t, Len(a) + 1) = b

\* The parts a text is put together of are found again.
LEMMA PartsAgain ==
  ASSUME NEW C, NEW a \in Seq(C), NEW b \in Seq(C)
  PROVE  PutTogether(a \o b, a, b) /\ a \o b \in Seq(C)
<1> DEFINE t == a \o b
           h == SubSeq(t, 1, Len(a))
           r == From(t, Len(a) + 1)
<1>1. /\ t \in Seq(C) /\ Len(t) = Len(a) + Len(b) /\ Len(a) \in Nat /\ Len(b) \in Nat
      /\ \A k \in 1 .. Len(a) : t[k] = a[k]
  OBVIOUS
<1>2. \A k \in 1 .. Len(b) : t[Len(a) + k] = b[k]
  OBVIOUS
<1> HIDE DEF t
<1>3. b # <<>> => t[Len(a) + 1] = b[1] /\ Len(b) > 0
  BY <1>2
<1>4. h = a
  <2>1. h \in Seq(C) /\ Len(h) = Len(a) /\ \A k \in 1 .. Len(a) : h[k] = t[k]
    BY <1>1
  <2> HIDE DEF h
  <2> QED BY <1>1, <2>1
<1>5. r = b
  <2>1. Len(a) + 1 \in 1 .. Len(t) + 1 /\ Len(t) - (Len(a) + 1) + 1 = Len(b)
    BY <1>1
  <2>2. /\ r \in Seq(C) /\ Len(r) = Len(t) - (Len(a) + 1) + 1
        /\ \A k \in 1 .. Len(t) - (Len(a) + 1) + 1 : r[k] = t[Len(a) + 1 + k - 1]
    BY <1>1, <2>1, FromIs
  <2> HIDE DEF r
  <2>3. ASSUME NEW k \in 1 .. Len(b) PROVE r[k] = b[k]
    <3>1. Len(a) + 1 + k - 1 = Len(a) + k
      BY <1>1
    <3> QED BY <1>2, <2>1, <2>2, <3>1, Zenon
  <2>4. Len(r) = Len(b)
    BY <2>1, <2>2, Zenon
  <2> QED BY <2>2, <2>3, <2>4
<1> HIDE DEF h, r
<1>6. PutTogether(t, a, b)
  BY <1>1, <1>3, <1>4, <1>5, Zenon DEF PutTogether, h, r
<1> QED BY <1>1, <1>6 DEF t

\* Five digits at most make no more than the numbers of five digits.
Small(v, k) ==
  /\ v \in Nat /\ (k = 0 => v = 0) /\ (k = 1 => v <= 9) /\ (k = 2 => v <= 99)
  /\ (k = 3 => v <= 999) /\ (k = 4 => v < 10 * 1000) /\ (k = 5 => v < FiveDigits)

\* A digit more keeps the value that atoi adds up within its number of digits.
LEMMA SmallMore ==
  ASSUME NEW k \in 1 .. 5, NEW v, Small(v, k - 1), NEW d \in 0 .. 9
  PROVE  Small(v * 10 + d, k)
<1>1. FiveDigits = 10 * (10 * 1000)
  BY DEF FiveDigits
<1> DEFINE w == v * 10 + d
<1>2. \/ (k = 1 /\ k - 1 = 0) \/ (k = 2 /\ k - 1 = 1) \/ (k = 3 /\ k - 1 = 2)
      \/ (k = 4 /\ k - 1 = 3) \/ (k = 5 /\ k - 1 = 4)
  OBVIOUS
<1>3. ASSUME Small(v, 0) PROVE Small(w, 1)
  BY ONLY <1>1, <1>3, d \in 0 .. 9 DEF Small
<1>4. ASSUME Small(v, 1) PROVE Small(w, 2)
  BY ONLY <1>1, <1>4, d \in 0 .. 9 DEF Small
<1>5. ASSUME Small(v, 2) PROVE Small(w, 3)
  BY ONLY <1>1, <1>5, d \in 0 .. 9 DEF Small
<1>6. ASSUME Small(v, 3) PROVE Small(w, 4)
  BY ONLY <1>1, <1>6, d \in 0 .. 9 DEF Small
<1>7. ASSUME Small(v, 4) PROVE Small(w, 5)
  BY ONLY <1>1, <1>7, d \in 0 .. 9 DEF Small
<1> HIDE DEF w
<1>8. Small(w, k)
  BY <1>2, <1>3, <1>4, <1>5, <1>6, <1>7, Zenon
<1> QED BY <1>8 DEF w

\* A value of at most five digits is one of the numbers of five digits.
LEMMA SmallRange ==
  ASSUME NEW k \in 0 .. 5, NEW v, Small(v, k)
  PROVE  v \in 0 .. FiveDigits - 1
<1>1. FiveDigits = 10 * (10 * 1000)
  BY DEF FiveDigits
<1>2. k = 0 \/ k = 1 \/ k = 2 \/ k = 3 \/ k = 4 \/ k = 5
  OBVIOUS
<1>3. v \in Nat /\ v < 10 * (10 * 1000)
  BY ONLY <1>1, <1>2, Small(v, k) DEF Small
<1>4. FiveDigits \in Nat
  BY DEF FiveDigits
<1>5. v \in Nat /\ v < FiveDigits
  BY <1>1, <1>3, Zenon
<1> QED BY ONLY <1>4, <1>5

\* So atoi of at most five digits never leaves the range of an int.
LEMMA ValueSmall ==
  ASSUME NEW digits \in Seq(DigitSet), Len(digits) <= 5
  PROVE  Value(digits) \in 0 .. FiveDigits - 1
<1> DEFINE n == Len(digits)
           step == ValueStep(digits)
           P == [k \in 0 .. n |-> {v \in Int : Small(v, k)}]
<1>0. n \in Nat /\ n <= 5
  OBVIOUS
<1>1. n \in 0 .. 5 /\ n \in 0 .. n /\ 0 \in 0 .. n
  <2> HIDE DEF n
  <2> QED BY <1>0
<1>2. 0 \in P[0]
  <2>1. Small(0, 0) /\ 0 \in Int
    BY DEF Small
  <2> QED BY <1>1, <2>1, Zenon
<1>3. ASSUME NEW k \in 1 .. n, NEW v \in P[k - 1] PROVE step[k][v] \in P[k]
  <2>1. k - 1 \in 0 .. n /\ k \in 0 .. n /\ k \in 1 .. 5
    BY <1>1
  <2>2. v \in Int /\ Small(v, k - 1)
    BY <1>3, <2>1, Zenon
  <2> DEFINE d == Digit(digits[k])
  <2>3. step[k][v] = AsInt(v * 10 + d)
    BY <2>2, ValueTurn, Zenon
  <2>4. digits[k] \in DigitSet
    OBVIOUS
  <2>5. d \in 0 .. 9
    BY <2>4, DigitType, Zenon
  <2> HIDE DEF d
  <2> DEFINE w == v * 10 + d
  <2>6. Small(w, k) /\ w \in 0 .. FiveDigits - 1
    <3>1. Small(w, k)
      BY <2>1, <2>2, <2>5, SmallMore
    <3> HIDE DEF w
    <3>2. k \in 0 .. 5
      BY <2>1
    <3> QED BY <3>1, <3>2, SmallRange
  <2> HIDE DEF w
  <2>7. w \in IntMin .. IntMax /\ w \in Int
    <3>1. IntMax \in Nat /\ IntMax >= FiveDigits /\ IntMin = -IntMax - 1
      BY IntMaxIs, TextsAssumption DEF IntMin
    <3>2. FiveDigits \in Nat
      BY SMT DEF FiveDigits
    <3> QED BY <2>6, <3>1, <3>2
  <2>8. AsInt(w) = w
    BY <2>7, AsIntIs, Zenon
  <2>9. step[k][v] = w
    BY <2>3, <2>8, Zenon DEF w
  <2> HIDE DEF step
  <2> QED BY <2>1, <2>6, <2>7, <2>9, Zenon
<1> HIDE DEF step, P
<1>4. Runs(step, 0, n) \in P[n]
  BY <1>1, <1>2, <1>3, RunsIn
<1> DEFINE v == Runs(step, 0, n)
<1>5. v = Value(digits)
  BY Zenon DEF step, Value, ValueStep
<1>6. Small(v, n)
  BY <1>1, <1>4, Zenon DEF P
<1> HIDE DEF v
<1>7. v \in 0 .. FiveDigits - 1
  BY <1>1, <1>6, SmallRange
<1> QED BY <1>5, <1>7, Zenon

\* The host and what follows it.
LEMMA HostIs ==
  ASSUME NEW C, NEW h \in Seq(C), NEW r \in Seq(C), Len(h) <= HostMax,
         \A i \in 1 .. Len(h) : h[i] \notin HostEnd, r = <<>> \/ r[1] \in HostEnd
  PROVE  AtMost(Cspn(h \o r, HostEnd), HostMax) = Len(h)
<1> DEFINE t == h \o r
<1>1. PutTogether(t, h, r)
  BY PartsAgain, Zenon
<1> HIDE DEF t
<1>2. /\ Len(t) = Len(h) + Len(r) /\ Len(h) \in Nat /\ Len(r) \in Nat /\ (\A k \in 1 .. Len(h) : t[k] = h[k])
      /\ r # <<>> => t[Len(h) + 1] = r[1]
  BY <1>1, Zenon DEF PutTogether
<1>3. Len(h) \in 0 .. Len(t) /\ Len(t) \in Nat
  BY <1>2
<1>4. Len(h) = Len(t) \/ t[Len(h) + 1] \in HostEnd
  <2>1. CASE r = <<>>
    BY <1>2, <2>1
  <2>2. CASE r # <<>>
    BY <1>2, <2>2, Zenon
  <2> QED BY <2>1, <2>2
<1>5. OutPrefix(t, HostEnd, Len(h))
  BY <1>2, <1>3, <1>4, Zenon DEF OutPrefix
<1>6. Cspn(t, HostEnd) = Len(h)
  BY <1>3, <1>5, CspnIs
<1>7. AtMost(Len(h), HostMax) = Len(h)
  <2>1. HostMax \in Nat
    BY TextsAssumption
  <2> DEFINE m == Len(h)
  <2>2. m \in Nat /\ m <= HostMax
    BY <1>2
  <2> HIDE DEF m
  <2>3. AtMost(m, HostMax) = m
    BY ONLY <2>1, <2>2 DEF AtMost
  <2> QED BY <2>3 DEF m
<1> QED BY <1>6, <1>7, Zenon DEF t

\* The port behind the colon.
LEMMA PortIs ==
  ASSUME NEW C, NEW d \in Seq(C), d \in Seq(DigitSet), Len(d) <= 5, NEW w \in Seq(C), w = <<>> \/ w[1] = "/"
  PROVE  AtMost(Spn(d \o w, DigitSet), 5) = Len(d)
<1> DEFINE t == d \o w
<1>1. PutTogether(t, d, w)
  BY PartsAgain, Zenon
<1> HIDE DEF t
<1>2. /\ Len(t) = Len(d) + Len(w) /\ Len(d) \in Nat /\ Len(w) \in Nat /\ (\A k \in 1 .. Len(d) : t[k] = d[k])
      /\ w # <<>> => t[Len(d) + 1] = w[1]
  BY <1>1, Zenon DEF PutTogether
<1>3. Len(d) \in 0 .. Len(t) /\ Len(t) \in Nat
  BY <1>2
<1>4. Len(d) = Len(t) \/ t[Len(d) + 1] \notin DigitSet
  <2>1. CASE w = <<>>
    BY <1>2, <2>1
  <2>2. CASE w # <<>>
    <3>1. "/" \in HostEnd
      BY DEF HostEnd
    <3> QED BY <1>2, <2>2, <3>1, DigitsApart, Zenon
  <2> QED BY <2>1, <2>2
<1>5. \A k \in 1 .. Len(d) : d[k] \in DigitSet
  OBVIOUS
<1>6. InPrefix(t, DigitSet, Len(d))
  BY <1>2, <1>3, <1>4, <1>5, Zenon DEF InPrefix
<1>7. Spn(t, DigitSet) = Len(d)
  BY <1>3, <1>6, SpnIs
<1>8. AtMost(Len(d), 5) = Len(d)
  <2> DEFINE m == Len(d)
  <2>1. m \in Nat /\ m <= 5
    BY <1>2
  <2> HIDE DEF m
  <2>2. AtMost(m, 5) = m
    BY ONLY <2>1 DEF AtMost
  <2> QED BY <2>2 DEF m
<1> QED BY <1>7, <1>8, Zenon DEF t

\* What ParseUrl makes of a URL without and with a colon.
UrlIs(t, h, d, w) ==
  ParseUrl(t) = [host |-> h, port |-> IF d = <<>> THEN 80 ELSE atoi(d) % PortRange,
                 path |-> IF w # <<>> /\ w[1] = "/" THEN w ELSE <<"/">>]

\* cmd_wget gives a URL without a colon the port 80 and the path that follows the
\* host, or "/" when nothing does.
LEMMA NoColon ==
  ASSUME NEW C, NEW h \in Seq(C), NEW w \in Seq(C), Len(h) <= HostMax,
         \A i \in 1 .. Len(h) : h[i] \notin HostEnd, w = <<>> \/ w[1] = "/"
  PROVE  UrlIs(h \o w, h, <<>>, w)
<1> DEFINE t == h \o w
           n == AtMost(Cspn(t, HostEnd), HostMax)
           rest == From(t, n + 1)
           colon == rest # <<>> /\ rest[1] = ":"
           digits == IF colon THEN SubSeq(rest, 2, 1 + AtMost(Spn(From(rest, 2), DigitSet), 5)) ELSE <<>>
           path == IF colon THEN From(rest, 2 + Len(digits)) ELSE rest
<1>1. "/" \in HostEnd /\ "/" # ":"
  BY DEF HostEnd
<1>2. n = Len(h)
  BY <1>1, HostIs, Zenon
<1>3. PutTogether(t, h, w)
  BY PartsAgain, Zenon
<1>4. ParseUrl(t) = [host |-> SubSeq(t, 1, n), port |-> IF digits = <<>> THEN 80 ELSE atoi(digits) % PortRange,
                     path |-> IF path # <<>> /\ path[1] = "/" THEN path ELSE <<"/">>]
  BY Zenon DEF ParseUrl
<1> HIDE DEF t, n
<1>5. rest = w /\ SubSeq(t, 1, n) = h
  BY <1>2, <1>3, Zenon DEF PutTogether
<1> HIDE DEF rest
<1>6. ~colon
  BY <1>1, <1>5, Zenon
<1> HIDE DEF colon
<1>7. digits = <<>> /\ path = w
  BY <1>5, <1>6, Zenon
<1> HIDE DEF digits, path
<1>8. UrlIs(t, h, <<>>, w)
  BY <1>4, <1>5, <1>7, Zenon DEF UrlIs
<1> QED BY <1>8 DEF t

\* cmd_wget reads the port of a URL between the colon and the path.
LEMMA WithColon ==
  ASSUME NEW C, NEW h \in Seq(C), NEW p \in Seq(C), NEW d \in Seq(C), NEW w \in Seq(C), Len(h) <= HostMax,
         \A i \in 1 .. Len(h) : h[i] \notin HostEnd, w = <<>> \/ w[1] = "/",
         p = <<":">> \o d, d \in Seq(DigitSet), Len(d) <= 5
  PROVE  UrlIs(h \o (p \o w), h, d, w)
<1> DEFINE r == p \o w
           t == h \o r
           n == AtMost(Cspn(t, HostEnd), HostMax)
           rest == From(t, n + 1)
           colon == rest # <<>> /\ rest[1] = ":"
           digits == IF colon THEN SubSeq(rest, 2, 1 + AtMost(Spn(From(rest, 2), DigitSet), 5)) ELSE <<>>
           path == IF colon THEN From(rest, 2 + Len(digits)) ELSE rest
<1>1. r \in Seq(C) /\ r # <<>> /\ r[1] = ":" /\ Len(p) = Len(d) + 1 /\ Len(d) \in Nat
  OBVIOUS
<1>2. From(r, 2) = d \o w
  <2>1. r = <<":">> \o (d \o w) /\ <<":">> \in Seq(C) /\ d \o w \in Seq(C)
    OBVIOUS
  <2>2. PutTogether(r, <<":">>, d \o w)
    BY <2>1, PartsAgain, Zenon
  <2>3. Len(<<":">>) + 1 = 2
    OBVIOUS
  <2> HIDE DEF r
  <2> QED BY <2>2, <2>3, Zenon DEF PutTogether
<1>3. PutTogether(r, p, w)
  BY PartsAgain, Zenon
<1> HIDE DEF r
<1>4. ":" \in HostEnd
  BY DEF HostEnd
<1>5. n = Len(h)
  BY <1>1, <1>4, HostIs, Zenon
<1>6. PutTogether(t, h, r)
  BY <1>1, PartsAgain, Zenon
<1>7. ParseUrl(t) = [host |-> SubSeq(t, 1, n), port |-> IF digits = <<>> THEN 80 ELSE atoi(digits) % PortRange,
                     path |-> IF path # <<>> /\ path[1] = "/" THEN path ELSE <<"/">>]
  BY Zenon DEF ParseUrl
<1> HIDE DEF t, n
<1>8. rest = r /\ SubSeq(t, 1, n) = h
  BY <1>5, <1>6, Zenon DEF PutTogether
<1> HIDE DEF rest
<1>9. colon
  BY <1>1, <1>8, Zenon
<1>10. AtMost(Spn(From(rest, 2), DigitSet), 5) = Len(d)
  BY <1>2, <1>8, PortIs, Zenon
<1>11. SubSeq(r, 2, 1 + Len(d)) = d
  <2>1. SubSeq(r, 1, Len(p)) = p
    BY <1>3, Zenon DEF PutTogether
  <2>2. Len(r) >= Len(p)
    BY <1>3 DEF PutTogether
  <2> DEFINE x == SubSeq(r, 2, 1 + Len(d))
  <2>3. x \in Seq(C) /\ Len(x) = Len(d) /\ \A k \in 1 .. Len(d) : x[k] = r[k + 1]
    BY <1>1, <2>2
  <2> HIDE DEF x
  <2>4. \A k \in 1 .. Len(p) : r[k] = p[k]
    BY <1>3, Zenon DEF PutTogether
  <2>5. \A k \in 1 .. Len(d) : p[k + 1] = d[k] /\ k + 1 \in 1 .. Len(p)
    BY <1>1
  <2>6. \A k \in 1 .. Len(d) : x[k] = d[k]
    BY <2>3, <2>4, <2>5, Zenon
  <2>7. x = d
    BY <2>3, <2>6, SameElements, Zenon
  <2> QED BY <2>7 DEF x
<1>12. digits = d
  BY <1>8, <1>9, <1>10, <1>11, Zenon
<1> HIDE DEF colon, digits
<1>13. path = w
  <2>1. 2 + Len(d) = Len(p) + 1
    BY <1>1
  <2>2. From(r, Len(p) + 1) = w
    BY <1>3, Zenon DEF PutTogether
  <2> QED BY <1>8, <1>9, <1>12, <2>1, <2>2, Zenon
<1> HIDE DEF path
<1>14. UrlIs(t, h, d, w)
  BY <1>7, <1>8, <1>12, <1>13, Zenon DEF UrlIs
<1> QED BY <1>14 DEF t, r

\* cmd_wget takes a URL apart.
LEMMA TakenApartIs ==
  ASSUME NEW u \in Urls, Len(u.host) <= HostMax, Len(u.port) <= 6
  PROVE  TakenApart(u, ParseUrl(u.host \o u.port \o u.path))
<1> DEFINE h == u.host
           p == u.port
           w == u.path
           C == Chars \cup (DigitSet \cup {":"})
           t == h \o p \o w
           out == ParseUrl(t)
<1>1. /\ h \in Seq(Chars) /\ (\A i \in 1 .. Len(h) : h[i] \notin HostEnd)
      /\ p \in Seq(DigitSet \cup {":"})
      /\ p = <<>> \/ (p[1] = ":" /\ Tail(p) \in Seq(DigitSet))
      /\ w \in Seq(Chars) /\ (w = <<>> \/ w[1] = "/")
  BY TextsAssumption, Zenon
<1>2. Len(h) <= HostMax /\ Len(p) <= 6
  OBVIOUS
<1> HIDE DEF h, p, w
<1>3. h \in Seq(C) /\ p \in Seq(C) /\ w \in Seq(C)
  BY <1>1
<1>4. t = h \o (p \o w)
  BY <1>3
<1>5. (w # <<>> /\ w[1] = "/") <=> w # <<>>
  BY <1>1, Zenon
<1> DEFINE d == IF p = <<>> THEN <<>> ELSE Tail(p)
<1>6. d \in Seq(DigitSet) /\ (p # <<>> => d = Tail(p))
  <2>1. <<>> \in Seq(DigitSet)
    OBVIOUS
  <2> QED BY <1>1, <2>1, Zenon
<1> HIDE DEF C
<1>7. UrlIs(t, h, d, w)
  <2>1. CASE p = <<>>
    <3>1. p \o w = w
      BY <1>3, <2>1
    <3>2. UrlIs(h \o w, h, <<>>, w)
      BY <1>1, <1>2, <1>3, NoColon, Zenon
    <3>3. d = <<>>
      BY <2>1, Zenon
    <3> HIDE DEF d, t
    <3> QED BY <1>4, <3>1, <3>2, <3>3, Zenon
  <2>2. CASE p # <<>>
    <3>1. p = <<":">> \o d /\ d \in Seq(C) /\ Len(d) <= 5
      <4>1. d = Tail(p) /\ p[1] = ":"
        BY <1>1, <2>2, Zenon
      <4> HIDE DEF d
      <4>2. p # <<>> /\ p \in Seq(C)
        BY <1>3, <2>2
      <4>3. d \in Seq(C) /\ Len(d) = Len(p) - 1 /\ p = <<p[1]>> \o d
        BY <4>1, <4>2
      <4> QED BY <1>2, <1>3, <4>1, <4>3
    <3> HIDE DEF d
    <3>2. UrlIs(h \o (p \o w), h, d, w)
      BY <1>1, <1>2, <1>3, <1>6, <3>1, WithColon, Zenon
    <3> HIDE DEF t
    <3> QED BY <1>4, <3>2, Zenon
  <2> QED BY <2>1, <2>2
<1>8. Len(p) <= 1 <=> d = <<>>
  <2>1. CASE p = <<>>
    BY <2>1
  <2>2. CASE p # <<>>
    <3>1. d = Tail(p)
      BY <2>2, Zenon
    <3> HIDE DEF d
    <3>2. p # <<>> /\ p \in Seq(C)
      BY <1>3, <2>2
    <3>3. Len(d) = Len(p) - 1 /\ Len(p) \in Nat /\ d \in Seq(C)
      BY ONLY <3>1, <3>2
    <3>4. ASSUME d = <<>> PROVE Len(d) = 0
      BY <3>4
    <3>5. ASSUME Len(d) = 0 PROVE d = <<>>
      BY ONLY <3>3, <3>5
    <3>6. Len(p) <= 1 <=> Len(d) = 0
      <4> DEFINE m == Len(d)
                 n == Len(p)
      <4>1. m = n - 1 /\ n \in Nat /\ n > 0
        BY <3>2, <3>3
      <4> HIDE DEF m, n
      <4>2. n <= 1 <=> m = 0
        BY ONLY <4>1
      <4> QED BY <4>2 DEF m, n
    <3> QED BY <3>4, <3>5, <3>6, Zenon
  <2> QED BY <2>1, <2>2
<1>9. p \in Seq(C) /\ (Len(p) <= 1 \/ p # <<>>) /\ Len(p) \in Nat
  BY <1>3
<1> HIDE DEF d, t
<1>10. out = [host |-> h, port |-> IF d = <<>> THEN 80 ELSE atoi(d) % PortRange,
              path |-> IF w # <<>> /\ w[1] = "/" THEN w ELSE <<"/">>]
  BY <1>7, Zenon DEF UrlIs
<1> HIDE DEF out
<1>11. /\ out.host = h /\ out.port = (IF d = <<>> THEN 80 ELSE atoi(d) % PortRange)
       /\ out.path = (IF w # <<>> /\ w[1] = "/" THEN w ELSE <<"/">>)
  BY <1>10, Zenon
<1>12. out.path = IF w = <<>> THEN <<"/">> ELSE w
  BY <1>5, <1>11, Zenon
<1>13. Len(p) <= 1 => out.port = 80
  BY <1>8, <1>11, Zenon
<1>14. ASSUME Len(p) > 1, atoi(Tail(p)) < PortRange PROVE out.port = atoi(Tail(p))
  <2>1. ~(Len(p) <= 1)
    BY <1>9, <1>14
  <2>2. d # <<>> /\ d = Tail(p)
    BY <1>6, <1>8, <1>9, <2>1, Zenon
  <2>3. Len(d) <= 5
    <3> DEFINE m == Len(d)
    <3>1. Len(d) = Len(p) - 1
      BY <1>9, <2>1, <2>2
    <3> QED BY <1>2, <1>9, <3>1
  <2> DEFINE v == atoi(d)
  <2>4. v \in 0 .. FiveDigits - 1
    BY <1>6, <2>3, AtoiDigits, ValueSmall, Zenon
  <2> HIDE DEF v
  <2>5. v \in Nat /\ PortRange \in Nat
    BY <2>4 DEF PortRange
  <2>6. v < PortRange
    BY <1>14, <2>2, Zenon DEF v
  <2>7. v % PortRange = v
    BY ONLY <2>5, <2>6, ModSmall
  <2> QED BY <1>11, <2>2, <2>7, Zenon DEF v
<1>15. t = u.host \o u.port \o u.path
  BY DEF t, h, p, w
<1> QED BY <1>11, <1>12, <1>13, <1>14, <1>15, Zenon DEF TakenApart, h, p, w, out

-----------------------------------------------------------------------------
(* Addresses.                                                              *)

\* A loop of m turns and one of n more are a loop of m + n.
LEMMA RunsJoin ==
  ASSUME NEW m \in Nat, NEW n \in Nat, NEW a, NEW g, NEW h, NEW s,
         \A k \in 1 .. m : s[k] = g[k], \A k \in 1 .. n : s[m + k] = h[k]
  PROVE  Runs(s, a, m + n) = Runs(h, Runs(g, a, m), n)
<1>1. m + n \in Nat /\ 0 \in 0 .. m /\ 0 \in 0 .. n /\ m \in 0 .. m /\ n \in 0 .. n /\ m + 0 = m
  OBVIOUS
<1>2. PICK f : Through(f, s, a, m + n)
  BY <1>1, RunsBy
<1>3. f[0] = a /\ f[m + n] = Runs(s, a, m + n) /\ \A k \in 1 .. m + n : f[k] = s[k][f[k - 1]]
  BY <1>2, Zenon DEF Through
<1> DEFINE P == [k \in 0 .. m |-> {f[k]}]
           Q == [k \in 0 .. n |-> {f[m + k]}]
           b == Runs(g, a, m)
<1>4. b \in P[m]
  <2>1. a \in P[0]
    BY <1>1, <1>3, Zenon
  <2>2. ASSUME NEW k \in 1 .. m, NEW u \in P[k - 1] PROVE g[k][u] \in P[k]
    <3>1. k - 1 \in 0 .. m /\ k \in 0 .. m /\ k \in 1 .. m + n
      OBVIOUS
    <3>2. u = f[k - 1]
      BY <2>2, <3>1, Zenon
    <3>3. g[k][u] = f[k]
      BY <1>3, <3>1, <3>2, Zenon
    <3> QED BY <3>1, <3>3, Zenon
  <2> HIDE DEF P
  <2> QED BY <2>1, <2>2, RunsIn
<1>5. b = f[m]
  BY <1>1, <1>4, Zenon
<1> HIDE DEF b, P
<1>6. Runs(h, b, n) \in Q[n]
  <2>1. b \in Q[0]
    BY <1>1, <1>5, Zenon
  <2>2. ASSUME NEW k \in 1 .. n, NEW u \in Q[k - 1] PROVE h[k][u] \in Q[k]
    <3>1. k - 1 \in 0 .. n /\ k \in 0 .. n
      OBVIOUS
    <3> DEFINE x == m + k
    <3>2. x \in 1 .. m + n /\ x - 1 = m + (k - 1)
      OBVIOUS
    <3>3. u = f[m + (k - 1)]
      BY <2>2, <3>1, Zenon
    <3>4. s[x] = h[k]
      BY Zenon
    <3> HIDE DEF x
    <3>5. f[x] = h[k][u]
      BY <1>3, <3>2, <3>3, <3>4, Zenon
    <3>6. f[m + k] = h[k][u]
      BY <3>5 DEF x
    <3> QED BY <3>1, <3>6, Zenon
  <2> HIDE DEF Q
  <2> QED BY <2>1, <2>2, RunsIn
<1>7. Runs(h, b, n) = f[m + n]
  BY <1>1, <1>6, Zenon
<1> QED BY <1>3, <1>7, Zenon DEF b

\* What is read of an address, and the loop over its characters.
Octets == 0 .. 255
Reading == [octets : Seq(Octets), num : Seq(DigitSet)]
OctetSteps(text) == [k \in 1 .. Len(text) |-> [q \in Reading |-> OctetStep(q, text[k])]]
AddressFrom(p, text) == Runs(OctetSteps(text), p, Len(text))

\* The characters of two texts one after the other.
LEMMA AddressJoin ==
  ASSUME NEW C, NEW s \in Seq(C), NEW t \in Seq(C), NEW p
  PROVE  AddressFrom(p, s \o t) = AddressFrom(AddressFrom(p, s), t)
<1> DEFINE r == s \o t
           m == Len(s)
           n == Len(t)
<1>1. /\ Len(r) = m + n /\ m \in Nat /\ n \in Nat
      /\ (\A k \in 1 .. m : r[k] = s[k] /\ k \in 1 .. m + n) /\ \A k \in 1 .. n : r[m + k] = t[k] /\ m + k \in 1 .. m + n
  OBVIOUS
<1> HIDE DEF r, m, n
<1>2. \A k \in 1 .. m : OctetSteps(r)[k] = OctetSteps(s)[k]
  BY <1>1, Zenon DEF OctetSteps, m
<1>3. ASSUME NEW k \in 1 .. n PROVE OctetSteps(r)[m + k] = OctetSteps(t)[k]
  <2> DEFINE x == m + k
  <2>1. x \in 1 .. Len(r) /\ r[x] = t[k]
    BY <1>1, Zenon
  <2> HIDE DEF x
  <2>2. OctetSteps(r)[x] = OctetSteps(t)[k]
    BY <1>1, <2>1, Zenon DEF OctetSteps, n
  <2> QED BY <2>2 DEF x
<1> DEFINE f == OctetSteps(r)
           g == OctetSteps(s)
           h == OctetSteps(t)
<1> HIDE DEF f, g, h
<1>4. \A k \in 1 .. m : f[k] = g[k]
  BY <1>2 DEF f, g
<1>5. \A k \in 1 .. n : f[m + k] = h[k]
  BY <1>3 DEF f, h
<1>6. Runs(f, p, m + n) = Runs(h, Runs(g, p, m), n)
  BY <1>1, <1>4, <1>5, RunsJoin
<1> QED BY <1>1, <1>6, Zenon DEF AddressFrom, f, g, h, r, m, n

\* A single character.
LEMMA AddressChar ==
  ASSUME NEW p \in Reading, NEW c
  PROVE  AddressFrom(p, <<c>>) = OctetStep(p, c)
<1> DEFINE t == <<c>>
<1>1. Len(t) = 1 /\ t[1] = c /\ 1 \in 1 .. 1 /\ 1 - 1 = 0
  OBVIOUS
<1> HIDE DEF t
<1>2. PICK f : Through(f, OctetSteps(t), p, 1)
  BY RunsBy
<1>3. f[0] = p /\ f[1] = Runs(OctetSteps(t), p, 1) /\ \A k \in 1 .. 1 : f[k] = OctetSteps(t)[k][f[k - 1]]
  BY <1>2, Zenon DEF Through
<1>4. f[1] = OctetSteps(t)[1][f[1 - 1]]
  BY <1>1, <1>3, Zenon
<1>5. f[1] = OctetSteps(t)[1][p]
  BY <1>1, <1>3, <1>4, Zenon
<1>6. OctetSteps(t)[1][p] = OctetStep(p, c)
  BY <1>1, Zenon DEF OctetSteps
<1> QED BY <1>1, <1>3, <1>5, <1>6, Zenon DEF AddressFrom, t

\* The octet that digits are read as.
OctetOf(num) == atoi(num) % 256

\* Digits are read as an octet, and none as 0.
LEMMA AtoiType ==
  ASSUME NEW d \in Seq(DigitSet)
  PROVE  OctetOf(d) \in Octets /\ (d = <<>> => OctetOf(d) = 0)
<1> DEFINE n == Len(d)
           step == ValueStep(d)
           P == [k \in 0 .. n |-> Int]
<1>1. n \in Nat /\ n \in 0 .. n /\ 0 \in 0 .. n /\ 0 \in Int
  OBVIOUS
<1>2. 0 \in P[0]
  BY <1>1, Zenon
<1>3. ASSUME NEW k \in 1 .. n, NEW v \in P[k - 1] PROVE step[k][v] \in P[k]
  <2>1. k - 1 \in 0 .. n /\ k \in 0 .. n
    BY <1>1
  <2>2. v \in Int
    BY <1>3, <2>1, Zenon
  <2>3. step[k][v] \in Int
    BY <2>2, ValueTurn, Zenon
  <2> HIDE DEF step
  <2> QED BY <2>1, <2>3, Zenon
<1> HIDE DEF step, P
<1>4. Runs(step, 0, n) \in P[n]
  BY <1>1, <1>2, <1>3, RunsIn
<1> DEFINE v == Runs(step, 0, n)
<1>5. v = Value(d)
  BY Zenon DEF step, Value, ValueStep
<1>6. v \in Int
  BY <1>1, <1>4, Zenon DEF P
<1> HIDE DEF v
<1>7. v % 256 \in Octets
  BY ONLY <1>6 DEF Octets
<1>8. atoi(d) = v
  BY <1>5, AtoiDigits, Zenon
<1>9. ASSUME d = <<>> PROVE OctetOf(d) = 0
  <2>1. ValueFrom(0, <<>>) = 0
    BY ValueNone
  <2>2. v = 0
    BY <1>5, <1>9, <2>1, Zenon DEF Value, ValueFrom, ValueStep
  <2>3. 0 % 256 = 0
    OBVIOUS
  <2> QED BY <1>8, <2>2, <2>3, Zenon DEF OctetOf
<1> QED BY <1>7, <1>8, <1>9, Zenon DEF OctetOf

\* OctetStep by its cases.
Ended(p) == [octets |-> Append(p.octets, OctetOf(p.num)), num |-> <<>>]
Longer(p, c) == [octets |-> p.octets, num |-> Append(p.num, c)]

\* A turn of the address loop of ping and wget: nothing happens once four numbers
\* are read, a dot ends a number, a digit goes on it, anything else is skipped.
LEMMA StepCases ==
  ASSUME NEW p \in Reading, NEW c
  PROVE  /\ ~(Len(p.octets) < 4) => OctetStep(p, c) = p
         /\ Len(p.octets) < 4 /\ c = "." /\ p.num # <<>> => OctetStep(p, c) = Ended(p)
         /\ Len(p.octets) < 4 /\ c = "." /\ p.num = <<>> => OctetStep(p, c) = p
         /\ Len(p.octets) < 4 /\ c \in DigitSet /\ Len(p.num) < 3 => OctetStep(p, c) = Longer(p, c)
         /\ Len(p.octets) < 4 /\ c \in DigitSet /\ ~(Len(p.num) < 3) => OctetStep(p, c) = p
         /\ OctetStep(p, c) \in Reading
<1>1. c \in DigitSet => c # "."
  BY DigitsApart, Zenon
<1>2. ~(Len(p.octets) < 4) => OctetStep(p, c) = p
  BY Zenon DEF OctetStep
<1>3. Len(p.octets) < 4 /\ c = "." /\ p.num # <<>> => OctetStep(p, c) = Ended(p)
  BY <1>1, Zenon DEF OctetStep, Ended, OctetOf
<1>4. Len(p.octets) < 4 /\ c = "." /\ p.num = <<>> => OctetStep(p, c) = p
  BY <1>1, Zenon DEF OctetStep
<1>5. Len(p.octets) < 4 /\ c \in DigitSet /\ Len(p.num) < 3 => OctetStep(p, c) = Longer(p, c)
  BY <1>1, Zenon DEF OctetStep, Longer
<1>6. Len(p.octets) < 4 /\ c \in DigitSet /\ ~(Len(p.num) < 3) => OctetStep(p, c) = p
  BY <1>1, Zenon DEF OctetStep
<1>7. p.octets \in Seq(Octets) /\ p.num \in Seq(DigitSet)
  BY DEF Reading
<1>8. Ended(p) \in Reading
  <2> DEFINE v == OctetOf(p.num)
  <2>1. v \in Octets
    BY <1>7, AtoiType, Zenon
  <2> HIDE DEF v
  <2>2. Append(p.octets, v) \in Seq(Octets) /\ <<>> \in Seq(DigitSet)
    BY <1>7, <2>1
  <2> QED BY <2>2, Zenon DEF Ended, Reading, v
<1>9. c \in DigitSet => Longer(p, c) \in Reading
  <2>1. SUFFICES ASSUME c \in DigitSet PROVE Longer(p, c) \in Reading
    OBVIOUS
  <2>2. Append(p.num, c) \in Seq(DigitSet)
    BY <1>7, <2>1
  <2> QED BY <1>7, <2>2, Zenon DEF Longer, Reading
<1>10. OctetStep(p, c) \in Reading
  <2>1. OctetStep(p, c) = p \/ OctetStep(p, c) = Ended(p) \/ (c \in DigitSet /\ OctetStep(p, c) = Longer(p, c))
    BY <1>1, Zenon DEF OctetStep, Ended, Longer, OctetOf
  <2> QED BY <1>8, <1>9, <2>1, Zenon
<1> QED BY <1>2, <1>3, <1>4, <1>5, <1>6, <1>10, Zenon

\* At most three digits behind a dot, or at the start, are all kept.
LEMMA DigitsRead ==
  ASSUME NEW o \in Seq(Octets), Len(o) < 4, NEW d \in Seq(DigitSet), Len(d) <= 3
  PROVE  AddressFrom([octets |-> o, num |-> <<>>], d) = [octets |-> o, num |-> d]
<1> DEFINE n == Len(d)
           a == [octets |-> o, num |-> <<>>]
           step == OctetSteps(d)
           after(k) == [octets |-> o, num |-> SubSeq(d, 1, k)]
           P == [k \in 0 .. n |-> {after(k)}]
<1>1. n \in Nat /\ n <= 3 /\ 0 \in 0 .. n /\ n \in 0 .. n
  OBVIOUS
<1>2. a \in P[0]
  <2>1. SubSeq(d, 1, 0) = <<>>
    OBVIOUS
  <2>2. a = after(0)
    BY <2>1, Zenon
  <2> HIDE DEF a
  <2> QED BY <1>1, <2>2, Zenon
<1>3. ASSUME NEW k \in 1 .. n, NEW p \in P[k - 1] PROVE step[k][p] \in P[k]
  <2>1. k - 1 \in 0 .. n /\ k \in 0 .. n
    BY <1>1
  <2> DEFINE s == SubSeq(d, 1, k - 1)
             c == d[k]
  <2>2. p = [octets |-> o, num |-> s]
    BY <1>3, <2>1, Zenon
  <2>3. s \in Seq(DigitSet) /\ Len(s) = k - 1 /\ c \in DigitSet /\ Append(s, c) = SubSeq(d, 1, k)
    BY <1>1
  <2> HIDE DEF s, c
  <2>4. p \in Reading /\ p.octets = o /\ p.num = s
    BY <2>2, <2>3, Zenon DEF Reading
  <2>5. Len(p.num) < 3
    <3>1. Len(s) < 3
      BY <1>1, <2>3
    <3> QED BY <2>4, <3>1, Zenon
  <2>6. OctetStep(p, c) = Longer(p, c)
    BY <2>3, <2>4, <2>5, StepCases, Zenon
  <2>7. Longer(p, c) = [octets |-> o, num |-> Append(s, c)]
    BY <2>4, Zenon DEF Longer
  <2>8. step[k][p] = OctetStep(p, c)
    BY <2>4, Zenon DEF OctetSteps, c
  <2>9. step[k][p] = after(k)
    BY <2>3, <2>6, <2>7, <2>8, Zenon
  <2> HIDE DEF step
  <2> QED BY <2>1, <2>9, Zenon
<1> HIDE DEF step, P, a
<1>4. Runs(step, a, n) \in P[n]
  BY <1>1, <1>2, <1>3, RunsIn
<1>5. Runs(step, a, n) = after(n)
  BY <1>1, <1>4, Zenon DEF P
<1>6. SubSeq(d, 1, n) = d
  OBVIOUS
<1> QED BY <1>5, <1>6, Zenon DEF AddressFrom, step, a

\* What ping and wget have read of a text.
AddressChars == DigitSet \cup {"."}
ReadSoFar(t, o, d) ==
  /\ t \in Seq(AddressChars) /\ o \in Seq(Octets)
  /\ AddressFrom([octets |-> <<>>, num |-> <<>>], t) = [octets |-> o, num |-> d]

\* A number goes on the text so far, and is read.
LEMMA NumberRead ==
  ASSUME NEW t, NEW o, Len(o) < 4, ReadSoFar(t, o, <<>>), NEW d \in Seq(DigitSet), Len(d) <= 3
  PROVE  ReadSoFar(t \o d, o, d)
<1> DEFINE p == [octets |-> <<>>, num |-> <<>>]
<1>1. t \in Seq(AddressChars) /\ o \in Seq(Octets) /\ AddressFrom(p, t) = [octets |-> o, num |-> <<>>]
  BY Zenon DEF ReadSoFar
<1>2. d \in Seq(AddressChars)
  BY DEF AddressChars
<1> HIDE DEF p
<1>3. AddressFrom(p, t \o d) = AddressFrom(AddressFrom(p, t), d)
  BY <1>1, <1>2, AddressJoin, Zenon
<1>4. AddressFrom([octets |-> o, num |-> <<>>], d) = [octets |-> o, num |-> d]
  BY <1>1, DigitsRead, Zenon
<1>5. t \o d \in Seq(AddressChars)
  BY <1>1, <1>2
<1> QED BY <1>1, <1>3, <1>4, <1>5, Zenon DEF ReadSoFar, p

\* A dot ends it.
LEMMA DotRead ==
  ASSUME NEW t, NEW o, Len(o) < 4, NEW d \in Seq(DigitSet), d # <<>>, ReadSoFar(t, o, d),
         NEW v \in Octets, v = OctetOf(d)
  PROVE  ReadSoFar(t \o <<".">>, Append(o, v), <<>>)
<1> DEFINE p == [octets |-> <<>>, num |-> <<>>]
           q == [octets |-> o, num |-> d]
           dot == <<".">>
<1>1. t \in Seq(AddressChars) /\ o \in Seq(Octets) /\ AddressFrom(p, t) = q
  BY Zenon DEF ReadSoFar
<1> HIDE DEF p
<1>2. dot \in Seq(AddressChars)
  BY DEF AddressChars
<1>3. AddressFrom(p, t \o dot) = AddressFrom(AddressFrom(p, t), dot)
  BY <1>1, <1>2, AddressJoin, Zenon
<1>4. q \in Reading /\ q.octets = o /\ q.num = d
  BY <1>1, Zenon DEF Reading
<1> HIDE DEF q
<1>5. AddressFrom(q, dot) = OctetStep(q, ".")
  BY <1>4, AddressChar, Zenon
<1>6. OctetStep(q, ".") = Ended(q)
  BY <1>4, StepCases, Zenon
<1>7. Ended(q) = [octets |-> Append(o, v), num |-> <<>>]
  BY <1>4, Zenon DEF Ended
<1>8. t \o dot \in Seq(AddressChars) /\ Append(o, v) \in Seq(Octets)
  BY <1>1, <1>2
<1> QED BY <1>1, <1>3, <1>5, <1>6, <1>7, <1>8, Zenon DEF ReadSoFar, p

\* An octet in digits.
LEMMA OctetWritten ==
  ASSUME NEW v \in Octets
  PROVE  /\ itoa(v) \in Seq(DigitSet) /\ itoa(v) # <<>> /\ Len(itoa(v)) <= 3
         /\ OctetOf(itoa(v)) = v
<1>1. v \in 0 .. IntMax /\ v < ThreeDigits /\ v \in Nat /\ v < 256
  <2>1. IntMax \in Nat /\ IntMax >= FiveDigits
    BY IntMaxIs, TextsAssumption
  <2>2. FiveDigits >= 255 /\ FiveDigits \in Nat
    BY DEF FiveDigits
  <2> QED BY <2>1, <2>2 DEF Octets, ThreeDigits
<1>2. AreDigits(itoa(v), v)
  BY <1>1, ItoaIs, Zenon
<1> DEFINE t == itoa(v)
<1> HIDE DEF t
<1>3. t \in Seq(DigitSet) /\ t # <<>> /\ Value(t) = v /\ Len(t) <= 3
  BY <1>1, <1>2, Zenon DEF AreDigits, t
<1>4. atoi(t) = v
  BY <1>3, AtoiDigits, Zenon
<1>5. v % 256 = v
  BY ONLY <1>1
<1> QED BY <1>3, <1>4, <1>5, Zenon DEF t, OctetOf

\* Once four numbers are there, the address is what they are.
AddressOf(p) ==
  LET octets == IF Len(p.octets) < 4 THEN Append(p.octets, OctetOf(p.num)) ELSE p.octets
  IN IF Len(octets) = 4 THEN octets ELSE <<>>

\* ParseAddress is the address of what its loop leaves.
LEMMA AddressIs ==
  ASSUME NEW text
  PROVE  ParseAddress(text) = AddressOf(AddressFrom([octets |-> <<>>, num |-> <<>>], text))
  BY Zenon DEF ParseAddress, AddressOf, AddressFrom, OctetSteps, Reading, Octets, OctetOf

\* A sequence of four is a function on 1 .. 4.
LEMMA FourIs ==
  ASSUME NEW S, NEW o \in Seq(S), Len(o) = 4, NEW q \in [1 .. 4 -> S], \A k \in 1 .. 4 : o[k] = q[k]
  PROVE  o = q
<1>1. o \in [1 .. 4 -> S]
  OBVIOUS
<1> QED BY <1>1

\* ping and wget read every address of four octets as it is written, whatever the
\* octets: four numbers in digits with dots between them.
THEOREM QuadRead ==
  ASSUME NEW q \in [1 .. 4 -> Octets]
  PROVE  ParseAddress(Dotted(q)) = q
<1> DEFINE a == itoa(q[1])
           b == itoa(q[2])
           c == itoa(q[3])
           d == itoa(q[4])
           dot == <<".">>
<1>1. q \in [1 .. 4 -> Octets]
  OBVIOUS
<1>2. q[1] \in Octets /\ q[2] \in Octets /\ q[3] \in Octets /\ q[4] \in Octets
  BY <1>1
<1>3. /\ a \in Seq(DigitSet) /\ a # <<>> /\ Len(a) <= 3 /\ q[1] = OctetOf(a)
      /\ b \in Seq(DigitSet) /\ b # <<>> /\ Len(b) <= 3 /\ q[2] = OctetOf(b)
      /\ c \in Seq(DigitSet) /\ c # <<>> /\ Len(c) <= 3 /\ q[3] = OctetOf(c)
      /\ d \in Seq(DigitSet) /\ d # <<>> /\ Len(d) <= 3 /\ q[4] = OctetOf(d)
  BY <1>2, OctetWritten, Zenon
<1> DEFINE o1 == Append(<<>>, q[1])
           o2 == Append(o1, q[2])
           o3 == Append(o2, q[3])
           o4 == Append(o3, q[4])
<1>4. /\ <<>> \in Seq(Octets) /\ Len(<<>>) < 4 /\ Len(o1) < 4 /\ Len(o2) < 4 /\ Len(o3) < 4
      /\ o4 \in Seq(Octets) /\ Len(o4) = 4
  BY <1>2
<1>5. o4 = q
  <2>1. o4[1] = q[1] /\ o4[2] = q[2] /\ o4[3] = q[3] /\ o4[4] = q[4]
    BY <1>2
  <2> HIDE DEF o4
  <2>2. \A k \in 1 .. 4 : o4[k] = q[k]
    BY <2>1
  <2> QED BY <1>1, <1>4, <2>2, FourIs
<1>6. Dotted(q) = a \o dot \o b \o dot \o c \o dot \o d
  BY Zenon DEF Dotted
<1> HIDE DEF a, b, c, d, o1, o2, o3, o4, dot
<1>7. ReadSoFar(a, <<>>, a)
  <2>1. a \in Seq(AddressChars)
    BY <1>3 DEF AddressChars
  <2>2. AddressFrom([octets |-> <<>>, num |-> <<>>], a) = [octets |-> <<>>, num |-> a]
    BY <1>3, <1>4, DigitsRead, Zenon
  <2> QED BY <1>4, <2>1, <2>2, Zenon DEF ReadSoFar
<1> DEFINE t1 == a \o dot
           t2 == t1 \o b
           t3 == t2 \o dot
           t4 == t3 \o c
           t5 == t4 \o dot
           t6 == t5 \o d
<1>8. Dotted(q) = t6
  BY <1>6, Zenon
<1> HIDE DEF t1, t2, t3, t4, t5, t6
<1>9. ReadSoFar(t1, o1, <<>>)
  BY <1>2, <1>3, <1>4, <1>7, DotRead, Zenon DEF t1, o1, dot
<1>10. ReadSoFar(t2, o1, b)
  BY <1>3, <1>4, <1>9, NumberRead, Zenon DEF t2
<1>11. ReadSoFar(t3, o2, <<>>)
  BY <1>2, <1>3, <1>4, <1>10, DotRead, Zenon DEF t3, o2, dot
<1>12. ReadSoFar(t4, o2, c)
  BY <1>3, <1>4, <1>11, NumberRead, Zenon DEF t4
<1>13. ReadSoFar(t5, o3, <<>>)
  BY <1>2, <1>3, <1>4, <1>12, DotRead, Zenon DEF t5, o3, dot
<1>14. ReadSoFar(t6, o3, d)
  BY <1>3, <1>4, <1>13, NumberRead, Zenon DEF t6
<1> DEFINE e == [octets |-> o3, num |-> d]
<1>15. e.octets = o3 /\ e.num = d
  OBVIOUS
<1>16. ParseAddress(t6) = AddressOf(e)
  BY <1>14, AddressIs, Zenon DEF ReadSoFar
<1> HIDE DEF e
<1>17. AddressOf(e) = o4
  <2>1. Append(e.octets, OctetOf(e.num)) = o4
    BY <1>3, <1>15, Zenon DEF o4
  <2> QED BY <1>4, <1>15, <2>1, Zenon DEF AddressOf
<1> QED BY <1>5, <1>8, <1>16, <1>17, Zenon

\* The quads of the run are addresses of four octets.
LEMMA QuadsAreOctets ==
  ASSUME NEW q \in Quads
  PROVE  q \in [1 .. 4 -> Octets]
<1>1. \A x \in {2, 22, 222} : x \in Octets
  BY DEF Octets
<1>2. q \in [1 .. 4 -> {2, 22, 222}]
  BY DEF Quads
<1> DEFINE S == {2, 22, 222}
<1> HIDE DEF S
<1>3. q \in [1 .. 4 -> S] /\ \A x \in S : x \in Octets
  BY <1>1, <1>2 DEF S
<1> QED BY ONLY <1>3

\* The dots among the first k characters that end a number.
EndsIn(text, k) == {i \in 2 .. k : text[i] = "." /\ text[i - 1] # "."}
EndsTo(text, k) == Cardinality(EndsIn(text, k))
IsEnd(text, k) == k > 1 /\ text[k] = "." /\ text[k - 1] # "."

\* One character more ends a number exactly where it is a dot behind a digit.
LEMMA EndsMore ==
  ASSUME NEW text, NEW k \in Nat
  PROVE  /\ EndsTo(text, k) \in Nat /\ EndsTo(text, 0) = 0
         /\ IsEnd(text, k + 1) => EndsTo(text, k + 1) = EndsTo(text, k) + 1
         /\ ~IsEnd(text, k + 1) => EndsTo(text, k + 1) = EndsTo(text, k)
<1> DEFINE E == EndsIn(text, k)
           F == EndsIn(text, k + 1)
<1>1. IsFiniteSet(E)
  <2>1. IsFiniteSet(2 .. k)
    BY FS_Interval
  <2>2. E \subseteq 2 .. k
    BY Zenon DEF EndsIn
  <2> QED BY <2>1, <2>2, FS_Subset, Zenon
<1>2. Cardinality(E) \in Nat
  BY <1>1, FS_CardinalityType, Zenon
<1>3. EndsTo(text, 0) = 0
  <2>1. EndsIn(text, 0) = {}
    BY DEF EndsIn
  <2> QED BY <2>1, FS_EmptySet, Zenon DEF EndsTo
<1>4. ASSUME IsEnd(text, k + 1) PROVE F = E \cup {k + 1} /\ k + 1 \notin E
  BY <1>4 DEF EndsIn, IsEnd
<1>5. ASSUME ~IsEnd(text, k + 1) PROVE F = E
  BY <1>5 DEF EndsIn, IsEnd
<1>6. IsEnd(text, k + 1) => Cardinality(F) = Cardinality(E) + 1
  <2> HIDE DEF E, F
  <2> QED BY <1>1, <1>4, FS_AddElement, Zenon
<1> QED BY <1>2, <1>3, <1>5, <1>6, Zenon DEF EndsTo

\* What the first k characters leave: as many numbers as dots that end one, up
\* to four, and none begun behind a dot.
Counted(text, k, p) ==
  /\ p \in Reading
  /\ \/ EndsTo(text, k) >= 4 /\ Len(p.octets) = 4
     \/ /\ EndsTo(text, k) < 4 /\ Len(p.octets) = EndsTo(text, k)
        /\ p.num = <<>> <=> (k = 0 \/ text[k] = ".")

\* A turn of the address loop keeps count of the numbers read.
LEMMA CountedMore ==
  ASSUME NEW text \in Seq(AddressChars), NEW k \in 1 .. Len(text), NEW p, Counted(text, k - 1, p)
  PROVE  Counted(text, k, OctetStep(p, text[k]))
<1> DEFINE c == text[k]
           q == OctetStep(p, c)
           x == EndsTo(text, k - 1)
           y == EndsTo(text, k)
           end == IsEnd(text, k)
<1>1. k - 1 \in Nat /\ k - 1 + 1 = k /\ k # 0
  OBVIOUS
<1>2. x \in Nat /\ (end => y = x + 1) /\ (~end => y = x)
  <2> DEFINE j == k - 1
  <2> HIDE DEF j
  <2>1. j \in Nat /\ j + 1 = k
    BY <1>1 DEF j
  <2>2. /\ EndsTo(text, j) \in Nat
        /\ IsEnd(text, j + 1) => EndsTo(text, j + 1) = EndsTo(text, j) + 1
        /\ ~IsEnd(text, j + 1) => EndsTo(text, j + 1) = EndsTo(text, j)
    BY <2>1, EndsMore, Zenon
  <2>3. /\ EndsTo(text, j) \in Nat /\ (IsEnd(text, k) => EndsTo(text, k) = EndsTo(text, j) + 1)
        /\ ~IsEnd(text, k) => EndsTo(text, k) = EndsTo(text, j)
    BY <2>1, <2>2, Zenon
  <2> QED BY <2>3 DEF j
<1>3. c \in AddressChars
  OBVIOUS
<1>4. (c \in DigitSet /\ c # ".") \/ c = "."
  BY <1>3, DigitsApart, Zenon DEF AddressChars
<1>5. p \in Reading /\ q \in Reading
  BY StepCases, Zenon DEF Counted
<1>6. \/ x >= 4 /\ Len(p.octets) = 4
      \/ x < 4 /\ Len(p.octets) = x /\ (p.num = <<>> <=> (k - 1 = 0 \/ text[k - 1] = "."))
  BY Zenon DEF Counted
<1>7. end <=> c = "." /\ k - 1 # 0 /\ text[k - 1] # "."
  BY DEF IsEnd
<1> HIDE DEF x, y, end
<1>8. CASE x >= 4 /\ Len(p.octets) = 4
  <2>1. ~(Len(p.octets) < 4) /\ y >= 4
    BY <1>2, <1>8
  <2>2. q = p
    BY <1>5, <2>1, StepCases, Zenon
  <2> HIDE DEF q
  <2>3. Len(q.octets) = 4
    BY <1>8, <2>2, Zenon
  <2>4. Counted(text, k, q)
    BY <1>5, <2>1, <2>3, Zenon DEF Counted, y
  <2> QED BY <2>4 DEF q
<1>9. CASE x < 4 /\ Len(p.octets) = x /\ (p.num = <<>> <=> (k - 1 = 0 \/ text[k - 1] = "."))
  <2>1. Len(p.octets) < 4
    BY <1>9, Zenon
  <2>2. p.octets \in Seq(Octets) /\ p.num \in Seq(DigitSet)
    BY <1>5 DEF Reading
  <2>3. CASE end
    <3>1. c = "." /\ p.num # <<>>
      BY <1>7, <1>9, <2>3, Zenon
    <3>2. q = Ended(p)
      BY <1>5, <2>1, <3>1, StepCases, Zenon
    <3> HIDE DEF q
    <3> DEFINE v == OctetOf(p.num)
               o == p.octets
    <3>3. q.octets = Append(o, v) /\ q.num = <<>>
      BY <3>2, Zenon DEF Ended
    <3>4. v \in Octets
      BY <2>2, AtoiType, Zenon
    <3> HIDE DEF v, o
    <3>5. Len(Append(o, v)) = Len(o) + 1 /\ Len(o) \in Nat
      <4>1. o \in Seq(Octets)
        BY <2>2 DEF o
      <4> QED BY <3>4, <4>1
    <3>6. Len(q.octets) = y
      BY <1>2, <1>9, <2>3, <3>3, <3>5, Zenon DEF o
    <3>7. (y < 4 /\ Len(q.octets) = y) \/ (y >= 4 /\ Len(q.octets) = 4)
      <4>1. y \in Nat /\ y <= 4
        BY <1>2, <1>9, <2>3
      <4>2. y < 4 \/ (y >= 4 /\ y = 4)
        BY ONLY <4>1
      <4> QED BY <3>6, <4>2, Zenon
    <3>8. Counted(text, k, q)
      BY <1>5, <3>1, <3>3, <3>7, Zenon DEF Counted, y, c
    <3> QED BY <3>8 DEF q
  <2>4. CASE ~end
    <3>1. y = x
      BY <1>2, <2>4, Zenon
    <3>2. CASE c = "."
      <4>1. p.num = <<>>
        BY <1>7, <1>9, <2>4, <3>2, Zenon
      <4>2. q = p
        BY <1>5, <2>1, <3>2, <4>1, StepCases, Zenon
      <4> HIDE DEF q
      <4>3. Counted(text, k, q)
        BY <1>5, <1>9, <3>1, <3>2, <4>1, <4>2, Zenon DEF Counted, y, c
      <4> QED BY <4>3 DEF q
    <3>3. CASE c \in DigitSet /\ c # "."
      <4>1. CASE Len(p.num) < 3
        <5>1. q = Longer(p, c)
          BY <1>5, <2>1, <3>3, <4>1, StepCases, Zenon
        <5> HIDE DEF q
        <5>2. q.octets = p.octets /\ q.num = Append(p.num, c)
          BY <5>1, Zenon DEF Longer
        <5>3. Append(p.num, c) # <<>>
          <6> DEFINE s == p.num
          <6>1. s \in Seq(DigitSet)
            BY <2>2
          <6> HIDE DEF s, c
          <6>2. Append(s, c) # <<>>
            BY ONLY <3>3, <6>1
          <6> QED BY <6>2 DEF s
        <5>4. Counted(text, k, q)
          BY <1>1, <1>5, <1>9, <3>1, <3>3, <5>2, <5>3, Zenon DEF Counted, y, c
        <5> QED BY <5>4 DEF q
      <4>2. CASE ~(Len(p.num) < 3)
        <5>1. q = p
          BY <1>5, <2>1, <3>3, <4>2, StepCases, Zenon
        <5> HIDE DEF q
        <5>2. p.num # <<>>
          <6>1. Len(<<>>) < 3
            OBVIOUS
          <6> QED BY <4>2, <6>1, Zenon
        <5>3. Counted(text, k, q)
          BY <1>1, <1>5, <1>9, <3>1, <3>3, <5>1, <5>2, Zenon DEF Counted, y, c
        <5> QED BY <5>3 DEF q
      <4> QED BY <4>1, <4>2, Zenon
    <3> QED BY <1>4, <3>2, <3>3, Zenon
  <2> QED BY <2>3, <2>4, Zenon
<1> QED BY <1>6, <1>8, <1>9, Zenon

\* ping and wget read an address.
LEMMA AddressReadIs ==
  ASSUME NEW text \in Seq(AddressChars)
  PROVE  AddressRead(text, ParseAddress(text))
<1> DEFINE n == Len(text)
           a == [octets |-> <<>>, num |-> <<>>]
           step == OctetSteps(text)
           P == [k \in 0 .. n |-> {p \in Reading : Counted(text, k, p)}]
           e == AddressFrom(a, text)
           x == EndsTo(text, n)
           out == ParseAddress(text)
<1>1. n \in Nat /\ 0 \in 0 .. n /\ n \in 0 .. n
  OBVIOUS
<1>2. a \in P[0]
  <2>1. <<>> \in Seq(Octets) /\ <<>> \in Seq(DigitSet) /\ Len(<<>>) = 0 /\ 0 < 4 /\ 0 \in Nat
    OBVIOUS
  <2>2. a \in Reading /\ a.octets = <<>> /\ a.num = <<>>
    BY <2>1, Zenon DEF Reading
  <2> HIDE DEF a
  <2>3. EndsTo(text, 0) = 0
    BY <2>1, EndsMore, Zenon
  <2>4. Counted(text, 0, a)
    BY <2>1, <2>2, <2>3, Zenon DEF Counted
  <2> QED BY <1>1, <2>2, <2>4, Zenon
<1>3. ASSUME NEW k \in 1 .. n, NEW p \in P[k - 1] PROVE step[k][p] \in P[k]
  <2>1. k - 1 \in 0 .. n /\ k \in 0 .. n
    BY <1>1
  <2>2. p \in Reading /\ Counted(text, k - 1, p)
    BY <1>3, <2>1, Zenon
  <2>3. step[k][p] = OctetStep(p, text[k])
    BY <2>2, Zenon DEF OctetSteps
  <2>4. Counted(text, k, OctetStep(p, text[k]))
    BY <2>2, CountedMore, Zenon
  <2> HIDE DEF step
  <2>5. Counted(text, k, step[k][p])
    BY <2>3, <2>4, Zenon
  <2>6. step[k][p] \in Reading
    BY <2>5, Zenon DEF Counted
  <2> QED BY <2>1, <2>5, <2>6, Zenon
<1> HIDE DEF step, P, a
<1>4. Runs(step, a, n) \in P[n]
  BY <1>1, <1>2, <1>3, RunsIn
<1>5. e \in P[n]
  BY <1>4, Zenon DEF AddressFrom, step
<1> HIDE DEF e
<1>6. Counted(text, n, e)
  BY <1>1, <1>5, Zenon DEF P
<1>7. e \in Reading /\ x \in Nat
  BY <1>1, <1>6, EndsMore, Zenon DEF Counted
<1>8. \/ x >= 4 /\ Len(e.octets) = 4
      \/ x < 4 /\ Len(e.octets) = x /\ (e.num = <<>> <=> (n = 0 \/ text[n] = "."))
  BY <1>6, Zenon DEF Counted
<1>9. out = AddressOf(e)
  BY AddressIs, Zenon DEF e, a
<1> HIDE DEF out, n
<1>10. x = Cardinality(Ends(text))
  BY Zenon DEF Ends, EndsTo, EndsIn, n
<1> HIDE DEF x
<1> DEFINE o == e.octets
           v == OctetOf(e.num)
<1>11. o \in Seq(Octets) /\ e.num \in Seq(DigitSet)
  BY <1>7 DEF Reading
<1>12. v \in Octets /\ (e.num = <<>> => v = 0)
  BY <1>11, AtoiType, Zenon
<1>13. out = LET octets == IF Len(o) < 4 THEN Append(o, v) ELSE o IN IF Len(octets) = 4 THEN octets ELSE <<>>
  BY <1>9, Zenon DEF AddressOf
<1>14. \/ x >= 4 /\ Len(o) = 4 
       \/ x < 4 /\ Len(o) = x /\ (e.num = <<>> <=> (n = 0 \/ text[n] = "."))
  BY <1>8
<1> HIDE DEF o, v
<1>15. Len(Append(o, v)) = Len(o) + 1 /\ Append(o, v)[Len(o) + 1] = v /\ Len(o) \in Nat
  BY <1>11, <1>12
<1>16. out = <<>> <=> x < 3
  <2>0. Len(<<>>) # 4
    OBVIOUS
  <2>1. CASE x < 3
    <3>1. Len(o) < 4 /\ Len(o) + 1 # 4
      BY <1>7, <1>14, <2>1
    <3>2. Len(Append(o, v)) # 4
      BY <1>15, <3>1, Zenon
    <3>3. out = <<>>
      BY <1>13, <3>1, <3>2, Zenon
    <3> QED BY <2>1, <3>3
  <2>2. CASE x = 3
    <3>1. Len(o) < 4 /\ Len(o) + 1 = 4 /\ ~(x < 3)
      <4> DEFINE m == Len(o)
      <4>1. m = x
        BY <1>14, <2>2
      <4> HIDE DEF m
      <4>2. m < 4 /\ m + 1 = 4 /\ ~(x < 3)
        BY ONLY <2>2, <4>1
      <4> QED BY <4>2 DEF m
    <3>2. Len(Append(o, v)) = 4
      BY <1>15, <3>1, Zenon
    <3>3. out # <<>>
      BY <1>13, <2>0, <3>1, <3>2, Zenon
    <3> QED BY <3>1, <3>3
  <2>3. CASE x > 3
    <3>1. Len(o) = 4 /\ ~(Len(o) < 4) /\ ~(x < 3)
      <4> DEFINE m == Len(o)
      <4>1. m = 4 \/ (x < 4 /\ m = x)
        BY <1>14, Zenon
      <4>2. x \in Nat
        BY <1>7
      <4> HIDE DEF m
      <4>3. m = 4 /\ ~(m < 4) /\ ~(x < 3)
        BY ONLY <2>3, <4>1, <4>2
      <4> QED BY <4>3, Zenon DEF m
    <3>2. out # <<>>
      BY <1>13, <2>0, <3>1, Zenon
    <3> QED BY <3>1, <3>2
  <2>4. x < 3 \/ x = 3 \/ x > 3
    BY <1>7
  <2> QED BY <2>1, <2>2, <2>3, <2>4, Zenon
<1>17. ASSUME x = 3, text[n] = "." PROVE out[4] = 0
  <2>1. Len(o) < 4 /\ Len(o) + 1 = 4 /\ e.num = <<>>
    <3> DEFINE m == Len(o)
    <3>1. m = x /\ e.num = <<>>
      <4>1. ~(x >= 4)
        BY <1>17
      <4> QED BY <1>14, <1>17, <4>1, Zenon
    <3> HIDE DEF m
    <3>2. m < 4 /\ m + 1 = 4
      BY ONLY <1>17, <3>1
    <3> QED BY <3>1, <3>2 DEF m
  <2>2. Len(Append(o, v)) = 4 /\ Append(o, v)[4] = 0
    BY <1>12, <1>15, <2>1, Zenon
  <2> QED BY <1>13, <2>1, <2>2, Zenon
<1>18. ASSUME NEW q \in Quads, text = Dotted(q) PROVE out = q
  BY <1>18, QuadRead, QuadsAreOctets, Zenon DEF out
<1> QED BY <1>10, <1>16, <1>17, <1>18, Zenon DEF AddressRead, n, out

-----------------------------------------------------------------------------
(* Checksums.                                                              *)

\* Products grow with their factors.
LEMMA TimesGrows ==
  ASSUME NEW a \in Int, NEW b \in Int, NEW c \in Nat, a <= b
  PROVE  a * c <= b * c
<1>1. b - a \in Nat
  OBVIOUS
<1>2. (b - a) * c >= 0
  BY <1>1
<1> QED BY <1>2

\* A sum is its quotient by the values of a word, times them, and the remainder.
LEMMA QuotientIs ==
  ASSUME NEW s \in Nat, NEW w \in Nat, w > 0
  PROVE  s \div w \in Nat /\ s % w \in 0 .. w - 1 /\ s = w * (s \div w) + (s % w)
<1> DEFINE q == s \div w
           r == s % w
<1>1. q \in Int /\ r \in 0 .. w - 1 /\ s = q * w + r
  OBVIOUS
<1> HIDE DEF q, r
<1>2. q >= 0
  <2>1. SUFFICES ASSUME q <= -1 PROVE FALSE
    BY <1>1
  <2>2. q * w <= (-1) * w
    BY <1>1, <2>1, TimesGrows
  <2> DEFINE x == q * w
  <2>3. x \in Int /\ x <= -w /\ s = x + r
    BY <1>1, <2>2
  <2> HIDE DEF x
  <2> QED BY ONLY <1>1, <2>3, s \in Nat, w \in Nat
<1>3. q \in Nat /\ r \in 0 .. w - 1 /\ s = w * q + r
  BY <1>1, <1>2
<1> QED BY <1>3 DEF q, r

\* Two bytes make a word.
LEMMA WordIs ==
  ASSUME NEW b \in Nat, NEW h \in 0 .. b - 1, NEW l \in 0 .. b - 1
  PROVE  h * b + l \in 0 .. b * b - 1
<1>1. h * b <= (b - 1) * b
  BY TimesGrows
<1>2. (b - 1) * b = b * b - b
  OBVIOUS
<1>3. h * b >= 0
  OBVIOUS
<1> DEFINE x == h * b
           y == b * b
<1>4. x \in Int /\ y \in Int /\ x >= 0 /\ x <= y - b
  BY <1>1, <1>2, <1>3
<1> HIDE DEF x, y
<1>5. x + l \in 0 .. y - 1
  BY ONLY <1>4, b \in Nat, l \in 0 .. b - 1
<1> QED BY <1>5 DEF x, y

\* The bytes and words of the checksum are numbers, and a word has two bytes.
LEMMA ByteAssumption ==
  Byte \in Nat /\ Byte >= 2 /\ WordRange \in Nat /\ WordRange >= 4 /\ WordRange = Byte * Byte
<1>1. Byte \in Nat /\ Byte >= 2
  BY PacketsAssumption
<1>2. Byte * Byte \in Nat
  BY <1>1
<1>3. 2 * 2 <= Byte * Byte
  <2>1. 2 * 2 <= Byte * 2
    BY <1>1, TimesGrows
  <2>2. 2 * Byte <= Byte * Byte
    BY <1>1, TimesGrows
  <2> QED BY <1>1, <1>2, <2>1, <2>2
<1> QED BY <1>1, <1>2, <1>3 DEF WordRange

\* What a sum with its carries is.
CarriedIs(s) ==
  /\ Carried(s) \in 0 .. WordRange - 1 /\ (Carried(s) = 0 => s = 0)
  /\ \E z \in Nat : s = Carried(s) + z * (WordRange - 1)

\* net_checksum folds the upper word of a sum into the lower one: what it takes away
\* is a multiple of all ones.
LEMMA CarryOnce ==
  ASSUME NEW w \in Nat, w >= 4, NEW s \in Nat, NEW m \in Nat, s <= m * w + (w - 1)
  PROVE  \E q \in 0 .. m : /\ (s % w) + (s \div w) = s - q * (w - 1) /\ s % w = s - w * q
                           /\ s \div w = q /\ s % w \in 0 .. w - 1
<1> DEFINE q == s \div w
           r == s % w
<1>1. q \in Nat /\ r \in 0 .. w - 1 /\ s = w * q + r
  BY QuotientIs
<1> HIDE DEF q, r
<1>2. q <= m
  <2>1. SUFFICES ASSUME ~(q <= m) PROVE FALSE
    OBVIOUS
  <2>2. m + 1 <= q /\ m + 1 \in Int
    BY <1>1, <2>1
  <2>3. (m + 1) * w <= q * w
    BY <1>1, <2>2, TimesGrows
  <2>4. (m + 1) * w = m * w + w /\ q * w = w * q
    BY <1>1
  <2> DEFINE x == m * w
             y == w * q
  <2>5. x \in Int /\ y \in Int /\ x + w <= y /\ s = y + r /\ s <= x + (w - 1)
    BY <1>1, <2>3, <2>4
  <2> HIDE DEF x, y
  <2> QED BY ONLY <1>1, <2>5, w \in Nat
<1>3. q * (w - 1) = w * q - q
  BY <1>1
<1>4. r + q = s - q * (w - 1) /\ r = s - w * q
  <2> DEFINE y == w * q
             x == q * (w - 1)
  <2>1. y \in Int /\ x = y - q /\ s = y + r
    BY <1>1, <1>3
  <2> HIDE DEF x, y
  <2>2. r + q = s - x /\ r = s - y
    BY ONLY <1>1, <2>1
  <2> QED BY <2>2 DEF x, y
<1>5. q \in 0 .. m
  BY <1>1, <1>2
<1> QED BY <1>1, <1>4, <1>5 DEF q, r

\* Two folds are enough for the sum of two words, and leave zero only of zero.
LEMMA CarriedOf ==
  ASSUME NEW s \in Nat, s < WordRange * WordRange
  PROVE  CarriedIs(s)
<1> DEFINE w == WordRange
           c == Carry(s)
           d == Carry(c)
<1>1. w \in Nat /\ w >= 4
  BY ByteAssumption
<1> HIDE DEF w
<1>2. w - 1 \in Nat /\ s <= (w - 1) * w + (w - 1)
  <2>1. (w - 1) * w = w * w - w
    BY <1>1
  <2> DEFINE y == w * w
             x == (w - 1) * w
  <2>2. y \in Int /\ s < y /\ x = y - w
    BY <1>1, <2>1 DEF w
  <2> HIDE DEF y, x
  <2>3. w - 1 \in Nat /\ s <= x + (w - 1)
    BY ONLY <1>1, <2>2, s \in Nat
  <2> QED BY <2>3 DEF x
<1>3. PICK q \in 0 .. w - 1 : /\ (s % w) + (s \div w) = s - q * (w - 1)
                              /\ s \div w = q /\ s % w \in 0 .. w - 1
  BY <1>1, <1>2, CarryOnce, Zenon
<1>4. c = (s % w) + (s \div w)
  BY Zenon DEF Carry, w
<1> HIDE DEF c
<1> DEFINE r == s % w
           x == q * (w - 1)
<1>5. r \in 0 .. w - 1 /\ c = r + q /\ c = s - x /\ x \in Nat
  <2>1. q \in Nat
    BY <1>1
  <2>2. x \in Nat
    BY <1>2, <2>1
  <2> QED BY <1>3, <1>4, <2>2
<1> HIDE DEF r
<1>6. c \in Nat /\ c <= 1 * w + (w - 1) /\ c <= 2 * w - 2 /\ (c = 0 => s = 0)
  <2>1. c = 0 => q = 0
    BY <1>1, <1>5
  <2>2. q = 0 => x = 0
    BY <1>2
  <2> HIDE DEF x
  <2> QED BY <1>1, <1>5, <2>1, <2>2
<1>7. PICK p \in 0 .. 1 : /\ (c % w) + (c \div w) = c - p * (w - 1)
                          /\ c % w = c - w * p /\ c \div w = p /\ c % w \in 0 .. w - 1
  BY <1>1, <1>6, CarryOnce, Zenon
<1>8. d = (c % w) + (c \div w)
  BY Zenon DEF Carry, w
<1> HIDE DEF d
<1>9. d \in 0 .. w - 1 /\ (d = 0 => c = 0) /\ \E y \in Nat : y <= 1 /\ c = d + y * (w - 1)
  <2> HIDE DEF x
  <2> DEFINE a == c % w
             e == c \div w
  <2>1. d = a + e /\ a + e = c - p * (w - 1) /\ a = c - w * p /\ e = p /\ a \in 0 .. w - 1
    BY <1>7, <1>8
  <2> HIDE DEF a, e
  <2>2. CASE p = 0
    <3>1. d = c /\ d = a
      BY <1>1, <1>6, <2>1, <2>2
    <3>2. d \in 0 .. w - 1 /\ (d = 0 => c = 0) /\ c = d + 0 * (w - 1)
      BY <1>1, <1>6, <2>1, <3>1
    <3> QED BY <3>2
  <2>3. CASE p = 1
    <3>1. d = c - (w - 1) /\ d = a + 1 /\ a = c - w
      BY <1>1, <1>6, <2>1, <2>3
    <3>2. d \in 0 .. w - 1 /\ d # 0 /\ c = d + 1 * (w - 1)
      BY <1>1, <1>6, <2>1, <3>1
    <3> QED BY <3>2
  <2> QED BY <2>2, <2>3
<1>10. PICK y \in Nat : c = d + y * (w - 1)
  BY <1>9
<1>11. q + y \in Nat /\ s = d + (q + y) * (w - 1)
  <2>1. q \in Nat
    BY <1>1
  <2>2. (q + y) * (w - 1) = q * (w - 1) + y * (w - 1) /\ y * (w - 1) \in Int
    BY <1>1, <2>1
  <2> DEFINE v == y * (w - 1)
             t == (q + y) * (w - 1)
  <2>3. t = x + v /\ v \in Int /\ c = d + v
    BY <1>10, <2>2
  <2> HIDE DEF x, v, t
  <2>4. s = d + t
    BY ONLY <1>5, <1>9, <2>3, s \in Nat
  <2> QED BY <2>1, <2>4 DEF t
<1>12. Carried(s) = d
  BY Zenon DEF Carried, c, d
<1>13. Carried(s) \in 0 .. w - 1 /\ (Carried(s) = 0 => s = 0)
  BY <1>6, <1>9, <1>12, Zenon
<1>14. \E z \in Nat : s = Carried(s) + z * (w - 1)
  BY <1>11, <1>12, Zenon
<1> QED BY <1>13, <1>14, Zenon DEF CarriedIs, w

\* A sum that is a multiple of all ones, and not zero, carries to all ones.
LEMMA CarriedOnes ==
  ASSUME NEW s \in Nat, s < WordRange * WordRange, s # 0, NEW y \in Int, s = y * (WordRange - 1)
  PROVE  Carried(s) = WordRange - 1
<1> DEFINE m == WordRange - 1
           c == Carried(s)
<1>1. m \in Nat /\ m >= 3
  BY ByteAssumption
<1>2. CarriedIs(s)
  BY CarriedOf
<1>3. c \in 0 .. m /\ (c = 0 => s = 0) /\ \E z \in Nat : s = c + z * m
  BY <1>2, Zenon DEF CarriedIs
<1> HIDE DEF c
<1>4. PICK z \in Nat : s = c + z * m
  BY <1>3, Zenon
<1> HIDE DEF m
<1>5. c = (y - z) * m
  <2>1. (y - z) * m = y * m - z * m /\ y * m \in Int /\ z * m \in Int
    BY <1>1
  <2>2. s = y * m
    BY DEF m
  <2> DEFINE u == y * m
             v == z * m
  <2> HIDE DEF u, v
  <2>3. c = u - v
    <3>1. u \in Int /\ v \in Int /\ s = u /\ s = c + v
      BY <1>4, <2>1, <2>2 DEF u, v
    <3>2. c \in Int
      BY <1>1, <1>3
    <3> QED BY ONLY <3>1, <3>2
  <2> QED BY <2>1, <2>3 DEF u, v
<1> DEFINE x == y - z
<1>6. x \in Int /\ c = x * m /\ c > 0 /\ c <= m
  BY <1>1, <1>3, <1>5
<1> HIDE DEF x
<1>7. x = 1
  <2>1. x > 0
    <3>1. SUFFICES ASSUME x <= 0 PROVE FALSE
      BY <1>6
    <3>2. x * m <= 0 * m
      BY <1>1, <1>6, <3>1, TimesGrows
    <3> QED BY <1>1, <1>6, <3>2
  <2>2. ~(x >= 2)
    <3>1. SUFFICES ASSUME x >= 2 PROVE FALSE
      OBVIOUS
    <3>2. 2 * m <= x * m
      BY <1>1, <1>6, <3>1, TimesGrows
    <3>3. 2 * m <= m
      <4> DEFINE v == x * m
      <4>1. v = c /\ 2 * m <= v /\ c <= m /\ v \in Int
        BY <1>1, <1>6, <3>2
      <4> HIDE DEF v
      <4> QED BY ONLY <1>1, <4>1
    <3> QED BY <1>1, <3>3
  <2> QED BY <1>6, <2>1, <2>2
<1>8. c = m
  BY <1>1, <1>6, <1>7
<1> QED BY <1>8 DEF c, m

\* The sums of the words of s, which never need more than two words.
Word(s, k) == s[2 * k - 1] * Byte + s[2 * k]
SumOf(s, n, f) ==
  /\ f[0] = 0 /\ (\A k \in 0 .. n : f[k] \in Nat)
  /\ \A k \in 1 .. n : f[k] = f[k - 1] + Word(s, k)
  /\ f[n] < WordRange * WordRange /\ net_checksum(s) = WordRange - 1 - Carried(f[n])

\* A word more, with at most w words, never makes the sum wrap.
LEMMA SumSmall ==
  ASSUME NEW w \in Nat, w >= 4, NEW n \in Nat, n <= w, NEW k \in 1 .. n,
         NEW a \in Nat, a <= (k - 1) * (w - 1), NEW x \in 0 .. w - 1
  PROVE  a + x \in Nat /\ a + x <= k * (w - 1) /\ a + x < w * w
<1> DEFINE m == w - 1
           u == (k - 1) * m
           v == k * m
           y == w * w
<1>1. m \in Nat /\ w = m + 1
  OBVIOUS
<1>2. u = v - m /\ v \in Int
  BY <1>1
<1>3. k * m <= w * m
  BY <1>1, TimesGrows
<1>4. w * m = w * w - w
  BY <1>1
<1>5. v <= y - w /\ y \in Int
  BY <1>1, <1>3, <1>4
<1>6. a <= u
  OBVIOUS
<1> HIDE DEF m, u, v, y
<1>7. a + x \in Nat /\ a + x <= v /\ a + x < y
  <2>1. x \in Nat /\ x <= m
    BY <1>1
  <2> QED BY ONLY <1>1, <1>2, <1>5, <1>6, <2>1, a \in Nat, w >= 4
<1> QED BY <1>7 DEF v, m, y

\* net_checksum adds up the words of the data and complements what is carried.
LEMMA SumIs ==
  ASSUME NEW s, NEW n \in Nat, Len(s) = 2 * n, n <= WordRange, \A i \in 1 .. 2 * n : s[i] \in 0 .. Byte - 1
  PROVE  \E f : SumOf(s, n, f)
<1> DEFINE w == WordRange
           r == w * w
           step == [k \in 1 .. n |-> [a \in Nat |-> (a + s[2 * k - 1] * Byte + s[2 * k]) % r]]
<1>1. Byte \in Nat /\ w \in Nat /\ w >= 4 /\ w = Byte * Byte /\ n <= w
  BY ByteAssumption
<1>2. r \in Nat
  BY <1>1
<1>3. ASSUME NEW k \in 1 .. n
      PROVE  /\ Word(s, k) \in 0 .. w - 1
             /\ \A a \in Nat : step[k][a] = (a + Word(s, k)) % r
  <2>1. 2 * k - 1 \in 1 .. 2 * n /\ 2 * k \in 1 .. 2 * n
    OBVIOUS
  <2> DEFINE h == s[2 * k - 1]
             l == s[2 * k]
  <2>2. h \in 0 .. Byte - 1 /\ l \in 0 .. Byte - 1
    BY <2>1, Zenon
  <2> HIDE DEF h, l, w, r
  <2>3. h * Byte + l \in 0 .. Byte * Byte - 1
    BY <1>1, <2>2, WordIs
  <2>4. Word(s, k) = h * Byte + l
    BY DEF Word, h, l
  <2>5. ASSUME NEW a \in Nat PROVE step[k][a] = (a + Word(s, k)) % r
    <3>1. step[k][a] = (a + h * Byte + l) % r
      BY Zenon DEF h, l
    <3>2. a + h * Byte + l = a + (h * Byte + l)
      <4>1. h * Byte \in Int /\ l \in Int
        BY <1>1, <2>2
      <4> QED BY <4>1
    <3> QED BY <2>4, <3>1, <3>2, Zenon
  <2> QED BY <1>1, <2>3, <2>4, <2>5, Zenon
<1> HIDE DEF w, r, step
<1>4. PICK f : Through(f, step, 0, n)
  BY RunsBy
<1>5. f[0] = 0 /\ f[n] = Runs(step, 0, n) /\ \A k \in 1 .. n : f[k] = step[k][f[k - 1]]
  BY <1>4, Zenon DEF Through
<1> DEFINE T == {k \in 0 .. n : f[k] \in Nat /\ f[k] <= k * (w - 1)}
<1>6. ASSUME NEW k \in 1 .. n, f[k - 1] \in Nat, f[k - 1] <= (k - 1) * (w - 1)
      PROVE  /\ f[k] = f[k - 1] + Word(s, k) /\ f[k] \in Nat /\ f[k] <= k * (w - 1) /\ f[k] < r
  <2> DEFINE a == f[k - 1]
             x == Word(s, k)
  <2>1. f[k] = (a + x) % r /\ x \in 0 .. w - 1
    BY <1>3, <1>5, <1>6, Zenon
  <2>2. a \in Nat /\ a <= (k - 1) * (w - 1)
    BY <1>6, Zenon
  <2> HIDE DEF a, x
  <2>3. a + x \in Nat /\ a + x <= k * (w - 1) /\ a + x < w * w
    BY <1>1, <2>1, <2>2, SumSmall
  <2>4. (a + x) % r = a + x
    <3> DEFINE y == a + x
    <3>1. y \in Nat /\ y < r
      BY <2>3, Zenon DEF r
    <3> HIDE DEF y
    <3>2. y % r = y
      BY <1>2, <3>1, ModSmall
    <3> QED BY <3>2 DEF y
  <2>5. f[k] = a + x
    BY <2>1, <2>4, Zenon
  <2> QED BY <2>3, <2>5, Zenon DEF a, x, r
<1>7. 0 \in T
  <2>1. 0 <= 0 * (w - 1) /\ 0 \in 0 .. n /\ 0 \in Nat
    BY <1>1
  <2> QED BY <1>5, <2>1, Zenon
<1>8. \A k \in 1 .. n : k - 1 \in T => k \in T
  <2>1. ASSUME NEW k \in 1 .. n, k - 1 \in T PROVE k \in T
    <3>1. f[k - 1] \in Nat /\ f[k - 1] <= (k - 1) * (w - 1)
      BY <2>1, Zenon
    <3>2. f[k] \in Nat /\ f[k] <= k * (w - 1)
      BY <1>6, <3>1, Zenon
    <3>3. k \in 0 .. n
      OBVIOUS
    <3> QED BY <3>2, <3>3, Zenon
  <2> HIDE DEF T
  <2> QED BY <2>1
<1>9. \A k \in 0 .. n : k \in T
  <2> HIDE DEF T
  <2> QED BY <1>7, <1>8, LoopInduction
<1>10. \A k \in 0 .. n : f[k] \in Nat /\ f[k] <= k * (w - 1)
  BY <1>9, Zenon
<1>11. ASSUME NEW k \in 1 .. n PROVE f[k] = f[k - 1] + Word(s, k) /\ f[k] < r
  <2>1. k - 1 \in 0 .. n
    OBVIOUS
  <2> QED BY <1>6, <1>10, <2>1, Zenon
<1>12. f[n] < r /\ f[n] \in Nat
  <2>1. CASE n = 0
    <3>1. 0 < r /\ 0 \in Nat
      <4>1. 4 * w <= w * w /\ 4 * w > 0
        BY <1>1, TimesGrows
      <4> QED BY <1>1, <1>2, <4>1 DEF r
    <3> QED BY <1>5, <2>1, <3>1, Zenon
  <2>2. CASE n # 0
    <3>1. n \in 1 .. n /\ n \in 0 .. n
      BY <2>2
    <3> QED BY <1>10, <1>11, <3>1, Zenon
  <2> QED BY <2>1, <2>2
<1>13. net_checksum(s) = w - 1 - Carried(f[n])
  <2> DEFINE words == Runs([k \in 1 .. Len(s) \div 2 |-> [a \in Nat |->
                              (a + s[2 * k - 1] * Byte + s[2 * k]) % (WordRange * WordRange)]], 0, Len(s) \div 2)
             odd == IF Len(s) % 2 = 1 THEN s[Len(s)] ELSE 0
  <2>1. net_checksum(s) = WordRange - 1 - Carried((words + odd) % (WordRange * WordRange))
    BY Zenon DEF net_checksum
  <2>2. (2 * n) \div 2 = n /\ (2 * n) % 2 = 0 /\ 0 # 1
    OBVIOUS
  <2>3. Len(s) \div 2 = n /\ Len(s) % 2 = 0
    BY <2>2, Zenon
  <2>4. words = f[n]
    BY <1>5, <2>3, Zenon DEF step, r, w
  <2>5. odd = 0
    BY <2>2, <2>3, Zenon
  <2> HIDE DEF words, odd
  <2> DEFINE y == f[n]
  <2>6. y \in Nat /\ y < r /\ words = y
    BY <1>12, <2>4, Zenon
  <2> HIDE DEF y
  <2>7. words + odd = y
    BY <2>5, <2>6
  <2>8. y % r = y
    BY <1>2, <2>6, ModSmall
  <2>9. (words + odd) % (WordRange * WordRange) = y
    BY <2>7, <2>8, Zenon DEF r, w
  <2> QED BY <2>1, <2>9, Zenon DEF y, w
<1>14. SumOf(s, n, f)
  BY <1>5, <1>10, <1>11, <1>12, <1>13, Zenon DEF SumOf, r, w
<1> QED BY <1>14, Zenon

\* The bytes of a word.
LEMMA BytesOf ==
  ASSUME NEW x \in 0 .. WordRange - 1
  PROVE  /\ x \div Byte \in 0 .. Byte - 1 /\ x % Byte \in 0 .. Byte - 1
         /\ (x \div Byte) * Byte + (x % Byte) = x
<1> DEFINE h == x \div Byte
           l == x % Byte
           b == Byte
<1>1. b \in Nat /\ b >= 2 /\ WordRange = b * b /\ x \in Nat /\ x < b * b
  BY ByteAssumption
<1>2. h \in Nat /\ l \in 0 .. b - 1 /\ x = b * h + l
  BY <1>1, QuotientIs
<1> HIDE DEF h, l, b
<1>3. h < b
  <2>1. SUFFICES ASSUME b <= h PROVE FALSE
    BY <1>1, <1>2
  <2>2. b * b <= h * b
    BY <1>1, <1>2, <2>1, TimesGrows
  <2>3. h * b = b * h
    BY <1>1, <1>2
  <2> DEFINE y == b * b
             v == b * h
  <2>4. y \in Int /\ v \in Int /\ y <= v /\ x = v + l /\ x < y
    BY <1>1, <1>2, <2>2, <2>3
  <2> HIDE DEF y, v
  <2> QED BY ONLY <1>1, <1>2, <2>4
<1>4. h \in 0 .. b - 1 /\ l \in 0 .. b - 1 /\ h * b + l = x
  BY <1>1, <1>2, <1>3
<1> QED BY <1>4 DEF h, l, b

\* A word with its bytes exchanged is b times the word, but for multiples of all ones.
LEMMA ExchangeWord ==
  ASSUME NEW b \in Nat, b >= 2, NEW g \in Nat, NEW t \in Nat, NEW z \in Int,
         NEW h \in 0 .. b - 1, NEW l \in 0 .. b - 1,
         b * g = t + z * (b * b - 1), g <= b * t
  PROVE  /\ b * (g + (h * b + l)) = (t + (l * b + h)) + (z + h) * (b * b - 1)
         /\ g + (h * b + l) <= b * (t + (l * b + h))
<1> DEFINE m == b * b - 1
           hb == h * b
           lb == l * b
<1>1. hb \in Int /\ lb \in Int /\ m \in Int /\ b * b = m + 1
  OBVIOUS
<1>2. b * hb = h * (b * b) /\ b * lb = l * (b * b) /\ b * h = hb /\ b * l = lb
  OBVIOUS
<1>3. h * (b * b) = h * m + h /\ l * (b * b) = l * m + l
  BY <1>1
<1>4. h * m \in Int /\ l * m \in Nat /\ z * m \in Int
  <2>1. 2 * b <= b * b /\ l \in Nat
    BY TimesGrows
  <2>2. m \in Nat
    BY <1>1, <2>1
  <2> QED BY <2>1, <2>2
<1>5. b * (g + (hb + l)) = b * g + b * hb + b * l
  BY <1>1
<1>6. b * (t + (lb + h)) = b * t + b * lb + b * h
  BY <1>1
<1>7. (z + h) * m = z * m + h * m
  BY <1>1
<1> DEFINE hm == h * m
           lm == l * m
           zm == z * m
           bg == b * g
           bt == b * t
<1>8. /\ hm \in Int /\ lm \in Nat /\ zm \in Int /\ bg \in Int /\ bt \in Int
      /\ b * (g + (hb + l)) = bg + (hm + h) + lb
      /\ b * (t + (lb + h)) = bt + (lm + l) + hb
      /\ (z + h) * m = zm + hm
      /\ bg = t + zm /\ g <= bt
  BY <1>2, <1>3, <1>4, <1>5, <1>6, <1>7
<1> DEFINE x == b * (g + (hb + l))
           y == b * (t + (lb + h))
           v == (z + h) * m
<1>9. x = bg + (hm + h) + lb /\ y = bt + (lm + l) + hb /\ v = zm + hm
  BY <1>8
<1> HIDE DEF x, y, v, hm, lm, zm, bg, bt, hb, lb, m
<1>10. x = (t + (lb + h)) + v
  BY ONLY <1>1, <1>8, <1>9, h \in 0 .. b - 1, t \in Nat, b \in Nat
<1>11. g + (hb + l) <= y
  BY ONLY <1>1, <1>8, <1>9, l \in 0 .. b - 1, g \in Nat, b \in Nat
<1> QED BY <1>10, <1>11 DEF x, y, v, hb, lb, m

\* The sums over words, and over the words with their bytes exchanged.
Exchange(g, t) == (\E z \in Int : Byte * g = t + z * (WordRange - 1)) /\ g <= Byte * t

\* Over the whole data, the sum of the words and of the words with their bytes
\* exchanged differ by the factor of a byte, but for multiples of all ones.
LEMMA ExchangeSums ==
  ASSUME NEW n \in Nat, NEW s, NEW e, NEW g, NEW t, SumOf(s, n, g), SumOf(e, n, t),
         \A i \in 1 .. 2 * n : s[i] \in 0 .. Byte - 1,
         \A k \in 1 .. n : e[2 * k - 1] = s[2 * k] /\ e[2 * k] = s[2 * k - 1]
  PROVE  Exchange(g[n], t[n])
<1> DEFINE T == {k \in 0 .. n : Exchange(g[k], t[k])}
<1>1. Byte \in Nat /\ Byte >= 2 /\ WordRange = Byte * Byte
  BY ByteAssumption
<1>2. /\ g[0] = 0 /\ (\A k \in 0 .. n : g[k] \in Nat) /\ (\A k \in 1 .. n : g[k] = g[k - 1] + Word(s, k))
      /\ t[0] = 0 /\ (\A k \in 0 .. n : t[k] \in Nat) /\ (\A k \in 1 .. n : t[k] = t[k - 1] + Word(e, k))
  BY Zenon DEF SumOf
<1>3. 0 \in T
  <2>1. Byte * 0 = 0 + 0 * (WordRange - 1) /\ 0 <= Byte * 0 /\ 0 \in Int
    <3>1. WordRange - 1 \in Int
      BY ByteAssumption
    <3> QED BY <1>1, <3>1
  <2>2. Exchange(0, 0)
    BY <2>1, Zenon DEF Exchange
  <2>3. 0 \in 0 .. n
    OBVIOUS
  <2> QED BY <1>2, <2>2, <2>3, Zenon
<1>4. ASSUME NEW k \in 1 .. n, k - 1 \in T PROVE k \in T
  <2>1. k \in 0 .. n /\ k - 1 \in 0 .. n /\ 2 * k \in 1 .. 2 * n /\ 2 * k - 1 \in 1 .. 2 * n
    OBVIOUS
  <2> DEFINE a == g[k - 1]
             c == t[k - 1]
             h == s[2 * k - 1]
             l == s[2 * k]
             b == Byte
  <2>2. Exchange(a, c)
    BY <1>4, Zenon
  <2>3. a \in Nat /\ c \in Nat /\ h \in 0 .. b - 1 /\ l \in 0 .. b - 1
    BY <1>2, <2>1, Zenon
  <2>4. g[k] = a + (h * b + l) /\ t[k] = c + (l * b + h)
    BY <1>2, Zenon DEF Word
  <2> HIDE DEF a, c, h, l, b
  <2>5. PICK z \in Int : b * a = c + z * (b * b - 1) /\ a <= b * c
    BY <1>1, <2>2, Zenon DEF Exchange, b
  <2>6. b \in Nat /\ b >= 2
    BY <1>1 DEF b
  <2>7. /\ b * (a + (h * b + l)) = (c + (l * b + h)) + (z + h) * (b * b - 1)
        /\ a + (h * b + l) <= b * (c + (l * b + h))
    BY <2>3, <2>5, <2>6, ExchangeWord
  <2>8. z + h \in Int
    BY <2>3, <2>6
  <2>9. /\ Byte * g[k] = t[k] + (z + h) * (WordRange - 1)
        /\ g[k] <= Byte * t[k]
    BY <1>1, <2>4, <2>7, Zenon DEF b
  <2>10. Exchange(g[k], t[k])
    BY <2>8, <2>9, Zenon DEF Exchange
  <2> QED BY <2>1, <2>10, Zenon
<1> HIDE DEF T
<1>5. \A k \in 0 .. n : k \in T
  BY <1>3, <1>4, LoopInduction
<1>6. n \in 0 .. n
  OBVIOUS
<1> QED BY <1>5, <1>6, Zenon DEF T

\* A sum over the data, and one over the data with another word behind them.
LEMMA SumsAgree ==
  ASSUME NEW n \in Nat, NEW s, NEW d, NEW f, NEW g, SumOf(d, n, f), SumOf(s, n + 1, g),
         \A i \in 1 .. 2 * n : s[i] = d[i]
  PROVE  g[n + 1] = f[n] + Word(s, n + 1) /\ f[n] \in Nat
<1>1. /\ f[0] = 0 /\ (\A k \in 1 .. n : f[k] = f[k - 1] + Word(d, k)) /\ (\A k \in 0 .. n : f[k] \in Nat)
      /\ g[0] = 0 /\ (\A k \in 1 .. n + 1 : g[k] = g[k - 1] + Word(s, k))
  BY Zenon DEF SumOf
<1> DEFINE T == {k \in 0 .. n : f[k] = g[k]}
<1>2. 0 \in T
  BY <1>1
<1>3. ASSUME NEW k \in 1 .. n, k - 1 \in T PROVE k \in T
  <2>1. k \in 0 .. n /\ k \in 1 .. n + 1 /\ 2 * k \in 1 .. 2 * n /\ 2 * k - 1 \in 1 .. 2 * n
    OBVIOUS
  <2>2. Word(s, k) = Word(d, k)
    BY <2>1, Zenon DEF Word
  <2>3. f[k - 1] = g[k - 1]
    BY <1>3, Zenon
  <2> QED BY <1>1, <2>1, <2>2, <2>3, Zenon
<1> HIDE DEF T
<1>4. \A k \in 0 .. n : k \in T
  BY <1>2, <1>3, LoopInduction
<1>5. n \in 0 .. n /\ n + 1 \in 1 .. n + 1 /\ n + 1 - 1 = n
  OBVIOUS
<1>6. f[n] = g[n]
  BY <1>4, <1>5, Zenon DEF T
<1> DEFINE x == n + 1
<1> HIDE DEF x
<1>7. x \in 1 .. n + 1 /\ x - 1 = n
  BY <1>5 DEF x
<1>8. g[x] = g[x - 1] + Word(s, x)
  BY <1>1, <1>7, Zenon
<1>9. g[x] = f[n] + Word(s, x)
  BY <1>6, <1>7, <1>8, Zenon
<1>10. f[n] \in Nat
  BY <1>1, <1>5, Zenon
<1> QED BY <1>9, <1>10 DEF x

\* Bytes that make n words, and their exchange.
InWords(s, n) == Len(s) = 2 * n /\ \A i \in 1 .. 2 * n : s[i] \in 0 .. Byte - 1
Swapped(s, e, n) == \A k \in 1 .. n : e[2 * k - 1] = s[2 * k] /\ e[2 * k] = s[2 * k - 1]
FollowedBy(s, data, n, x) == (\A i \in 1 .. 2 * n : s[i] = data[i]) /\ Word(s, n + 1) = x

\* The data with a word behind them, as the bytes of it are sent.
LEMMA WholeIs ==
  ASSUME NEW data \in Seq(0 .. Byte - 1), NEW n \in Nat, Len(data) = 2 * n,
         NEW h \in 0 .. Byte - 1, NEW l \in 0 .. Byte - 1, NEW s, s = data \o <<h, l>>
  PROVE  InWords(s, n + 1) /\ FollowedBy(s, data, n, h * Byte + l)
<1> DEFINE B == 0 .. Byte - 1
           t == <<h, l>>
<1>1. data \in Seq(B) /\ h \in B /\ l \in B /\ s = data \o t
  OBVIOUS
<1> HIDE DEF B
<1>2. t \in Seq(B) /\ Len(t) = 2 /\ t[1] = h /\ t[2] = l
  BY <1>1
<1> HIDE DEF t
<1>3. /\ s \in Seq(B) /\ Len(s) = 2 * n + 2 /\ (\A i \in 1 .. 2 * n : s[i] = data[i])
      /\ s[2 * n + 1] = h /\ s[2 * n + 2] = l
  <2> DEFINE m == 2 * n
  <2>1. m \in Nat /\ Len(data) = m
    OBVIOUS
  <2> HIDE DEF m
  <2>2. /\ s \in Seq(B) /\ Len(s) = m + 2 /\ (\A i \in 1 .. m : s[i] = data[i])
        /\ s[m + 1] = h /\ s[m + 2] = l
    <3>1. s \in Seq(B) /\ Len(s) = m + 2 /\ \A i \in 1 .. m : s[i] = data[i]
      <4>1. s \in Seq(B) /\ Len(s) = Len(data) + Len(t) /\ \A i \in 1 .. Len(data) : s[i] = data[i]
        BY <1>1, <1>2
      <4> QED BY <1>2, <2>1, <4>1, Zenon
    <3>3. \A i \in 1 .. 2 : s[m + i] = t[i]
      <4>1. \A i \in 1 .. Len(t) : s[Len(data) + i] = t[i]
        BY <1>1, <1>2
      <4> QED BY <1>2, <2>1, <4>1, Zenon
    <3>4. 1 \in 1 .. 2 /\ 2 \in 1 .. 2
      OBVIOUS
    <3>5. s[m + 1] = h /\ s[m + 2] = l
      BY <1>2, <3>3, <3>4, Zenon
    <3> QED BY <3>1, <3>5, Zenon
  <2> QED BY <2>2 DEF m
<1>4. 2 * (n + 1) = 2 * n + 2 /\ 2 * (n + 1) - 1 = 2 * n + 1
  OBVIOUS
<1>5. \A i \in 1 .. 2 * n + 2 : s[i] \in B
  BY <1>3
<1>6. Word(s, n + 1) = h * Byte + l
  BY <1>3, <1>4, Zenon DEF Word
<1>7. InWords(s, n + 1)
  BY <1>3, <1>4, <1>5, Zenon DEF B, InWords
<1>8. FollowedBy(s, data, n, h * Byte + l)
  BY <1>3, <1>6, Zenon DEF FollowedBy
<1> QED BY <1>7, <1>8

\* The same with the bytes of every word exchanged.
LEMMA ExchangedIs ==
  ASSUME NEW s, NEW n \in Nat, InWords(s, n), NEW e,
         e = [i \in 1 .. Len(s) |-> IF i % 2 = 1 THEN s[i + 1] ELSE s[i - 1]]
  PROVE  InWords(e, n) /\ Swapped(s, e, n)
<1>0. Len(s) = 2 * n /\ \A i \in 1 .. 2 * n : s[i] \in 0 .. Byte - 1
  BY Zenon DEF InWords
<1>1. Len(e) = 2 * n
  <2> DEFINE m == Len(s)
  <2>1. m \in Nat /\ m = 2 * n
    BY <1>0
  <2>2. e = [i \in 1 .. m |-> IF i % 2 = 1 THEN s[i + 1] ELSE s[i - 1]]
    OBVIOUS
  <2> HIDE DEF m
  <2>3. Len(e) = m
    BY ONLY <2>1, <2>2
  <2> QED BY <2>1, <2>3, Zenon
<1>2. \A i \in 1 .. 2 * n : e[i] = IF i % 2 = 1 THEN s[i + 1] ELSE s[i - 1]
  BY <1>0, Zenon
<1>3. ASSUME NEW i \in 1 .. 2 * n PROVE e[i] \in 0 .. Byte - 1
  <2>1. CASE i % 2 = 1
    <3>1. i + 1 \in 1 .. 2 * n
      BY <2>1
    <3> QED BY <1>0, <1>2, <2>1, <3>1, Zenon
  <2>2. CASE i % 2 # 1
    <3>1. i - 1 \in 1 .. 2 * n
      BY <2>2
    <3> QED BY <1>0, <1>2, <2>2, <3>1, Zenon
  <2> QED BY <2>1, <2>2
<1>4. ASSUME NEW k \in 1 .. n PROVE e[2 * k - 1] = s[2 * k] /\ e[2 * k] = s[2 * k - 1]
  <2> DEFINE x == 2 * k - 1
             y == 2 * k
  <2>1. x \in 1 .. 2 * n /\ y \in 1 .. 2 * n /\ x % 2 = 1 /\ y % 2 # 1 /\ x + 1 = y /\ y - 1 = x
    OBVIOUS
  <2> HIDE DEF x, y
  <2>2. e[x] = s[y] /\ e[y] = s[x]
    BY <1>2, <2>1, Zenon
  <2> QED BY <2>2 DEF x, y
<1> QED BY <1>1, <1>3, <1>4, Zenon DEF InWords, Swapped

\* A checksum behind its data verifies in both orders of the bytes.
LEMMA VerifiesIs ==
  ASSUME NEW data \in Seq(0 .. Byte - 1), Len(data) < WordRange, Len(data) % 2 = 0
  PROVE  Verifies(data, net_checksum(data))
<1> DEFINE w == WordRange
           m == w - 1
           n == Len(data) \div 2
           out == net_checksum(data)
           h == out \div Byte
           l == out % Byte
           s == data \o <<h, l>>
           e == [i \in 1 .. Len(s) |-> IF i % 2 = 1 THEN s[i + 1] ELSE s[i - 1]]
<1>1. Byte \in Nat /\ w \in Nat /\ w >= 4 /\ m \in Nat /\ m >= 3
  BY ByteAssumption
<1>2. n \in Nat /\ Len(data) = 2 * n /\ n <= w /\ n + 1 <= w /\ n + 1 \in Nat
  <2> DEFINE k == Len(data)
  <2>1. k \in Nat /\ k < w /\ k % 2 = 0
    OBVIOUS
  <2> HIDE DEF k, w
  <2>2. k \div 2 \in Nat /\ k = 2 * (k \div 2) /\ k \div 2 <= w /\ k \div 2 + 1 <= w
    BY ONLY <1>1, <2>1
  <2>3. n = k \div 2
    BY DEF k
  <2> HIDE DEF n
  <2> QED BY <2>2, <2>3 DEF k
<1> HIDE DEF n, w
<1>3. \A i \in 1 .. 2 * n : data[i] \in 0 .. Byte - 1
  <2> DEFINE B == 0 .. Byte - 1
             k == 2 * n
  <2>1. data \in Seq(B) /\ Len(data) = k /\ k \in Nat
    BY <1>2
  <2> HIDE DEF B, k
  <2>2. \A i \in 1 .. k : data[i] \in B
    BY ONLY <2>1
  <2> QED BY <2>2 DEF B, k
<1>4. PICK f : SumOf(data, n, f)
  BY <1>2, <1>3, SumIs, Zenon DEF w
<1> DEFINE c == Carried(f[n])
<1>5. f[n] \in Nat /\ f[n] < w * w /\ out = w - 1 - c
  <2>1. n \in 0 .. n
    BY <1>2
  <2> QED BY <1>4, <2>1, Zenon DEF SumOf, w
<1>6. c \in 0 .. w - 1 /\ \E z \in Nat : f[n] = c + z * m
  <2>1. CarriedIs(f[n])
    BY <1>5, CarriedOf, Zenon DEF w
  <2> QED BY <2>1, Zenon DEF CarriedIs, w
<1>7. PICK z \in Nat : f[n] = c + z * m
  BY <1>6, Zenon
<1> HIDE DEF c, out
<1>8. out \in 0 .. w - 1
  BY <1>1, <1>5, <1>6
<1>9. h \in 0 .. Byte - 1 /\ l \in 0 .. Byte - 1 /\ h * Byte + l = out
  BY <1>8, BytesOf, Zenon DEF w
<1> HIDE DEF h, l
<1>10. s = data \o <<h, l>>
  OBVIOUS
<1> HIDE DEF s
<1>11. InWords(s, n + 1) /\ FollowedBy(s, data, n, out)
  <2>1. InWords(s, n + 1) /\ FollowedBy(s, data, n, h * Byte + l)
    BY <1>2, <1>9, <1>10, WholeIs
  <2> QED BY <1>9, <2>1, Zenon
<1> DEFINE N == n + 1
<1> HIDE DEF N
<1>N. N \in Nat /\ N <= w /\ N = n + 1
  BY <1>2 DEF N
<1>12. PICK g : SumOf(s, N, g)
  BY <1>11, <1>N, SumIs, Zenon DEF w, InWords
<1>13. e = [i \in 1 .. Len(s) |-> IF i % 2 = 1 THEN s[i + 1] ELSE s[i - 1]]
  OBVIOUS
<1> HIDE DEF e
<1>14. InWords(e, N) /\ Swapped(s, e, N)
  BY <1>11, <1>13, <1>N, ExchangedIs
<1>15. PICK t : SumOf(e, N, t)
  BY <1>14, <1>N, SumIs, Zenon DEF w, InWords
<1> DEFINE a == g[N]
           b == t[N]
<1>16. /\ a \in Nat /\ a < w * w /\ net_checksum(s) = w - 1 - Carried(a)
       /\ b \in Nat /\ b < w * w /\ net_checksum(e) = w - 1 - Carried(b)
  <2>1. N \in 0 .. N
    BY <1>N
  <2> QED BY <1>12, <1>15, <2>1, Zenon DEF SumOf, w
<1>17. a = f[n] + out
  <2>1. SumOf(s, n + 1, g) /\ (\A i \in 1 .. 2 * n : s[i] = data[i]) /\ Word(s, n + 1) = out
    BY <1>11, <1>12, <1>N, Zenon DEF FollowedBy
  <2>2. g[n + 1] = f[n] + Word(s, n + 1)
    BY <1>2, <1>4, <2>1, SumsAgree, Zenon
  <2> QED BY <1>N, <2>1, <2>2, Zenon
<1>18. Exchange(a, b)
  <2>1. \A i \in 1 .. 2 * N : s[i] \in 0 .. Byte - 1
    BY <1>11, <1>N, Zenon DEF InWords
  <2>2. \A k \in 1 .. N : e[2 * k - 1] = s[2 * k] /\ e[2 * k] = s[2 * k - 1]
    BY <1>14, Zenon DEF Swapped
  <2> QED BY <1>12, <1>15, <1>N, <2>1, <2>2, ExchangeSums, Zenon
<1> HIDE DEF a, b
<1>19. a = (z + 1) * m /\ a > 0
  <2> DEFINE x == z * m
             y == f[n]
  <2>1. x \in Nat /\ (z + 1) * m = x + m
    BY <1>1
  <2>2. y = c + x /\ a = y + out /\ y \in Nat
    BY <1>5, <1>7, <1>17, Zenon
  <2> HIDE DEF x, y
  <2>3. a = x + m /\ a > 0
    <3>1. m = w - 1
      OBVIOUS
    <3> HIDE DEF m
    <3>2. out = w - 1 - c
      BY <1>5, Zenon
    <3> QED BY ONLY <1>1, <1>6, <2>1, <2>2, <3>1, <3>2
  <2> QED BY <2>1, <2>3
<1>20. PICK q \in Int : Byte * a = b + q * m /\ a <= Byte * b
  BY <1>18, Zenon DEF Exchange, w
<1> HIDE DEF m
<1>21. b = (Byte * (z + 1) - q) * m /\ Byte * (z + 1) - q \in Int
  <2> DEFINE u == Byte * (z + 1)
  <2>1. u \in Int
    BY <1>1
  <2>2. Byte * a = u * m
    BY <1>1, <1>19
  <2> HIDE DEF u
  <2>3. (u - q) * m = u * m - q * m
    BY <1>1, <2>1
  <2> DEFINE v == u * m
             x == q * m
  <2>4. v \in Int /\ x \in Int /\ v = b + x
    BY <1>1, <1>20, <2>1, <2>2
  <2> HIDE DEF v, x
  <2>5. b = v - x
    BY ONLY <1>16, <2>4
  <2>6. b = (u - q) * m /\ u - q \in Int
    BY <2>1, <2>3, <2>5 DEF v, x
  <2> QED BY <2>6 DEF u
<1>22. b # 0
  <2>1. SUFFICES ASSUME b = 0 PROVE FALSE
    OBVIOUS
  <2>2. Byte * b = 0
    BY <1>1, <2>1
  <2>3. a <= 0
    BY <1>20, <2>2, Zenon
  <2> QED BY <1>16, <1>19, <2>3
<1>23. Carried(a) = w - 1
  <2>1. a # 0 /\ z + 1 \in Int
    BY <1>16, <1>19
  <2> QED BY <1>16, <1>19, <2>1, CarriedOnes, Zenon DEF w, m
<1>24. Carried(b) = w - 1
  BY <1>16, <1>21, <1>22, CarriedOnes, Zenon DEF w, m
<1>25. w - 1 - (w - 1) = 0
  BY <1>1
<1>26. net_checksum(s) = 0 /\ net_checksum(e) = 0
  BY <1>16, <1>23, <1>24, <1>25, Zenon
<1> QED BY <1>26, Zenon DEF Verifies, out, h, l, s, e

-----------------------------------------------------------------------------
(* The theorem.                                                            *)

\* What itoa, atoi, the address and URL readers and net_checksum returned is as
\* TextsAndSums says.
LEMMA TextsAgree == Returned => TextsAndSums
<1>1. SUFFICES ASSUME Returned PROVE TextsAndSums
  OBVIOUS
<1>2. NumbersRoundTrip
  <2>1. SUFFICES ASSUME job.fn = "itoa", job.in # IntMin PROVE atoi(job.out) = job.in
    BY DEF NumbersRoundTrip
  <2>2. job.in \in Ints /\ job.out = itoa(job.in)
    BY <1>1, <2>1, Zenon DEF Returned
  <2>3. job.in \in IntMin .. IntMax
    BY <2>2, TextsAssumption, Zenon
  <2> QED BY <2>1, <2>2, <2>3, AtoiItoa, Zenon
<1>3. AddressesRead
  <2>1. SUFFICES ASSUME job.fn = "address" PROVE AddressRead(job.in, job.out)
    BY DEF AddressesRead
  <2>2. job.in \in Addresses /\ job.out = ParseAddress(job.in)
    BY <1>1, <2>1, Zenon DEF Returned
  <2>3. job.in \in Seq(AddressChars)
    BY <2>2, TextsAssumption, Zenon DEF AddressChars
  <2> QED BY <2>2, <2>3, AddressReadIs, Zenon
<1>4. UrlTakenApart
  <2>1. SUFFICES ASSUME job.fn = "url", Len(job.in.host) <= HostMax, Len(job.in.port) <= 6
                 PROVE  TakenApart(job.in, job.out)
    BY DEF UrlTakenApart
  <2>2. job.in \in Urls /\ job.out = ParseUrl(job.in.host \o job.in.port \o job.in.path)
    BY <1>1, <2>1, Zenon DEF Returned
  <2> QED BY <2>1, <2>2, TakenApartIs, Zenon
<1>5. ChecksumVerifies
  <2>1. SUFFICES ASSUME job.fn = "checksum", Len(job.in) % 2 = 0 PROVE Verifies(job.in, job.out)
    BY DEF ChecksumVerifies
  <2>2. job.in \in Blocks /\ job.out = net_checksum(job.in)
    BY <1>1, <2>1, Zenon DEF Returned
  <2>3. job.in \in Seq(0 .. Byte - 1) /\ Len(job.in) < WordRange
    BY <2>2, PacketsAssumption, Zenon
  <2> QED BY <2>1, <2>2, <2>3, VerifiesIs, Zenon
<1> QED BY <1>2, <1>3, <1>4, <1>5 DEF TextsAndSums

\* Every text that itoa writes is read back by atoi, every address and URL is taken
\* apart as it was put together, and every block with its net_checksum behind it
\* verifies in both orders of the bytes: TextsAndSums, for every input.
THEOREM FormatsTexts == FormatsSpec => []TextsAndSums
<1>1. FormatsSpec => []Returned
  BY ReturnedInit, ReturnedNext, PTL DEF FormatsSpec
<1> QED BY <1>1, TextsAgree, PTL
=============================================================================
