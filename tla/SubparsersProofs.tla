-------------------------- MODULE SubparsersProofs --------------------------
(***************************************************************************)
(* Theorems about Subparsers, for words and groups of any number of bits.  *)
(*                                                                         *)
(* All subparsers share one union, and a call knows its own by the source  *)
(* line it left there.  IndInv says what the union would hold for the next *)
(* byte (State and ThisAddress): what this field has had, whoever wrote    *)
(* there before, because no field comes right after itself (NoFieldAgain). *)
(*                                                                         *)
(* What a text shows does not depend on the state.  A text of digits is    *)
(* read as the code writes it, from a place to the next (NextDigit): what  *)
(* its digits up to one place write is the number without the rest (Place).*)
(* The recursive functions Tens and NumberOf are given by their equations  *)
(* (AddsThere, TensAre, NumberIs); a fact for all places is proved by      *)
(* induction on the place (NatInd), from the least one that fails.         *)
(***************************************************************************)
EXTENDS Subparsers, SequenceTheorems, WellFoundedInduction, TLAPS

AnyNumber == Numbers \cup MichelsonNumbers
Sized == Field \ (AnyNumber \cup Addresses)

Line == Field \cup {EndOfMessage}
Byte == Line \X Nat
InnerLines == {191, 207, 212, 224}
Substate == [lineno : Line \cup InnerLines \cup {-1}, value : Word, shift : Nat,
             body : Seq(Byte)]
AddressState == [step : {0, 1, 2}, type : AddressType \cup {"none"},
                 length : AddressLength, sub : Substate]

\* The bytes of a field from one place to another.
Bytes(line, first, last) == [i \in 1 .. last - first + 1 |-> <<line, first + i - 1>>]

\* The union as the next call finds it.
State == call(sub, reading)

Typed ==
    /\ reading \in Line /\ sub \in Substate /\ address \in AddressState
    /\ at \in Nat /\ bits \in 0 .. WordBits /\ number \in Word \cup {NoWord}

NumberRead ==
    reading \in AnyNumber =>
        /\ number \in {NoWord, State.value}
        /\ bits < WordBits => State.shift = bits

SizedRead ==
    reading \in Sized =>
        at < TypeSize(reading) /\ State.body = Bytes(reading, 1, at)

AddressRead ==
    reading \in Addresses =>
        LET a == ThisAddress
        IN  /\ a.step = 0 => at = 0 /\ a = NoAddress
            /\ a.step = 1 => /\ at \in 1 .. 4
                             /\ call(a.sub, 191).body = Bytes(reading, 2, at)
            /\ a.step = 2 /\ a.type = "string" /\ a.length = HASH_SIZE_B58 =>
                  /\ at \in 5 .. 40
                  /\ call(a.sub, 224).body = Bytes(reading, 6, at)

IndInv == Typed /\ NumberRead /\ SizedRead /\ AddressRead /\ FieldsAreRead

USE DigitsAssumption

-----------------------------------------------------------------------------
(* Sums of digits.                                                         *)

LEMMA NatInd ==
    ASSUME NEW S, 0 \in S, \A n \in Nat : n \in S => n + 1 \in S
    PROVE  Nat \subseteq S
<1> DEFINE T == Nat \ S
           R == OpToRel(<, Nat)
<1>1. SUFFICES ASSUME T # {} PROVE FALSE
  OBVIOUS
<1>2. PICK x \in T : \A y \in T : ~ (<<y, x>> \in R)
  BY <1>1, NatLessThanWellFounded, WFMin
<1>3. \A y \in Nat : y < x => <<y, x>> \in R
  BY DEF OpToRel
<1> HIDE DEF R
<1>4. x - 1 \in Nat /\ x - 1 < x /\ (x - 1) + 1 = x
  OBVIOUS
<1>5. x - 1 \in S
  BY <1>2, <1>3, <1>4
<1>6. (x - 1) + 1 \in S
  BY <1>4, <1>5
<1> QED BY <1>4, <1>6

\* v gives at each place what the terms of s up to there add up to in a base,
\* from a.
Adds(v, a, base, s, n) ==
    v = [i \in 0 .. n |-> IF i = 0 THEN a ELSE base * v[i - 1] + s[i]]

Longer(v, n, x) == [i \in 0 .. n + 1 |-> IF i <= n THEN v[i] ELSE x]

LEMMA AddsLonger ==
    ASSUME NEW a \in Int, NEW base \in Int, NEW s, NEW n \in Nat,
           NEW v \in [0 .. n -> Int], Adds(v, a, base, s, n),
           NEW x \in Int, x = base * v[n] + s[n + 1]
    PROVE  LET e == Longer(v, n, x)
           IN  e \in [0 .. n + 1 -> Int] /\ Adds(e, a, base, s, n + 1)
<1> DEFINE e == Longer(v, n, x)
<1>1. e = [i \in 0 .. n + 1 |-> IF i <= n THEN v[i] ELSE x]
  BY DEF Longer
<1>2. e \in [0 .. n + 1 -> Int]
  <2>1. \A i \in 0 .. n : v[i] \in Int
    OBVIOUS
  <2> HIDE DEF e
  <2> QED BY <1>1, <2>1
<1>3. \A i \in 0 .. n : v[i] = IF i = 0 THEN a ELSE base * v[i - 1] + s[i]
  <2>1. v = [i \in 0 .. n |-> IF i = 0 THEN a ELSE base * v[i - 1] + s[i]]
    BY Zenon DEF Adds
  <2> QED BY <2>1, Zenon
<1>4. ASSUME NEW i \in 0 .. n + 1
      PROVE  e[i] = IF i = 0 THEN a ELSE base * e[i - 1] + s[i]
  <2> HIDE DEF e
  <2>1. CASE i = 0
    <3>1. 0 \in 0 .. n /\ 0 \in 0 .. n + 1 /\ 0 <= n
      OBVIOUS
    <3>2. e[0] = v[0] /\ v[0] = a
      BY <1>1, <1>3, <3>1, Zenon
    <3> QED BY <2>1, <3>2
  <2>2. CASE i # 0 /\ i <= n
    <3>1. i \in 0 .. n /\ i - 1 \in 0 .. n + 1 /\ i - 1 <= n
      BY <2>2
    <3>2. e[i] = v[i] /\ e[i - 1] = v[i - 1]
      BY <1>1, <2>2, <3>1
    <3>3. v[i] = base * v[i - 1] + s[i]
      BY <1>3, <2>2, <3>1
    <3> QED BY <2>2, <3>2, <3>3
  <2>3. CASE ~ (i <= n)
    <3>1. i = n + 1 /\ i - 1 = n /\ n \in 0 .. n + 1 /\ n <= n /\ i # 0
      BY <2>3
    <3>2. e[i] = x /\ e[n] = v[n]
      BY <1>1, <2>3, <3>1
    <3> QED BY <3>1, <3>2
  <2> QED BY <2>1, <2>2, <2>3
<1>5. e = [i \in 0 .. n + 1 |-> IF i = 0 THEN a ELSE base * e[i - 1] + s[i]]
  <2> HIDE DEF e
  <2> QED BY <1>2, <1>4
<1> QED BY <1>2, <1>5, Zenon DEF Adds

LEMMA AddsThere ==
    ASSUME NEW a \in Int, NEW base \in Int, NEW s, NEW n \in Nat,
           \A i \in 1 .. n : s[i] \in Int
    PROVE  \E v \in [0 .. n -> Int] : Adds(v, a, base, s, n)
<1> DEFINE S == {k \in Nat : k <= n => \E v \in [0 .. k -> Int] : Adds(v, a, base, s, k)}
<1>1. 0 \in S
  <2> DEFINE v == [i \in 0 .. 0 |-> a]
  <2>1. v \in [0 .. 0 -> Int]
    OBVIOUS
  <2>2. v = [i \in 0 .. 0 |-> IF i = 0 THEN a ELSE base * v[i - 1] + s[i]]
    OBVIOUS
  <2>3. Adds(v, a, base, s, 0)
    BY <2>2, Zenon DEF Adds
  <2> QED BY <2>1, <2>3
<1>2. ASSUME NEW k \in Nat, k \in S PROVE k + 1 \in S
  <2>1. SUFFICES ASSUME k + 1 <= n
                 PROVE  \E v \in [0 .. k + 1 -> Int] : Adds(v, a, base, s, k + 1)
    OBVIOUS
  <2>2. k <= n /\ k + 1 \in 1 .. n
    BY <2>1
  <2>3. PICK v \in [0 .. k -> Int] : Adds(v, a, base, s, k)
    BY <1>2, <2>2
  <2>4. s[k + 1] \in Int /\ v[k] \in Int
    BY <2>2
  <2>5. base * v[k] + s[k + 1] \in Int
    BY <2>4
  <2> QED BY <2>3, <2>5, AddsLonger
<1> HIDE DEF S
<1>3. Nat \subseteq S
  BY <1>1, <1>2, NatInd
<1>4. n \in S /\ n <= n
  BY <1>3
<1> QED BY <1>4 DEF S

LEMMA TensAre ==
    /\ Tens[0] = 1
    /\ \A i \in 0 .. MAX_INT_DIGITS : Tens[i] \in Nat \ {0}
    /\ \A i \in 0 .. MAX_INT_DIGITS - 1 : Tens[i + 1] = 10 * Tens[i]
<1> DEFINE M == MAX_INT_DIGITS
           s == [i \in 1 .. M |-> 0]
<1>1. M \in Nat
  OBVIOUS
<1>2. PICK v \in [0 .. M -> Int] : Adds(v, 1, 10, s, M)
  <2>1. \A i \in 1 .. M : s[i] \in Int
    OBVIOUS
  <2>2. 1 \in Int /\ 10 \in Int
    OBVIOUS
  <2> HIDE DEF M, s
  <2> QED BY <1>1, <2>1, <2>2, AddsThere
<1>3. v = [i \in 0 .. M |-> IF i = 0 THEN 1 ELSE 10 * v[i - 1]]
  <2>1. v = [i \in 0 .. M |-> IF i = 0 THEN 1 ELSE 10 * v[i - 1] + s[i]]
    BY <1>2, Zenon DEF Adds
  <2> HIDE DEF M
  <2>2. \A i \in 0 .. M : i # 0 => 10 * v[i - 1] + s[i] = 10 * v[i - 1]
    <3>1. ASSUME NEW i \in 0 .. M, i # 0 PROVE i - 1 \in 0 .. M /\ i \in 1 .. M
      BY <1>1, <3>1
    <3> QED BY <3>1
  <2> QED BY <2>1, <2>2
<1>4. Tens = [i \in 0 .. M |-> IF i = 0 THEN 1 ELSE 10 * Tens[i - 1]]
  BY <1>3 DEF Tens
<1> HIDE DEF M
<1>5. \A i \in 0 .. M : Tens[i] = IF i = 0 THEN 1 ELSE 10 * Tens[i - 1]
  BY <1>4, Zenon
<1>6. Tens[0] = 1
  BY <1>1, <1>5
<1>7. ASSUME NEW i \in 0 .. M - 1 PROVE Tens[i + 1] = 10 * Tens[i]
  <2>1. i + 1 \in 0 .. M /\ i + 1 # 0 /\ (i + 1) - 1 = i
    BY <1>1
  <2> QED BY <1>5, <2>1
<1> DEFINE S == {i \in Nat : i <= M => Tens[i] \in Nat \ {0}}
<1>8. 0 \in S
  BY <1>6
<1>9. ASSUME NEW i \in Nat, i \in S PROVE i + 1 \in S
  <2>1. SUFFICES ASSUME i + 1 <= M PROVE Tens[i + 1] \in Nat \ {0}
    OBVIOUS
  <2>2. i \in 0 .. M - 1 /\ i <= M
    BY <1>1, <2>1
  <2>3. Tens[i] \in Nat \ {0} /\ Tens[i + 1] = 10 * Tens[i]
    BY <1>7, <1>9, <2>2
  <2> QED BY <2>3
<1> HIDE DEF S
<1>10. Nat \subseteq S
  BY <1>8, <1>9, NatInd
<1>11. \A i \in 0 .. M : Tens[i] \in Nat \ {0}
  BY <1>1, <1>10 DEF S
<1> QED BY <1>6, <1>7, <1>11 DEF M

\* A sequence of n numbers.
Terms(s, n) == Len(s) = n /\ \A i \in 1 .. n : s[i] \in Int

\* v adds the terms of s up to b, but for the first a of them.
AddsAfter(v, base, s, a, b) ==
    \A i \in a .. b - 1 : v[i + 1] = base * v[i] + s[i + 1]

\* What a number is worth, digit by digit.
LEMMA NumberIs ==
    ASSUME NEW base \in Int, NEW s, NEW n \in Nat, Terms(s, n)
    PROVE  \E v \in [0 .. n -> Int] :
              v[0] = 0 /\ AddsAfter(v, base, s, 0, n) /\ NumberOf(base, s) = v[n]
<1>0. Len(s) = n /\ \A i \in 1 .. n : s[i] \in Int
  BY DEF Terms
<1>1. PICK w \in [0 .. n -> Int] : Adds(w, 0, base, s, n)
  <2>1. 0 \in Int
    OBVIOUS
  <2> QED BY <1>0, <2>1, AddsThere
<1> DEFINE v == CHOOSE x : Adds(x, 0, base, s, n)
<1>2. Adds(v, 0, base, s, n)
  BY <1>1
<1>3. NumberOf(base, s) = v[n]
  BY <1>0 DEF NumberOf, Adds
<1> HIDE DEF v
<1>4. v = [i \in 0 .. n |-> IF i = 0 THEN 0 ELSE base * v[i - 1] + s[i]]
  BY <1>2, Zenon DEF Adds
<1>5. \A i \in 0 .. n : v[i] = IF i = 0 THEN 0 ELSE base * v[i - 1] + s[i]
  BY <1>4, Zenon
<1>6. v[0] = 0
  BY <1>5
<1>7. ASSUME NEW i \in 0 .. n - 1 PROVE v[i + 1] = base * v[i] + s[i + 1]
  <2>1. i + 1 \in 0 .. n /\ i + 1 # 0 /\ (i + 1) - 1 = i
    OBVIOUS
  <2> QED BY <1>5, <2>1
<1> DEFINE S == {i \in Nat : i <= n => v[i] \in Int}
<1>8. 0 \in S
  BY <1>6
<1>9. ASSUME NEW i \in Nat, i \in S PROVE i + 1 \in S
  <2>1. SUFFICES ASSUME i + 1 <= n PROVE v[i + 1] \in Int
    OBVIOUS
  <2>2. i \in 0 .. n - 1 /\ i <= n /\ i + 1 \in 1 .. n
    BY <2>1
  <2>3. v[i] \in Int /\ s[i + 1] \in Int /\ v[i + 1] = base * v[i] + s[i + 1]
    BY <1>0, <1>7, <1>9, <2>2
  <2> QED BY <2>3
<1> HIDE DEF S
<1>10. Nat \subseteq S
  BY <1>8, <1>9, NatInd
<1>11. \A i \in 0 .. n : v[i] \in Int
  BY <1>10 DEF S
<1>12. v \in [0 .. n -> Int]
  BY <1>4, <1>11
<1>13. AddsAfter(v, base, s, 0, n)
  BY <1>7 DEF AddsAfter
<1> QED BY <1>3, <1>6, <1>12, <1>13

-----------------------------------------------------------------------------
(* Division.                                                               *)

LEMMA Product == ASSUME NEW k \in Int, NEW w \in Nat \ {0}, k >= 1 PROVE k * w >= w
OBVIOUS

LEMMA Divided ==
    ASSUME NEW a \in Int, NEW w \in Nat \ {0}
    PROVE  a % w \in 0 .. w - 1 /\ a \div w \in Int /\ a = (a \div w) * w + (a % w)
OBVIOUS

LEMMA OneQuotient ==
    ASSUME NEW w \in Nat \ {0}, NEW k \in Int, NEW m \in Int,
           NEW s \in 0 .. w - 1, NEW t \in 0 .. w - 1, k * w + s = m * w + t
    PROVE  k = m /\ s = t
<1>1. (k - m) * w = t - s /\ (m - k) * w = s - t
  OBVIOUS
<1>2. k - m >= 1 => (k - m) * w >= w
  BY Product
<1>3. m - k >= 1 => (m - k) * w >= w
  BY Product
<1>4. ~ (k - m >= 1) /\ ~ (m - k >= 1)
  BY <1>1, <1>2, <1>3
<1>5. k = m
  BY <1>4
<1> QED BY <1>5

LEMMA Division ==
    ASSUME NEW n \in Nat, NEW w \in Nat \ {0}, NEW q \in Int, NEW r \in 0 .. w - 1,
           n = q * w + r
    PROVE  n \div w = q /\ n % w = r
<1> DEFINE k == n \div w
           s == n % w
<1>1. s \in 0 .. w - 1 /\ k \in Int /\ n = k * w + s
  BY Divided
<1> HIDE DEF k, s
<1>2. k = q /\ s = r
  BY <1>1, OneQuotient
<1> QED BY <1>2 DEF k, s

LEMMA Quotient == ASSUME NEW n \in Nat, NEW w \in Nat \ {0} PROVE n \div w \in Nat
<1> DEFINE q == n \div w
           r == n % w
           k == 0 - q
<1>1. r \in 0 .. w - 1 /\ q \in Int /\ n = q * w + r
  BY Divided
<1> HIDE DEF q, r
<1>2. k \in Int /\ k * w = 0 - q * w
  BY <1>1
<1>3. k >= 1 => k * w >= w
  <2> HIDE DEF k
  <2> QED BY <1>2, Product
<1>4. ~ (k >= 1)
  <2> HIDE DEF k
  <2>1. q * w \in Int
    BY <1>1
  <2> QED BY <1>1, <1>2, <1>3, <2>1
<1> QED BY <1>1, <1>4 DEF q

\* One digit more and one digit less.
LEMMA NextDigit ==
    ASSUME NEW n \in Nat, NEW t \in Nat \ {0}
    PROVE  /\ n \div t = 10 * (n \div (10 * t)) + ((n \div t) % 10)
           /\ n % (10 * t) = 0 <=> n % t = 0 /\ (n \div t) % 10 = 0
<1> DEFINE q == n \div t
           r == n % t
           p == q \div 10
           d == q % 10
           u == 10 * t
           s == d * t + r
<1>1. r \in 0 .. t - 1 /\ q \in Int /\ n = q * t + r
  BY Divided
<1>2. d \in 0 .. 9 /\ p \in Int /\ q = p * 10 + d
  <2> HIDE DEF q
  <2> QED BY <1>1
<1> HIDE DEF q, r, p, d
<1>3. q * t = p * u + d * t
  <2>1. q * t = (p * 10 + d) * t
    BY <1>2
  <2>2. (p * 10 + d) * t = p * (10 * t) + d * t
    BY <1>2
  <2> QED BY <2>1, <2>2
<1>4. d * t \in 0 .. 9 * t /\ (d * t = 0 => d = 0)
  <2>1. \A x \in 0 .. 9 : x * t \in 0 .. 9 * t /\ (x * t = 0 => x = 0)
    OBVIOUS
  <2> QED BY <1>2, <2>1
<1>5. u \in Nat \ {0} /\ s \in 0 .. u - 1 /\ n = p * u + s
  <2> DEFINE x == d * t
             y == p * u
  <2>1. x \in 0 .. 9 * t
    BY <1>4
  <2>2. n = (y + x) + r /\ y \in Int
    BY <1>1, <1>2, <1>3
  <2>3. s = x + r
    OBVIOUS
  <2> HIDE DEF x, y
  <2>4. x + r \in 0 .. 10 * t - 1 /\ n = y + (x + r)
    BY <1>1, <2>1, <2>2
  <2> HIDE DEF s
  <2> QED BY <2>3, <2>4 DEF y
<1> HIDE DEF u
<1>6. n \div u = p /\ n % u = s
  <2> HIDE DEF s
  <2> QED BY <1>2, <1>5, Division
<1>7. s = 0 <=> r = 0 /\ d = 0
  <2> DEFINE x == d * t
  <2>1. x \in Nat /\ (x = 0 <=> d = 0) /\ s = x + r
    BY <1>2, <1>4
  <2> HIDE DEF x, s
  <2> QED BY <1>1, <2>1
<1>8. q = 10 * p + d
  BY <1>2
<1> HIDE DEF s
<1>9. /\ q = 10 * (n \div u) + d
      /\ n % u = 0 <=> r = 0 /\ d = 0
  BY <1>6, <1>7, <1>8
<1> QED BY <1>9 DEF u, q, r, d

-----------------------------------------------------------------------------
(* The digits of a number.                                                 *)

\* A number without its last k digits.
Place(n, k) == n \div Tens[k]

LEMMA Places ==
    ASSUME NEW n \in Nat
    PROVE  /\ Place(n, 0) = n
           /\ \A k \in 0 .. MAX_INT_DIGITS :
                 Place(n, k) \in Nat /\ Place(n, k) % 10 \in 0 .. 9
           /\ \A k \in 0 .. MAX_INT_DIGITS - 1 :
                 Place(n, k) = 10 * Place(n, k + 1) + (Place(n, k) % 10)
<1>1. Place(n, 0) = n
  BY TensAre DEF Place
<1>2. ASSUME NEW k \in 0 .. MAX_INT_DIGITS PROVE Place(n, k) \in Nat
  BY TensAre, Quotient DEF Place
<1>3. \A x \in Nat : x % 10 \in 0 .. 9
  OBVIOUS
<1>4. ASSUME NEW k \in 0 .. MAX_INT_DIGITS - 1
      PROVE  Place(n, k) = 10 * Place(n, k + 1) + (Place(n, k) % 10)
  <2>1. k \in 0 .. MAX_INT_DIGITS
    OBVIOUS
  <2>2. Tens[k] \in Nat \ {0} /\ Tens[k + 1] = 10 * Tens[k]
    BY <2>1, TensAre
  <2>3. n \div Tens[k] = 10 * (n \div (10 * Tens[k])) + ((n \div Tens[k]) % 10)
    BY <2>2, NextDigit
  <2> QED BY <2>2, <2>3 DEF Place
<1> QED BY <1>1, <1>2, <1>3, <1>4

\* No more digits than d, none beyond.
LEMMA NoPlace ==
    ASSUME NEW n \in Nat, NEW d \in 0 .. MAX_INT_DIGITS, Place(n, d) = 0,
           NEW k \in d .. MAX_INT_DIGITS
    PROVE  Place(n, k) = 0
<1> DEFINE S == {j \in Nat : d + j <= MAX_INT_DIGITS => Place(n, d + j) = 0}
<1>1. 0 \in S
  <2>1. d + 0 = d
    OBVIOUS
  <2> QED BY <2>1
<1>2. ASSUME NEW j \in Nat, j \in S PROVE j + 1 \in S
  <2>1. SUFFICES ASSUME d + (j + 1) <= MAX_INT_DIGITS PROVE Place(n, d + (j + 1)) = 0
    OBVIOUS
  <2> DEFINE i == d + j
  <2>2. /\ i \in 0 .. MAX_INT_DIGITS - 1 /\ i + 1 = d + (j + 1)
        /\ i \in 0 .. MAX_INT_DIGITS /\ i + 1 \in 0 .. MAX_INT_DIGITS
    BY <2>1
  <2>3. Place(n, i) = 0
    BY <1>2, <2>2
  <2> HIDE DEF i
  <2>4. Place(n, i) = 10 * Place(n, i + 1) + (Place(n, i) % 10)
    BY <2>2, Places
  <2>5. Place(n, i + 1) \in Nat /\ Place(n, i) % 10 \in 0 .. 9
    BY <2>2, Places
  <2>6. Place(n, i + 1) = 0
    BY <2>3, <2>4, <2>5
  <2> QED BY <2>2, <2>6
<1> HIDE DEF S
<1>3. k - d \in S
  <2>1. k - d \in Nat /\ Nat \subseteq S
    BY <1>1, <1>2, NatInd
  <2> QED BY <2>1
<1>4. d + (k - d) = k
  OBVIOUS
<1> QED BY <1>3, <1>4 DEF S

\* The last d digits gone first, and then k more.
LEMMA PlaceOfPlace ==
    ASSUME NEW n \in Nat, NEW d \in 0 .. MAX_INT_DIGITS, NEW k \in 0 .. MAX_INT_DIGITS - d
    PROVE  Place(Place(n, d), k) = Place(n, d + k)
<1> DEFINE M == MAX_INT_DIGITS
           q == Place(n, d)
           S == {j \in Nat : d + j <= M => Place(q, j) = Place(n, d + j)}
<1>1. q \in Nat /\ M \in Nat
  BY Places
<1> HIDE DEF M
<1>2. 0 \in S
  <2>1. d + 0 = d
    BY DEF M
  <2> HIDE DEF q
  <2>2. Place(q, 0) = q
    BY <1>1, Places
  <2> QED BY <2>1, <2>2 DEF q
<1>3. ASSUME NEW j \in Nat, j \in S PROVE j + 1 \in S
  <2>1. SUFFICES ASSUME d + (j + 1) <= M PROVE Place(q, j + 1) = Place(n, d + (j + 1))
    OBVIOUS
  <2> DEFINE i == d + j
  <2>2. /\ i \in 0 .. M - 1 /\ i + 1 = d + (j + 1) /\ i \in 0 .. M /\ i + 1 \in 0 .. M
        /\ j \in 0 .. M - 1 /\ j \in 0 .. M /\ j + 1 \in 0 .. M
    BY <1>1, <2>1 DEF M
  <2>3. Place(q, j) = Place(n, i)
    BY <1>3, <2>2
  <2> HIDE DEF i, q
  <2>4. /\ Place(n, i) = 10 * Place(n, i + 1) + (Place(n, i) % 10)
        /\ Place(n, i + 1) \in Nat /\ Place(n, i) % 10 \in 0 .. 9
    BY <2>2, Places DEF M
  <2>5. /\ Place(q, j) = 10 * Place(q, j + 1) + (Place(q, j) % 10)
        /\ Place(q, j + 1) \in Nat
    BY <1>1, <2>2, Places DEF M
  <2>6. Place(q, j + 1) = Place(n, i + 1)
    BY <2>3, <2>4, <2>5
  <2> QED BY <2>2, <2>6
<1> HIDE DEF S, q
<1>4. k \in S
  <2>1. k \in Nat /\ Nat \subseteq S
    BY <1>2, <1>3, NatInd
  <2> QED BY <2>1
<1>5. d + k <= M
  BY DEF M
<1> QED BY <1>4, <1>5 DEF S, q

\* The last d digits are zeroes if and only if they leave no remainder.
LEMMA LastDigits ==
    ASSUME NEW n \in Nat, NEW d \in 0 .. MAX_INT_DIGITS
    PROVE  n % Tens[d] = 0 <=> \A k \in 0 .. d - 1 : Place(n, k) % 10 = 0
<1> DEFINE S == {j \in Nat : j <= d =>
                    (n % Tens[j] = 0 <=> \A k \in 0 .. j - 1 : Place(n, k) % 10 = 0)}
<1>1. 0 \in S
  <2>1. n % 1 = 0
    OBVIOUS
  <2> QED BY <2>1, TensAre
<1>2. ASSUME NEW j \in Nat, j \in S PROVE j + 1 \in S
  <2>1. SUFFICES ASSUME j + 1 <= d
        PROVE  n % Tens[j + 1] = 0 <=> \A k \in 0 .. (j + 1) - 1 : Place(n, k) % 10 = 0
    OBVIOUS
  <2>2. j \in 0 .. MAX_INT_DIGITS /\ j \in 0 .. MAX_INT_DIGITS - 1 /\ j <= d
    BY <2>1
  <2>3. Tens[j] \in Nat \ {0} /\ Tens[j + 1] = 10 * Tens[j]
    BY <2>2, TensAre
  <2>4. n % Tens[j + 1] = 0 <=> n % Tens[j] = 0 /\ Place(n, j) % 10 = 0
    BY <2>3, NextDigit DEF Place
  <2>5. n % Tens[j] = 0 <=> \A k \in 0 .. j - 1 : Place(n, k) % 10 = 0
    BY <1>2, <2>2
  <2>6. \A k : k \in 0 .. (j + 1) - 1 <=> k \in 0 .. j - 1 \/ k = j
    OBVIOUS
  <2> QED BY <2>4, <2>5, <2>6, Zenon
<1> HIDE DEF S
<1>3. d \in S
  <2>1. d \in Nat /\ Nat \subseteq S
    BY <1>1, <1>2, NatInd
  <2> QED BY <2>1
<1> QED BY <1>3 DEF S

\* The last e digits of a number, after the first a terms of s.
Holds(s, a, n, e) == \A j \in 1 .. e : s[a + j] = Place(n, e - j) % 10

\* v adds the digits of n up to its last e, and s goes on with those.
Continues(v, s, a, b, n, e) ==
    b = a + e /\ v[a] = Place(n, e) /\ AddsAfter(v, 10, s, a, b) /\ Holds(s, a, n, e)

\* Digits that continue a number up to its last digit write it.
LEMMA DigitsWrite ==
    ASSUME NEW n \in Nat, NEW e \in 0 .. MAX_INT_DIGITS, NEW a \in Nat, NEW v, NEW s,
           NEW b, Continues(v, s, a, b, n, e)
    PROVE  v[b] = n
<1>0. b = a + e /\ v[a] = Place(n, e) /\ AddsAfter(v, 10, s, a, b) /\ Holds(s, a, n, e)
  BY DEF Continues
<1> DEFINE S == {j \in Nat : j <= e => v[a + j] = Place(n, e - j)}
<1>1. 0 \in S
  <2>1. a + 0 = a /\ e - 0 = e
    OBVIOUS
  <2> QED BY <1>0, <2>1
<1>2. ASSUME NEW j \in Nat, j \in S PROVE j + 1 \in S
  <2>1. SUFFICES ASSUME j + 1 <= e PROVE v[a + (j + 1)] = Place(n, e - (j + 1))
    OBVIOUS
  <2> DEFINE i == a + j
             k == e - (j + 1)
  <2>2. /\ i \in a .. a + e - 1 /\ i + 1 = a + (j + 1) /\ j <= e
        /\ k \in 0 .. MAX_INT_DIGITS - 1 /\ k + 1 = e - j /\ j + 1 \in 1 .. e
    BY <2>1
  <2>3. v[i] = Place(n, k + 1)
    BY <1>2, <2>2
  <2>4. s[i + 1] = Place(n, k) % 10
    BY <1>0, <2>2 DEF Holds
  <2>5. v[i + 1] = 10 * v[i] + s[i + 1]
    BY <1>0, <2>2 DEF AddsAfter
  <2> HIDE DEF i, k
  <2>6. Place(n, k) = 10 * Place(n, k + 1) + (Place(n, k) % 10)
    BY <2>2, Places
  <2>7. v[i + 1] = Place(n, k)
    BY <2>3, <2>4, <2>5, <2>6
  <2> QED BY <2>2, <2>7 DEF k
<1> HIDE DEF S
<1>3. e \in S
  <2>1. e \in Nat /\ Nat \subseteq S
    BY <1>1, <1>2, NatInd
  <2> QED BY <2>1
<1>4. v[a + e] = Place(n, e - e) /\ e - e = 0
  BY <1>3 DEF S
<1> QED BY <1>0, <1>4, Places

-----------------------------------------------------------------------------
(* The texts.                                                              *)

LEMMA LeastOf == ASSUME NEW S \in SUBSET Nat, S # {} PROVE \E x \in S : \A y \in S : x <= y
<1> DEFINE R == OpToRel(<, Nat)
<1>1. PICK x \in S : \A y \in S : ~ (<<y, x>> \in R)
  BY NatLessThanWellFounded, WFMin
<1>2. \A y \in Nat : y < x => <<y, x>> \in R
  BY DEF OpToRel
<1> HIDE DEF R
<1>3. ASSUME NEW y \in S PROVE x <= y
  <2>1. x \in Nat /\ y \in Nat
    OBVIOUS
  <2>2. ~ (y < x)
    BY <1>1, <1>2, <2>1
  <2> QED BY <2>1, <2>2
<1> QED BY <1>3

LEMMA Digits ==
    ASSUME NEW n \in Nat
    PROVE  LET digits == convert_number(n)
           IN  /\ digits \in Seq(0 .. 9) /\ Len(digits) = MAX_INT_DIGITS
               /\ \A i \in 1 .. MAX_INT_DIGITS :
                     /\ digits[i] \in 0 .. 9
                     /\ digits[i] = Place(n, MAX_INT_DIGITS - i) % 10
<1> DEFINE digits == convert_number(n)
<1>1. ASSUME NEW i \in 1 .. MAX_INT_DIGITS
      PROVE  /\ digits[i] = Place(n, MAX_INT_DIGITS - i) % 10
             /\ digits[i] \in 0 .. 9
  <2>1. MAX_INT_DIGITS - i \in 0 .. MAX_INT_DIGITS
    OBVIOUS
  <2>2. digits[i] = Place(n, MAX_INT_DIGITS - i) % 10
    BY DEF convert_number, Place
  <2> QED BY <2>1, <2>2, Places
<1>2. digits \in [1 .. MAX_INT_DIGITS -> 0 .. 9]
  BY <1>1 DEF convert_number
<1> HIDE DEF digits
<1>3. digits \in Seq(0 .. 9) /\ Len(digits) = MAX_INT_DIGITS
  BY <1>2
<1> QED BY <1>1, <1>3 DEF digits

\* A part of some digits.
LEMMA Part ==
    ASSUME NEW digits \in Seq(0 .. 9), NEW i \in 1 .. Len(digits), NEW k \in i .. Len(digits)
    PROVE  LET part == SubSeq(digits, i, k)
           IN  /\ part \in Seq(0 .. 9) /\ Len(part) = k - i + 1
               /\ \A j \in 1 .. k - i + 1 : part[j] = digits[i + j - 1]
OBVIOUS

LEMMA FirstDigit ==
    ASSUME NEW digits
    PROVE  LET i == first_digit(digits)
           IN  /\ i \in 1 .. MAX_INT_DIGITS
               /\ i = MAX_INT_DIGITS \/ digits[i] # 0
               /\ \A j \in 1 .. i - 1 : digits[j] = 0
<1> DEFINE S == {i \in 1 .. MAX_INT_DIGITS : i = MAX_INT_DIGITS \/ digits[i] # 0}
<1>1. S \in SUBSET Nat /\ MAX_INT_DIGITS \in S
  OBVIOUS
<1>2. PICK x \in S : \A y \in S : x <= y
  BY <1>1, LeastOf
<1>3. ASSUME NEW j \in 1 .. x - 1 PROVE digits[j] = 0
  <2>1. j \in 1 .. MAX_INT_DIGITS /\ ~ (x <= j)
    BY <1>1, <1>2
  <2> QED BY <1>2, <2>1
<1>4. \E i \in 1 .. MAX_INT_DIGITS :
         /\ i = MAX_INT_DIGITS \/ digits[i] # 0
         /\ \A j \in 1 .. i - 1 : digits[j] = 0
  BY <1>2, <1>3
<1> QED BY <1>4, Zenon DEF first_digit

\* A text shows a number, in full and without a zero before it.
Shows(text, n) ==
    /\ text \in Seq(0 .. 9) /\ Len(text) \in 1 .. MAX_INT_DIGITS
    /\ \A j \in 1 .. Len(text) : text[j] = Place(n, Len(text) - j) % 10
    /\ Place(n, Len(text)) = 0
    /\ Len(text) > 1 => text[1] # 0

LEMMA NumberShown ==
    ASSUME NEW n \in Nat, Place(n, MAX_INT_DIGITS) = 0
    PROVE  Shows(number_to_string(n), n)
<1> DEFINE M == MAX_INT_DIGITS
           digits == convert_number(n)
           f == first_digit(digits)
           text == SubSeq(digits, f, M)
<1>1. M \in Nat \ {0}
  OBVIOUS
<1>2. /\ digits \in Seq(0 .. 9) /\ Len(digits) = M
      /\ \A i \in 1 .. M : digits[i] \in 0 .. 9 /\ digits[i] = Place(n, M - i) % 10
  BY Digits
<1>3. /\ f \in 1 .. M /\ (f = M \/ digits[f] # 0)
      /\ \A j \in 1 .. f - 1 : digits[j] = 0
  BY FirstDigit
<1>4. number_to_string(n) = text
  BY DEF number_to_string
<1> HIDE DEF digits, f, M
<1>5. /\ text \in Seq(0 .. 9) /\ Len(text) = M - f + 1
      /\ \A j \in 1 .. M - f + 1 : text[j] = digits[f + j - 1]
  <2>1. f \in 1 .. Len(digits) /\ M \in f .. Len(digits)
    BY <1>1, <1>2, <1>3
  <2> QED BY <1>2, <2>1, Part
<1> HIDE DEF text
<1> DEFINE n1 == Len(text)
<1>6. n1 \in 1 .. M
  BY <1>1, <1>3, <1>5
<1>7. ASSUME NEW j \in 1 .. n1 PROVE text[j] = Place(n, n1 - j) % 10
  <2>1. f + j - 1 \in 1 .. M /\ M - (f + j - 1) = n1 - j
    BY <1>1, <1>3, <1>5
  <2> QED BY <1>2, <1>5, <2>1
<1>8. n1 > 1 => text[1] # 0
  <2>1. ASSUME n1 > 1 PROVE f # M /\ 1 \in 1 .. M - f + 1 /\ f + 1 - 1 = f
    BY <1>1, <1>3, <1>5, <2>1
  <2> QED BY <1>3, <1>5, <2>1
<1>9. Place(n, n1) = 0
  <2> DEFINE S == {j \in Nat : j <= f - 1 => Place(n, M - j) = 0}
  <2>1. 0 \in S
    <3>1. M - 0 = M
      BY <1>1
    <3> QED BY <3>1 DEF M
  <2>2. ASSUME NEW j \in Nat, j \in S PROVE j + 1 \in S
    <3>1. SUFFICES ASSUME j + 1 <= f - 1 PROVE Place(n, M - (j + 1)) = 0
      OBVIOUS
    <3> DEFINE k == M - (j + 1)
    <3>2. /\ k \in 0 .. M - 1 /\ k + 1 = M - j /\ j + 1 \in 1 .. f - 1
          /\ j + 1 \in 1 .. M /\ j <= f - 1
      BY <1>1, <1>3, <3>1
    <3>3. Place(n, k + 1) = 0
      BY <2>2, <3>2
    <3>4. Place(n, k) % 10 = 0
      BY <1>2, <1>3, <3>2
    <3> HIDE DEF k
    <3>5. Place(n, k) = 10 * Place(n, k + 1) + (Place(n, k) % 10)
      BY <3>2, Places DEF M
    <3>6. Place(n, k) = 0
      BY <3>3, <3>4, <3>5
    <3> QED BY <3>6 DEF k
  <2> HIDE DEF S
  <2>3. f - 1 \in S
    <3>1. f - 1 \in Nat /\ Nat \subseteq S
      BY <1>3, <2>1, <2>2, NatInd
    <3> QED BY <3>1
  <2>4. M - (f - 1) = n1 /\ f - 1 <= f - 1
    BY <1>1, <1>3, <1>5
  <2> QED BY <2>3, <2>4 DEF S
<1> QED BY <1>4, <1>5, <1>6, <1>7, <1>8, <1>9 DEF Shows, M

\* A number of d digits is shown by no more.
LEMMA ShownShort ==
    ASSUME NEW n \in Nat, NEW d \in 1 .. MAX_INT_DIGITS, Place(n, d) = 0,
           NEW text, Shows(text, n)
    PROVE  Len(text) <= d
<1>1. SUFFICES ASSUME ~ (Len(text) <= d) PROVE FALSE
  OBVIOUS
<1>2. /\ Len(text) \in 1 .. MAX_INT_DIGITS /\ text[1] # 0
      /\ \A j \in 1 .. Len(text) : text[j] = Place(n, Len(text) - j) % 10
  BY <1>1 DEF Shows
<1> DEFINE k == Len(text) - 1
<1>3. k \in d .. MAX_INT_DIGITS /\ 1 \in 1 .. Len(text) /\ d \in 0 .. MAX_INT_DIGITS
  BY <1>1, <1>2
<1>4. text[1] = Place(n, k) % 10
  BY <1>2, <1>3
<1> HIDE DEF k
<1>5. Place(n, k) = 0
  BY <1>3, NoPlace
<1>6. 0 % 10 = 0
  OBVIOUS
<1> QED BY <1>2, <1>4, <1>5, <1>6

\* Where the fraction of a number ends.
LEMMA LastDigit ==
    ASSUME NEW digits, NEW start \in 1 .. MAX_INT_DIGITS,
           NEW k \in start .. MAX_INT_DIGITS, digits[k] # 0
    PROVE  \E i \in start .. MAX_INT_DIGITS :
              /\ digits[i] # 0
              /\ \A j \in i + 1 .. MAX_INT_DIGITS : digits[j] = 0
<1> DEFINE S == {d \in Nat : /\ MAX_INT_DIGITS - d \in start .. MAX_INT_DIGITS
                             /\ digits[MAX_INT_DIGITS - d] # 0}
<1>1. S \in SUBSET Nat /\ S # {}
  <2>1. /\ MAX_INT_DIGITS - k \in Nat
        /\ MAX_INT_DIGITS - (MAX_INT_DIGITS - k) = k
    OBVIOUS
  <2>2. MAX_INT_DIGITS - k \in S
    BY <2>1
  <2> QED BY <2>2
<1>2. PICK d \in S : \A y \in S : d <= y
  BY <1>1, LeastOf
<1> DEFINE i == MAX_INT_DIGITS - d
<1>3. i \in start .. MAX_INT_DIGITS /\ digits[i] # 0 /\ d \in Nat
  BY <1>2
<1>4. ASSUME NEW j \in i + 1 .. MAX_INT_DIGITS, digits[j] # 0 PROVE FALSE
  <2>1. /\ j \in start .. MAX_INT_DIGITS /\ MAX_INT_DIGITS - j \in Nat
        /\ MAX_INT_DIGITS - (MAX_INT_DIGITS - j) = j /\ ~ (d <= MAX_INT_DIGITS - j)
    BY <1>3
  <2>2. MAX_INT_DIGITS - j \in S
    BY <1>4, <2>1
  <2> QED BY <1>2, <2>1, <2>2
<1> QED BY <1>3, <1>4

\* The fraction shown, padded with zeroes, has the last digits of the number.
FractionOf(part, n) ==
    /\ part \in Seq(0 .. 9) /\ Len(part) \in 1 .. DECIMAL_DIGITS
    /\ part[Len(part)] # 0
    /\ \A j \in 1 .. DECIMAL_DIGITS :
          (IF j <= Len(part) THEN part[j] ELSE 0) = Place(n, DECIMAL_DIGITS - j) % 10

LEMMA FractionShown ==
    ASSUME NEW n \in Nat, n % TEZ_SCALE # 0
    PROVE  FractionOf(fraction(n), n)
<1> DEFINE M == MAX_INT_DIGITS
           D == DECIMAL_DIGITS
           digits == convert_number(n)
           start == M - D + 1
           end == CHOOSE i \in start .. M :
                     /\ digits[i] # 0
                     /\ \A j \in i + 1 .. M : digits[j] = 0
           part == SubSeq(digits, start, end)
<1>1. M \in Nat /\ D \in Nat \ {0} /\ D < M
  OBVIOUS
<1>2. /\ digits \in Seq(0 .. 9) /\ Len(digits) = M
      /\ \A i \in 1 .. M : digits[i] \in 0 .. 9 /\ digits[i] = Place(n, M - i) % 10
  BY Digits
<1>3. fraction(n) = part
  BY DEF fraction
<1>4. start \in 1 .. M
  BY <1>1
<1> HIDE DEF digits
<1>5. PICK k \in start .. M : digits[k] # 0
  <2>1. PICK j \in 0 .. D - 1 : Place(n, j) % 10 # 0
    BY LastDigits DEF TEZ_SCALE
  <2>2. M - j \in start .. M /\ M - j \in 1 .. M /\ M - (M - j) = j
    BY <1>1
  <2> QED BY <1>2, <2>1, <2>2
<1>6. \E i \in start .. M : /\ digits[i] # 0
                            /\ \A j \in i + 1 .. M : digits[j] = 0
  <2> HIDE DEF start
  <2> QED BY <1>4, <1>5, LastDigit DEF M
<1>7. /\ end \in start .. M /\ digits[end] # 0
      /\ \A j \in end + 1 .. M : digits[j] = 0
  <2> HIDE DEF start, M
  <2> QED BY <1>6
<1> HIDE DEF end, M, D
<1>8. /\ part \in Seq(0 .. 9) /\ Len(part) = end - start + 1
      /\ \A j \in 1 .. end - start + 1 : part[j] = digits[start + j - 1]
  <2>1. start \in 1 .. Len(digits) /\ end \in start .. Len(digits)
    BY <1>2, <1>4, <1>7
  <2> HIDE DEF start
  <2> QED BY <1>2, <2>1, Part
<1> HIDE DEF part
<1>9. Len(part) \in 1 .. D
  BY <1>1, <1>7, <1>8
<1>10. part[Len(part)] # 0
  <2>1. /\ Len(part) \in 1 .. end - start + 1 /\ start + Len(part) - 1 = end
    BY <1>1, <1>7, <1>8
  <2> QED BY <1>7, <1>8, <2>1
<1>11. ASSUME NEW j \in 1 .. D
       PROVE  (IF j <= Len(part) THEN part[j] ELSE 0) = Place(n, D - j) % 10
  <2> DEFINE i == start + j - 1
  <2>1. i \in 1 .. M /\ M - i = D - j
    BY <1>1
  <2>2. digits[i] = Place(n, D - j) % 10
    BY <1>2, <2>1
  <2>3. CASE j <= Len(part)
    BY <1>8, <2>2, <2>3
  <2>4. CASE ~ (j <= Len(part))
    <3>1. i \in end + 1 .. M
      BY <1>1, <1>7, <1>8, <2>1, <2>4
    <3> QED BY <1>7, <2>2, <2>4, <3>1
  <2> QED BY <2>3, <2>4
<1> QED BY <1>3, <1>8, <1>9, <1>10, <1>11 DEF FractionOf, D

LEMMA DecimalIs ==
    ASSUME NEW s, NEW n \in Nat, Terms(s, n)
    PROVE  \E v \in [0 .. n -> Int] :
              v[0] = 0 /\ AddsAfter(v, 10, s, 0, n) /\ NumberOf(10, s) = v[n]
<1>1. 10 \in Int
  OBVIOUS
<1> QED BY <1>1, NumberIs

LEMMA TwoParts ==
    ASSUME NEW n \in Nat, NEW q \in Nat, NEW d \in 0 .. MAX_INT_DIGITS,
           NEW m \in 0 .. MAX_INT_DIGITS, NEW s, NEW b \in Nat, b = m + d, Terms(s, b),
           q = Place(n, d), Place(q, m) = 0, Holds(s, 0, q, m), Holds(s, m, n, d)
    PROVE  NumberOf(10, s) = n
<1>1. PICK v \in [0 .. b -> Int] :
         v[0] = 0 /\ AddsAfter(v, 10, s, 0, b) /\ NumberOf(10, s) = v[b]
  BY DecimalIs
<1>2. AddsAfter(v, 10, s, 0, m) /\ AddsAfter(v, 10, s, m, b)
  <2>1. /\ \A i \in 0 .. m - 1 : i \in 0 .. b - 1
        /\ \A i \in m .. b - 1 : i \in 0 .. b - 1
    OBVIOUS
  <2> QED BY <1>1, <2>1 DEF AddsAfter
<1>3. v[m] = q
  <2>1. 0 \in Nat /\ m = 0 + m
    OBVIOUS
  <2>2. Continues(v, s, 0, m, q, m)
    BY <1>1, <1>2, <2>1 DEF Continues
  <2> QED BY <2>1, <2>2, DigitsWrite
<1>4. v[b] = n
  <2>1. Continues(v, s, m, b, n, d) /\ m \in Nat
    BY <1>2, <1>3 DEF Continues
  <2> QED BY <2>1, DigitsWrite
<1> QED BY <1>1, <1>4

\* What the digits of the whole and those of the fraction write together.
LEMMA WholeAndFraction ==
    ASSUME NEW n \in Nat, NEW text, Shows(text, Place(n, DECIMAL_DIGITS)), NEW s,
           Len(s) = Len(text) + DECIMAL_DIGITS,
           \A i \in 1 .. Len(text) : s[i] = text[i],
           \A j \in 1 .. DECIMAL_DIGITS :
               s[Len(text) + j] = Place(n, DECIMAL_DIGITS - j) % 10
    PROVE  NumberOf(10, s) = n
<1> DEFINE D == DECIMAL_DIGITS
           m == Len(text)
           q == Place(n, D)
<1>1. /\ m \in 1 .. MAX_INT_DIGITS /\ m \in 0 .. MAX_INT_DIGITS /\ m \in Nat
      /\ D \in 0 .. MAX_INT_DIGITS /\ D \in Nat /\ q \in Nat
  BY Places DEF Shows
<1>2. /\ \A j \in 1 .. m : text[j] = Place(q, m - j) % 10
      /\ Place(q, m) = 0
  BY DEF Shows
<1>3. \A i \in 1 .. m : s[i] = Place(q, m - i) % 10 /\ s[i] \in Int
  <2>1. ASSUME NEW i \in 1 .. m PROVE s[i] = Place(q, m - i) % 10 /\ s[i] \in Int
    <3>1. m - i \in 0 .. MAX_INT_DIGITS
      BY <1>1
    <3> HIDE DEF q
    <3>2. Place(q, m - i) % 10 \in 0 .. 9
      BY <1>1, <3>1, Places
    <3>3. s[i] = Place(q, m - i) % 10
      BY <1>2
    <3> QED BY <3>2, <3>3
  <2> QED BY <2>1
<1>4. \A i \in 1 .. m + D : s[i] \in Int
  <2>1. ASSUME NEW j \in 1 .. D PROVE s[m + j] \in Int
    <3>1. D - j \in 0 .. MAX_INT_DIGITS
      BY <1>1
    <3>2. Place(n, D - j) % 10 \in 0 .. 9
      BY <3>1, Places
    <3> QED BY <3>2
  <2>2. ASSUME NEW i \in 1 .. m + D PROVE i \in 1 .. m \/ (i - m \in 1 .. D /\ m + (i - m) = i)
    BY <1>1
  <2> HIDE DEF m, D
  <2>3. ASSUME NEW i \in 1 .. m + D PROVE s[i] \in Int
    <3>1. CASE i \in 1 .. m
      BY <1>3, <3>1
    <3>2. CASE i - m \in 1 .. D /\ m + (i - m) = i
      <4>1. s[m + (i - m)] \in Int
        BY <2>1, <3>2
      <4> QED BY <3>2, <4>1
    <3> QED BY <2>2, <3>1, <3>2
  <2> QED BY <2>3
<1> DEFINE b == m + D
<1>5. Holds(s, 0, q, m) /\ Holds(s, m, n, D)
  <2>1. \A j \in 1 .. m : 0 + j = j
    BY <1>1
  <2>2. Holds(s, m, n, D)
    BY DEF Holds
  <2> HIDE DEF q, m, D
  <2> QED BY <1>3, <2>1, <2>2 DEF Holds
<1>6. b \in Nat /\ b = m + D /\ Terms(s, b)
  BY <1>1, <1>4 DEF Terms
<1>7. q = Place(n, D) /\ Place(q, m) = 0
  BY <1>2
<1> HIDE DEF b, q, m, D
<1> QED BY <1>1, <1>5, <1>6, <1>7, TwoParts


LEMMA AmountShown ==
    ASSUME NEW n \in Nat, Place(n, MAX_INT_DIGITS) = 0
    PROVE  LET whole == number_to_string(n \div TEZ_SCALE)
           IN  /\ Shows(whole, Place(n, DECIMAL_DIGITS))
               /\ Len(whole) <= MAX_INT_DIGITS - DECIMAL_DIGITS
<1> DEFINE D == DECIMAL_DIGITS
           M == MAX_INT_DIGITS
           q == Place(n, D)
<1>1. /\ D \in 0 .. M /\ M - D \in 0 .. M - D /\ M - D \in 1 .. M /\ D + (M - D) = M
      /\ M - D \in 0 .. M /\ M \in M - D .. M
  OBVIOUS
<1>2. q \in Nat
  BY <1>1, Places
<1>3. Place(q, M - D) = 0
  BY <1>1, PlaceOfPlace
<1>4. n \div TEZ_SCALE = q
  BY DEF Place, TEZ_SCALE
<1> HIDE DEF q
<1>5. Place(q, M) = 0
  BY <1>1, <1>2, <1>3, NoPlace
<1>6. Shows(number_to_string(q), q)
  BY <1>2, <1>5, NumberShown
<1>7. Len(number_to_string(q)) <= M - D
  BY <1>1, <1>2, <1>3, <1>6, ShownShort
<1> QED BY <1>4, <1>6, <1>7 DEF q

\* A text without a point reads as a number of tez.
LEMMA WholeReads ==
    ASSUME NEW n \in Nat, NEW text, Shows(text, Place(n, DECIMAL_DIGITS)),
           n % TEZ_SCALE = 0
    PROVE  ValueOf(text) = n /\ \A i \in DOMAIN text : text[i] # Point
<1> DEFINE D == DECIMAL_DIGITS
           m == Len(text)
           points == {i \in DOMAIN text : text[i] = Point}
           point == IF points = {} THEN Len(text) + 1 ELSE CHOOSE i \in points : TRUE
           s == [i \in 1 .. point - 1 + D |->
                    IF i < point THEN text[i]
                    ELSE IF i < Len(text) THEN text[i + 1] ELSE 0]
<1>1. /\ text \in Seq(0 .. 9) /\ m \in Nat /\ DOMAIN text = 1 .. m
      /\ \A i \in 1 .. m : text[i] \in 0 .. 9
      /\ D \in Nat /\ D \in 0 .. MAX_INT_DIGITS
  BY DEF Shows
<1>2. \A i \in DOMAIN text : text[i] # Point
  BY <1>1 DEF Point
<1>3. points = {}
  BY <1>2
<1>4. point = m + 1
  BY <1>3
<1>5. ValueOf(text) = NumberOf(10, s)
  <2>1. ~ (Len(text) - point > D)
    BY <1>1, <1>4
  <2>2. ValueOf(text) = IF Len(text) - point > D THEN -1 ELSE NumberOf(10, s)
    BY DEF ValueOf
  <2> QED BY <2>1, <2>2
<1> HIDE DEF point
<1>6. s = [i \in 1 .. m + D |-> IF i <= m THEN text[i] ELSE 0]
  <2>1. point - 1 + D = m + D
    BY <1>1, <1>4
  <2>2. ASSUME NEW i \in 1 .. m + D
        PROVE  (IF i < point THEN text[i] ELSE IF i < Len(text) THEN text[i + 1] ELSE 0)
                  = IF i <= m THEN text[i] ELSE 0
    BY <1>1, <1>4
  <2> QED BY <2>1, <2>2
<1> HIDE DEF s
<1>7. Len(s) = m + D
  BY <1>1, <1>6
<1>8. \A i \in 1 .. m : s[i] = text[i]
  BY <1>1, <1>6
<1>9. ASSUME NEW j \in 1 .. D PROVE s[m + j] = Place(n, D - j) % 10
  <2>1. m + j \in 1 .. m + D /\ ~ (m + j <= m) /\ D - j \in 0 .. D - 1
    BY <1>1
  <2>2. s[m + j] = 0
    BY <1>6, <2>1
  <2>3. \A k \in 0 .. D - 1 : Place(n, k) % 10 = 0
    BY <1>1, LastDigits DEF TEZ_SCALE
  <2> QED BY <2>1, <2>2, <2>3
<1>10. NumberOf(10, s) = n
  <2>1. \A j \in 1 .. DECIMAL_DIGITS : s[Len(text) + j] = Place(n, DECIMAL_DIGITS - j) % 10
    BY <1>9
  <2> QED BY <1>7, <1>8, <2>1, WholeAndFraction
<1> QED BY <1>2, <1>5, <1>10

LEMMA Joined ==
    ASSUME NEW a \in Seq(0 .. 9), NEW b \in Seq(0 .. 9)
    PROVE  LET t == a \o <<Point>> \o b
           IN  /\ DOMAIN t = 1 .. Len(t) /\ Len(t) = Len(a) + 1 + Len(b)
               /\ Len(a) \in Nat /\ Len(b) \in Nat
               /\ \A i \in 1 .. Len(a) : t[i] = a[i] /\ a[i] \in 0 .. 9
               /\ t[Len(a) + 1] = Point
               /\ \A j \in 1 .. Len(b) : t[Len(a) + 1 + j] = b[j] /\ b[j] \in 0 .. 9
<1>1. a \in Seq(Int) /\ b \in Seq(Int) /\ <<Point>> \in Seq(Int)
  BY DEF Point
<1> QED BY <1>1 DEF Point

\* Whole tez, a point and their fraction.
Tez(text, whole, part) == text = whole \o <<Point>> \o part

\* A text with a point reads as the number of mutez.
LEMMA FractionReads ==
    ASSUME NEW n \in Nat, NEW whole, Shows(whole, Place(n, DECIMAL_DIGITS)),
           NEW part, FractionOf(part, n), NEW text, Tez(text, whole, part)
    PROVE  /\ ValueOf(text) = n
           /\ Len(text) = Len(whole) + 1 + Len(part)
           /\ text[Len(text)] # 0 /\ text[Len(whole) + 1] = Point
           /\ text[1] = whole[1]
<1> DEFINE D == DECIMAL_DIGITS
           m == Len(whole)
           l == Len(part)
           points == {i \in DOMAIN text : text[i] = Point}
           point == IF points = {} THEN Len(text) + 1 ELSE CHOOSE i \in points : TRUE
           s == [i \in 1 .. point - 1 + D |->
                    IF i < point THEN text[i]
                    ELSE IF i < Len(text) THEN text[i + 1] ELSE 0]
<1>1. /\ whole \in Seq(0 .. 9) /\ part \in Seq(0 .. 9) /\ m \in Nat \ {0} /\ l \in 1 .. D
      /\ D \in Nat /\ D \in 0 .. MAX_INT_DIGITS /\ part[l] # 0
  BY DEF Shows, FractionOf
<1>2. /\ DOMAIN text = 1 .. Len(text) /\ Len(text) = m + 1 + l
      /\ \A i \in 1 .. m : text[i] = whole[i] /\ whole[i] \in 0 .. 9
      /\ text[m + 1] = Point
      /\ \A j \in 1 .. l : text[m + 1 + j] = part[j] /\ part[j] \in 0 .. 9
  BY <1>1, Joined DEF Tez
<1>3. \A j \in 1 .. D : (IF j <= l THEN part[j] ELSE 0) = Place(n, D - j) % 10
  BY DEF FractionOf
<1>4. ASSUME NEW i \in 1 .. m + 1 + l, i # m + 1 PROVE text[i] # Point
  <2>3. \A x \in 0 .. 9 : x # Point
    BY DEF Point
  <2>1. CASE i <= m
    <3>1. i \in 1 .. m
      BY <1>1, <2>1
    <3> QED BY <1>2, <2>3, <3>1
  <2>2. CASE ~ (i <= m)
    <3> DEFINE j == i - (m + 1)
    <3>1. j \in 1 .. l /\ m + 1 + j = i
      BY <1>1, <1>4, <2>2
    <3> HIDE DEF j
    <3>2. text[m + 1 + j] \in 0 .. 9
      BY <1>2, <3>1
    <3> QED BY <2>3, <3>1, <3>2
  <2> QED BY <2>1, <2>2
<1>5. points = {m + 1}
  <2>1. m + 1 \in 1 .. m + 1 + l
    BY <1>1
  <2> QED BY <1>2, <1>4, <2>1
<1>6. point = m + 1
  BY <1>5
<1>7. ValueOf(text) = NumberOf(10, s)
  <2>1. ~ (Len(text) - point > D)
    <3> HIDE DEF point, m, l, D
    <3> QED BY <1>1, <1>2, <1>6
  <2>2. ValueOf(text) = IF Len(text) - point > D THEN -1 ELSE NumberOf(10, s)
    BY DEF ValueOf
  <2> QED BY <2>1, <2>2
<1> HIDE DEF point, points
<1>8. s = [i \in 1 .. m + D |-> IF i <= m THEN text[i] ELSE
                                IF i <= m + l THEN text[i + 1] ELSE 0]
  <2>1. point - 1 + D = m + D
    BY <1>1, <1>6
  <2>2. ASSUME NEW i \in 1 .. m + D
        PROVE  /\ i < point <=> i <= m
               /\ i < Len(text) <=> i <= m + l
    BY <1>1, <1>2, <1>6
  <2> HIDE DEF m, l, D
  <2> QED BY <2>1, <2>2
<1> HIDE DEF s, m, l, D
<1>9. Len(s) = m + D
  BY <1>1, <1>8
<1>10. ASSUME NEW i \in 1 .. m PROVE s[i] = whole[i]
  BY <1>1, <1>2, <1>8
<1>11. ASSUME NEW j \in 1 .. D PROVE s[m + j] = Place(n, D - j) % 10
  <2>1. /\ m + j \in 1 .. m + D /\ ~ (m + j <= m) /\ (m + j <= m + l <=> j <= l)
        /\ (m + j) + 1 = m + 1 + j
    BY <1>1
  <2>2. s[m + j] = IF j <= l THEN text[m + 1 + j] ELSE 0
    BY <1>8, <2>1
  <2>3. j <= l => text[m + 1 + j] = part[j]
    BY <1>1, <1>2
  <2> QED BY <1>3, <2>2, <2>3
<1>12. NumberOf(10, s) = n
  <2>1. \A j \in 1 .. DECIMAL_DIGITS : s[Len(whole) + j] = Place(n, DECIMAL_DIGITS - j) % 10
    BY <1>11 DEF m, D
  <2>2. Len(s) = Len(whole) + DECIMAL_DIGITS /\ \A i \in 1 .. Len(whole) : s[i] = whole[i]
    BY <1>9, <1>10 DEF m, D
  <2> QED BY <2>1, <2>2, WholeAndFraction
<1>13. text[Len(text)] # 0
  <2>1. l \in 1 .. l /\ Len(text) = m + 1 + l
    BY <1>1, <1>2
  <2> QED BY <1>1, <1>2, <2>1
<1>14. text[1] = whole[1]
  <2>1. 1 \in 1 .. m
    BY <1>1
  <2> QED BY <1>2, <2>1
<1> QED BY <1>2, <1>7, <1>12, <1>13, <1>14 DEF m, l

LEMMA AmountReadsBack ==
    ASSUME NEW n \in Nat, Place(n, MAX_INT_DIGITS) = 0
    PROVE  LET text == microtez_to_string(n)
               number_text == number_to_string(n)
           IN  /\ ValueOf(text) = n
               /\ (Len(text) > 1 /\ text[1] = 0) => text[2] = Point
               /\ (\E i \in DOMAIN text : text[i] = Point) => text[Len(text)] # 0
               /\ Len(text) + 1 <= MAX_INT_DIGITS + 2
               /\ Len(number_text) + 1 <= MAX_INT_DIGITS + 1
<1> DEFINE D == DECIMAL_DIGITS
           M == MAX_INT_DIGITS
           whole == number_to_string(n \div TEZ_SCALE)
           text == microtez_to_string(n)
<1>1. /\ Shows(whole, Place(n, D)) /\ Len(whole) <= M - D /\ Len(whole) \in 1 .. M
      /\ D \in Nat \ {0} /\ M \in Nat
      /\ Len(whole) > 1 => whole[1] # 0
  BY AmountShown DEF Shows
<1>2. Len(number_to_string(n)) + 1 <= M + 1
  <2>1. Shows(number_to_string(n), n)
    BY NumberShown
  <2> QED BY <2>1 DEF Shows
<1>3. text = IF n % TEZ_SCALE = 0 THEN whole ELSE whole \o <<Point>> \o fraction(n)
  BY DEF microtez_to_string
<1> HIDE DEF whole, text, D, M
<1>4. CASE n % TEZ_SCALE = 0
  <2>1. text = whole
    BY <1>3, <1>4
  <2>2. ValueOf(text) = n /\ \A i \in DOMAIN text : text[i] # Point
    BY <1>1, <1>4, <2>1, WholeReads DEF D
  <2>3. Len(text) > 1 => text[1] # 0
    BY <1>1, <2>1
  <2>4. Len(text) + 1 <= M + 2
    BY <1>1, <2>1
  <2> QED BY <1>2, <2>2, <2>3, <2>4 DEF text, M
<1>5. CASE n % TEZ_SCALE # 0
  <2>1. Tez(text, whole, fraction(n))
    BY <1>3, <1>5 DEF Tez
  <2>2. FractionOf(fraction(n), n) /\ Len(fraction(n)) \in 1 .. D
    BY <1>5, FractionShown DEF FractionOf, D
  <2>3. /\ ValueOf(text) = n
        /\ Len(text) = Len(whole) + 1 + Len(fraction(n))
        /\ text[Len(text)] # 0 /\ text[Len(whole) + 1] = Point
        /\ text[1] = whole[1]
    <3>1. Shows(whole, Place(n, DECIMAL_DIGITS))
      BY <1>1 DEF D
    <3> QED BY <2>1, <2>2, <3>1, FractionReads
  <2>4. text[1] = 0 => text[2] = Point
    <3>1. ASSUME text[1] = 0 PROVE Len(whole) + 1 = 2
      BY <1>1, <2>3, <3>1
    <3> QED BY <2>3, <3>1
  <2>5. Len(text) + 1 <= M + 2
    BY <1>1, <2>2, <2>3
  <2> QED BY <1>2, <2>3, <2>4, <2>5 DEF text, M
<1> QED BY <1>4, <1>5

-----------------------------------------------------------------------------
(* Words.                                                                  *)

LEMMA BinaryIs ==
    ASSUME NEW s, NEW n \in Nat, Terms(s, n)
    PROVE  \E v \in [0 .. n -> Int] :
              v[0] = 0 /\ AddsAfter(v, 2, s, 0, n) /\ NumberOf(2, s) = v[n]
<1>1. 2 \in Int
  OBVIOUS
<1> QED BY <1>1, NumberIs

\* Ones write more than zeroes and ones do.
LEMMA MostBits ==
    ASSUME NEW n \in Nat, NEW s, NEW t, Terms(s, n), Terms(t, n),
           \A i \in 1 .. n : s[i] \in {0, 1} /\ t[i] = 1
    PROVE  NumberOf(2, s) \in 0 .. NumberOf(2, t)
<1>1. PICK v \in [0 .. n -> Int] :
         v[0] = 0 /\ AddsAfter(v, 2, s, 0, n) /\ NumberOf(2, s) = v[n]
  BY BinaryIs
<1>2. PICK u \in [0 .. n -> Int] :
         u[0] = 0 /\ AddsAfter(u, 2, t, 0, n) /\ NumberOf(2, t) = u[n]
  BY BinaryIs
<1> DEFINE S == {i \in Nat : i <= n => v[i] \in 0 .. u[i]}
<1>3. 0 \in S
  BY <1>1, <1>2
<1>4. ASSUME NEW i \in Nat, i \in S PROVE i + 1 \in S
  <2>1. SUFFICES ASSUME i + 1 <= n PROVE v[i + 1] \in 0 .. u[i + 1]
    OBVIOUS
  <2>2. i \in 0 .. n - 1 /\ i <= n /\ i + 1 \in 1 .. n /\ i \in 0 .. n
    BY <2>1
  <2>3. v[i] \in 0 .. u[i] /\ u[i] \in Int
    BY <1>4, <2>2
  <2>4. v[i + 1] = 2 * v[i] + s[i + 1] /\ u[i + 1] = 2 * u[i] + t[i + 1]
    BY <1>1, <1>2, <2>2 DEF AddsAfter
  <2>5. s[i + 1] \in {0, 1} /\ t[i + 1] = 1
    BY <2>2
  <2>6. \A a, b \in Int : \A c \in {0, 1} : a \in 0 .. b => 2 * a + c \in 0 .. 2 * b + 1
    OBVIOUS
  <2>7. v[i] \in Int
    BY <2>3
  <2>8. 2 * v[i] + s[i + 1] \in 0 .. 2 * u[i] + 1
    BY <2>3, <2>5, <2>6, <2>7
  <2> QED BY <2>4, <2>5, <2>8
<1> HIDE DEF S
<1>5. n \in S
  <2>1. Nat \subseteq S
    BY <1>3, <1>4, NatInd
  <2> QED BY <2>1
<1> QED BY <1>1, <1>2, <1>5 DEF S

LEMMA WordsAreNumbers ==
    ASSUME NEW word, WordBits \in Nat
    PROVE  NatOf(word) \in Nat /\ Place(NatOf(word), MAX_INT_DIGITS) = 0
<1> DEFINE s == [i \in 1 .. WordBits |-> IF WordBits - i \in word THEN 1 ELSE 0]
           t == [i \in 1 .. WordBits |-> 1]
           n == NumberOf(2, s)
           greatest == NumberOf(2, t)
           ten == Tens[MAX_INT_DIGITS]
<1>1. Terms(s, WordBits)
  <2>1. Len(s) = WordBits
    OBVIOUS
  <2>2. \A i \in 1 .. WordBits : s[i] \in Int
    OBVIOUS
  <2> HIDE DEF s
  <2> QED BY <2>1, <2>2 DEF Terms
<1>2. Terms(t, WordBits)
  <2>1. Len(t) = WordBits
    OBVIOUS
  <2>2. \A i \in 1 .. WordBits : t[i] \in Int
    OBVIOUS
  <2> HIDE DEF t
  <2> QED BY <2>1, <2>2 DEF Terms
<1>3. \A i \in 1 .. WordBits : s[i] \in {0, 1} /\ t[i] = 1
  OBVIOUS
<1> HIDE DEF s, t
<1>4. n \in 0 .. greatest
  BY <1>1, <1>2, <1>3, MostBits
<1>5. greatest < ten
  BY RangeAssumption DEF t
<1>6. ten \in Nat \ {0}
  <2>1. MAX_INT_DIGITS \in 0 .. MAX_INT_DIGITS
    OBVIOUS
  <2> QED BY <2>1, TensAre
<1>7. NatOf(word) = n
  BY DEF NatOf, s
<1>8. greatest \in Int
  <2>1. PICK u \in [0 .. WordBits -> Int] :
           u[0] = 0 /\ AddsAfter(u, 2, t, 0, WordBits) /\ greatest = u[WordBits]
    BY <1>2, BinaryIs
  <2> QED BY <2>1
<1> HIDE DEF n, greatest, ten
<1>9. n \in Nat /\ n \in 0 .. ten - 1 /\ n = 0 * ten + n
  BY <1>4, <1>5, <1>6, <1>8
<1>10. n \div ten = 0
  <2>1. 0 \in Int
    OBVIOUS
  <2> QED BY <1>6, <1>9, <2>1, Division
<1> QED BY <1>7, <1>9, <1>10 DEF Place, ten

\* Of any word, so that this holds of every state, reached or not.
LEMMA ReadsBack == ShownReadsBack
<1>1. NatOf(got.value) \in Nat /\ Place(NatOf(got.value), MAX_INT_DIGITS) = 0
  BY WordAssumption, WordsAreNumbers
<1> QED BY <1>1, AmountReadsBack, Zenon DEF ShownReadsBack

HIDE DigitsAssumption
USE WordAssumption

-----------------------------------------------------------------------------
(* The table.                                                              *)

LEMMA NoFieldAgain == \A line \in Field : line \notin After(line)
<1>1. ASSUME NEW p \in Paths, NEW i \in 1 .. Len(p) - 1 PROVE p[i] # p[i + 1]
  <2>1. CASE \E s \in Sources : p = <<333, s, 382, 384, 386, 388>>
    BY <2>1 DEF Sources
  <2>2. CASE \/ \E s \in Sources : p = <<388, 400, 409, s>>
             \/ \E s \in Sources : p = <<388, 503, s>>
             \/ \E s \in Sources : p = <<388, s>>
             \/ \E s \in Sources : p = <<388, 517, 520, s>>
    BY <2>2 DEF Sources
  <2>3. CASE p \in {<<354, 449, EndOfMessage>>, <<354, 465, EndOfMessage>>,
                    <<590, 763, 767, 781>>}
    BY <2>3 DEF EndOfMessage
  <2>4. CASE p = <<520, 560, 569, 585, 586, 587, 590, 605, 620, 624, 639, 781,
                   EndOfMessage>>
    BY <2>4 DEF EndOfMessage
  <2>5. CASE p = <<624, 651, 652, 663, 667, 671, 781>>
    BY <2>5
  <2>6. CASE p = <<605, 682, 687, 693, 732, 733, 735, 737, 738, 739, 741, 742, 743,
                   747, 752, 755, 781>>
    BY <2>6
  <2> QED BY <2>1, <2>2, <2>3, <2>4, <2>5, <2>6 DEF Paths
<1>2. ASSUME NEW line, <<line, line>> \in Follows PROVE FALSE
  <2>1. PICK p \in Paths : <<line, line>> \in {<<p[i], p[i + 1]>> : i \in 1 .. Len(p) - 1}
    BY <1>2 DEF Follows
  <2> QED BY <1>1, <2>1
<1> QED BY <1>2 DEF After

LEMMA FirstField == 333 \in Field /\ 333 \in Sized
<1> DEFINE p == <<333, 354, 382, 384, 386, 388>>
<1>1. p \in Paths
  BY DEF Paths, Sources
<1>2. 1 \in DOMAIN p /\ p[1] = 333
  OBVIOUS
<1> HIDE DEF p
<1>4. 333 \in UNION {{q[i] : i \in DOMAIN q} : q \in Paths}
  <2>1. 333 \in {p[i] : i \in DOMAIN p}
    BY <1>2
  <2> QED BY <1>1, <2>1
<1>3. 333 \in Field
  <2>1. 333 # EndOfMessage
    BY DEF EndOfMessage
  <2> QED BY <1>4, <2>1, Zenon DEF Field
<1> QED BY <1>3 DEF Sized, AnyNumber, Numbers, MichelsonNumbers, Addresses

LEMMA Sizes == \A line : TypeSize(line) \in Nat /\ TypeSize(line) > 0
BY DEF TypeSize, HASH_SIZE

LEMMA Kinds ==
    /\ \A line \in Line \ {EndOfMessage} : line \in AnyNumber \cup Sized \cup Addresses
    /\ \A line \in AnyNumber : line \notin Sized /\ line \notin Addresses
    /\ \A line \in Addresses : line \notin Sized /\ line \notin AnyNumber
    /\ EndOfMessage \notin AnyNumber \cup Sized \cup Addresses
    /\ \A line \in Sized : line \in Field
<1>1. EndOfMessage \notin Field
  BY Zenon DEF Field
<1>2. \A line \in Addresses : line \notin AnyNumber
  BY DEF AnyNumber, Numbers, MichelsonNumbers, Addresses
<1>3. EndOfMessage \notin AnyNumber \cup Addresses
  BY DEF AnyNumber, Numbers, MichelsonNumbers, Addresses, EndOfMessage
<1> QED BY <1>1, <1>2, <1>3 DEF Line, Sized

-----------------------------------------------------------------------------
(* Bytes and words.                                                        *)

LEMMA NoBytes ==
    ASSUME NEW line, NEW i \in Nat PROVE Bytes(line, i + 1, i) = << >>
BY DEF Bytes

LEMMA ByteSequences ==
    ASSUME NEW m \in Nat, NEW f \in [1 .. m -> Byte]
    PROVE  f \in Seq(Byte) /\ Len(f) = m
<1> HIDE DEF Byte
<1> QED OBVIOUS

LEMMA OneMoreByte ==
    ASSUME NEW line \in Line, NEW first \in Nat \ {0}, NEW i \in Nat, first <= i + 1
    PROVE  /\ Append(Bytes(line, first, i), <<line, i + 1>>) = Bytes(line, first, i + 1)
           /\ Len(Bytes(line, first, i)) = i + 1 - first
           /\ Len(Bytes(line, first, i + 1)) = i + 2 - first
           /\ Bytes(line, first, i) \in Seq(Byte)
<1> DEFINE n == i - first + 1
           s == Bytes(line, first, i)
           l == Bytes(line, first, i + 1)
           x == <<line, i + 1>>
<1>1. /\ n \in Nat /\ (i + 1) - first + 1 = n + 1 /\ first + (n + 1) - 1 = i + 1
      /\ n = i + 1 - first
  OBVIOUS
<1>2. /\ s = [k \in 1 .. n |-> <<line, first + k - 1>>]
      /\ l = [k \in 1 .. n + 1 |-> <<line, first + k - 1>>]
  BY <1>1 DEF Bytes
<1>3. \A k \in 1 .. n + 1 : first + k - 1 \in Nat
  BY <1>1
<1>4. \A k \in 1 .. n + 1 : <<line, first + k - 1>> \in Byte
  BY <1>3 DEF Byte
<1> HIDE DEF s, l, n
<1>11. n + 1 \in 1 .. n + 1 /\ \A k \in 1 .. n : k \in 1 .. n + 1
  BY <1>1
<1>5. s \in Seq(Byte) /\ l \in Seq(Byte) /\ Len(s) = n /\ Len(l) = n + 1
  <2>1. \A m \in Nat : \A f \in [1 .. m -> Byte] : f \in Seq(Byte) /\ Len(f) = m
    BY ByteSequences
  <2>2. s \in [1 .. n -> Byte] /\ l \in [1 .. n + 1 -> Byte] /\ n + 1 \in Nat
    <3> HIDE DEF Byte
    <3>1. \A k \in 1 .. n : <<line, first + k - 1>> \in Byte
      BY <1>4, <1>11
    <3>2. s \in [1 .. n -> Byte]
      BY <1>2, <3>1
    <3>3. l \in [1 .. n + 1 -> Byte]
      BY <1>2, <1>4
    <3> QED BY <1>1, <3>2, <3>3
  <2> QED BY <1>1, <2>1, <2>2
<1>6. x \in Byte /\ l[n + 1] = x
  <2>1. l[n + 1] = <<line, first + (n + 1) - 1>>
    BY <1>2, <1>11, Zenon
  <2>2. l[n + 1] = x
    BY <1>1, <2>1
  <2> QED BY <1>1, <1>4, <1>11, <2>2
<1>7. \A k \in 1 .. n : l[k] = s[k]
  BY <1>2, <1>11, Zenon
<1> HIDE DEF x
<1>8. Append(s, x) \in Seq(Byte) /\ Len(Append(s, x)) = n + 1
  BY <1>5, <1>6, AppendProperties
<1>9. \A k \in 1 .. n + 1 : Append(s, x)[k] = l[k]
  BY <1>1, <1>5, <1>6, <1>7, AppendProperties
<1>10. Append(s, x) = l
  BY <1>5, <1>8, <1>9, SeqEqual
<1>12. n + 1 = i + 2 - first
  BY DEF n
<1> QED BY <1>1, <1>5, <1>10, <1>12 DEF s, l, x

LEMMA NewCalls ==
    /\ \A line \in Line \cup InnerLines : NewCall(line) \in Substate
    /\ NewCall(-1) \in Substate /\ NoAddress \in AddressState
<1>1. \A line \in Line \cup InnerLines \cup {-1} : NewCall(line) \in Substate
  BY DEF NewCall, Substate, Word
<1>2. EndOfMessage \in Line /\ EndOfMessage = 0
  BY DEF Line, EndOfMessage
<1> QED BY <1>1, <1>2 DEF NoAddress, AddressState, AddressLength

LEMMA Calls ==
    ASSUME NEW s \in Substate, NEW line \in Line \cup InnerLines
    PROVE  /\ call(s, line) \in Substate /\ call(s, line).lineno = line
           /\ s.lineno = line => call(s, line) = s
           /\ s.lineno # line => /\ call(s, line).body = << >>
                                 /\ call(s, line).value = {}
                                 /\ call(s, line).shift = 0
BY NewCalls DEF call, NewCall, Substate

LEMMA ByteRead ==
    ASSUME NEW s \in Substate, NEW line \in Line \cup InnerLines,
           NEW b \in Byte
    PROVE  LET t == parse_next_type(s, b, line)
           IN  /\ t \in Substate /\ t.lineno = line
               /\ t.body = Append(call(s, line).body, b)
<1> DEFINE c == call(s, line)
<1>1. c \in Substate /\ c.lineno = line
  BY Calls
<1>2. parse_next_type(s, b, line) = [c EXCEPT !.body = Append(c.body, b)]
  BY DEF parse_next_type
<1> HIDE DEF c
<1>3. Append(c.body, b) \in Seq(Byte)
  BY <1>1 DEF Substate
<1> QED BY <1>1, <1>2, <1>3 DEF Substate, c

-----------------------------------------------------------------------------
(* Fields that begin, go on and end.                                       *)

LEMMA Begins ==
    ASSUME Typed', FieldsAreRead', sub'.lineno # reading' \/ reading' = EndOfMessage,
           at' = 0, number' = {}, bits' = 0
    PROVE  IndInv'
<1>1. CASE reading' = EndOfMessage
  BY <1>1, Kinds DEF IndInv, NumberRead, SizedRead, AddressRead
<1>2. CASE reading' # EndOfMessage
  <2>1. sub' \in Substate /\ reading' \in Line
    BY DEF Typed
  <2>2. State'.body = << >> /\ State'.value = {} /\ State'.shift = 0
    BY <1>2, <2>1, Calls DEF State
  <2>3. ThisAddress' = NoAddress
    BY <1>2 DEF ThisAddress
  <2>4. NumberRead'
    BY <2>2 DEF NumberRead
  <2>5. SizedRead'
    <3>1. Bytes(reading', 1, 0) = << >>
      BY NoBytes
    <3> QED BY <2>2, <3>1, Sizes DEF SizedRead
  <2>6. AddressRead'
    BY <2>3 DEF AddressRead, NoAddress
  <2> QED BY <2>4, <2>5, <2>6 DEF IndInv
<1> QED BY <1>1, <1>2

\* What a field yields.
Yields(value, written, body) ==
    /\ reading \in AnyNumber => written \in {NoWord, value}
    /\ reading \in Addresses => body = Bytes(reading, 6, 5 + HASH_SIZE_B58)
    /\ reading \in Sized => body = Bytes(reading, 1, TypeSize(reading))

LEMMA FieldEnds ==
    ASSUME IndInv, reading \in Field, NEW value, NEW written, NEW body,
           Ends(value, written, body), Yields(value, written, body),
           sub' \in Substate, sub'.lineno = reading, address' \in AddressState
    PROVE  IndInv'
<1>1. /\ reading' \in After(reading) /\ at' = 0 /\ number' = {} /\ bits' = 0
      /\ got' = [line |-> reading, value |-> value, number |-> written, body |-> body]
  BY DEF Ends
<1>2. reading' \in Line /\ reading' # reading
  BY <1>1, NoFieldAgain DEF After, Line
<1>3. 0 \in 0 .. WordBits /\ {} \in Word /\ 0 \in Nat
  BY DEF Word
<1>4. Typed'
  BY <1>1, <1>2, <1>3 DEF Typed
<1>5. FieldsAreRead'
  <2>1. /\ got'.line = reading /\ got'.value = value /\ got'.number = written
        /\ got'.body = body
    BY <1>1
  <2>2. CASE reading \in AnyNumber
    <3>1. got'.number \in {NoWord, got'.value} /\ got'.line \in Numbers \cup MichelsonNumbers
      BY <2>1, <2>2 DEF Yields, AnyNumber
    <3> DEFINE fits == got'.number \in {NoWord, got'.value}
               numeric == got'.line \in Numbers \cup MichelsonNumbers
               addressed == got'.body = Bytes(got'.line, 6, 5 + HASH_SIZE_B58)
               sized == got'.body = Bytes(got'.line, 1, TypeSize(got'.line))
               read == CASE numeric -> fits
                         [] got'.line \in Addresses -> addressed
                         [] OTHER -> sized
    <3>2. FieldsAreRead' = (got'.line # EndOfMessage => read)
      BY Zenon DEF FieldsAreRead, Bytes
    <3>3. numeric = TRUE /\ fits = TRUE
      BY <3>1, Zenon
    <3>4. \A line \in AnyNumber : line \notin Addresses
      BY Kinds
    <3> HIDE DEF fits, numeric, addressed, sized
    <3>5. read
      BY <3>3, <3>4, <2>1, <2>2
    <3> QED BY <3>2, <3>5, Zenon
  <2>3. CASE reading \in Addresses
    BY <2>1, <2>3, Kinds DEF FieldsAreRead, Yields, AnyNumber, Bytes
  <2>4. CASE reading \in Sized
    BY <2>1, <2>4 DEF FieldsAreRead, Yields, AnyNumber, Sized, Bytes
  <2> QED BY <2>2, <2>3, <2>4, Kinds DEF Sized
<1> QED BY <1>1, <1>2, <1>4, <1>5, Begins

LEMMA NothingRead == got' = Nothing => FieldsAreRead'
BY DEF FieldsAreRead, Nothing

LEMMA Starts == Init => IndInv
<1> SUFFICES ASSUME Init PROVE IndInv
  OBVIOUS
<1>1. /\ reading = 333 /\ sub = NewCall(-1) /\ address = NoAddress
      /\ at = 0 /\ number = {} /\ bits = 0
  BY DEF Init
<1>2. Typed
  BY <1>1, NewCalls, FirstField DEF Typed, Line, Word
<1>3. FieldsAreRead
  BY DEF Init, FieldsAreRead, Nothing
<1>4. sub.lineno = -1 /\ 333 # -1
  BY <1>1 DEF NewCall
<1>5. State = NewCall(333) /\ ThisAddress = NoAddress
  BY <1>1, <1>4 DEF State, call, ThisAddress
<1>6. 333 \notin AnyNumber /\ 333 \notin Addresses
  BY FirstField DEF Sized
<1>7. SizedRead
  <2>1. State.body = << >> /\ Bytes(333, 1, 0) = << >>
    BY <1>5, NoBytes DEF NewCall
  <2> QED BY <1>1, <2>1, Sizes DEF SizedRead
<1> QED BY <1>1, <1>2, <1>3, <1>6, <1>7 DEF IndInv, NumberRead, AddressRead

LEMMA Restarts == IndInv /\ parse_operations_init => IndInv'
<1> SUFFICES ASSUME IndInv, parse_operations_init PROVE IndInv'
  OBVIOUS
<1>1. /\ reading' = 333 /\ sub' = [sub EXCEPT !.lineno = -1] /\ got' = Nothing
      /\ at' = 0 /\ number' = {} /\ bits' = 0 /\ address' = address
  BY DEF parse_operations_init
<1>2. sub' \in Substate /\ sub'.lineno = -1
  BY <1>1 DEF IndInv, Typed, Substate
<1>3. Typed'
  BY <1>1, <1>2, FirstField DEF IndInv, Typed, Line, Word
<1>4. 333 # -1
  OBVIOUS
<1> QED BY <1>1, <1>2, <1>3, <1>4, NothingRead, Begins

LEMMA Refusals == IndInv /\ parse_error => IndInv'
<1> SUFFICES ASSUME IndInv, parse_error PROVE IndInv'
  OBVIOUS
<1>1. /\ reading' = EndOfMessage /\ got' = Nothing
      /\ at' = 0 /\ number' = {} /\ bits' = 0 /\ UNCHANGED <<sub, address>>
  BY DEF parse_error
<1>2. Typed'
  BY <1>1 DEF IndInv, Typed, Line, Word
<1> QED BY <1>1, <1>2, NothingRead, Begins

-----------------------------------------------------------------------------
(* Sized fields.                                                           *)

LEMMA SizedSteps == IndInv /\ read_type => IndInv'
<1> SUFFICES ASSUME IndInv, read_type PROVE IndInv'
  OBVIOUS
<1> DEFINE b == <<reading, at + 1>>
           t == parse_next_type(sub, b, reading)
           n == TypeSize(reading)
<1>1. /\ reading \in Sized /\ reading \in Field /\ reading \in Line
      /\ sub' = t /\ address' = NoAddress
      /\ IF Len(t.body) < n
         THEN Goes /\ at' = at + 1 /\ UNCHANGED <<number, bits>>
         ELSE Ends({}, {}, t.body)
  BY DEF read_type, Sized, AnyNumber, Line
<1>2. at \in Nat /\ at < n /\ State.body = Bytes(reading, 1, at) /\ sub \in Substate
  BY <1>1 DEF IndInv, Typed, SizedRead
<1>3. b \in Byte
  BY <1>1, <1>2 DEF Byte
<1>4. t \in Substate /\ t.lineno = reading /\ t.body = Append(State.body, b)
  BY <1>1, <1>2, <1>3, ByteRead DEF State
<1>5. t.body = Bytes(reading, 1, at + 1) /\ Len(t.body) = at + 1
  <2>1. /\ Append(Bytes(reading, 1, at), b) = Bytes(reading, 1, at + 1)
        /\ Len(Bytes(reading, 1, at + 1)) = at + 2 - 1
    <3>1. 1 \in Nat \ {0} /\ 1 <= at + 1
      BY <1>2
    <3> QED BY <1>1, <1>2, <3>1, OneMoreByte
  <2>2. at + 2 - 1 = at + 1
    BY <1>2
  <2> HIDE DEF b, t
  <2> QED BY <1>2, <1>4, <2>1, <2>2
<1> HIDE DEF t, b
<1>6. CASE Len(t.body) < n
  <2>1. /\ reading' = reading /\ got' = Nothing /\ at' = at + 1
        /\ number' = number /\ bits' = bits /\ sub' = t /\ address' = NoAddress
    BY <1>1, <1>6 DEF Goes
  <2>2. Typed'
    BY <1>2, <1>4, <2>1, NewCalls DEF IndInv, Typed
  <2>3. State' = t
    BY <1>1, <1>4, <2>1, Calls DEF State
  <2>4. SizedRead'
    BY <1>5, <1>6, <2>1, <2>3 DEF SizedRead
  <2> QED BY <1>1, <2>1, <2>2, <2>4, Kinds, NothingRead DEF IndInv, NumberRead, AddressRead
<1>7. CASE ~(Len(t.body) < n)
  <2>1. at + 1 = n
    BY <1>2, <1>5, <1>7, Sizes
  <2>2. Yields({}, {}, t.body)
    BY <1>1, <1>5, <2>1, Kinds DEF Yields
  <2> QED BY <1>1, <1>4, <1>7, <2>2, FieldEnds, NewCalls
<1> QED BY <1>6, <1>7

-----------------------------------------------------------------------------
(* Numbers.                                                                *)

LEMMA ShiftedWords ==
    ASSUME NEW digit, NEW s, NEW w \in Shifted(digit, s) PROVE w \in Word
BY DEF Shifted, Word

\* As long as there are bits left in the word, the shift counts them; after
\* that only zeroes are of a number that fits.
LEMMA BitsWritten ==
    ASSUME IndInv, reading \in AnyNumber, NEW digit \in Digit,
           NEW shifted \in Shifted(digit, State.shift)
    PROVE  Written(digit, bits) \in {NoWord, State.value \cup shifted}
<1> DEFINE moved == {b + bits : b \in digit}
           big == \E b \in digit : b + bits >= WordBits
<1>1. /\ number \in {NoWord, State.value} /\ bits \in 0 .. WordBits
      /\ bits < WordBits => State.shift = bits
  BY DEF IndInv, Typed, NumberRead
<1>2. SUFFICES ASSUME number # NoWord, ~big PROVE number \cup moved = State.value \cup shifted
  BY DEF Written
<1>3. \A b \in digit : b \in Nat
  BY DEF Digit
<1>4. CASE bits < WordBits
  <2>1. shifted = moved \cap (0 .. WordBits - 1)
    BY <1>1, <1>4 DEF Shifted
  <2>2. \A b \in digit : b + bits \in 0 .. WordBits - 1
    BY <1>1, <1>2, <1>3
  <2> QED BY <1>1, <1>2, <2>1, <2>2
<1>5. CASE ~(bits < WordBits)
  <2>1. \A b \in digit : b + bits >= WordBits
    BY <1>1, <1>3, <1>5
  <2>2. digit = {}
    BY <1>2, <2>1
  <2>3. moved = {} /\ shifted = {}
    BY <2>2 DEF Shifted
  <2> QED BY <1>1, <1>2, <2>3
<1> QED BY <1>4, <1>5

LEMMA NumberSteps ==
    ASSUME IndInv, reading \in AnyNumber, reading \in Field, NEW digit \in Digit,
           NEW more \in BOOLEAN, NEW step \in Nat \ {0},
           NEW written \in {NoWord, Written(digit, bits)},
           NumberByte(State, digit, more, step, written)
    PROVE  IndInv'
<1>1. PICK shifted \in Shifted(digit, State.shift) :
         /\ sub' = [State EXCEPT !.value = State.value \cup shifted,
                                 !.shift = (State.shift + step) % ShiftSize]
         /\ address' = NoAddress
         /\ IF more
            THEN /\ Goes /\ number' = written
                 /\ bits' = Least(bits + step, WordBits) /\ at' = at
            ELSE Ends(State.value \cup shifted, written, << >>)
  BY DEF NumberByte
<1> DEFINE value == State.value \cup shifted
           shift == (State.shift + step) % ShiftSize
<1>2. /\ reading \in Line /\ State \in Substate /\ State.lineno = reading
      /\ bits \in 0 .. WordBits /\ at \in Nat
      /\ bits < WordBits => State.shift = bits
  BY Calls DEF IndInv, Typed, State, NumberRead
<1>3. value \in Word /\ shift \in Nat
  <2>1. shifted \in Word /\ State.value \in Word /\ State.shift \in Nat
    BY <1>2, ShiftedWords DEF Substate
  <2>2. ShiftSize \in Nat \ {0}
    OBVIOUS
  <2>3. \A n \in Nat : n % ShiftSize \in Nat
    BY <2>2
  <2>4. State.shift + step \in Nat
    BY <2>1
  <2> QED BY <2>1, <2>3, <2>4 DEF Word
<1>4. written \in {NoWord, value}
  BY BitsWritten
<1>5. /\ sub' = [State EXCEPT !.value = value, !.shift = shift]
      /\ more => bits' = Least(bits + step, WordBits)
  BY <1>1
<1>6. bits + step < WordBits => shift = bits + step
  <2>1. ASSUME bits + step < WordBits PROVE State.shift + step = bits + step
    BY <1>2, <2>1
  <2>2. \A n \in Nat : n < ShiftSize => n % ShiftSize = n
    OBVIOUS
  <2>3. bits + step < WordBits => bits + step < ShiftSize /\ bits + step \in Nat
    BY <1>2
  <2> QED BY <2>1, <2>2, <2>3
<1> HIDE DEF value, shift
<1>7. /\ sub' \in Substate /\ sub'.lineno = reading /\ sub'.value = value
      /\ sub'.shift = shift
  BY <1>2, <1>3, <1>5 DEF Substate
<1>8. CASE more
  <2>1. /\ reading' = reading /\ got' = Nothing /\ at' = at /\ number' = written
        /\ bits' = Least(bits + step, WordBits) /\ address' = NoAddress
    BY <1>1, <1>8 DEF Goes
  <2>2. bits' \in 0 .. WordBits /\ (bits' < WordBits => bits' = bits + step)
    BY <1>2, <2>1 DEF Least
  <2>3. Typed'
    BY <1>2, <1>3, <1>4, <1>7, <2>1, <2>2, NewCalls DEF Typed
  <2>4. State' = sub'
    BY <1>2, <1>7, <2>1, Calls DEF State
  <2>5. NumberRead'
    BY <1>4, <1>6, <1>7, <2>1, <2>2, <2>4 DEF NumberRead
  <2> QED BY <2>1, <2>3, <2>5, Kinds, NothingRead DEF IndInv, SizedRead, AddressRead
<1>9. CASE ~more
  <2>1. Ends(value, written, << >>)
    BY <1>1, <1>9 DEF value
  <2>2. Yields(value, written, << >>)
    BY <1>4, Kinds DEF Yields
  <2> QED BY <1>1, <1>7, <2>1, <2>2, FieldEnds, NewCalls
<1> QED BY <1>8, <1>9

LEMMA PlainSteps ==
    ASSUME IndInv, NEW digit \in Digit, NEW more \in BOOLEAN, parse_z(digit, more)
    PROVE  IndInv'
<1>1. /\ reading \in AnyNumber /\ reading \in Field
      /\ NumberByte(State, digit, more, GroupBits, Written(digit, bits))
  <2>1. reading \in Numbers
    BY DEF parse_z
  <2>2. reading \in AnyNumber /\ reading \in Line
    BY <2>1 DEF AnyNumber, IndInv, Typed
  <2> QED BY <2>2, Kinds DEF parse_z, State, Line
<1>2. GroupBits \in Nat \ {0}
  OBVIOUS
<1> QED BY <1>1, <1>2, NumberSteps

LEMMA SignedSteps ==
    ASSUME IndInv, NEW digit \in Digit, NEW more \in BOOLEAN,
           parse_z_michelson(digit, more)
    PROVE  IndInv'
<1> DEFINE step == IF State.shift = 0 THEN GroupBits - 1 ELSE GroupBits
           written == IF bits = 0 /\ GroupBits - 1 \in digit THEN NoWord
                      ELSE Written(digit, bits)
<1>1. /\ reading \in AnyNumber /\ reading \in Field
      /\ NumberByte(State, digit, more, step, written)
  <2>1. reading \in MichelsonNumbers
    BY DEF parse_z_michelson
  <2>2. reading \in AnyNumber /\ reading \in Line
    BY <2>1 DEF AnyNumber, IndInv, Typed
  <2> QED BY <2>2, Kinds DEF parse_z_michelson, State, Line
<1>2. step \in Nat \ {0} /\ written \in {NoWord, Written(digit, bits)}
  OBVIOUS
<1> HIDE DEF step, written
<1> QED BY <1>1, <1>2, NumberSteps

-----------------------------------------------------------------------------
(* Addresses.                                                              *)

LEMMA AddressCalled ==
    ASSUME IndInv, address_called
    PROVE  /\ reading \in Addresses /\ reading \in Line /\ reading \in Field
           /\ reading \notin AnyNumber /\ reading \notin Sized
           /\ sub' \in Substate /\ sub'.lineno = reading
           /\ ThisAddress \in AddressState /\ at \in Nat
           /\ ThisAddress.step # 0 => address = ThisAddress
           /\ <<reading, at + 1>> \in Byte
<1>1. reading \in Addresses /\ reading \in Line /\ sub' = call(sub, reading)
  BY DEF address_called, IndInv, Typed
<1>2. sub \in Substate /\ address \in AddressState /\ at \in Nat
  BY DEF IndInv, Typed
<1>3. reading \in Field
  BY <1>1, Kinds DEF Line
<1>4. ThisAddress \in AddressState /\ (ThisAddress.step # 0 => address = ThisAddress)
  BY <1>2, NewCalls DEF ThisAddress, NoAddress
<1>5. at + 1 \in Nat
  BY <1>2
<1> QED BY <1>1, <1>2, <1>3, <1>4, <1>5, Calls, Kinds DEF Byte

LEMMA AddressGoesOn ==
    ASSUME IndInv, address_called, ReadsOn, address' \in AddressState,
           address'.step = 1 =>
              /\ at + 1 \in 1 .. 4
              /\ call(address'.sub, 191).body = Bytes(reading, 2, at + 1),
           address'.step = 2 /\ address'.type = "string" /\ address'.length = HASH_SIZE_B58 =>
              /\ at + 1 \in 5 .. 40
              /\ call(address'.sub, 224).body = Bytes(reading, 6, at + 1),
           address'.step # 0
    PROVE  IndInv'
<1>1. /\ reading' = reading /\ got' = Nothing /\ at' = at + 1
      /\ number' = number /\ bits' = bits
  BY DEF ReadsOn, Goes
<1>2. Typed'
  BY <1>1, AddressCalled DEF IndInv, Typed
<1>3. ThisAddress' = address'
  BY <1>1, AddressCalled DEF ThisAddress
<1>4. AddressRead'
  BY <1>1, <1>3 DEF AddressRead
<1> QED BY <1>1, <1>2, <1>4, AddressCalled, NothingRead DEF IndInv, NumberRead, SizedRead

LEMMA TypeSteps ==
    ASSUME IndInv, NEW type \in AddressType, address_type(type) PROVE IndInv'
<1>1. /\ address_called /\ ThisAddress.step = 0 /\ ReadsOn
      /\ address' = [ThisAddress EXCEPT !.step = 1, !.type = type]
  BY DEF address_type
<1>2. ThisAddress = NoAddress /\ at = 0
  BY <1>1, AddressCalled DEF IndInv, AddressRead
<1>3. /\ address' \in AddressState /\ address'.step = 1 /\ address'.sub = NewCall(0)
  <2>1. address' = [NoAddress EXCEPT !.step = 1, !.type = type]
    BY <1>1, <1>2
  <2>2. NoAddress \in AddressState /\ NoAddress.sub = NewCall(0)
    BY NewCalls DEF NoAddress
  <2> QED BY <2>1, <2>2 DEF AddressState
<1>4. call(NewCall(0), 191).body = << >>
  BY DEF call, NewCall
<1>5. Bytes(reading, 2, at + 1) = << >>
  <2>1. 1 \in Nat /\ 2 = 1 + 1 /\ at + 1 = 1
    BY <1>2
  <2> QED BY <2>1, NoBytes
<1>6. at + 1 \in 1 .. 4
  BY <1>2
<1> QED BY <1>1, <1>3, <1>4, <1>5, <1>6, AddressGoesOn

LEMMA InnerByte ==
    ASSUME IndInv, address_called, address \in AddressState, NEW line \in InnerLines,
           NEW first \in Nat \ {0}, first <= at + 1,
           call(address.sub, line).body = Bytes(reading, first, at)
    PROVE  LET inner == Inner(line, address.sub)
           IN  /\ inner \in Substate /\ inner.lineno = line
               /\ inner.body = Bytes(reading, first, at + 1)
               /\ Len(inner.body) = at + 2 - first
<1> DEFINE inner == Inner(line, address.sub)
<1>1. /\ inner \in Substate /\ inner.lineno = line
      /\ inner.body = Append(call(address.sub, line).body, <<reading, at + 1>>)
  <2>1. address.sub \in Substate /\ <<reading, at + 1>> \in Byte
    BY AddressCalled DEF AddressState
  <2> QED BY <2>1, ByteRead DEF Inner
<1>2. /\ Append(Bytes(reading, first, at), <<reading, at + 1>>) = Bytes(reading, first, at + 1)
      /\ Len(Bytes(reading, first, at + 1)) = at + 2 - first
  BY AddressCalled, OneMoreByte
<1> HIDE DEF inner
<1>3. inner.body = Bytes(reading, first, at + 1)
  BY <1>1, <1>2
<1> QED BY <1>1, <1>2, <1>3 DEF inner

LEMMA LengthSteps ==
    ASSUME IndInv, NEW length \in AddressLength, address_length(length) PROVE IndInv'
<1> DEFINE inner == Inner(191, address.sub)
<1>1. /\ address_called /\ ThisAddress.step = 1 /\ ReadsOn
      /\ address' = IF Len(inner.body) < 4 THEN [address EXCEPT !.sub = inner]
                    ELSE [address EXCEPT !.sub = inner, !.step = 2, !.length = length]
  BY DEF address_length
<1>2. /\ address = ThisAddress /\ address \in AddressState /\ address.step = 1
      /\ at \in 1 .. 4 /\ call(address.sub, 191).body = Bytes(reading, 2, at)
  BY <1>1, AddressCalled DEF IndInv, AddressRead
<1>3. /\ inner \in Substate /\ inner.lineno = 191
      /\ inner.body = Bytes(reading, 2, at + 1) /\ Len(inner.body) = at + 2 - 2
  <2>1. 191 \in InnerLines /\ 2 \in Nat \ {0} /\ 2 <= at + 1
    BY <1>2 DEF InnerLines
  <2> QED BY <1>1, <1>2, <2>1, InnerByte
<1> HIDE DEF inner
<1>4. CASE Len(inner.body) < 4
  <2>1. /\ address' \in AddressState /\ address'.step = 1 /\ address'.sub = inner
    BY <1>1, <1>2, <1>3, <1>4 DEF AddressState
  <2>2. call(inner, 191) = inner
    BY <1>3 DEF call
  <2>3. at + 1 \in 1 .. 4
    BY <1>2, <1>3, <1>4
  <2> QED BY <1>1, <1>3, <2>1, <2>2, <2>3, AddressGoesOn
<1>5. CASE ~(Len(inner.body) < 4)
  <2>1. /\ address' \in AddressState /\ address'.step = 2 /\ address'.sub = inner
    BY <1>1, <1>2, <1>3, <1>5 DEF AddressState
  <2>2. call(inner, 224).body = << >>
    BY <1>3 DEF call, NewCall
  <2>3. at + 1 = 5 /\ at + 1 \in 5 .. 40 /\ at + 1 \in Nat
    BY <1>2, <1>3, <1>5
  <2>4. Bytes(reading, 6, at + 1) = << >>
    <3>1. 6 = 5 + 1 /\ 5 \in Nat
      OBVIOUS
    <3> QED BY <2>3, <3>1, NoBytes
  <2> QED BY <1>1, <2>1, <2>2, <2>3, <2>4, AddressGoesOn
<1> QED BY <1>4, <1>5

LEMMA StringSteps == IndInv /\ address_string => IndInv'
<1> SUFFICES ASSUME IndInv, address_string PROVE IndInv'
  OBVIOUS
<1> DEFINE inner == Inner(224, address.sub)
<1>1. /\ address_called /\ ThisAddress.step = 2
      /\ address.type = "string" /\ address.length = HASH_SIZE_B58
      /\ address' = [address EXCEPT !.sub = inner]
      /\ IF Len(inner.body) < HASH_SIZE_B58 THEN ReadsOn ELSE Ends({}, {}, inner.body)
  BY DEF address_string
<1>2. /\ address \in AddressState /\ address.step = 2
      /\ at \in 5 .. 40 /\ call(address.sub, 224).body = Bytes(reading, 6, at)
  BY <1>1, AddressCalled DEF IndInv, AddressRead
<1>3. /\ inner \in Substate /\ inner.lineno = 224
      /\ inner.body = Bytes(reading, 6, at + 1) /\ Len(inner.body) = at + 2 - 6
  <2>1. 224 \in InnerLines /\ 6 \in Nat \ {0} /\ 6 <= at + 1
    BY <1>2 DEF InnerLines
  <2> QED BY <1>1, <1>2, <2>1, InnerByte
<1> HIDE DEF inner
<1>4. /\ address' \in AddressState /\ address'.step = 2 /\ address'.sub = inner
  BY <1>1, <1>2, <1>3 DEF AddressState
<1>5. CASE Len(inner.body) < HASH_SIZE_B58
  <2>1. call(inner, 224) = inner
    BY <1>3 DEF call
  <2>2. at + 1 \in 5 .. 40
    BY <1>2, <1>3, <1>5 DEF HASH_SIZE_B58
  <2> QED BY <1>1, <1>3, <1>4, <1>5, <2>1, <2>2, AddressGoesOn
<1>6. CASE ~(Len(inner.body) < HASH_SIZE_B58)
  <2>1. at + 1 = 5 + HASH_SIZE_B58
    BY <1>2, <1>3, <1>6 DEF HASH_SIZE_B58
  <2>2. Yields({}, {}, inner.body)
    BY <1>1, <1>3, <2>1, AddressCalled DEF Yields
  <2> QED BY <1>1, <1>4, <1>6, <2>2, AddressCalled, FieldEnds
<1> QED BY <1>5, <1>6

\* An address given in bytes never ends.
LEMMA BytesSteps == IndInv /\ address_bytes => IndInv'
<1> SUFFICES ASSUME IndInv, address_bytes PROVE IndInv'
  OBVIOUS
<1> DEFINE curve == Inner(207, address.sub)
           hash == Inner(212, curve)
<1>1. /\ address_called /\ ThisAddress.step = 2
      /\ address.type = "bytes" /\ address' = [address EXCEPT !.sub = hash]
      /\ IF Len(hash.body) < HASH_SIZE THEN ReadsOn ELSE Ends({}, {}, hash.body)
  BY DEF address_bytes
<1>2. /\ address = ThisAddress /\ address \in AddressState /\ address.step = 2
      /\ <<reading, at + 1>> \in Byte
  BY <1>1, AddressCalled
<1>3. curve \in Substate /\ curve.lineno = 207
  <2>1. address.sub \in Substate /\ 207 \in InnerLines
    BY <1>2 DEF AddressState, InnerLines
  <2> QED BY <1>2, <2>1, ByteRead DEF Inner
<1> HIDE DEF curve
<1>4. hash \in Substate /\ hash.body = Append(<< >>, <<reading, at + 1>>)
  <2>1. 212 \in InnerLines /\ call(curve, 212).body = << >>
    BY <1>3 DEF InnerLines, call, NewCall
  <2> QED BY <1>2, <1>3, <2>1, ByteRead DEF Inner
<1>5. Len(hash.body) < HASH_SIZE
  <2>1. Len(Append(<< >>, <<reading, at + 1>>)) = 1
    OBVIOUS
  <2> HIDE DEF hash
  <2> QED BY <1>4, <2>1 DEF HASH_SIZE
<1> HIDE DEF hash
<1>6. /\ address' \in AddressState /\ address'.step = 2 /\ address'.type = "bytes"
  BY <1>1, <1>2, <1>4 DEF AddressState
<1>7. address_called /\ ReadsOn /\ address'.step # 0 /\ address'.step # 1
  BY <1>1, <1>5, <1>6
<1>8. ~ (address'.type = "string")
  BY <1>6
<1> QED BY <1>6, <1>7, <1>8, AddressGoesOn

-----------------------------------------------------------------------------
(* The theorems.                                                           *)

LEMMA Steps == IndInv /\ [Next]_vars => IndInv'
<1> SUFFICES ASSUME IndInv, [Next]_vars PROVE IndInv'
  OBVIOUS
<1>1. CASE UNCHANGED vars
  BY <1>1 DEF vars, IndInv, Typed, NumberRead, SizedRead, AddressRead, FieldsAreRead,
     State, ThisAddress
<1>2. CASE Next
  BY <1>2, Restarts, Refusals, PlainSteps, SignedSteps, SizedSteps, TypeSteps,
     LengthSteps, StringSteps, BytesSteps, Zenon DEF Next, michelson_read_address
<1> QED BY <1>1, <1>2

\* What the union holds for the next byte is what this field has had, after
\* any bytes, and any session cut off by another.
THEOREM Inductive == Spec => []IndInv
BY Starts, Steps, PTL DEF Spec

\* No field is read from another's bytes, or from a part of its own.
THEOREM FieldsRead == Spec => []FieldsAreRead
BY Inductive, PTL DEF IndInv

\* Every amount that is read is shown as that amount, digit by digit, and
\* fits the buffers.
THEOREM ReadBack == Spec => []ShownReadsBack
BY ReadsBack, PTL

=============================================================================
