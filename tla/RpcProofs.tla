------------------------------- MODULE RpcProofs -------------------------------
(***************************************************************************)
(* What marshall and unmarshall do to the messages of Rpc, for every width *)
(* of a byte and of an int, and from it that the calls are right: the      *)
(* method gets the arguments of the call and the client its result.        *)
(*                                                                         *)
(* Induction is by the least element of a set, which the library's WFMin   *)
(* gives; its consequence RecursionOn is that the recursive functions of   *)
(* Marshall exist.                                                         *)
(***************************************************************************)
EXTENDS Rpc, WellFoundedInduction, SequenceTheorems, TLAPS

-----------------------------------------------------------------------------
(* Induction and recursion.                                                *)

LEMMA DivMod ==
  ASSUME NEW a \in Nat, NEW n \in Nat \ {0}
  PROVE  a = n * (a \div n) + (a % n) /\ a \div n \in Nat /\ a % n \in 0..(n - 1)
  OBVIOUS

USE WidthAssumption

LEMMA LeastElement == ASSUME NEW S \in SUBSET Nat, S # {} PROVE \E x \in S : \A y \in S : x <= y
<1> DEFINE R == {ss \in Nat \X Nat : ss[1] < ss[2]}
<1>1. OpToRel(<, Nat) = R
  BY Zenon DEF OpToRel
<1>2. IsWellFoundedOn(R, Nat)
  BY <1>1, NatLessThanWellFounded, Zenon
<1>3. PICK x \in S : \A y \in S : ~(<<y, x>> \in R)
  BY <1>2, WFMin
<1>4. ASSUME NEW y \in S PROVE x <= y
  <2>1. x \in Nat /\ y \in Nat /\ ~(<<y, x>> \in R)
    BY <1>3
  <2> QED
    BY <2>1
<1> QED
  BY <1>4

LEMMA InductionOn == ASSUME NEW S, 0 \in S, \A n \in Nat : n \in S => n + 1 \in S PROVE Nat \subseteq S
<1> SUFFICES ASSUME Nat \ S # {} PROVE FALSE
  OBVIOUS
<1>1. PICK x \in Nat \ S : \A y \in Nat \ S : x <= y
  BY LeastElement
<1>2. x # 0 /\ x - 1 \in Nat
  OBVIOUS
<1>3. x - 1 \in S
  BY <1>1, <1>2
<1> QED
  BY <1>2, <1>3

LEMMA InductionUpTo ==
  ASSUME NEW S, NEW w \in Nat, 0 \in S, \A k \in 0..(w - 1) : k \in S => k + 1 \in S
  PROVE  0..w \subseteq S
<1> DEFINE T == {k \in Nat : k <= w => k \in S}
<1>1. 0 \in T
  OBVIOUS
<1>2. ASSUME NEW k \in Nat, k \in T PROVE k + 1 \in T
  BY <1>2
<1> HIDE DEF T
<1>3. Nat \subseteq T
  BY <1>1, <1>2, InductionOn
<1> QED
  BY <1>3 DEF T

(* g starts with a and goes on with f.                                     *)
Steps(w, S) == [0..w -> [S -> S]]
Follows(g, w, S, a, f) == g \in [0..w -> S] /\ g[0] = a /\ \A k \in 1..w : g[k] = f[k][g[k - 1]]
LEMMA RecursionOn ==
  ASSUME NEW w \in Nat, NEW S, NEW a \in S, NEW f \in Steps(w, S) PROVE \E g : Follows(g, w, S, a, f)
<1> DEFINE Upto(n, g) == g[0] = a /\ \A k \in 1..n : g[k] = f[k][g[k - 1]]
           T == {n \in Nat : n <= w => \E g \in [0..w -> S] : Upto(n, g)}
<1>1. 0 \in T
  <2>1. [k \in 0..w |-> a] \in [0..w -> S] /\ Upto(0, [k \in 0..w |-> a])
    OBVIOUS
  <2> QED
    BY <2>1
<1>2. ASSUME NEW n \in Nat, n \in T, n + 1 <= w PROVE n + 1 \in T
  <2>1. PICK g \in [0..w -> S] : Upto(n, g)
    BY <1>2
  <2> DEFINE h == [k \in 0..w |-> IF k = n + 1 THEN f[n + 1][g[n]] ELSE g[k]]
  <2>2. h \in [0..w -> S]
    <3>1. n + 1 \in 0..w /\ g[n] \in S
      BY <1>2
    <3> QED
      BY <3>1 DEF Steps
  <2>3. h[0] = a /\ h[n + 1] = f[n + 1][h[n]]
    <3>1. n \in 0..w /\ n + 1 \in 0..w /\ n # n + 1 /\ 0 \in 0..w /\ 0 # n + 1
      BY <1>2
    <3>2. h[0] = g[0] /\ h[n] = g[n] /\ h[n + 1] = f[n + 1][g[n]]
      BY <3>1 DEF Steps
    <3> HIDE DEF h
    <3> QED
      BY <2>1, <3>2
  <2>4. \A k \in 1..n : h[k] = g[k] /\ h[k - 1] = g[k - 1]
    BY <1>2
  <2> HIDE DEF h
  <2>5. \A k \in 1..n : h[k] = f[k][h[k - 1]]
    BY <2>1, <2>4
  <2>6. Upto(n + 1, h)
    <3>1. ASSUME NEW k \in 1..(n + 1) PROVE h[k] = f[k][h[k - 1]]
      <4>1. k \in 1..n \/ (k = n + 1 /\ k - 1 = n)
        OBVIOUS
      <4> QED
        BY <2>3, <2>5, <4>1
    <3> QED
      BY <2>3, <3>1
  <2> QED
    BY <2>2, <2>6
<1>3. ASSUME NEW n \in Nat, n \in T PROVE n + 1 \in T
  <2>1. CASE n + 1 <= w
    BY <1>2, <1>3, <2>1
  <2>2. CASE ~(n + 1 <= w)
    BY <2>2
  <2> QED
    BY <2>1, <2>2
<1> HIDE DEF T
<1>4. w \in T
  BY <1>1, <1>3, InductionOn
<1> QED
  BY <1>4 DEF T, Follows

-----------------------------------------------------------------------------
(* Numbers and their bytes.                                                *)

(* The powers of Base, up to the w-th.                                     *)
Positive == Nat \ {0}
LEMMA Powers ==
  ASSUME NEW w \in Nat
  PROVE  \E p \in [0..w -> Positive] :
           p[0] = 1 /\ (\A k \in 1..w : p[k] = Base * p[k - 1]) /\ Power(w) = p[w]
<1> DEFINE Is(p) == p = [k \in 0..w |-> IF k = 0 THEN 1 ELSE Base * p[k - 1]]
           f == [k \in 0..w |-> [y \in Positive |-> Base * y]]
<1>1. 1 \in Positive /\ \A y \in Positive : Base * y \in Positive
  BY DEF Positive
<1>2. f \in Steps(w, Positive)
  BY <1>1 DEF Steps
<1>3. PICK g : Follows(g, w, Positive, 1, f)
  <2> HIDE DEF f
  <2> QED
    BY <1>1, <1>2, RecursionOn
<1>4. ASSUME NEW k \in 1..w PROVE g[k] = Base * g[k - 1]
  <2>1. k \in 0..w /\ g[k - 1] \in Positive
    BY <1>3 DEF Follows
  <2>2. f[k][g[k - 1]] = Base * g[k - 1]
    BY <2>1
  <2> QED
    BY <1>3, <2>2 DEF Follows
<1>5. Is(g)
  BY <1>3, <1>4 DEF Follows
<1> DEFINE p == CHOOSE p : Is(p)
<1>6. Is(p)
  BY <1>5
<1>7. Power(w) = p[w]
  BY DEF Power
<1> HIDE DEF p
<1>8. p[0] = 1 /\ DOMAIN p = 0..w /\ \A k \in 1..w : p[k] = Base * p[k - 1]
  BY <1>6
<1>9. \A k \in 0..w : p[k] \in Positive
  <2> DEFINE T == {k \in Nat : p[k] \in Positive}
  <2>1. 0 \in T
    BY <1>1, <1>8
  <2>2. ASSUME NEW k \in 0..(w - 1), k \in T PROVE k + 1 \in T
    BY <1>1, <1>8, <2>2
  <2> HIDE DEF T
  <2>3. 0..w \subseteq T
    BY <2>1, <2>2, InductionUpTo
  <2> QED
    BY <2>3 DEF T
<1> QED
  BY <1>6, <1>7, <1>8, <1>9

(* A shift by one byte, and the byte that is lost.                         *)
Shift(n) == n \div Base
Low(n) == n % Base
LEMMA ShiftFacts ==
  ASSUME NEW n \in Nat
  PROVE  Shift(n) \in Nat /\ Low(n) \in Byte /\ n = Base * (Shift(n)) + (Low(n))
<1>1. Base \in Nat \ {0}
  OBVIOUS
<1> HIDE WidthAssumption
<1>2. n = Base * (Shift(n)) + (Low(n))
  BY <1>1, DivMod DEF Shift, Low
<1>3. Shift(n) \in Nat
  BY <1>1, DivMod DEF Shift
<1>4. Low(n) \in Byte
  BY <1>1, DivMod DEF Byte, Low
<1> QED
  BY <1>2, <1>3, <1>4, Zenon

LEMMA ShiftUnique ==
  ASSUME NEW a \in Nat, NEW b \in Byte
  PROVE  /\ a * Base + b \in Nat /\ Shift(a * Base + b) = a /\ Low(a * Base + b) = b
  BY Z3 DEF Byte, Shift, Low

LEMMA ShiftBound ==
  ASSUME NEW a \in Nat, NEW p \in Nat, NEW b \in Byte
  PROVE  a * Base + b < Base * p <=> a < p
  BY Z3 DEF Byte

(* n without its last k bytes, for every k.                                *)
Shifts(n, w, q) ==
  /\ q \in [0..w -> Nat] /\ q[0] = n /\ \A k \in 1..w : q[k] = Shift(q[k - 1])
  /\ Digits(n, w) = [k \in 1..w |-> Low(q[w - k])]
LEMMA ShiftsIs == ASSUME NEW n \in Nat, NEW w \in Nat PROVE \E q : Shifts(n, w, q)
<1> DEFINE Is(q) == q = [k \in 0..w |-> IF k = 0 THEN n ELSE Shift(q[k - 1])]
           f == [k \in 0..w |-> [y \in Nat |-> Shift(y)]]
<1>1. f \in Steps(w, Nat)
  BY ShiftFacts DEF Steps
<1>2. PICK g : Follows(g, w, Nat, n, f)
  <2> HIDE DEF f
  <2> QED
    BY <1>1, RecursionOn
<1>3. ASSUME NEW k \in 1..w PROVE g[k] = Shift(g[k - 1])
  <2>1. k \in 0..w /\ g[k - 1] \in Nat
    BY <1>2 DEF Follows
  <2>2. f[k][g[k - 1]] = Shift(g[k - 1])
    BY <2>1
  <2> QED
    BY <1>2, <2>2 DEF Follows
<1>4. Is(g)
  BY <1>2, <1>3 DEF Follows
<1> DEFINE q == CHOOSE q : Is(q)
<1>5. Is(q)
  BY <1>4
<1>6. Digits(n, w) = [k \in 1..w |-> Low(q[w - k])]
  BY DEF Digits, Shift, Low
<1> HIDE DEF q
<1>7. q[0] = n /\ DOMAIN q = 0..w /\ \A k \in 1..w : q[k] = Shift(q[k - 1])
  BY <1>5
<1>8. \A k \in 0..w : q[k] \in Nat
  <2> DEFINE T == {k \in Nat : q[k] \in Nat}
  <2>1. 0 \in T
    BY <1>7
  <2>2. ASSUME NEW k \in 0..(w - 1), k \in T PROVE k + 1 \in T
    <3>1. q[k + 1] = Shift(q[k])
      BY <1>7
    <3> QED
      BY <2>2, <3>1, ShiftFacts
  <2> HIDE DEF T
  <2>3. 0..w \subseteq T
    BY <2>1, <2>2, InductionUpTo
  <2> QED
    BY <2>3 DEF T
<1> QED
  BY <1>5, <1>6, <1>7, <1>8 DEF Shifts

(* The values of the first k bytes, for every k.                           *)
Values(bytes, v) ==
  /\ v \in [0..Len(bytes) -> Nat] /\ v[0] = 0 /\ \A k \in 1..Len(bytes) : v[k] = v[k - 1] * Base + bytes[k]
  /\ Value(bytes) = v[Len(bytes)]
LEMMA ValuesIs == ASSUME NEW bytes \in Seq(Byte) PROVE \E v : Values(bytes, v)
<1> DEFINE w == Len(bytes)
           Is(v) == v = [k \in 0..w |-> IF k = 0 THEN 0 ELSE v[k - 1] * Base + bytes[k]]
           f == [k \in 0..w |-> [y \in Nat |-> IF k = 0 THEN 0 ELSE y * Base + bytes[k]]]
<1>1. w \in Nat /\ \A k \in 1..w : bytes[k] \in Nat
  BY DEF Byte
<1>2. \A k \in 1..w, y \in Nat : y * Base + bytes[k] \in Nat
  BY <1>1
<1>3. f \in Steps(w, Nat)
  <2>1. \A k \in 0..w, y \in Nat : (IF k = 0 THEN 0 ELSE y * Base + bytes[k]) \in Nat
    BY <1>1, <1>2
  <2> HIDE DEF w
  <2> QED
    BY <2>1 DEF Steps
<1>4. PICK g : Follows(g, w, Nat, 0, f)
  <2> HIDE DEF f, w
  <2> QED
    BY <1>1, <1>3, RecursionOn
<1>5. ASSUME NEW k \in 1..w PROVE g[k] = g[k - 1] * Base + bytes[k]
  <2>1. k \in 0..w /\ k # 0 /\ g[k - 1] \in Nat
    BY <1>1, <1>4 DEF Follows
  <2>2. f[k][g[k - 1]] = g[k - 1] * Base + bytes[k]
    BY <2>1
  <2> QED
    BY <1>4, <2>2 DEF Follows
<1>6. Is(g)
  BY <1>4, <1>5 DEF Follows
<1> DEFINE v == CHOOSE v : Is(v)
<1>7. Is(v)
  BY <1>6
<1>8. Value(bytes) = v[w]
  BY DEF Value
<1> HIDE DEF v
<1>9. v[0] = 0 /\ DOMAIN v = 0..w /\ \A k \in 1..w : v[k] = v[k - 1] * Base + bytes[k]
  BY <1>1, <1>7
<1>10. \A k \in 0..w : v[k] \in Nat
  <2> DEFINE T == {k \in Nat : v[k] \in Nat}
  <2>1. 0 \in T
    BY <1>9
  <2>2. ASSUME NEW k \in 0..(w - 1), k \in T PROVE k + 1 \in T
    <3>1. k + 1 \in 1..w /\ v[k + 1] = v[k] * Base + bytes[k + 1]
      BY <1>1, <1>9
    <3>2. v[k] \in Nat /\ bytes[k + 1] \in Nat /\ k + 1 \in Nat
      BY <1>1, <2>2, <3>1
    <3>3. v[k] * Base + bytes[k + 1] \in Nat
      BY <3>2
    <3> QED
      BY <3>1, <3>2, <3>3
  <2> HIDE DEF T
  <2>3. 0..w \subseteq T
    BY <1>1, <2>1, <2>2, InductionUpTo
  <2> QED
    BY <2>3 DEF T
<1> QED
  BY <1>7, <1>8, <1>9, <1>10 DEF Values

LEMMA DigitsType ==
  ASSUME NEW n \in Nat, NEW w \in Nat
  PROVE  /\ Digits(n, w) \in Seq(Byte) /\ Len(Digits(n, w)) = w /\ DOMAIN Digits(n, w) = 1..w
         /\ \A k \in 1..w : Digits(n, w)[k] \in Byte
<1>1. PICK q : Shifts(n, w, q)
  BY ShiftsIs
<1>2. \A k \in 1..w : Low(q[w - k]) \in Byte
  <2>1. \A k \in 1..w : q[w - k] \in Nat
    BY <1>1 DEF Shifts
  <2> QED
    BY <2>1, ShiftFacts
<1>3. Digits(n, w) = [k \in 1..w |-> Low(q[w - k])]
  BY <1>1 DEF Shifts
<1> QED
  BY <1>2, <1>3

(* A number is the value of its digits.                                    *)
LEMMA ValueOfDigits ==
  ASSUME NEW n \in Nat, NEW w \in Nat, n < Power(w) PROVE Value(Digits(n, w)) = n
<1> DEFINE d == Digits(n, w)
<1>1. PICK q : Shifts(n, w, q)
  BY ShiftsIs
<1>2. PICK p \in [0..w -> Positive] : p[0] = 1 /\ (\A k \in 1..w : p[k] = Base * p[k - 1]) /\ Power(w) = p[w]
  BY Powers
<1>3. d \in Seq(Byte) /\ Len(d) = w
  BY DigitsType
<1>4. PICK v : Values(d, v)
  BY <1>3, ValuesIs
<1>5. /\ q[0] = n /\ \A k \in 0..w : q[k] \in Nat
      /\ \A k \in 1..w : q[k] = Shift(q[k - 1])
      /\ \A k \in 1..w : d[k] = Low(q[w - k])
  BY <1>1 DEF Shifts
<1>6. /\ v[0] = 0 /\ Value(d) = v[w]
      /\ \A k \in 1..w : v[k] = v[k - 1] * Base + d[k]
  BY <1>3, <1>4 DEF Values
<1> HIDE DEF d
<1>7. ASSUME NEW k \in 0..(w - 1)
      PROVE  /\ q[k] = q[k + 1] * Base + Low(q[k]) /\ Low(q[k]) \in Byte
             /\ q[k] \in Nat /\ q[k + 1] \in Nat
  <2>1. q[k + 1] = Shift(q[k]) /\ q[k] \in Nat /\ q[k + 1] \in Nat
    BY <1>5
  <2>2. q[k] = Base * q[k + 1] + Low(q[k]) /\ Low(q[k]) \in Byte
    BY <2>1, ShiftFacts
  <2> DEFINE x == q[k + 1]
             y == Low(q[k])
  <2>3. x \in Nat /\ Base * x = x * Base
    BY <2>1
  <2> QED
    BY <2>1, <2>2, <2>3
<1>8. \A k \in 0..w : q[k] < p[w - k]
  <2> DEFINE T == {k \in 0..w : q[k] < p[w - k]}
  <2>1. 0 \in T
    BY <1>2, <1>5
  <2>2. ASSUME NEW k \in 0..(w - 1), k \in T PROVE k + 1 \in T
    <3>1. p[w - k] = Base * p[w - (k + 1)] /\ p[w - (k + 1)] \in Nat
      <4>1. w - k \in 1..w /\ (w - k) - 1 = w - (k + 1) /\ w - (k + 1) \in 0..w
        OBVIOUS
      <4> QED
        BY <1>2, <4>1 DEF Positive
    <3>2. q[k + 1] * Base + Low(q[k]) < Base * p[w - (k + 1)]
      BY <1>7, <2>2, <3>1
    <3>3. q[k + 1] < p[w - (k + 1)]
      BY <1>7, <3>1, <3>2, ShiftBound
    <3> QED
      BY <3>3
  <2> HIDE DEF T
  <2>3. 0..w \subseteq T
    BY <2>1, <2>2, InductionUpTo
  <2> QED
    BY <2>3 DEF T
<1>9. q[w] = 0
  <2>1. w \in 0..w /\ w - w = 0
    OBVIOUS
  <2> QED
    BY <1>2, <1>5, <1>8, <2>1
<1>10. \A k \in 0..w : v[k] = q[w - k]
  <2> DEFINE T == {k \in 0..w : v[k] = q[w - k]}
  <2>1. 0 \in T
    BY <1>6, <1>9
  <2>2. ASSUME NEW k \in 0..(w - 1), k \in T PROVE k + 1 \in T
    <3> DEFINE j == w - (k + 1)
    <3>1. j \in 0..(w - 1) /\ j + 1 = w - k /\ k + 1 \in 1..w
      OBVIOUS
    <3>2. v[k + 1] = v[k] * Base + d[k + 1] /\ d[k + 1] = Low(q[j])
      BY <1>5, <1>6, <3>1
    <3>3. v[k] = q[j + 1]
      BY <2>2, <3>1
    <3>4. q[j] = q[j + 1] * Base + Low(q[j])
      BY <1>7, <3>1
    <3> HIDE DEF j
    <3>5. v[k + 1] = q[j]
      BY <3>2, <3>3, <3>4
    <3> QED
      BY <3>5 DEF j
  <2> HIDE DEF T
  <2>3. 0..w \subseteq T
    BY <2>1, <2>2, InductionUpTo
  <2> QED
    BY <2>3 DEF T
<1> QED
  BY <1>5, <1>6, <1>10 DEF d

(* And bytes are the digits of their value.                                *)
LEMMA DigitsOfValue ==
  ASSUME NEW bytes \in Seq(Byte)
  PROVE  /\ Value(bytes) \in Nat /\ Value(bytes) < Power(Len(bytes))
         /\ Digits(Value(bytes), Len(bytes)) = bytes
<1> DEFINE w == Len(bytes)
           n == Value(bytes)
<1>1. PICK v : Values(bytes, v)
  BY ValuesIs
<1>2. /\ v[0] = 0 /\ n = v[w] /\ w \in Nat /\ \A k \in 0..w : v[k] \in Nat
      /\ \A k \in 1..w : v[k] = v[k - 1] * Base + bytes[k] /\ bytes[k] \in Byte
  <2>1. \A k \in 1..w : bytes[k] \in Byte
    OBVIOUS
  <2> QED
    BY <1>1, <2>1 DEF Values
<1>3. bytes = [k \in 1..w |-> bytes[k]]
  OBVIOUS
<1> HIDE DEF w, n
<1>4. n \in Nat
  BY <1>2
<1>5. PICK q : Shifts(n, w, q)
  BY <1>2, <1>4, ShiftsIs
<1>6. PICK p \in [0..w -> Positive] : p[0] = 1 /\ (\A k \in 1..w : p[k] = Base * p[k - 1]) /\ Power(w) = p[w]
  BY <1>2, Powers
<1>7. ASSUME NEW k \in 0..(w - 1)
      PROVE  /\ v[k + 1] = v[k] * Base + bytes[k + 1] /\ v[k] \in Nat /\ bytes[k + 1] \in Byte
             /\ Shift(v[k + 1]) = v[k] /\ Low(v[k + 1]) = bytes[k + 1]
  <2>1. v[k + 1] = v[k] * Base + bytes[k + 1] /\ v[k] \in Nat /\ bytes[k + 1] \in Byte
    BY <1>2
  <2> QED
    BY <2>1, ShiftUnique
<1>8. \A k \in 0..w : v[k] < p[k]
  <2> DEFINE T == {k \in 0..w : v[k] < p[k]}
  <2>1. 0 \in T
    BY <1>2, <1>6
  <2>2. ASSUME NEW k \in 0..(w - 1), k \in T PROVE k + 1 \in T
    <3>1. p[k + 1] = Base * p[k] /\ p[k] \in Nat
      BY <1>2, <1>6 DEF Positive
    <3>2. v[k] * Base + bytes[k + 1] < Base * p[k]
      BY <1>7, <2>2, <3>1, ShiftBound
    <3>3. v[k + 1] < p[k + 1]
      BY <1>7, <3>1, <3>2
    <3> QED
      BY <1>2, <3>3
  <2> HIDE DEF T
  <2>3. 0..w \subseteq T
    BY <1>2, <2>1, <2>2, InductionUpTo
  <2> QED
    BY <2>3 DEF T
<1>9. \A k \in 0..w : q[k] = v[w - k]
  <2> DEFINE T == {k \in 0..w : q[k] = v[w - k]}
  <2>1. 0 \in T
    BY <1>2, <1>5 DEF Shifts
  <2>2. ASSUME NEW k \in 0..(w - 1), k \in T PROVE k + 1 \in T
    <3> DEFINE j == w - (k + 1)
    <3>1. j \in 0..(w - 1) /\ j + 1 = w - k /\ k + 1 \in 1..w
      BY <1>2
    <3>2. q[k + 1] = Shift(q[k])
      BY <1>5, <3>1 DEF Shifts
    <3>3. q[k] = v[j + 1]
      BY <2>2, <3>1
    <3>4. Shift(v[j + 1]) = v[j]
      BY <1>7, <3>1
    <3> HIDE DEF j
    <3>5. q[k + 1] = v[j]
      BY <3>2, <3>3, <3>4
    <3> QED
      BY <3>1, <3>5 DEF j
  <2> HIDE DEF T
  <2>3. 0..w \subseteq T
    BY <1>2, <2>1, <2>2, InductionUpTo
  <2> QED
    BY <2>3 DEF T
<1>10. ASSUME NEW k \in 1..w PROVE Low(q[w - k]) = bytes[k]
  <2>1. w - k \in 0..w /\ w - (w - k) = k /\ k - 1 \in 0..(w - 1) /\ (k - 1) + 1 = k
    BY <1>2
  <2>2. q[w - k] = v[k] /\ Low(v[k]) = bytes[k]
    BY <1>7, <1>9, <2>1
  <2> QED
    BY <2>2
<1>11. Digits(n, w) = [k \in 1..w |-> Low(q[w - k])]
  BY <1>5 DEF Shifts
<1>12. Digits(n, w) = bytes
  BY <1>3, <1>10, <1>11
<1> QED
  BY <1>2, <1>4, <1>6, <1>8, <1>12 DEF w, n

-----------------------------------------------------------------------------
(* Bytes at the end of a message, and bytes in one.                        *)
Cell == Byte \cup {Uninit}
AtEnd(m) == m \in [buf : Seq(Cell), ind : Nat] /\ m.ind = Len(m.buf)
Add(m, s) == [buf |-> m.buf \o s, ind |-> m.ind + Len(s)]
At(b, i, s) == i + Len(s) <= Len(b) /\ \A k \in 1..Len(s) : b[i + k] = s[k]
U(b, i) == [buf |-> b, ind |-> i, ok |-> TRUE]

LEMMA AddAtEnd ==
  ASSUME NEW m, AtEnd(m), NEW s \in Seq(Byte)
  PROVE  /\ AtEnd(Add(m, s)) /\ Add(m, s).ind = m.ind + Len(s) /\ m.ind \in Nat
         /\ \A k \in 1..m.ind : Add(m, s).buf[k] = m.buf[k]
         /\ \A k \in 1..Len(s) : Add(m, s).buf[m.ind + k] = s[k]
<1>1. m.buf \in Seq(Cell) /\ s \in Seq(Cell) /\ m.ind = Len(m.buf)
  BY DEF AtEnd, Cell
<1> QED
  BY <1>1 DEF AtEnd, Add

LEMMA RawAdds ==
  ASSUME NEW m, AtEnd(m), NEW s \in Seq(Byte) PROVE RawBytes(m, s) = Add(m, s)
<1>1. m.buf \in Seq(Cell) /\ s \in Seq(Cell) /\ m.ind = Len(m.buf)
  BY DEF AtEnd, Cell
<1> DEFINE n == Len(m.buf)
           e == n + Len(s)
           raw == [k \in 1..(IF e > n THEN e ELSE n) |-> IF k \in (n + 1)..e THEN s[k - n] ELSE m.buf[k]]
<1>2. RawBytes(m, s) = [buf |-> raw, ind |-> e]
  BY <1>1 DEF RawBytes
<1>3. raw = m.buf \o s
  <2>1. (IF e > n THEN e ELSE n) = e /\ Len(m.buf \o s) = e /\ n \in Nat /\ Len(s) \in Nat
    BY <1>1
  <2>2. DOMAIN (m.buf \o s) = 1..e /\ DOMAIN raw = 1..e
    BY <1>1, <2>1
  <2>3. ASSUME NEW k \in 1..e PROVE raw[k] = (m.buf \o s)[k]
    BY <1>1, <2>1
  <2>4. raw = [k \in 1..e |-> raw[k]] /\ (m.buf \o s) = [k \in 1..e |-> (m.buf \o s)[k]]
    BY <1>1, <2>1, <2>2
  <2> HIDE DEF raw
  <2> QED
    BY <2>3, <2>4
<1> QED
  BY <1>1, <1>2, <1>3 DEF Add

LEMMA AtJoin ==
  ASSUME NEW B, NEW b \in Seq(B), NEW i \in Nat, NEW s \in Seq(Byte), NEW t \in Seq(Byte)
  PROVE  At(b, i, s \o t) <=> At(b, i, s) /\ At(b, i + Len(s), t)
<1>1. Len(s \o t) = Len(s) + Len(t) /\ Len(s) \in Nat /\ Len(t) \in Nat /\ Len(b) \in Nat
  OBVIOUS
<1>2. \A k \in 1..Len(s) : (s \o t)[k] = s[k] /\ k \in 1..Len(s \o t)
  BY <1>1
<1>3. \A k \in 1..Len(t) : (s \o t)[Len(s) + k] = t[k] /\ Len(s) + k \in 1..Len(s \o t) /\ i + (Len(s) + k) = (i + Len(s)) + k
  BY <1>1
<1>4. \A k \in 1..Len(s \o t) : k \in 1..Len(s) \/ (k - Len(s) \in 1..Len(t) /\ k = Len(s) + (k - Len(s)))
  BY <1>1
<1>5. ASSUME At(b, i, s \o t) PROVE At(b, i, s) /\ At(b, i + Len(s), t)
  <2>1. i + Len(s) <= Len(b) /\ (i + Len(s)) + Len(t) <= Len(b)
    BY <1>1, <1>5 DEF At
  <2>2. ASSUME NEW k \in 1..Len(s) PROVE b[i + k] = s[k]
    BY <1>2, <1>5 DEF At
  <2>3. ASSUME NEW k \in 1..Len(t) PROVE b[(i + Len(s)) + k] = t[k]
    <3>1. b[i + (Len(s) + k)] = (s \o t)[Len(s) + k]
      BY <1>3, <1>5 DEF At
    <3> QED
      BY <1>3, <3>1
  <2> QED
    BY <2>1, <2>2, <2>3 DEF At
<1>6. ASSUME At(b, i, s), At(b, i + Len(s), t) PROVE At(b, i, s \o t)
  <2>1. i + Len(s \o t) <= Len(b)
    BY <1>1, <1>6 DEF At
  <2>2. ASSUME NEW k \in 1..Len(s \o t) PROVE b[i + k] = (s \o t)[k]
    <3>1. CASE k \in 1..Len(s)
      BY <1>2, <1>6, <3>1 DEF At
    <3>2. CASE k - Len(s) \in 1..Len(t) /\ k = Len(s) + (k - Len(s))
      <4> DEFINE j == k - Len(s)
      <4>1. j \in 1..Len(t) /\ k = Len(s) + j /\ b[(i + Len(s)) + j] = t[j]
        BY <1>6, <3>2 DEF At
      <4> HIDE DEF j
      <4> QED
        BY <1>3, <4>1
    <3> QED
      BY <1>4, <3>1, <3>2
  <2> QED
    BY <2>1, <2>2 DEF At
<1> QED
  BY <1>5, <1>6

(* Reading what is there.                                                  *)
LEMMA SkipOk ==
  ASSUME NEW b, NEW i, NEW n, i + n <= Len(b) PROVE Skip(U(b, i), n) = U(b, i + n)
  BY DEF Skip, U

LEMMA BytesAt ==
  ASSUME NEW B, NEW b \in Seq(B), NEW i \in Nat, NEW s \in Seq(Byte), At(b, i, s)
  PROVE  /\ Bytes(U(b, i), Len(s)) = s /\ Skip(U(b, i), Len(s)) = U(b, i + Len(s))
         /\ i + Len(s) \in Nat /\ i + Len(s) <= Len(b)
<1>1. Len(s) \in Nat /\ Len(b) \in Nat /\ i + Len(s) <= Len(b) /\ s = [k \in 1..Len(s) |-> s[k]]
  BY DEF At
<1>2. Bytes(U(b, i), Len(s)) = [k \in 1..Len(s) |-> s[k]]
  BY <1>1 DEF At, Bytes, U
<1> QED
  BY <1>1, <1>2, SkipOk

(* The bytes of b after the header are bytes.                              *)
Sound(b) == b \in Seq(Cell) /\ \A k \in 1..Len(b) : k > RPC_HEADER_SZ => b[k] \in Byte
-----------------------------------------------------------------------------
(* The bytes of a value that is no container.                              *)
Enc(T, v) ==
  CASE T.kind = "int"    -> Digits(v, W)
    [] T.kind = "ull"    -> Digits(v, 2 * W)
    [] T.kind = "string" -> Digits(Len(v), W) \o v
    [] T.kind = "attr"   -> (((Digits(v[1], W) \o Digits(v[2], W)) \o Digits(v[3], W)) \o Digits(v[4], W)) \o Digits(v[5], W)
Plain(T) == T.kind \in {"int", "ull", "string", "attr"}

LEMMA PowerType == \A w \in Nat : Power(w) \in Nat /\ Power(w) > 0
<1> TAKE w \in Nat
<1>1. PICK p \in [0..w -> Positive] : Power(w) = p[w]
  BY Powers
<1> QED
  BY <1>1 DEF Positive

LEMMA WordType == Word \in Nat /\ Word > 0 /\ W \in Nat /\ 2 * W \in Nat /\ Word = Power(W)
  BY PowerType DEF Word

LEMMA JoinedTwice ==
  ASSUME NEW b \in Seq(Cell), NEW s \in Seq(Cell), NEW t \in Seq(Cell)
  PROVE  (b \o s) \o t = b \o (s \o t)
  OBVIOUS

LEMMA AddTwice ==
  ASSUME NEW m, AtEnd(m), NEW s \in Seq(Byte), NEW t \in Seq(Byte)
  PROVE  Add(Add(m, s), t) = Add(m, s \o t) /\ s \o t \in Seq(Byte)
<1>1. m.buf \in Seq(Cell) /\ m.ind \in Nat /\ s \in Seq(Cell) /\ t \in Seq(Cell)
  BY DEF AtEnd, Cell
<1>2. (m.buf \o s) \o t = m.buf \o (s \o t)
  <2> DEFINE b == m.buf
  <2>1. b \in Seq(Cell)
    BY <1>1
  <2> HIDE DEF b
  <2>2. (b \o s) \o t = b \o (s \o t)
    BY <1>1, <2>1, JoinedTwice
  <2> QED
    BY <2>2 DEF b
<1>3. (m.ind + Len(s)) + Len(t) = m.ind + Len(s \o t)
  BY <1>1
<1>4. s \o t \in Seq(Byte)
  OBVIOUS
<1> QED
  BY <1>2, <1>3, <1>4 DEF Add

LEMMA PackAdds ==
  ASSUME NEW m, AtEnd(m), NEW v \in 0..(Word - 1)
  PROVE  pack(m, v) = Add(m, Digits(v, W)) /\ Digits(v, W) \in Seq(Byte) /\ AtEnd(pack(m, v))
<1>1. v \in Nat /\ v % Word = v
  BY WordType
<1>2. Digits(v, W) \in Seq(Byte)
  BY <1>1, WordType, DigitsType
<1> QED
  BY <1>1, <1>2, RawAdds, AddAtEnd DEF pack

LEMMA WritePlainIs ==
  ASSUME NEW m, AtEnd(m), NEW T, Plain(T), NEW v, FitsPlain(T, v)
  PROVE  WritePlain(m, T, v) = Add(m, Enc(T, v)) /\ Enc(T, v) \in Seq(Byte)
<1>1. CASE T.kind = "int"
  <2>1. v \in 0..(Word - 1)
    BY <1>1 DEF FitsPlain
  <2> QED
    BY <1>1, <2>1, PackAdds DEF WritePlain, Enc
<1>2. CASE T.kind = "ull"
  <2>1. v \in Nat
    BY <1>2, WordType, PowerType DEF FitsPlain
  <2>2. Digits(v, 2 * W) \in Seq(Byte)
    BY <2>1, WordType, DigitsType
  <2> QED
    BY <1>2, <2>2, RawAdds DEF WritePlain, Enc
<1>3. CASE T.kind = "string"
  <2>1. v \in Seq(Byte) /\ Len(v) \in 0..(Word - 1)
    BY <1>3, WordType DEF FitsPlain
  <2>2. pack(m, Len(v)) = Add(m, Digits(Len(v), W)) /\ Digits(Len(v), W) \in Seq(Byte) /\ AtEnd(pack(m, Len(v)))
    BY <2>1, PackAdds
  <2>3. RawBytes(pack(m, Len(v)), v) = Add(pack(m, Len(v)), v)
    BY <2>1, <2>2, RawAdds
  <2>4. Add(Add(m, Digits(Len(v), W)), v) = Add(m, Enc(T, v)) /\ Enc(T, v) \in Seq(Byte)
    BY <1>3, <2>1, <2>2, AddTwice DEF Enc
  <2> QED
    BY <1>3, <2>2, <2>3, <2>4 DEF WritePlain
<1>4. CASE T.kind = "attr"
  <2>1. \A k \in 1..5 : v[k] \in 0..(Word - 1)
    <3> DEFINE X == 0..(Word - 1)
    <3>1. v \in Seq(X) /\ Len(v) = 5
      BY <1>4 DEF FitsPlain
    <3> HIDE DEF X
    <3>2. \A k \in 1..Len(v) : v[k] \in X
      BY <3>1, ElementOfSeq
    <3> QED
      BY <3>1, <3>2 DEF X
  <2> DEFINE d(k) == Digits(v[k], W)
             m1 == pack(m, v[1])
             m2 == pack(m1, v[2])
             m3 == pack(m2, v[3])
             m4 == pack(m3, v[4])
             m5 == pack(m4, v[5])
  <2>2. v[1] \in 0..(Word - 1) /\ v[2] \in 0..(Word - 1) /\ v[3] \in 0..(Word - 1)
        /\ v[4] \in 0..(Word - 1) /\ v[5] \in 0..(Word - 1)
    BY <2>1
  <2>3. m1 = Add(m, d(1)) /\ d(1) \in Seq(Byte) /\ AtEnd(m1)
    BY <2>2, PackAdds
  <2> HIDE DEF m1
  <2>4. m2 = Add(m1, d(2)) /\ d(2) \in Seq(Byte) /\ AtEnd(m2)
    BY <2>2, <2>3, PackAdds
  <2> HIDE DEF m2
  <2>5. m3 = Add(m2, d(3)) /\ d(3) \in Seq(Byte) /\ AtEnd(m3)
    BY <2>2, <2>4, PackAdds
  <2> HIDE DEF m3
  <2>6. m4 = Add(m3, d(4)) /\ d(4) \in Seq(Byte) /\ AtEnd(m4)
    BY <2>2, <2>5, PackAdds
  <2> HIDE DEF m4
  <2>7. m5 = Add(m4, d(5)) /\ d(5) \in Seq(Byte)
    BY <2>2, <2>6, PackAdds
  <2>8. WritePlain(m, T, v) = m5
    BY <1>4 DEF WritePlain, m1, m2, m3, m4
  <2>9. Enc(T, v) = (((d(1) \o d(2)) \o d(3)) \o d(4)) \o d(5)
    BY <1>4 DEF Enc
  <2> DEFINE e2 == d(1) \o d(2)
             e3 == e2 \o d(3)
             e4 == e3 \o d(4)
             e5 == e4 \o d(5)
  <2> HIDE DEF d, m5
  <2>10. m2 = Add(m, e2) /\ e2 \in Seq(Byte)
    BY <2>3, <2>4, AddTwice
  <2> HIDE DEF e2
  <2>11. m3 = Add(m, e3) /\ e3 \in Seq(Byte)
    BY <2>5, <2>10, AddTwice
  <2> HIDE DEF e3
  <2>12. m4 = Add(m, e4) /\ e4 \in Seq(Byte)
    BY <2>6, <2>11, AddTwice
  <2> HIDE DEF e4
  <2>13. m5 = Add(m, e5) /\ e5 \in Seq(Byte)
    BY <2>7, <2>12, AddTwice
  <2> QED
    BY <2>8, <2>9, <2>13 DEF e2, e3, e4
<1> QED
  BY <1>1, <1>2, <1>3, <1>4 DEF Plain

-----------------------------------------------------------------------------
(* An unmarshall of b whose head is past the header.                       *)
Heads(b) == [buf : {b}, ind : RPC_HEADER_SZ..Len(b), ok : BOOLEAN]

LEMMA HeadsIs ==
  ASSUME NEW b, Sound(b), NEW u \in Heads(b)
  PROVE  /\ Len(b) \in Nat /\ RPC_HEADER_SZ \in Nat /\ u.ind \in Nat
         /\ RPC_HEADER_SZ <= u.ind /\ u.ind <= Len(b) /\ u.buf = b
         /\ u.ok \in BOOLEAN /\ (u.ok => u = U(b, u.ind))
         /\ u = [buf |-> b, ind |-> u.ind, ok |-> u.ok]
<1>1. Len(b) \in Nat /\ RPC_HEADER_SZ \in Nat
  BY DEF Sound, RPC_HEADER_SZ
<1> QED
  BY <1>1 DEF Heads, U

(* n bytes, and the head after them.                                       *)
LEMMA SkipIs ==
  ASSUME NEW b, Sound(b), NEW u \in Heads(b), NEW n \in Nat
  PROVE  /\ Skip(u, n) \in Heads(b) /\ (~u.ok => ~Skip(u, n).ok)
         /\ Skip(u, n).ok => u = U(b, u.ind) /\ u.ind + n <= Len(b) /\ Skip(u, n) = U(b, u.ind + n)
<1>1. /\ Len(b) \in Nat /\ RPC_HEADER_SZ \in Nat /\ u.ind \in Nat
      /\ RPC_HEADER_SZ <= u.ind /\ u.ind <= Len(b) /\ u.buf = b
      /\ u.ok \in BOOLEAN /\ u = [buf |-> b, ind |-> u.ind, ok |-> u.ok]
  BY HeadsIs
<1>2. CASE u.ind + n <= Len(b)
  <2>1. Skip(u, n) = [buf |-> b, ind |-> u.ind + n, ok |-> u.ok]
    BY <1>1, <1>2 DEF Skip
  <2>2. u.ind + n \in RPC_HEADER_SZ..Len(b)
    BY <1>1, <1>2
  <2>3. Skip(u, n) \in Heads(b) /\ Skip(u, n).ok = u.ok
    BY <1>1, <2>1, <2>2 DEF Heads
  <2>4. ASSUME u.ok PROVE u = U(b, u.ind) /\ Skip(u, n) = U(b, u.ind + n)
    <3>1. u.ok = TRUE
      BY <1>1, <2>4
    <3> QED
      BY <1>1, <2>1, <3>1, Zenon DEF U
  <2> QED
    BY <1>2, <2>3, <2>4
<1>3. CASE ~(u.ind + n <= Len(b))
  <2>1. Skip(u, n) = [buf |-> b, ind |-> Len(b), ok |-> FALSE]
    BY <1>1, <1>3 DEF Skip
  <2> QED
    BY <1>1, <1>3, <2>1 DEF Heads
<1> QED
  BY <1>2, <1>3

LEMMA BytesIs ==
  ASSUME NEW b, Sound(b), NEW u \in Heads(b), NEW n \in Nat
  PROVE  /\ Bytes(u, n) \in Seq(Byte) /\ Len(Bytes(u, n)) = n
         /\ Skip(u, n).ok => At(b, u.ind, Bytes(u, n))
<1>1. /\ Len(b) \in Nat /\ RPC_HEADER_SZ \in Nat /\ u.ind \in Nat
      /\ RPC_HEADER_SZ <= u.ind /\ u.ind <= Len(b) /\ u.buf = b
  BY HeadsIs
<1>2. \A k \in 1..Len(b) : k > RPC_HEADER_SZ => b[k] \in Byte
  BY DEF Sound
<1>3. 0 \in Byte
  BY DEF Byte
<1>4. Bytes(u, n) = [k \in 1..n |-> IF u.ind + k <= Len(b) THEN b[u.ind + k] ELSE 0]
  BY <1>1 DEF Bytes
<1>5. ASSUME NEW k \in 1..n PROVE (IF u.ind + k <= Len(b) THEN b[u.ind + k] ELSE 0) \in Byte
  <2>1. u.ind + k <= Len(b) => u.ind + k \in 1..Len(b) /\ u.ind + k > RPC_HEADER_SZ
    BY <1>1
  <2> QED
    BY <1>2, <1>3, <2>1
<1>6. Bytes(u, n) \in Seq(Byte) /\ Len(Bytes(u, n)) = n
  BY <1>4, <1>5
<1>7. ASSUME Skip(u, n).ok PROVE At(b, u.ind, Bytes(u, n))
  <2>1. u.ind + n <= Len(b)
    BY <1>7, SkipIs
  <2> QED
    BY <1>1, <1>4, <1>6, <2>1 DEF At
<1> QED
  BY <1>6, <1>7

(* A number that is read is the one whose digits are there.                *)
LEMMA ReadNumberIs ==
  ASSUME NEW b, Sound(b), NEW u \in Heads(b), NEW w \in Nat
  PROVE  LET x == ReadNumber(u, w)
         IN /\ x = [v |-> x.v, u |-> x.u] /\ x.v \in 0..(Power(w) - 1) /\ x.u \in Heads(b)
            /\ ~u.ok => ~x.u.ok
            /\ x.u.ok => At(b, u.ind, Digits(x.v, w)) /\ x.u = U(b, u.ind + w)
<1> DEFINE x == ReadNumber(u, w)
           s == Bytes(u, w)
<1>1. s \in Seq(Byte) /\ Len(s) = w /\ (Skip(u, w).ok => At(b, u.ind, s))
  BY BytesIs
<1>2. x = [v |-> Value(s), u |-> Skip(u, w)]
  BY DEF ReadNumber
<1> HIDE DEF x, s
<1>3. Value(s) \in Nat /\ Value(s) < Power(w) /\ Digits(Value(s), w) = s
  BY <1>1, DigitsOfValue
<1>4. Value(s) \in 0..(Power(w) - 1)
  BY <1>3, PowerType
<1> QED
  BY <1>1, <1>2, <1>3, <1>4, SkipIs DEF x

LEMMA ReadNumberAt ==
  ASSUME NEW B, NEW b \in Seq(B), NEW i \in Nat, NEW w \in Nat, NEW n \in Nat, n < Power(w),
         At(b, i, Digits(n, w))
  PROVE  /\ ReadNumber(U(b, i), w) = [v |-> n, u |-> U(b, i + w)]
         /\ i + w \in Nat /\ i + w <= Len(b)
<1> DEFINE d == Digits(n, w)
<1>1. d \in Seq(Byte) /\ Len(d) = w /\ At(b, i, d)
  BY DigitsType
<1> HIDE DEF d
<1>2. Bytes(U(b, i), Len(d)) = d /\ Skip(U(b, i), Len(d)) = U(b, i + Len(d))
      /\ i + Len(d) \in Nat /\ i + Len(d) <= Len(b)
  BY <1>1, BytesAt
<1>3. Bytes(U(b, i), w) = Digits(n, w) /\ Skip(U(b, i), w) = U(b, i + w) /\ i + w \in Nat /\ i + w <= Len(b)
  BY <1>1, <1>2 DEF d
<1> QED
  BY <1>3, ValueOfDigits DEF ReadNumber

(* What a read of such a type may leave in a variable.                     *)
PlainValues == Nat \cup Seq(Nat)
IsRead(b, u, T, x) ==
  /\ x = [v |-> x.v, u |-> x.u] /\ x.v \in PlainValues /\ x.u \in Heads(b)
  /\ ~u.ok => ~x.u.ok
  /\ x.u.ok => /\ FitsPlain(T, x.v) /\ Enc(T, x.v) \in Seq(Byte)
               /\ At(b, u.ind, Enc(T, x.v)) /\ x.u = U(b, u.ind + Len(Enc(T, x.v)))

LEMMA NumbersArePlain == ASSUME NEW n \in Nat, NEW s \in Seq(Byte) PROVE n \in PlainValues /\ s \in PlainValues
<1>1. s \in Seq(Nat)
  BY DEF Byte
<1> QED
  BY <1>1 DEF PlainValues

LEMMA ReadIntIs ==
  ASSUME NEW b, Sound(b), NEW u \in Heads(b), NEW T, T.kind = "int"
  PROVE  IsRead(b, u, T, ReadNumber(u, W))
<1> DEFINE x == ReadNumber(u, W)
<1>1. /\ x = [v |-> x.v, u |-> x.u] /\ x.v \in 0..(Power(W) - 1) /\ x.u \in Heads(b) /\ (~u.ok => ~x.u.ok)
      /\ x.u.ok => At(b, u.ind, Digits(x.v, W)) /\ x.u = U(b, u.ind + W)
  BY WordType, ReadNumberIs
<1> HIDE DEF x
<1>2. x.v \in Nat
  BY <1>1, WordType, PowerType
<1>3. x.v \in PlainValues
  BY <1>2 DEF PlainValues
<1>4. FitsPlain(T, x.v) /\ Enc(T, x.v) = Digits(x.v, W)
  BY <1>1, WordType DEF FitsPlain, Enc
<1>5. Digits(x.v, W) \in Seq(Byte) /\ Len(Digits(x.v, W)) = W
  BY <1>2, WordType, DigitsType
<1> QED
  BY <1>1, <1>3, <1>4, <1>5 DEF IsRead, x

LEMMA ReadUllIs ==
  ASSUME NEW b, Sound(b), NEW u \in Heads(b), NEW T, T.kind = "ull"
  PROVE  IsRead(b, u, T, ReadNumber(u, 2 * W))
<1> DEFINE x == ReadNumber(u, 2 * W)
<1>1. /\ x = [v |-> x.v, u |-> x.u] /\ x.v \in 0..(Power(2 * W) - 1) /\ x.u \in Heads(b) /\ (~u.ok => ~x.u.ok)
      /\ x.u.ok => At(b, u.ind, Digits(x.v, 2 * W)) /\ x.u = U(b, u.ind + 2 * W)
  BY WordType, ReadNumberIs
<1> HIDE DEF x
<1>2. x.v \in Nat
  BY <1>1, WordType, PowerType
<1>3. x.v \in PlainValues
  BY <1>2 DEF PlainValues
<1>4. FitsPlain(T, x.v) /\ Enc(T, x.v) = Digits(x.v, 2 * W)
  BY <1>1, WordType DEF FitsPlain, Enc
<1>5. Digits(x.v, 2 * W) \in Seq(Byte) /\ Len(Digits(x.v, 2 * W)) = 2 * W
  BY <1>2, WordType, DigitsType
<1> QED
  BY <1>1, <1>3, <1>4, <1>5 DEF IsRead, x

LEMMA ReadStringIs ==
  ASSUME NEW b, Sound(b), NEW u \in Heads(b), NEW T, T.kind = "string"
  PROVE  IsRead(b, u, T, ReadString(u))
<1> DEFINE n == ReadNumber(u, W)
           x == ReadString(u)
           s == Bytes(n.u, n.v)
           d == Digits(n.v, W)
<1>1. /\ n.v \in 0..(Power(W) - 1) /\ n.u \in Heads(b) /\ (~u.ok => ~n.u.ok)
      /\ n.u.ok => At(b, u.ind, Digits(n.v, W)) /\ n.u = U(b, u.ind + W)
  BY WordType, ReadNumberIs
<1>2. u.buf = b /\ u.ind \in Nat /\ Len(b) \in Nat /\ b \in Seq(Cell)
  BY HeadsIs DEF Sound
<1>3. x = IF n.u.ok /\ n.v <= Len(b) - n.u.ind THEN [v |-> s, u |-> Skip(n.u, n.v)]
          ELSE [v |-> <<>>, u |-> [n.u EXCEPT !.ok = FALSE]]
  BY <1>2 DEF ReadString, ReadBytes
<1>4. n.v \in Nat /\ n.v < Word
  BY <1>1, WordType, PowerType
<1>5. d \in Seq(Byte) /\ Len(d) = W
  BY <1>4, WordType, DigitsType
<1> HIDE DEF n, x, d
<1>6. CASE n.u.ok /\ n.v <= Len(b) - n.u.ind
  <2>1. s \in Seq(Byte) /\ Len(s) = n.v /\ (Skip(n.u, n.v).ok => At(b, n.u.ind, s))
    BY <1>1, <1>4, BytesIs
  <2>2. /\ Skip(n.u, n.v) \in Heads(b)
        /\ Skip(n.u, n.v).ok => Skip(n.u, n.v) = U(b, n.u.ind + n.v)
    BY <1>1, <1>4, SkipIs
  <2> HIDE DEF s
  <2>3. x = [v |-> s, u |-> Skip(n.u, n.v)]
    BY <1>3, <1>6
  <2>4. FitsPlain(T, s) /\ Enc(T, s) = d \o s
    BY <1>4, <2>1 DEF FitsPlain, Enc, d
  <2>5. d \o s \in Seq(Byte) /\ Len(d \o s) = W + n.v
    BY <1>5, <2>1
  <2>6. u.ok /\ n.u = U(b, u.ind + W) /\ n.u.ind = u.ind + W /\ At(b, u.ind, d)
    BY <1>1, <1>6 DEF U, d
  <2>7. ASSUME Skip(n.u, n.v).ok
        PROVE  At(b, u.ind, d \o s) /\ Skip(n.u, n.v) = U(b, u.ind + Len(d \o s))
    <3>1. At(b, u.ind + Len(d), s)
      BY <1>5, <2>1, <2>6, <2>7
    <3>2. At(b, u.ind, d \o s)
      BY <1>2, <1>5, <2>1, <2>6, <3>1, AtJoin
    <3>3. (u.ind + W) + n.v = u.ind + (W + n.v)
      BY <1>2, <1>4, WordType
    <3> QED
      BY <2>2, <2>5, <2>6, <2>7, <3>2, <3>3
  <2>8. s \in PlainValues
    BY <2>1, NumbersArePlain
  <2>9. x.v = s /\ x.u = Skip(n.u, n.v) /\ x = [v |-> x.v, u |-> x.u]
    BY <2>3
  <2>10. IsRead(b, u, T, x)
    BY <2>2, <2>4, <2>5, <2>6, <2>7, <2>8, <2>9 DEF IsRead
  <2> QED
    BY <2>10 DEF x
<1>7. CASE ~(n.u.ok /\ n.v <= Len(b) - n.u.ind)
  <2>1. x = [v |-> <<>>, u |-> [n.u EXCEPT !.ok = FALSE]]
    BY <1>3, <1>7
  <2>2. [n.u EXCEPT !.ok = FALSE] \in Heads(b) /\ [n.u EXCEPT !.ok = FALSE].ok = FALSE
    BY <1>1 DEF Heads
  <2>3. <<>> \in PlainValues
    BY DEF PlainValues
  <2>4. x.v = <<>> /\ ~x.u.ok /\ x.u \in Heads(b) /\ x = [v |-> x.v, u |-> x.u]
    BY <2>1, <2>2
  <2>5. IsRead(b, u, T, x)
    BY <2>3, <2>4 DEF IsRead
  <2> QED
    BY <2>5 DEF x
<1> QED
  BY <1>6, <1>7

(* From u on, s was read, and the head is y.                               *)
SoFar(b, u, y, s) ==
  /\ s \in Seq(Byte) /\ y \in Heads(b) /\ (~u.ok => ~y.ok)
  /\ y.ok => At(b, u.ind, s) /\ y = U(b, u.ind + Len(s))
LEMMA SoFarNext ==
  ASSUME NEW b, Sound(b), NEW u \in Heads(b), NEW y, NEW s, SoFar(b, u, y, s)
  PROVE  LET x == ReadNumber(y, W)
         IN x.v \in 0..(Word - 1) /\ SoFar(b, u, x.u, s \o Digits(x.v, W))
<1> DEFINE x == ReadNumber(y, W)
           d == Digits(x.v, W)
<1>1. /\ x.v \in 0..(Power(W) - 1) /\ x.u \in Heads(b) /\ (~y.ok => ~x.u.ok)
      /\ x.u.ok => At(b, y.ind, Digits(x.v, W)) /\ x.u = U(b, y.ind + W)
  BY WordType, ReadNumberIs DEF SoFar
<1>2. u.ind \in Nat /\ Len(b) \in Nat /\ b \in Seq(Cell) /\ u.ok \in BOOLEAN /\ y.ok \in BOOLEAN
  BY HeadsIs DEF Sound, SoFar
<1>3. x.v \in Nat /\ x.v \in 0..(Word - 1)
  BY <1>1, WordType
<1>4. d \in Seq(Byte) /\ Len(d) = W
  BY <1>3, WordType, DigitsType
<1> HIDE DEF x, d
<1>5. s \o d \in Seq(Byte) /\ Len(s \o d) = Len(s) + W /\ Len(s) \in Nat
  BY <1>4 DEF SoFar
<1>6. ASSUME x.u.ok PROVE At(b, u.ind, s \o d) /\ x.u = U(b, u.ind + Len(s \o d))
  <2>1. y.ok /\ At(b, u.ind, s) /\ y = U(b, u.ind + Len(s)) /\ s \in Seq(Byte)
    BY <1>1, <1>2, <1>6 DEF SoFar
  <2>2. y.ind = u.ind + Len(s) /\ At(b, y.ind, d)
    BY <1>1, <1>6, <2>1 DEF U, d
  <2>3. At(b, u.ind, s \o d)
    BY <1>2, <1>4, <2>1, <2>2, AtJoin
  <2>4. (u.ind + Len(s)) + W = u.ind + (Len(s) + W)
    BY <1>2, <1>5, WordType
  <2> QED
    BY <1>1, <1>5, <1>6, <2>2, <2>3, <2>4
<1>7. ~u.ok => ~x.u.ok
  BY <1>1 DEF SoFar
<1>8. SoFar(b, u, x.u, s \o d)
  BY <1>1, <1>5, <1>6, <1>7 DEF SoFar
<1> QED
  BY <1>3, <1>8 DEF x, d

LEMMA ReadAttrIs ==
  ASSUME NEW b, Sound(b), NEW u \in Heads(b), NEW T, T.kind = "attr"
  PROVE  IsRead(b, u, T, ReadAttr(u))
<1> DEFINE X == 0..(Word - 1)
           a1 == ReadNumber(u, W)
           a2 == ReadNumber(a1.u, W)
           a3 == ReadNumber(a2.u, W)
           a4 == ReadNumber(a3.u, W)
           a5 == ReadNumber(a4.u, W)
           x == ReadAttr(u)
           d(a) == Digits(a.v, W)
           e2 == d(a1) \o d(a2)
           e3 == e2 \o d(a3)
           e4 == e3 \o d(a4)
           e5 == e4 \o d(a5)
           v == <<a1.v, a2.v, a3.v, a4.v, a5.v>>
<1>1. x = [v |-> v, u |-> a5.u]
  BY DEF ReadAttr
<1>2. a1.v \in X /\ SoFar(b, u, a1.u, d(a1))
  <2>1. /\ a1.v \in 0..(Power(W) - 1) /\ a1.u \in Heads(b) /\ (~u.ok => ~a1.u.ok)
        /\ a1.u.ok => At(b, u.ind, Digits(a1.v, W)) /\ a1.u = U(b, u.ind + W)
    BY WordType, ReadNumberIs
  <2> HIDE DEF a1
  <2>2. a1.v \in Nat /\ a1.v \in X
    BY <2>1, WordType
  <2>3. d(a1) \in Seq(Byte) /\ Len(d(a1)) = W
    BY <2>2, WordType, DigitsType
  <2> QED
    BY <2>1, <2>2, <2>3 DEF SoFar
<1> HIDE DEF a1
<1>3. a2.v \in X /\ SoFar(b, u, a2.u, e2)
  BY <1>2, SoFarNext
<1> HIDE DEF a2, e2
<1>4. a3.v \in X /\ SoFar(b, u, a3.u, e3)
  BY <1>3, SoFarNext
<1> HIDE DEF a3, e3
<1>5. a4.v \in X /\ SoFar(b, u, a4.u, e4)
  BY <1>4, SoFarNext
<1> HIDE DEF a4, e4
<1>6. a5.v \in X /\ SoFar(b, u, a5.u, e5)
  BY <1>5, SoFarNext
<1> HIDE DEF a5, e5, x, X
<1>7. v \in Seq(X) /\ Len(v) = 5 /\ v[1] = a1.v /\ v[2] = a2.v /\ v[3] = a3.v /\ v[4] = a4.v /\ v[5] = a5.v
  BY <1>2, <1>3, <1>4, <1>5, <1>6
<1> HIDE DEF v, d
<1>8. Enc(T, v) = e5
  BY <1>7 DEF Enc, e2, e3, e4, e5, d
<1>9. FitsPlain(T, v)
  BY <1>7 DEF FitsPlain, X
<1>10. v \in PlainValues
  <2>1. a1.v \in Nat /\ a2.v \in Nat /\ a3.v \in Nat /\ a4.v \in Nat /\ a5.v \in Nat
    BY <1>2, <1>3, <1>4, <1>5, <1>6, WordType DEF X
  <2>2. v \in Seq(Nat)
    BY <2>1 DEF v
  <2> QED
    BY <2>2 DEF PlainValues
<1>11. x.v = v /\ x.u = a5.u /\ x = [v |-> x.v, u |-> x.u]
  BY <1>1
<1>12. IsRead(b, u, T, x)
  BY <1>6, <1>8, <1>9, <1>10, <1>11 DEF IsRead, SoFar
<1> QED
  BY <1>12 DEF x

LEMMA ReadPlainIs ==
  ASSUME NEW b, Sound(b), NEW u \in Heads(b), NEW T, Plain(T)
  PROVE  IsRead(b, u, T, ReadPlain(u, T))
<1>1. CASE T.kind = "int"
  BY <1>1, ReadIntIs DEF ReadPlain
<1>2. CASE T.kind = "ull"
  BY <1>2, ReadUllIs DEF ReadPlain
<1>3. CASE T.kind = "string"
  BY <1>3, ReadStringIs DEF ReadPlain
<1>4. CASE T.kind = "attr"
  BY <1>4, ReadAttrIs DEF ReadPlain
<1> QED
  BY <1>1, <1>2, <1>3, <1>4 DEF Plain

(* A value is read back from its bytes.                                    *)
LEMMA NumberAt ==
  ASSUME NEW B, NEW b \in Seq(B), NEW i \in Nat, NEW n \in 0..(Word - 1), At(b, i, Digits(n, W))
  PROVE  ReadNumber(U(b, i), W) = [v |-> n, u |-> U(b, i + W)] /\ i + W \in Nat
<1>1. n \in Nat /\ n < Power(W) /\ W \in Nat
  BY WordType
<1> QED
  BY <1>1, ReadNumberAt

LEMMA AttrParts ==
  ASSUME NEW T, T.kind = "attr", NEW v, FitsPlain(T, v)
  PROVE  /\ v = <<v[1], v[2], v[3], v[4], v[5]>>
         /\ \A k \in 1..5 : v[k] \in 0..(Word - 1) /\ Digits(v[k], W) \in Seq(Byte) /\ Len(Digits(v[k], W)) = W
<1> DEFINE X == 0..(Word - 1)
<1>1. v \in Seq(X) /\ Len(v) = 5
  BY DEF FitsPlain
<1> HIDE DEF X
<1>2. \A k \in 1..Len(v) : v[k] \in X
  BY <1>1, ElementOfSeq
<1>3. v = <<v[1], v[2], v[3], v[4], v[5]>>
  BY <1>1
<1>4. ASSUME NEW k \in 1..5 PROVE v[k] \in X /\ v[k] \in Nat
  <2>1. v[k] \in X
    BY <1>1, <1>2
  <2> QED
    BY <2>1, WordType DEF X
<1> QED
  BY <1>3, <1>4, WordType, DigitsType DEF X

LEMMA NextNumberAt ==
  ASSUME NEW B, NEW b \in Seq(B), NEW i \in Nat, NEW e \in Seq(Byte), NEW n \in 0..(Word - 1),
         At(b, i, e \o Digits(n, W))
  PROVE  At(b, i, e) /\ ReadNumber(U(b, i + Len(e)), W) = [v |-> n, u |-> U(b, i + Len(e \o Digits(n, W)))]
<1> DEFINE d == Digits(n, W)
<1>1. d \in Seq(Byte) /\ Len(d) = W /\ W \in Nat
  BY WordType, DigitsType
<1> HIDE DEF d
<1>2. Len(e \o d) = Len(e) + W /\ Len(e) \in Nat /\ i + Len(e) \in Nat /\ (i + Len(e)) + W = i + (Len(e) + W)
  BY <1>1
<1>3. At(b, i, e) /\ At(b, i + Len(e), d)
  BY <1>1, AtJoin DEF d
<1>4. ReadNumber(U(b, i + Len(e)), W) = [v |-> n, u |-> U(b, (i + Len(e)) + W)]
  BY <1>2, <1>3, NumberAt DEF d
<1> QED
  BY <1>2, <1>3, <1>4 DEF d

LEMMA ReadAttrAt ==
  ASSUME NEW B, NEW b \in Seq(B), NEW i \in Nat, NEW T, T.kind = "attr", NEW v, FitsPlain(T, v),
         At(b, i, Enc(T, v))
  PROVE  ReadAttr(U(b, i)) = [v |-> v, u |-> U(b, i + Len(Enc(T, v)))]
<1> DEFINE e1 == Digits(v[1], W)
           e2 == e1 \o Digits(v[2], W)
           e3 == e2 \o Digits(v[3], W)
           e4 == e3 \o Digits(v[4], W)
           e5 == e4 \o Digits(v[5], W)
           X == 0..(Word - 1)
<1> HIDE DEF X
<1>0. v = <<v[1], v[2], v[3], v[4], v[5]>>
  BY AttrParts
<1>1. /\ v[1] \in X /\ v[2] \in X /\ v[3] \in X /\ v[4] \in X /\ v[5] \in X
  BY AttrParts DEF X
<1>2. /\ Digits(v[1], W) \in Seq(Byte) /\ Len(Digits(v[1], W)) = W
      /\ Digits(v[2], W) \in Seq(Byte) /\ Digits(v[3], W) \in Seq(Byte) /\ Digits(v[4], W) \in Seq(Byte)
  BY AttrParts
<1>3. e1 \in Seq(Byte) /\ e2 \in Seq(Byte) /\ e3 \in Seq(Byte) /\ e4 \in Seq(Byte) /\ Len(e1) = W
  BY <1>2
<1>4. Enc(T, v) = e5
  BY DEF Enc
<1>11. ASSUME NEW e \in Seq(Byte), NEW n \in X, At(b, i, e \o Digits(n, W))
       PROVE  /\ At(b, i, e)
              /\ ReadNumber(U(b, i + Len(e)), W) = [v |-> n, u |-> U(b, i + Len(e \o Digits(n, W)))]
  BY <1>11, NextNumberAt DEF X
<1>12. At(b, i, e5)
  BY <1>4
<1> HIDE DEF e4, e5
<1>5. At(b, i, e4) /\ ReadNumber(U(b, i + Len(e4)), W) = [v |-> v[5], u |-> U(b, i + Len(e5))]
  BY <1>1, <1>3, <1>11, <1>12 DEF e5
<1> HIDE DEF e3
<1>6. At(b, i, e3) /\ ReadNumber(U(b, i + Len(e3)), W) = [v |-> v[4], u |-> U(b, i + Len(e4))]
  BY <1>1, <1>3, <1>5, <1>11 DEF e4
<1> HIDE DEF e2
<1>7. At(b, i, e2) /\ ReadNumber(U(b, i + Len(e2)), W) = [v |-> v[3], u |-> U(b, i + Len(e3))]
  BY <1>1, <1>3, <1>6, <1>11 DEF e3
<1> HIDE DEF e1
<1>8. At(b, i, e1) /\ ReadNumber(U(b, i + Len(e1)), W) = [v |-> v[2], u |-> U(b, i + Len(e2))]
  BY <1>1, <1>3, <1>7, <1>11 DEF e2
<1>9. ReadNumber(U(b, i), W) = [v |-> v[1], u |-> U(b, i + Len(e1))]
  <2>1. ASSUME NEW x \in X, At(b, i, Digits(x, W)) PROVE ReadNumber(U(b, i), W) = [v |-> x, u |-> U(b, i + W)]
    BY <2>1, NumberAt DEF X
  <2> HIDE DEF X
  <2> QED
    BY <1>1, <1>3, <1>8, <2>1 DEF e1
<1>10. ReadAttr(U(b, i)) = [v |-> <<v[1], v[2], v[3], v[4], v[5]>>, u |-> U(b, i + Len(e5))]
  <2> DEFINE a1 == ReadNumber(U(b, i), W)
             a2 == ReadNumber(a1.u, W)
             a3 == ReadNumber(a2.u, W)
             a4 == ReadNumber(a3.u, W)
             a5 == ReadNumber(a4.u, W)
  <2>1. ReadAttr(U(b, i)) = [v |-> <<a1.v, a2.v, a3.v, a4.v, a5.v>>, u |-> a5.u]
    BY DEF ReadAttr
  <2>2. a1.v = v[1] /\ a1.u = U(b, i + Len(e1))
    BY <1>9
  <2> HIDE DEF a1
  <2>3. a2.v = v[2] /\ a2.u = U(b, i + Len(e2))
    BY <1>8, <2>2
  <2> HIDE DEF a2
  <2>4. a3.v = v[3] /\ a3.u = U(b, i + Len(e3))
    BY <1>7, <2>3
  <2> HIDE DEF a3
  <2>5. a4.v = v[4] /\ a4.u = U(b, i + Len(e4))
    BY <1>6, <2>4
  <2> HIDE DEF a4
  <2>6. a5.v = v[5] /\ a5.u = U(b, i + Len(e5))
    BY <1>5, <2>5
  <2> HIDE DEF a5
  <2> QED
    BY <2>1, <2>2, <2>3, <2>4, <2>5, <2>6, Zenon
<1> QED
  BY <1>0, <1>4, <1>10, Zenon

LEMMA ReadPlainAt ==
  ASSUME NEW B, NEW b \in Seq(B), NEW i \in Nat, NEW T, Plain(T), NEW v, FitsPlain(T, v),
         At(b, i, Enc(T, v))
  PROVE  ReadPlain(U(b, i), T) = [v |-> v, u |-> U(b, i + Len(Enc(T, v)))]
<1>1. CASE T.kind = "int"
  <2>1. v \in 0..(Word - 1) /\ Enc(T, v) = Digits(v, W) /\ v \in Nat
    BY <1>1, WordType DEF FitsPlain, Enc
  <2>2. Len(Digits(v, W)) = W
    BY <2>1, WordType, DigitsType
  <2> QED
    BY <1>1, <2>1, <2>2, NumberAt DEF ReadPlain
<1>2. CASE T.kind = "ull"
  <2>1. v \in Nat /\ v < Power(2 * W) /\ Enc(T, v) = Digits(v, 2 * W)
    BY <1>2, WordType, PowerType DEF FitsPlain, Enc
  <2>2. Len(Digits(v, 2 * W)) = 2 * W
    BY <2>1, WordType, DigitsType
  <2>3. ReadNumber(U(b, i), 2 * W) = [v |-> v, u |-> U(b, i + 2 * W)]
    BY <2>1, WordType, ReadNumberAt
  <2> QED
    BY <1>2, <2>1, <2>2, <2>3 DEF ReadPlain
<1>3. CASE T.kind = "string"
  <2> DEFINE d == Digits(Len(v), W)
  <2>1. v \in Seq(Byte) /\ Len(v) \in 0..(Word - 1) /\ Len(v) \in Nat /\ Enc(T, v) = d \o v
    BY <1>3, WordType DEF FitsPlain, Enc
  <2>2. d \in Seq(Byte) /\ Len(d) = W
    BY <2>1, WordType, DigitsType
  <2> HIDE DEF d
  <2>8. Len(d \o v) = W + Len(v)
    <3>1. v \in Seq(Byte)
      BY <2>1
    <3>2. Len(d \o v) = Len(d) + Len(v)
      BY <2>2, <3>1, ConcatProperties
    <3> QED
      BY <2>2, <3>2
  <2>3. At(b, i, d) /\ At(b, i + W, v)
    <3>1. At(b, i, d \o v)
      BY <2>1
    <3>2. v \in Seq(Byte)
      BY <2>1
    <3>3. At(b, i, d) /\ At(b, i + Len(d), v)
      BY <2>2, <3>1, <3>2, AtJoin
    <3> QED
      BY <2>2, <3>3
  <2>4. ReadNumber(U(b, i), W) = [v |-> Len(v), u |-> U(b, i + W)] /\ i + W \in Nat
    BY <2>1, <2>3, NumberAt DEF d
  <2>5. /\ Bytes(U(b, i + W), Len(v)) = v /\ Skip(U(b, i + W), Len(v)) = U(b, (i + W) + Len(v))
        /\ (i + W) + Len(v) <= Len(b)
    BY <2>1, <2>3, <2>4, BytesAt
  <2>6. (i + W) + Len(v) = i + (W + Len(v)) /\ Len(v) <= Len(b) - (i + W)
    BY <2>1, <2>4, <2>5, WordType
  <2>7. ReadString(U(b, i)) = [v |-> v, u |-> U(b, i + (W + Len(v)))]
    <3>1. U(b, i).buf = b /\ U(b, i + W).ok /\ U(b, i + W).ind = i + W
      BY DEF U
    <3> QED
      BY <2>4, <2>5, <2>6, <3>1 DEF ReadString, ReadBytes
  <2> QED
    BY <1>3, <2>1, <2>7, <2>8 DEF ReadPlain
<1>4. CASE T.kind = "attr"
  BY <1>4, ReadAttrAt DEF ReadPlain
<1> QED
  BY <1>1, <1>2, <1>3, <1>4 DEF Plain

-----------------------------------------------------------------------------
(* The arguments of a call, one after the other.                           *)
PlainTypes == {IntT, UllT, StringT, AttrT}
LEMMA PlainTypesArePlain ==
  ASSUME NEW T \in PlainTypes
  PROVE  /\ Plain(T) /\ T.kind # "vector" /\ T.kind # "map" /\ \A v : Fits(T, v) <=> FitsPlain(T, v)
         /\ \A m, v : Write(m, T, v) = WritePlain(m, T, v)
         /\ \A u, old : Read(u, T, old) = ReadPlain(u, T)
<1>1. Plain(T) /\ T.kind # "vector" /\ T.kind # "map"
  BY DEF PlainTypes, IntT, UllT, StringT, AttrT, Plain
<1> QED
  BY <1>1 DEF Fits, Write, Read

LEMMA NewIs == AtEnd(NewMarshall) /\ Sound(NewMarshall.buf) /\ NewMarshall.ind = RPC_HEADER_SZ /\ RPC_HEADER_SZ \in Nat
<1>1. RPC_HEADER_SZ \in Nat
  BY DEF RPC_HEADER_SZ
<1>2. /\ NewMarshall.buf = [k \in 1..RPC_HEADER_SZ |-> Uninit] /\ NewMarshall.ind = RPC_HEADER_SZ
      /\ NewMarshall = [buf |-> NewMarshall.buf, ind |-> NewMarshall.ind]
  BY DEF NewMarshall
<1>3. NewMarshall.buf \in Seq(Cell) /\ Len(NewMarshall.buf) = RPC_HEADER_SZ
  BY <1>1, <1>2 DEF Cell
<1> QED
  BY <1>1, <1>2, <1>3 DEF AtEnd, Sound

LEMMA AddKeeps ==
  ASSUME NEW m, AtEnd(m), NEW s \in Seq(Byte)
  PROVE  /\ At(Add(m, s).buf, m.ind, s)
         /\ \A i \in Nat : \A e \in Seq(Byte) : At(m.buf, i, e) => At(Add(m, s).buf, i, e)
         /\ Sound(m.buf) /\ RPC_HEADER_SZ <= m.ind => Sound(Add(m, s).buf)
<1> DEFINE b == Add(m, s).buf
<1>1. /\ AtEnd(Add(m, s)) /\ Add(m, s).ind = m.ind + Len(s) /\ m.ind \in Nat
      /\ \A k \in 1..m.ind : b[k] = m.buf[k]
      /\ \A k \in 1..Len(s) : b[m.ind + k] = s[k]
  BY AddAtEnd
<1>2. /\ b \in Seq(Cell) /\ Len(b) = m.ind + Len(s) /\ Len(s) \in Nat /\ Len(m.buf) = m.ind
      /\ RPC_HEADER_SZ \in Nat /\ \A k \in 1..Len(s) : s[k] \in Byte
  BY <1>1, NewIs DEF AtEnd
<1> HIDE DEF b
<1>3. At(b, m.ind, s)
  BY <1>1, <1>2 DEF At
<1>4. ASSUME NEW i \in Nat, NEW e \in Seq(Byte), At(m.buf, i, e) PROVE At(b, i, e)
  <2>1. i + Len(e) <= m.ind /\ Len(e) \in Nat /\ \A k \in 1..Len(e) : m.buf[i + k] = e[k]
    BY <1>2, <1>4 DEF At
  <2>2. \A k \in 1..Len(e) : i + k \in 1..m.ind
    BY <1>1, <2>1
  <2> QED
    BY <1>1, <1>2, <2>1, <2>2 DEF At
<1>5. ASSUME Sound(m.buf), RPC_HEADER_SZ <= m.ind PROVE Sound(b)
  <2>1. ASSUME NEW k \in 1..Len(b), k > RPC_HEADER_SZ PROVE b[k] \in Byte
    <3>1. CASE k <= m.ind
      <4>1. k \in 1..m.ind /\ m.buf[k] \in Byte
        BY <1>1, <1>2, <1>5, <2>1, <3>1 DEF Sound
      <4> QED
        BY <1>1, <4>1
    <3>2. CASE k > m.ind
      <4> DEFINE j == k - m.ind
      <4>1. j \in 1..Len(s) /\ k = m.ind + j
        BY <1>1, <1>2, <3>2
      <4> HIDE DEF j
      <4> QED
        BY <1>1, <1>2, <4>1
    <3> QED
      BY <1>1, <1>2, <3>1, <3>2
  <2> QED
    BY <1>2, <2>1 DEF Sound
<1> QED
  BY <1>3, <1>4, <1>5 DEF b

(* Values of the types that stand in b from byte i on; c has the places.   *)
Laid(b, i, types, vals, c) ==
  /\ c \in [0..Len(types) -> Nat] /\ c[0] = i
  /\ \A k \in 1..Len(types) :
       LET e == Enc(types[k], vals[k])
       IN FitsPlain(types[k], vals[k]) /\ e \in Seq(Byte) /\ At(b, c[k - 1], e) /\ c[k] = c[k - 1] + Len(e)

(* The marshall after each of the arguments.                               *)
FullMarshalls == {m \in [buf : Seq(Cell), ind : Nat] : m.ind = Len(m.buf)}
Written(types, vals, n) ==
  /\ n \in [0..Len(types) -> FullMarshalls] /\ n[0] = NewMarshall /\ Marshalled(types, vals) = n[Len(types)]
  /\ \A k \in 1..Len(types) : /\ n[k] = Add(n[k - 1], Enc(types[k], vals[k]))
                              /\ Enc(types[k], vals[k]) \in Seq(Byte)
Fitting(types, vals) ==
  /\ types \in Seq(PlainTypes) /\ Len(vals) = Len(types)
  /\ \A k \in 1..Len(types) : FitsPlain(types[k], vals[k])

LEMMA WrittenIs == ASSUME NEW types, NEW vals, Fitting(types, vals) PROVE \E n : Written(types, vals, n)
<1> DEFINE w == Len(types)
           Next1(m, k) == Write(m, types[k], vals[k])
           Is(n) == n = [k \in 0..w |-> IF k = 0 THEN NewMarshall ELSE Next1(n[k - 1], k)]
           f == [k \in 0..w |-> [y \in FullMarshalls |-> IF k = 0 THEN y ELSE Next1(y, k)]]
<1>1. w \in Nat /\ Len(vals) = w
  BY DEF Fitting
<1>2. ASSUME NEW k \in 1..w, NEW y \in FullMarshalls
      PROVE  /\ Next1(y, k) = Add(y, Enc(types[k], vals[k])) /\ Next1(y, k) \in FullMarshalls
             /\ Enc(types[k], vals[k]) \in Seq(Byte)
  <2>1. types[k] \in PlainTypes /\ FitsPlain(types[k], vals[k]) /\ AtEnd(y)
    BY DEF Fitting, FullMarshalls, AtEnd
  <2>2. Plain(types[k]) /\ Next1(y, k) = WritePlain(y, types[k], vals[k])
    BY <2>1, PlainTypesArePlain
  <2>3. Next1(y, k) = Add(y, Enc(types[k], vals[k])) /\ Enc(types[k], vals[k]) \in Seq(Byte)
    BY <2>1, <2>2, WritePlainIs
  <2>4. AtEnd(Next1(y, k))
    BY <2>1, <2>3, AddAtEnd
  <2> QED
    BY <2>3, <2>4 DEF AtEnd, FullMarshalls
<1>3. NewMarshall \in FullMarshalls
  BY NewIs DEF AtEnd, FullMarshalls
<1>4. Marshalled(types, vals) = (CHOOSE n : Is(n))[w]
  BY <1>1 DEF Marshalled, WriteEach
<1> HIDE DEF w, Next1
<1>5. f \in Steps(w, FullMarshalls)
  BY <1>1, <1>2 DEF Steps
<1>6. PICK g : Follows(g, w, FullMarshalls, NewMarshall, f)
  <2> HIDE DEF f
  <2> QED
    BY <1>1, <1>3, <1>5, RecursionOn
<1>7. ASSUME NEW k \in 1..w PROVE g[k] = Next1(g[k - 1], k)
  <2>1. k \in 0..w /\ k # 0 /\ k - 1 \in 0..w /\ g[k - 1] \in FullMarshalls
    BY <1>1, <1>6 DEF Follows
  <2>2. f[k][g[k - 1]] = Next1(g[k - 1], k)
    BY <2>1
  <2> QED
    BY <1>6, <2>2 DEF Follows
<1>8. Is(g)
  BY <1>6, <1>7 DEF Follows
<1> DEFINE n == CHOOSE n : Is(n)
<1>9. Is(n)
  BY <1>8
<1> HIDE DEF n
<1>10. n[0] = NewMarshall /\ DOMAIN n = 0..w /\ \A k \in 1..w : n[k] = Next1(n[k - 1], k)
  BY <1>1, <1>9
<1>11. \A k \in 0..w : n[k] \in FullMarshalls
  <2> DEFINE T == {k \in 0..w : n[k] \in FullMarshalls}
  <2>1. 0 \in T
    BY <1>1, <1>3, <1>10
  <2>2. ASSUME NEW k \in 0..(w - 1), k \in T PROVE k + 1 \in T
    <3>1. k + 1 \in 1..w /\ k + 1 \in 0..w /\ (k + 1) - 1 = k
      BY <1>1
    <3> QED
      BY <1>2, <1>10, <2>2, <3>1
  <2> HIDE DEF T
  <2>3. 0..w \subseteq T
    BY <1>1, <2>1, <2>2, InductionUpTo
  <2> QED
    BY <2>3 DEF T
<1>12. \A k \in 1..w : n[k] = Add(n[k - 1], Enc(types[k], vals[k])) /\ Enc(types[k], vals[k]) \in Seq(Byte)
  BY <1>1, <1>2, <1>10, <1>11
<1>13. n \in [0..w -> FullMarshalls]
  BY <1>9, <1>11
<1>14. Marshalled(types, vals) = n[w]
  BY <1>4 DEF n
<1>15. Written(types, vals, n)
  BY <1>10, <1>12, <1>13, <1>14 DEF Written, w
<1> QED
  BY <1>15

LEMMA LaidOut ==
  ASSUME NEW types, NEW vals, Fitting(types, vals)
  PROVE  LET m == Marshalled(types, vals)
         IN /\ AtEnd(m) /\ Sound(m.buf) /\ RPC_HEADER_SZ <= m.ind
            /\ \E c : Laid(m.buf, RPC_HEADER_SZ, types, vals, c) /\ c[Len(types)] = m.ind
<1>1. PICK n : Written(types, vals, n)
  BY WrittenIs
<1> DEFINE w == Len(types)
           e(k) == Enc(types[k], vals[k])
           Good(k) == /\ Sound(n[k].buf) /\ RPC_HEADER_SZ <= n[k].ind
                      /\ \A j \in 1..k : At(n[k].buf, n[j - 1].ind, e(j)) /\ n[j].ind = n[j - 1].ind + Len(e(j))
<1>2. w \in Nat /\ \A k \in 1..w : FitsPlain(types[k], vals[k])
  BY DEF Fitting
<1>3. /\ n \in [0..w -> FullMarshalls] /\ n[0] = NewMarshall /\ Marshalled(types, vals) = n[w]
      /\ \A k \in 1..w : n[k] = Add(n[k - 1], e(k)) /\ e(k) \in Seq(Byte)
  BY <1>1 DEF Written
<1> HIDE DEF w, e
<1>4. ASSUME NEW k \in 0..w PROVE AtEnd(n[k]) /\ n[k].ind \in Nat
  BY <1>3 DEF AtEnd, FullMarshalls
<1>5. \A k \in 0..w : Good(k)
  <2> DEFINE T == {k \in 0..w : Good(k)}
  <2>1. 0 \in T
    BY <1>2, <1>3, NewIs
  <2>2. ASSUME NEW k \in 0..(w - 1), k \in T PROVE k + 1 \in T
    <3>1. k + 1 \in 1..w /\ k + 1 \in 0..w /\ (k + 1) - 1 = k /\ k \in 0..w
      BY <1>2
    <3> DEFINE m == n[k]
               s == e(k + 1)
    <3>2. AtEnd(m) /\ m.ind \in Nat /\ s \in Seq(Byte) /\ n[k + 1] = Add(m, s)
      BY <1>3, <1>4, <3>1
    <3>3. Good(k)
      BY <2>2
    <3> HIDE DEF m, s
    <3>4. /\ At(Add(m, s).buf, m.ind, s)
          /\ \A i \in Nat : \A x \in Seq(Byte) : At(m.buf, i, x) => At(Add(m, s).buf, i, x)
          /\ Sound(m.buf) /\ RPC_HEADER_SZ <= m.ind => Sound(Add(m, s).buf)
      BY <3>2, AddKeeps
    <3>5. Add(m, s).ind = m.ind + Len(s) /\ Len(s) \in Nat
      BY <3>2, AddAtEnd
    <3>6. Sound(n[k + 1].buf) /\ RPC_HEADER_SZ <= n[k + 1].ind
      BY <3>2, <3>3, <3>4, <3>5, NewIs DEF m
    <3>7. ASSUME NEW j \in 1..(k + 1)
          PROVE  At(n[k + 1].buf, n[j - 1].ind, e(j)) /\ n[j].ind = n[j - 1].ind + Len(e(j))
      <4>1. CASE j = k + 1
        BY <3>1, <3>2, <3>4, <3>5, <4>1 DEF m, s
      <4>2. CASE j \in 1..k
        <5>1. n[j - 1].ind \in Nat /\ e(j) \in Seq(Byte)
          BY <1>2, <1>3, <1>4, <4>2
        <5>2. At(m.buf, n[j - 1].ind, e(j)) /\ n[j].ind = n[j - 1].ind + Len(e(j))
          BY <3>3, <4>2 DEF m
        <5> QED
          BY <3>2, <3>4, <5>1, <5>2
      <4> QED
        BY <4>1, <4>2
    <3> QED
      BY <3>1, <3>6, <3>7
  <2> HIDE DEF T
  <2>3. 0..w \subseteq T
    BY <1>2, <2>1, <2>2, InductionUpTo
  <2> QED
    BY <2>3 DEF T
<1>6. w \in 0..w /\ Good(w) /\ AtEnd(n[w])
  BY <1>2, <1>4, <1>5
<1> DEFINE c == [k \in 0..w |-> n[k].ind]
<1>7. c \in [0..w -> Nat] /\ c[0] = RPC_HEADER_SZ /\ c[w] = n[w].ind
  BY <1>2, <1>3, <1>4, NewIs
<1>8. ASSUME NEW k \in 1..w
      PROVE  FitsPlain(types[k], vals[k]) /\ e(k) \in Seq(Byte) /\ At(n[w].buf, c[k - 1], e(k)) /\ c[k] = c[k - 1] + Len(e(k))
  <2>1. k \in 0..w /\ k - 1 \in 0..w /\ c[k] = n[k].ind /\ c[k - 1] = n[k - 1].ind
    BY <1>2
  <2> QED
    BY <1>2, <1>3, <1>6, <2>1
<1> HIDE DEF c
<1>9. Laid(n[w].buf, RPC_HEADER_SZ, types, vals, c)
  BY <1>7, <1>8 DEF Laid, w, e
<1> QED
  BY <1>3, <1>6, <1>7, <1>9 DEF w

(* Whatever stands in b, marshalling it makes b again, up to the header.   *)
Made(b, i) == [buf |-> [k \in 1..i |-> IF k <= RPC_HEADER_SZ THEN Uninit ELSE b[k]], ind |-> i]
LEMMA MadeNext ==
  ASSUME NEW b, NEW i \in Nat, RPC_HEADER_SZ <= i, NEW e \in Seq(Byte), At(b, i, e)
  PROVE  Add(Made(b, i), e) = Made(b, i + Len(e))
<1> DEFINE s == [k \in 1..i |-> IF k <= RPC_HEADER_SZ THEN Uninit ELSE b[k]]
           t == [k \in 1..(i + Len(e)) |-> IF k <= RPC_HEADER_SZ THEN Uninit ELSE b[k]]
<1>1. RPC_HEADER_SZ \in Nat /\ Len(e) \in Nat /\ i + Len(e) \in Nat
  BY NewIs
<1>2. s \in Seq({s[k] : k \in 1..i}) /\ Len(s) = i
  OBVIOUS
<1>3. DOMAIN (s \o e) = 1..(i + Len(e))
  BY <1>1
<1>4. ASSUME NEW k \in 1..(i + Len(e)) PROVE (s \o e)[k] = t[k]
  <2>1. CASE k <= i
    BY <1>1, <2>1
  <2>2. CASE k > i
    <3>1. (s \o e)[k] = e[k - i]
      BY <1>1, <2>2
    <3>2. k - i \in 1..Len(e) /\ b[i + (k - i)] = e[k - i] /\ i + (k - i) = k
      BY <1>1, <2>2 DEF At
    <3> QED
      BY <1>1, <2>2, <3>1, <3>2
  <2> QED
    BY <2>1, <2>2
<1>5. s \o e = t
  <2>1. s \o e = [k \in 1..(i + Len(e)) |-> (s \o e)[k]] /\ t = [k \in 1..(i + Len(e)) |-> t[k]]
    BY <1>1
  <2> HIDE DEF s, t
  <2> QED
    BY <1>4, <2>1
<1> QED
  BY <1>5 DEF Add, Made

LEMMA MadeOf ==
  ASSUME NEW types \in Seq(PlainTypes), NEW vals, Len(vals) = Len(types), NEW b, NEW c,
         Laid(b, RPC_HEADER_SZ, types, vals, c)
  PROVE  Marshalled(types, vals) = Made(b, c[Len(types)])
<1> DEFINE w == Len(types)
           e(k) == Enc(types[k], vals[k])
<1>1. Fitting(types, vals) /\ w \in Nat
  BY DEF Fitting, Laid
<1>2. PICK n : Written(types, vals, n)
  BY <1>1, WrittenIs
<1>3. /\ n[0] = NewMarshall /\ Marshalled(types, vals) = n[w]
      /\ \A k \in 1..w : n[k] = Add(n[k - 1], e(k))
  BY <1>2 DEF Written
<1>4. /\ c \in [0..w -> Nat] /\ c[0] = RPC_HEADER_SZ
      /\ \A k \in 1..w : e(k) \in Seq(Byte) /\ At(b, c[k - 1], e(k)) /\ c[k] = c[k - 1] + Len(e(k))
  BY DEF Laid
<1> HIDE DEF w, e
<1>5. \A k \in 0..w : n[k] = Made(b, c[k]) /\ RPC_HEADER_SZ <= c[k]
  <2> DEFINE T == {k \in 0..w : n[k] = Made(b, c[k]) /\ RPC_HEADER_SZ <= c[k]}
  <2>1. 0 \in T
    <3>1. Made(b, RPC_HEADER_SZ) = NewMarshall
      BY NewIs DEF Made, NewMarshall
    <3> QED
      BY <1>1, <1>3, <1>4, <3>1, NewIs
  <2>2. ASSUME NEW k \in 0..(w - 1), k \in T PROVE k + 1 \in T
    <3>1. k + 1 \in 1..w /\ k + 1 \in 0..w /\ (k + 1) - 1 = k /\ k \in 0..w
      BY <1>1
    <3>2. c[k] \in Nat /\ c[k + 1] = c[k] + Len(e(k + 1)) /\ e(k + 1) \in Seq(Byte) /\ At(b, c[k], e(k + 1))
      BY <1>4, <3>1
    <3>3. n[k] = Made(b, c[k]) /\ RPC_HEADER_SZ <= c[k] /\ n[k + 1] = Add(n[k], e(k + 1))
      BY <1>3, <2>2, <3>1
    <3>4. n[k + 1] = Made(b, c[k + 1])
      BY <3>2, <3>3, MadeNext
    <3>5. Len(e(k + 1)) \in Nat
      BY <3>2
    <3>6. RPC_HEADER_SZ <= c[k + 1]
      BY <3>2, <3>3, <3>5, NewIs
    <3> QED
      BY <3>1, <3>4, <3>6
  <2> HIDE DEF T
  <2>3. 0..w \subseteq T
    BY <1>1, <2>1, <2>2, InductionUpTo
  <2> QED
    BY <2>3 DEF T
<1>6. w \in 0..w
  BY <1>1
<1> QED
  BY <1>3, <1>5, <1>6 DEF w

(* The arguments and the head after each of them is read.                  *)
Accs(b) == [v : Seq(PlainValues), u : Heads(b)]
ReadInto(a, T) == LET x == ReadPlain(a.u, T) IN [v |-> Append(a.v, x.v), u |-> x.u]
ReadOut(b, u, types, acc) ==
  /\ acc \in [0..Len(types) -> Accs(b)] /\ acc[0] = [v |-> <<>>, u |-> u]
  /\ \A k \in 1..Len(types) : /\ acc[k] = ReadInto(acc[k - 1], types[k])
                              /\ IsRead(b, acc[k - 1].u, types[k], ReadPlain(acc[k - 1].u, types[k]))
  /\ Unmarshalled(u, types) = [good |-> okdone(acc[Len(types)].u), args |-> acc[Len(types)].v]
LEMMA ReadOutIs ==
  ASSUME NEW b, Sound(b), NEW u \in Heads(b), NEW types \in Seq(PlainTypes)
  PROVE  \E acc : ReadOut(b, u, types, acc)
<1> DEFINE w == Len(types)
           Next1(a, k) == LET x == Read(a.u, types[k], Default(types[k])) IN [v |-> Append(a.v, x.v), u |-> x.u]
           start == [v |-> <<>>, u |-> u]
           Is(n) == n = [k \in 0..w |-> IF k = 0 THEN start ELSE Next1(n[k - 1], k)]
           f == [k \in 0..w |-> [y \in Accs(b) |-> IF k = 0 THEN y ELSE Next1(y, k)]]
<1>1. w \in Nat
  OBVIOUS
<1>2. ASSUME NEW k \in 1..w, NEW y \in Accs(b)
      PROVE  /\ Next1(y, k) = ReadInto(y, types[k]) /\ Next1(y, k) \in Accs(b)
             /\ IsRead(b, y.u, types[k], ReadPlain(y.u, types[k]))
  <2>1. types[k] \in PlainTypes /\ y.u \in Heads(b) /\ y.v \in Seq(PlainValues)
    BY DEF Accs
  <2>2. Plain(types[k]) /\ Read(y.u, types[k], Default(types[k])) = ReadPlain(y.u, types[k])
    BY <2>1, PlainTypesArePlain
  <2>3. IsRead(b, y.u, types[k], ReadPlain(y.u, types[k]))
    BY <2>1, <2>2, ReadPlainIs
  <2>4. Next1(y, k) = ReadInto(y, types[k])
    BY <2>2 DEF ReadInto
  <2>5. ReadInto(y, types[k]) \in Accs(b)
    <3> DEFINE x == ReadPlain(y.u, types[k])
    <3>1. x.v \in PlainValues /\ x.u \in Heads(b)
      BY <2>3 DEF IsRead
    <3>2. ReadInto(y, types[k]) = [v |-> Append(y.v, x.v), u |-> x.u]
      BY DEF ReadInto
    <3> HIDE DEF x
    <3>3. Append(y.v, x.v) \in Seq(PlainValues)
      BY <2>1, <3>1
    <3> QED
      BY <3>1, <3>2, <3>3 DEF Accs
  <2> QED
    BY <2>3, <2>4, <2>5
<1>3. start \in Accs(b)
  BY DEF Accs
<1>4. Unmarshalled(u, types) = [good |-> okdone((CHOOSE n : Is(n))[w].u), args |-> (CHOOSE n : Is(n))[w].v]
  BY Zenon DEF Unmarshalled, ReadEach
<1> HIDE DEF w, Next1, start
<1>5. f \in Steps(w, Accs(b))
  BY <1>1, <1>2 DEF Steps
<1>6. PICK g : Follows(g, w, Accs(b), start, f)
  <2> HIDE DEF f
  <2> QED
    BY <1>1, <1>3, <1>5, RecursionOn
<1>7. ASSUME NEW k \in 1..w PROVE g[k] = Next1(g[k - 1], k)
  <2>1. k \in 0..w /\ k # 0 /\ k - 1 \in 0..w /\ g[k - 1] \in Accs(b)
    BY <1>1, <1>6 DEF Follows
  <2>2. f[k][g[k - 1]] = Next1(g[k - 1], k)
    BY <2>1
  <2> QED
    BY <1>6, <2>2 DEF Follows
<1>8. Is(g)
  BY <1>6, <1>7 DEF Follows
<1> DEFINE n == CHOOSE n : Is(n)
<1>9. Is(n)
  BY <1>8
<1>10. Unmarshalled(u, types) = [good |-> okdone(n[w].u), args |-> n[w].v]
  BY <1>4
<1> HIDE DEF n
<1>11. n[0] = start /\ DOMAIN n = 0..w /\ \A k \in 1..w : n[k] = Next1(n[k - 1], k)
  BY <1>1, <1>9
<1>12. \A k \in 0..w : n[k] \in Accs(b)
  <2> DEFINE T == {k \in 0..w : n[k] \in Accs(b)}
  <2>1. 0 \in T
    BY <1>1, <1>3, <1>11
  <2>2. ASSUME NEW k \in 0..(w - 1), k \in T PROVE k + 1 \in T
    <3>1. k + 1 \in 1..w /\ k + 1 \in 0..w /\ (k + 1) - 1 = k
      BY <1>1
    <3> QED
      BY <1>2, <1>11, <2>2, <3>1
  <2> HIDE DEF T
  <2>3. 0..w \subseteq T
    BY <1>1, <2>1, <2>2, InductionUpTo
  <2> QED
    BY <2>3 DEF T
<1>13. \A k \in 1..w : n[k] = ReadInto(n[k - 1], types[k]) /\ IsRead(b, n[k - 1].u, types[k], ReadPlain(n[k - 1].u, types[k]))
  <2> SUFFICES ASSUME NEW k \in 1..w
               PROVE  n[k] = ReadInto(n[k - 1], types[k]) /\ IsRead(b, n[k - 1].u, types[k], ReadPlain(n[k - 1].u, types[k]))
    OBVIOUS
  <2>1. k - 1 \in 0..w
    BY <1>1
  <2>2. n[k - 1] \in Accs(b) /\ n[k] = Next1(n[k - 1], k)
    BY <1>11, <1>12, <2>1
  <2> QED
    BY <1>2, <2>2
<1>14. n \in [0..w -> Accs(b)]
  BY <1>9, <1>12
<1>15. ReadOut(b, u, types, n)
  BY <1>10, <1>11, <1>13, <1>14 DEF ReadOut, w, start
<1> QED
  BY <1>15

(* What was read so far is what each read gave.                            *)
Collected(types, acc) ==
  \A k \in 0..Len(types) : /\ acc[k].v \in Seq(PlainValues) /\ Len(acc[k].v) = k
                           /\ \A j \in 1..k : acc[k].v[j] = ReadPlain(acc[j - 1].u, types[j]).v
LEMMA ReadOutValues ==
  ASSUME NEW b, NEW u, NEW types \in Seq(PlainTypes), NEW acc, ReadOut(b, u, types, acc)
  PROVE  Collected(types, acc)
<1> DEFINE w == Len(types)
           x(j) == ReadPlain(acc[j - 1].u, types[j]).v
           T == {k \in 0..w : Len(acc[k].v) = k /\ \A j \in 1..k : acc[k].v[j] = x(j)}
<1>6. /\ acc \in [0..w -> Accs(b)] /\ acc[0] = [v |-> <<>>, u |-> u]
      /\ \A k \in 1..w : acc[k] = ReadInto(acc[k - 1], types[k])
  BY DEF ReadOut
<1>7. w \in Nat
  OBVIOUS
<1>1. w \in Nat /\ \A k \in 0..w : acc[k].v \in Seq(PlainValues)
  <2> HIDE DEF w
  <2> QED
    BY <1>6, <1>7 DEF Accs
<1>2. acc[0].v = <<>> /\ \A k \in 1..w : acc[k].v = Append(acc[k - 1].v, x(k))
  <2>1. ASSUME NEW a, NEW S PROVE ReadInto(a, S).v = Append(a.v, ReadPlain(a.u, S).v)
    BY DEF ReadInto
  <2>2. ASSUME NEW k \in 1..w PROVE acc[k].v = Append(acc[k - 1].v, x(k))
    BY <1>6, <2>1
  <2> QED
    BY <1>6, <2>2
<1> HIDE DEF w, x
<1>3. 0 \in T
  BY <1>1, <1>2
<1>4. ASSUME NEW k \in 0..(w - 1), k \in T PROVE k + 1 \in T
  <2>1. k + 1 \in 1..w /\ k + 1 \in 0..w /\ (k + 1) - 1 = k /\ k \in 0..w
    BY <1>1
  <2> DEFINE s == acc[k].v
  <2>2. s \in Seq(PlainValues) /\ Len(s) = k /\ acc[k + 1].v = Append(s, x(k + 1))
    BY <1>1, <1>2, <1>4, <2>1
  <2>3. \A j \in 1..k : s[j] = x(j)
    BY <1>4
  <2> HIDE DEF s
  <2>4. Len(Append(s, x(k + 1))) = k + 1 /\ Append(s, x(k + 1))[k + 1] = x(k + 1)
        /\ \A j \in 1..k : Append(s, x(k + 1))[j] = s[j]
    BY <2>2
  <2>5. ASSUME NEW j \in 1..(k + 1) PROVE acc[k + 1].v[j] = x(j)
    <3>1. j \in 1..k \/ j = k + 1
      OBVIOUS
    <3> QED
      BY <2>2, <2>3, <2>4, <3>1
  <2>6. Len(acc[k + 1].v) = k + 1
    BY <2>2, <2>4
  <2> QED
    BY <2>1, <2>5, <2>6
<1> HIDE DEF T
<1>5. 0..w \subseteq T
  BY <1>1, <1>3, <1>4, InductionUpTo
<1> QED
  BY <1>1, <1>5 DEF Collected, T, w, x

(* Arguments that the server reads to the end stand in the message.        *)
LEMMA UnmarshalledBack ==
  ASSUME NEW b, Sound(b), RPC_HEADER_SZ <= Len(b), NEW types \in Seq(PlainTypes),
         Unmarshalled(U(b, RPC_HEADER_SZ), types).good
  PROVE  LET args == Unmarshalled(U(b, RPC_HEADER_SZ), types).args
         IN Len(args) = Len(types) /\ \E c : Laid(b, RPC_HEADER_SZ, types, args, c) /\ c[Len(types)] = Len(b)
<1> DEFINE w == Len(types)
           u == U(b, RPC_HEADER_SZ)
           args == Unmarshalled(u, types).args
<1>1. u \in Heads(b) /\ Len(b) \in Nat /\ w \in Nat /\ u.ind = RPC_HEADER_SZ
  BY NewIs DEF Heads, U, Sound
<1>2. PICK acc : ReadOut(b, u, types, acc)
  BY <1>1, ReadOutIs
<1> DEFINE x(k) == ReadPlain(acc[k - 1].u, types[k])
<1>12. /\ acc \in [0..w -> Accs(b)] /\ acc[0] = [v |-> <<>>, u |-> u]
       /\ \A k \in 1..w : acc[k] = ReadInto(acc[k - 1], types[k]) /\ IsRead(b, acc[k - 1].u, types[k], x(k))
       /\ Unmarshalled(u, types) = [good |-> okdone(acc[w].u), args |-> acc[w].v]
  BY <1>2 DEF ReadOut
<1>13. \A k \in 0..w : Len(acc[k].v) = k /\ \A j \in 1..k : acc[k].v[j] = x(j).v
  <2> HIDE DEF u
  <2>1. Collected(types, acc)
    BY <1>2, ReadOutValues
  <2> QED
    BY <2>1 DEF Collected
<1>3. /\ acc \in [0..w -> Accs(b)] /\ acc[0].u = u /\ args = acc[w].v /\ okdone(acc[w].u)
      /\ \A k \in 1..w : acc[k].u = x(k).u /\ IsRead(b, acc[k - 1].u, types[k], x(k))
  <2>1. ASSUME NEW a, NEW S PROVE ReadInto(a, S).u = ReadPlain(a.u, S).u
    BY DEF ReadInto
  <2>2. ASSUME NEW k \in 1..w PROVE acc[k].u = x(k).u
    BY <1>12, <2>1
  <2>3. acc[0].u = u /\ args = acc[w].v /\ okdone(acc[w].u)
    BY <1>12
  <2> QED
    BY <1>12, <2>2, <2>3
<1>4. Len(args) = w /\ \A j \in 1..w : args[j] = x(j).v
  <2>1. w \in 0..w
    BY <1>1
  <2> HIDE DEF x, w, args
  <2> QED
    BY <1>3, <1>13, <2>1
<1> HIDE DEF w, x, args
<1>5. \A k \in 0..w : acc[k].u \in Heads(b) /\ acc[k].u.ok \in BOOLEAN /\ acc[k].u.ind \in Nat
  <2>1. ASSUME NEW k \in 0..w PROVE acc[k].u \in Heads(b)
    BY <1>3 DEF Accs
  <2> QED
    BY <2>1, HeadsIs
<1>6. \A k \in 0..w : acc[k].u.ok => \A j \in 0..k : acc[j].u.ok
  <2> DEFINE T == {k \in 0..w : acc[k].u.ok => \A j \in 0..k : acc[j].u.ok}
  <2>1. 0 \in T
    BY <1>1
  <2>2. ASSUME NEW k \in 0..(w - 1), k \in T PROVE k + 1 \in T
    <3>1. k + 1 \in 1..w /\ k + 1 \in 0..w /\ (k + 1) - 1 = k /\ k \in 0..w
      BY <1>1
    <3>2. acc[k + 1].u.ok => acc[k].u.ok
      BY <1>3, <1>5, <3>1 DEF IsRead
    <3>3. \A j \in 0..(k + 1) : j \in 0..k \/ j = k + 1
      OBVIOUS
    <3> QED
      BY <2>2, <3>1, <3>2, <3>3
  <2> HIDE DEF T
  <2>3. 0..w \subseteq T
    BY <1>1, <2>1, <2>2, InductionUpTo
  <2> QED
    BY <2>3 DEF T
<1>7. acc[w].u.ok /\ acc[w].u.ind = Len(b) /\ w \in 0..w
  <2>1. w \in 0..w /\ acc[w].u \in Heads(b)
    BY <1>1, <1>5
  <2>2. acc[w].u.buf = b
    BY <2>1, HeadsIs
  <2> QED
    BY <1>3, <2>1, <2>2 DEF okdone
<1>8. \A j \in 0..w : acc[j].u.ok
  BY <1>6, <1>7
<1> DEFINE c == [k \in 0..w |-> acc[k].u.ind]
<1>9. c \in [0..w -> Nat] /\ c[0] = RPC_HEADER_SZ /\ c[w] = Len(b)
  BY <1>1, <1>3, <1>5, <1>7
<1>10. ASSUME NEW k \in 1..w
       PROVE  LET e == Enc(types[k], args[k])
              IN FitsPlain(types[k], args[k]) /\ e \in Seq(Byte) /\ At(b, c[k - 1], e) /\ c[k] = c[k - 1] + Len(e)
  <2>1. k \in 0..w /\ k - 1 \in 0..w /\ c[k] = acc[k].u.ind /\ c[k - 1] = acc[k - 1].u.ind
    BY <1>1
  <2> HIDE DEF c
  <2>2. x(k).u.ok /\ x(k).u = acc[k].u /\ IsRead(b, acc[k - 1].u, types[k], x(k)) /\ args[k] = x(k).v
    BY <1>3, <1>4, <1>8, <2>1
  <2> DEFINE e == Enc(types[k], args[k])
  <2>3. /\ FitsPlain(types[k], args[k]) /\ e \in Seq(Byte)
        /\ At(b, acc[k - 1].u.ind, e) /\ acc[k].u = U(b, acc[k - 1].u.ind + Len(e))
    BY <2>2 DEF IsRead
  <2> HIDE DEF e
  <2>4. acc[k].u.ind = acc[k - 1].u.ind + Len(e)
    BY <2>3 DEF U
  <2>5. At(b, c[k - 1], e) /\ c[k] = c[k - 1] + Len(e)
    BY <2>1, <2>3, <2>4
  <2> QED
    BY <2>3, <2>5 DEF e
<1> HIDE DEF c
<1>11. Laid(b, RPC_HEADER_SZ, types, args, c)
  BY <1>9, <1>10 DEF Laid, w
<1> QED
  BY <1>4, <1>9, <1>11 DEF w, args

(* And what stands in the message is what the server reads.                *)
LEMMA UnmarshalledAt ==
  ASSUME NEW b, Sound(b), RPC_HEADER_SZ <= Len(b), NEW types \in Seq(PlainTypes),
         NEW vals \in Seq(PlainValues), Len(vals) = Len(types),
         NEW c, Laid(b, RPC_HEADER_SZ, types, vals, c), c[Len(types)] = Len(b)
  PROVE  Unmarshalled(U(b, RPC_HEADER_SZ), types) = [good |-> TRUE, args |-> vals]
<1> DEFINE w == Len(types)
           u == U(b, RPC_HEADER_SZ)
<1>1. u \in Heads(b) /\ Len(b) \in Nat /\ w \in Nat /\ b \in Seq(Cell) /\ w \in 0..w
  BY NewIs DEF Heads, U, Sound
<1>2. PICK acc : ReadOut(b, u, types, acc)
  BY <1>1, ReadOutIs
<1> DEFINE x(k) == ReadPlain(acc[k - 1].u, types[k])
<1>3. /\ acc[0] = [v |-> <<>>, u |-> u] /\ \A k \in 1..w : acc[k] = ReadInto(acc[k - 1], types[k])
      /\ Unmarshalled(u, types) = [good |-> okdone(acc[w].u), args |-> acc[w].v]
  BY <1>2 DEF ReadOut
<1>4. \A k \in 0..w : /\ acc[k].v \in Seq(PlainValues) /\ Len(acc[k].v) = k
                      /\ \A j \in 1..k : acc[k].v[j] = x(j).v
  <2> HIDE DEF u
  <2>1. Collected(types, acc)
    BY <1>2, ReadOutValues
  <2> QED
    BY <2>1 DEF Collected
<1>5. \A k \in 1..w : acc[k].u = x(k).u
  <2>1. ASSUME NEW a, NEW S PROVE ReadInto(a, S).u = ReadPlain(a.u, S).u
    BY DEF ReadInto
  <2> QED
    BY <1>3, <2>1
<1>6. \A k \in 1..w : types[k] \in PlainTypes /\ Plain(types[k])
  BY PlainTypesArePlain
<1>7. /\ c \in [0..w -> Nat] /\ c[0] = RPC_HEADER_SZ
      /\ \A k \in 1..w : LET e == Enc(types[k], vals[k])
                         IN FitsPlain(types[k], vals[k]) /\ At(b, c[k - 1], e) /\ c[k] = c[k - 1] + Len(e)
  BY DEF Laid
<1>8. Len(vals) = w /\ vals = [j \in 1..w |-> vals[j]] /\ c[w] = Len(b)
  OBVIOUS
<1>9. ASSUME NEW k \in 1..w, acc[k - 1].u = U(b, c[k - 1])
      PROVE  x(k).v = vals[k] /\ acc[k].u = U(b, c[k])
  <2> DEFINE e == Enc(types[k], vals[k])
  <2>1. /\ FitsPlain(types[k], vals[k]) /\ At(b, c[k - 1], e) /\ c[k] = c[k - 1] + Len(e)
        /\ c[k - 1] \in Nat /\ Plain(types[k])
    <3>1. k - 1 \in 0..w
      BY <1>1
    <3>2. c[k - 1] \in Nat /\ Plain(types[k])
      BY <1>6, <1>7, <3>1
    <3> QED
      BY <1>7, <3>2, Zenon
  <2>2. ReadPlain(U(b, c[k - 1]), types[k]) = [v |-> vals[k], u |-> U(b, c[k - 1] + Len(e))]
    BY <1>1, <2>1, ReadPlainAt
  <2>3. x(k) = [v |-> vals[k], u |-> U(b, c[k])]
    BY <1>9, <2>1, <2>2
  <2> HIDE DEF x, e
  <2> QED
    BY <1>5, <2>3
<1> HIDE DEF w, x
<1>10. \A k \in 0..w : acc[k].u = U(b, c[k])
  <2> DEFINE T == {k \in 0..w : acc[k].u = U(b, c[k])}
  <2>1. 0 \in T
    BY <1>1, <1>3, <1>7
  <2>2. ASSUME NEW k \in 0..(w - 1), k \in T PROVE k + 1 \in T
    <3>1. k + 1 \in 1..w /\ k + 1 \in 0..w /\ (k + 1) - 1 = k /\ k \in 0..w
      BY <1>1
    <3> QED
      BY <1>9, <2>2, <3>1
  <2> HIDE DEF T
  <2>3. 0..w \subseteq T
    BY <1>1, <2>1, <2>2, InductionUpTo
  <2> QED
    BY <2>3 DEF T
<1>11. \A k \in 1..w : x(k).v = vals[k]
  <2>1. \A k \in 1..w : k - 1 \in 0..w
    BY <1>1
  <2> QED
    BY <1>9, <1>10, <2>1
<1>12. acc[w].v = vals
  <2> DEFINE s == acc[w].v
  <2>1. s \in Seq(PlainValues) /\ Len(s) = w /\ \A j \in 1..w : s[j] = vals[j]
    BY <1>1, <1>4, <1>11
  <2> HIDE DEF s
  <2>2. s = [j \in 1..w |-> s[j]]
    BY <2>1
  <2>3. s = vals
    BY <1>8, <2>1, <2>2
  <2> QED
    BY <2>3 DEF s
<1>13. acc[w].u = U(b, Len(b))
  BY <1>1, <1>8, <1>10
<1>14. okdone(acc[w].u) = TRUE
  BY <1>13 DEF okdone, U
<1> QED
  BY <1>3, <1>12, <1>14 DEF w

(* What args >> a1; ... args >> a7 reads from the message of m << a1; ...  *)
(* m << a7 is a1 to a7, for any number of arguments of the types ints,     *)
(* strings and attrs, whatever their values.                               *)
THEOREM ArgumentsComeBack ==
  ASSUME NEW types, NEW vals \in Seq(PlainValues), Fitting(types, vals)
  PROVE  Unmarshalled(U(Marshalled(types, vals).buf, RPC_HEADER_SZ), types) = [good |-> TRUE, args |-> vals]
<1> DEFINE m == Marshalled(types, vals)
           b == m.buf
<1>1. AtEnd(m) /\ Sound(b) /\ RPC_HEADER_SZ <= m.ind
  BY LaidOut
<1>2. PICK c : Laid(b, RPC_HEADER_SZ, types, vals, c) /\ c[Len(types)] = m.ind
  BY LaidOut
<1>3. types \in Seq(PlainTypes) /\ Len(vals) = Len(types) /\ m.ind = Len(b)
  BY <1>1 DEF Fitting, AtEnd
<1> HIDE DEF m
<1> QED
  BY <1>1, <1>2, <1>3, UnmarshalledAt DEF m

(* And if the server's reads take a message to its end without one past    *)
(* it, then marshalling what they gave makes the same message, up to the   *)
(* header: okdone() accepts no message but those of its own types.         *)
THEOREM OnlyItsOwnIsRead ==
  ASSUME NEW b, Sound(b), RPC_HEADER_SZ <= Len(b), NEW types \in Seq(PlainTypes),
         Unmarshalled(U(b, RPC_HEADER_SZ), types).good
  PROVE  Marshalled(types, Unmarshalled(U(b, RPC_HEADER_SZ), types).args) = Made(b, Len(b))
<1> DEFINE args == Unmarshalled(U(b, RPC_HEADER_SZ), types).args
<1>1. Len(args) = Len(types) /\ \E c : Laid(b, RPC_HEADER_SZ, types, args, c) /\ c[Len(types)] = Len(b)
  BY UnmarshalledBack
<1> HIDE DEF args
<1>2. Marshalled(types, args) = Made(b, Len(b))
  BY <1>1, MadeOf
<1> QED
  BY <1>2 DEF args

-----------------------------------------------------------------------------
(* The header.                                                             *)

(* What a marshall is before its header is packed: the room for the header *)
(* is there and the head is past it.                                       *)
Marshalls(B) == {m \in [buf : Seq(B), ind : Nat] :
                   RPC_HEADER_SZ <= m.ind /\ m.ind <= Len(m.buf)}

(* n is m but for bytes of the header after the size, and with its head.   *)
OnlyHeaderDiffers(m, n) ==
  /\ n.ind = m.ind /\ DOMAIN n.buf = DOMAIN m.buf
  /\ \A k \in DOMAIN m.buf : k <= W \/ k > RPC_HEADER_SZ => n.buf[k] = m.buf[k]

(* n is m with its head at byte at, and only the bytes between the size    *)
(* and the head were written.                                              *)
Kept(B, m, n, at) ==
  /\ n = [buf |-> n.buf, ind |-> at] /\ n.buf \in Seq(B \cup Byte)
  /\ DOMAIN n.buf = 1..Len(m.buf) /\ Len(n.buf) = Len(m.buf)
  /\ \A k \in 1..Len(m.buf) : k <= W \/ k > at => n.buf[k] = m.buf[k]

LEMMA RemainderDigits ==
  ASSUME NEW i \in Int
  PROVE  /\ i % Word \in 0..(Word - 1) /\ Digits(i % Word, W) \in Seq(Byte) /\ Len(Digits(i % Word, W)) = W
         /\ \A k \in 1..W : Digits(i % Word, W)[k] \in Byte
<1>1. Word \in Nat \ {0} /\ W \in Nat
  BY WordType
<1>2. i % Word \in 0..(Word - 1) /\ i % Word \in Nat
  <2> HIDE WidthAssumption
  <2> DEFINE n == Word
  <2>1. n \in Nat \ {0}
    BY <1>1
  <2> HIDE DEF n
  <2>2. i % n \in 0..(n - 1) /\ i % n \in Nat
    BY <2>1
  <2> QED
    BY <2>2 DEF n
<1> QED
  BY <1>1, <1>2, DigitsType

(* An int that is packed within the buffer changes the next W bytes.       *)
LEMMA PackInside ==
  ASSUME NEW B, NEW buf \in Seq(B \cup Byte), NEW at \in Nat, at + W <= Len(buf), NEW i \in Int
  PROVE  LET n == pack([buf |-> buf, ind |-> at], i)
         IN /\ n = [buf |-> n.buf, ind |-> at + W]
            /\ n.buf \in Seq(B \cup Byte) /\ DOMAIN n.buf = 1..Len(buf) /\ Len(n.buf) = Len(buf)
            /\ \A k \in 1..Len(buf) : k <= at \/ k > at + W => n.buf[k] = buf[k]
            /\ At(n.buf, at, Digits(i % Word, W))
<1> DEFINE d == Digits(i % Word, W)
           n == pack([buf |-> buf, ind |-> at], i)
           len == Len(buf)
<1>1. Len(d) = W /\ \A k \in 1..W : d[k] \in Byte
  BY RemainderDigits
<1>2. len \in Nat /\ at + W <= len /\ W \in Nat /\ \A k \in 1..len : buf[k] \in B \cup Byte
  BY WordType
<1> HIDE DEF d
<1>3. n = [buf |-> [k \in 1..len |-> IF k \in (at + 1)..(at + W) THEN d[k - at] ELSE buf[k]],
           ind |-> at + W]
  <2> DEFINE mm == [buf |-> buf, ind |-> at]
  <2>1. mm.buf = buf /\ mm.ind = at /\ n = RawBytes(mm, d)
    BY DEF pack, d
  <2> HIDE DEF mm, n
  <2>2. at + Len(d) = at + W /\ (IF at + W > Len(buf) THEN at + W ELSE Len(buf)) = len
    BY <1>1, <1>2
  <2> QED
    BY <2>1, <2>2, Zenon DEF RawBytes
<1> HIDE DEF n, len
<1>4. n.buf = [k \in 1..len |-> IF k \in (at + 1)..(at + W) THEN d[k - at] ELSE buf[k]]
  BY <1>3
<1>5. ASSUME NEW k \in 1..len PROVE (IF k \in (at + 1)..(at + W) THEN d[k - at] ELSE buf[k]) \in B \cup Byte
  BY <1>1, <1>2
<1>6. DOMAIN n.buf = 1..len /\ Len(n.buf) = len /\ n.buf \in Seq(B \cup Byte)
  BY <1>2, <1>4, <1>5
<1>7. At(n.buf, at, d)
  BY <1>1, <1>2, <1>4, <1>6 DEF At
<1>8. n = [buf |-> n.buf, ind |-> at + W]
  BY <1>3
<1>9. \A k \in 1..len : k <= at \/ k > at + W => n.buf[k] = buf[k]
  BY <1>2, <1>4
<1> QED
  BY <1>6, <1>7, <1>8, <1>9 DEF n, d, len

LEMMA KeptInit ==
  ASSUME NEW B, NEW m \in Marshalls(B)
  PROVE  /\ Kept(B, m, [m EXCEPT !.ind = W], W)
         /\ Len(m.buf) \in Nat /\ 6 * W <= Len(m.buf)
<1>1. m.buf \in Seq(B) /\ Len(m.buf) \in Nat /\ 6 * W <= Len(m.buf) /\ m = [buf |-> m.buf, ind |-> m.ind]
  BY DEF Marshalls, RPC_HEADER_SZ
<1>2. m.buf \in Seq(B \cup Byte) /\ DOMAIN m.buf = 1..Len(m.buf)
  BY <1>1
<1>3. [m EXCEPT !.ind = W] = [buf |-> m.buf, ind |-> W]
  BY <1>1
<1> QED
  BY <1>1, <1>2, <1>3 DEF Kept

LEMMA KeptPack ==
  ASSUME NEW B, NEW m, Len(m.buf) \in Nat, NEW n, NEW at \in Nat, NEW i \in Int,
         W <= at, at + W <= Len(m.buf), Kept(B, m, n, at)
  PROVE  /\ Kept(B, m, pack(n, i), at + W) /\ At(pack(n, i).buf, at, Digits(i % Word, W))
         /\ \A j \in Nat : \A s \in Seq(Byte) : j + Len(s) <= at /\ At(n.buf, j, s) => At(pack(n, i).buf, j, s)
<1> DEFINE len == Len(m.buf)
           p == pack([buf |-> n.buf, ind |-> at], i)
<1>1. /\ n = [buf |-> n.buf, ind |-> at] /\ n.buf \in Seq(B \cup Byte)
      /\ len \in Nat /\ at + W <= len /\ DOMAIN n.buf = 1..len /\ Len(n.buf) = len
      /\ \A k \in 1..len : k <= W \/ k > at => n.buf[k] = m.buf[k]
  BY DEF Kept
<1> HIDE DEF len
<1>2. /\ p = [buf |-> p.buf, ind |-> at + W]
      /\ p.buf \in Seq(B \cup Byte) /\ DOMAIN p.buf = 1..len /\ Len(p.buf) = len
      /\ \A k \in 1..len : k <= at \/ k > at + W => p.buf[k] = n.buf[k]
      /\ At(p.buf, at, Digits(i % Word, W))
  <2> DEFINE x == n.buf
  <2>1. x \in Seq(B \cup Byte) /\ at + W <= Len(x) /\ Len(x) = len
    BY <1>1
  <2> HIDE DEF x
  <2> DEFINE q == pack([buf |-> x, ind |-> at], i)
  <2>2. /\ q = [buf |-> q.buf, ind |-> at + W]
        /\ q.buf \in Seq(B \cup Byte) /\ DOMAIN q.buf = 1..Len(x) /\ Len(q.buf) = Len(x)
        /\ \A k \in 1..Len(x) : k <= at \/ k > at + W => q.buf[k] = x[k]
        /\ At(q.buf, at, Digits(i % Word, W))
    BY <2>1, PackInside
  <2> QED
    BY <2>1, <2>2 DEF x
<1>3. pack(n, i) = p
  BY <1>1
<1> HIDE DEF p
<1>4. Kept(B, m, p, at + W)
  BY <1>1, <1>2 DEF Kept, len
<1>5. ASSUME NEW j \in Nat, NEW s \in Seq(Byte), j + Len(s) <= at, At(n.buf, j, s) PROVE At(p.buf, j, s)
  <2>1. \A k \in 1..Len(s) : n.buf[j + k] = s[k] /\ j + k \in 1..len /\ j + k <= at
    BY <1>1, <1>5 DEF At
  <2>2. j + Len(s) <= len
    BY <1>1, <1>5, WordType
  <2> QED
    BY <1>2, <2>1, <2>2 DEF At
<1> QED
  BY <1>2, <1>3, <1>4, <1>5

LEMMA KeptHeader ==
  ASSUME NEW B, NEW m \in Marshalls(B), NEW n, NEW at \in Nat, at <= RPC_HEADER_SZ, Kept(B, m, n, at)
  PROVE  /\ OnlyHeaderDiffers(m, [n EXCEPT !.ind = m.ind])
         /\ [n EXCEPT !.ind = m.ind] = [buf |-> n.buf, ind |-> m.ind] /\ n.buf \in Seq(B \cup Byte)
<1>1. [n EXCEPT !.ind = m.ind] = [buf |-> n.buf, ind |-> m.ind] /\ n.buf \in Seq(B \cup Byte)
  BY DEF Kept
<1>2. DOMAIN m.buf = 1..Len(m.buf) /\ Len(m.buf) \in Nat
  BY DEF Marshalls
<1>3. \A k \in 1..Len(m.buf) : k <= W \/ k > RPC_HEADER_SZ => n.buf[k] = m.buf[k]
  BY <1>2 DEF Kept, RPC_HEADER_SZ
<1> QED
  BY <1>1, <1>2, <1>3 DEF Kept, OnlyHeaderDiffers

(* The ints of a header, packed and unpacked.                              *)
IntBytes(i) == Digits(i % Word, W)
LEMMA KeptNext ==
  ASSUME NEW B, NEW m, Len(m.buf) \in Nat, NEW n, NEW at \in Nat, NEW i \in Int, NEW to \in Nat, to = at + W,
         W <= at, to <= Len(m.buf), Kept(B, m, n, at)
  PROVE  /\ Kept(B, m, pack(n, i), to) /\ At(pack(n, i).buf, at, IntBytes(i))
         /\ \A j \in Nat, x \in Int : j + W <= at /\ At(n.buf, j, IntBytes(x)) => At(pack(n, i).buf, j, IntBytes(x))
<1>1. /\ Kept(B, m, pack(n, i), at + W) /\ At(pack(n, i).buf, at, Digits(i % Word, W))
      /\ \A j \in Nat : \A s \in Seq(Byte) : j + Len(s) <= at /\ At(n.buf, j, s) => At(pack(n, i).buf, j, s)
  BY KeptPack
<1>2. \A x \in Int : IntBytes(x) \in Seq(Byte) /\ Len(IntBytes(x)) = W
  BY RemainderDigits DEF IntBytes
<1>3. At(pack(n, i).buf, at, IntBytes(i))
  BY <1>1 DEF IntBytes
<1> QED
  BY <1>1, <1>2, <1>3

LEMMA Places ==
  ASSUME NEW len \in Nat, 6 * W <= len
  PROVE  /\ W \in Nat /\ 2 * W \in Nat /\ 3 * W \in Nat /\ 4 * W \in Nat /\ 5 * W \in Nat /\ 6 * W \in Nat
         /\ 2 * W = W + W /\ 3 * W = 2 * W + W /\ 4 * W = 3 * W + W /\ 5 * W = 4 * W + W /\ 6 * W = 5 * W + W
         /\ W <= 2 * W /\ W <= 3 * W /\ W <= 4 * W /\ W <= 5 * W
         /\ 2 * W <= len /\ 3 * W <= len /\ 4 * W <= len /\ 5 * W <= len
         /\ W + W <= 2 * W /\ W + W <= 3 * W /\ W + W <= 4 * W /\ W + W <= 5 * W
         /\ 2 * W + W <= 3 * W /\ 2 * W + W <= 4 * W /\ 2 * W + W <= 5 * W
         /\ 3 * W + W <= 4 * W /\ 3 * W + W <= 5 * W /\ 4 * W + W <= 5 * W
         /\ RPC_HEADER_SZ = 6 * W /\ 3 * W <= RPC_HEADER_SZ /\ 6 * W <= RPC_HEADER_SZ
  BY DEF RPC_HEADER_SZ

ReqHeaders == [xid : Int, proc : Int, clt_nonce : Int, srv_nonce : Int, xid_rep : Int]
LEMMA ReqHeaderIs ==
  ASSUME NEW B, NEW m \in Marshalls(B), NEW h \in ReqHeaders
  PROVE  LET n == pack_req_header(m, h)
         IN /\ OnlyHeaderDiffers(m, n) /\ n = [buf |-> n.buf, ind |-> m.ind] /\ n.buf \in Seq(B \cup Byte)
            /\ At(n.buf, W, IntBytes(h.xid)) /\ At(n.buf, 2 * W, IntBytes(h.proc))
            /\ At(n.buf, 3 * W, IntBytes(h.clt_nonce)) /\ At(n.buf, 4 * W, IntBytes(h.srv_nonce))
            /\ At(n.buf, 5 * W, IntBytes(h.xid_rep))
<1> DEFINE n0 == [m EXCEPT !.ind = W]
           n1 == pack(n0, h.xid)
           n2 == pack(n1, h.proc)
           n3 == pack(n2, h.clt_nonce)
           n4 == pack(n3, h.srv_nonce)
           n5 == pack(n4, h.xid_rep)
<1>1. Kept(B, m, n0, W) /\ Len(m.buf) \in Nat /\ 6 * W <= Len(m.buf)
  BY KeptInit
<1>2. h.xid \in Int /\ h.proc \in Int /\ h.clt_nonce \in Int /\ h.srv_nonce \in Int /\ h.xid_rep \in Int
  BY DEF ReqHeaders
<1> DEFINE len == Len(m.buf)
<1>11. ASSUME NEW n, NEW at \in Nat, NEW i \in Int, NEW to \in Nat, to = at + W, W <= at, to <= len, Kept(B, m, n, at)
       PROVE  /\ Kept(B, m, pack(n, i), to) /\ At(pack(n, i).buf, at, IntBytes(i))
              /\ \A j \in Nat, x \in Int : j + W <= at /\ At(n.buf, j, IntBytes(x)) => At(pack(n, i).buf, j, IntBytes(x))
  BY <1>1, <1>11, KeptNext
<1> HIDE DEF n0
<1>3. Kept(B, m, n1, 2 * W) /\ At(n1.buf, W, IntBytes(h.xid))
  BY <1>1, <1>2, <1>11, Places
<1> HIDE DEF n1
<1>4. Kept(B, m, n2, 3 * W) /\ At(n2.buf, W, IntBytes(h.xid)) /\ At(n2.buf, 2 * W, IntBytes(h.proc))
  BY <1>1, <1>2, <1>3, <1>11, Places
<1> HIDE DEF n2
<1>5. /\ Kept(B, m, n3, 4 * W) /\ At(n3.buf, W, IntBytes(h.xid)) /\ At(n3.buf, 2 * W, IntBytes(h.proc))
      /\ At(n3.buf, 3 * W, IntBytes(h.clt_nonce))
  BY <1>1, <1>2, <1>4, <1>11, Places
<1> HIDE DEF n3
<1>6. /\ Kept(B, m, n4, 5 * W) /\ At(n4.buf, W, IntBytes(h.xid)) /\ At(n4.buf, 2 * W, IntBytes(h.proc))
      /\ At(n4.buf, 3 * W, IntBytes(h.clt_nonce)) /\ At(n4.buf, 4 * W, IntBytes(h.srv_nonce))
  BY <1>1, <1>2, <1>5, <1>11, Places
<1> HIDE DEF n4
<1>7. /\ Kept(B, m, n5, 6 * W) /\ At(n5.buf, W, IntBytes(h.xid)) /\ At(n5.buf, 2 * W, IntBytes(h.proc))
      /\ At(n5.buf, 3 * W, IntBytes(h.clt_nonce)) /\ At(n5.buf, 4 * W, IntBytes(h.srv_nonce))
      /\ At(n5.buf, 5 * W, IntBytes(h.xid_rep))
  BY <1>1, <1>2, <1>6, <1>11, Places
<1>8. pack_req_header(m, h) = [n5 EXCEPT !.ind = m.ind]
  BY DEF pack_req_header, n0, n1, n2, n3, n4
<1> HIDE DEF n5
<1>9. 6 * W \in Nat /\ 6 * W <= RPC_HEADER_SZ
  BY DEF RPC_HEADER_SZ
<1>10. /\ OnlyHeaderDiffers(m, [n5 EXCEPT !.ind = m.ind])
       /\ [n5 EXCEPT !.ind = m.ind] = [buf |-> n5.buf, ind |-> m.ind] /\ n5.buf \in Seq(B \cup Byte)
  BY <1>7, <1>9, KeptHeader
<1> QED
  BY <1>7, <1>8, <1>10

LEMMA ReplyHeaderIs ==
  ASSUME NEW B, NEW m \in Marshalls(B), NEW h, h.xid \in Int, h.ret \in Int
  PROVE  LET n == pack_reply_header(m, h)
         IN /\ OnlyHeaderDiffers(m, n) /\ n = [buf |-> n.buf, ind |-> m.ind] /\ n.buf \in Seq(B \cup Byte)
            /\ At(n.buf, W, IntBytes(h.xid)) /\ At(n.buf, 2 * W, IntBytes(h.ret))
<1> DEFINE n0 == [m EXCEPT !.ind = W]
           n1 == pack(n0, h.xid)
           n2 == pack(n1, h.ret)
<1>1. Kept(B, m, n0, W) /\ Len(m.buf) \in Nat /\ 6 * W <= Len(m.buf)
  BY KeptInit
<1>2. h.xid \in Int /\ h.ret \in Int
  OBVIOUS
<1> DEFINE len == Len(m.buf)
<1>11. ASSUME NEW n, NEW at \in Nat, NEW i \in Int, NEW to \in Nat, to = at + W, W <= at, to <= len, Kept(B, m, n, at)
       PROVE  /\ Kept(B, m, pack(n, i), to) /\ At(pack(n, i).buf, at, IntBytes(i))
              /\ \A j \in Nat, x \in Int : j + W <= at /\ At(n.buf, j, IntBytes(x)) => At(pack(n, i).buf, j, IntBytes(x))
  BY <1>1, <1>11, KeptNext
<1> HIDE DEF n0
<1>3. Kept(B, m, n1, 2 * W) /\ At(n1.buf, W, IntBytes(h.xid))
  BY <1>1, <1>2, <1>11, Places
<1> HIDE DEF n1
<1>4. Kept(B, m, n2, 3 * W) /\ At(n2.buf, W, IntBytes(h.xid)) /\ At(n2.buf, 2 * W, IntBytes(h.ret))
  BY <1>1, <1>2, <1>3, <1>11, Places
<1>5. pack_reply_header(m, h) = [n2 EXCEPT !.ind = m.ind]
  BY DEF pack_reply_header, n0, n1
<1> HIDE DEF n2
<1>6. /\ OnlyHeaderDiffers(m, [n2 EXCEPT !.ind = m.ind])
      /\ [n2 EXCEPT !.ind = m.ind] = [buf |-> n2.buf, ind |-> m.ind] /\ n2.buf \in Seq(B \cup Byte)
  BY <1>1, <1>4, Places, KeptHeader
<1> QED
  BY <1>4, <1>5, <1>6

(* pack_req_header, called with the arguments already in the message,      *)
(* leaves them, the place of the size and the head as they were.           *)
THEOREM ReqHeaderKeepsArguments ==
  ASSUME NEW B, NEW m \in Marshalls(B), NEW h \in ReqHeaders PROVE OnlyHeaderDiffers(m, pack_req_header(m, h))
  BY ReqHeaderIs

(* pack_reply_header leaves the result of the method, which the handler    *)
(* marshalled before it, the place of the size and the head as they were.  *)
THEOREM ReplyHeaderKeepsResult ==
  ASSUME NEW B, NEW m \in Marshalls(B), NEW h \in [xid : Int, ret : Int]
  PROVE  OnlyHeaderDiffers(m, pack_reply_header(m, h))
<1>1. h.xid \in Int /\ h.ret \in Int
  OBVIOUS
<1> QED
  BY <1>1, ReplyHeaderIs

(* The ints of the messages.                                               *)
Ints == (-(Word \div 2))..(Word \div 2 - 1)
LEMMA SignedIs == ASSUME NEW x \in Ints PROVE x \in Int /\ Signed(x % Word) = x
<1> DEFINE n == Word
           q == Word \div 2
<1>1. n \in Nat /\ n > 0 /\ q \in Nat /\ (n = 2 * q \/ n = 2 * q + 1)
  BY WordType
<1>2. x \in Int /\ -q <= x /\ x <= q - 1
  BY <1>1 DEF Ints
<1> HIDE DEF q
<1>3. Signed(x % Word) = IF x % n >= q THEN (x % n) - n ELSE x % n
  BY DEF Signed, q
<1> HIDE DEF n
<1>4. CASE x >= 0
  <2>1. x % n = x
    BY <1>1, <1>2, <1>4
  <2> QED
    BY <1>1, <1>2, <1>3, <2>1
<1>5. CASE x < 0
  <2>1. x % n = x + n
    BY <1>1, <1>2, <1>5
  <2> QED
    BY <1>1, <1>2, <1>3, <1>5, <2>1
<1> QED
  BY <1>2, <1>4, <1>5

LEMMA UnpackAt ==
  ASSUME NEW B, NEW b \in Seq(B), NEW i \in Nat, NEW x \in Ints, At(b, i, IntBytes(x))
  PROVE  unpack(U(b, i)) = [v |-> x, u |-> U(b, i + W)]
<1>1. x \in Int /\ Signed(x % Word) = x
  BY SignedIs
<1>2. x % Word \in 0..(Word - 1)
  BY <1>1, RemainderDigits
<1>3. ReadNumber(U(b, i), W) = [v |-> x % Word, u |-> U(b, i + W)]
  BY <1>2, NumberAt DEF IntBytes
<1>4. Value(Bytes(U(b, i), W)) = x % Word /\ Skip(U(b, i), W) = U(b, i + W)
  BY <1>3 DEF ReadNumber
<1> QED
  BY <1>1, <1>4 DEF unpack

(* A message that is taken from a marshall whose header is packed.         *)
Taken(m, b) ==
  /\ Sound(b) /\ Len(b) = m.ind /\ RPC_HEADER_SZ <= Len(b)
  /\ \A k \in 1..Len(b) : k > RPC_HEADER_SZ => b[k] = m.buf[k]
  /\ Unmarshall(b) = U(b, RPC_HEADER_SZ)
LEMMA TakenIs ==
  ASSUME NEW m, AtEnd(m), Sound(m.buf), RPC_HEADER_SZ <= m.ind, NEW n, OnlyHeaderDiffers(m, n),
         n = [buf |-> n.buf, ind |-> m.ind], n.buf \in Seq(Cell \cup Byte)
  PROVE  Taken(m, take_buf(n)) /\ take_buf(n) = n.buf
<1>1. n.buf \in Seq(Cell) /\ DOMAIN n.buf = 1..Len(n.buf) /\ DOMAIN m.buf = 1..Len(m.buf)
  <2>1. Cell \cup Byte = Cell
    BY DEF Cell
  <2> QED
    BY <2>1 DEF AtEnd
<1>2. Len(n.buf) = Len(m.buf) /\ m.ind = Len(m.buf) /\ n.ind = m.ind /\ Len(m.buf) \in Nat /\ RPC_HEADER_SZ \in Nat
  <2>3. DOMAIN n.buf = DOMAIN m.buf /\ m.buf \in Seq(Cell)
    BY DEF OnlyHeaderDiffers, AtEnd
  <2>4. Len(m.buf) \in Nat /\ Len(n.buf) \in Nat
    BY <1>1, <2>3
  <2>1. 1..Len(n.buf) = 1..Len(m.buf) /\ Len(m.buf) \in Nat /\ Len(n.buf) \in Nat
    BY <1>1, <2>3, <2>4
  <2>2. Len(n.buf) = Len(m.buf)
    BY <2>1
  <2> QED
    BY <2>1, <2>2, NewIs DEF AtEnd, OnlyHeaderDiffers
<1>3. take_buf(n) = n.buf
  <2> DEFINE b == n.buf
  <2>1. b \in Seq(Cell) /\ n.ind = Len(b)
    BY <1>1, <1>2
  <2>2. take_buf(n) = SubSeq(b, 1, Len(b))
    BY <2>1 DEF take_buf
  <2> HIDE DEF b
  <2>3. SubSeq(b, 1, Len(b)) = b
    BY <2>1
  <2> QED
    BY <2>2, <2>3 DEF b
<1>4. \A k \in 1..Len(n.buf) : k > RPC_HEADER_SZ => n.buf[k] = m.buf[k] /\ n.buf[k] \in Byte
  BY <1>1, <1>2 DEF OnlyHeaderDiffers, Sound
<1>5. Sound(n.buf)
  BY <1>1, <1>4 DEF Sound
<1>6. Unmarshall(n.buf) = U(n.buf, RPC_HEADER_SZ)
  <2>1. (Len(n.buf) >= RPC_HEADER_SZ) = TRUE
    BY <1>2
  <2> QED
    BY <2>1, Zenon DEF Unmarshall, U
<1> QED
  BY <1>2, <1>3, <1>4, <1>5, <1>6 DEF Taken

LEMMA TakenAt ==
  ASSUME NEW m, AtEnd(m), NEW b, Taken(m, b), NEW i \in Nat, RPC_HEADER_SZ <= i, NEW e \in Seq(Byte), At(m.buf, i, e)
  PROVE  At(b, i, e)
<1>1. Len(b) = Len(m.buf) /\ Len(e) \in Nat /\ RPC_HEADER_SZ \in Nat /\ Len(m.buf) \in Nat
  BY NewIs DEF Taken, AtEnd
<1>2. i + Len(e) <= Len(b) /\ \A k \in 1..Len(e) : m.buf[i + k] = e[k] /\ i + k \in 1..Len(b) /\ i + k > RPC_HEADER_SZ
  BY <1>1 DEF At
<1> QED
  BY <1>2 DEF At, Taken

LEMMA AtHead == ASSUME NEW b, NEW i, NEW j PROVE [U(b, i) EXCEPT !.ind = j] = U(b, j)
<1>1. U(b, i) \in [buf : {b}, ind : {i}, ok : {TRUE}]
  BY DEF U
<1> DEFINE u == U(b, i)
           v == [u EXCEPT !.ind = j]
<1>2. v = [buf |-> u.buf, ind |-> j, ok |-> u.ok]
  <2> HIDE DEF u
  <2> QED
    BY <1>1 DEF u
<1>3. u.buf = b /\ u.ok = TRUE
  BY DEF U
<1> HIDE DEF u, v
<1>4. v = [buf |-> b, ind |-> j, ok |-> TRUE]
  BY <1>2, <1>3
<1> QED
  BY <1>4 DEF U, u, v

LEMMA UnpackReq ==
  ASSUME NEW B, NEW b \in Seq(B),
         NEW h \in [xid : Ints, proc : Ints, clt_nonce : Ints, srv_nonce : Ints, xid_rep : Ints],
         At(b, W, IntBytes(h.xid)), At(b, 2 * W, IntBytes(h.proc)), At(b, 3 * W, IntBytes(h.clt_nonce)),
         At(b, 4 * W, IntBytes(h.srv_nonce)), At(b, 5 * W, IntBytes(h.xid_rep))
  PROVE  unpack_req_header(U(b, RPC_HEADER_SZ)) = [h |-> h, u |-> U(b, RPC_HEADER_SZ)]
<1> DEFINE u == U(b, RPC_HEADER_SZ)
           a1 == unpack([u EXCEPT !.ind = W])
           a2 == unpack(a1.u)
           a3 == unpack(a2.u)
           a4 == unpack(a3.u)
           a5 == unpack(a4.u)
<1>1. /\ W \in Nat /\ 2 * W \in Nat /\ 3 * W \in Nat /\ 4 * W \in Nat /\ 5 * W \in Nat
      /\ 2 * W = W + W /\ 3 * W = 2 * W + W /\ 4 * W = 3 * W + W /\ 5 * W = 4 * W + W
  OBVIOUS
<1>2. /\ h.xid \in Ints /\ h.proc \in Ints /\ h.clt_nonce \in Ints /\ h.srv_nonce \in Ints /\ h.xid_rep \in Ints
      /\ h = [xid |-> h.xid, proc |-> h.proc, clt_nonce |-> h.clt_nonce, srv_nonce |-> h.srv_nonce, xid_rep |-> h.xid_rep]
  OBVIOUS
<1>3. unpack_req_header(u) =
        [h |-> [xid |-> a1.v, proc |-> a2.v, clt_nonce |-> a3.v, srv_nonce |-> a4.v, xid_rep |-> a5.v],
         u |-> [a5.u EXCEPT !.ind = RPC_HEADER_SZ]]
  BY DEF unpack_req_header
<1>4. ASSUME NEW i \in Nat, NEW x \in Ints, At(b, i, IntBytes(x)) PROVE unpack(U(b, i)) = [v |-> x, u |-> U(b, i + W)]
  BY <1>4, UnpackAt
<1>11. [u EXCEPT !.ind = W] = U(b, W)
  BY AtHead
<1>5. a1.v = h.xid /\ a1.u = U(b, 2 * W)
  <2>1. unpack(U(b, W)) = [v |-> h.xid, u |-> U(b, W + W)]
    BY <1>1, <1>2, <1>4
  <2>2. a1 = [v |-> h.xid, u |-> U(b, W + W)]
    BY <1>11, <2>1, Zenon
  <2> HIDE DEF a1
  <2> QED
    BY <1>1, <2>2
<1> HIDE DEF a1
<1>6. a2.v = h.proc /\ a2.u = U(b, 3 * W)
  <2>1. unpack(U(b, 2 * W)) = [v |-> h.proc, u |-> U(b, 2 * W + W)]
    BY <1>1, <1>2, <1>4
  <2>2. a2 = [v |-> h.proc, u |-> U(b, 2 * W + W)]
    BY <1>5, <2>1, Zenon
  <2> HIDE DEF a2
  <2> QED
    BY <1>1, <2>2
<1> HIDE DEF a2
<1>7. a3.v = h.clt_nonce /\ a3.u = U(b, 4 * W)
  <2>1. unpack(U(b, 3 * W)) = [v |-> h.clt_nonce, u |-> U(b, 3 * W + W)]
    BY <1>1, <1>2, <1>4
  <2>2. a3 = [v |-> h.clt_nonce, u |-> U(b, 3 * W + W)]
    BY <1>6, <2>1, Zenon
  <2> HIDE DEF a3
  <2> QED
    BY <1>1, <2>2
<1> HIDE DEF a3
<1>8. a4.v = h.srv_nonce /\ a4.u = U(b, 5 * W)
  <2>1. unpack(U(b, 4 * W)) = [v |-> h.srv_nonce, u |-> U(b, 4 * W + W)]
    BY <1>1, <1>2, <1>4
  <2>2. a4 = [v |-> h.srv_nonce, u |-> U(b, 4 * W + W)]
    BY <1>7, <2>1, Zenon
  <2> HIDE DEF a4
  <2> QED
    BY <1>1, <2>2
<1> HIDE DEF a4
<1>9. a5.v = h.xid_rep /\ a5.u = U(b, 5 * W + W)
  <2>1. unpack(U(b, 5 * W)) = [v |-> h.xid_rep, u |-> U(b, 5 * W + W)]
    BY <1>1, <1>2, <1>4
  <2>2. a5 = [v |-> h.xid_rep, u |-> U(b, 5 * W + W)]
    BY <1>8, <2>1, Zenon
  <2> HIDE DEF a5
  <2> QED
    BY <2>2
<1> HIDE DEF a5
<1>10. [a5.u EXCEPT !.ind = RPC_HEADER_SZ] = U(b, RPC_HEADER_SZ)
  BY <1>9, AtHead
<1> QED
  BY <1>2, <1>3, <1>5, <1>6, <1>7, <1>8, <1>9, <1>10, Zenon

LEMMA UnpackReply ==
  ASSUME NEW B, NEW b \in Seq(B), NEW xid \in Ints, NEW ret \in Ints,
         At(b, W, IntBytes(xid)), At(b, 2 * W, IntBytes(ret))
  PROVE  unpack_reply_header(U(b, RPC_HEADER_SZ)) = [h |-> [xid |-> xid, ret |-> ret], u |-> U(b, RPC_HEADER_SZ)]
<1> DEFINE u == U(b, RPC_HEADER_SZ)
           a1 == unpack([u EXCEPT !.ind = W])
           a2 == unpack(a1.u)
<1>1. W \in Nat /\ 2 * W \in Nat /\ 2 * W = W + W
  OBVIOUS
<1>2. unpack_reply_header(u) = [h |-> [xid |-> a1.v, ret |-> a2.v], u |-> [a2.u EXCEPT !.ind = RPC_HEADER_SZ]]
  BY DEF unpack_reply_header
<1>3. ASSUME NEW i \in Nat, NEW x \in Ints, At(b, i, IntBytes(x)) PROVE unpack(U(b, i)) = [v |-> x, u |-> U(b, i + W)]
  BY <1>3, UnpackAt
<1>7. [u EXCEPT !.ind = W] = U(b, W)
  BY AtHead
<1>4. a1.v = xid /\ a1.u = U(b, 2 * W)
  BY <1>1, <1>3, <1>7
<1> HIDE DEF a1
<1>5. a2.v = ret /\ a2.u = U(b, 2 * W + W)
  BY <1>1, <1>3, <1>4
<1> HIDE DEF a2
<1>6. [a2.u EXCEPT !.ind = RPC_HEADER_SZ] = U(b, RPC_HEADER_SZ)
  BY <1>5, AtHead
<1> QED
  BY <1>2, <1>4, <1>5, <1>6, Zenon

LEMMA LaidTaken ==
  ASSUME NEW m, AtEnd(m), NEW b, Taken(m, b), NEW types \in Seq(PlainTypes), NEW vals, NEW c,
         Laid(m.buf, RPC_HEADER_SZ, types, vals, c)
  PROVE  Laid(b, RPC_HEADER_SZ, types, vals, c)
<1> DEFINE w == Len(types)
           e(k) == Enc(types[k], vals[k])
<1>1. /\ c \in [0..w -> Nat] /\ c[0] = RPC_HEADER_SZ /\ w \in Nat
      /\ \A k \in 1..w : /\ FitsPlain(types[k], vals[k]) /\ e(k) \in Seq(Byte)
                         /\ At(m.buf, c[k - 1], e(k)) /\ c[k] = c[k - 1] + Len(e(k))
  BY DEF Laid
<1> HIDE DEF w, e
<1>2. \A k \in 0..w : RPC_HEADER_SZ <= c[k]
  <2> DEFINE T == {k \in 0..w : RPC_HEADER_SZ <= c[k]}
  <2>1. 0 \in T
    BY <1>1, NewIs
  <2>2. ASSUME NEW k \in 0..(w - 1), k \in T PROVE k + 1 \in T
    <3>1. k + 1 \in 1..w /\ k + 1 \in 0..w /\ (k + 1) - 1 = k /\ k \in 0..w
      BY <1>1
    <3>2. c[k] \in Nat /\ e(k + 1) \in Seq(Byte) /\ c[k + 1] = c[k] + Len(e(k + 1)) /\ RPC_HEADER_SZ <= c[k]
      BY <1>1, <2>2, <3>1
    <3>3. Len(e(k + 1)) \in Nat
      BY <3>2
    <3> QED
      BY <3>1, <3>2, <3>3, NewIs
  <2> HIDE DEF T
  <2>3. 0..w \subseteq T
    BY <1>1, <2>1, <2>2, InductionUpTo
  <2> QED
    BY <2>3 DEF T
<1>3. ASSUME NEW k \in 1..w PROVE At(b, c[k - 1], e(k))
  <2>1. k - 1 \in 0..w /\ c[k - 1] \in Nat /\ RPC_HEADER_SZ <= c[k - 1]
    BY <1>1, <1>2
  <2>2. e(k) \in Seq(Byte) /\ At(m.buf, c[k - 1], e(k))
    BY <1>1
  <2> QED
    BY <2>1, <2>2, TakenAt
<1> QED
  BY <1>1, <1>3 DEF Laid, w, e

-----------------------------------------------------------------------------
(* The messages.                                                           *)

(* No argument and no result is a vector or a map, as in fs_protocol.      *)
NoContainers ==
  /\ \A i \in DOMAIN Invocations : LET k == Invocations[i]
                                   IN /\ k.types \in Seq(PlainTypes) /\ k.args \in Seq(PlainValues)
                                      /\ k.ret \in PlainTypes
  /\ \A p \in DOMAIN Methods : Methods[p].args \in Seq(PlainTypes) /\ Methods[p].ret \in PlainTypes

LEMMA NumbersAreInts ==
  /\ Ints \subseteq Int /\ {0, 1, timeout_failure, unmarshal_args_failure} \subseteq Ints
  /\ Results \subseteq Ints /\ DOMAIN Methods \subseteq Ints /\ MaxCalls \in Nat /\ 1..MaxCalls \subseteq Ints
<1> DEFINE q == Word \div 2
<1>1. q \in Nat /\ Ints = (-q)..(q - 1)
  BY WordType DEF Ints
<1>2. /\ DOMAIN Methods \subseteq 0..(q - 1) /\ MaxCalls \in 0..(q - 1)
      /\ Results \cup {-1, -2} \subseteq (-q)..(q - 1)
  BY NumbersAssumption DEF timeout_failure, unmarshal_args_failure
<1> HIDE DEF q
<1>3. q >= 2
  <2>1. -2 \in (-q)..(q - 1)
    BY <1>2
  <2> QED
    BY <1>1, <2>1
<1> QED
  BY <1>1, <1>2, <1>3 DEF timeout_failure, unmarshal_args_failure

LEMMA InMarshalls ==
  ASSUME NEW m, AtEnd(m), RPC_HEADER_SZ <= m.ind PROVE m \in Marshalls(Cell)
<1>1. m.ind <= Len(m.buf)
  BY DEF AtEnd
<1> QED
  BY <1>1 DEF AtEnd, Marshalls

Header(i, x) == [xid |-> x, proc |-> Invocations[i].proc, clt_nonce |-> 1, srv_nonce |-> 1, xid_rep |-> 0]
Request(i, x) == take_buf(pack_req_header(Marshalled(Invocations[i].types, Invocations[i].args), Header(i, x)))
LEMMA RequestIs ==
  ASSUME NoContainers, NEW i \in DOMAIN Invocations, NEW x \in 1..MaxCalls
  PROVE  LET k == Invocations[i]
             b == Request(i, x)
         IN /\ Sound(b) /\ RPC_HEADER_SZ <= Len(b) /\ k.proc \in DOMAIN Methods
            /\ unpack_req_header(Unmarshall(b)) = [h |-> Header(i, x), u |-> U(b, RPC_HEADER_SZ)]
            /\ k.types \in Seq(PlainTypes) /\ k.args \in Seq(PlainValues) /\ Len(k.args) = Len(k.types)
            /\ \E c : Laid(b, RPC_HEADER_SZ, k.types, k.args, c) /\ c[Len(k.types)] = Len(b)
<1> DEFINE k == Invocations[i]
           m == Marshalled(k.types, k.args)
           h == Header(i, x)
           n == pack_req_header(m, h)
           b == Request(i, x)
<1>1. k.types \in Seq(PlainTypes) /\ k.args \in Seq(PlainValues)
  BY DEF NoContainers
<1>2. k.proc \in DOMAIN Methods /\ Len(k.args) = Len(k.types) /\ \A j \in 1..Len(k.args) : Fits(k.types[j], k.args[j])
  BY ValuesAssumption
<1>3. Fitting(k.types, k.args)
  <2> DEFINE ty == k.types
             ar == k.args
  <2>1. ty \in Seq(PlainTypes) /\ Len(ar) = Len(ty) /\ \A j \in 1..Len(ty) : Fits(ty[j], ar[j])
    BY <1>1, <1>2
  <2> HIDE DEF ty, ar
  <2>2. \A j \in 1..Len(ty) : ty[j] \in PlainTypes /\ FitsPlain(ty[j], ar[j])
    BY <2>1, PlainTypesArePlain
  <2>3. Fitting(ty, ar)
    BY <2>1, <2>2 DEF Fitting
  <2> QED
    BY <2>3 DEF ty, ar
<1>4. /\ AtEnd(m) /\ Sound(m.buf) /\ RPC_HEADER_SZ <= m.ind
      /\ \E c : Laid(m.buf, RPC_HEADER_SZ, k.types, k.args, c) /\ c[Len(k.types)] = m.ind
  BY <1>3, LaidOut
<1>5. h \in [xid : Ints, proc : Ints, clt_nonce : Ints, srv_nonce : Ints, xid_rep : Ints] /\ h \in ReqHeaders
  <2>1. x \in Ints /\ k.proc \in Ints /\ 1 \in Ints /\ 0 \in Ints
    BY <1>2, NumbersAreInts
  <2>2. x \in Int /\ k.proc \in Int /\ 1 \in Int /\ 0 \in Int
    BY <2>1, NumbersAreInts
  <2> QED
    BY <2>1, <2>2 DEF Header, ReqHeaders
<1>6. m \in Marshalls(Cell)
  BY <1>4, InMarshalls
<1>7. b = take_buf(n)
  BY DEF Request
<1> HIDE DEF m, h, b
<1>8. /\ OnlyHeaderDiffers(m, n) /\ n = [buf |-> n.buf, ind |-> m.ind] /\ n.buf \in Seq(Cell \cup Byte)
      /\ At(n.buf, W, IntBytes(h.xid)) /\ At(n.buf, 2 * W, IntBytes(h.proc))
      /\ At(n.buf, 3 * W, IntBytes(h.clt_nonce)) /\ At(n.buf, 4 * W, IntBytes(h.srv_nonce))
      /\ At(n.buf, 5 * W, IntBytes(h.xid_rep))
  BY <1>5, <1>6, ReqHeaderIs
<1> HIDE DEF n
<1>9. Taken(m, b) /\ b = n.buf
  BY <1>4, <1>7, <1>8, TakenIs
<1>10. unpack_req_header(U(b, RPC_HEADER_SZ)) = [h |-> h, u |-> U(b, RPC_HEADER_SZ)]
  BY <1>5, <1>8, <1>9, UnpackReq
<1>11. PICK c : Laid(m.buf, RPC_HEADER_SZ, k.types, k.args, c) /\ c[Len(k.types)] = m.ind
  BY <1>4
<1>12. Laid(b, RPC_HEADER_SZ, k.types, k.args, c)
  BY <1>1, <1>4, <1>9, <1>11, LaidTaken
<1>13. Sound(b) /\ RPC_HEADER_SZ <= Len(b) /\ Len(b) = m.ind /\ Unmarshall(b) = U(b, RPC_HEADER_SZ)
  BY <1>9 DEF Taken
<1> QED
  BY <1>1, <1>2, <1>10, <1>11, <1>12, <1>13 DEF b, h

(* A reply carries its xid, its code and the bytes of the marshall.        *)
LEMMA RepliedIs ==
  ASSUME NEW m, AtEnd(m), Sound(m.buf), RPC_HEADER_SZ <= m.ind, NEW h, h.xid \in Ints, NEW code \in Ints
  PROVE  LET b == Replied(h, m, code)
         IN /\ Taken(m, b)
            /\ unpack_reply_header(Unmarshall(b)) = [h |-> [xid |-> h.xid, ret |-> code], u |-> U(b, RPC_HEADER_SZ)]
<1> DEFINE g == [xid |-> h.xid, ret |-> code]
           n == pack_reply_header(m, g)
           b == Replied(h, m, code)
<1>1. g.xid = h.xid /\ g.ret = code /\ g.xid \in Int /\ g.ret \in Int
  BY NumbersAreInts
<1>2. m \in Marshalls(Cell)
  BY InMarshalls
<1>3. b = take_buf(n)
  BY DEF Replied
<1> HIDE DEF g, b
<1>4. /\ OnlyHeaderDiffers(m, n) /\ n = [buf |-> n.buf, ind |-> m.ind] /\ n.buf \in Seq(Cell \cup Byte)
      /\ At(n.buf, W, IntBytes(g.xid)) /\ At(n.buf, 2 * W, IntBytes(g.ret))
  BY <1>1, <1>2, ReplyHeaderIs
<1> HIDE DEF n
<1>5. Taken(m, b) /\ b = n.buf
  BY <1>3, <1>4, TakenIs
<1>6. unpack_reply_header(U(b, RPC_HEADER_SZ)) = [h |-> [xid |-> h.xid, ret |-> code], u |-> U(b, RPC_HEADER_SZ)]
  BY <1>1, <1>4, <1>5, UnpackReply
<1>7. Unmarshall(b) = U(b, RPC_HEADER_SZ)
  BY <1>5 DEF Taken
<1> QED
  BY <1>5, <1>6, <1>7 DEF b

(* Its result is read back, to the end of the message.                     *)
LEMMA ResultIs ==
  ASSUME NEW T \in PlainTypes, NEW v, FitsPlain(T, v), NEW code \in Ints, NEW h, h.xid \in Ints
  PROVE  LET b == Replied(h, Result(T, v, code), code)
             reply == unpack_reply_header(Unmarshall(b))
         IN /\ reply = [h |-> [xid |-> h.xid, ret |-> code], u |-> U(b, RPC_HEADER_SZ)]
            /\ Sound(b) /\ RPC_HEADER_SZ <= Len(b)
            /\ ReadPlain(U(b, RPC_HEADER_SZ), T) = [v |-> v, u |-> U(b, Len(b))]
<1> DEFINE m == Result(T, v, code)
           e == Enc(T, v)
           b == Replied(h, m, code)
<1>1. Plain(T) /\ m = WritePlain(NewMarshall, T, v)
  BY PlainTypesArePlain DEF Result
<1>2. m = Add(NewMarshall, e) /\ e \in Seq(Byte)
  BY <1>1, NewIs, WritePlainIs
<1> HIDE DEF m, e
<1>3. AtEnd(m) /\ m.ind = RPC_HEADER_SZ + Len(e) /\ Len(e) \in Nat
  BY <1>2, NewIs, AddAtEnd
<1>4. At(m.buf, RPC_HEADER_SZ, e) /\ Sound(m.buf)
  BY <1>2, NewIs, AddKeeps
<1>5. RPC_HEADER_SZ <= m.ind
  BY <1>3, NewIs
<1>6. /\ Taken(m, b)
      /\ unpack_reply_header(Unmarshall(b)) = [h |-> [xid |-> h.xid, ret |-> code], u |-> U(b, RPC_HEADER_SZ)]
  BY <1>3, <1>4, <1>5, RepliedIs
<1> HIDE DEF b
<1>7. Sound(b) /\ Len(b) = RPC_HEADER_SZ + Len(e) /\ RPC_HEADER_SZ <= Len(b) /\ b \in Seq(Cell)
  BY <1>3, <1>6 DEF Taken, Sound
<1>8. At(b, RPC_HEADER_SZ, e)
  BY <1>2, <1>3, <1>4, <1>6, NewIs, TakenAt
<1>9. ReadPlain(U(b, RPC_HEADER_SZ), T) = [v |-> v, u |-> U(b, RPC_HEADER_SZ + Len(e))]
  BY <1>1, <1>7, <1>8, NewIs, ReadPlainAt DEF e
<1> QED
  BY <1>6, <1>7, <1>9 DEF b, m

(* And the failure of the unmarshalling of arguments is one.               *)
LEMMA FailureIs ==
  ASSUME NEW h, h.xid \in Ints
  PROVE  LET b == Replied(h, NewMarshall, unmarshal_args_failure)
         IN unpack_reply_header(Unmarshall(b)) =
              [h |-> [xid |-> h.xid, ret |-> unmarshal_args_failure], u |-> U(b, RPC_HEADER_SZ)]
<1>1. unmarshal_args_failure \in Ints /\ RPC_HEADER_SZ <= NewMarshall.ind
  BY NumbersAreInts, NewIs
<1> QED
  BY <1>1, NewIs, RepliedIs

-----------------------------------------------------------------------------
(* The invariant.                                                          *)

Method(x) == Methods[Invocations[sent[x]].proc]
RequestFor(x, msg) == x \notin DOMAIN log /\ msg = Request(sent[x], x)
ReplyFor(x, msg) ==
  \/ x \in DOMAIN log /\ msg = Replied([xid |-> x], Result(Method(x).ret, log[x].r, log[x].b), log[x].b)
  \/ msg = Replied([xid |-> x], NewMarshall, unmarshal_args_failure)

Types == /\ TypeOK /\ Len(sent) <= MaxCalls
         /\ mine \in [Clients -> Nat] /\ r \in [Clients -> [type : PlainTypes, value : PlainValues]]
RequestsInv == \A msg \in requests : \E x \in DOMAIN sent : RequestFor(x, msg)
RepliesInv == \A msg \in replies : \E x \in DOMAIN sent : ReplyFor(x, msg)
LogInv == \A x \in DOMAIN log : log[x].b \in Results /\ log[x].r \in Samples(Method(x).ret)
WaitingInv == \A c \in Clients : waiting[c] # None =>
                /\ mine[c] \in DOMAIN sent /\ sent[mine[c]] = waiting[c]
                /\ r[c].type = Invocations[waiting[c]].ret

RpcInv == /\ Types /\ RequestsInv /\ RepliesInv /\ LogInv /\ WaitingInv
          /\ ArgumentsArrive /\ AbortOnlyOnMismatch

LEMMA InitKeeps == ASSUME Init PROVE RpcInv
<1>1. 0 \in PlainValues /\ IntT \in PlainTypes
  BY DEF PlainValues, PlainTypes
<1>2. DOMAIN log = {} /\ DOMAIN sent = {} /\ Len(sent) = 0 /\ sent \in Seq(DOMAIN Invocations)
  BY DEF Init
<1>3. Types
  <2>1. mine \in [Clients -> Nat] /\ r \in [Clients -> [type : PlainTypes, value : PlainValues]]
    BY <1>1 DEF Init
  <2>2. TypeOK
    BY <1>2 DEF Init, TypeOK
  <2>3. Len(sent) <= MaxCalls
    BY <1>2, NumbersAreInts
  <2> QED
    BY <2>1, <2>2, <2>3 DEF Types
<1>4. RequestsInv /\ RepliesInv /\ LogInv /\ WaitingInv
  BY <1>2 DEF Init, RequestsInv, RepliesInv, LogInv, WaitingInv
<1>5. ArgumentsArrive /\ AbortOnlyOnMismatch
  BY <1>2 DEF Init, ArgumentsArrive, AbortOnlyOnMismatch
<1> QED
  BY <1>3, <1>4, <1>5 DEF RpcInv

LEMMA SentIs ==
  ASSUME Types
  PROVE  /\ Len(sent) \in Nat /\ DOMAIN sent = 1..Len(sent) /\ DOMAIN log \subseteq DOMAIN sent
         /\ \A x \in DOMAIN sent : x \in 1..MaxCalls /\ x \in Ints /\ sent[x] \in DOMAIN Invocations
<1>1. sent \in Seq(DOMAIN Invocations) /\ Len(sent) <= MaxCalls /\ DOMAIN log \subseteq DOMAIN sent
  BY DEF Types, TypeOK
<1>2. Len(sent) \in Nat /\ DOMAIN sent = 1..Len(sent) /\ MaxCalls \in Nat /\ 1..MaxCalls \subseteq Ints
  BY <1>1, NumbersAreInts
<1>3. ASSUME NEW x \in DOMAIN sent PROVE x \in 1..MaxCalls /\ sent[x] \in DOMAIN Invocations
  BY <1>1, <1>2
<1> QED
  BY <1>1, <1>2, <1>3

(* Calls that were made stay as they are.                                  *)
SentGrows == \A x \in DOMAIN sent : x \in DOMAIN sent' /\ sent'[x] = sent[x]
LEMMA SentKept ==
  ASSUME SentGrows, NEW x \in DOMAIN sent
  PROVE  /\ x \in DOMAIN sent' /\ Method(x)' = Method(x)
         /\ log' = log => /\ \A msg : RequestFor(x, msg) => RequestFor(x, msg)'
                          /\ \A msg : ReplyFor(x, msg) => ReplyFor(x, msg)'
<1>1. x \in DOMAIN sent' /\ sent'[x] = sent[x]
  BY DEF SentGrows
<1>2. Method(x)' = Method(x)
  BY <1>1 DEF Method
<1> QED
  BY <1>1, <1>2 DEF RequestFor, ReplyFor

LEMMA LogKept ==
  ASSUME RpcInv, SentGrows, log' = log PROVE LogInv' /\ ArgumentsArrive' 
<1>1. ASSUME NEW x \in DOMAIN log PROVE x \in DOMAIN sent /\ sent'[x] = sent[x] /\ Method(x)' = Method(x)
  BY SentIs, SentKept DEF RpcInv, SentGrows
<1>2. LogInv'
  BY <1>1 DEF RpcInv, LogInv
<1>3. ArgumentsArrive'
  BY <1>1 DEF RpcInv, ArgumentsArrive
<1> QED
  BY <1>2, <1>3

LEMMA CallKeeps == ASSUME NoContainers, RpcInv, NEW c \in Clients, Call(c) PROVE RpcInv'
<1> DEFINE xid == Len(sent) + 1
<1>1. PICK i \in DOMAIN Invocations :
         /\ requests' = requests \cup {Request(i, xid)}
         /\ waiting' = [waiting EXCEPT ![c] = i]
         /\ mine' = [mine EXCEPT ![c] = xid]
         /\ sent' = Append(sent, i)
         /\ \/ r' = [r EXCEPT ![c] = [type |-> Invocations[i].ret, value |-> Default(Invocations[i].ret)]]
            \/ r[c].type = Invocations[i].ret /\ r' = r
  BY DEF Call, Request, Header
<1>2. ~aborted /\ Len(sent) < MaxCalls /\ replies' = replies /\ intret' = intret /\ aborted' = aborted /\ log' = log
  BY DEF Call
<1>3. TypeOK /\ mine \in [Clients -> Nat] /\ r \in [Clients -> [type : PlainTypes, value : PlainValues]]
  BY DEF RpcInv, Types
<1>4. sent \in Seq(DOMAIN Invocations) /\ Len(sent) \in Nat /\ DOMAIN sent = 1..Len(sent) /\ DOMAIN log \subseteq DOMAIN sent
  BY <1>3, SentIs DEF TypeOK, RpcInv
<1>5. /\ sent' \in Seq(DOMAIN Invocations) /\ Len(sent') = xid /\ DOMAIN sent' = 1..xid /\ xid \in Nat
      /\ sent'[xid] = i /\ \A x \in DOMAIN sent : sent'[x] = sent[x]
  <2> DEFINE s == sent
             S == DOMAIN Invocations
  <2>1. s \in Seq(S) /\ i \in S /\ Len(s) \in Nat /\ DOMAIN s = 1..Len(s)
    BY <1>4
  <2> HIDE DEF s, S
  <2>2. /\ Append(s, i) \in Seq(S) /\ Len(Append(s, i)) = Len(s) + 1 /\ DOMAIN Append(s, i) = 1..(Len(s) + 1)
        /\ Append(s, i)[Len(s) + 1] = i /\ \A x \in 1..Len(s) : Append(s, i)[x] = s[x]
    BY <2>1
  <2> QED
    BY <1>1, <1>4, <2>1, <2>2 DEF s, S
<1>6. SentGrows /\ xid \in DOMAIN sent' /\ xid \notin DOMAIN sent /\ xid <= MaxCalls /\ xid \notin DOMAIN log
  BY <1>2, <1>4, <1>5, NumbersAreInts DEF SentGrows
<1> HIDE DEF xid
<1>13. PICK y : y = xid
  OBVIOUS
<1>7. Types'
  <2>1. Default(Invocations[i].ret) \in PlainValues /\ Invocations[i].ret \in PlainTypes
    <3>1. 0 \in PlainValues /\ <<>> \in PlainValues
      BY DEF PlainValues
    <3> QED
      BY <3>1 DEF NoContainers, Default
  <2>2. r' \in [Clients -> [type : PlainTypes, value : PlainValues]]
    <3> DEFINE R == [type : PlainTypes, value : PlainValues]
               new == [type |-> Invocations[i].ret, value |-> Default(Invocations[i].ret)]
    <3>1. new \in R
      BY <2>1
    <3> HIDE DEF R, new
    <3>2. r \in [Clients -> R] /\ (r' = r \/ r' = [r EXCEPT ![c] = new])
      BY <1>1, <1>3 DEF R, new
    <3>3. r' \in [Clients -> R]
      BY <3>1, <3>2
    <3> QED
      BY <3>3 DEF R
  <2>3. mine' \in [Clients -> Nat]
    BY <1>1, <1>3, <1>5
  <2>4. DOMAIN log' \subseteq DOMAIN sent'
    BY <1>2, <1>4, <1>6 DEF SentGrows
  <2>5. waiting' \in [Clients -> DOMAIN Invocations \cup {None}]
    BY <1>1, <1>3 DEF TypeOK
  <2>6. intret' \in [Clients -> Results \cup {0, timeout_failure, unmarshal_args_failure}] /\ aborted' \in BOOLEAN
    BY <1>2, <1>3 DEF TypeOK
  <2>7. TypeOK'
    BY <1>5, <2>4, <2>5, <2>6 DEF TypeOK
  <2> QED
    BY <1>5, <1>6, <2>2, <2>3, <2>7 DEF Types
<1>8. RequestsInv'
  <2>1. ASSUME NEW msg \in requests' PROVE \E x \in DOMAIN sent' : RequestFor(x, msg)'
    <3>1. CASE msg \in requests
      <4>1. PICK x \in DOMAIN sent : RequestFor(x, msg)
        BY <3>1 DEF RpcInv, RequestsInv
      <4>2. x \in DOMAIN sent' /\ RequestFor(x, msg)'
        BY <1>2, <1>6, <4>1, SentKept
      <4> QED
        BY <4>2
    <3>2. CASE msg = Request(i, xid)
      <4>1. y \notin DOMAIN log' /\ sent'[y] = i /\ y \in DOMAIN sent' /\ msg = Request(i, y)
        BY <1>2, <1>5, <1>6, <1>13, <3>2
      <4>2. RequestFor(y, msg)'
        BY <4>1 DEF RequestFor
      <4> QED
        BY <4>1, <4>2
    <3> QED
      BY <1>1, <3>1, <3>2
  <2> QED
    BY <2>1 DEF RequestsInv
<1>9. RepliesInv'
  <2>1. ASSUME NEW msg \in replies' PROVE \E x \in DOMAIN sent' : ReplyFor(x, msg)'
    <3>1. PICK x \in DOMAIN sent : ReplyFor(x, msg)
      BY <1>2 DEF RpcInv, RepliesInv
    <3>2. x \in DOMAIN sent' /\ ReplyFor(x, msg)'
      BY <1>2, <1>6, <3>1, SentKept
    <3> QED
      BY <3>2
  <2> QED
    BY <2>1 DEF RepliesInv
<1>10. LogInv' /\ ArgumentsArrive'
  BY <1>2, <1>6, LogKept
<1>11. WaitingInv'
  <2>1. ASSUME NEW d \in Clients, waiting'[d] # None
        PROVE  mine'[d] \in DOMAIN sent' /\ sent'[mine'[d]] = waiting'[d] /\ r'[d].type = Invocations[waiting'[d]].ret
    <3>1. CASE d = c
      <4>1. waiting'[c] = i /\ mine'[c] = xid /\ r'[c].type = Invocations[i].ret
        BY <1>1, <1>3 DEF TypeOK
      <4> QED
        BY <1>5, <1>6, <3>1, <4>1
    <3>2. CASE d # c
      <4>1. waiting'[d] = waiting[d] /\ mine'[d] = mine[d] /\ r'[d] = r[d]
        BY <1>1, <1>3, <3>2 DEF TypeOK
      <4>2. mine[d] \in DOMAIN sent /\ sent[mine[d]] = waiting[d] /\ r[d].type = Invocations[waiting[d]].ret
        BY <2>1, <4>1 DEF RpcInv, WaitingInv
      <4> QED
        BY <1>6, <4>1, <4>2 DEF SentGrows
    <3> QED
      BY <3>1, <3>2
  <2> QED
    BY <2>1 DEF WaitingInv
<1>12. AbortOnlyOnMismatch'
  BY <1>2 DEF AbortOnlyOnMismatch
<1> QED
  BY <1>7, <1>8, <1>9, <1>10, <1>11, <1>12 DEF RpcInv

(* A step in which no call is made and no method runs.                     *)
LEMMA QuietKeeps ==
  ASSUME RpcInv, sent' = sent, log' = log, requests' \subseteq requests, replies' \subseteq replies
  PROVE  RequestsInv' /\ RepliesInv' /\ LogInv' /\ ArgumentsArrive'
<1>1. SentGrows
  BY DEF SentGrows
<1>2. ASSUME NEW msg \in requests' PROVE \E x \in DOMAIN sent' : RequestFor(x, msg)'
  <2>1. PICK x \in DOMAIN sent : RequestFor(x, msg)
    BY DEF RpcInv, RequestsInv
  <2>2. x \in DOMAIN sent' /\ RequestFor(x, msg)'
    BY <1>1, <2>1, SentKept
  <2> QED
    BY <2>2
<1>3. ASSUME NEW msg \in replies' PROVE \E x \in DOMAIN sent' : ReplyFor(x, msg)'
  <2>1. PICK x \in DOMAIN sent : ReplyFor(x, msg)
    BY DEF RpcInv, RepliesInv
  <2>2. x \in DOMAIN sent' /\ ReplyFor(x, msg)'
    BY <1>1, <2>1, SentKept
  <2> QED
    BY <2>2
<1> QED
  BY <1>1, <1>2, <1>3, LogKept DEF RequestsInv, RepliesInv

LEMMA TimeoutKeeps == ASSUME RpcInv, NEW c \in Clients, Timeout(c) PROVE RpcInv'
<1>1. /\ ~aborted /\ waiting' = [waiting EXCEPT ![c] = None] /\ intret' = [intret EXCEPT ![c] = timeout_failure]
      /\ UNCHANGED <<requests, replies, mine, r, aborted, sent, log>>
  BY DEF Timeout, Returns
<1>2. Types'
  <2>1. Types
    BY DEF RpcInv
  <2>2. /\ waiting' \in [Clients -> DOMAIN Invocations \cup {None}]
        /\ intret' \in [Clients -> Results \cup {0, timeout_failure, unmarshal_args_failure}]
    BY <1>1, <2>1 DEF Types, TypeOK
  <2> QED
    BY <1>1, <2>1, <2>2 DEF Types, TypeOK
<1>3. RequestsInv' /\ RepliesInv' /\ LogInv' /\ ArgumentsArrive'
  BY <1>1, QuietKeeps
<1>4. WaitingInv'
  <2>1. WaitingInv /\ waiting \in [Clients -> DOMAIN Invocations \cup {None}]
    BY DEF RpcInv, Types, TypeOK
  <2> QED
    BY <1>1, <2>1 DEF WaitingInv
<1>5. AbortOnlyOnMismatch'
  BY <1>1 DEF AbortOnlyOnMismatch
<1> QED
  BY <1>2, <1>3, <1>4, <1>5 DEF RpcInv

LEMMA LoseKeeps == ASSUME RpcInv, Lose PROVE RpcInv'
<1>1. /\ UNCHANGED <<waiting, mine, r, intret, aborted, sent, log>>
      /\ requests' \subseteq requests /\ replies' \subseteq replies
  BY DEF Lose
<1>2. Types' /\ WaitingInv' /\ AbortOnlyOnMismatch'
  BY <1>1 DEF RpcInv, Types, TypeOK, WaitingInv, AbortOnlyOnMismatch
<1>3. RequestsInv' /\ RepliesInv' /\ LogInv' /\ ArgumentsArrive'
  BY <1>1, QuietKeeps
<1> QED
  BY <1>2, <1>3 DEF RpcInv

(* What is read from a reply that is under way: the header of the call and *)
(* the answer of its method, or the failure.                               *)
LEMMA ReplyRead ==
  ASSUME NoContainers, RpcInv, NEW x \in DOMAIN sent, NEW msg, ReplyFor(x, msg)
  PROVE  LET reply == unpack_reply_header(Unmarshall(msg))
         IN /\ reply.h.xid = x /\ reply.u = U(msg, RPC_HEADER_SZ)
            /\ reply.h.ret \in Results \cup {unmarshal_args_failure}
            /\ ~Failed(reply.h.ret) =>
                 /\ x \in DOMAIN log /\ reply.h.ret = log[x].b /\ Sound(msg) /\ RPC_HEADER_SZ <= Len(msg)
                 /\ ReadPlain(U(msg, RPC_HEADER_SZ), Method(x).ret) = [v |-> log[x].r, u |-> U(msg, Len(msg))]
<1> DEFINE h == [xid |-> x]
           reply == unpack_reply_header(Unmarshall(msg))
<1>1. x \in Ints /\ sent[x] \in DOMAIN Invocations /\ h.xid = x
  BY SentIs DEF RpcInv
<1> HIDE DEF h
<1>2. CASE x \in DOMAIN log /\ msg = Replied(h, Result(Method(x).ret, log[x].r, log[x].b), log[x].b)
  <2> DEFINE T == Method(x).ret
             v == log[x].r
             code == log[x].b
  <2>1. code \in Results /\ v \in Samples(T)
    BY <1>2 DEF RpcInv, LogInv
  <2>2. Invocations[sent[x]].proc \in DOMAIN Methods
    BY <1>1, ValuesAssumption
  <2>3. T \in PlainTypes /\ Fits(T, v)
    BY <2>1, <2>2, ValuesAssumption DEF NoContainers, Method
  <2>4. FitsPlain(T, v) /\ code \in Ints
    BY <2>1, <2>3, PlainTypesArePlain, NumbersAreInts
  <2>5. msg = Replied(h, Result(T, v, code), code)
    BY <1>2
  <2> HIDE DEF T, v, code
  <2>6. /\ reply = [h |-> [xid |-> h.xid, ret |-> code], u |-> U(msg, RPC_HEADER_SZ)]
        /\ Sound(msg) /\ RPC_HEADER_SZ <= Len(msg)
        /\ ReadPlain(U(msg, RPC_HEADER_SZ), T) = [v |-> v, u |-> U(msg, Len(msg))]
    BY <1>1, <2>3, <2>4, <2>5, ResultIs
  <2> HIDE DEF reply
  <2>7. reply.h.xid = x /\ reply.h.ret = code /\ reply.u = U(msg, RPC_HEADER_SZ)
    BY <1>1, <2>6
  <2> QED
    BY <1>2, <2>1, <2>6, <2>7 DEF T, v, code, reply
<1>3. CASE msg = Replied(h, NewMarshall, unmarshal_args_failure)
  <2>1. reply = [h |-> [xid |-> h.xid, ret |-> unmarshal_args_failure], u |-> U(msg, RPC_HEADER_SZ)]
    BY <1>1, <1>3, FailureIs
  <2> HIDE DEF reply
  <2>2. reply.h.xid = x /\ reply.h.ret = unmarshal_args_failure /\ reply.u = U(msg, RPC_HEADER_SZ)
    BY <1>1, <2>1
  <2>3. Failed(unmarshal_args_failure)
    BY DEF Failed, unmarshal_args_failure
  <2> QED
    BY <2>2, <2>3 DEF reply
<1> QED
  BY <1>2, <1>3 DEF ReplyFor, h

(* What a client does with a reply: code is what it carries, v what is     *)
(* read from it, done whether that was to its end.                         *)
Takes(c, code, v, done) ==
  /\ ~aborted /\ waiting[c] # None /\ replies' \subseteq replies
  /\ UNCHANGED <<requests, mine, sent, log>> /\ code \in Results \cup {unmarshal_args_failure}
  /\ \/ Failed(code) /\ Returns(c, code) /\ UNCHANGED <<r, aborted>>
     \/ /\ ~Failed(code) /\ mine[c] \in DOMAIN log /\ code = log[mine[c]].b
        /\ r' = [r EXCEPT ![c].value = v] /\ v \in PlainValues
        /\ r[c].type = Method(mine[c]).ret => v = log[mine[c]].r /\ done
        /\ IF done THEN Returns(c, code) /\ UNCHANGED aborted
           ELSE aborted' = TRUE /\ UNCHANGED <<waiting, intret>>
LEMMA ReceiveIs ==
  ASSUME NoContainers, RpcInv, NEW c \in Clients, Receive(c)
  PROVE  \E code, v, done : Takes(c, code, v, done)
<1>1. ~aborted /\ waiting[c] # None /\ UNCHANGED <<requests, mine, sent, log>>
  BY DEF Receive
<1> DEFINE Reply(msg) == unpack_reply_header(Unmarshall(msg))
           Res(msg) == Read(Reply(msg).u, r[c].type, r[c].value)
<1>2. PICK msg \in replies :
        /\ Reply(msg).h.xid = mine[c]
        /\ replies' = replies \ {msg}
        /\ \/ /\ Failed(Reply(msg).h.ret)
              /\ Returns(c, Reply(msg).h.ret)
              /\ UNCHANGED <<r, aborted>>
           \/ /\ ~Failed(Reply(msg).h.ret)
              /\ r' = [r EXCEPT ![c].value = Res(msg).v]
              /\ IF okdone(Res(msg).u) THEN Returns(c, Reply(msg).h.ret) /\ UNCHANGED aborted
                 ELSE aborted' = TRUE /\ UNCHANGED <<waiting, intret>>
  BY DEF Receive
<1>3. PICK x \in DOMAIN sent : ReplyFor(x, msg)
  BY DEF RpcInv, RepliesInv
<1> DEFINE reply == Reply(msg)
           code == reply.h.ret
           res == Res(msg)
           T == r[c].type
<1>4. /\ reply.h.xid = x /\ reply.u = U(msg, RPC_HEADER_SZ)
      /\ code \in Results \cup {unmarshal_args_failure}
      /\ ~Failed(code) =>
           /\ x \in DOMAIN log /\ code = log[x].b /\ Sound(msg) /\ RPC_HEADER_SZ <= Len(msg)
           /\ ReadPlain(U(msg, RPC_HEADER_SZ), Method(x).ret) = [v |-> log[x].r, u |-> U(msg, Len(msg))]
  BY <1>3, ReplyRead
<1>5. x = mine[c]
  BY <1>2, <1>4
<1>6. T \in PlainTypes
  BY DEF RpcInv, Types
<1>7. res = ReadPlain(U(msg, RPC_HEADER_SZ), T)
  <2> HIDE DEF reply
  <2>1. res = Read(reply.u, T, r[c].value)
    BY DEF reply
  <2> HIDE DEF res, T
  <2> QED
    BY <1>4, <1>6, <2>1, PlainTypesArePlain
<1>8. CASE Failed(code)
  <2>1. Returns(c, code) /\ UNCHANGED <<r, aborted>>
    BY <1>2, <1>8
  <2>2. replies' \subseteq replies
    BY <1>2
  <2> HIDE DEF code
  <2>3. Takes(c, code, 0, TRUE)
    BY <1>1, <1>4, <1>8, <2>1, <2>2 DEF Takes
  <2> QED
    BY <2>3
<1>9. CASE ~Failed(code)
  <2>1. /\ r' = [r EXCEPT ![c].value = res.v]
        /\ IF okdone(res.u) THEN Returns(c, code) /\ UNCHANGED aborted
           ELSE aborted' = TRUE /\ UNCHANGED <<waiting, intret>>
    BY <1>2, <1>9
  <2>2. replies' \subseteq replies
    BY <1>2
  <2>3. mine[c] \in DOMAIN log /\ code = log[mine[c]].b
    BY <1>4, <1>5, <1>9
  <2> HIDE DEF code, reply
  <2>4. res.v \in PlainValues
    <3> DEFINE u == U(msg, RPC_HEADER_SZ)
    <3>1. Sound(msg) /\ RPC_HEADER_SZ <= Len(msg) /\ Len(msg) \in Nat /\ Plain(T)
      BY <1>4, <1>6, <1>9, PlainTypesArePlain DEF Sound
    <3>2. u \in Heads(msg)
      BY <3>1, NewIs DEF Heads, U
    <3> HIDE DEF u, res, T
    <3>3. IsRead(msg, u, T, ReadPlain(u, T))
      BY <3>1, <3>2, ReadPlainIs
    <3> QED
      BY <1>7, <3>3 DEF IsRead, u
  <2>5. ASSUME T = Method(mine[c]).ret PROVE res.v = log[mine[c]].r /\ okdone(res.u)
    <3> HIDE DEF res, T
    <3>1. res = [v |-> log[x].r, u |-> U(msg, Len(msg))]
      BY <1>4, <1>5, <1>7, <1>9, <2>5
    <3> QED
      BY <1>5, <3>1 DEF okdone, U
  <2> HIDE DEF res
  <2>6. Takes(c, code, res.v, okdone(res.u))
    BY <1>1, <1>4, <1>9, <2>1, <2>2, <2>3, <2>4, <2>5 DEF Takes
  <2> QED
    BY <2>6
<1> QED
  BY <1>8, <1>9

LEMMA ReceiveKeeps == ASSUME NoContainers, RpcInv, NEW c \in Clients, Receive(c) PROVE RpcInv'
<1>1. PICK code, v, done : Takes(c, code, v, done)
  BY ReceiveIs
<1>2. /\ ~aborted /\ waiting[c] # None /\ replies' \subseteq replies /\ UNCHANGED <<requests, mine, sent, log>>
      /\ code \in Results \cup {unmarshal_args_failure}
  BY <1>1 DEF Takes
<1>3. RequestsInv' /\ RepliesInv' /\ LogInv' /\ ArgumentsArrive'
  BY <1>2, QuietKeeps
<1>4. /\ waiting \in [Clients -> DOMAIN Invocations \cup {None}] /\ aborted \in BOOLEAN
      /\ intret \in [Clients -> Results \cup {0, timeout_failure, unmarshal_args_failure}]
      /\ r \in [Clients -> [type : PlainTypes, value : PlainValues]] /\ WaitingInv
  BY DEF RpcInv, Types, TypeOK
<1>5. /\ waiting' = waiting \/ waiting' = [waiting EXCEPT ![c] = None]
      /\ intret' = intret \/ intret' = [intret EXCEPT ![c] = code]
      /\ aborted' = aborted \/ aborted' = TRUE
  BY <1>1 DEF Takes, Returns
<1>6. /\ r' \in [Clients -> [type : PlainTypes, value : PlainValues]] /\ \A d \in Clients : r'[d].type = r[d].type
  <2>1. CASE r' = r
    BY <1>4, <2>1
  <2>2. CASE r' = [r EXCEPT ![c].value = v] /\ v \in PlainValues
    <3>1. r[c] \in [type : PlainTypes, value : PlainValues]
      BY <1>4
    <3>2. r' = [r EXCEPT ![c] = [type |-> r[c].type, value |-> v]]
      <4> DEFINE x == r[c]
      <4>1. x \in [type : PlainTypes, value : PlainValues] /\ r' = [r EXCEPT ![c] = [x EXCEPT !.value = v]]
        BY <2>2, <3>1
      <4> HIDE DEF x
      <4>2. [x EXCEPT !.value = v] = [type |-> x.type, value |-> v]
        BY <4>1
      <4> QED
        BY <4>1, <4>2 DEF x
    <3> QED
      BY <1>4, <2>2, <3>1, <3>2
  <2> QED
    BY <1>1, <2>1, <2>2 DEF Takes
<1>7. Types'
  <2>1. /\ waiting' \in [Clients -> DOMAIN Invocations \cup {None}] /\ aborted' \in BOOLEAN
        /\ intret' \in [Clients -> Results \cup {0, timeout_failure, unmarshal_args_failure}]
    BY <1>2, <1>4, <1>5
  <2> QED
    BY <1>2, <1>6, <2>1 DEF RpcInv, Types, TypeOK
<1>8. WaitingInv'
  <2>1. ASSUME NEW d \in Clients, waiting'[d] # None PROVE waiting'[d] = waiting[d]
    BY <1>4, <1>5, <2>1
  <2> QED
    BY <1>2, <1>4, <1>6, <2>1 DEF WaitingInv
<1>9. AbortOnlyOnMismatch'
  <2>1. CASE aborted' = aborted
    BY <1>2, <2>1 DEF AbortOnlyOnMismatch
  <2>2. CASE aborted' # aborted
    <3>1. waiting' = waiting /\ r[c].type # Method(mine[c]).ret
      BY <1>1, <2>2 DEF Takes
    <3>2. r[c].type = Invocations[waiting[c]].ret /\ sent[mine[c]] = waiting[c]
      BY <1>2, <1>4 DEF WaitingInv
    <3> QED
      BY <1>2, <3>1, <3>2 DEF AbortOnlyOnMismatch, Method
  <2> QED
    BY <2>1, <2>2
<1> QED
  BY <1>3, <1>7, <1>8, <1>9 DEF RpcInv

(* A request that is under way is that of its call, and arguments that are *)
(* read from it to the end are those of the call, byte for byte.           *)
LEMMA RequestRead ==
  ASSUME NoContainers, RpcInv, NEW x \in DOMAIN sent, NEW msg, RequestFor(x, msg)
  PROVE  LET req == unpack_req_header(Unmarshall(msg))
             k == Invocations[sent[x]]
             types == Method(x).args
             a == Unmarshalled(req.u, types)
         IN /\ req.h = Header(sent[x], x) /\ req.u = U(msg, RPC_HEADER_SZ)
            /\ Methods[req.h.proc] = Method(x) /\ req.h.xid = x
            /\ a.good => /\ Marshalled(types, a.args) = Marshalled(k.types, k.args)
                         /\ types = k.types => a.args = k.args
<1> DEFINE i == sent[x]
           k == Invocations[i]
           types == Method(x).args
           req == unpack_req_header(Unmarshall(msg))
           a == Unmarshalled(U(msg, RPC_HEADER_SZ), types)
<1>1. x \in 1..MaxCalls /\ i \in DOMAIN Invocations
  BY SentIs DEF RpcInv
<1>2. msg = Request(i, x)
  BY DEF RequestFor
<1>3. /\ Sound(msg) /\ RPC_HEADER_SZ <= Len(msg) /\ k.proc \in DOMAIN Methods
      /\ req = [h |-> Header(i, x), u |-> U(msg, RPC_HEADER_SZ)]
      /\ k.types \in Seq(PlainTypes) /\ k.args \in Seq(PlainValues) /\ Len(k.args) = Len(k.types)
      /\ \E c : Laid(msg, RPC_HEADER_SZ, k.types, k.args, c) /\ c[Len(k.types)] = Len(msg)
  BY <1>1, <1>2, RequestIs
<1>4. types \in Seq(PlainTypes) /\ Method(x) = Methods[k.proc]
  BY <1>3 DEF NoContainers, Method
<1>5. PICK c : Laid(msg, RPC_HEADER_SZ, k.types, k.args, c) /\ c[Len(k.types)] = Len(msg)
  BY <1>3
<1> HIDE DEF req
<1>6. req.h = Header(i, x) /\ req.u = U(msg, RPC_HEADER_SZ)
  BY <1>3
<1>7. req.h.xid = x /\ Methods[req.h.proc] = Method(x)
  BY <1>4, <1>6 DEF Header
<1> HIDE DEF k, types
<1>8. Marshalled(k.types, k.args) = Made(msg, Len(msg))
  BY <1>3, <1>5, MadeOf
<1>9. ASSUME a.good PROVE Marshalled(types, a.args) = Made(msg, Len(msg))
  BY <1>3, <1>4, <1>9, OnlyItsOwnIsRead
<1>10. ASSUME types = k.types PROVE a.args = k.args
  <2> DEFINE ar == k.args
  <2>1. /\ types \in Seq(PlainTypes) /\ ar \in Seq(PlainValues) /\ Len(ar) = Len(types)
        /\ Laid(msg, RPC_HEADER_SZ, types, ar, c) /\ c[Len(types)] = Len(msg)
    BY <1>3, <1>4, <1>5, <1>10
  <2> HIDE DEF ar
  <2>2. a = [good |-> TRUE, args |-> ar]
    BY <1>3, <2>1, UnmarshalledAt
  <2> QED
    BY <2>2 DEF ar
<1> HIDE DEF a
<1>11. a.good => Marshalled(types, a.args) = Marshalled(k.types, k.args) /\ (types = k.types => a.args = k.args)
  BY <1>8, <1>9, <1>10
<1>12. a = Unmarshalled(req.u, types)
  BY <1>6 DEF a
<1> QED
  BY <1>6, <1>7, <1>11, <1>12 DEF req, k, types

LEMMA FnKeeps == ASSUME NoContainers, RpcInv, Fn PROVE RpcInv'
<1>1. UNCHANGED <<waiting, mine, r, intret, aborted, sent>>
  BY DEF Fn
<1> DEFINE Req(msg) == unpack_req_header(Unmarshall(msg))
           Meth(msg) == Methods[Req(msg).h.proc]
           A(msg) == Unmarshalled(Req(msg).u, Meth(msg).args)
<1>2. PICK msg \in requests :
        /\ requests' = requests \ {msg}
        /\ \/ /\ ~A(msg).good
              /\ replies' = replies \cup {Replied(Req(msg).h, NewMarshall, unmarshal_args_failure)}
              /\ log' = log
           \/ /\ A(msg).good
              /\ \E b \in Results, res \in Samples(Meth(msg).ret) :
                   /\ replies' = replies \cup {Replied(Req(msg).h, Result(Meth(msg).ret, res, b), b)}
                   /\ log' = [y \in DOMAIN log \cup {Req(msg).h.xid} |->
                                IF y = Req(msg).h.xid THEN [args |-> A(msg).args, b |-> b, r |-> res] ELSE log[y]]
  BY DEF Fn
<1>3. PICK x \in DOMAIN sent : RequestFor(x, msg)
  BY DEF RpcInv, RequestsInv
<1> DEFINE k == Invocations[sent[x]]
           types == Method(x).args
           a == A(msg)
<1>4. Meth(msg) = Method(x) /\ Req(msg).h.xid = x
  BY <1>3, RequestRead
<1>5. a.good => /\ Marshalled(types, a.args) = Marshalled(k.types, k.args)
                /\ types = k.types => a.args = k.args
  BY <1>3, <1>4, RequestRead
<1>6. ASSUME NEW m, NEW code PROVE Replied(Req(msg).h, m, code) = Replied([xid |-> x], m, code)
  BY <1>4 DEF Replied
<1>7. x \notin DOMAIN log /\ msg = Request(sent[x], x) /\ SentGrows
  BY <1>1, <1>3 DEF RequestFor, SentGrows
<1> HIDE DEF a, Req, Meth
<1>8. Types /\ WaitingInv /\ AbortOnlyOnMismatch /\ LogInv /\ ArgumentsArrive /\ DOMAIN log \subseteq DOMAIN sent
  BY SentIs DEF RpcInv
<1>9. WaitingInv' /\ AbortOnlyOnMismatch'
  BY <1>1, <1>8 DEF WaitingInv, AbortOnlyOnMismatch
<1>10. CASE ~a.good
  <2>1. /\ replies' = replies \cup {Replied([xid |-> x], NewMarshall, unmarshal_args_failure)}
        /\ log' = log /\ requests' \subseteq requests
    BY <1>2, <1>6, <1>10 DEF a
  <2>2. Types'
    BY <1>1, <1>8, <2>1 DEF Types, TypeOK
  <2>3. LogInv' /\ ArgumentsArrive'
    BY <1>7, <2>1, LogKept
  <2>4. RequestsInv'
    <3>1. ASSUME NEW n \in requests' PROVE \E y \in DOMAIN sent' : RequestFor(y, n)'
      <4>1. PICK y \in DOMAIN sent : RequestFor(y, n)
        BY <2>1 DEF RpcInv, RequestsInv
      <4>2. y \in DOMAIN sent' /\ RequestFor(y, n)'
        BY <1>7, <2>1, <4>1, SentKept
      <4> QED
        BY <4>2
    <3> QED
      BY <3>1 DEF RequestsInv
  <2>5. RepliesInv'
    <3>1. ASSUME NEW n \in replies' PROVE \E y \in DOMAIN sent' : ReplyFor(y, n)'
      <4>1. CASE n \in replies
        <5>1. PICK y \in DOMAIN sent : ReplyFor(y, n)
          BY <4>1 DEF RpcInv, RepliesInv
        <5>2. y \in DOMAIN sent' /\ ReplyFor(y, n)'
          BY <1>7, <2>1, <5>1, SentKept
        <5> QED
          BY <5>2
      <4>2. CASE n = Replied([xid |-> x], NewMarshall, unmarshal_args_failure)
        <5>1. x \in DOMAIN sent' /\ ReplyFor(x, n)'
          BY <1>1, <4>2 DEF ReplyFor
        <5> QED
          BY <5>1
      <4> QED
        BY <2>1, <4>1, <4>2
    <3> QED
      BY <3>1 DEF RepliesInv
  <2> QED
    BY <1>9, <2>2, <2>3, <2>4, <2>5 DEF RpcInv
<1>11. CASE a.good
  <2>1. PICK b \in Results, res \in Samples(Method(x).ret) :
          /\ replies' = replies \cup {Replied([xid |-> x], Result(Method(x).ret, res, b), b)}
          /\ log' = [y \in DOMAIN log \cup {x} |-> IF y = x THEN [args |-> a.args, b |-> b, r |-> res] ELSE log[y]]
    BY <1>2, <1>4, <1>6, <1>11 DEF a
  <2>2. /\ DOMAIN log' = DOMAIN log \cup {x} /\ \A y \in DOMAIN log : log'[y] = log[y] /\ y # x
        /\ log'[x].args = a.args /\ log'[x].b = b /\ log'[x].r = res
    BY <1>7, <2>1
  <2>3. Types'
    BY <1>1, <1>8, <2>2 DEF Types, TypeOK
  <2>4. \A y \in DOMAIN sent : Method(y)' = Method(y) /\ sent'[y] = sent[y] /\ y \in DOMAIN sent'
    BY <1>7, SentKept DEF SentGrows
  <2>5. LogInv'
    BY <1>8, <2>2, <2>4 DEF LogInv
  <2>6. ArgumentsArrive'
    <3>1. ASSUME NEW y \in DOMAIN log'
          PROVE  LET q == Invocations[sent'[y]]
                     ty == Methods[q.proc].args
                 IN /\ Marshalled(ty, log'[y].args) = Marshalled(q.types, q.args)
                    /\ ty = q.types => log'[y].args = q.args
      <4>1. CASE y = x
        BY <1>5, <1>11, <2>2, <2>4, <4>1 DEF Method
      <4>2. CASE y \in DOMAIN log
        BY <1>8, <2>2, <2>4, <4>2 DEF ArgumentsArrive
      <4> QED
        BY <2>2, <4>1, <4>2
    <3> QED
      BY <3>1 DEF ArgumentsArrive
  <2>7. RequestsInv'
    <3>1. ASSUME NEW n \in requests' PROVE \E y \in DOMAIN sent' : RequestFor(y, n)'
      <4>1. PICK y \in DOMAIN sent : RequestFor(y, n)
        BY <1>2 DEF RpcInv, RequestsInv
      <4>2. y # x
        BY <1>2, <1>7, <4>1 DEF RequestFor
      <4>3. y \in DOMAIN sent' /\ RequestFor(y, n)'
        BY <2>2, <2>4, <4>1, <4>2 DEF RequestFor
      <4> QED
        BY <4>3
    <3> QED
      BY <3>1 DEF RequestsInv
  <2>8. RepliesInv'
    <3>1. ASSUME NEW n \in replies' PROVE \E y \in DOMAIN sent' : ReplyFor(y, n)'
      <4>1. CASE n \in replies
        <5>1. PICK y \in DOMAIN sent : ReplyFor(y, n)
          BY <4>1 DEF RpcInv, RepliesInv
        <5>2. y \in DOMAIN sent' /\ ReplyFor(y, n)'
          BY <2>2, <2>4, <5>1 DEF ReplyFor
        <5> QED
          BY <5>2
      <4>2. CASE n = Replied([xid |-> x], Result(Method(x).ret, res, b), b)
        <5>1. x \in DOMAIN sent' /\ ReplyFor(x, n)'
          BY <2>2, <2>4, <4>2 DEF ReplyFor
        <5> QED
          BY <5>1
      <4> QED
        BY <2>1, <4>1, <4>2
    <3> QED
      BY <3>1 DEF RepliesInv
  <2> QED
    BY <1>9, <2>3, <2>5, <2>6, <2>7, <2>8 DEF RpcInv
<1> QED
  BY <1>10, <1>11

LEMMA NextKeeps == ASSUME NoContainers, RpcInv, [Next]_vars PROVE RpcInv'
<1>1. CASE \E c \in Clients : Call(c) \/ Timeout(c) \/ Receive(c)
  BY <1>1, CallKeeps, TimeoutKeeps, ReceiveKeeps
<1>2. CASE Fn
  BY <1>2, FnKeeps
<1>3. CASE Lose
  BY <1>3, LoseKeeps
<1>4. CASE UNCHANGED vars
  <2>1. Types' /\ WaitingInv' /\ AbortOnlyOnMismatch'
    BY <1>4 DEF vars, RpcInv, Types, TypeOK, WaitingInv, AbortOnlyOnMismatch
  <2>2. RequestsInv' /\ RepliesInv' /\ LogInv' /\ ArgumentsArrive'
    BY <1>4, QuietKeeps DEF vars
  <2> QED
    BY <2>1, <2>2 DEF RpcInv
<1> QED
  BY <1>1, <1>2, <1>3, <1>4 DEF Next

(* Every request under way is the request of a call that was not executed, *)
(* every reply that of its call, and a client waits for its own xid with a *)
(* result variable of the type it called with.                             *)
THEOREM RpcInvariant == ASSUME NoContainers PROVE Spec => []RpcInv
<1>1. Init => RpcInv
  BY InitKeeps
<1>2. RpcInv /\ [Next]_vars => RpcInv'
  BY NextKeeps
<1> QED
  BY <1>1, <1>2, PTL DEF Spec

(* Answers are those of the method or of the library, and a method runs    *)
(* for calls that were made only.                                          *)
THEOREM AnswersAreKnown == ASSUME NoContainers PROVE Spec => []TypeOK
<1>1. RpcInv => TypeOK
  BY DEF RpcInv, Types
<1> QED
  BY <1>1, RpcInvariant, PTL

(* A method runs on arguments that are byte for byte those of the call,    *)
(* and on the same values if client and server agree on the types, in any  *)
(* interleaving of clients, losses and timeouts.                           *)
THEOREM ArgumentsDoArrive == ASSUME NoContainers PROVE Spec => []ArgumentsArrive
<1>1. RpcInv => ArgumentsArrive
  BY DEF RpcInv
<1> QED
  BY <1>1, RpcInvariant, PTL

(* call_m's VERIFY(0) ends only a client that has the type of a result     *)
(* wrong.                                                                  *)
THEOREM AbortsAreMismatches == ASSUME NoContainers PROVE Spec => []AbortOnlyOnMismatch
<1>1. RpcInv => AbortOnlyOnMismatch
  BY DEF RpcInv
<1> QED
  BY <1>1, RpcInvariant, PTL

LEMMA AnswersStep ==
  ASSUME NoContainers, RpcInv, [Next]_vars, NEW c \in Clients, waiting[c] # None, waiting'[c] = None
  PROVE  LET k == Invocations[waiting[c]]
         IN IF intret'[c] < 0 THEN r'[c] = r[c]
            ELSE /\ mine[c] \in DOMAIN log /\ intret'[c] = log[mine[c]].b
                 /\ k.ret = Methods[k.proc].ret
                      => r'[c].value = IF k.ret.kind = "vector" THEN r[c].value \o log[mine[c]].r
                                       ELSE log[mine[c]].r
<1> DEFINE k == Invocations[waiting[c]]
<1>1. /\ waiting \in [Clients -> DOMAIN Invocations \cup {None}]
      /\ intret \in [Clients -> Results \cup {0, timeout_failure, unmarshal_args_failure}]
      /\ r \in [Clients -> [type : PlainTypes, value : PlainValues]]
      /\ mine[c] \in DOMAIN sent /\ sent[mine[c]] = waiting[c] /\ r[c].type = k.ret
  BY DEF RpcInv, Types, TypeOK, WaitingInv
<1>2. PICK d \in Clients : Timeout(d) \/ Receive(d)
  <2>1. ~(waiting' = waiting)
    OBVIOUS
  <2>2. ASSUME NEW d \in Clients, Call(d) PROVE FALSE
    <3>1. waiting[d] = None /\ \E i \in DOMAIN Invocations : waiting' = [waiting EXCEPT ![d] = i]
      BY <2>2 DEF Call
    <3> QED
      BY <1>1, <3>1
  <2> QED
    BY <2>1, <2>2 DEF Next, vars, Fn, Lose
<1>3. d = c
  <2>1. waiting' = waiting \/ waiting' = [waiting EXCEPT ![d] = None]
    BY <1>2 DEF Timeout, Receive, Returns
  <2> QED
    BY <1>1, <2>1
<1>4. CASE Timeout(d)
  <2>1. intret' = [intret EXCEPT ![c] = timeout_failure] /\ r' = r
    BY <1>3, <1>4 DEF Timeout, Returns
  <2>2. intret'[c] < 0
    BY <1>1, <2>1 DEF timeout_failure
  <2> QED
    BY <2>1, <2>2
<1>5. CASE Receive(d)
  <2>1. PICK code, v, done : Takes(c, code, v, done)
    BY <1>3, <1>5, ReceiveIs
  <2>2. Returns(c, code)
    BY <1>1, <2>1 DEF Takes
  <2>3. intret'[c] = code
    BY <1>1, <2>2 DEF Returns
  <2>4. CASE Failed(code)
    <3>1. r' = r /\ code < 0
      BY <2>1, <2>4 DEF Takes, Failed
    <3> QED
      BY <2>3, <3>1
  <2>5. CASE ~Failed(code)
    <3>1. /\ mine[c] \in DOMAIN log /\ code = log[mine[c]].b /\ r' = [r EXCEPT ![c].value = v]
          /\ r[c].type = Method(mine[c]).ret => v = log[mine[c]].r
      BY <2>1, <2>5 DEF Takes
    <3>2. r'[c].value = v
      BY <1>1, <3>1
    <3>3. ~(code < 0)
      BY <2>5 DEF Failed
    <3>4. k.ret.kind # "vector"
      BY <1>1, PlainTypesArePlain
    <3>5. Method(mine[c]) = Methods[k.proc]
      BY <1>1 DEF Method
    <3> QED
      BY <1>1, <2>3, <3>1, <3>2, <3>3, <3>4, <3>5
  <2> QED
    BY <2>4, <2>5
<1> QED
  BY <1>2, <1>4, <1>5

(* A call that answers a number that is not negative answers its own       *)
(* method's and leaves the method's result in r; a call that answers a     *)
(* negative number leaves r alone, even if the reply to an earlier call    *)
(* that timed out arrives in between.                                      *)
THEOREM RepliesAreTheMethods == ASSUME NoContainers PROVE Spec => ReplyIsTheMethods
<1> DEFINE Step == \A c \in Clients :
             waiting[c] # None /\ waiting'[c] = None =>
               LET k == Invocations[waiting[c]]
               IN IF intret'[c] < 0 THEN r'[c] = r[c]
                  ELSE /\ mine[c] \in DOMAIN log /\ intret'[c] = log[mine[c]].b
                       /\ k.ret = Methods[k.proc].ret
                            => r'[c].value = IF k.ret.kind = "vector" THEN r[c].value \o log[mine[c]].r
                                             ELSE log[mine[c]].r
<1>1. RpcInv /\ [Next]_vars => [Step]_vars
  BY AnswersStep
<1>2. ReplyIsTheMethods <=> [][Step]_vars
  BY DEF ReplyIsTheMethods
<1> HIDE DEF Step
<1> QED
  BY <1>1, <1>2, RpcInvariant, PTL DEF Spec
=============================================================================
