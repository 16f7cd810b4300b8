---------------------------- MODULE BigNumProofs ----------------------------
(***************************************************************************)
(* That the arithmetic of bignum.c is exact, for every width of a limb,    *)
(* every radix, and operands of any length.  Value reads a sequence of     *)
(* limbs from the top limb down (l[i] + B * the rest); Above(l, i) is its  *)
(* value from limb i up.  Every operator is a chain of carries, borrows or *)
(* remainders, and every proof says what the chain is worth at place i and *)
(* goes over the places by induction.  Where the induction step multiplies *)
(* two unknowns, the identity it needs is an operator of its own (HornerSum,*)
(* HornerLess ...), true of all integers, and cited with the step's terms. *)
(***************************************************************************)
EXTENDS Numbers, WellFoundedInduction, TLAPS

-----------------------------------------------------------------------------
(* Induction and recursion, over sets and functions.                       *)

\* A set of naturals that is not empty has a least element.
LEMMA Least ==
    ASSUME NEW T, T \subseteq Nat, T # {}
    PROVE  \E m \in T : \A x \in T : m <= x
<1> DEFINE R == OpToRel(<, Nat)
<1>1. \A x, y \in Nat : x < y => <<x, y>> \in R
      BY DEF OpToRel
<1>2. IsWellFoundedOn(R, Nat)
      BY NatLessThanWellFounded
<1> HIDE DEF R
<1>3. PICK m \in T : \A y \in T : ~(<<y, m>> \in R)
      BY <1>2, WFMin
<1>4. ASSUME NEW x \in T
      PROVE  m <= x
  <2>1. x \in Nat /\ m \in Nat
        OBVIOUS
  <2>2. ~(x < m)
        BY <1>1, <1>3, <2>1
  <2> QED
      BY <2>1, <2>2
<1> QED
    BY <1>4

\* Induction over an interval, upwards.
LEMMA InductUp ==
    ASSUME NEW lo \in Int, NEW hi \in Int, NEW T, lo \in T,
           \A i \in lo .. hi : i < hi /\ i \in T => i + 1 \in T
    PROVE  \A i \in lo .. hi : i \in T
<1> DEFINE U == {k \in Nat : lo + k <= hi /\ lo + k \notin T}
<1> SUFFICES ASSUME U # {}
             PROVE  FALSE
  <2> SUFFICES ASSUME NEW i \in lo .. hi, i \notin T
               PROVE  U # {}
      OBVIOUS
  <2>1. i - lo \in Nat /\ lo + (i - lo) = i
        OBVIOUS
  <2>2. i - lo \in U
        BY <2>1
  <2> QED
      BY <2>2
<1>1. PICK m \in U : \A x \in U : m <= x
      BY Least
<1>2. m # 0
      BY <1>1
<1>3. m - 1 \in Nat /\ m - 1 \notin U
      BY <1>1, <1>2
<1>4. lo + (m - 1) \in T /\ lo + (m - 1) \in lo .. hi - 1
      BY <1>1, <1>3
<1>5. (lo + (m - 1)) + 1 = lo + m
      BY <1>1
<1> QED
    BY <1>1, <1>4, <1>5

\* Induction over an interval, downwards.
LEMMA InductDown ==
    ASSUME NEW lo \in Int, NEW hi \in Int, NEW T, hi \in T,
           \A i \in lo .. hi : i < hi /\ i + 1 \in T => i \in T
    PROVE  \A i \in lo .. hi : i \in T
<1> DEFINE U == {k \in Nat : hi - k >= lo /\ hi - k \notin T}
<1> SUFFICES ASSUME U # {}
             PROVE  FALSE
  <2> SUFFICES ASSUME NEW i \in lo .. hi, i \notin T
               PROVE  U # {}
      OBVIOUS
  <2>1. hi - i \in Nat /\ hi - (hi - i) = i
        OBVIOUS
  <2>2. hi - i \in U
        BY <2>1
  <2> QED
      BY <2>2
<1>1. PICK m \in U : \A x \in U : m <= x
      BY Least
<1>2. m # 0
      BY <1>1
<1>3. m - 1 \in Nat /\ m - 1 \notin U
      BY <1>1, <1>2
<1>4. hi - (m - 1) \in T /\ hi - m \in lo .. hi - 1
      BY <1>1, <1>3
<1>5. (hi - m) + 1 = hi - (m - 1)
      BY <1>1
<1> QED
    BY <1>1, <1>4, <1>5

\* Induction over the naturals.
LEMMA Induct ==
    ASSUME NEW T, 0 \in T, \A i \in Nat : i \in T => i + 1 \in T
    PROVE  \A i \in Nat : i \in T
<1> SUFFICES ASSUME NEW n \in Nat
             PROVE  n \in T
    OBVIOUS
<1>1. \A i \in 0 .. n : i < n /\ i \in T => i + 1 \in T
      OBVIOUS
<1>2. \A i \in 0 .. n : i \in T
      BY <1>1, InductUp
<1> QED
    BY <1>2

\* f starts at c and takes n steps.
Steps(f, c, step, n) == f[0] = c /\ \A i \in 0 .. n - 1 : f[i + 1] = step[<<i, f[i]>>]

\* A function of n steps, for every n.
LEMMA StepsExist ==
    ASSUME NEW S, NEW c \in S, NEW step \in [Nat \X S -> S]
    PROVE  \A n \in Nat : \E f \in [0 .. n -> S] : Steps(f, c, step, n)
<1> DEFINE T == {n \in Nat : \E f \in [0 .. n -> S] : Steps(f, c, step, n)}
<1>1. 0 \in T
  <2>1. [i \in 0 .. 0 |-> c] \in [0 .. 0 -> S] /\ Steps([i \in 0 .. 0 |-> c], c, step, 0)
        BY DEF Steps
  <2> QED
      BY <2>1
<1>2. ASSUME NEW n \in Nat, n \in T
      PROVE  n + 1 \in T
  <2>1. PICK f \in [0 .. n -> S] : Steps(f, c, step, n)
        BY <1>2
  <2> DEFINE g == [i \in 0 .. n + 1 |-> IF i = n + 1 THEN step[<<n, f[n]>>] ELSE f[i]]
  <2>2. step[<<n, f[n]>>] \in S
    <3>1. f[n] \in S
          OBVIOUS
    <3> QED
        BY <3>1
  <2>3. \A i \in 0 .. n : g[i] = f[i]
        OBVIOUS
  <2>4. g[n + 1] = step[<<n, f[n]>>] /\ g \in [0 .. n + 1 -> S]
        BY <2>2
  <2> HIDE DEF g
  <2>5. ASSUME NEW i \in 0 .. (n + 1) - 1
        PROVE  g[i + 1] = step[<<i, g[i]>>]
    <3>1. CASE i = n
          BY <3>1, <2>3, <2>4
    <3>2. CASE i # n
      <4>1. i \in 0 .. n - 1 /\ i + 1 \in 0 .. n /\ i \in 0 .. n
            BY <3>2
      <4> QED
          BY <4>1, <2>1, <2>3 DEF Steps
    <3> QED
        BY <3>1, <3>2
  <2>6. g[0] = c
        BY <2>1, <2>3 DEF Steps
  <2>7. Steps(g, c, step, n + 1)
        BY <2>5, <2>6 DEF Steps
  <2> QED
      BY <2>4, <2>7
<1> HIDE DEF T
<1>3. \A n \in Nat : n \in T
      BY <1>1, <1>2, Induct
<1> QED
    BY <1>3 DEF T

\* One function that takes all steps.
LEMMA Recursion ==
    ASSUME NEW S, NEW c \in S, NEW step \in [Nat \X S -> S]
    PROVE  \E f \in [Nat -> S] : \A n \in Nat : Steps(f, c, step, n)
<1> DEFINE Good(n, f) == f \in [0 .. n -> S] /\ Steps(f, c, step, n)
           F(n) == CHOOSE f : Good(n, f)
           f == [n \in Nat |-> F(n)[n]]
<1>1. ASSUME NEW n \in Nat
      PROVE  Good(n, F(n))
  <2>1. \E g \in [0 .. n -> S] : Steps(g, c, step, n)
        BY StepsExist
  <2>2. \E g : Good(n, g)
        BY <2>1
  <2> HIDE DEF Good
  <2> QED
      BY <2>2
<1>2. ASSUME NEW n \in Nat, NEW m \in Nat, n <= m, NEW g, NEW h, Good(n, g), Good(m, h)
      PROVE  g[n] = h[n]
  <2> DEFINE T == {i \in 0 .. n : g[i] = h[i]}
  <2>1. 0 \in T
        BY <1>2 DEF Steps
  <2>2. ASSUME NEW i \in 0 .. n, i < n, i \in T
        PROVE  i + 1 \in T
    <3>1. i \in 0 .. n - 1 /\ i \in 0 .. m - 1 /\ i + 1 \in 0 .. n /\ g[i] = h[i]
          BY <1>2, <2>2
    <3>2. g[i + 1] = step[<<i, g[i]>>] /\ h[i + 1] = step[<<i, h[i]>>]
          BY <1>2, <2>2, <3>1 DEF Steps
    <3> QED
        BY <3>1, <3>2
  <2> HIDE DEF T
  <2>3. \A i \in 0 .. n : i \in T
        BY <2>1, <2>2, InductUp
  <2> QED
      BY <2>3 DEF T
<1>3. f[0] = c
  <2>1. Good(0, F(0)) /\ f[0] = F(0)[0]
        BY <1>1
  <2>2. F(0)[0] = c
    <3> HIDE DEF F
    <3> QED
        BY <2>1 DEF Steps
  <2> HIDE DEF F, f
  <2> QED
      BY <2>1, <2>2
<1>4. ASSUME NEW n \in Nat
      PROVE  f[n + 1] = step[<<n, f[n]>>] /\ f[n] \in S
  <2>1. Good(n, F(n)) /\ Good(n + 1, F(n + 1))
        BY <1>1
  <2>2. F(n)[n] = F(n + 1)[n]
    <3> HIDE DEF Good, F
    <3> QED
        BY <1>2, <2>1
  <2>3. F(n + 1)[n + 1] = step[<<n, F(n + 1)[n]>>] /\ F(n)[n] \in S
    <3> HIDE DEF F
    <3>1. n \in 0 .. (n + 1) - 1 /\ n \in 0 .. n
          OBVIOUS
    <3> QED
        BY <2>1, <3>1 DEF Steps
  <2>4. f[n + 1] = F(n + 1)[n + 1] /\ f[n] = F(n)[n]
        OBVIOUS
  <2> HIDE DEF F, f
  <2> QED
      BY <2>2, <2>3, <2>4
<1>5. f \in [Nat -> S]
  <2>1. f = [n \in Nat |-> f[n]]
        OBVIOUS
  <2> HIDE DEF f
  <2> QED
      BY <2>1, <1>4
<1> HIDE DEF f
<1>6. \A n \in Nat : Steps(f, c, step, n)
      BY <1>3, <1>4 DEF Steps
<1> QED
    BY <1>5, <1>6

\* A chain: a function defined from place to place, upwards or downwards.
Upward(f, lo, hi, c, step) == f = [i \in lo .. hi |-> IF i = lo THEN c ELSE step[<<i, f[i - 1]>>]]
\* The same from the top place down.
Downward(f, lo, hi, c, step) == f = [i \in lo .. hi |-> IF i = hi THEN c ELSE step[<<i, f[i + 1]>>]]

\* A chain upwards exists, with its values in the set the step stays in.
LEMMA ChainUp ==
    ASSUME NEW S, NEW lo \in Int, NEW hi \in Int, NEW c \in S, NEW D, NEW step \in [D \X S -> S],
           \A i \in lo .. hi : lo < i => i \in D
    PROVE  \E f \in [lo .. hi -> S] : Upward(f, lo, hi, c, step)
<1> DEFINE st == [p \in Nat \X S |-> IF lo + p[1] + 1 <= hi THEN step[<<lo + p[1] + 1, p[2]>>] ELSE p[2]]
<1>1. st \in [Nat \X S -> S]
  <2>1. ASSUME NEW k \in Nat, NEW x \in S, lo + k + 1 <= hi
        PROVE  step[<<lo + k + 1, x>>] \in S
    <3>1. lo + k + 1 \in D
          BY <2>1
    <3> QED
        BY <3>1
  <2> QED
      BY <2>1
<1>2. \A k \in Nat, x \in S : lo + k + 1 <= hi => st[<<k, x>>] = step[<<lo + k + 1, x>>]
      OBVIOUS
<1> HIDE DEF st
<1>6. PICK g \in [Nat -> S] : \A n \in Nat : Steps(g, c, st, n)
      BY <1>1, Recursion
<1>3. g[0] = c /\ \A i \in Nat : g[i + 1] = st[<<i, g[i]>>]
  <2>1. Steps(g, c, st, 0)
        BY <1>6
  <2>2. \A i \in Nat : Steps(g, c, st, i + 1) /\ i \in 0 .. (i + 1) - 1
        BY <1>6
  <2> QED
      BY <2>1, <2>2 DEF Steps
<1> DEFINE f == [i \in lo .. hi |-> g[i - lo]]
<1>4. ASSUME NEW i \in lo .. hi
      PROVE  f[i] \in S /\ f[i] = IF i = lo THEN c ELSE step[<<i, f[i - 1]>>]
  <2>1. CASE i = lo
        BY <2>1, <1>3
  <2>2. CASE i # lo
    <3>1. i - lo - 1 \in Nat /\ (i - lo - 1) + 1 = i - lo /\ lo + (i - lo - 1) + 1 = i /\ i - 1 \in lo .. hi
          BY <2>2
    <3>2. f[i] = g[i - lo] /\ f[i - 1] = g[i - lo - 1] /\ g[i - lo - 1] \in S
          BY <3>1
    <3>3. g[i - lo] = st[<<i - lo - 1, g[i - lo - 1]>>]
          BY <3>1, <1>3
    <3>4. g[i - lo] = step[<<i, g[i - lo - 1]>>]
          BY <3>1, <3>2, <3>3, <1>2
    <3>5. g[i - lo] \in S
          BY <3>1
    <3> QED
        BY <3>2, <3>4, <3>5, <2>2
  <2> QED
      BY <2>1, <2>2
<1>5. f \in [lo .. hi -> S] /\ f = [i \in lo .. hi |-> IF i = lo THEN c ELSE step[<<i, f[i - 1]>>]]
  <2> HIDE DEF f
  <2>1. f \in [lo .. hi -> S]
    <3>1. f = [i \in lo .. hi |-> g[i - lo]]
          BY DEF f
    <3> QED
        BY <3>1, <1>4
  <2> QED
      BY <2>1, <1>4
<1> QED
    BY <1>5 DEF Upward

\* And one downwards.
LEMMA ChainDown ==
    ASSUME NEW S, NEW lo \in Int, NEW hi \in Int, NEW c \in S, NEW D, NEW step \in [D \X S -> S],
           \A i \in lo .. hi : i < hi => i \in D
    PROVE  \E f \in [lo .. hi -> S] : Downward(f, lo, hi, c, step)
<1> DEFINE st == [p \in ((-hi) + 1 .. -lo) \X S |-> step[<<-p[1], p[2]>>]]
<1>1. st \in [((-hi) + 1 .. -lo) \X S -> S]
  <2>1. ASSUME NEW k \in (-hi) + 1 .. -lo, NEW x \in S
        PROVE  step[<<-k, x>>] \in S
    <3>1. -k \in D
          OBVIOUS
    <3> QED
        BY <3>1
  <2> QED
      BY <2>1
<1>2. \A k \in (-hi) + 1 .. -lo, x \in S : st[<<k, x>>] = step[<<-k, x>>]
      OBVIOUS
<1> HIDE DEF st
<1>3. -hi \in Int /\ -lo \in Int
      OBVIOUS
<1>8. \A i \in -hi .. -lo : -hi < i => i \in (-hi) + 1 .. -lo
      OBVIOUS
<1>7. PICK g \in [-hi .. -lo -> S] : Upward(g, -hi, -lo, c, st)
      BY <1>1, <1>3, <1>8, ChainUp
<1>4. g = [i \in -hi .. -lo |-> IF i = -hi THEN c ELSE st[<<i, g[i - 1]>>]]
      BY <1>7, Zenon DEF Upward
<1> DEFINE f == [i \in lo .. hi |-> g[-i]]
<1>5. ASSUME NEW i \in lo .. hi
      PROVE  f[i] \in S /\ f[i] = IF i = hi THEN c ELSE step[<<i, f[i + 1]>>]
  <2>1. -i \in -hi .. -lo /\ f[i] = g[-i] /\ g[-i] \in S
        OBVIOUS
  <2>2. CASE i = hi
        BY <2>1, <2>2, <1>4
  <2>3. CASE i # hi
    <3>1. -i \in (-hi) + 1 .. -lo /\ -(-i) = i /\ i + 1 \in lo .. hi /\ -(i + 1) = -i - 1 /\ -i # -hi
          BY <2>3
    <3>2. g[-i] = st[<<-i, g[-i - 1]>>]
          BY <1>4, <2>1, <3>1
    <3>3. f[i + 1] = g[-i - 1] /\ g[-i - 1] \in S
          BY <3>1
    <3>4. st[<<-i, g[-i - 1]>>] = step[<<-(-i), g[-i - 1]>>]
          BY <1>2, <3>1, <3>3
    <3>5. g[-i] = step[<<i, f[i + 1]>>]
          BY <3>1, <3>2, <3>3, <3>4
    <3> QED
        BY <2>1, <2>3, <3>5
  <2> QED
      BY <2>2, <2>3
<1>6. f \in [lo .. hi -> S] /\ f = [i \in lo .. hi |-> IF i = hi THEN c ELSE step[<<i, f[i + 1]>>]]
  <2>1. f = [i \in lo .. hi |-> g[-i]]
        OBVIOUS
  <2> HIDE DEF f
  <2>2. f \in [lo .. hi -> S]
        BY <2>1, <1>5
  <2> QED
      BY <2>2, <1>5
<1> QED
    BY <1>6 DEF Downward

-----------------------------------------------------------------------------
(* Quotients and powers.                                                   *)

\* What \div and % are.
LEMMA Quotient ==
    ASSUME NEW a \in Int, NEW b \in Nat \ {0}
    PROVE  a \div b \in Int /\ a % b \in 0 .. b - 1 /\ a = b * (a \div b) + (a % b)
<1>1. a \div b \in Int
      OBVIOUS
<1>2. a % b \in 0 .. b - 1
      OBVIOUS
<1>3. a = b * (a \div b) + (a % b)
      OBVIOUS
<1> QED
    BY <1>1, <1>2, <1>3

\* They are the only such numbers.
LEMMA QuotientIs ==
    ASSUME NEW a \in Int, NEW b \in Nat \ {0}, NEW q \in Int, NEW r \in 0 .. b - 1, a = b * q + r
    PROVE  a \div b = q /\ a % b = r
OBVIOUS

\* Of naturals they are naturals, and no larger than the dividend.
LEMMA QuotientNat ==
    ASSUME NEW a \in Nat, NEW b \in Nat \ {0}
    PROVE  a \div b \in Nat /\ a % b \in Nat /\ a \div b <= a /\ b * (a \div b) <= a
OBVIOUS

\* A bound of the dividend bounds the quotient.
LEMMA QuotientBound ==
    ASSUME NEW a \in Nat, NEW b \in Nat \ {0}, NEW c \in Nat, a < b * c
    PROVE  a \div b < c
OBVIOUS

\* Products are monotonic.
LEMMA ProductMono ==
    ASSUME NEW a \in Nat, NEW b \in Nat, NEW c \in Nat, a <= b
    PROVE  a * c <= b * c /\ c * a <= c * b
OBVIOUS

\* Strictly, by a factor that is not zero.
LEMMA ProductLess ==
    ASSUME NEW a \in Nat, NEW b \in Nat, NEW c \in Nat \ {0}, a < b
    PROVE  a * c < b * c /\ c * a < c * b
OBVIOUS

\* To divide twice is to divide by the product.
LEMMA QuotientTwice ==
    ASSUME NEW a \in Nat, NEW b \in Nat \ {0}, NEW c \in Nat \ {0}
    PROVE  (a \div b) \div c = a \div (b * c)
OBVIOUS

\* The recurrence of a power.
LEMMA PowerIs ==
    ASSUME NEW b \in Nat
    PROVE  /\ Power(b) \in [Nat -> Nat]
           /\ Power(b)[0] = 1
           /\ \A k \in Nat : Power(b)[k + 1] = b * Power(b)[k]
<1> DEFINE step == [p \in Nat \X Nat |-> b * p[2]]
<1>1. step \in [Nat \X Nat -> Nat] /\ 1 \in Nat
      OBVIOUS
<1>2. \A k, x \in Nat : step[<<k, x>>] = b * x
      OBVIOUS
<1> HIDE DEF step
<1>3. PICK f \in [Nat -> Nat] : \A n \in Nat : Steps(f, 1, step, n)
      BY <1>1, Recursion
<1>4. f[0] = 1 /\ \A k \in Nat : f[k + 1] = b * f[k]
  <2>1. Steps(f, 1, step, 0)
        BY <1>3
  <2>2. ASSUME NEW k \in Nat
        PROVE  f[k + 1] = b * f[k]
    <3>1. Steps(f, 1, step, k + 1) /\ k \in 0 .. (k + 1) - 1
          BY <1>3
    <3> QED
        BY <3>1, <1>2 DEF Steps
  <2> QED
      BY <2>1, <2>2 DEF Steps
<1>5. f = [k \in Nat |-> IF k = 0 THEN 1 ELSE b * f[k - 1]]
  <2>1. ASSUME NEW k \in Nat
        PROVE  f[k] = IF k = 0 THEN 1 ELSE b * f[k - 1]
    <3>1. CASE k # 0
      <4>1. k - 1 \in Nat /\ (k - 1) + 1 = k
            BY <3>1
      <4> QED
          BY <4>1, <1>4, <3>1
    <3> QED
        BY <3>1, <1>4
  <2> QED
      BY <2>1
<1> DEFINE Is(g) == g = [k \in Nat |-> IF k = 0 THEN 1 ELSE b * g[k - 1]]
<1>6. Power(b) = CHOOSE g : Is(g)
      BY DEF Power
<1>7. Is(Power(b))
  <2>1. \E g : Is(g)
        BY <1>5
  <2> HIDE DEF Is
  <2> QED
      BY <2>1, <1>6
<1> DEFINE P == Power(b)
<1>8. P = [k \in Nat |-> IF k = 0 THEN 1 ELSE b * P[k - 1]]
      BY <1>7
<1> HIDE DEF P
<1>9. P[0] = 1 /\ \A k \in Nat : P[k + 1] = b * P[k]
      BY <1>8
<1>10. \A k \in Nat : P[k] \in Nat
  <2> DEFINE T == {k \in Nat : P[k] \in Nat}
  <2>1. 0 \in T /\ \A k \in Nat : k \in T => k + 1 \in T
        BY <1>9
  <2> HIDE DEF T
  <2>2. \A k \in Nat : k \in T
        BY <2>1, Induct
  <2> QED
      BY <2>2 DEF T
<1>11. P \in [Nat -> Nat]
      BY <1>8, <1>10
<1> QED
    BY <1>9, <1>11 DEF P

\* A power of a positive number is positive.
LEMMA PowerPos ==
    ASSUME NEW b \in Nat \ {0}
    PROVE  \A k \in Nat : Power(b)[k] \in Nat \ {0} /\ Power(b)[k + 1] = b * Power(b)[k]
<1>1. /\ Power(b) \in [Nat -> Nat] /\ Power(b)[0] = 1
      /\ \A k \in Nat : Power(b)[k + 1] = b * Power(b)[k]
      BY PowerIs
<1> DEFINE T == {k \in Nat : Power(b)[k] \in Nat \ {0}}
<1>2. 0 \in T /\ \A k \in Nat : k \in T => k + 1 \in T
      BY <1>1
<1> HIDE DEF T
<1>3. \A k \in Nat : k \in T
      BY <1>2, Induct
<1> QED
    BY <1>1, <1>3 DEF T

\* The power of a sum.
LEMMA PowerAdd ==
    ASSUME NEW b \in Nat \ {0}, NEW i \in Nat
    PROVE  \A j \in Nat : Power(b)[i + j] = Power(b)[i] * Power(b)[j]
<1> DEFINE P == Power(b)
           T == {j \in Nat : P[i + j] = P[i] * P[j]}
<1>1. \A k \in Nat : P[k] \in Nat \ {0} /\ P[k + 1] = b * P[k]
      BY PowerPos
<1>2. P[0] = 1
      BY PowerIs
<1> HIDE DEF P
<1>3. 0 \in T
      BY <1>1, <1>2
<1>4. ASSUME NEW j \in Nat, j \in T
      PROVE  j + 1 \in T
  <2>1. P[i + (j + 1)] = b * P[i + j]
    <3>1. i + (j + 1) = (i + j) + 1 /\ i + j \in Nat
          OBVIOUS
    <3> QED
        BY <3>1, <1>1
  <2>2. P[j + 1] = b * P[j] /\ P[i + j] = P[i] * P[j] /\ {P[i], P[j]} \subseteq Nat
        BY <1>1, <1>4
  <2>3. b * (P[i] * P[j]) = P[i] * (b * P[j])
        BY <2>2
  <2> QED
      BY <2>1, <2>2, <2>3
<1> HIDE DEF T
<1>5. \A j \in Nat : j \in T
      BY <1>3, <1>4, Induct
<1> QED
    BY <1>5 DEF T, P

\* A larger exponent, a larger power.
LEMMA PowerMono ==
    ASSUME NEW b \in Nat \ {0}, NEW i \in Nat, NEW j \in Nat, i <= j
    PROVE  Power(b)[i] <= Power(b)[j]
<1>1. j - i \in Nat /\ i + (j - i) = j
      OBVIOUS
<1>2. Power(b)[j] = Power(b)[i] * Power(b)[j - i]
      BY <1>1, PowerAdd
<1>3. Power(b)[i] \in Nat \ {0} /\ Power(b)[j - i] \in Nat \ {0}
      BY <1>1, PowerPos
<1> QED
    BY <1>2, <1>3

\* An exponent is less than its power.
LEMMA PowerGrows ==
    ASSUME NEW b \in Nat \ {0, 1}
    PROVE  \A n \in Nat : n < Power(b)[n]
<1> DEFINE T == {n \in Nat : n < Power(b)[n]}
<1>1. \A k \in Nat : Power(b)[k] \in Nat \ {0} /\ Power(b)[k + 1] = b * Power(b)[k]
      BY PowerPos
<1>2. 0 \in T
      BY <1>1
<1>3. ASSUME NEW n \in Nat, n \in T
      PROVE  n + 1 \in T
  <2>1. n < Power(b)[n] /\ Power(b)[n] \in Nat /\ Power(b)[n + 1] = b * Power(b)[n]
        BY <1>1, <1>3
  <2>2. b * Power(b)[n] >= 2 * Power(b)[n]
        BY <2>1
  <2> QED
      BY <2>1, <2>2
<1> HIDE DEF T
<1>4. \A n \in Nat : n \in T
      BY <1>2, <1>3, Induct
<1> QED
    BY <1>4 DEF T

-----------------------------------------------------------------------------
(* Limbs and the numbers they stand for.                                   *)

\* Sequences of limbs.
Limbs == Seq(0 .. Ones)

\* The base and the powers of two it is one of.
LEMMA BaseIs ==
    /\ LimbBits \in Nat \ {0, 1} /\ MaxLimbs \in Nat \ {0}
    /\ B \in Nat /\ B >= 4 /\ Ones = B - 1 /\ Ones \in Nat
    /\ \A k \in Nat : Two[k] \in Nat \ {0} /\ Two[k + 1] = 2 * Two[k]
    /\ Two[0] = 1 /\ B = Two[LimbBits]
    /\ \A i, j \in Nat : Two[i + j] = Two[i] * Two[j]
<1>1. LimbBits \in Nat \ {0, 1} /\ MaxLimbs \in Nat \ {0}
      BY NumberAssumption
<1>2. /\ \A k \in Nat : Two[k] \in Nat \ {0} /\ Two[k + 1] = 2 * Two[k]
      /\ Two[0] = 1
      BY PowerPos, PowerIs DEF Two
<1>3. \A i, j \in Nat : Two[i + j] = Two[i] * Two[j]
      BY PowerAdd DEF Two
<1>4. Two[2] = 4
  <2>1. Two[0 + 1] = 2 * Two[0] /\ Two[1 + 1] = 2 * Two[1]
        BY <1>2
  <2> QED
      BY <2>1, <1>2
<1>5. Two[2] <= Two[LimbBits]
  <2>1. LimbBits \in Nat /\ 2 <= LimbBits /\ 2 \in Nat \ {0}
        BY <1>1
  <2> QED
      BY <2>1, PowerMono DEF Two
<1>6. B \in Nat /\ B >= 4
      BY <1>1, <1>2, <1>4, <1>5 DEF B
<1>7. Ones = B - 1 /\ Ones \in Nat
      BY <1>6 DEF Ones
<1>8. B = Two[LimbBits]
      BY DEF B
<1> QED
    BY <1>1, <1>2, <1>3, <1>6, <1>7, <1>8

\* The base, for the leaves that need its type only.
LEMMA BaseNat == B \in Nat /\ B \in Nat \ {0} /\ B \in Int /\ B >= 4 /\ Ones = B - 1 /\ Ones \in Nat
<1>1. B \in Nat /\ B >= 4 /\ Ones = B - 1
      BY BaseIs
<1> QED
    BY <1>1

\* A limb, inside and beyond its sequence.
LEMMA LimbIs ==
    ASSUME NEW l \in Limbs
    PROVE  /\ \A i : Limb(l, i) \in 0 .. B - 1
           /\ \A i \in Int : i > Len(l) => Limb(l, i) = 0
           /\ \A i \in 1 .. Len(l) : Limb(l, i) = l[i] /\ l[i] \in 0 .. B - 1
           /\ Len(l) \in Nat /\ l = [i \in 1 .. Len(l) |-> l[i]]
<1>1. B \in Nat /\ B >= 4 /\ Ones = B - 1
      BY BaseIs
<1>2. \A i \in 1 .. Len(l) : l[i] \in 0 .. B - 1
      BY <1>1 DEF Limbs
<1>3. Len(l) \in Nat /\ DOMAIN l = 1 .. Len(l) /\ l = [i \in 1 .. Len(l) |-> l[i]]
      BY DEF Limbs
<1> QED
    BY <1>1, <1>2, <1>3 DEF Limb

\* A function with values below the base is a sequence of limbs.
LEMMA LimbsAre ==
    ASSUME NEW n \in Nat, NEW f, f = [i \in 1 .. n |-> f[i]], \A i \in 1 .. n : f[i] \in 0 .. B - 1
    PROVE  f \in Limbs /\ Len(f) = n
<1>1. Ones = B - 1
      BY BaseIs
<1>2. f \in [1 .. n -> 0 .. Ones]
      BY <1>1
<1> QED
    BY <1>2 DEF Limbs

\* The recurrence of From.
LEMMA FromIs ==
    ASSUME NEW l \in Limbs
    PROVE  /\ From(l) \in [1 .. Len(l) + 1 -> Nat]
           /\ From(l)[Len(l) + 1] = 0
           /\ \A i \in 1 .. Len(l) : From(l)[i] = l[i] + B * From(l)[i + 1]
<1> DEFINE n == Len(l)
           step == [p \in (1 .. n) \X Nat |-> l[p[1]] + B * p[2]]
<1>1. n \in Nat /\ B \in Nat /\ \A i \in 1 .. n : l[i] \in Nat
  <2>1. \A i \in 1 .. n : l[i] \in 0 .. B - 1
        BY LimbIs
  <2>2. B \in Nat /\ B >= 4 /\ n \in Nat
        BY BaseIs, LimbIs
  <2> HIDE DEF n
  <2> QED
      BY <2>1, <2>2
<1>2. \A i \in 1 .. n, x \in Nat : step[<<i, x>>] = l[i] + B * x
      OBVIOUS
<1>3. step \in [(1 .. n) \X Nat -> Nat]
  <2>1. \A i \in 1 .. n, x \in Nat : l[i] + B * x \in Nat
    <3> HIDE DEF n
    <3> QED
        BY <1>1
  <2> HIDE DEF n
  <2> QED
      BY <2>1
<1> HIDE DEF step
<1> DEFINE Is(f) == f = [i \in 1 .. n + 1 |-> IF i = n + 1 THEN 0 ELSE l[i] + B * f[i + 1]]
<1>4. PICK f \in [1 .. n + 1 -> Nat] : Downward(f, 1, n + 1, 0, step)
  <2>1. 1 \in Int /\ n + 1 \in Int /\ 0 \in Nat /\ \A i \in 1 .. n + 1 : i < n + 1 => i \in 1 .. n
        BY <1>1
  <2> HIDE DEF n
  <2> QED
      BY <2>1, <1>3, ChainDown, Zenon
<1>5. Is(f)
  <2>1. \A i \in 1 .. n + 1 : i # n + 1 => i \in 1 .. n /\ f[i + 1] \in Nat
    <3> HIDE DEF n
    <3> QED
        BY <1>1
  <2>2. f = [i \in 1 .. n + 1 |-> IF i = n + 1 THEN 0 ELSE step[<<i, f[i + 1]>>]]
        BY <1>4 DEF Downward
  <2> HIDE DEF n
  <2> QED
      BY <2>1, <2>2, <1>2
<1>6. From(l) = CHOOSE g : Is(g)
      BY DEF From
<1>7. Is(From(l))
  <2>1. \E g : Is(g)
        BY <1>5
  <2> HIDE DEF Is
  <2> QED
      BY <2>1, <1>6
<1> DEFINE F == From(l)
<1>8. F = [i \in 1 .. n + 1 |-> IF i = n + 1 THEN 0 ELSE l[i] + B * F[i + 1]]
      BY <1>7
<1> HIDE DEF F
<1>9. F[n + 1] = 0 /\ \A i \in 1 .. n : F[i] = l[i] + B * F[i + 1]
      BY <1>1, <1>8
<1>10. \A i \in 1 .. n + 1 : F[i] \in Nat
  <2> DEFINE T == {i \in 1 .. n + 1 : F[i] \in Nat}
  <2>1. n + 1 \in T /\ \A i \in 1 .. n + 1 : i < n + 1 /\ i + 1 \in T => i \in T
    <3>1. ASSUME NEW i \in 1 .. n + 1, i < n + 1, F[i + 1] \in Nat
          PROVE  F[i] \in Nat
      <4>1. i \in 1 .. n /\ l[i] \in Nat
            BY <1>1, <3>1
      <4>2. F[i] = l[i] + B * F[i + 1]
            BY <4>1, <1>9
      <4>3. \A x, y, z \in Nat : x + y * z \in Nat
            OBVIOUS
      <4> QED
          BY <4>1, <4>2, <4>3, <3>1, <1>1
    <3>2. n + 1 \in 1 .. n + 1 /\ F[n + 1] \in Nat
      <4>1. F[n + 1] = 0
            BY <1>9
      <4> HIDE DEF n
      <4> QED
          BY <4>1, <1>1
    <3> HIDE DEF n
    <3> QED
        BY <3>1, <3>2
  <2> HIDE DEF T
  <2>2. \A i \in 1 .. n + 1 : i \in T
    <3>1. 1 \in Int /\ n + 1 \in Int
          BY <1>1
    <3> QED
        BY <2>1, <3>1, InductDown
  <2> QED
      BY <2>2 DEF T
<1>11. F \in [1 .. n + 1 -> Nat]
      BY <1>8, <1>10
<1> QED
    BY <1>9, <1>11 DEF F

\* The number from limb i up, also where there is none.
Above(l, i) == IF i \in 1 .. Len(l) THEN From(l)[i] ELSE 0

\* The recurrence of Above, which holds beyond the sequence as well.
LEMMA AboveIs ==
    ASSUME NEW l \in Limbs
    PROVE  /\ \A i \in Nat : Above(l, i) \in Nat
           /\ \A i \in Nat \ {0} : Above(l, i) = Limb(l, i) + B * Above(l, i + 1)
           /\ \A i \in Nat : i > Len(l) => Above(l, i) = 0
           /\ Value(l) = Above(l, 1)
<1>1. /\ From(l) \in [1 .. Len(l) + 1 -> Nat] /\ From(l)[Len(l) + 1] = 0
      /\ \A i \in 1 .. Len(l) : From(l)[i] = l[i] + B * From(l)[i + 1]
      BY FromIs
<1>2. Len(l) \in Nat /\ B \in Nat
      BY LimbIs, BaseIs
<1>3. \A i \in Nat : Above(l, i) \in Nat
      BY <1>1, <1>2 DEF Above
<1>4. \A i \in 1 .. Len(l) + 1 : Above(l, i) = From(l)[i]
      BY <1>1, <1>2 DEF Above
<1>5. ASSUME NEW i \in Nat \ {0}
      PROVE  Above(l, i) = Limb(l, i) + B * Above(l, i + 1)
  <2>1. CASE i \in 1 .. Len(l)
    <3>1. i + 1 \in 1 .. Len(l) + 1 /\ i \in 1 .. Len(l) + 1 /\ Limb(l, i) = l[i]
          BY <1>2, <2>1, LimbIs
    <3> QED
        BY <3>1, <1>1, <1>4, <2>1
  <2>2. CASE i > Len(l)
    <3>1. Above(l, i) = 0 /\ Above(l, i + 1) = 0 /\ Limb(l, i) = 0
          BY <1>2, <2>2, LimbIs DEF Above
    <3> QED
        BY <3>1, <1>2
  <2> QED
      BY <1>2, <2>1, <2>2
<1>6. \A i \in Nat : i > Len(l) => Above(l, i) = 0
      BY <1>2 DEF Above
<1>7. Value(l) = Above(l, 1)
      BY <1>2, <1>4 DEF Value
<1> QED
    BY <1>3, <1>5, <1>6, <1>7

\* What satisfies the recurrence of a number is the number.
LEMMA AboveUnique ==
    ASSUME NEW l \in Limbs, NEW n \in Nat, n >= Len(l), NEW g, g[n + 1] = 0,
           \A i \in 1 .. n : g[i] = Limb(l, i) + B * g[i + 1]
    PROVE  \A i \in 1 .. n + 1 : g[i] = Above(l, i)
<1> DEFINE T == {i \in 1 .. n + 1 : g[i] = Above(l, i)}
<1>1. n + 1 \in T
  <2>1. n + 1 \in Nat /\ n + 1 > Len(l)
        BY LimbIs
  <2>2. Above(l, n + 1) = 0
        BY <2>1, AboveIs
  <2> QED
      BY <2>1, <2>2
<1>2. ASSUME NEW i \in 1 .. n + 1, i < n + 1, i + 1 \in T
      PROVE  i \in T
  <2>1. i \in Nat \ {0} /\ i \in 1 .. n /\ i \in 1 .. n + 1
        BY <1>2
  <2>2. Above(l, i) = Limb(l, i) + B * Above(l, i + 1)
        BY <2>1, AboveIs
  <2> QED
      BY <1>2, <2>1, <2>2
<1> HIDE DEF T
<1>3. \A i \in 1 .. n + 1 : i \in T
  <2>1. 1 \in Int /\ n + 1 \in Int
        OBVIOUS
  <2> QED
      BY <2>1, <1>1, <1>2, InductDown
<1> QED
    BY <1>3 DEF T

\* The limbs from i up are less than the next power.
LEMMA AboveBound ==
    ASSUME NEW l \in Limbs, NEW n \in Nat, n >= Len(l)
    PROVE  \A i \in 1 .. n + 1 : Above(l, i) < Power(B)[n + 1 - i]
<1> DEFINE P == Power(B)
           T == {i \in 1 .. n + 1 : Above(l, i) < P[n + 1 - i]}
<1>1. B \in Nat \ {0} /\ B >= 4
      BY BaseIs
<1>2. \A k \in Nat : P[k] \in Nat \ {0} /\ P[k + 1] = B * P[k]
      BY <1>1, PowerPos
<1> HIDE DEF P
<1>3. n + 1 \in T
  <2>1. n + 1 \in Nat /\ n + 1 > Len(l) /\ (n + 1) - (n + 1) = 0
        BY LimbIs
  <2>2. Above(l, n + 1) = 0 /\ P[0] \in Nat \ {0}
        BY <2>1, <1>2, AboveIs
  <2>3. Above(l, n + 1) < P[n + 1 - (n + 1)]
        BY <2>1, <2>2
  <2> QED
      BY <2>1, <2>3
<1>4. ASSUME NEW i \in 1 .. n + 1, i < n + 1, i + 1 \in T
      PROVE  i \in T
  <2>1. i \in Nat \ {0} /\ i \in 1 .. n + 1 /\ n + 1 - (i + 1) \in Nat /\ (n + 1 - (i + 1)) + 1 = n + 1 - i
        BY <1>4
  <2>2. Above(l, i) = Limb(l, i) + B * Above(l, i + 1)
        BY <2>1, AboveIs
  <2>3. P[n + 1 - i] = B * P[n + 1 - (i + 1)] /\ P[n + 1 - (i + 1)] \in Nat
        BY <2>1, <1>2
  <2>4. Above(l, i + 1) \in Nat /\ Above(l, i + 1) < P[n + 1 - (i + 1)]
    <3>1. i + 1 \in Nat
          OBVIOUS
    <3> QED
        BY <3>1, <1>4, AboveIs
  <2>5. Limb(l, i) \in 0 .. B - 1
        BY LimbIs
  <2>6. \A x, y \in Nat, z \in 0 .. B - 1 : x < y => z + B * x < B * y
        BY <1>1
  <2>7. Above(l, i) < P[n + 1 - i]
        BY <2>2, <2>3, <2>4, <2>5, <2>6
  <2> QED
      BY <2>1, <2>7
<1> HIDE DEF T
<1>5. \A i \in 1 .. n + 1 : i \in T
  <2>1. 1 \in Int /\ n + 1 \in Int
        OBVIOUS
  <2> QED
      BY <2>1, <1>3, <1>4, InductDown
<1> QED
    BY <1>5 DEF T, P

-----------------------------------------------------------------------------
(* Adding: carries and the number they make.                               *)

\* The limbs of a sequence that satisfies the recurrence of a value.
LEMMA ValueBy ==
    ASSUME NEW l \in Limbs, NEW g, g[Len(l) + 1] = 0,
           \A i \in 1 .. Len(l) : g[i] = l[i] + B * g[i + 1]
    PROVE  Value(l) = g[1]
<1>1. Len(l) \in Nat /\ Len(l) >= Len(l) /\ \A i \in 1 .. Len(l) : Limb(l, i) = l[i]
  <2>1. Len(l) \in Nat /\ \A i \in 1 .. Len(l) : Limb(l, i) = l[i]
        BY LimbIs
  <2> QED
      BY <2>1
<1>2. \A i \in 1 .. Len(l) : g[i] = Limb(l, i) + B * g[i + 1]
      BY <1>1
<1>3. \A i \in 1 .. Len(l) + 1 : g[i] = Above(l, i)
      BY <1>1, <1>2, AboveUnique
<1>4. 1 \in 1 .. Len(l) + 1
      BY <1>1
<1> QED
    BY <1>3, <1>4, AboveIs

\* What is kept of a number and what is carried on.
LEMMA BaseQuotient ==
    ASSUME NEW x \in Int
    PROVE  x % B \in 0 .. B - 1 /\ x \div B \in Int /\ x = (x % B) + B * (x \div B)
<1>1. B \in Nat \ {0}
      BY BaseIs
<1>2. x \div B \in Int /\ x % B \in 0 .. B - 1 /\ x = B * (x \div B) + (x % B)
      BY <1>1, Quotient
<1> QED
    BY <1>1, <1>2

\* Two limbs and a carry make a limb and the next carry: so do the numbers above.
HornerSum(x, y, z, r, p, q, c) ==
    x + y + z = r + B * c => (x + B * p) + (y + B * q) + z = r + B * (p + q + c)

\* The identity of HornerSum, for all integers.
LEMMA HornerSums == \A x, y, z, r, p, q, c \in Int : HornerSum(x, y, z, r, p, q, c)
<1>1. \A b, x, y, z, r, p, q, c \in Int :
          x + y + z = r + b * c => (x + b * p) + (y + b * q) + z = r + b * (p + q + c)
      OBVIOUS
<1> QED
    BY <1>1, BaseNat DEF HornerSum

\* The carry of a sum of two limbs is a bit.
LEMMA CarryBit ==
    ASSUME NEW x \in 0 .. B - 1, NEW y \in 0 .. B - 1, NEW z \in 0 .. 1
    PROVE  x + y + z \in Nat /\ (x + y + z) \div B \in 0 .. 1
<1>1. B \in Nat \ {0}
      BY BaseIs
<1>2. x + y + z \in Nat /\ x + y + z < B * 2
      BY <1>1
<1>3. (x + y + z) \div B < 2 /\ (x + y + z) \div B \in Nat
  <2> DEFINE s == x + y + z
  <2>1. s \in Nat /\ s < B * 2
        BY <1>2
  <2> HIDE DEF s
  <2>2. s \div B < 2 /\ s \div B \in Nat
        BY <1>1, <2>1, QuotientBound, QuotientNat
  <2> QED
      BY <2>2 DEF s
<1> QED
    BY <1>2, <1>3

\* The carries of bn_add.
Carries(a, b) ==
    CHOOSE c : c = [i \in 0 .. Larger(Len(a), Len(b)) + 1 |->
        IF i = 0 THEN 0 ELSE (Limb(a, i) + Limb(b, i) + c[i - 1]) \div B]

\* They are bits and satisfy their recurrence.
LEMMA CarriesIs ==
    ASSUME NEW a \in Limbs, NEW b \in Limbs, NEW n \in Nat, n = Larger(Len(a), Len(b)) + 1
    PROVE  /\ Carries(a, b)[0] = 0
           /\ \A i \in 1 .. n : Carries(a, b)[i] = (Limb(a, i) + Limb(b, i) + Carries(a, b)[i - 1]) \div B
           /\ \A i \in 0 .. n : Carries(a, b)[i] \in 0 .. 1
<1> DEFINE Is(c) == c = [i \in 0 .. n |-> IF i = 0 THEN 0 ELSE (Limb(a, i) + Limb(b, i) + c[i - 1]) \div B]
           step == [p \in (1 .. n) \X (0 .. 1) |-> (Limb(a, p[1]) + Limb(b, p[1]) + p[2]) \div B]
<1>1. B \in Nat /\ B >= 4 /\ \A i : Limb(a, i) \in 0 .. B - 1 /\ Limb(b, i) \in 0 .. B - 1
      BY BaseIs, LimbIs
<1>2. \A i \in 1 .. n, x \in 0 .. 1 : (Limb(a, i) + Limb(b, i) + x) \div B \in 0 .. 1
      BY <1>1, CarryBit
<1>3. \A i \in 1 .. n, x \in 0 .. 1 : step[<<i, x>>] = (Limb(a, i) + Limb(b, i) + x) \div B
      OBVIOUS
<1>4. step \in [(1 .. n) \X (0 .. 1) -> 0 .. 1]
      BY <1>2
<1> HIDE DEF step
<1>5. PICK f \in [0 .. n -> 0 .. 1] : Upward(f, 0, n, 0, step)
  <2>1. 0 \in Int /\ n \in Int /\ 0 \in 0 .. 1 /\ \A i \in 0 .. n : 0 < i => i \in 1 .. n
        OBVIOUS
  <2> QED
      BY <2>1, <1>4, ChainUp, Zenon
<1>6. Is(f)
  <2>1. \A i \in 0 .. n : i # 0 => i \in 1 .. n /\ f[i - 1] \in 0 .. 1
        OBVIOUS
  <2>2. f = [i \in 0 .. n |-> IF i = 0 THEN 0 ELSE step[<<i, f[i - 1]>>]]
        BY <1>5 DEF Upward
  <2> QED
      BY <2>1, <2>2, <1>3
<1>7. Carries(a, b) = CHOOSE c : Is(c)
      BY DEF Carries
<1>8. Is(Carries(a, b))
  <2> HIDE DEF Is
  <2> QED
      BY <1>6, <1>7
<1> DEFINE F == Carries(a, b)
<1>9. F = [i \in 0 .. n |-> IF i = 0 THEN 0 ELSE (Limb(a, i) + Limb(b, i) + F[i - 1]) \div B]
      BY <1>8
<1> HIDE DEF F
<1>10. F[0] = 0 /\ \A i \in 1 .. n : F[i] = (Limb(a, i) + Limb(b, i) + F[i - 1]) \div B
      BY <1>9
<1>11. \A i \in 0 .. n : F[i] \in 0 .. 1
  <2> DEFINE T == {i \in 0 .. n : F[i] \in 0 .. 1}
  <2>1. 0 \in T /\ \A i \in 0 .. n : i < n /\ i \in T => i + 1 \in T
    <3>1. ASSUME NEW i \in 0 .. n, i < n, F[i] \in 0 .. 1
          PROVE  F[i + 1] \in 0 .. 1 /\ i + 1 \in 0 .. n
      <4>1. i + 1 \in 1 .. n /\ (i + 1) - 1 = i
            BY <3>1
      <4> QED
          BY <4>1, <1>2, <1>10, <3>1
    <3> QED
        BY <3>1, <1>10
  <2> HIDE DEF T
  <2>2. \A i \in 0 .. n : i \in T
    <3>1. 0 \in Int /\ n \in Int
          OBVIOUS
    <3> QED
        BY <2>1, <3>1, InductUp
  <2> QED
      BY <2>2 DEF T
<1> QED
    BY <1>10, <1>11 DEF F

\* bn_add: the limbs of the sum, one more than the longer operand has.
THEOREM AddExact ==
    ASSUME NEW a \in Limbs, NEW b \in Limbs, a # <<>>, b # <<>>
    PROVE  /\ Add(a, b) \in Limbs /\ Len(Add(a, b)) = Larger(Len(a), Len(b)) + 1
           /\ Value(Add(a, b)) = Value(a) + Value(b)
<1> DEFINE n == Larger(Len(a), Len(b)) + 1
           C == Carries(a, b)
           r == Add(a, b)
           g == [i \in 1 .. n + 1 |-> Above(a, i) + Above(b, i) + C[i - 1]]
<1>1. /\ Len(a) \in Nat /\ Len(b) \in Nat
      /\ \A i : Limb(a, i) \in 0 .. B - 1 /\ Limb(b, i) \in 0 .. B - 1
      /\ B \in Nat /\ B >= 4
      BY BaseIs, LimbIs
<1>2. n \in Nat /\ n > Len(a) /\ n > Len(b) /\ n = Larger(Len(a), Len(b)) + 1
      BY <1>1 DEF Larger
<1>3. r = [i \in 1 .. n |-> (Limb(a, i) + Limb(b, i) + C[i - 1]) % B]
      BY DEF Add, Carries
<1> HIDE DEF n, r
<1>4. /\ C[0] = 0
      /\ \A i \in 1 .. n : C[i] = (Limb(a, i) + Limb(b, i) + C[i - 1]) \div B
      /\ \A i \in 0 .. n : C[i] \in 0 .. 1
      BY <1>2, CarriesIs
<1> HIDE DEF C
<1>5. ASSUME NEW i \in 1 .. n
      PROVE  /\ r[i] \in 0 .. B - 1
             /\ Limb(a, i) + Limb(b, i) + C[i - 1] = r[i] + B * C[i]
  <2>1. i - 1 \in 0 .. n /\ i \in 0 .. n
        BY <1>2
  <2>2. C[i - 1] \in 0 .. 1 /\ C[i] = (Limb(a, i) + Limb(b, i) + C[i - 1]) \div B
        BY <2>1, <1>4
  <2>3. r[i] = (Limb(a, i) + Limb(b, i) + C[i - 1]) % B
        BY <1>3
  <2>4. Limb(a, i) + Limb(b, i) + C[i - 1] \in Int
        BY <1>1, <2>2
  <2> QED
      BY <2>2, <2>3, <2>4, BaseQuotient
<1>6. r = [i \in 1 .. n |-> r[i]]
      BY <1>3
<1>7. r \in Limbs /\ Len(r) = n
      BY <1>2, <1>5, <1>6, LimbsAre
<1>8. ASSUME NEW i \in 1 .. n
      PROVE  g[i] = r[i] + B * g[i + 1]
  <2>1. i \in Nat \ {0} /\ i + 1 \in Nat /\ i \in 1 .. n + 1 /\ i + 1 \in 1 .. n + 1 /\ (i + 1) - 1 = i /\ i \in 0 .. n /\ i - 1 \in 0 .. n
        BY <1>2
  <2>2. /\ Above(a, i) = Limb(a, i) + B * Above(a, i + 1)
        /\ Above(b, i) = Limb(b, i) + B * Above(b, i + 1)
        BY <2>1, AboveIs
  <2>9. Above(a, i + 1) \in Nat /\ Above(b, i + 1) \in Nat
        BY <2>1, AboveIs
  <2>3. g[i] = Above(a, i) + Above(b, i) + C[i - 1] /\ g[i + 1] = Above(a, i + 1) + Above(b, i + 1) + C[i]
        BY <2>1
  <2>4. C[i - 1] \in 0 .. 1 /\ C[i] \in 0 .. 1
        BY <1>4, <2>1
  <2>5. Limb(a, i) \in Nat /\ Limb(b, i) \in Nat /\ r[i] \in Nat
        BY <1>1, <1>5
  <2>6. /\ Above(a, i + 1) \in Int /\ Above(b, i + 1) \in Int /\ C[i - 1] \in Int /\ C[i] \in Int
        /\ Limb(a, i) \in Int /\ Limb(b, i) \in Int /\ r[i] \in Int /\ B \in Int
        BY <1>1, <2>9, <2>4, <2>5
  <2>7. Limb(a, i) + Limb(b, i) + C[i - 1] = r[i] + B * C[i]
        BY <1>5
  <2>8. HornerSum(Limb(a, i), Limb(b, i), C[i - 1], r[i], Above(a, i + 1), Above(b, i + 1), C[i])
        BY <2>6, HornerSums
  <2> HIDE DEF g
  <2> QED
      BY <2>2, <2>3, <2>7, <2>8 DEF HornerSum
<1>9. g[n + 1] = 0
  <2>1. n \in Nat /\ n + 1 \in Nat /\ n + 1 \in 1 .. n + 1 /\ (n + 1) - 1 = n /\ n \in 1 .. n
        BY <1>1, <1>2
  <2>2. Above(a, n + 1) = 0 /\ Above(b, n + 1) = 0
    <3>1. n + 1 > Len(a) /\ n + 1 > Len(b)
          BY <1>1, <1>2
    <3> QED
        BY <2>1, <3>1, AboveIs
  <2>3. Limb(a, n) = 0 /\ Limb(b, n) = 0
        BY <1>1, <1>2, LimbIs
  <2>4. C[n] = (0 + 0 + C[n - 1]) \div B /\ C[n - 1] \in 0 .. 1
        BY <1>4, <2>1, <2>3
  <2>5. C[n] = 0
        BY <1>1, <2>4
  <2> QED
      BY <2>1, <2>2, <2>5
<1>10. g[1] = Value(a) + Value(b)
  <2>1. 1 \in 1 .. n + 1 /\ 1 \in Nat
        BY <1>2
  <2>2. Above(a, 1) \in Nat /\ Above(b, 1) \in Nat /\ Value(a) = Above(a, 1) /\ Value(b) = Above(b, 1)
        BY <2>1, AboveIs
  <2>3. g[1] = Above(a, 1) + Above(b, 1) + C[0]
        BY <2>1
  <2> HIDE DEF g
  <2> QED
      BY <1>4, <2>2, <2>3
<1> HIDE DEF g
<1>11. Value(r) = g[1]
      BY <1>7, <1>8, <1>9, ValueBy
<1> QED
    BY <1>7, <1>10, <1>11, <1>2 DEF r

-----------------------------------------------------------------------------
(* Numerals and their order.                                               *)

\* Without a zero limb on top.
Numerals == {l \in Limbs : Len(l) >= 1 /\ (Len(l) = 1 \/ l[Len(l)] # 0)}

\* The highest place where two sequences differ.
LastDiffers(f, g, n, i) == f[i] # g[i] /\ \A j \in i + 1 .. n : f[j] = g[j]

\* Two sequences that differ have a highest place where they do.
LEMMA LastDifference ==
    ASSUME NEW f, NEW g, NEW n \in Nat, \E i \in 1 .. n : f[i] # g[i]
    PROVE  \E i \in 1 .. n : LastDiffers(f, g, n, i)
<1> DEFINE U == {k \in Nat : k < n /\ f[n - k] # g[n - k]}
<1>1. U # {}
  <2>1. PICK i \in 1 .. n : f[i] # g[i]
        OBVIOUS
  <2>2. n - i \in Nat /\ n - i < n /\ n - (n - i) = i
        OBVIOUS
  <2>3. n - i \in U
        BY <2>1, <2>2
  <2> QED
      BY <2>3
<1>2. PICK k \in U : \A x \in U : k <= x
      BY <1>1, Least
<1>3. k \in Nat /\ k < n /\ f[n - k] # g[n - k] /\ n - k \in 1 .. n
      OBVIOUS
<1>4. ASSUME NEW j \in (n - k) + 1 .. n, f[j] # g[j]
      PROVE  FALSE
  <2>1. n - j \in Nat /\ n - j < n /\ n - (n - j) = j /\ ~(k <= n - j)
        BY <1>3
  <2>2. n - j \in U
        BY <1>4, <2>1
  <2> QED
      BY <1>2, <2>1, <2>2
<1>5. LastDiffers(f, g, n, n - k)
      BY <1>3, <1>4 DEF LastDiffers
<1> QED
    BY <1>3, <1>5

\* Sequences with the same limbs above a place have the same value there.
LEMMA AboveSame ==
    ASSUME NEW a \in Limbs, NEW b \in Limbs, NEW m \in Nat,
           \A j \in Nat : j > m => Limb(a, j) = Limb(b, j)
    PROVE  Above(a, m + 1) = Above(b, m + 1)
<1> DEFINE n == Larger(Larger(Len(a), Len(b)), m)
           T == {j \in m + 1 .. n + 1 : Above(a, j) = Above(b, j)}
<1>1. n \in Nat /\ n >= Len(a) /\ n >= Len(b) /\ n >= m
  <2>1. Len(a) \in Nat /\ Len(b) \in Nat
        BY LimbIs
  <2> QED
      BY <2>1 DEF Larger
<1> HIDE DEF n
<1>2. n + 1 \in T
  <2>1. n + 1 \in Nat /\ n + 1 > Len(a) /\ n + 1 > Len(b) /\ n + 1 \in m + 1 .. n + 1
        BY <1>1, LimbIs
  <2>2. Above(a, n + 1) = 0 /\ Above(b, n + 1) = 0
        BY <2>1, AboveIs
  <2> QED
      BY <2>1, <2>2
<1>3. ASSUME NEW j \in m + 1 .. n + 1, j < n + 1, j + 1 \in T
      PROVE  j \in T
  <2>1. j \in Nat \ {0} /\ j > m /\ j \in Nat
        OBVIOUS
  <2>2. Above(a, j) = Limb(a, j) + B * Above(a, j + 1) /\ Above(b, j) = Limb(b, j) + B * Above(b, j + 1)
        BY <2>1, AboveIs
  <2>3. Above(a, j + 1) = Above(b, j + 1) /\ Limb(a, j) = Limb(b, j)
        BY <1>3, <2>1
  <2> QED
      BY <2>2, <2>3
<1> HIDE DEF T
<1>4. \A j \in m + 1 .. n + 1 : j \in T
  <2>1. m + 1 \in Int /\ n + 1 \in Int
        BY <1>1
  <2> QED
      BY <2>1, <1>2, <1>3, InductDown
<1>5. m + 1 \in m + 1 .. n + 1
      BY <1>1
<1> QED
    BY <1>4, <1>5 DEF T

\* A smaller higher part decides.
HornerLess(x, y, p, q) ==
    x \in 0 .. B - 1 /\ y \in 0 .. B - 1 /\ p < q => x + B * p < y + B * q
\* The identity of HornerLess, for all naturals.
LEMMA HornerLesses == \A x, y, p, q \in Nat : HornerLess(x, y, p, q)
<1>1. \A b \in Nat \ {0} : \A x, y, p, q \in Nat :
          x \in 0 .. b - 1 /\ y \in 0 .. b - 1 /\ p < q => x + b * p < y + b * q
  <2> SUFFICES ASSUME NEW b \in Nat \ {0}, NEW x \in 0 .. b - 1, NEW y \in 0 .. b - 1,
                      NEW p \in Nat, NEW q \in Nat, p < q
               PROVE  x + b * p < y + b * q
      OBVIOUS
  <2>1. b * (p + 1) <= b * q
        OBVIOUS
  <2>2. b * (p + 1) = b * p + b
        OBVIOUS
  <2> QED
      BY <2>1, <2>2
<1> QED
    BY <1>1, BaseNat DEF HornerLess

\* The highest limb that differs decides.
LEMMA AboveLess ==
    ASSUME NEW a \in Limbs, NEW b \in Limbs, NEW m \in Nat \ {0},
           Limb(a, m) < Limb(b, m), \A j \in Nat : j > m => Limb(a, j) = Limb(b, j)
    PROVE  Value(a) < Value(b)
<1> DEFINE T == {j \in 1 .. m : Above(a, j) < Above(b, j)}
<1>1. m \in T
  <2>1. Above(a, m + 1) = Above(b, m + 1)
        BY AboveSame
  <2>2. Above(a, m) = Limb(a, m) + B * Above(a, m + 1) /\ Above(b, m) = Limb(b, m) + B * Above(a, m + 1)
        BY <2>1, AboveIs
  <2>3. Above(a, m + 1) \in Nat /\ Limb(a, m) \in 0 .. B - 1 /\ Limb(b, m) \in 0 .. B - 1
        BY AboveIs, LimbIs
  <2>4. B * Above(a, m + 1) \in Nat /\ Limb(a, m) \in Nat /\ Limb(b, m) \in Nat
        BY <2>3, BaseNat
  <2>5. \A x, y, z \in Nat : x < y => x + z < y + z
        OBVIOUS
  <2>6. Above(a, m) < Above(b, m)
        BY <2>2, <2>4, <2>5
  <2> QED
      BY <2>6
<1>2. ASSUME NEW j \in 1 .. m, j < m, j + 1 \in T
      PROVE  j \in T
  <2>1. j \in Nat \ {0} /\ j + 1 \in Nat /\ j \in 1 .. m
        OBVIOUS
  <2>2. Above(a, j) = Limb(a, j) + B * Above(a, j + 1) /\ Above(b, j) = Limb(b, j) + B * Above(b, j + 1)
        BY <2>1, AboveIs
  <2>3. Above(a, j + 1) \in Nat /\ Above(b, j + 1) \in Nat /\ Above(a, j + 1) < Above(b, j + 1)
        BY <1>2, <2>1, AboveIs
  <2>4. Limb(a, j) \in 0 .. B - 1 /\ Limb(b, j) \in 0 .. B - 1
        BY LimbIs
  <2>5. Limb(a, j) \in Nat /\ Limb(b, j) \in Nat
        BY <2>4, BaseNat
  <2>6. HornerLess(Limb(a, j), Limb(b, j), Above(a, j + 1), Above(b, j + 1))
        BY <2>3, <2>5, HornerLesses
  <2>7. Above(a, j) < Above(b, j)
        BY <2>2, <2>3, <2>4, <2>6 DEF HornerLess
  <2> QED
      BY <2>1, <2>7
<1> HIDE DEF T
<1>3. \A j \in 1 .. m : j \in T
  <2>1. 1 \in Int /\ m \in Int
        OBVIOUS
  <2> QED
      BY <2>1, <1>1, <1>2, InductDown
<1>4. 1 \in T
      BY <1>3
<1> QED
    BY <1>4, AboveIs DEF T

\* A numeral of more limbs is a larger number.
LEMMA LongerIsLarger ==
    ASSUME NEW a \in Numerals, NEW b \in Numerals, Len(a) < Len(b)
    PROVE  Value(a) < Value(b)
<1>1. a \in Limbs /\ b \in Limbs /\ Len(b) \in Nat \ {0} /\ Len(a) \in Nat /\ b[Len(b)] # 0
      BY LimbIs DEF Numerals
<1>2. Limb(b, Len(b)) = b[Len(b)] /\ b[Len(b)] \in 0 .. B - 1 /\ Limb(a, Len(b)) = 0
      BY <1>1, LimbIs
<1>3. Limb(a, Len(b)) < Limb(b, Len(b))
      BY <1>1, <1>2
<1>4. \A j \in Nat : j > Len(b) => Limb(a, j) = Limb(b, j)
      BY <1>1, LimbIs
<1> QED
    BY <1>1, <1>3, <1>4, AboveLess

\* What bn_cmp finds less is less.
LEMMA LessIsLess ==
    ASSUME NEW a \in Numerals, NEW b \in Numerals, Less(a, b)
    PROVE  Value(a) < Value(b)
<1>1. CASE Len(a) < Len(b)
      BY <1>1, LongerIsLarger
<1>2. CASE Len(a) = Len(b) /\ \E i \in DOMAIN a : a[i] < b[i] /\ \A j \in i + 1 .. Len(a) : a[j] = b[j]
  <2>1. a \in Limbs /\ b \in Limbs /\ Len(a) \in Nat /\ DOMAIN a = 1 .. Len(a)
        BY LimbIs DEF Numerals, Limbs
  <2>2. PICK i \in 1 .. Len(a) : a[i] < b[i] /\ \A j \in i + 1 .. Len(a) : a[j] = b[j]
        BY <1>2, <2>1
  <2>3. i \in Nat \ {0} /\ Limb(a, i) < Limb(b, i)
        BY <1>2, <2>1, <2>2, LimbIs
  <2>4. ASSUME NEW j \in Nat, j > i
        PROVE  Limb(a, j) = Limb(b, j)
    <3>1. CASE j > Len(a)
          BY <3>1, <1>2, <2>1, LimbIs
    <3>2. CASE j <= Len(a)
      <4>1. j \in i + 1 .. Len(a) /\ j \in 1 .. Len(a) /\ j \in 1 .. Len(b)
            BY <1>2, <2>1, <2>4, <3>2
      <4>2. Limb(a, j) = a[j] /\ Limb(b, j) = b[j]
            BY <2>1, <4>1, LimbIs
      <4> QED
          BY <2>2, <4>1, <4>2
    <3> QED
        BY <2>1, <3>1, <3>2
  <2> QED
      BY <2>1, <2>3, <2>4, AboveLess
<1> QED
    BY <1>1, <1>2 DEF Less

\* Sequences with the same limbs are the same.
LEMMA LimbsSame ==
    ASSUME NEW a \in Limbs, NEW b \in Limbs, Len(a) = Len(b), \A i \in 1 .. Len(a) : a[i] = b[i]
    PROVE  a = b
BY DEF Limbs

\* Of two different numerals bn_cmp finds one the lesser.
LEMMA LessTotal ==
    ASSUME NEW a \in Numerals, NEW b \in Numerals
    PROVE  a = b \/ Less(a, b) \/ Less(b, a)
<1>1. /\ a \in Limbs /\ b \in Limbs /\ Len(a) \in Nat /\ Len(b) \in Nat
      /\ DOMAIN a = 1 .. Len(a) /\ DOMAIN b = 1 .. Len(b)
      BY LimbIs DEF Numerals, Limbs
<1>2. CASE Len(a) # Len(b)
  <2>4. Len(a) \in Nat /\ Len(b) \in Nat
        BY <1>1
  <2>5. \A x, y \in Nat : x # y => x < y \/ y < x
        OBVIOUS
  <2>1. Len(a) < Len(b) \/ Len(b) < Len(a)
        BY <1>2, <2>4, <2>5
  <2>2. CASE Len(a) < Len(b)
        BY <2>2 DEF Less
  <2>3. CASE Len(b) < Len(a)
        BY <2>3 DEF Less
  <2> QED
      BY <2>1, <2>2, <2>3
<1>3. CASE Len(a) = Len(b) /\ \A i \in 1 .. Len(a) : a[i] = b[i]
  <2>1. a \in Limbs /\ b \in Limbs
        BY <1>1
  <2>2. Len(a) = Len(b) /\ \A i \in 1 .. Len(a) : a[i] = b[i]
        BY <1>3
  <2>3. a = b
        BY <2>1, <2>2, LimbsSame
  <2> QED
      BY <2>3
<1>4. CASE Len(a) = Len(b) /\ \E i \in 1 .. Len(a) : a[i] # b[i]
  <2>7. PICK i \in 1 .. Len(a) : LastDiffers(a, b, Len(a), i)
    <3>1. Len(a) \in Nat /\ \E i \in 1 .. Len(a) : a[i] # b[i]
          BY <1>1, <1>4
    <3> QED
        BY <3>1, LastDifference, Zenon
  <2>1. a[i] # b[i] /\ \A j \in i + 1 .. Len(a) : a[j] = b[j]
        BY <2>7 DEF LastDiffers
  <2>2. a[i] \in Int /\ b[i] \in Int
    <3>1. a[i] \in 0 .. B - 1 /\ b[i] \in 0 .. B - 1
          BY <1>1, <1>4, LimbIs
    <3> QED
        BY <3>1
  <2>3. a[i] < b[i] \/ b[i] < a[i]
        BY <2>1, <2>2
  <2>4. \A j \in i + 1 .. Len(b) : b[j] = a[j]
        BY <1>4, <2>1
  <2>5. CASE a[i] < b[i]
        BY <1>1, <1>4, <2>1, <2>5 DEF Less
  <2>6. CASE b[i] < a[i]
    <3>1. i \in DOMAIN b
          BY <1>1, <1>4
    <3> QED
        BY <1>4, <2>4, <2>6, <3>1 DEF Less
  <2> QED
      BY <2>3, <2>5, <2>6
<1> QED
    BY <1>2, <1>3, <1>4

\* The value of limbs is a natural.
LEMMA ValueNat ==
    ASSUME NEW l \in Limbs
    PROVE  Value(l) \in Nat
<1>1. 1 \in Nat
      OBVIOUS
<1> QED
    BY <1>1, AboveIs

\* bn_cmp orders numerals as their numbers, and different numerals are
\* different numbers.
THEOREM LessExact ==
    ASSUME NEW a \in Numerals, NEW b \in Numerals
    PROVE  /\ Less(a, b) <=> Value(a) < Value(b)
           /\ a = b <=> Value(a) = Value(b)
<1>1. a \in Limbs /\ b \in Limbs
      BY DEF Numerals
<1>2. Value(a) \in Nat /\ Value(b) \in Nat
      BY <1>1, ValueNat
<1>3. Less(a, b) => Value(a) < Value(b)
      BY LessIsLess
<1>4. Less(b, a) => Value(b) < Value(a)
      BY LessIsLess
<1>5. a = b \/ Less(a, b) \/ Less(b, a)
      BY LessTotal
<1> QED
    BY <1>2, <1>3, <1>4, <1>5

-----------------------------------------------------------------------------
(* Chains of limbs with a sign, and normalising.                           *)

\* A limb does not make up for a negative rest.
HornerBack(x, p) == x \in 0 .. B - 1 /\ p < 0 => x + B * p < 0
\* HornerBack, for all integers.
LEMMA HornerBacks == \A x, p \in Int : HornerBack(x, p)
<1>1. \A b \in Nat \ {0} : \A x, p \in Int : x \in 0 .. b - 1 /\ p < 0 => x + b * p < 0
  <2> SUFFICES ASSUME NEW b \in Nat \ {0}, NEW x \in 0 .. b - 1, NEW p \in Int, p < 0
               PROVE  x + b * p < 0
      OBVIOUS
  <2>1. b * p <= b * (-1)
        OBVIOUS
  <2> QED
      BY <2>1
<1> QED
    BY <1>1, BaseNat DEF HornerBack

\* A rest of at least q makes a number of at least B * q.
HornerOver(x, p, q) == x \in 0 .. B - 1 /\ p >= q => x + B * p >= B * q
\* HornerOver, for all integers.
LEMMA HornerOvers == \A x, p, q \in Int : HornerOver(x, p, q)
<1>1. \A b \in Nat \ {0} : \A x, p, q \in Int : x \in 0 .. b - 1 /\ p >= q => x + b * p >= b * q
  <2> SUFFICES ASSUME NEW b \in Nat \ {0}, NEW x \in 0 .. b - 1, NEW p \in Int, NEW q \in Int, p >= q
               PROVE  x + b * p >= b * q
      OBVIOUS
  <2>1. b * p >= b * q
        OBVIOUS
  <2> QED
      BY <2>1
<1> QED
    BY <1>1, BaseNat DEF HornerOver

\* A chain of limbs ends at zero when what it stands for fits them.
LEMMA TopZero ==
    ASSUME NEW n \in Nat, NEW r, NEW g,
           \A i \in 1 .. n : r[i] \in 0 .. B - 1 /\ g[i] = r[i] + B * g[i + 1],
           \A i \in 1 .. n + 1 : g[i] \in Int,
           g[1] >= 0, g[1] < Power(B)[n]
    PROVE  g[n + 1] = 0
<1> DEFINE P == Power(B)
           T == {i \in 1 .. n + 1 : g[i] < 0}
           U == {i \in 1 .. n + 1 : g[i] >= P[n + 1 - i]}
<1>1. \A k \in Nat : P[k] \in Nat \ {0} /\ P[k + 1] = B * P[k]
      BY BaseNat, PowerPos
<1>2. P[0] = 1
      BY BaseNat, PowerIs
<1> HIDE DEF P
<1>3. 1 \in Int /\ n + 1 \in Int /\ n + 1 \in 1 .. n + 1 /\ 1 \in 1 .. n + 1
      OBVIOUS
<1>4. ~(g[n + 1] < 0)
  <2> SUFFICES ASSUME g[n + 1] < 0
               PROVE  FALSE
      OBVIOUS
  <2>1. n + 1 \in T
        BY <1>3
  <2>2. ASSUME NEW i \in 1 .. n + 1, i < n + 1, i + 1 \in T
        PROVE  i \in T
    <3>1. i \in 1 .. n /\ i + 1 \in 1 .. n + 1
          BY <2>2
    <3>2. r[i] \in 0 .. B - 1 /\ g[i] = r[i] + B * g[i + 1]
          BY <3>1
    <3>3. g[i + 1] \in Int /\ g[i + 1] < 0
          BY <2>2
    <3>4. r[i] \in Int
          BY <3>2, BaseNat
    <3>5. HornerBack(r[i], g[i + 1])
          BY <3>3, <3>4, HornerBacks
    <3> QED
        BY <3>2, <3>3, <3>5 DEF HornerBack
  <2> HIDE DEF T
  <2>3. \A i \in 1 .. n + 1 : i \in T
        BY <1>3, <2>1, <2>2, InductDown
  <2> QED
      BY <1>3, <2>3 DEF T
<1>5. ~(g[n + 1] >= 1)
  <2> SUFFICES ASSUME g[n + 1] >= 1
               PROVE  FALSE
      OBVIOUS
  <2>1. n + 1 \in U
    <3>1. n + 1 - (n + 1) = 0
          OBVIOUS
    <3> QED
        BY <1>2, <1>3, <3>1
  <2>2. ASSUME NEW i \in 1 .. n + 1, i < n + 1, i + 1 \in U
        PROVE  i \in U
    <3>1. i \in 1 .. n /\ i + 1 \in 1 .. n + 1 /\ n + 1 - (i + 1) \in Nat /\ (n + 1 - (i + 1)) + 1 = n + 1 - i
          BY <2>2
    <3>2. r[i] \in 0 .. B - 1 /\ g[i] = r[i] + B * g[i + 1]
          BY <3>1
    <3>3. g[i + 1] \in Int /\ g[i + 1] >= P[n + 1 - (i + 1)]
          BY <2>2
    <3>4. r[i] \in Int
          BY <3>2, BaseNat
    <3>5. P[n + 1 - (i + 1)] \in Int /\ P[n + 1 - i] = B * P[n + 1 - (i + 1)]
          BY <1>1, <3>1
    <3>6. HornerOver(r[i], g[i + 1], P[n + 1 - (i + 1)])
          BY <3>3, <3>4, <3>5, HornerOvers
    <3>7. g[i] >= P[n + 1 - i]
          BY <3>2, <3>3, <3>5, <3>6 DEF HornerOver
    <3> QED
        BY <3>7
  <2> HIDE DEF U
  <2>3. \A i \in 1 .. n + 1 : i \in U
        BY <1>3, <2>1, <2>2, InductDown
  <2>4. g[1] >= P[n + 1 - 1]
        BY <1>3, <2>3 DEF U
  <2>5. g[1] >= P[n] /\ P[n] \in Int /\ g[1] \in Int /\ g[1] < P[n]
    <3>1. n + 1 - 1 = n
          OBVIOUS
    <3> QED
        BY <1>1, <1>3, <2>4, <3>1 DEF P
  <2> QED
      BY <2>5
<1>6. g[n + 1] \in Int
      BY <1>3
<1> QED
    BY <1>4, <1>5, <1>6

\* The limbs of a chain that ends at zero have its value.
LEMMA ValueTop ==
    ASSUME NEW l \in Limbs, NEW n \in Nat, n = Len(l), NEW g,
           \A i \in 1 .. n : g[i] = l[i] + B * g[i + 1],
           \A i \in 1 .. n + 1 : g[i] \in Int,
           g[1] >= 0, g[1] < Power(B)[n]
    PROVE  Value(l) = g[1]
<1>1. \A i \in 1 .. n : l[i] \in 0 .. B - 1 /\ g[i] = l[i] + B * g[i + 1]
      BY LimbIs
<1>2. g[n + 1] = 0
      BY <1>1, TopZero
<1>3. g[Len(l) + 1] = 0 /\ \A i \in 1 .. Len(l) : g[i] = l[i] + B * g[i + 1]
      BY <1>2
<1> QED
    BY <1>3, ValueBy

\* n limbs are less than the n-th power of the base.
LEMMA ValueBound ==
    ASSUME NEW l \in Limbs
    PROVE  Value(l) \in Nat /\ Value(l) < Power(B)[Len(l)]
<1>1. Len(l) \in Nat /\ 1 \in 1 .. Len(l) + 1 /\ Len(l) >= Len(l) /\ Len(l) + 1 - 1 = Len(l)
  <2>1. Len(l) \in Nat
        BY LimbIs
  <2> QED
      BY <2>1
<1>2. Above(l, 1) < Power(B)[Len(l) + 1 - 1]
      BY <1>1, AboveBound
<1> QED
    BY <1>1, <1>2, AboveIs, ValueNat

-----------------------------------------------------------------------------
(* bn_normalize keeps the number.                                          *)

\* The first n elements of a sequence.
LEMMA Prefix ==
    ASSUME NEW S, NEW l \in Seq(S), NEW n \in 1 .. Len(l)
    PROVE  SubSeq(l, 1, n) \in Seq(S) /\ Len(SubSeq(l, 1, n)) = n /\ \A i \in 1 .. n : SubSeq(l, 1, n)[i] = l[i]
OBVIOUS

\* bn_normalize: the canonical form of limbs is a numeral with their value.
THEOREM CanonicalExact ==
    ASSUME NEW l \in Limbs, l # <<>>, NEW s \in Canonical(l)
    PROVE  s \in Numerals /\ Value(s) = Value(l) /\ Len(s) <= Len(l)
<1>1. /\ Len(l) \in Nat \ {0} /\ l \in Seq(0 .. Ones)
      /\ \A i \in 1 .. Len(l) : Limb(l, i) = l[i] /\ l[i] \in 0 .. B - 1
      /\ \A i \in Int : i > Len(l) => Limb(l, i) = 0
  <2>1. Len(l) # 0 /\ l \in Seq(0 .. Ones)
        BY DEF Limbs
  <2> QED
      BY <2>1, LimbIs
<1>2. PICK n \in 1 .. Len(l) :
          /\ s = SubSeq(l, 1, n)
          /\ n = 1 \/ l[n] # 0
          /\ \A k \in (n + 1) .. Len(l) : l[k] = 0
      BY DEF Canonical
<1>3. s \in Seq(0 .. Ones) /\ Len(s) = n /\ \A i \in 1 .. n : s[i] = l[i]
  <2>1. l \in Seq(0 .. Ones) /\ s = SubSeq(l, 1, n)
        BY <1>1, <1>2
  <2> QED
      BY <2>1, Prefix
<1>4. s \in Limbs /\ n \in Nat /\ n >= 1 /\ n <= Len(l)
      BY <1>1, <1>3 DEF Limbs
<1>5. s \in Numerals
  <2>1. n = 1 \/ s[n] # 0
        BY <1>2, <1>3
  <2> QED
      BY <1>3, <1>4, <2>1 DEF Numerals
<1>6. ASSUME NEW j \in Nat, j > 0
      PROVE  Limb(s, j) = Limb(l, j)
  <2>1. CASE j <= n
    <3>1. j \in 1 .. n /\ j \in 1 .. Len(l) /\ j \in 1 .. Len(s)
          BY <1>1, <1>3, <1>6, <2>1
    <3>2. Limb(s, j) = s[j] /\ Limb(l, j) = l[j]
          BY <1>4, <3>1, LimbIs
    <3> QED
        BY <1>3, <3>1, <3>2
  <2>2. CASE j > n
    <3>1. Limb(s, j) = 0
          BY <1>3, <1>4, <2>2, LimbIs
    <3>2. Limb(l, j) = 0
      <4>1. CASE j <= Len(l)
        <5>1. j \in (n + 1) .. Len(l) /\ j \in 1 .. Len(l)
              BY <1>1, <2>2, <4>1
        <5> QED
            BY <1>1, <1>2, <5>1
      <4>2. CASE j > Len(l)
            BY <1>1, <4>2
      <4> QED
          BY <1>1, <4>1, <4>2
    <3> QED
        BY <3>1, <3>2
  <2> QED
      BY <1>4, <2>1, <2>2
<1>7. Above(s, 0 + 1) = Above(l, 0 + 1)
  <2>1. 0 \in Nat
        OBVIOUS
  <2> QED
      BY <1>4, <1>6, <2>1, AboveSame
<1>8. Above(s, 1) = Above(l, 1)
  <2>1. 0 + 1 = 1
        OBVIOUS
  <2> QED
      BY <1>7, <2>1
<1>9. Value(s) = Value(l)
      BY <1>4, <1>8, AboveIs
<1> QED
    BY <1>3, <1>4, <1>5, <1>9

-----------------------------------------------------------------------------
(* Counting up and down.                                                   *)

\* What Run chooses.
LEMMA RunIs ==
    ASSUME NEW l \in Limbs, NEW x
    PROVE  /\ Run(l, x) \in 0 .. Len(l)
           /\ \A i \in 1 .. Run(l, x) : l[i] = x
           /\ Run(l, x) = Len(l) \/ l[Run(l, x) + 1] # x
<1> DEFINE Is(k) == (\A i \in 1 .. k : l[i] = x) /\ (k = Len(l) \/ l[k + 1] # x)
           U == {k \in Nat : k < Len(l) /\ l[k + 1] # x}
<1>1. Len(l) \in Nat
      BY LimbIs
<1>2. CASE U = {}
  <2>1. ASSUME NEW i \in 1 .. Len(l)
        PROVE  l[i] = x
    <3>1. i - 1 \in Nat /\ i - 1 < Len(l) /\ (i - 1) + 1 = i
          BY <1>1
    <3>2. i - 1 \notin U
          BY <1>2
    <3> QED
        BY <3>1, <3>2
  <2>2. Is(Len(l)) /\ Len(l) \in 0 .. Len(l)
        BY <1>1, <2>1
  <2>3. \E k \in 0 .. Len(l) : Is(k)
        BY <2>2
  <2> HIDE DEF Is
  <2> QED
      BY <2>3 DEF Run, Is
<1>3. CASE U # {}
  <2>1. PICK k \in U : \A y \in U : k <= y
        BY <1>3, Least
  <2>2. k \in Nat /\ k < Len(l) /\ l[k + 1] # x
        OBVIOUS
  <2>3. ASSUME NEW i \in 1 .. k
        PROVE  l[i] = x
    <3>1. i - 1 \in Nat /\ i - 1 < Len(l) /\ (i - 1) + 1 = i /\ ~(k <= i - 1)
          BY <1>1, <2>2
    <3>2. i - 1 \notin U
          BY <2>1, <3>1
    <3> QED
        BY <3>1, <3>2
  <2>4. Is(k) /\ k \in 0 .. Len(l)
        BY <1>1, <2>2, <2>3
  <2>5. \E j \in 0 .. Len(l) : Is(j)
        BY <2>4
  <2> HIDE DEF Is
  <2> QED
      BY <2>5 DEF Run, Is
<1> QED
    BY <1>2, <1>3

\* A limb of ones and a carry make a zero and a carry; a zero and a borrow
\* make a limb of ones and a borrow.
Rolls(p) == (B - 1) + B * p + 1 = 0 + B * (p + 1) /\ 0 + B * p - 1 = (B - 1) + B * (p - 1)
\* Rolls, for all integers.
LEMMA RollsOver == \A p \in Int : Rolls(p)
<1>1. \A b, p \in Int : (b - 1) + b * p + 1 = 0 + b * (p + 1) /\ 0 + b * p - 1 = (b - 1) + b * (p - 1)
      OBVIOUS
<1> QED
    BY <1>1, BaseNat DEF Rolls

\* A number added to the lowest limb.
Moves(x, y, p) == (x + B * p) + y = (x + y) + B * p
\* Moves, for all integers.
LEMMA MovesOver == \A x, y, p \in Int : Moves(x, y, p)
<1>1. \A b, x, y, p \in Int : (x + b * p) + y = (x + y) + b * p
      OBVIOUS
<1> QED
    BY <1>1, BaseNat DEF Moves

\* bn_inc: the successor, of a limb more at most.
THEOREM IncExact ==
    ASSUME NEW l \in Limbs, l # <<>>
    PROVE  /\ Inc(l) \in Limbs /\ Len(Inc(l)) \in Len(l) .. Len(l) + 1
           /\ Value(Inc(l)) = Value(l) + 1
<1> DEFINE k == Run(l, Ones)
           n == Larger(Len(l), k + 1)
           c(i) == IF i <= k + 1 THEN 1 ELSE 0
           r == Inc(l)
           g == [i \in 1 .. n + 1 |-> Above(l, i) + c(i)]
<1>1. /\ k \in 0 .. Len(l) /\ \A i \in 1 .. k : l[i] = Ones
      /\ k = Len(l) \/ l[k + 1] # Ones
      BY RunIs
<1>2. Len(l) \in Nat /\ Ones = B - 1 /\ B \in Nat /\ B >= 4
      BY LimbIs, BaseNat
<1>3. r = [i \in 1 .. n |-> IF i <= k THEN 0 ELSE IF i = k + 1 THEN Limb(l, i) + 1 ELSE l[i]]
      BY DEF Inc
<1> HIDE DEF r, k
<1>4. n \in Nat /\ n >= Len(l) /\ n >= k + 1 /\ n \in Len(l) .. Len(l) + 1 /\ k \in Nat
      BY <1>1, <1>2 DEF Larger
<1>5. n = Len(l) \/ n = k + 1
      BY DEF Larger
<1> HIDE DEF n
<1>6. ASSUME NEW i \in 1 .. n
      PROVE  r[i] \in 0 .. B - 1 /\ Limb(l, i) \in 0 .. B - 1
             /\ r[i] = IF i <= k THEN 0 ELSE IF i = k + 1 THEN Limb(l, i) + 1 ELSE Limb(l, i)
  <2>1. Limb(l, i) \in 0 .. B - 1
        BY LimbIs
  <2>2. CASE i <= k
        BY <1>2, <1>3, <2>1, <2>2
  <2>3. CASE i = k + 1
    <3>1. Limb(l, i) # Ones
      <4>1. CASE k = Len(l)
        <5>1. Limb(l, i) = 0
              BY <1>2, <1>4, <2>3, <4>1, LimbIs
        <5> QED
            BY <1>2, <5>1
      <4>2. CASE k # Len(l)
        <5>1. k + 1 \in 1 .. Len(l) /\ l[k + 1] # Ones
              BY <1>1, <1>2, <4>2
        <5>2. Limb(l, k + 1) = l[k + 1]
              BY <5>1, LimbIs
        <5> QED
            BY <2>3, <5>1, <5>2
      <4> QED
          BY <4>1, <4>2
    <3>2. r[i] = Limb(l, i) + 1
          BY <1>3, <1>4, <2>3
    <3>3. Limb(l, i) + 1 \in 0 .. B - 1
          BY <1>2, <2>1, <3>1
    <3> QED
        BY <1>4, <2>1, <2>3, <3>2, <3>3
  <2>4. CASE i > k + 1
    <3>1. i \in 1 .. Len(l)
          BY <1>4, <1>5, <2>4
    <3>2. Limb(l, i) = l[i] /\ ~(i <= k) /\ i # k + 1
          BY <1>4, <2>4, <3>1, LimbIs
    <3> QED
        BY <1>3, <2>1, <3>2
  <2> QED
      BY <1>4, <2>2, <2>3, <2>4
<1>7. r \in Limbs /\ Len(r) = n
  <2>1. r = [i \in 1 .. n |-> r[i]]
        BY <1>3
  <2> QED
      BY <1>4, <1>6, <2>1, LimbsAre
<1>8. ASSUME NEW i \in 1 .. n
      PROVE  g[i] = r[i] + B * g[i + 1]
  <2>1. i \in Nat \ {0} /\ i + 1 \in Nat /\ i \in 1 .. n + 1 /\ i + 1 \in 1 .. n + 1
        BY <1>4
  <2>2. Above(l, i) = Limb(l, i) + B * Above(l, i + 1)
        BY <2>1, AboveIs
  <2>3. Above(l, i + 1) \in Nat /\ Above(l, i + 1) \in Int
        BY <2>1, AboveIs
  <2>4. g[i] = Above(l, i) + c(i) /\ g[i + 1] = Above(l, i + 1) + c(i + 1)
        BY <2>1
  <2> HIDE DEF g
  <2>5. CASE i <= k
    <3>1. c(i) = 1 /\ c(i + 1) = 1 /\ r[i] = 0
          BY <1>4, <1>6, <2>5
    <3>2. Limb(l, i) = B - 1
      <4>1. i \in 1 .. k /\ i \in 1 .. Len(l)
            BY <1>1, <1>2, <1>4, <2>5
      <4> QED
          BY <1>1, <1>2, <4>1, LimbIs
    <3>3. Rolls(Above(l, i + 1))
          BY <2>3, RollsOver
    <3>4. g[i] = (B - 1) + B * Above(l, i + 1) + 1 /\ g[i + 1] = Above(l, i + 1) + 1
          BY <2>2, <2>4, <3>1, <3>2
    <3> QED
        BY <3>1, <3>3, <3>4 DEF Rolls
  <2>6. CASE i = k + 1
    <3>1. c(i) = 1 /\ c(i + 1) = 0 /\ r[i] = Limb(l, i) + 1 /\ Limb(l, i) \in Int
          BY <1>2, <1>4, <1>6, <2>6
    <3>2. Moves(Limb(l, i), 1, Above(l, i + 1))
          BY <2>3, <3>1, MovesOver
    <3>3. g[i] = (Limb(l, i) + B * Above(l, i + 1)) + 1 /\ g[i + 1] = Above(l, i + 1)
          BY <2>2, <2>3, <2>4, <3>1
    <3> QED
        BY <3>1, <3>2, <3>3 DEF Moves
  <2>7. CASE i > k + 1
    <3>1. c(i) = 0 /\ c(i + 1) = 0 /\ r[i] = Limb(l, i)
          BY <1>4, <1>6, <2>7
    <3>2. Above(l, i) \in Int
          BY <2>1, AboveIs
    <3>3. g[i] = Above(l, i) /\ g[i + 1] = Above(l, i + 1)
          BY <2>3, <2>4, <3>1, <3>2
    <3> QED
        BY <2>2, <3>1, <3>3
  <2> QED
      BY <1>4, <2>5, <2>6, <2>7
<1>9. g[n + 1] = 0
  <2>1. n + 1 \in Nat /\ n + 1 > Len(l) /\ n + 1 \in 1 .. n + 1 /\ ~(n + 1 <= k + 1)
        BY <1>2, <1>4
  <2>2. Above(l, n + 1) = 0
        BY <2>1, AboveIs
  <2> QED
      BY <2>1, <2>2
<1>10. g[1] = Value(l) + 1
  <2>1. 1 \in 1 .. n + 1 /\ 1 \in Nat /\ 1 <= k + 1
        BY <1>4
  <2> QED
      BY <2>1, AboveIs
<1> HIDE DEF g
<1>11. Value(r) = g[1]
      BY <1>7, <1>8, <1>9, ValueBy
<1> QED
    BY <1>4, <1>7, <1>10, <1>11 DEF r

\* The one numeral of zero.
LEMMA ZeroValue == Zero \in Numerals /\ Value(Zero) = 0 /\ \A l \in Numerals : IsZero(l) <=> Value(l) = 0
<1>1. Zero \in Limbs /\ Len(Zero) = 1 /\ Zero[1] = 0
      BY BaseNat DEF Zero, Limbs
<1>2. Zero \in Numerals
      BY <1>1 DEF Numerals
<1>3. Value(Zero) = 0
  <2>1. 1 \in Nat \ {0} /\ 2 \in Nat /\ 1 + 1 = 2 /\ 2 > 1 /\ 1 \in 1 .. 1
        OBVIOUS
  <2>2. Above(Zero, 2) = 0
        BY <1>1, <2>1, AboveIs
  <2>3. Limb(Zero, 1) = 0
        BY <1>1, <2>1, LimbIs
  <2>4. Above(Zero, 1) = 0 + B * 0
        BY <1>1, <2>1, <2>2, <2>3, AboveIs
  <2>5. Above(Zero, 1) = 0
        BY <2>4, BaseNat
  <2> QED
      BY <1>1, <2>5, AboveIs
<1> QED
    BY <1>2, <1>3, LessExact DEF IsZero

\* bn_dec: the predecessor of a numeral that is not zero.
THEOREM DecExact ==
    ASSUME NEW l \in Numerals, ~IsZero(l)
    PROVE  Dec(l) \in Limbs /\ Len(Dec(l)) = Len(l) /\ Value(Dec(l)) = Value(l) - 1
<1> DEFINE k == Run(l, 0)
           n == Len(l)
           c(i) == IF i <= k + 1 THEN 1 ELSE 0
           r == Dec(l)
           g == [i \in 1 .. n + 1 |-> Above(l, i) - c(i)]
<1>0. l \in Limbs
      BY DEF Numerals
<1>1. /\ k \in 0 .. n /\ \A i \in 1 .. k : l[i] = 0
      /\ k = n \/ l[k + 1] # 0
      BY <1>0, RunIs
<1>2. n \in Nat /\ n >= 1 /\ Ones = B - 1 /\ B \in Nat /\ B >= 4 /\ DOMAIN l = 1 .. n
      BY <1>0, LimbIs, BaseNat DEF Numerals, Limbs
<1>3. r = [i \in 1 .. n |-> IF i <= k THEN Ones ELSE IF i = k + 1 THEN l[i] - 1 ELSE l[i]]
      BY <1>2 DEF Dec
<1>4. k # n
  <2> SUFFICES ASSUME k = n
               PROVE  FALSE
      OBVIOUS
  <2>1. l[n] = 0
        BY <1>1, <1>2
  <2>2. n = 1 /\ l[1] = 0
        BY <2>1 DEF Numerals
  <2>3. l = Zero
    <3>1. Zero \in Limbs /\ Len(l) = Len(Zero) /\ \A i \in 1 .. Len(l) : l[i] = Zero[i]
          BY <2>2, ZeroValue DEF Numerals, Zero
    <3> QED
        BY <1>0, <3>1, LimbsSame
  <2> QED
      BY <2>3 DEF IsZero
<1> HIDE DEF r, k
<1>5. k \in Nat /\ k + 1 <= n
  <2>1. n \in Nat /\ k \in 0 .. n
        BY <1>1, <1>2
  <2>2. \A x \in Nat : \A y \in 0 .. x : y # x => y \in Nat /\ y + 1 <= x
        OBVIOUS
  <2> HIDE DEF n
  <2> QED
      BY <1>4, <2>1, <2>2
<1> HIDE DEF n
<1>6. ASSUME NEW i \in 1 .. n
      PROVE  r[i] \in 0 .. B - 1 /\ Limb(l, i) \in 0 .. B - 1
             /\ r[i] = IF i <= k THEN B - 1 ELSE IF i = k + 1 THEN Limb(l, i) - 1 ELSE Limb(l, i)
  <2>1. Limb(l, i) \in 0 .. B - 1 /\ Limb(l, i) = l[i]
        BY <1>0, LimbIs DEF n
  <2>2. r[i] = IF i <= k THEN B - 1 ELSE IF i = k + 1 THEN Limb(l, i) - 1 ELSE Limb(l, i)
        BY <1>2, <1>3, <2>1
  <2>3. i = k + 1 => Limb(l, i) # 0
        BY <1>1, <1>4, <2>1
  <2>4. r[i] \in 0 .. B - 1
        BY <1>2, <1>5, <2>1, <2>2, <2>3
  <2> QED
      BY <2>1, <2>2, <2>4
<1>7. r \in Limbs /\ Len(r) = n
  <2>1. r = [i \in 1 .. n |-> r[i]]
        BY <1>3
  <2> QED
      BY <1>2, <1>6, <2>1, LimbsAre
<1>8. ASSUME NEW i \in 1 .. n
      PROVE  g[i] = r[i] + B * g[i + 1]
  <2>1. i \in Nat \ {0} /\ i + 1 \in Nat /\ i \in 1 .. n + 1 /\ i + 1 \in 1 .. n + 1
        BY <1>2
  <2>2. Above(l, i) = Limb(l, i) + B * Above(l, i + 1)
        BY <1>0, <2>1, AboveIs
  <2>3. Above(l, i + 1) \in Nat /\ Above(l, i + 1) \in Int
        BY <1>0, <2>1, AboveIs
  <2>4. g[i] = Above(l, i) - c(i) /\ g[i + 1] = Above(l, i + 1) - c(i + 1)
        BY <2>1
  <2> HIDE DEF g
  <2>5. CASE i <= k
    <3>1. c(i) = 1 /\ c(i + 1) = 1 /\ r[i] = B - 1
          BY <1>5, <1>6, <2>5
    <3>2. Limb(l, i) = 0
      <4>1. i \in 1 .. k /\ i \in 1 .. n
            BY <1>5, <2>5
      <4> QED
          BY <1>0, <1>1, <4>1, LimbIs DEF n
    <3>3. Rolls(Above(l, i + 1))
          BY <2>3, RollsOver
    <3>5. g[i] = Above(l, i) - 1 /\ g[i + 1] = Above(l, i + 1) - 1
          BY <2>4, <3>1
    <3>4. g[i] = 0 + B * Above(l, i + 1) - 1 /\ g[i + 1] = Above(l, i + 1) - 1
      <4>1. Above(l, i) = 0 + B * Above(l, i + 1)
            BY <2>2, <3>2
      <4> QED
          BY <2>3, <3>5, <4>1, BaseNat
    <3>6. 0 + B * Above(l, i + 1) - 1 = (B - 1) + B * (Above(l, i + 1) - 1)
          BY <3>3 DEF Rolls
    <3>7. r[i] = B - 1
          BY <3>1
    <3> QED
        BY <3>4, <3>6, <3>7
  <2>6. CASE i = k + 1
    <3>1. c(i) = 1 /\ c(i + 1) = 0 /\ r[i] = Limb(l, i) - 1 /\ Limb(l, i) \in Int
          BY <1>2, <1>5, <1>6, <2>6
    <3>2. Moves(Limb(l, i), -1, Above(l, i + 1))
          BY <2>3, <3>1, MovesOver
    <3>3. g[i] = (Limb(l, i) + B * Above(l, i + 1)) - 1 /\ g[i + 1] = Above(l, i + 1)
          BY <2>2, <2>3, <2>4, <3>1
    <3>4. (Limb(l, i) + B * Above(l, i + 1)) + -1 = (Limb(l, i) + B * Above(l, i + 1)) - 1 /\ Limb(l, i) + -1 = Limb(l, i) - 1
      <4>1. B * Above(l, i + 1) \in Int
            BY <2>3, BaseNat
      <4> QED
          BY <3>1, <4>1
    <3> QED
        BY <3>1, <3>2, <3>3, <3>4 DEF Moves
  <2>7. CASE i > k + 1
    <3>1. c(i) = 0 /\ c(i + 1) = 0 /\ r[i] = Limb(l, i)
          BY <1>5, <1>6, <2>7
    <3>2. Above(l, i) \in Int
          BY <1>0, <2>1, AboveIs
    <3>3. g[i] = Above(l, i) /\ g[i + 1] = Above(l, i + 1)
          BY <2>3, <2>4, <3>1, <3>2
    <3> QED
        BY <2>2, <3>1, <3>3
  <2> QED
      BY <1>5, <2>5, <2>6, <2>7
<1>9. g[n + 1] = 0
  <2>1. n + 1 \in Nat /\ n + 1 > Len(l) /\ n + 1 \in 1 .. n + 1 /\ ~(n + 1 <= k + 1)
        BY <1>2, <1>5 DEF n
  <2>2. Above(l, n + 1) = 0
        BY <1>0, <2>1, AboveIs
  <2> QED
      BY <2>1, <2>2
<1>10. g[1] = Value(l) - 1
  <2>1. 1 \in 1 .. n + 1 /\ 1 \in Nat /\ 1 <= k + 1
        BY <1>2, <1>5
  <2> QED
      BY <1>0, <2>1, AboveIs
<1> HIDE DEF g
<1>11. Value(r) = g[1]
      BY <1>7, <1>8, <1>9, ValueBy
<1> QED
    BY <1>7, <1>10, <1>11 DEF r, n

-----------------------------------------------------------------------------
(* Subtracting.                                                            *)

\* What a chain starts in and its steps stay in holds its values.
LEMMA HoldsUp ==
    ASSUME NEW lo \in Int, NEW hi \in Int, NEW F, NEW S, F[lo] \in S, lo <= hi,
           \A i \in lo .. hi : i < hi /\ F[i] \in S => F[i + 1] \in S
    PROVE  \A i \in lo .. hi : F[i] \in S
<1> DEFINE T == {i \in lo .. hi : F[i] \in S}
<1>1. lo \in T
      OBVIOUS
<1>2. \A i \in lo .. hi : i < hi /\ i \in T => i + 1 \in T
      OBVIOUS
<1> HIDE DEF T
<1>3. \A i \in lo .. hi : i \in T
      BY <1>1, <1>2, InductUp
<1> QED
    BY <1>3 DEF T

\* The same from the top place down.
LEMMA HoldsDown ==
    ASSUME NEW lo \in Int, NEW hi \in Int, NEW F, NEW S, F[hi] \in S, lo <= hi,
           \A i \in lo .. hi : i < hi /\ F[i + 1] \in S => F[i] \in S
    PROVE  \A i \in lo .. hi : F[i] \in S
<1> DEFINE T == {i \in lo .. hi : F[i] \in S}
<1>1. hi \in T
      OBVIOUS
<1>2. \A i \in lo .. hi : i < hi /\ i + 1 \in T => i \in T
      OBVIOUS
<1> HIDE DEF T
<1>3. \A i \in lo .. hi : i \in T
      BY <1>1, <1>2, InductDown
<1> QED
    BY <1>3 DEF T

\* The test of bn_sub is the borrow, also where y + borrow wraps.
LEMMA BorrowsIs ==
    ASSUME NEW x \in 0 .. B - 1, NEW y \in 0 .. B - 1, NEW z \in 0 .. 1
    PROVE  Borrows(x, y, z) <=> x < y + z
<1>1. CASE y + z < B
  <2>1. (y + z) % B = y + z
    <3>1. y + z \in 0 .. B - 1 /\ B \in Nat \ {0} /\ 0 \in Int /\ y + z \in Int /\ y + z = B * 0 + (y + z)
          BY <1>1, BaseNat
    <3> DEFINE s == y + z
    <3>2. s \in 0 .. B - 1 /\ B \in Nat \ {0} /\ 0 \in Int /\ s \in Int /\ s = B * 0 + s
          BY <3>1
    <3> HIDE DEF s
    <3>3. s % B = s
          BY <3>2, QuotientIs
    <3> QED
        BY <3>3 DEF s
  <2> QED
      BY <1>1, <2>1, BaseNat DEF Borrows
<1>2. CASE ~(y + z < B)
  <2>1. z = 1 /\ y = Ones /\ x < y + z
        BY <1>2, BaseNat
  <2> QED
      BY <2>1 DEF Borrows
<1> QED
    BY <1>1, <1>2

\* The borrows of bn_sub.
BorrowChain(a, b) ==
    CHOOSE c : c = [i \in 0 .. Len(a) |-> IF i > 0 /\ Borrows(a[i], Limb(b, i), c[i - 1]) THEN 1 ELSE 0]

\* They are bits and satisfy their recurrence.
LEMMA BorrowChainIs ==
    ASSUME NEW a \in Limbs, NEW b \in Limbs, NEW n \in Nat, n = Len(a)
    PROVE  /\ BorrowChain(a, b)[0] = 0
           /\ \A i \in 1 .. n : BorrowChain(a, b)[i] = IF Borrows(a[i], Limb(b, i), BorrowChain(a, b)[i - 1]) THEN 1 ELSE 0
           /\ \A i \in 0 .. n : BorrowChain(a, b)[i] \in 0 .. 1
<1> DEFINE Is(c) == c = [i \in 0 .. n |-> IF i > 0 /\ Borrows(a[i], Limb(b, i), c[i - 1]) THEN 1 ELSE 0]
           step == [p \in (1 .. n) \X (0 .. 1) |-> IF Borrows(a[p[1]], Limb(b, p[1]), p[2]) THEN 1 ELSE 0]
<1>3. \A i \in 1 .. n, x \in 0 .. 1 : step[<<i, x>>] = IF Borrows(a[i], Limb(b, i), x) THEN 1 ELSE 0
      OBVIOUS
<1>4. step \in [(1 .. n) \X (0 .. 1) -> 0 .. 1]
      OBVIOUS
<1> HIDE DEF step
<1>5. PICK f \in [0 .. n -> 0 .. 1] : Upward(f, 0, n, 0, step)
  <2>1. 0 \in Int /\ n \in Int /\ 0 \in 0 .. 1 /\ \A i \in 0 .. n : 0 < i => i \in 1 .. n
        OBVIOUS
  <2> QED
      BY <2>1, <1>4, ChainUp, Zenon
<1>6. Is(f)
  <2>1. \A i \in 0 .. n : i # 0 => i \in 1 .. n /\ f[i - 1] \in 0 .. 1
        OBVIOUS
  <2>2. f = [i \in 0 .. n |-> IF i = 0 THEN 0 ELSE step[<<i, f[i - 1]>>]]
        BY <1>5 DEF Upward
  <2>3. ASSUME NEW i \in 0 .. n
        PROVE  f[i] = IF i > 0 /\ Borrows(a[i], Limb(b, i), f[i - 1]) THEN 1 ELSE 0
    <3>1. CASE i = 0
          BY <2>2, <3>1
    <3>2. CASE i # 0
      <4>1. i > 0 /\ i \in 1 .. n /\ f[i - 1] \in 0 .. 1 /\ f[i] = step[<<i, f[i - 1]>>]
            BY <2>1, <2>2, <3>2
      <4> QED
          BY <4>1, <1>3
    <3> QED
        BY <3>1, <3>2
  <2> QED
      BY <2>3
<1>7. BorrowChain(a, b) = CHOOSE c : Is(c)
      BY DEF BorrowChain
<1>8. Is(BorrowChain(a, b))
  <2> HIDE DEF Is
  <2> QED
      BY <1>6, <1>7
<1> DEFINE F == BorrowChain(a, b)
<1>9. F = [i \in 0 .. n |-> IF i > 0 /\ Borrows(a[i], Limb(b, i), F[i - 1]) THEN 1 ELSE 0]
      BY <1>8
<1> HIDE DEF F
<1>10. F[0] = 0 /\ \A i \in 1 .. n : F[i] = IF Borrows(a[i], Limb(b, i), F[i - 1]) THEN 1 ELSE 0
      BY <1>9
<1>11. \A i \in 0 .. n : F[i] \in 0 .. 1
      BY <1>9
<1> QED
    BY <1>10, <1>11 DEF F

\* Two limbs and a borrow make a limb and the next borrow.
HornerDiff(x, y, z, r, p, q, c) ==
    x - y - z = r - B * c => (x + B * p) - (y + B * q) - z = r + B * (p - q - c)
\* HornerDiff, for all integers.
LEMMA HornerDiffs == \A x, y, z, r, p, q, c \in Int : HornerDiff(x, y, z, r, p, q, c)
<1>1. \A b, x, y, z, r, p, q, c \in Int :
          x - y - z = r - b * c => (x + b * p) - (y + b * q) - z = r + b * (p - q - c)
      OBVIOUS
<1> QED
    BY <1>1, BaseNat DEF HornerDiff

\* x - y - z, wrapped, and the borrow.
Borrowed(x, y, z, c) ==
    (c = IF x < y + z THEN 1 ELSE 0) =>
        /\ (x - y - z) % B \in 0 .. B - 1
        /\ x - y - z = ((x - y - z) % B) - B * c
\* The wrapped difference is a limb, and the borrow its sign.
LEMMA BorrowedIs ==
    ASSUME NEW x \in 0 .. B - 1, NEW y \in 0 .. B - 1, NEW z \in 0 .. 1, NEW c \in 0 .. 1
    PROVE  Borrowed(x, y, z, c)
<1> SUFFICES ASSUME c = IF x < y + z THEN 1 ELSE 0
             PROVE  /\ (x - y - z) % B \in 0 .. B - 1
                    /\ x - y - z = ((x - y - z) % B) - B * c
    BY DEF Borrowed
<1> DEFINE d == x - y - z
<1>1. d \in Int /\ B \in Nat \ {0} /\ B >= 4
      BY BaseNat
<1>2. CASE x < y + z
  <2>1. c = 1 /\ d + B \in 0 .. B - 1 /\ -1 \in Int /\ d = B * (-1) + (d + B) /\ B * 1 = B
        BY <1>1, <1>2
  <2> HIDE DEF d
  <2>2. d % B = d + B
        BY <1>1, <2>1, QuotientIs
  <2>3. d % B \in 0 .. B - 1 /\ d = (d % B) - B * c
        BY <1>1, <2>1, <2>2
  <2> QED
      BY <2>3 DEF d
<1>3. CASE ~(x < y + z)
  <2>1. c = 0 /\ d \in 0 .. B - 1 /\ 0 \in Int /\ d = B * 0 + d /\ B * 0 = 0
        BY <1>1, <1>3
  <2> HIDE DEF d
  <2>2. d % B = d
        BY <1>1, <2>1, QuotientIs
  <2>3. d % B \in 0 .. B - 1 /\ d = (d % B) - B * c
        BY <1>1, <2>1, <2>2
  <2> QED
      BY <2>3 DEF d
<1> QED
    BY <1>2, <1>3

\* bn_sub: the limbs of the difference, when it is not negative.
THEOREM SubExact ==
    ASSUME NEW a \in Limbs, NEW b \in Limbs, Value(b) <= Value(a)
    PROVE  Sub(a, b) \in Limbs /\ Len(Sub(a, b)) = Len(a) /\ Value(Sub(a, b)) = Value(a) - Value(b)
<1> DEFINE n == Len(a)
           C == BorrowChain(a, b)
           r == Sub(a, b)
           g == [i \in 1 .. n + 1 |-> Above(a, i) - Above(b, i) - C[i - 1]]
<1>1. n \in Nat /\ DOMAIN a = 1 .. n /\ \A i : Limb(b, i) \in 0 .. B - 1
      BY LimbIs DEF Limbs
<1>2. \A i \in 1 .. n : Limb(a, i) = a[i] /\ a[i] \in 0 .. B - 1
      BY LimbIs
<1>3. r = [i \in 1 .. n |-> (a[i] - Limb(b, i) - C[i - 1]) % B]
      BY <1>1 DEF Sub, BorrowChain
<1> HIDE DEF r
<1>4. /\ C[0] = 0
      /\ \A i \in 1 .. n : C[i] = IF Borrows(a[i], Limb(b, i), C[i - 1]) THEN 1 ELSE 0
      /\ \A i \in 0 .. n : C[i] \in 0 .. 1
      BY <1>1, BorrowChainIs
<1> HIDE DEF C, n
<1>5. ASSUME NEW i \in 1 .. n
      PROVE  r[i] \in 0 .. B - 1 /\ a[i] - Limb(b, i) - C[i - 1] = r[i] - B * C[i]
  <2>1. i - 1 \in 0 .. n /\ i \in 0 .. n
        BY <1>1
  <2>2. C[i - 1] \in 0 .. 1 /\ C[i] \in 0 .. 1 /\ a[i] \in 0 .. B - 1 /\ Limb(b, i) \in 0 .. B - 1
        BY <1>1, <1>2, <1>4, <2>1
  <2>3. C[i] = IF a[i] < Limb(b, i) + C[i - 1] THEN 1 ELSE 0
        BY <1>4, <2>2, BorrowsIs
  <2>4. Borrowed(a[i], Limb(b, i), C[i - 1], C[i])
        BY <2>2, BorrowedIs
  <2>5. r[i] = (a[i] - Limb(b, i) - C[i - 1]) % B
        BY <1>3
  <2> QED
      BY <2>3, <2>4, <2>5 DEF Borrowed
<1>7. r \in Limbs /\ Len(r) = n
  <2>1. r = [i \in 1 .. n |-> r[i]]
        BY <1>3
  <2> QED
      BY <1>1, <1>5, <2>1, LimbsAre
<1>8. ASSUME NEW i \in 1 .. n
      PROVE  g[i] = r[i] + B * g[i + 1]
  <2>1. i \in Nat \ {0} /\ i + 1 \in Nat /\ i \in 1 .. n + 1 /\ i + 1 \in 1 .. n + 1 /\ (i + 1) - 1 = i /\ i \in 0 .. n /\ i - 1 \in 0 .. n
        BY <1>1
  <2>2. Above(a, i) = a[i] + B * Above(a, i + 1) /\ Above(b, i) = Limb(b, i) + B * Above(b, i + 1)
        BY <1>2, <2>1, AboveIs
  <2>3. Above(a, i + 1) \in Nat /\ Above(b, i + 1) \in Nat
        BY <2>1, AboveIs
  <2>4. g[i] = Above(a, i) - Above(b, i) - C[i - 1] /\ g[i + 1] = Above(a, i + 1) - Above(b, i + 1) - C[i]
        BY <2>1
  <2>5. /\ Above(a, i + 1) \in Int /\ Above(b, i + 1) \in Int /\ C[i - 1] \in Int /\ C[i] \in Int
        /\ a[i] \in Int /\ Limb(b, i) \in Int /\ r[i] \in Int
    <3>1. C[i - 1] \in 0 .. 1 /\ C[i] \in 0 .. 1 /\ a[i] \in 0 .. B - 1 /\ Limb(b, i) \in 0 .. B - 1 /\ r[i] \in 0 .. B - 1
          BY <1>1, <1>2, <1>4, <1>5, <2>1
    <3> QED
        BY <2>3, <3>1, BaseNat
  <2>6. a[i] - Limb(b, i) - C[i - 1] = r[i] - B * C[i]
        BY <1>5
  <2>7. HornerDiff(a[i], Limb(b, i), C[i - 1], r[i], Above(a, i + 1), Above(b, i + 1), C[i])
        BY <2>5, HornerDiffs
  <2> HIDE DEF g
  <2> QED
      BY <2>2, <2>4, <2>6, <2>7 DEF HornerDiff
<1>9. \A i \in 1 .. n + 1 : g[i] \in Int
  <2> SUFFICES ASSUME NEW i \in 1 .. n + 1
               PROVE  g[i] \in Int
      OBVIOUS
  <2>1. i \in Nat /\ i - 1 \in 0 .. n
        BY <1>1
  <2>2. Above(a, i) \in Nat /\ Above(b, i) \in Nat
        BY <2>1, AboveIs
  <2>3. C[i - 1] \in 0 .. 1
        BY <1>4, <2>1
  <2>4. g[i] = Above(a, i) - Above(b, i) - C[i - 1]
        OBVIOUS
  <2> HIDE DEF g
  <2> QED
      BY <2>2, <2>3, <2>4
<1>10. g[1] = Value(a) - Value(b) /\ Value(a) \in Nat /\ Value(b) \in Nat
  <2>1. 1 \in 1 .. n + 1 /\ 1 \in Nat /\ 1 - 1 = 0
        BY <1>1
  <2>2. Value(a) = Above(a, 1) /\ Value(b) = Above(b, 1) /\ Above(a, 1) \in Nat /\ Above(b, 1) \in Nat
        BY <2>1, AboveIs
  <2>3. g[1] = Above(a, 1) - Above(b, 1) - C[0]
        BY <2>1
  <2> HIDE DEF g
  <2> QED
      BY <1>4, <2>2, <2>3
<1> HIDE DEF g
<1>11. g[1] >= 0 /\ g[1] < Power(B)[n]
  <2>1. Value(a) < Power(B)[n]
        BY ValueBound DEF n
  <2>2. Power(B)[n] \in Nat \ {0}
        BY <1>1, BaseNat, PowerPos
  <2> QED
      BY <1>10, <2>1, <2>2
<1>12. Value(r) = g[1]
      BY <1>1, <1>7, <1>8, <1>9, <1>11, ValueTop
<1> QED
    BY <1>7, <1>10, <1>12 DEF r, n

-----------------------------------------------------------------------------
(* One row of a multiplication.                                            *)

\* The carries of a row.
RowCarry(acc, x, b, i) ==
    CHOOSE c : c = [k \in i - 1 .. Len(acc) |->
        IF k = i - 1 THEN 0 ELSE (x * Limb(b, k - i + 1) + acc[k] + c[k - 1]) \div B]

\* They satisfy their recurrence.
LEMMA RowCarryIs ==
    ASSUME NEW acc \in Limbs, NEW x \in 0 .. B - 1, NEW b \in Limbs, NEW n \in Nat, n = Len(acc), NEW i \in 1 .. n
    PROVE  /\ RowCarry(acc, x, b, i)[i - 1] = 0
           /\ \A k \in i .. n : RowCarry(acc, x, b, i)[k]
                  = (x * Limb(b, k - i + 1) + acc[k] + RowCarry(acc, x, b, i)[k - 1]) \div B
           /\ \A k \in i - 1 .. n : RowCarry(acc, x, b, i)[k] \in Nat
<1> DEFINE Is(c) == c = [k \in i - 1 .. n |->
               IF k = i - 1 THEN 0 ELSE (x * Limb(b, k - i + 1) + acc[k] + c[k - 1]) \div B]
           step == [p \in (i .. n) \X Nat |-> (x * Limb(b, p[1] - i + 1) + acc[p[1]] + p[2]) \div B]
<1>1. B \in Nat \ {0} /\ \A k : Limb(b, k) \in 0 .. B - 1
      BY BaseNat, LimbIs
<1>2. \A k \in i .. n : acc[k] \in 0 .. B - 1
      BY LimbIs
<1>3. \A k \in i .. n, c \in Nat : step[<<k, c>>] = (x * Limb(b, k - i + 1) + acc[k] + c) \div B
      OBVIOUS
<1>4. ASSUME NEW k \in i .. n, NEW c \in Nat
      PROVE  (x * Limb(b, k - i + 1) + acc[k] + c) \div B \in Nat
  <2>1. x \in Nat /\ Limb(b, k - i + 1) \in Nat /\ acc[k] \in Nat
        BY <1>1, <1>2
  <2>2. x * Limb(b, k - i + 1) \in Nat
        BY <2>1
  <2>3. x * Limb(b, k - i + 1) + acc[k] + c \in Nat
        BY <2>1, <2>2
  <2> QED
      BY <1>1, <2>3, QuotientNat
<1>5. step \in [(i .. n) \X Nat -> Nat]
      BY <1>4
<1> HIDE DEF step
<1>6. PICK f \in [i - 1 .. n -> Nat] : Upward(f, i - 1, n, 0, step)
  <2>1. i - 1 \in Int /\ n \in Int /\ 0 \in Nat /\ \A k \in i - 1 .. n : i - 1 < k => k \in i .. n
        OBVIOUS
  <2> QED
      BY <2>1, <1>5, ChainUp, Zenon
<1>7. Is(f)
  <2>1. f = [k \in i - 1 .. n |-> IF k = i - 1 THEN 0 ELSE step[<<k, f[k - 1]>>]]
        BY <1>6 DEF Upward
  <2>2. ASSUME NEW k \in i - 1 .. n
        PROVE  f[k] = IF k = i - 1 THEN 0 ELSE (x * Limb(b, k - i + 1) + acc[k] + f[k - 1]) \div B
    <3>1. CASE k = i - 1
          BY <2>1, <3>1
    <3>2. CASE k # i - 1
      <4>3. k \in i .. n /\ k - 1 \in i - 1 .. n
            BY <3>2
      <4>4. f[k - 1] \in Nat
            BY <4>3
      <4>5. f[k] = step[<<k, f[k - 1]>>]
            BY <2>1, <3>2
      <4>1. k \in i .. n /\ f[k - 1] \in Nat /\ f[k] = step[<<k, f[k - 1]>>]
            BY <4>3, <4>4, <4>5
      <4>2. step[<<k, f[k - 1]>>] = (x * Limb(b, k - i + 1) + acc[k] + f[k - 1]) \div B
            BY <4>1, <1>3
      <4> QED
          BY <3>2, <4>1, <4>2
    <3> QED
        BY <3>1, <3>2
  <2> QED
      BY <2>2
<1>8. RowCarry(acc, x, b, i) = CHOOSE c : Is(c)
      BY DEF RowCarry
<1>9. Is(RowCarry(acc, x, b, i))
  <2> HIDE DEF Is
  <2> QED
      BY <1>7, <1>8
<1> DEFINE F == RowCarry(acc, x, b, i)
<1>10. F = [k \in i - 1 .. n |-> IF k = i - 1 THEN 0 ELSE (x * Limb(b, k - i + 1) + acc[k] + F[k - 1]) \div B]
      BY <1>9
<1> HIDE DEF F
<1>11. F[i - 1] = 0 /\ \A k \in i .. n : F[k] = (x * Limb(b, k - i + 1) + acc[k] + F[k - 1]) \div B
  <2>1. \A k \in i .. n : k # i - 1 /\ k \in i - 1 .. n
        OBVIOUS
  <2>2. i - 1 \in i - 1 .. n
        OBVIOUS
  <2> QED
      BY <2>1, <2>2, <1>10
<1>12. \A k \in i - 1 .. n : F[k] \in Nat
  <2>1. ASSUME NEW k \in i - 1 .. n, k < n, F[k] \in Nat
        PROVE  F[k + 1] \in Nat
    <3>1. k + 1 \in i .. n /\ (k + 1) - 1 = k
          BY <2>1
    <3>2. (x * Limb(b, (k + 1) - i + 1) + acc[k + 1] + F[k]) \div B \in Nat
          BY <1>4, <2>1, <3>1
    <3>3. F[k + 1] = (x * Limb(b, (k + 1) - i + 1) + acc[k + 1] + F[k]) \div B
          BY <1>11, <3>1
    <3> QED
        BY <3>2, <3>3
  <2>2. i - 1 \in Int /\ n \in Int /\ F[i - 1] \in Nat /\ i - 1 <= n
        BY <1>11
  <2> QED
      BY <2>1, <2>2, HoldsUp
<1> QED
    BY <1>11, <1>12 DEF F

\* A row is limbs again, and what it adds is a limb times a number.
LEMMA RowLimbs ==
    ASSUME NEW acc \in Limbs, NEW x \in 0 .. B - 1, NEW b \in Limbs, NEW n \in Nat, n = Len(acc), NEW i \in 1 .. n
    PROVE  /\ AddRow(acc, x, b, i) \in Limbs /\ Len(AddRow(acc, x, b, i)) = n
           /\ \A k \in 1 .. n : k < i => AddRow(acc, x, b, i)[k] = acc[k]
           /\ \A k \in i .. n : AddRow(acc, x, b, i)[k]
                  = (x * Limb(b, k - i + 1) + acc[k] + RowCarry(acc, x, b, i)[k - 1]) % B
<1> DEFINE C == RowCarry(acc, x, b, i)
           r == AddRow(acc, x, b, i)
<1>1. \A k : Limb(b, k) \in 0 .. B - 1
      BY LimbIs
<1>2. \A k \in 1 .. n : acc[k] \in 0 .. B - 1
      BY LimbIs
<1>3. r = [k \in 1 .. n |-> IF k < i THEN acc[k] ELSE (x * Limb(b, k - i + 1) + acc[k] + C[k - 1]) % B]
  <2>1. DOMAIN acc = 1 .. n
        BY DEF Limbs
  <2> QED
      BY <2>1 DEF AddRow, RowCarry
<1>4. \A k \in i - 1 .. n : C[k] \in Nat
      BY RowCarryIs
<1> HIDE DEF C, r
<1>5. ASSUME NEW k \in 1 .. n
      PROVE  r[k] \in 0 .. B - 1
  <2>1. CASE k < i
        BY <1>2, <1>3, <2>1
  <2>2. CASE ~(k < i)
    <3>1. k \in i .. n /\ k - 1 \in i - 1 .. n
          BY <2>2
    <3>2. x \in Nat /\ Limb(b, k - i + 1) \in Nat /\ acc[k] \in Nat /\ C[k - 1] \in Nat
          BY <1>1, <1>2, <1>4, <3>1, BaseNat
    <3>3. x * Limb(b, k - i + 1) \in Nat
          BY <3>2
    <3>4. x * Limb(b, k - i + 1) + acc[k] + C[k - 1] \in Int
          BY <3>2, <3>3
    <3>5. (x * Limb(b, k - i + 1) + acc[k] + C[k - 1]) % B \in 0 .. B - 1
          BY <3>4, BaseQuotient
    <3> QED
        BY <1>3, <2>2, <3>5
  <2> QED
      BY <2>1, <2>2
<1>6. r \in Limbs /\ Len(r) = n
  <2>1. r = [k \in 1 .. n |-> r[k]]
        BY <1>3
  <2> QED
      BY <1>5, <2>1, LimbsAre
<1>7. \A k \in 1 .. n : k < i => r[k] = acc[k]
      BY <1>3
<1>8. ASSUME NEW k \in i .. n
      PROVE  r[k] = (x * Limb(b, k - i + 1) + acc[k] + C[k - 1]) % B
  <2>1. k \in 1 .. n /\ ~(k < i)
        OBVIOUS
  <2> QED
      BY <1>3, <2>1
<1> QED
    BY <1>6, <1>7, <1>8 DEF C, r

\* A product, a limb and a carry make a limb and the next carry.
HornerRow(x, y, v, z, r, p, q, c) ==
    x * y + v + z = r + B * c => (v + B * p) + x * (y + B * q) + z = r + B * (p + x * q + c)
\* HornerRow, for all integers.
LEMMA HornerRows == \A x, y, v, z, r, p, q, c \in Int : HornerRow(x, y, v, z, r, p, q, c)
<1>1. \A b, x, y, v, z, r, p, q, c \in Int :
          x * y + v + z = r + b * c => (v + b * p) + x * (y + b * q) + z = r + b * (p + x * q + c)
      OBVIOUS
<1> QED
    BY <1>1, BaseNat DEF HornerRow

\* Below the row's place the numbers are shifted by a limb at a time.
HornerBelow(v, p, w, u) == (v + B * p) + (B * w) * u = v + B * (p + w * u)
\* HornerBelow, for all integers.
LEMMA HornerBelows == \A v, p, w, u \in Int : HornerBelow(v, p, w, u)
<1>1. \A b, v, p, w, u \in Int : (v + b * p) + (b * w) * u = v + b * (p + w * u)
      OBVIOUS
<1> QED
    BY <1>1, BaseNat DEF HornerBelow

\* A row adds a limb times a number at its place, if the sum fits.
LEMMA RowExact ==
    ASSUME NEW acc \in Limbs, NEW x \in 0 .. B - 1, NEW b \in Limbs, NEW n \in Nat, n = Len(acc), NEW i \in 1 .. n,
           Value(acc) + Power(B)[i - 1] * (x * Value(b)) < Power(B)[n]
    PROVE  Value(AddRow(acc, x, b, i)) = Value(acc) + Power(B)[i - 1] * (x * Value(b))
<1> DEFINE C == RowCarry(acc, x, b, i)
           r == AddRow(acc, x, b, i)
           P == Power(B)
           u == x * Value(b)
           g == [k \in 1 .. n + 1 |-> IF k < i THEN Above(acc, k) + P[i - k] * u
                                      ELSE Above(acc, k) + x * Above(b, k - i + 1) + C[k - 1]]
<1>1. /\ r \in Limbs /\ Len(r) = n
      /\ \A k \in 1 .. n : k < i => r[k] = acc[k]
      /\ \A k \in i .. n : r[k] = (x * Limb(b, k - i + 1) + acc[k] + C[k - 1]) % B
  <2>1. r \in Limbs /\ Len(r) = n
        BY RowLimbs
  <2>2. \A k \in 1 .. n : k < i => r[k] = acc[k]
        BY RowLimbs
  <2>3. \A k \in i .. n : r[k] = (x * Limb(b, k - i + 1) + acc[k] + C[k - 1]) % B
        BY RowLimbs
  <2> QED
      BY <2>1, <2>2, <2>3
<1> HIDE DEF r
<1>2. /\ C[i - 1] = 0
      /\ \A k \in i .. n : C[k] = (x * Limb(b, k - i + 1) + acc[k] + C[k - 1]) \div B
      /\ \A k \in i - 1 .. n : C[k] \in Nat
      BY RowCarryIs
<1> HIDE DEF C
<1>3. \A k \in Nat : P[k] \in Nat \ {0}
      BY BaseNat, PowerPos
<1>15. \A k \in Nat : P[k + 1] = B * P[k]
      BY BaseNat, PowerPos
<1>4. P[0] = 1
      BY BaseNat, PowerIs
<1> HIDE DEF P
<1>5. x \in Nat /\ x \in Int /\ Value(b) \in Nat /\ Value(acc) \in Nat
      BY ValueNat, BaseNat
<1>6. u \in Nat /\ u = x * Value(b)
      BY <1>5
<1> HIDE DEF u
<1>7. \A k \in 1 .. n : acc[k] \in 0 .. B - 1 /\ Limb(acc, k) = acc[k]
      BY LimbIs
<1>8. \A k \in 1 .. n + 1 : g[k] = IF k < i THEN Above(acc, k) + P[i - k] * u
                                      ELSE Above(acc, k) + x * Above(b, k - i + 1) + C[k - 1]
      OBVIOUS
<1> HIDE DEF g
<1>9. ASSUME NEW k \in 1 .. n + 1
      PROVE  g[k] \in Int
  <2>1. k \in Nat /\ Above(acc, k) \in Int
    <3>1. k \in Nat
          OBVIOUS
    <3> QED
        BY <3>1, AboveIs
  <2>2. CASE k < i
    <3>1. i - k \in Nat
          BY <2>2
    <3>2. P[i - k] \in Int
          BY <1>3, <3>1
    <3>3. P[i - k] * u \in Int
          BY <1>6, <3>2
    <3> QED
        BY <1>8, <2>1, <2>2, <3>3
  <2>3. CASE ~(k < i)
    <3>1. k - i + 1 \in Nat /\ k - 1 \in i - 1 .. n
          BY <2>3
    <3>2. Above(b, k - i + 1) \in Int
          BY <3>1, AboveIs
    <3>3. C[k - 1] \in Int
          BY <1>2, <3>1
    <3>4. x * Above(b, k - i + 1) \in Int
          BY <1>5, <3>2
    <3>5. Above(acc, k) + x * Above(b, k - i + 1) + C[k - 1] \in Int
          BY <2>1, <3>3, <3>4
    <3> QED
        BY <1>8, <2>3, <3>5
  <2> QED
      BY <2>2, <2>3
<1>10. g[i] = Above(acc, i) + P[i - i] * u
  <2>1. i \in 1 .. n + 1 /\ ~(i < i) /\ i - i + 1 = 1 /\ i - i = 0 /\ i \in Nat
        OBVIOUS
  <2>2. g[i] = Above(acc, i) + x * Above(b, 1) + C[i - 1]
        BY <1>8, <2>1
  <2>3. Above(b, 1) = Value(b) /\ Above(acc, i) \in Int
        BY <2>1, AboveIs
  <2>4. g[i] = Above(acc, i) + u + 0
        BY <1>2, <1>6, <2>2, <2>3
  <2> QED
      BY <1>4, <1>6, <2>1, <2>3, <2>4
<1>11. ASSUME NEW k \in 1 .. n
       PROVE  g[k] = r[k] + B * g[k + 1]
  <2>1. k \in Nat \ {0} /\ k + 1 \in Nat /\ k \in 1 .. n + 1 /\ k + 1 \in 1 .. n + 1
        OBVIOUS
  <2>2. Above(acc, k) = acc[k] + B * Above(acc, k + 1)
        BY <1>7, <2>1, AboveIs
  <2>3. Above(acc, k + 1) \in Int /\ acc[k] \in Int
    <3>1. Above(acc, k + 1) \in Nat /\ acc[k] \in 0 .. B - 1
          BY <1>7, <2>1, AboveIs
    <3> QED
        BY <3>1
  <2>4. CASE k < i
    <3>1. r[k] = acc[k] /\ g[k] = Above(acc, k) + P[i - k] * u
          BY <1>1, <1>8, <2>1, <2>4
    <3>2. i - (k + 1) \in Nat /\ (i - (k + 1)) + 1 = i - k
          BY <2>4
    <3>8. P[i - (k + 1)] \in Int
          BY <1>3, <3>2
    <3>9. P[(i - (k + 1)) + 1] = B * P[i - (k + 1)]
          BY <1>15, <3>2
    <3>3. P[i - k] = B * P[i - (k + 1)] /\ P[i - (k + 1)] \in Int
          BY <3>2, <3>8, <3>9
    <3>4. g[k + 1] = Above(acc, k + 1) + P[i - (k + 1)] * u
      <4>1. CASE k + 1 = i
            BY <1>10, <4>1
      <4>2. CASE k + 1 # i
        <5>1. k + 1 < i
              BY <2>4, <4>2
        <5> QED
            BY <1>8, <2>1, <5>1
      <4> QED
          BY <4>1, <4>2
    <3>5. HornerBelow(acc[k], Above(acc, k + 1), P[i - (k + 1)], u)
      <4>1. u \in Int
            BY <1>6
      <4> QED
          BY <2>3, <3>3, <4>1, HornerBelows
    <3>6. g[k] = (acc[k] + B * Above(acc, k + 1)) + (B * P[i - (k + 1)]) * u
          BY <2>2, <3>1, <3>3
    <3>7. g[k] = acc[k] + B * g[k + 1]
          BY <3>4, <3>5, <3>6 DEF HornerBelow
    <3> QED
        BY <3>1, <3>7
  <2>5. CASE ~(k < i)
    <3>1. /\ k \in i .. n /\ k - i + 1 \in Nat \ {0} /\ k - i + 1 \in Nat /\ (k - i + 1) + 1 \in Nat
          /\ (k + 1) - i + 1 = (k - i + 1) + 1
          /\ (k + 1) - 1 = k /\ ~(k + 1 < i) /\ k - 1 \in i - 1 .. n /\ k \in i - 1 .. n
          BY <2>5
    <3> DEFINE m == k - i + 1
    <3>2. Above(b, m) = Limb(b, m) + B * Above(b, m + 1) /\ Above(b, m + 1) \in Int
      <4>1. m \in Nat \ {0} /\ m + 1 \in Nat
            BY <3>1
      <4>2. Above(b, m) = Limb(b, m) + B * Above(b, m + 1)
            BY <4>1, AboveIs
      <4>3. Above(b, m + 1) \in Nat
            BY <4>1, AboveIs
      <4> QED
          BY <4>2, <4>3
    <3>3. g[k] = Above(acc, k) + x * Above(b, m) + C[k - 1]
          BY <1>8, <2>1, <2>5
    <3>4. g[k + 1] = Above(acc, k + 1) + x * Above(b, m + 1) + C[k]
      <4>1. g[k + 1] = Above(acc, k + 1) + x * Above(b, (k + 1) - i + 1) + C[(k + 1) - 1]
            BY <1>8, <2>1, <3>1
      <4> QED
          BY <3>1, <4>1
    <3>5. C[k] = (x * Limb(b, m) + acc[k] + C[k - 1]) \div B /\ r[k] = (x * Limb(b, m) + acc[k] + C[k - 1]) % B
          BY <1>1, <1>2, <3>1
    <3>6. C[k - 1] \in Int /\ C[k] \in Int /\ Limb(b, m) \in Int
      <4>1. C[k - 1] \in Nat /\ C[k] \in Nat
            BY <1>2, <3>1
      <4>2. Limb(b, m) \in 0 .. B - 1
            BY LimbIs
      <4> QED
          BY <4>1, <4>2, BaseNat
    <3> HIDE DEF m
    <3>7. x * Limb(b, m) + acc[k] + C[k - 1] \in Int
      <4>1. x * Limb(b, m) \in Int
            BY <1>5, <3>6
      <4> QED
          BY <2>3, <3>6, <4>1
    <3>8. x * Limb(b, m) + acc[k] + C[k - 1] = r[k] + B * C[k] /\ r[k] \in Int
      <4>1. /\ (x * Limb(b, m) + acc[k] + C[k - 1]) % B \in 0 .. B - 1
            /\ x * Limb(b, m) + acc[k] + C[k - 1]
                = ((x * Limb(b, m) + acc[k] + C[k - 1]) % B) + B * ((x * Limb(b, m) + acc[k] + C[k - 1]) \div B)
            BY <3>7, BaseQuotient, Zenon
      <4>2. r[k] \in 0 .. B - 1
            BY <3>5, <4>1
      <4> QED
          BY <3>5, <4>1, <4>2, BaseNat
    <3>9. HornerRow(x, Limb(b, m), acc[k], C[k - 1], r[k], Above(acc, k + 1), Above(b, m + 1), C[k])
          BY <1>5, <2>3, <3>2, <3>6, <3>8, HornerRows
    <3>10. (acc[k] + B * Above(acc, k + 1)) + x * (Limb(b, m) + B * Above(b, m + 1)) + C[k - 1]
               = r[k] + B * (Above(acc, k + 1) + x * Above(b, m + 1) + C[k])
          BY <3>8, <3>9 DEF HornerRow
    <3> QED
        BY <2>2, <3>2, <3>3, <3>4, <3>10
  <2> QED
      BY <2>4, <2>5
<1>12. g[1] = Value(acc) + P[i - 1] * u
  <2>1. 1 \in 1 .. n + 1
        OBVIOUS
  <2>2. Above(acc, 1) = Value(acc)
        BY AboveIs
  <2>3. CASE i = 1
        BY <1>10, <2>2, <2>3
  <2>4. CASE i # 1
    <3>1. 1 < i
          BY <2>4
    <3> QED
        BY <1>8, <2>1, <2>2, <3>1
  <2> QED
      BY <2>3, <2>4
<1>13. g[1] >= 0 /\ g[1] < Power(B)[n]
  <2>1. P[i - 1] \in Nat
    <3>1. i - 1 \in Nat
          OBVIOUS
    <3> QED
        BY <1>3, <3>1
  <2>2. P[i - 1] * u \in Nat
        BY <1>6, <2>1
  <2>3. g[1] < Power(B)[n]
        BY <1>6, <1>12 DEF P
  <2> QED
      BY <1>5, <1>12, <2>2, <2>3
<1>14. Value(r) = g[1]
      BY <1>1, <1>9, <1>11, <1>13, ValueTop
<1> QED
    BY <1>6, <1>12, <1>14 DEF r, P

-----------------------------------------------------------------------------
(* Multiplying.                                                            *)

\* n limbs of zero.
Blank(n) == [k \in 1 .. n |-> 0]

\* They are zero.
LEMMA BlankIs ==
    ASSUME NEW n \in Nat
    PROVE  Blank(n) \in Limbs /\ Len(Blank(n)) = n /\ Value(Blank(n)) = 0
<1>1. \A k \in 1 .. n : Blank(n)[k] \in 0 .. B - 1 /\ Blank(n)[k] = 0
      BY BaseNat DEF Blank
<1>2. Blank(n) = [k \in 1 .. n |-> Blank(n)[k]]
      BY DEF Blank
<1>3. Blank(n) \in Limbs /\ Len(Blank(n)) = n
      BY <1>1, <1>2, LimbsAre
<1> DEFINE g == [k \in 1 .. n + 1 |-> 0]
<1>4. \A k \in 1 .. n : g[k] = Blank(n)[k] + B * g[k + 1]
  <2> SUFFICES ASSUME NEW k \in 1 .. n
               PROVE  g[k] = Blank(n)[k] + B * g[k + 1]
      OBVIOUS
  <2>1. g[k] = 0 /\ g[k + 1] = 0 /\ Blank(n)[k] = 0 /\ B * 0 = 0
        BY <1>1, BaseNat
  <2> QED
      BY <2>1
<1>5. g[n + 1] = 0 /\ g[1] = 0
      OBVIOUS
<1> HIDE DEF g
<1>6. Value(Blank(n)) = g[1]
      BY <1>3, <1>4, <1>5, ValueBy
<1> QED
    BY <1>3, <1>5, <1>6

\* The rows of bn_mul.
Rows(a, b) ==
    CHOOSE rows : rows = [i \in 0 .. Len(a) |->
        IF i = 0 THEN Blank(Len(a) + Len(b)) ELSE AddRow(rows[i - 1], a[i], b, i)]

\* They satisfy their recurrence, and all have the length of the result.
LEMMA RowsAre ==
    ASSUME NEW a \in Limbs, NEW b \in Limbs, NEW m \in Nat, m = Len(a), NEW n \in Nat, n = m + Len(b), Len(b) >= 1
    PROVE  /\ Rows(a, b)[0] = Blank(n)
           /\ \A i \in 1 .. m : Rows(a, b)[i] = AddRow(Rows(a, b)[i - 1], a[i], b, i)
           /\ \A i \in 0 .. m : Rows(a, b)[i] \in Limbs /\ Len(Rows(a, b)[i]) = n
<1> DEFINE S == {l \in Limbs : Len(l) = n}
           Is(f) == f = [i \in 0 .. m |-> IF i = 0 THEN Blank(n) ELSE AddRow(f[i - 1], a[i], b, i)]
           step == [p \in (1 .. m) \X S |-> AddRow(p[2], a[p[1]], b, p[1])]
<1>1. Len(b) \in Nat /\ n >= m
      BY LimbIs
<1>2. ASSUME NEW i \in 1 .. m, NEW l \in S
      PROVE  AddRow(l, a[i], b, i) \in S
  <2>1. l \in Limbs /\ n = Len(l) /\ a[i] \in 0 .. B - 1 /\ i \in 1 .. n
        BY <1>1, LimbIs
  <2>2. AddRow(l, a[i], b, i) \in Limbs
        BY <2>1, RowLimbs
  <2>3. Len(AddRow(l, a[i], b, i)) = n
        BY <2>1, RowLimbs
  <2> QED
      BY <2>2, <2>3
<1>3. \A i \in 1 .. m, l \in S : step[<<i, l>>] = AddRow(l, a[i], b, i)
      OBVIOUS
<1>4. step \in [(1 .. m) \X S -> S]
      BY <1>2
<1>5. Blank(n) \in S
      BY BlankIs
<1> HIDE DEF step, S
<1>6. PICK f \in [0 .. m -> S] : Upward(f, 0, m, Blank(n), step)
  <2>1. 0 \in Int /\ m \in Int /\ \A i \in 0 .. m : 0 < i => i \in 1 .. m
        OBVIOUS
  <2> QED
      BY <2>1, <1>4, <1>5, ChainUp, Zenon
<1>7. Is(f)
  <2>1. f = [i \in 0 .. m |-> IF i = 0 THEN Blank(n) ELSE step[<<i, f[i - 1]>>]]
        BY <1>6 DEF Upward
  <2>2. ASSUME NEW i \in 0 .. m
        PROVE  f[i] = IF i = 0 THEN Blank(n) ELSE AddRow(f[i - 1], a[i], b, i)
    <3>1. CASE i = 0
          BY <2>1, <3>1
    <3>2. CASE i # 0
      <4>1. i \in 1 .. m /\ i - 1 \in 0 .. m
            BY <3>2
      <4>2. f[i - 1] \in S
            BY <4>1
      <4>3. f[i] = step[<<i, f[i - 1]>>]
            BY <2>1, <3>2
      <4> QED
          BY <1>3, <3>2, <4>1, <4>2, <4>3
    <3> QED
        BY <3>1, <3>2
  <2> QED
      BY <2>2
<1>8. Rows(a, b) = CHOOSE g : Is(g)
      BY DEF Rows
<1>9. Is(Rows(a, b))
  <2> HIDE DEF Is
  <2> QED
      BY <1>7, <1>8
<1> DEFINE F == Rows(a, b)
<1>10. F = [i \in 0 .. m |-> IF i = 0 THEN Blank(n) ELSE AddRow(F[i - 1], a[i], b, i)]
      BY <1>9
<1> HIDE DEF F
<1>11. F[0] = Blank(n) /\ \A i \in 1 .. m : F[i] = AddRow(F[i - 1], a[i], b, i)
      BY <1>10
<1>12. \A i \in 0 .. m : F[i] \in S
  <2>1. ASSUME NEW i \in 0 .. m, i < m, F[i] \in S
        PROVE  F[i + 1] \in S
    <3>1. i + 1 \in 1 .. m /\ (i + 1) - 1 = i
          BY <2>1
    <3>2. F[i + 1] = AddRow(F[i], a[i + 1], b, i + 1)
          BY <1>11, <3>1
    <3> QED
        BY <1>2, <2>1, <3>1, <3>2
  <2>2. 0 \in Int /\ m \in Int /\ F[0] \in S /\ 0 <= m
        BY <1>5, <1>11
  <2> QED
      BY <2>1, <2>2, HoldsUp
<1> QED
    BY <1>11, <1>12 DEF F, S

\* What the rows below have added, and what those above will.
RowSum(r, w, x, p, q, v) == (r + w * (x * v)) + (w * q * p) * v = r + (w * (x + q * p)) * v
\* RowSum, for all integers.
LEMMA RowSums == \A r, w, x, p, q, v \in Int : RowSum(r, w, x, p, q, v)
<1>1. \A r, w, x, p, q, v \in Int : (r + w * (x * v)) + (w * q * p) * v = r + (w * (x + q * p)) * v
      OBVIOUS
<1> QED
    BY <1>1 DEF RowSum

\* bn_mul: the product, in as many limbs as both operands have.
THEOREM MulExact ==
    ASSUME NEW a \in Numerals, NEW b \in Numerals
    PROVE  /\ Mul(a, b) \in Limbs /\ Len(Mul(a, b)) \in 1 .. Len(a) + Len(b)
           /\ Value(Mul(a, b)) = Value(a) * Value(b)
<1> DEFINE m == Len(a)
           n == m + Len(b)
           R == Rows(a, b)
           P == Power(B)
           v == Value(b)
           T == {i \in 0 .. m : Value(R[i]) + (P[i] * Above(a, i + 1)) * v = Value(a) * v}
<1>1. a \in Limbs /\ b \in Limbs /\ m \in Nat /\ m >= 1 /\ Len(b) \in Nat /\ Len(b) >= 1 /\ n \in Nat
      BY LimbIs DEF Numerals
<1>2. CASE IsZero(a) \/ IsZero(b)
  <2>1. Mul(a, b) = Zero
        BY <1>2 DEF Mul
  <2>2. Value(a) = 0 \/ v = 0
        BY <1>2, ZeroValue
  <2>3. Value(a) \in Nat /\ v \in Nat
        BY <1>1, ValueNat
  <2>4. Value(a) * v = 0
        BY <2>2, <2>3
  <2>5. Len(Zero) = 1 /\ Zero \in Limbs /\ Value(Zero) = 0
        BY ZeroValue DEF Numerals, Zero
  <2>6. 1 \in 1 .. m + Len(b)
        BY <1>1
  <2> QED
      BY <2>1, <2>4, <2>5, <2>6
<1>3. CASE ~(IsZero(a) \/ IsZero(b))
  <2>1. Mul(a, b) = R[m]
        BY <1>3 DEF Mul, Rows, Blank
  <2>2. R[0] = Blank(n)
        BY <1>1, RowsAre
  <2>3. \A i \in 1 .. m : R[i] = AddRow(R[i - 1], a[i], b, i)
        BY <1>1, RowsAre
  <2>20. \A i \in 0 .. m : R[i] \in Limbs
        BY <1>1, RowsAre
  <2>21. \A i \in 0 .. m : Len(R[i]) = n
    <3>1. m \in Nat /\ m = Len(a) /\ n \in Nat /\ n = m + Len(b) /\ Len(b) >= 1 /\ a \in Limbs /\ b \in Limbs
          BY <1>1
    <3> HIDE DEF m, n
    <3> QED
        BY <3>1, RowsAre
  <2> HIDE DEF R
  <2>4. \A i \in 0 .. m : R[i] \in Limbs /\ Len(R[i]) = n
    <3> HIDE DEF m, n
    <3> QED
        BY <2>20, <2>21
  <2>5. v \in Nat /\ Value(a) \in Nat /\ Value(a) < P[m] /\ v < P[Len(b)]
        BY <1>1, ValueBound
  <2>6. \A k \in Nat : P[k] \in Nat \ {0}
        BY BaseNat, PowerPos
  <2>7. \A k \in Nat : P[k + 1] = B * P[k]
        BY BaseNat, PowerPos
  <2>8. P[0] = 1
        BY BaseNat, PowerIs
  <2>9. Value(a) * v < P[n]
    <3>1. P[n] = P[m] * P[Len(b)]
          BY <1>1, BaseNat, PowerAdd
    <3>2. P[m] \in Nat \ {0} /\ P[Len(b)] \in Nat \ {0}
          BY <1>1, <2>6
    <3>3. \A x, y, z, w \in Nat : x < y /\ z < w => x * z < y * w
      <4> SUFFICES ASSUME NEW x \in Nat, NEW y \in Nat, NEW z \in Nat, NEW w \in Nat, x < y, z < w
                   PROVE  x * z < y * w
          OBVIOUS
      <4>1. x * z <= y * z
            BY ProductMono
      <4>2. y * z < y * w
            BY ProductLess
      <4>3. x * z \in Nat /\ y * z \in Nat /\ y * w \in Nat
            OBVIOUS
      <4> QED
          BY <4>1, <4>2, <4>3
    <3> HIDE DEF P, v, m, n
    <3> QED
        BY <2>5, <3>1, <3>2, <3>3
  <2> HIDE DEF P, v
  <2>10. 0 \in T
    <3>1. Value(R[0]) = 0
          BY <1>1, <2>2, BlankIs
    <3>2. Above(a, 0 + 1) = Value(a)
      <4>1. 0 + 1 = 1
            OBVIOUS
      <4> QED
          BY <1>1, <4>1, AboveIs
    <3>3. 0 + (1 * Value(a)) * v = Value(a) * v
          BY <2>5
    <3>4. 0 \in 0 .. m
          BY <1>1
    <3> QED
        BY <2>8, <3>1, <3>2, <3>3, <3>4
  <2>11. ASSUME NEW i \in 0 .. m, i < m, i \in T
         PROVE  i + 1 \in T
    <3>1. i + 1 \in 1 .. m /\ (i + 1) - 1 = i /\ i \in Nat /\ i + 1 \in Nat \ {0} /\ i + 1 \in 1 .. n /\ i + 1 \in 0 .. m /\ (i + 1) + 1 \in Nat
          BY <1>1, <2>11
    <3>2. /\ R[i] \in Limbs /\ n = Len(R[i]) /\ a[i + 1] \in 0 .. B - 1
          /\ Limb(a, i + 1) = a[i + 1]
      <4>1. R[i] \in Limbs /\ n = Len(R[i])
            BY <2>4
      <4>2. i + 1 \in 1 .. Len(a)
            BY <3>1
      <4>3. a[i + 1] \in 0 .. B - 1 /\ Limb(a, i + 1) = a[i + 1]
            BY <1>1, <4>2, LimbIs
      <4> QED
          BY <4>1, <4>3
    <3>3. Above(a, i + 1) = a[i + 1] + B * Above(a, (i + 1) + 1)
          BY <1>1, <3>1, <3>2, AboveIs
    <3>4. Above(a, (i + 1) + 1) \in Nat
          BY <1>1, <3>1, AboveIs
    <3>5. P[i] \in Nat /\ P[i + 1] = B * P[i]
      <4>1. P[i] \in Nat
            BY <2>6, <3>1
      <4>2. P[i + 1] = B * P[i]
            BY <2>7, <3>1
      <4> QED
          BY <4>1, <4>2
    <3> DEFINE x == a[i + 1]
               p == Above(a, (i + 1) + 1)
               w == P[i]
               r == Value(R[i])
    <3>6. x \in Nat /\ p \in Nat /\ w \in Nat /\ r \in Nat /\ v \in Nat /\ B \in Nat
      <4>1. r \in Nat
            BY <3>2, ValueNat
      <4>2. x \in Nat
            BY <3>2, BaseNat
      <4> QED
          BY <2>5, <3>4, <3>5, <4>1, <4>2, BaseNat
    <3>7. r + (w * (x + B * p)) * v = Value(a) * v
          BY <2>11, <3>3
    <3>8. x \in Int /\ p \in Int /\ w \in Int /\ r \in Int /\ v \in Int /\ B \in Int
      <4> HIDE DEF x, p, w, r
      <4> QED
          BY <3>6
    <3>9. RowSum(r, w, x, p, B, v)
      <4> HIDE DEF x, p, w, r
      <4> QED
          BY <3>8, RowSums
    <3>10. (r + w * (x * v)) + (w * B * p) * v = Value(a) * v
           BY <3>7, <3>9 DEF RowSum
    <3>11. r + w * (x * v) < P[n]
      <4>1. w * (x * v) \in Nat /\ (w * B * p) * v \in Nat
        <5> HIDE DEF x, p, w, r
        <5>1. x * v \in Nat /\ w * B \in Nat
              BY <3>6
        <5>2. w * (x * v) \in Nat /\ w * B * p \in Nat
              BY <3>6, <5>1
        <5> QED
            BY <3>6, <5>2
      <4>2. P[n] \in Nat
            BY <1>1, <2>6
      <4>3. \A s, t, o, z \in Nat : s + t + o = z => s + t <= z
            OBVIOUS
      <4>4. Value(a) * v \in Nat
            BY <2>5
      <4>5. \A s, t, o, z, y \in Nat : (s + t) + o = z /\ z < y => s + t < y
            OBVIOUS
      <4> HIDE DEF x, p, w, r
      <4> QED
          BY <2>9, <3>6, <3>10, <4>1, <4>2, <4>4, <4>5
    <3>12. Value(AddRow(R[i], a[i + 1], b, i + 1)) = r + w * (x * v)
      <4>1. Value(R[i]) + Power(B)[(i + 1) - 1] * (a[i + 1] * Value(b)) < Power(B)[n]
            BY <3>1, <3>11 DEF P, v
      <4>2. Value(AddRow(R[i], a[i + 1], b, i + 1)) = Value(R[i]) + Power(B)[(i + 1) - 1] * (a[i + 1] * Value(b))
            BY <1>1, <3>1, <3>2, <4>1, RowExact
      <4> QED
          BY <3>1, <4>2 DEF P, v
    <3>13. R[i + 1] = AddRow(R[i], a[i + 1], b, i + 1)
          BY <2>3, <3>1
    <3>14. (P[i + 1] * p) * v = (w * B * p) * v
      <4> HIDE DEF x, p, r
      <4>1. B * w = w * B
            BY <3>6
      <4> QED
          BY <3>5, <4>1
    <3>15. Value(R[i + 1]) + (P[i + 1] * Above(a, (i + 1) + 1)) * v = Value(a) * v
          BY <3>10, <3>12, <3>13, <3>14
    <3> QED
        BY <3>1, <3>15
  <2> HIDE DEF T
  <2>12. \A i \in 0 .. m : i \in T
    <3>1. 0 \in Int /\ m \in Int
          BY <1>1
    <3> QED
        BY <2>10, <2>11, <3>1, InductUp
  <2>13. m \in 0 .. m /\ m + 1 \in Nat /\ m + 1 > m
        BY <1>1
  <2>14. Value(R[m]) + (P[m] * Above(a, m + 1)) * v = Value(a) * v
        BY <2>12, <2>13 DEF T
  <2>15. Above(a, m + 1) = 0
        BY <1>1, <2>13, AboveIs
  <2>16. Value(R[m]) \in Nat /\ P[m] \in Nat
        BY <1>1, <2>4, <2>6, <2>13, ValueNat
  <2>17. Value(R[m]) = Value(a) * v
    <3>1. (P[m] * 0) * v = 0
          BY <2>5, <2>16
    <3> QED
        BY <2>14, <2>15, <2>16, <3>1
  <2>18. R[m] \in Limbs /\ Len(R[m]) = n
        BY <2>4, <2>13
  <2>19. n \in 1 .. n
        BY <1>1
  <2> QED
      BY <2>1, <2>17, <2>18, <2>19 DEF v
<1> QED
    BY <1>2, <1>3

-----------------------------------------------------------------------------
(* Shifting up by less than a limb.                                        *)

\* The powers of two are positive.
LEMMA TwoNat == \A k \in Nat : Two[k] \in Nat \ {0} /\ Two[k] \in Int
<1>1. \A k \in Nat : Two[k] \in Nat \ {0}
      BY BaseIs
<1> QED
    BY <1>1

\* The power of two of a sum.
LEMMA TwoAdd == ASSUME NEW i \in Nat, NEW j \in Nat PROVE Two[i + j] = Two[i] * Two[j]
BY PowerAdd DEF Two

\* A larger exponent, a larger power of two.
LEMMA TwoMono == ASSUME NEW i \in Nat, NEW j \in Nat, i <= j PROVE Two[i] <= Two[j]
BY PowerMono DEF Two

\* The powers of the base.
LEMMA BaseNext == ASSUME NEW k \in Nat PROVE Power(B)[k] \in Nat \ {0} /\ Power(B)[k] \in Int /\ Power(B)[k + 1] = B * Power(B)[k]
<1>1. Power(B)[k] \in Nat \ {0}
      BY BaseNat, PowerPos
<1>2. Power(B)[k + 1] = B * Power(B)[k]
      BY BaseNat, PowerPos
<1> QED
    BY <1>1, <1>2

\* The first of them.
LEMMA BaseFirst == Power(B)[0] = 1
BY BaseNat, PowerIs

\* The powers of the base are powers of two.
LEMMA BasePower == \A w \in Nat : Two[LimbBits * w] = Power(B)[w]
<1> DEFINE T == {w \in Nat : Two[LimbBits * w] = Power(B)[w]}
<1>1. LimbBits \in Nat
      BY BaseIs
<1>2. 0 \in T
  <2>1. LimbBits * 0 = 0
        BY <1>1
  <2>2. Two[0] = 1
        BY BaseIs
  <2> QED
      BY <2>1, <2>2, BaseFirst
<1>3. ASSUME NEW w \in Nat, w \in T
      PROVE  w + 1 \in T
  <2>1. LimbBits * (w + 1) = LimbBits + LimbBits * w /\ LimbBits * w \in Nat
        BY <1>1
  <2>2. Two[LimbBits + LimbBits * w] = Two[LimbBits] * Two[LimbBits * w]
        BY <1>1, <2>1, TwoAdd
  <2>3. Two[LimbBits] = B
        BY DEF B
  <2>4. Two[LimbBits * w] = Power(B)[w]
        BY <1>3
  <2>5. Power(B)[w + 1] = B * Power(B)[w]
        BY BaseNext
  <2>6. Two[LimbBits * (w + 1)] = Power(B)[w + 1]
        BY <2>1, <2>2, <2>3, <2>4, <2>5
  <2> QED
      BY <2>6
<1> HIDE DEF T
<1>4. \A w \in Nat : w \in T
      BY <1>2, <1>3, Induct
<1> QED
    BY <1>4 DEF T

\* The part of a number above a place.
LEMMA AboveDiv ==
    ASSUME NEW l \in Limbs
    PROVE  \A w \in Nat : Above(l, w + 1) = Value(l) \div Power(B)[w]
<1> DEFINE T == {w \in Nat : Above(l, w + 1) = Value(l) \div Power(B)[w]}
<1>1. 0 \in T
  <2>1. 0 + 1 = 1 /\ Above(l, 1) = Value(l) /\ Value(l) \in Nat
        BY AboveIs, ValueNat
  <2>2. Value(l) \div 1 = Value(l)
        BY <2>1
  <2> QED
      BY <2>1, <2>2, BaseFirst
<1>2. ASSUME NEW w \in Nat, w \in T
      PROVE  w + 1 \in T
  <2>1. w + 1 \in Nat \ {0} /\ (w + 1) + 1 \in Nat
        OBVIOUS
  <2>2. Above(l, w + 1) = Limb(l, w + 1) + B * Above(l, (w + 1) + 1)
        BY <2>1, AboveIs
  <2>3. Above(l, w + 1) \in Int /\ Above(l, (w + 1) + 1) \in Int /\ Limb(l, w + 1) \in 0 .. B - 1
    <3>1. Above(l, w + 1) \in Nat
          BY <2>1, AboveIs
    <3>2. Above(l, (w + 1) + 1) \in Nat
          BY <2>1, AboveIs
    <3>3. Limb(l, w + 1) \in 0 .. B - 1
          BY LimbIs
    <3> QED
        BY <3>1, <3>2, <3>3
  <2>4. Above(l, w + 1) \div B = Above(l, (w + 1) + 1)
    <3> DEFINE a == Above(l, w + 1)
               q == Above(l, (w + 1) + 1)
               r == Limb(l, w + 1)
    <3>1. a \in Int /\ q \in Int /\ r \in 0 .. B - 1 /\ a = r + B * q /\ B \in Nat \ {0}
          BY <2>2, <2>3, BaseNat
    <3> HIDE DEF a, q, r
    <3>2. r + B * q = B * q + r
          BY <3>1
    <3>3. a \div B = q
          BY <3>1, <3>2, QuotientIs
    <3> QED
        BY <3>3 DEF a, q
  <2>5. Above(l, w + 1) = Value(l) \div Power(B)[w]
        BY <1>2
  <2>6. Power(B)[w] \in Nat \ {0} /\ Power(B)[w + 1] = B * Power(B)[w] /\ Value(l) \in Nat /\ B \in Nat \ {0}
        BY BaseNext, ValueNat, BaseNat
  <2>7. (Value(l) \div Power(B)[w]) \div B = Value(l) \div (Power(B)[w] * B)
        BY <2>6, QuotientTwice
  <2>8. Power(B)[w] * B = Power(B)[w + 1]
        BY <2>6
  <2> QED
      BY <2>1, <2>4, <2>5, <2>7, <2>8
<1> HIDE DEF T
<1>3. \A w \in Nat : w \in T
      BY <1>1, <1>2, Induct
<1> QED
    BY <1>3 DEF T

\* What a limb gives when it is cut at s bits from below or above.
Cut(x, s) ==
    /\ (x * Two[s]) % B \in 0 .. B - Two[s]
    /\ x \div Two[LimbBits - s] \in 0 .. Two[s] - 1
    /\ Two[s] * x = ((x * Two[s]) % B) + B * (x \div Two[LimbBits - s])
    /\ x \div Two[s] \in 0 .. Two[LimbBits - s] - 1
    /\ (x * Two[LimbBits - s]) % B \in 0 .. B - Two[LimbBits - s]
    /\ (x * Two[LimbBits - s]) % B = Two[LimbBits - s] * (x % Two[s])

\* The parts of a number cut by d, moved up by m.
CutParts(m, d, q, r) ==
    /\ ((d * q + r) * m) % B = m * r
    /\ m * r \in 0 .. B - m /\ q \in 0 .. m - 1
    /\ m * (d * q + r) = m * r + B * q

\* A number cut by d and moved up by m, with m * d the base.
LEMMA CutWith ==
    ASSUME NEW m \in Nat \ {0}, NEW d \in Nat \ {0}, m * d = B,
           NEW q \in Nat, NEW r \in 0 .. d - 1, d * q + r < B
    PROVE  CutParts(m, d, q, r)
<1>1. (d * q + r) * m = (m * d) * q + m * r /\ m * (d * q + r) = m * r + (m * d) * q
      OBVIOUS
<1>2. m * r \in 0 .. B - m
  <2>1. m * r <= m * (d - 1)
        OBVIOUS
  <2>2. m * (d - 1) = m * d - m /\ m * r >= 0 /\ m * r \in Int
        OBVIOUS
  <2>3. B \in Nat
        BY BaseNat
  <2> QED
      BY <2>1, <2>2, <2>3
<1>3. q <= m - 1
  <2>1. d * q < d * m
    <3>1. d * q <= d * q + r /\ m * d = d * m
          OBVIOUS
    <3> QED
        BY <3>1, BaseNat
  <2> QED
      BY <2>1
<1>4. ((d * q + r) * m) % B = m * r
  <2> DEFINE y == (d * q + r) * m
             z == m * r
  <2>1. y = B * q + z /\ y \in Int
        BY <1>1
  <2>2. z \in 0 .. B - 1
        BY <1>2, BaseNat
  <2> HIDE DEF y, z
  <2>3. y % B = z
        BY <2>1, <2>2, BaseNat, QuotientIs
  <2> QED
      BY <2>3 DEF y, z
<1>5. q \in 0 .. m - 1
      BY <1>3
<1>6. m * (d * q + r) = m * r + B * q
      BY <1>1
<1> QED
    BY <1>2, <1>4, <1>5, <1>6 DEF CutParts

\* What of a moved limb stays in it and what leaves it.
LEMMA CutHalf ==
    ASSUME NEW x \in 0 .. B - 1, NEW m \in Nat \ {0}, NEW d \in Nat \ {0}, m * d = B
    PROVE  /\ (x * m) % B = m * (x % d) /\ (x * m) % B \in 0 .. B - m
           /\ x \div d \in 0 .. m - 1
           /\ m * x = ((x * m) % B) + B * (x \div d)
<1>1. x \in Nat /\ x < B
      BY BaseNat
<1>2. x \div d \in Nat
      BY <1>1, QuotientNat
<1>3. x % d \in 0 .. d - 1 /\ x = d * (x \div d) + (x % d)
      BY <1>1, Quotient
<1>4. PICK q \in Nat : q = x \div d
      BY <1>2
<1>5. PICK r \in 0 .. d - 1 : r = x % d
      BY <1>3
<1>6. x = d * q + r
      BY <1>3, <1>4, <1>5
<1>7. d * q + r < B
      BY <1>1, <1>6, Zenon
<1>10. CutParts(m, d, q, r)
      BY <1>7, CutWith
<1>8. /\ ((d * q + r) * m) % B = m * r
      /\ m * r \in 0 .. B - m /\ q \in 0 .. m - 1
      /\ m * (d * q + r) = m * r + B * q
      BY <1>10 DEF CutParts
<1>9. /\ (x * m) % B = m * r
      /\ m * r \in 0 .. B - m /\ q \in 0 .. m - 1
      /\ m * x = m * r + B * q
      BY <1>6, <1>8, Zenon
<1> QED
    BY <1>4, <1>5, <1>9, Zenon

\* A limb cut at s bits.
LEMMA CutIs ==
    ASSUME NEW x \in 0 .. B - 1, NEW s \in 0 .. LimbBits
    PROVE  Cut(x, s)
<1> DEFINE m == Two[s]
           d == Two[LimbBits - s]
<1>1. s \in Nat /\ LimbBits - s \in Nat /\ s + (LimbBits - s) = LimbBits
      BY BaseIs
<1>2. m \in Nat \ {0} /\ d \in Nat \ {0}
      BY <1>1, TwoNat
<1>3. m * d = B
  <2>1. Two[s + (LimbBits - s)] = m * d
        BY <1>1, TwoAdd
  <2> QED
      BY <1>1, <2>1 DEF B
<1>4. d * m = B
      BY <1>2, <1>3
<1> HIDE DEF m, d
<1>5. /\ (x * m) % B = m * (x % d) /\ (x * m) % B \in 0 .. B - m
      /\ x \div d \in 0 .. m - 1
      /\ m * x = ((x * m) % B) + B * (x \div d)
      BY <1>2, <1>3, CutHalf
<1>6. /\ (x * d) % B = d * (x % m) /\ (x * d) % B \in 0 .. B - d
      /\ x \div m \in 0 .. d - 1
      BY <1>2, <1>4, CutHalf
<1> QED
    BY <1>5, <1>6 DEF Cut, m, d

\* A moved limb and what came from below make a limb and what leaves it.
HornerUp(m, x, p, c, r, q) == m * x = r + B * q => m * (x + B * p) + c = (r + c) + B * (m * p + q)
\* HornerUp, for all integers.
LEMMA HornerUps == \A m, x, p, c, r, q \in Int : HornerUp(m, x, p, c, r, q)
<1>1. \A b, m, x, p, c, r, q \in Int : m * x = r + b * q => m * (x + b * p) + c = (r + c) + b * (m * p + q)
      OBVIOUS
<1> QED
    BY <1>1, BaseNat DEF HornerUp

\* Moving up multiplies by a power of two, if the result fits.
LEMMA UpExact ==
    ASSUME NEW l \in Limbs, NEW s \in 0 .. LimbBits - 1, NEW n \in Nat
    PROVE  /\ Up(l, s, n) \in Limbs /\ Len(Up(l, s, n)) = n
           /\ Two[s] * Value(l) < Power(B)[n] => Value(Up(l, s, n)) = Two[s] * Value(l)
<1> DEFINE r == Up(l, s, n)
           m == Two[s]
           d == Two[LimbBits - s]
           g == [i \in 1 .. n + 1 |-> m * Above(l, i) + (Limb(l, i - 1) \div d)]
<1>1. s \in 0 .. LimbBits /\ s \in Nat /\ LimbBits - s \in Nat
      BY BaseIs
<1>2. m \in Nat \ {0} /\ m \in Int /\ d \in Nat \ {0}
      BY <1>1, TwoNat
<1>3. r = [i \in 1 .. n |-> ((Limb(l, i) * m) % B) + (Limb(l, i - 1) \div d)]
      BY DEF Up
<1>4. ASSUME NEW i \in Int
      PROVE  /\ (Limb(l, i) * m) % B \in 0 .. B - m
             /\ Limb(l, i) \div d \in 0 .. m - 1
             /\ m * Limb(l, i) = ((Limb(l, i) * m) % B) + B * (Limb(l, i) \div d)
  <2>1. Limb(l, i) \in 0 .. B - 1
        BY LimbIs
  <2>2. Cut(Limb(l, i), s)
        BY <1>1, <2>1, CutIs
  <2> QED
      BY <2>2 DEF Cut
<1> HIDE DEF r, m, d
<1>5. ASSUME NEW i \in 1 .. n
      PROVE  r[i] \in 0 .. B - 1
  <2>1. (Limb(l, i) * m) % B \in 0 .. B - m
        BY <1>4
  <2>2. Limb(l, i - 1) \div d \in 0 .. m - 1
        BY <1>4
  <2>3. r[i] = ((Limb(l, i) * m) % B) + (Limb(l, i - 1) \div d)
        BY <1>3
  <2> QED
      BY <1>2, <2>1, <2>2, <2>3, BaseNat
<1>6. r \in Limbs /\ Len(r) = n
  <2>1. r = [i \in 1 .. n |-> r[i]]
        BY <1>3
  <2> QED
      BY <1>5, <2>1, LimbsAre
<1>7. \A i \in 1 .. n + 1 : g[i] = m * Above(l, i) + (Limb(l, i - 1) \div d)
      OBVIOUS
<1> HIDE DEF g
<1>8. ASSUME NEW i \in 1 .. n
      PROVE  g[i] = r[i] + B * g[i + 1]
  <2>1. i \in Nat \ {0} /\ i + 1 \in Nat /\ i \in 1 .. n + 1 /\ i + 1 \in 1 .. n + 1 /\ (i + 1) - 1 = i
        OBVIOUS
  <2> DEFINE x == Limb(l, i)
             p == Above(l, i + 1)
             c == Limb(l, i - 1) \div d
             y == (x * m) % B
             q == x \div d
  <2>2. Above(l, i) = x + B * p
        BY <2>1, AboveIs
  <2>3. x \in Int /\ p \in Int
    <3>1. x \in 0 .. B - 1 /\ p \in Nat
          BY <2>1, LimbIs, AboveIs
    <3> QED
        BY <3>1
  <2>4. c \in Int /\ y \in Int /\ q \in Int
    <3>1. c \in 0 .. m - 1
          BY <1>4
    <3>2. y \in 0 .. B - m
          BY <1>4
    <3>3. q \in 0 .. m - 1
          BY <1>4
    <3> HIDE DEF c, y, q
    <3> QED
        BY <3>1, <3>2, <3>3, <1>2
  <2>5. m * x = y + B * q
        BY <1>4
  <2>6. r[i] = y + c
        BY <1>3
  <2>7. g[i] = m * Above(l, i) + c /\ g[i + 1] = m * p + q
        BY <1>7, <2>1
  <2> HIDE DEF x, p, c, y, q
  <2>8. HornerUp(m, x, p, c, y, q)
        BY <1>2, <2>3, <2>4, HornerUps
  <2> QED
      BY <2>2, <2>5, <2>6, <2>7, <2>8 DEF HornerUp
<1>9. ASSUME NEW i \in 1 .. n + 1
      PROVE  g[i] \in Int
  <2>1. Above(l, i) \in Nat
    <3>1. i \in Nat
          OBVIOUS
    <3> QED
        BY <3>1, AboveIs
  <2>2. Limb(l, i - 1) \div d \in 0 .. m - 1
        BY <1>4
  <2>3. m * Above(l, i) \in Int
        BY <1>2, <2>1
  <2> QED
      BY <1>7, <2>2, <2>3
<1>10. g[1] = m * Value(l)
  <2>1. 1 \in 1 .. n + 1 /\ 1 - 1 = 0 /\ 0 \notin 1 .. Len(l)
        OBVIOUS
  <2>2. Limb(l, 0) = 0
    <3>1. DOMAIN l = 1 .. Len(l)
          BY DEF Limbs
    <3> QED
        BY <2>1, <3>1 DEF Limb
  <2>3. 0 \div d = 0
        BY <1>2
  <2>4. Above(l, 1) = Value(l) /\ Value(l) \in Nat
        BY AboveIs, ValueNat
  <2>5. g[1] = m * Value(l) + 0
        BY <1>7, <2>1, <2>2, <2>3, <2>4
  <2>6. m * Value(l) \in Int
        BY <1>2, <2>4
  <2> QED
      BY <2>5, <2>6
<1>11. ASSUME m * Value(l) < Power(B)[n]
       PROVE  Value(r) = m * Value(l)
  <2>1. m * Value(l) >= 0
        BY <1>2, ValueNat
  <2>2. n = Len(r) /\ g[1] >= 0 /\ g[1] < Power(B)[n]
        BY <1>6, <1>10, <1>11, <2>1
  <2>3. Value(r) = g[1]
        BY <1>6, <1>8, <1>9, <2>2, ValueTop
  <2> QED
      BY <1>10, <2>3
<1> QED
    BY <1>6, <1>11 DEF r, m

-----------------------------------------------------------------------------
(* Shifting down by less than a limb, and by whole limbs.                  *)

\* A number divided by m, when the base is m * d: the limb and what the limb
\* above brings down.
DownParts(m, d, x, a, p) ==
    a = x + B * p =>
        /\ a \div m = (x \div m) + d * p
        /\ d * p = B * (p \div m) + d * (p % m)

\* A sum and what of it stays in a limb.
DownSplit(m, d, y, z, u, v) ==
    /\ ((m * y + z) + B * (m * u + v)) \div m = y + d * (m * u + v)
    /\ d * (m * u + v) = B * u + d * v

\* DownSplit, of parts of the base.
LEMMA DownWith ==
    ASSUME NEW m \in Nat \ {0}, NEW d \in Nat \ {0}, m * d = B,
           NEW y \in Int, NEW z \in 0 .. m - 1, NEW u \in Int, NEW v \in Int
    PROVE  DownSplit(m, d, y, z, u, v)
<1>1. (m * y + z) + (m * d) * (m * u + v) = m * (y + d * (m * u + v)) + z
      OBVIOUS
<1>2. y + d * (m * u + v) \in Int /\ m * (y + d * (m * u + v)) + z \in Int
      OBVIOUS
<1>3. (m * (y + d * (m * u + v)) + z) \div m = y + d * (m * u + v)
  <2> DEFINE q == y + d * (m * u + v)
             a == m * q + z
  <2>1. q \in Int /\ a \in Int /\ a = m * q + z
        BY <1>2
  <2> HIDE DEF q, a
  <2>2. a \div m = q
        BY <2>1, QuotientIs
  <2> QED
      BY <2>2 DEF a, q
<1>4. d * (m * u + v) = (m * d) * u + d * v
      OBVIOUS
<1> QED
    BY <1>1, <1>3, <1>4, Zenon DEF DownSplit

\* The division of x + B * a by a part of the base.
LEMMA DownPartsAre ==
    ASSUME NEW m \in Nat \ {0}, NEW d \in Nat \ {0}, m * d = B, NEW x \in Nat, NEW a \in Nat, NEW p \in Nat
    PROVE  DownParts(m, d, x, a, p)
<1> DEFINE y == x \div m
           z == x % m
           u == p \div m
           v == p % m
<1>1. y \in Int /\ z \in 0 .. m - 1 /\ m * y + z = x
      BY Quotient
<1>2. u \in Int /\ v \in 0 .. m - 1 /\ m * u + v = p
      BY Quotient
<1>3. v \in Int
      BY <1>2
<1> HIDE DEF y, z, u, v
<1>6. y \in Int /\ z \in 0 .. m - 1
      BY <1>1
<1>7. u \in Int
      BY <1>2
<1>4. DownSplit(m, d, y, z, u, v)
      BY <1>6, <1>7, <1>3, DownWith
<1>5. (x + B * p) \div m = y + d * p /\ d * p = B * u + d * v
      BY <1>1, <1>2, <1>4, Zenon DEF DownSplit
<1> QED
    BY <1>5, Zenon DEF DownParts, y, u, v

\* The remainder of a number by a part of the base is that of its lowest limb.
LEMMA LowBits ==
    ASSUME NEW m \in Nat \ {0}, NEW d \in Nat \ {0}, m * d = B, NEW l \in Limbs, NEW i \in Nat \ {0}
    PROVE  Above(l, i) % m = Limb(l, i) % m
<1>1. Above(l, i) = Limb(l, i) + B * Above(l, i + 1)
      BY AboveIs
<1>2. PICK x \in Nat : x = Limb(l, i)
  <2>1. Limb(l, i) \in 0 .. B - 1
        BY LimbIs
  <2> QED
      BY <2>1, BaseNat
<1>3. PICK p \in Nat : p = Above(l, i + 1)
  <2>1. i + 1 \in Nat
        OBVIOUS
  <2> QED
      BY <2>1, AboveIs
<1>4. PICK a \in Nat : a = Above(l, i)
      BY AboveIs
<1>5. a = x + B * p
      BY <1>1, <1>2, <1>3, <1>4
<1>6. /\ x \div m \in Int /\ x % m \in 0 .. m - 1 /\ x = m * (x \div m) + (x % m)
      BY Quotient
<1>7. PICK y \in Int : y = x \div m
      BY <1>6
<1>8. PICK z \in 0 .. m - 1 : z = x % m
      BY <1>6
<1>9. x = m * y + z
      BY <1>6, <1>7, <1>8
<1>10. a = m * (y + d * p) + z
  <2>1. a = (m * y + z) + (m * d) * p
        BY <1>5, <1>9
  <2> QED
      BY <2>1
<1>11. a % m = z
  <2>1. y + d * p \in Int /\ a \in Int
        OBVIOUS
  <2> QED
      BY <1>10, <2>1, QuotientIs
<1> QED
    BY <1>2, <1>4, <1>8, <1>11

HornerDown(x, y, q, r) == x + (B * q + r) = (x + r) + B * q
\* HornerDown, for all integers.
LEMMA HornerDowns == \A x, y, q, r \in Int : HornerDown(x, y, q, r)
<1>1. \A b, x, y, q, r \in Int : x + (b * q + r) = (x + r) + b * q
      OBVIOUS
<1> QED
    BY <1>1, BaseNat DEF HornerDown

\* Moving down divides by a power of two.
LEMMA DownExact ==
    ASSUME NEW l \in Limbs, NEW s \in 0 .. LimbBits, NEW n \in Nat, n = Len(l)
    PROVE  /\ Down(l, s, n) \in Limbs /\ Len(Down(l, s, n)) = n
           /\ Value(Down(l, s, n)) = Value(l) \div Two[s]
<1> DEFINE r == Down(l, s, n)
           m == Two[s]
           d == Two[LimbBits - s]
           g == [i \in 1 .. n + 1 |-> Above(l, i) \div m]
<1>1. s \in Nat /\ LimbBits - s \in Nat /\ s + (LimbBits - s) = LimbBits
      BY BaseIs
<1>2. m \in Nat \ {0} /\ m \in Int /\ d \in Nat \ {0} /\ d \in Int
      BY <1>1, TwoNat
<1>3. m * d = B
  <2>1. Two[s + (LimbBits - s)] = m * d
        BY <1>1, TwoAdd
  <2> QED
      BY <1>1, <2>1 DEF B
<1>4. r = [i \in 1 .. n |-> (Limb(l, i) \div m) + ((Limb(l, i + 1) * d) % B)]
      BY DEF Down
<1>5. ASSUME NEW i \in Int
      PROVE  /\ Limb(l, i) \div m \in 0 .. d - 1
             /\ (Limb(l, i) * d) % B \in 0 .. B - d
             /\ (Limb(l, i) * d) % B = d * (Limb(l, i) % m)
  <2>1. Limb(l, i) \in 0 .. B - 1
        BY LimbIs
  <2>2. Cut(Limb(l, i), s)
        BY <2>1, CutIs
  <2> QED
      BY <2>2 DEF Cut
<1> HIDE DEF r, m, d
<1>6. ASSUME NEW i \in 1 .. n
      PROVE  r[i] \in 0 .. B - 1
  <2>5. i \in Int /\ i + 1 \in Int
        OBVIOUS
  <2>1. (Limb(l, i + 1) * d) % B \in 0 .. B - d
        BY <1>5, <2>5, Zenon
  <2>2. Limb(l, i) \div m \in 0 .. d - 1
        BY <1>5, <2>5, Zenon
  <2>3. r[i] = (Limb(l, i) \div m) + ((Limb(l, i + 1) * d) % B)
        BY <1>4
  <2>4. \A y \in 0 .. d - 1 : \A z \in 0 .. B - d : y + z \in 0 .. B - 1
    <3>1. B \in Nat
          BY BaseNat
    <3> QED
        BY <1>2, <3>1
  <2> QED
      BY <2>1, <2>2, <2>3, <2>4
<1>7. r \in Limbs /\ Len(r) = n
  <2>1. r = [i \in 1 .. n |-> r[i]]
        BY <1>4
  <2> QED
      BY <1>6, <2>1, LimbsAre
<1>8. \A i \in 1 .. n + 1 : g[i] = Above(l, i) \div m
      OBVIOUS
<1> HIDE DEF g
<1>9. ASSUME NEW i \in 1 .. n
      PROVE  g[i] = r[i] + B * g[i + 1]
  <2>1. i \in Nat \ {0} /\ i + 1 \in Nat \ {0} /\ i \in 1 .. n + 1 /\ i + 1 \in 1 .. n + 1
        OBVIOUS
  <2> DEFINE x == Limb(l, i)
             a == Above(l, i)
             p == Above(l, i + 1)
             y == (Limb(l, i + 1) * d) % B
  <2>2. a = x + B * p
        BY <2>1, AboveIs
  <2>3. x \in Nat /\ a \in Nat /\ p \in Nat
    <3>1. x \in 0 .. B - 1
          BY LimbIs
    <3>2. a \in Nat /\ p \in Nat
          BY <2>1, AboveIs
    <3> QED
        BY <3>1, <3>2, BaseNat
  <2>4. y = d * (p % m)
    <3>1. p % m = Limb(l, i + 1) % m
          BY <1>2, <1>3, <2>1, LowBits
    <3>2. y = d * (Limb(l, i + 1) % m)
          BY <1>5
    <3> QED
        BY <3>1, <3>2
  <2>5. r[i] = (x \div m) + y
        BY <1>4
  <2>6. g[i] = a \div m /\ g[i + 1] = p \div m
        BY <1>8, <2>1
  <2> HIDE DEF x, a, p, y
  <2>7. DownParts(m, d, x, a, p)
        BY <1>2, <1>3, <2>3, DownPartsAre
  <2>8. a \div m = (x \div m) + (B * (p \div m) + y)
        BY <2>2, <2>4, <2>7 DEF DownParts
  <2>9. x \div m \in Int /\ p \div m \in Int
        BY <1>2, <2>3
  <2>11. y \in Int
    <3>1. p % m \in Int
          BY <1>2, <2>3
    <3> QED
        BY <1>2, <2>4, <3>1
  <2>10. HornerDown(x \div m, 0, p \div m, y)
        BY <2>9, <2>11, HornerDowns
  <2> QED
      BY <2>5, <2>6, <2>8, <2>10 DEF HornerDown
<1>10. g[n + 1] = 0
  <2>1. n + 1 \in 1 .. n + 1 /\ n + 1 \in Nat /\ n + 1 > Len(l)
        OBVIOUS
  <2>2. Above(l, n + 1) = 0
        BY <2>1, AboveIs
  <2>3. 0 \div m = 0
        BY <1>2
  <2> QED
      BY <1>8, <2>1, <2>2, <2>3
<1>11. g[1] = Value(l) \div m
  <2>1. 1 \in 1 .. n + 1
        OBVIOUS
  <2> QED
      BY <1>8, <2>1, AboveIs
<1>12. Value(r) = g[1]
      BY <1>7, <1>9, <1>10, ValueBy
<1> QED
    BY <1>7, <1>11, <1>12 DEF r, m

\* The limbs above a place are a number of their own.
LEMMA TailExact ==
    ASSUME NEW l \in Limbs, NEW w \in Nat, w < Len(l)
    PROVE  /\ SubSeq(l, w + 1, Len(l)) \in Limbs /\ Len(SubSeq(l, w + 1, Len(l))) = Len(l) - w
           /\ Value(SubSeq(l, w + 1, Len(l))) = Value(l) \div Power(B)[w]
<1> DEFINE t == SubSeq(l, w + 1, Len(l))
           n == Len(l) - w
           g == [i \in 1 .. n + 1 |-> Above(l, w + i)]
<1>1. l \in Seq(0 .. Ones) /\ Len(l) \in Nat
      BY LimbIs DEF Limbs
<1>2. n \in Nat /\ w + 1 \in 1 .. Len(l) /\ Len(l) \in 1 .. Len(l)
      BY <1>1
<1>3. t \in Seq(0 .. Ones) /\ Len(t) = n /\ \A i \in 1 .. n : t[i] = l[w + i]
  <2>1. \A S : \A q \in Seq(S) : \A k \in Nat : k < Len(q) =>
            /\ SubSeq(q, k + 1, Len(q)) \in Seq(S) /\ Len(SubSeq(q, k + 1, Len(q))) = Len(q) - k
            /\ \A i \in 1 .. Len(q) - k : SubSeq(q, k + 1, Len(q))[i] = q[k + i]
        OBVIOUS
  <2> QED
      BY <1>1, <2>1
<1>4. t \in Limbs
      BY <1>3 DEF Limbs
<1> HIDE DEF t, n
<1>5. ASSUME NEW i \in 1 .. n
      PROVE  g[i] = t[i] + B * g[i + 1]
  <2>1. w + i \in Nat \ {0} /\ w + (i + 1) = (w + i) + 1 /\ i \in 1 .. n + 1 /\ i + 1 \in 1 .. n + 1 /\ w + i \in 1 .. Len(l)
        BY <1>1, <1>2 DEF n
  <2>2. Above(l, w + i) = Limb(l, w + i) + B * Above(l, (w + i) + 1)
        BY <2>1, AboveIs
  <2>3. Limb(l, w + i) = l[w + i]
        BY <2>1, LimbIs
  <2>4. g[i] = Above(l, w + i) /\ g[i + 1] = Above(l, w + (i + 1))
        BY <2>1
  <2> HIDE DEF g
  <2> QED
      BY <1>3, <2>1, <2>2, <2>3, <2>4
<1>6. g[n + 1] = 0
  <2>1. n + 1 \in 1 .. n + 1 /\ w + (n + 1) \in Nat /\ w + (n + 1) > Len(l)
        BY <1>1, <1>2 DEF n
  <2>2. Above(l, w + (n + 1)) = 0
        BY <2>1, AboveIs
  <2> QED
      BY <2>1, <2>2
<1>7. g[1] = Value(l) \div Power(B)[w]
  <2>1. 1 \in 1 .. n + 1
        BY <1>2
  <2> QED
      BY <2>1, AboveDiv
<1> HIDE DEF g
<1>8. Value(t) = g[1]
      BY <1>3, <1>4, <1>5, <1>6, ValueBy
<1> QED
    BY <1>3, <1>4, <1>7, <1>8 DEF t, n

-----------------------------------------------------------------------------
(* Shifts by any number of bits.                                           *)

\* A shift is by whole limbs and by less than a limb.
LEMMA ShiftParts ==
    ASSUME NEW k \in Nat
    PROVE  /\ k \div LimbBits \in Nat /\ k % LimbBits \in 0 .. LimbBits - 1
           /\ Two[k] = Power(B)[k \div LimbBits] * Two[k % LimbBits]
<1> DEFINE w == k \div LimbBits
           s == k % LimbBits
<1>1. LimbBits \in Nat \ {0}
      BY BaseIs
<1>2. w \in Nat /\ s \in 0 .. LimbBits - 1 /\ k = LimbBits * w + s
  <2>1. s \in 0 .. LimbBits - 1 /\ k = LimbBits * w + s
        BY <1>1, Quotient
  <2>2. w \in Nat
        BY <1>1, QuotientNat
  <2> QED
      BY <2>1, <2>2
<1> HIDE DEF w, s
<1>3. LimbBits * w \in Nat /\ s \in Nat
      BY <1>1, <1>2
<1>4. Two[LimbBits * w + s] = Two[LimbBits * w] * Two[s]
      BY <1>3, TwoAdd
<1>5. Two[LimbBits * w] = Power(B)[w]
      BY <1>2, BasePower
<1>6. Two[k] = Power(B)[w] * Two[s]
      BY <1>2, <1>4, <1>5
<1> QED
    BY <1>2, <1>6 DEF w, s

\* A limb is a numeral.
LEMMA OneLimb ==
    ASSUME NEW x \in 0 .. B - 1
    PROVE  <<x>> \in Numerals /\ <<x>> \in Limbs /\ Len(<<x>>) = 1 /\ Value(<<x>>) = x
<1> DEFINE l == <<x>>
           g == [i \in 1 .. 2 |-> IF i = 1 THEN x ELSE 0]
<1>1. l \in Limbs /\ Len(l) = 1 /\ l[1] = x
      BY BaseNat DEF Limbs
<1>2. x \in Int
      BY BaseNat
<1>3. g[1] = x /\ g[2] = 0
      OBVIOUS
<1> HIDE DEF g, l
<1>4. \A i \in 1 .. 1 : g[i] = l[i] + B * g[i + 1]
  <2>1. g[1] = l[1] + B * g[2]
        BY <1>1, <1>2, <1>3, BaseNat
  <2>2. \A i \in 1 .. 1 : i = 1 /\ i + 1 = 2
        OBVIOUS
  <2> QED
      BY <2>1, <2>2
<1>5. g[1 + 1] = 0 /\ 1 + 1 = 2
      BY <1>3
<1>6. Value(l) = g[1]
      BY <1>1, <1>4, <1>5, ValueBy
<1> QED
    BY <1>1, <1>3, <1>6 DEF l, Numerals

\* Limbs put on top of w zeros.
LEMMA RaisedExact ==
    ASSUME NEW u \in Limbs, NEW w \in Nat
    PROVE  /\ Blank(w) \o u \in Limbs /\ Len(Blank(w) \o u) = w + Len(u)
           /\ Value(Blank(w) \o u) = Power(B)[w] * Value(u)
<1> DEFINE t == Blank(w) \o u
           n == Len(u)
           v == Value(u)
           g == [i \in 1 .. (w + n) + 1 |-> IF i <= w + 1 THEN Power(B)[w + 1 - i] * v ELSE Above(u, i - w)]
<1>1. u \in Seq(0 .. Ones) /\ Blank(w) \in Seq(0 .. Ones) /\ Len(Blank(w)) = w /\ n \in Nat
      BY BlankIs, LimbIs DEF Limbs
<1>2. t \in Seq(0 .. Ones) /\ Len(t) = w + n
      BY <1>1
<1>3. ASSUME NEW i \in 1 .. w
      PROVE  t[i] = 0
  <2>1. t[i] = Blank(w)[i]
        BY <1>1
  <2> QED
      BY <2>1 DEF Blank
<1>4. ASSUME NEW i \in 1 .. n
      PROVE  t[w + i] = u[i]
      BY <1>1
<1>5. v \in Nat /\ v = Above(u, 1)
      BY ValueNat, AboveIs
<1>6. t \in Limbs
      BY <1>2 DEF Limbs
<1> HIDE DEF t, n, v
<1>7. ASSUME NEW i \in 1 .. w
      PROVE  g[i] = t[i] + B * g[i + 1]
  <2>1. i \in 1 .. (w + n) + 1 /\ i + 1 \in 1 .. (w + n) + 1 /\ i <= w + 1 /\ i + 1 <= w + 1
        BY <1>1
  <2>2. g[i] = Power(B)[w + 1 - i] * v /\ g[i + 1] = Power(B)[w + 1 - (i + 1)] * v
        BY <2>1
  <2> HIDE DEF g
  <2>3. w + 1 - (i + 1) \in Nat /\ w + 1 - i = (w + 1 - (i + 1)) + 1
        OBVIOUS
  <2> DEFINE p == Power(B)[w + 1 - (i + 1)]
  <2>4. Power(B)[w + 1 - i] = B * p /\ p \in Nat
    <3>1. p \in Nat \ {0}
          BY <2>3, BaseNext
    <3>2. Power(B)[(w + 1 - (i + 1)) + 1] = B * p
          BY <2>3, BaseNext
    <3> QED
        BY <2>3, <3>1, <3>2
  <2> HIDE DEF p
  <2>5. (B * p) * v = 0 + B * (p * v)
        BY <1>5, <2>4, BaseNat
  <2> QED
      BY <1>3, <2>2, <2>4, <2>5 DEF p
<1>8. ASSUME NEW i \in w + 1 .. (w + n) + 1
      PROVE  g[i] = Above(u, i - w)
  <2>1. CASE i = w + 1
    <3>1. i \in 1 .. (w + n) + 1 /\ w + 1 - i = 0 /\ i - w = 1
          BY <1>1, <2>1
    <3>2. g[i] = Power(B)[0] * v
          BY <2>1, <3>1
    <3>3. Power(B)[0] * v = v
          BY <1>5, BaseFirst
    <3> QED
        BY <1>5, <3>1, <3>2, <3>3
  <2>2. CASE i > w + 1
    <3>1. i \in 1 .. (w + n) + 1 /\ ~(i <= w + 1)
          BY <1>1, <2>2
    <3> QED
        BY <3>1
  <2> QED
      BY <2>1, <2>2
<1>9. ASSUME NEW i \in w + 1 .. w + n
      PROVE  g[i] = t[i] + B * g[i + 1]
  <2>1. i \in w + 1 .. (w + n) + 1 /\ i + 1 \in w + 1 .. (w + n) + 1 /\ i - w \in Nat \ {0} /\ i - w \in 1 .. n
        /\ (i + 1) - w = (i - w) + 1 /\ w + (i - w) = i
        BY <1>1
  <2>2. g[i] = Above(u, i - w) /\ g[i + 1] = Above(u, (i - w) + 1)
        BY <1>8, <2>1
  <2>3. t[i] = u[i - w]
        BY <1>4, <2>1
  <2>4. Limb(u, i - w) = u[i - w]
        BY <2>1, LimbIs DEF n
  <2>5. Above(u, i - w) = Limb(u, i - w) + B * Above(u, (i - w) + 1)
        BY <2>1, AboveIs
  <2> HIDE DEF g
  <2> QED
      BY <2>2, <2>3, <2>4, <2>5
<1>10. g[(w + n) + 1] = 0
  <2>1. (w + n) + 1 \in w + 1 .. (w + n) + 1 /\ ((w + n) + 1) - w = n + 1 /\ n + 1 \in Nat /\ n + 1 > Len(u)
        BY <1>1 DEF n
  <2> HIDE DEF g
  <2>2. g[(w + n) + 1] = Above(u, ((w + n) + 1) - w)
    <3> DEFINE k == (w + n) + 1
    <3>1. k \in w + 1 .. (w + n) + 1
          BY <2>1
    <3> HIDE DEF k
    <3>2. g[k] = Above(u, k - w)
          BY <1>8, <3>1
    <3> QED
        BY <3>2, Zenon DEF k
  <2>3. Above(u, n + 1) = 0
        BY <2>1, AboveIs
  <2> QED
      BY <2>1, <2>2, <2>3
<1>11. g[1] = Power(B)[w] * v
  <2>1. 1 \in 1 .. (w + n) + 1 /\ 1 <= w + 1 /\ w + 1 - 1 = w
        BY <1>1
  <2> QED
      BY <2>1
<1> HIDE DEF g
<1>12. ASSUME NEW i \in 1 .. w + n
       PROVE  g[i] = t[i] + B * g[i + 1]
  <2>1. i \in 1 .. w \/ i \in w + 1 .. w + n
        BY <1>1
  <2> QED
      BY <1>7, <1>9, <2>1
<1>13. Value(t) = g[1]
      BY <1>2, <1>6, <1>10, <1>12, ValueBy
<1> QED
    BY <1>2, <1>6, <1>11, <1>13 DEF t, n, v

\* bn_bex: the power of two.
THEOREM BexExact ==
    ASSUME NEW k \in Nat
    PROVE  /\ Bex(k) \in Limbs /\ Len(Bex(k)) = (k \div LimbBits) + 1
           /\ Value(Bex(k)) = Two[k]
<1> DEFINE w == k \div LimbBits
           s == k % LimbBits
           u == <<Two[s]>>
           t == Blank(w) \o u
           r == Bex(k)
<1>1. w \in Nat /\ s \in 0 .. LimbBits - 1 /\ Two[k] = Power(B)[w] * Two[s]
      BY ShiftParts
<1>2. r = [i \in 1 .. w + 1 |-> IF i = w + 1 THEN Two[s] ELSE 0]
      BY DEF Bex
<1>3. Two[s] \in 0 .. B - 1
  <2>1. LimbBits \in Nat /\ B = Two[LimbBits]
        BY BaseIs
  <2>2. s \in Nat /\ s + 1 \in Nat /\ s + 1 <= LimbBits
        BY <1>1, <2>1
  <2>3. Two[s + 1] <= Two[LimbBits]
        BY <2>1, <2>2, TwoMono
  <2>4. Two[s + 1] = 2 * Two[s] /\ Two[s] \in Nat \ {0}
        BY <2>2, BaseIs
  <2> QED
      BY <2>1, <2>3, <2>4, BaseNat
<1> HIDE DEF w, s, r
<1>4. u \in Limbs /\ Len(u) = 1 /\ Value(u) = Two[s]
      BY <1>3, OneLimb
<1>5. u[1] = Two[s]
      OBVIOUS
<1> HIDE DEF u
<1>6. t \in Limbs /\ Len(t) = w + 1 /\ Value(t) = Power(B)[w] * Two[s]
      BY <1>1, <1>4, RaisedExact
<1>7. \A i \in 1 .. w + 1 : r[i] \in 0 .. B - 1
  <2>1. 0 \in 0 .. B - 1
        BY BaseNat
  <2>2. \A i \in 1 .. w + 1 : r[i] = Two[s] \/ r[i] = 0
        BY <1>2
  <2> QED
      BY <1>3, <2>1, <2>2
<1>8. r \in Limbs /\ Len(r) = w + 1
  <2>1. r = [i \in 1 .. w + 1 |-> r[i]] /\ w + 1 \in Nat
        BY <1>1, <1>2
  <2> QED
      BY <1>7, <2>1, LimbsAre
<1>9. \A i \in 1 .. w + 1 : r[i] = t[i]
  <2> SUFFICES ASSUME NEW i \in 1 .. w + 1
               PROVE  r[i] = t[i]
      OBVIOUS
  <2>1. Blank(w) \in Seq(0 .. Ones) /\ Len(Blank(w)) = w /\ u \in Seq(0 .. Ones)
        BY <1>1, <1>4, BlankIs DEF Limbs
  <2>2. CASE i = w + 1
    <3>1. t[i] = u[1]
      <4>1. \A S : \A p, q \in Seq(S) : \A j \in 1 .. Len(q) : (p \o q)[Len(p) + j] = q[j]
            OBVIOUS
      <4>2. 1 \in 1 .. Len(u)
            BY <1>4
      <4>3. (Blank(w) \o u)[Len(Blank(w)) + 1] = u[1]
            BY <2>1, <4>1, <4>2
      <4> QED
          BY <2>1, <2>2, <4>3
    <3> QED
        BY <1>2, <1>5, <2>2, <3>1
  <2>3. CASE i # w + 1
    <3>1. i \in 1 .. w
          BY <1>1, <2>3
    <3>2. t[i] = Blank(w)[i]
          BY <2>1, <3>1
    <3> QED
        BY <1>2, <2>3, <3>1, <3>2 DEF Blank
  <2> QED
      BY <2>2, <2>3
<1>10. r = t
      BY <1>6, <1>8, <1>9, LimbsSame
<1> QED
    BY <1>1, <1>6, <1>8, <1>10 DEF r, w

\* bn_rsh: the quotient by a power of two, whatever the shift.
THEOREM RshExact ==
    ASSUME NEW l \in Limbs, l # <<>>, NEW k \in Nat
    PROVE  /\ Rsh(l, k) \in Limbs /\ Len(Rsh(l, k)) \in 1 .. Len(l)
           /\ Value(Rsh(l, k)) = Value(l) \div Two[k]
<1> DEFINE w == k \div LimbBits
           s == k % LimbBits
           t == SubSeq(l, w + 1, Len(l))
           n == Len(l) - w
<1>1. w \in Nat /\ s \in 0 .. LimbBits - 1 /\ Two[k] = Power(B)[w] * Two[s]
      BY ShiftParts
<1>2. Rsh(l, k) = IF w >= Len(l) THEN Zero ELSE Down(t, s, n)
      BY DEF Rsh
<1>3. Len(l) \in Nat /\ Len(l) >= 1 /\ Value(l) \in Nat /\ Value(l) < Power(B)[Len(l)]
  <2>1. Len(l) \in Nat /\ Len(l) # 0
        BY LimbIs DEF Limbs
  <2> QED
      BY <2>1, ValueBound
<1>4. s \in Nat /\ s \in 0 .. LimbBits
      BY <1>1, BaseIs
<1>5. Power(B)[w] \in Nat \ {0} /\ Two[s] \in Nat \ {0}
      BY <1>1, <1>4, BaseNext, TwoNat
<1> HIDE DEF w, s
<1>6. CASE w >= Len(l)
  <2>1. Power(B)[Len(l)] <= Power(B)[w]
        BY <1>1, <1>3, <1>6, BaseNat, PowerMono
  <2>2. Power(B)[w] <= Power(B)[w] * Two[s]
        BY <1>5
  <2>3. Power(B)[w] * Two[s] \in Nat \ {0}
        BY <1>5
  <2>4. Power(B)[Len(l)] \in Nat \ {0}
        BY <1>3, BaseNext
  <2> DEFINE m == Power(B)[w] * Two[s]
  <2>5. Value(l) < m /\ m \in Nat \ {0}
        BY <1>3, <1>5, <2>1, <2>2, <2>3, <2>4
  <2> HIDE DEF m
  <2>6. Value(l) \in 0 .. m - 1 /\ Value(l) = m * 0 + Value(l) /\ Value(l) \in Int
        BY <1>3, <2>5
  <2>7. Value(l) \div m = 0
        BY <2>5, <2>6, QuotientIs
  <2>8. Zero \in Limbs /\ Len(Zero) = 1 /\ Value(Zero) = 0
    <3>1. 0 \in 0 .. B - 1
          BY BaseNat
    <3> QED
        BY <3>1, OneLimb DEF Zero
  <2>9. 1 \in 1 .. Len(l)
        BY <1>3
  <2> QED
      BY <1>1, <1>2, <1>6, <2>7, <2>8, <2>9 DEF m
<1>7. CASE ~(w >= Len(l))
  <2>1. w < Len(l) /\ n \in 1 .. Len(l) /\ n \in Nat
        BY <1>1, <1>3, <1>7
  <2>2. t \in Limbs /\ Len(t) = n /\ Value(t) = Value(l) \div Power(B)[w]
        BY <1>1, <2>1, TailExact
  <2> HIDE DEF t, n
  <2>3. /\ Down(t, s, n) \in Limbs /\ Len(Down(t, s, n)) = n
        /\ Value(Down(t, s, n)) = Value(t) \div Two[s]
        BY <1>4, <2>1, <2>2, DownExact
  <2>4. (Value(l) \div Power(B)[w]) \div Two[s] = Value(l) \div (Power(B)[w] * Two[s])
        BY <1>3, <1>5, QuotientTwice
  <2>5. Rsh(l, k) = Down(t, s, n)
        BY <1>2, <1>7
  <2> QED
      BY <1>1, <2>1, <2>2, <2>3, <2>4, <2>5
<1> QED
    BY <1>6, <1>7

\* bn_lsh: the product with a power of two, in the limbs LshSize counts.
THEOREM LshExact ==
    ASSUME NEW l \in Limbs, l # <<>>, NEW k \in Nat
    PROVE  /\ Lsh(l, k) \in Limbs /\ Len(Lsh(l, k)) >= 1
           /\ Len(Lsh(l, k)) = IF k = 0 THEN Len(l) ELSE LshSize(l, k)
           /\ Value(Lsh(l, k)) = Value(l) * Two[k]
<1> DEFINE w == k \div LimbBits
           s == k % LimbBits
           n == LshSize(l, k) - w
           u == Up(l, s, n)
           v == Value(l)
<1>1. w \in Nat /\ s \in 0 .. LimbBits - 1 /\ Two[k] = Power(B)[w] * Two[s]
      BY ShiftParts
<1>2. Lsh(l, k) = IF k = 0 THEN l ELSE Blank(w) \o u
      BY DEF Lsh, Blank
<1>3. Len(l) \in Nat /\ Len(l) >= 1 /\ v \in Nat /\ v < Power(B)[Len(l)]
  <2>1. Len(l) \in Nat /\ Len(l) # 0
        BY LimbIs DEF Limbs
  <2> QED
      BY <2>1, ValueBound
<1>4. LshSize(l, k) = Len(l) + w + (IF s > 0 THEN 1 ELSE 0)
      BY DEF LshSize
<1>5. s \in Nat
      BY <1>1, BaseIs
<1>6. Power(B)[w] \in Nat \ {0} /\ Two[s] \in Nat \ {0}
      BY <1>1, <1>5, BaseNext, TwoNat
<1> HIDE DEF w, s, v
<1>7. n = Len(l) + (IF s > 0 THEN 1 ELSE 0) /\ n \in Nat /\ n >= 1 /\ w + n = LshSize(l, k)
      BY <1>1, <1>3, <1>4, <1>5
<1>8. Two[s] * v < Power(B)[n]
  <2>1. CASE s = 0
    <3>1. Two[s] * v = v
          BY <1>3, <2>1, BaseIs
    <3>2. n = Len(l)
          BY <1>3, <1>7, <2>1
    <3> QED
        BY <1>3, <3>1, <3>2
  <2>2. CASE s # 0
    <3>1. n = Len(l) + 1 /\ Power(B)[Len(l) + 1] = B * Power(B)[Len(l)] /\ Power(B)[Len(l)] \in Nat \ {0}
      <4>1. s > 0
            BY <1>5, <2>2
      <4>2. n = Len(l) + 1
            BY <1>3, <1>7, <4>1
      <4> QED
          BY <1>3, <4>2, BaseNext
    <3>2. Two[s] <= B
      <4>1. LimbBits \in Nat /\ B = Two[LimbBits]
            BY BaseIs
      <4>2. s <= LimbBits
            BY <1>1, <4>1
      <4> QED
          BY <1>5, <4>1, <4>2, TwoMono
    <3> DEFINE m == Two[s]
               p == Power(B)[Len(l)]
    <3>3. m \in Nat /\ m \in Nat \ {0} /\ p \in Nat /\ m <= B /\ v < p /\ B \in Nat
          BY <1>3, <1>6, <3>1, <3>2, BaseNat
    <3> HIDE DEF m, p
    <3>4. m * v < m * p
          BY <1>3, <3>3, ProductLess
    <3>5. m * p <= B * p
          BY <3>3, ProductMono
    <3>6. m * v \in Int /\ m * p \in Int /\ B * p \in Int
          BY <1>3, <3>3
    <3>7. m * v < B * p
          BY <3>4, <3>5, <3>6
    <3> QED
        BY <3>1, <3>7 DEF m, p
  <2> QED
      BY <2>1, <2>2
<1> HIDE DEF n
<1>9. u \in Limbs /\ Len(u) = n /\ Value(u) = Two[s] * v
      BY <1>1, <1>7, <1>8, UpExact DEF v
<1> HIDE DEF u
<1>10. /\ Blank(w) \o u \in Limbs /\ Len(Blank(w) \o u) = w + n
       /\ Value(Blank(w) \o u) = Power(B)[w] * Value(u)
      BY <1>1, <1>9, RaisedExact
<1>11. Power(B)[w] * (Two[s] * v) = v * Two[k]
  <2>1. \A x, y, z \in Nat : x * (y * z) = z * (x * y)
        OBVIOUS
  <2> QED
      BY <1>1, <1>3, <1>6, <2>1
<1>12. CASE k = 0
  <2>1. Two[k] = 1 /\ v * 1 = v
        BY <1>3, <1>12, BaseIs
  <2>2. Lsh(l, k) = l
        BY <1>2, <1>12
  <2>3. Value(Lsh(l, k)) = v * Two[k]
        BY <2>1, <2>2 DEF v
  <2> QED
      BY <1>3, <1>12, <2>2, <2>3 DEF v
<1>13. CASE k # 0
  <2>1. Lsh(l, k) = Blank(w) \o u
        BY <1>2, <1>13
  <2>2. Value(Lsh(l, k)) = v * Two[k]
        BY <1>9, <1>10, <1>11, <2>1
  <2>3. Len(Lsh(l, k)) = LshSize(l, k) /\ LshSize(l, k) >= 1
        BY <1>1, <1>7, <1>10, <2>1
  <2> QED
      BY <1>10, <1>13, <2>1, <2>2, <2>3 DEF v
<1> QED
    BY <1>12, <1>13

-----------------------------------------------------------------------------
(* Measuring.                                                              *)

\* A bound of the quotient bounds the dividend.
LEMMA QuotientLess ==
    ASSUME NEW a \in Nat, NEW m \in Nat \ {0}, NEW c \in Nat
    PROVE  /\ a \div m < c => a < m * c
           /\ a \div m >= c => a >= m * c
<1> DEFINE q == a \div m
           r == a % m
<1>1. r \in 0 .. m - 1 /\ a = m * q + r
      BY Quotient
<1>2. q \in Nat
      BY QuotientNat
<1> HIDE DEF q, r
<1>3. m * q \in Int /\ m * c \in Int
      BY <1>2
<1>4. ASSUME q < c
      PROVE  a < m * c
  <2>1. q + 1 <= c /\ q + 1 \in Nat
        BY <1>2, <1>4
  <2>2. m * (q + 1) <= m * c
        BY <2>1, ProductMono
  <2>3. m * (q + 1) = m * q + m
        BY <1>2
  <2> QED
      BY <1>1, <1>3, <2>2, <2>3
<1>5. ASSUME q >= c
      PROVE  a >= m * c
  <2>1. c <= q
        BY <1>2, <1>5
  <2>2. m * c <= m * q
        BY <1>2, <2>1, ProductMono
  <2> QED
      BY <1>1, <1>3, <2>2
<1> QED
    BY <1>4, <1>5 DEF q

\* 64 - clz: between which powers of two a limb lies.
LEMMA BitsIs ==
    ASSUME NEW x \in 0 .. B - 1
    PROVE  /\ Bits(x) \in 0 .. LimbBits /\ x < Two[Bits(x)]
           /\ Bits(x) = 0 \/ x >= Two[Bits(x) - 1]
<1> DEFINE T == {k \in 0 .. LimbBits : x < Two[k]}
           Is(k) == x < Two[k] /\ (k = 0 \/ x >= Two[k - 1])
<1>1. x \in Nat /\ LimbBits \in Nat /\ LimbBits \in 0 .. LimbBits /\ x < Two[LimbBits]
  <2>1. LimbBits \in Nat /\ B = Two[LimbBits]
        BY BaseIs
  <2> QED
      BY <2>1, BaseNat
<1>2. T \subseteq Nat /\ T # {}
  <2>1. LimbBits \in T
        BY <1>1
  <2> QED
      BY <2>1
<1>3. PICK m \in T : \A k \in T : m <= k
      BY <1>2, Least
<1>4. m \in 0 .. LimbBits /\ Is(m)
  <2>1. m \in 0 .. LimbBits /\ x < Two[m]
        BY <1>3
  <2>2. ASSUME m # 0
        PROVE  x >= Two[m - 1]
    <3>1. m - 1 \in 0 .. LimbBits /\ ~(m <= m - 1) /\ m - 1 \in Nat
          BY <1>1, <2>1, <2>2
    <3>2. m - 1 \notin T
          BY <1>3, <3>1
    <3>3. ~(x < Two[m - 1])
          BY <3>1, <3>2
    <3>4. Two[m - 1] \in Nat \ {0}
          BY <3>1, TwoNat
    <3> QED
        BY <1>1, <3>3, <3>4
  <2> QED
      BY <2>1, <2>2
<1>5. Bits(x) = CHOOSE k \in 0 .. LimbBits : Is(k)
      BY DEF Bits
<1> HIDE DEF Is
<1>6. Bits(x) \in 0 .. LimbBits /\ Is(Bits(x))
      BY <1>4, <1>5, Zenon
<1> QED
    BY <1>6 DEF Is

\* bn_met: the number lies between the powers of two around its length.
THEOREM MetExact ==
    ASSUME NEW l \in Numerals
    PROVE  /\ Met(l) \in Nat /\ Two[Met(l)] > Value(l)
           /\ Value(l) > 0 => Met(l) - 1 \in Nat /\ Two[Met(l) - 1] <= Value(l)
<1> DEFINE n == Len(l)
           x == l[n]
           b == Bits(x)
           v == Value(l)
           p == Power(B)[n - 1]
<1>1. l \in Limbs /\ n \in Nat /\ n >= 1 /\ (n = 1 \/ x # 0)
  <2>1. l \in Limbs
        BY DEF Numerals
  <2> QED
      BY <2>1, LimbIs DEF Numerals
<1>2. x \in 0 .. B - 1 /\ x = Limb(l, n)
  <2>1. n \in 1 .. Len(l)
        BY <1>1
  <2> QED
      BY <1>1, <2>1, LimbIs
<1>3. Met(l) = LimbBits * (n - 1) + b
      BY DEF Met
<1>4. b \in 0 .. LimbBits /\ x < Two[b] /\ (b = 0 \/ x >= Two[b - 1])
      BY <1>2, BitsIs
<1>5. v \in Nat
      BY <1>1, ValueNat
<1>6. x = v \div p
  <2>1. n - 1 \in Nat /\ (n - 1) + 1 = n /\ n \in Nat \ {0} /\ n + 1 \in Nat /\ n + 1 > Len(l)
        BY <1>1
  <2>2. Above(l, (n - 1) + 1) = v \div p
        BY <1>1, <2>1, AboveDiv
  <2>3. Above(l, n) = Limb(l, n) + B * Above(l, n + 1) /\ Above(l, n + 1) = 0
    <3>1. Above(l, n + 1) = 0
          BY <1>1, <2>1, AboveIs
    <3>2. Above(l, n) = Limb(l, n) + B * Above(l, n + 1)
          BY <1>1, <2>1, AboveIs
    <3> QED
        BY <3>1, <3>2
  <2>4. x + B * 0 = x
        BY <1>2, BaseNat
  <2> QED
      BY <1>2, <2>1, <2>2, <2>3, <2>4
<1> HIDE DEF n, x, b, v, p
<1>7. LimbBits \in Nat /\ n - 1 \in Nat /\ b \in Nat
  <2>1. LimbBits \in Nat
        BY BaseIs
  <2> QED
      BY <1>1, <1>4, <2>1
<1>8. LimbBits * (n - 1) \in Nat
      BY <1>7
<1>9. p = Two[LimbBits * (n - 1)] /\ p \in Nat \ {0}
  <2>1. p = Two[LimbBits * (n - 1)]
        BY <1>7, BasePower DEF p
  <2> QED
      BY <1>8, <2>1, TwoNat
<1>10. Met(l) \in Nat /\ Two[Met(l)] = p * Two[b] /\ Two[b] \in Nat
  <2>1. Two[LimbBits * (n - 1) + b] = Two[LimbBits * (n - 1)] * Two[b]
        BY <1>7, <1>8, TwoAdd
  <2>2. Two[b] \in Nat
        BY <1>7, TwoNat
  <2>3. Met(l) \in Nat
        BY <1>3, <1>7, <1>8
  <2> QED
      BY <1>3, <1>9, <2>1, <2>2, <2>3
<1>11. Two[Met(l)] > v
  <2>1. v < p * Two[b]
        BY <1>4, <1>5, <1>6, <1>9, <1>10, QuotientLess
  <2>2. p * Two[b] \in Int
        BY <1>9, <1>10
  <2> QED
      BY <1>5, <1>10, <2>1, <2>2
<1>12. ASSUME v > 0
       PROVE  Met(l) - 1 \in Nat /\ Two[Met(l) - 1] <= v
  <2>1. b # 0
    <3>1. SUFFICES ASSUME b = 0
                   PROVE  FALSE
          OBVIOUS
    <3>2. x = 0
      <4>1. Two[0] = 1
            BY BaseIs
      <4> QED
          BY <1>2, <1>4, <3>1, <4>1, BaseNat
    <3>3. n = 1
          BY <1>1, <3>2
    <3>4. p = 1
      <4>1. n - 1 = 0
            BY <3>3
      <4> QED
          BY <4>1, BaseFirst DEF p
    <3>5. v \div 1 = v
          BY <1>5
    <3> QED
        BY <1>5, <1>6, <1>12, <3>2, <3>4, <3>5
  <2>2. b - 1 \in Nat /\ x >= Two[b - 1]
        BY <1>4, <1>7, <2>1
  <2>3. LimbBits * (n - 1) + (b - 1) = Met(l) - 1 /\ Met(l) - 1 \in Nat
        BY <1>3, <1>7, <1>8, <2>2
  <2>4. Two[LimbBits * (n - 1) + (b - 1)] = Two[LimbBits * (n - 1)] * Two[b - 1]
        BY <1>8, <2>2, TwoAdd
  <2>5. Two[Met(l) - 1] = p * Two[b - 1] /\ Two[b - 1] \in Nat
        BY <1>9, <2>2, <2>3, <2>4, TwoNat
  <2>6. v >= p * Two[b - 1]
        BY <1>5, <1>6, <1>9, <2>2, <2>5, QuotientLess
  <2>7. p * Two[b - 1] \in Int
        BY <1>9, <2>5
  <2> QED
      BY <1>5, <2>3, <2>5, <2>6, <2>7
<1> QED
    BY <1>10, <1>11, <1>12 DEF v

-----------------------------------------------------------------------------
(* Bits and their merges.                                                  *)

\* Truth tables of two bits.
Tables == [Pairs -> 0 .. 1]

\* Those of the operators are.
LEMMA TablesAre == TheOr \in Tables /\ TheAnd \in Tables /\ TheXor \in Tables
<1>1. \A p \in Pairs : p[1] \in 0 .. 1 /\ p[2] \in 0 .. 1
      BY DEF Pairs
<1>2. TheOr \in Tables
      BY DEF TheOr, Tables
<1>3. TheAnd \in Tables
  <2>1. \A p \in Pairs : p[1] * p[2] \in 0 .. 1
    <3> SUFFICES ASSUME NEW p \in Pairs
                 PROVE  p[1] * p[2] \in 0 .. 1
        OBVIOUS
    <3>1. p[1] = 0 \/ p[1] = 1
          BY <1>1
    <3>2. p[2] = 0 \/ p[2] = 1
          BY <1>1
    <3> QED
        BY <3>1, <3>2
  <2> QED
      BY <2>1 DEF TheAnd, Tables
<1>4. TheXor \in Tables
  <2>1. \A p \in Pairs : (p[1] + p[2]) % 2 \in 0 .. 1
    <3> SUFFICES ASSUME NEW p \in Pairs
                 PROVE  (p[1] + p[2]) % 2 \in 0 .. 1
        OBVIOUS
    <3>1. p[1] + p[2] \in Int
          BY <1>1
    <3> QED
        BY <3>1
  <2> QED
      BY <2>1 DEF TheXor, Tables
<1> QED
    BY <1>2, <1>3, <1>4

\* A table gives bits; no operator makes a one of two zeros, and "and" makes
\* none of one.
LEMMA TablesGive ==
    /\ \A f \in Tables : \A x, y \in 0 .. 1 : f[<<x, y>>] \in 0 .. 1
    /\ TheOr[<<0, 0>>] = 0 /\ TheXor[<<0, 0>>] = 0
    /\ \A x \in 0 .. 1 : TheAnd[<<x, 0>>] = 0 /\ TheAnd[<<0, x>>] = 0
<1>1. \A x, y \in 0 .. 1 : <<x, y>> \in Pairs
      BY DEF Pairs
<1>2. \A f \in Tables : \A x, y \in 0 .. 1 : f[<<x, y>>] \in 0 .. 1
      BY <1>1 DEF Tables
<1>3. 0 \in 0 .. 1
      OBVIOUS
<1>4. <<0, 0>> \in Pairs
      BY <1>1, <1>3
<1>5. TheOr[<<0, 0>>] = 0 /\ TheXor[<<0, 0>>] = 0
      BY <1>4 DEF TheOr, TheXor
<1>6. \A x \in 0 .. 1 : TheAnd[<<x, 0>>] = 0 /\ TheAnd[<<0, x>>] = 0
  <2> SUFFICES ASSUME NEW x \in 0 .. 1
               PROVE  TheAnd[<<x, 0>>] = 0 /\ TheAnd[<<0, x>>] = 0
      OBVIOUS
  <2>1. <<x, 0>> \in Pairs /\ <<0, x>> \in Pairs
        BY <1>1, <1>3
  <2>2. TheAnd[<<x, 0>>] = x * 0 /\ TheAnd[<<0, x>>] = 0 * x
        BY <2>1 DEF TheAnd
  <2> QED
      BY <2>2
<1> QED
    BY <1>2, <1>5, <1>6

\* A bit is one, and zero has none.
LEMMA BitIs ==
    ASSUME NEW x \in Nat, NEW i \in Nat
    PROVE  Bit(x, i) \in 0 .. 1 /\ Bit(0, i) = 0
<1>1. Two[i] \in Nat \ {0}
      BY TwoNat
<1> DEFINE m == Two[i]
<1> HIDE DEF m
<1>2. m \in Nat \ {0}
      BY <1>1 DEF m
<1>3. (x \div m) % 2 \in 0 .. 1
  <2>1. x \div m \in Int
        BY <1>2, Quotient
  <2> QED
      BY <2>1
<1>4. (0 \div m) % 2 = 0
  <2>1. 0 \div m = 0
        BY <1>2
  <2> QED
      BY <2>1
<1> QED
    BY <1>3, <1>4 DEF m, Bit

\* The bits below k of a number x + 2^k * p are those of x.
LEMMA BitLow ==
    ASSUME NEW x \in Nat, NEW p \in Nat, NEW i \in Nat, NEW k \in Nat, i < k
    PROVE  Bit(x + Two[k] * p, i) = Bit(x, i)
<1>7. PICK j \in Nat \ {0} : i + j = k
  <2>1. k - i \in Nat \ {0} /\ i + (k - i) = k
        OBVIOUS
  <2> QED
      BY <2>1
<1> DEFINE m == Two[i]
           h == Two[j - 1]
           q == x \div m
           r == x % m
<1>1. m \in Nat \ {0} /\ h \in Nat \ {0}
      BY TwoNat
<1>2. Two[i + j] = m * (2 * h)
  <2>1. Two[i + j] = Two[i] * Two[j]
        BY TwoAdd
  <2>2. j - 1 \in Nat /\ (j - 1) + 1 = j
        OBVIOUS
  <2>3. Two[(j - 1) + 1] = 2 * Two[j - 1]
        BY <2>2, BaseIs
  <2> QED
      BY <2>1, <2>2, <2>3
<1> HIDE DEF m, h
<1>3. q \in Nat /\ r \in 0 .. m - 1 /\ x = m * q + r
  <2>1. r \in 0 .. m - 1 /\ x = m * q + r
        BY <1>1, Quotient
  <2>2. q \in Nat
        BY <1>1, QuotientNat
  <2> QED
      BY <2>1, <2>2
<1> HIDE DEF q, r
<1>4. (x + (m * (2 * h)) * p) \div m = q + 2 * (h * p)
  <2> DEFINE a == x + (m * (2 * h)) * p
             c == q + 2 * (h * p)
  <2>1. h * p \in Nat
        BY <1>1
  <2>2. c \in Int
        BY <1>3, <2>1
  <2>3. a \in Int
    <3>1. m * (2 * h) \in Nat
          BY <1>1
    <3>2. (m * (2 * h)) * p \in Nat
          BY <3>1
    <3> QED
        BY <3>2
  <2>4. a = m * c + r
    <3>1. \A z, l, n, s, t \in Int : (z * s + t) + (z * (2 * l)) * n = z * (s + 2 * (l * n)) + t
          OBVIOUS
    <3>2. m \in Int /\ h \in Int /\ p \in Int /\ q \in Int /\ r \in Int
          BY <1>1, <1>3
    <3>3. (m * q + r) + (m * (2 * h)) * p = m * (q + 2 * (h * p)) + r
          BY <3>1, <3>2
    <3> QED
        BY <1>3, <3>3, Zenon
  <2> HIDE DEF a, c
  <2>5. a \div m = c
        BY <1>1, <1>3, <2>2, <2>3, <2>4, QuotientIs
  <2> QED
      BY <2>5 DEF a, c
<1>5. (q + 2 * (h * p)) % 2 = q % 2
  <2>1. h * p \in Int
        BY <1>1
  <2>2. \A y \in Int : (q + 2 * y) % 2 = q % 2
        BY <1>3
  <2> QED
      BY <2>1, <2>2
<1>6. ((x + (m * (2 * h)) * p) \div m) % 2 = (x \div m) % 2
      BY <1>4, <1>5 DEF q
<1> QED
    BY <1>2, <1>6, <1>7 DEF Bit, m

\* Those from i up of a number x + 2^i * p, x below 2^i, are those of p.
LEMMA BitHigh ==
    ASSUME NEW i \in Nat, NEW x \in 0 .. Two[i] - 1, NEW p \in Nat, NEW j \in Nat
    PROVE  Bit(x + Two[i] * p, i + j) = Bit(p, j)
<1> DEFINE m == Two[i]
           h == Two[j]
           a == x + m * p
<1>1. m \in Nat \ {0} /\ h \in Nat \ {0} /\ Two[i + j] = m * h
      BY TwoNat, TwoAdd
<1>2. x \in 0 .. m - 1
      OBVIOUS
<1> HIDE DEF m, h
<1>3. a \in Nat
  <2>1. m * p \in Nat
        BY <1>1
  <2> QED
      BY <1>1, <1>2, <2>1
<1>4. a = m * p + x
  <2>1. m * p \in Int /\ x \in Int
        BY <1>1, <1>2
  <2> QED
      BY <2>1
<1> HIDE DEF a
<1>5. a \div m = p
  <2>1. a \in Int /\ p \in Int
        BY <1>3
  <2> QED
      BY <1>1, <1>2, <1>4, <2>1, QuotientIs
<1>6. (a \div m) \div h = a \div (m * h)
      BY <1>1, <1>3, QuotientTwice
<1>7. (a \div (m * h)) % 2 = (p \div h) % 2
      BY <1>5, <1>6
<1> QED
    BY <1>1, <1>7 DEF Bit, a, m, h

\* The merged bits from i up.
Words(f, x, y, n) ==
    CHOOSE word : word = [i \in 0 .. n |-> IF i = n THEN 0 ELSE f[<<Bit(x, i), Bit(y, i)>>] + 2 * word[i + 1]]

\* Their recurrence.
MergedBy(w, f, x, y, n) ==
    /\ MergeBits(f, x, y, n) = w[0] /\ w[n] = 0
    /\ \A i \in 0 .. n - 1 : w[i] = f[<<Bit(x, i), Bit(y, i)>>] + 2 * w[i + 1]
    /\ \A i \in 0 .. n : w[i] \in Nat

\* They satisfy it.
LEMMA WordsAre ==
    ASSUME NEW f \in Tables, NEW x \in Nat, NEW y \in Nat, NEW n \in Nat
    PROVE  MergedBy(Words(f, x, y, n), f, x, y, n)
<1> DEFINE Is(w) == w = [i \in 0 .. n |-> IF i = n THEN 0 ELSE f[<<Bit(x, i), Bit(y, i)>>] + 2 * w[i + 1]]
           step == [p \in (0 .. n) \X Nat |-> f[<<Bit(x, p[1]), Bit(y, p[1])>>] + 2 * p[2]]
<1>1. \A i \in 0 .. n : f[<<Bit(x, i), Bit(y, i)>>] \in 0 .. 1
  <2> SUFFICES ASSUME NEW i \in 0 .. n
               PROVE  f[<<Bit(x, i), Bit(y, i)>>] \in 0 .. 1
      OBVIOUS
  <2>1. i \in Nat
        OBVIOUS
  <2>2. Bit(x, i) \in 0 .. 1 /\ Bit(y, i) \in 0 .. 1
        BY <2>1, BitIs
  <2> QED
      BY <2>2, TablesGive
<1>2. \A i \in 0 .. n : \A w \in Nat : step[<<i, w>>] = f[<<Bit(x, i), Bit(y, i)>>] + 2 * w
      OBVIOUS
<1>3. step \in [(0 .. n) \X Nat -> Nat]
  <2>1. \A i \in 0 .. n : \A w \in Nat : f[<<Bit(x, i), Bit(y, i)>>] + 2 * w \in Nat
        BY <1>1
  <2> QED
      BY <2>1
<1> HIDE DEF step
<1>4. PICK g \in [0 .. n -> Nat] : Downward(g, 0, n, 0, step)
  <2>1. 0 \in Int /\ n \in Int /\ 0 \in Nat /\ \A i \in 0 .. n : i < n => i \in 0 .. n
        OBVIOUS
  <2> QED
      BY <2>1, <1>3, ChainDown, Zenon
<1>5. Is(g)
  <2>1. \A i \in 0 .. n : i # n => g[i + 1] \in Nat
        OBVIOUS
  <2>2. g = [i \in 0 .. n |-> IF i = n THEN 0 ELSE step[<<i, g[i + 1]>>]]
        BY <1>4 DEF Downward
  <2> QED
      BY <2>1, <2>2, <1>2
<1>6. Words(f, x, y, n) = CHOOSE w : Is(w)
      BY DEF Words
<1>7. Is(Words(f, x, y, n))
  <2> HIDE DEF Is
  <2> QED
      BY <1>5, <1>6
<1> DEFINE W == Words(f, x, y, n)
<1>8. W = [i \in 0 .. n |-> IF i = n THEN 0 ELSE f[<<Bit(x, i), Bit(y, i)>>] + 2 * W[i + 1]]
      BY <1>7
<1>9. MergeBits(f, x, y, n) = W[0]
      BY DEF MergeBits, Words
<1> HIDE DEF W
<1>10. W[n] = 0 /\ \A i \in 0 .. n - 1 : W[i] = f[<<Bit(x, i), Bit(y, i)>>] + 2 * W[i + 1]
      BY <1>8
<1>11. \A i \in 0 .. n : W[i] \in Nat
  <2> DEFINE T == {i \in 0 .. n : W[i] \in Nat}
  <2>1. n \in T
        BY <1>10
  <2>2. ASSUME NEW i \in 0 .. n, i < n, i + 1 \in T
        PROVE  i \in T
    <3>1. W[i] = f[<<Bit(x, i), Bit(y, i)>>] + 2 * W[i + 1] /\ W[i + 1] \in Nat
          BY <1>10, <2>2
    <3>2. f[<<Bit(x, i), Bit(y, i)>>] \in 0 .. 1
          BY <1>1
    <3> QED
        BY <3>1, <3>2
  <2> HIDE DEF T
  <2>3. 0 \in Int /\ n \in Int
        OBVIOUS
  <2>4. \A i \in 0 .. n : i \in T
        BY <2>1, <2>2, <2>3, InductDown
  <2> QED
      BY <2>4 DEF T
<1>12. MergedBy(W, f, x, y, n)
      BY <1>9, <1>10, <1>11 DEF MergedBy
<1> QED
    BY <1>12 DEF W

-----------------------------------------------------------------------------
(* The bitwise operators.                                                  *)

\* A merge of n bits has n bits.
LEMMA MergeBound ==
    ASSUME NEW f \in Tables, NEW x \in Nat, NEW y \in Nat, NEW n \in Nat
    PROVE  MergeBits(f, x, y, n) \in 0 .. Two[n] - 1
<1> DEFINE W == Words(f, x, y, n)
           T == {i \in 0 .. n : W[i] < Two[n - i]}
<1>7. MergedBy(W, f, x, y, n)
      BY WordsAre
<1>1. /\ W[n] = 0 /\ \A i \in 0 .. n : W[i] \in Nat
      /\ \A i \in 0 .. n - 1 : W[i] = f[<<Bit(x, i), Bit(y, i)>>] + 2 * W[i + 1]
      BY <1>7 DEF MergedBy
<1>2. MergeBits(f, x, y, n) = W[0]
      BY <1>7 DEF MergedBy
<1> HIDE DEF W
<1>3. n \in T
  <2>1. n - n = 0 /\ Two[0] = 1
        BY BaseIs
  <2> QED
      BY <1>1, <2>1
<1>4. ASSUME NEW i \in 0 .. n, i < n, i + 1 \in T
      PROVE  i \in T
  <2>1. i \in 0 .. n - 1 /\ i + 1 \in 0 .. n /\ n - (i + 1) \in Nat /\ n - i = (n - (i + 1)) + 1 /\ i \in Nat
        BY <1>4
  <2>2. f[<<Bit(x, i), Bit(y, i)>>] \in 0 .. 1
    <3>1. Bit(x, i) \in 0 .. 1 /\ Bit(y, i) \in 0 .. 1
          BY <2>1, BitIs
    <3> QED
        BY <3>1, TablesGive
  <2>3. Two[n - i] = 2 * Two[n - (i + 1)] /\ Two[n - (i + 1)] \in Nat \ {0}
    <3>1. Two[(n - (i + 1)) + 1] = 2 * Two[n - (i + 1)]
          BY <2>1, BaseIs
    <3> QED
        BY <2>1, <3>1, TwoNat
  <2>4. W[i] = f[<<Bit(x, i), Bit(y, i)>>] + 2 * W[i + 1] /\ W[i + 1] \in Nat /\ W[i + 1] < Two[n - (i + 1)]
        BY <1>1, <1>4, <2>1
  <2>5. W[i] < Two[n - i]
        BY <2>2, <2>3, <2>4
  <2> QED
      BY <2>5
<1> HIDE DEF T
<1>5. \A i \in 0 .. n : i \in T
  <2>1. 0 \in Int /\ n \in Int
        OBVIOUS
  <2> QED
      BY <1>3, <1>4, <2>1, InductDown
<1>6. W[0] < Two[n - 0] /\ n - 0 = n /\ W[0] \in Nat
      BY <1>1, <1>5 DEF T
<1>8. Two[n] \in Nat
      BY TwoNat
<1> QED
    BY <1>2, <1>6, <1>8

\* Where the table gives zero for all bits the merge is zero.
LEMMA MergeNothing ==
    ASSUME NEW f \in Tables, NEW x \in Nat, NEW y \in Nat, NEW n \in Nat,
           \A i \in Nat : f[<<Bit(x, i), Bit(y, i)>>] = 0
    PROVE  MergeBits(f, x, y, n) = 0
<1> DEFINE W == Words(f, x, y, n)
           T == {i \in 0 .. n : W[i] = 0}
<1>6. MergedBy(W, f, x, y, n)
      BY WordsAre
<1>1. /\ W[n] = 0
      /\ \A i \in 0 .. n - 1 : W[i] = f[<<Bit(x, i), Bit(y, i)>>] + 2 * W[i + 1]
      BY <1>6 DEF MergedBy
<1>2. MergeBits(f, x, y, n) = W[0]
      BY <1>6 DEF MergedBy
<1> HIDE DEF W
<1>3. n \in T
      BY <1>1
<1>4. ASSUME NEW i \in 0 .. n, i < n, i + 1 \in T
      PROVE  i \in T
  <2>1. i \in 0 .. n - 1 /\ i \in Nat
        BY <1>4
  <2>2. W[i] = 0 + 2 * 0
    <3>1. W[i] = f[<<Bit(x, i), Bit(y, i)>>] + 2 * W[i + 1]
          BY <1>1, <2>1
    <3>2. W[i + 1] = 0
          BY <1>4
    <3>3. f[<<Bit(x, i), Bit(y, i)>>] = 0
          BY <2>1
    <3> QED
        BY <3>1, <3>2, <3>3
  <2> QED
      BY <2>2
<1> HIDE DEF T
<1>5. \A i \in 0 .. n : i \in T
  <2>1. 0 \in Int /\ n \in Int
        OBVIOUS
  <2> QED
      BY <1>3, <1>4, <2>1, InductDown
<1> QED
    BY <1>2, <1>5 DEF T

\* A bit below a merge that is split at a higher place.
MergeOver(b, w, h, c) == b + 2 * (w + h * c) = (b + 2 * w) + (2 * h) * c
\* MergeOver, for all integers.
LEMMA MergeOvers == \A b, w, h, c \in Int : MergeOver(b, w, h, c)
BY DEF MergeOver

\* The low k bits of a merge, and the merge of what is above them.
LEMMA MergeSplit ==
    ASSUME NEW f \in Tables, NEW k \in Nat, NEW x \in 0 .. Two[k] - 1, NEW y \in 0 .. Two[k] - 1,
           NEW p \in Nat, NEW q \in Nat, NEW n \in Nat
    PROVE  MergeBits(f, x + Two[k] * p, y + Two[k] * q, k + n) = MergeBits(f, x, y, k) + Two[k] * MergeBits(f, p, q, n)
<1> DEFINE X == x + Two[k] * p
           Y == y + Two[k] * q
           V == Words(f, X, Y, k + n)
           L == Words(f, x, y, k)
           H == Words(f, p, q, n)
           bit(i) == f[<<Bit(X, i), Bit(Y, i)>>]
           T == {j \in 0 .. n : V[k + j] = H[j]}
           U == {i \in 0 .. k : V[i] = L[i] + Two[k - i] * V[k]}
<1>1. X \in Nat /\ Y \in Nat /\ x \in Nat /\ y \in Nat /\ k + n \in Nat
  <2>1. Two[k] \in Nat
        BY TwoNat
  <2>2. Two[k] * p \in Nat /\ Two[k] * q \in Nat
        BY <2>1
  <2> QED
      BY <2>1, <2>2
<1>2. ASSUME NEW i \in 0 .. k - 1
      PROVE  bit(i) = f[<<Bit(x, i), Bit(y, i)>>]
  <2>1. i < k
        OBVIOUS
  <2>5. i \in Nat /\ x \in Nat /\ y \in Nat
        BY <1>1
  <2>2. Bit(x + Two[k] * p, i) = Bit(x, i)
        BY <2>1, <2>5, BitLow
  <2>3. Bit(y + Two[k] * q, i) = Bit(y, i)
        BY <2>1, <2>5, BitLow
  <2> QED
      BY <2>2, <2>3
<1>3. ASSUME NEW j \in Nat
      PROVE  bit(k + j) = f[<<Bit(p, j), Bit(q, j)>>]
  <2>1. Bit(x + Two[k] * p, k + j) = Bit(p, j)
        BY BitHigh
  <2>2. Bit(y + Two[k] * q, k + j) = Bit(q, j)
        BY BitHigh
  <2> QED
      BY <2>1, <2>2
<1> HIDE DEF X, Y
<1>12. MergedBy(V, f, X, Y, k + n)
      BY <1>1, WordsAre
<1>13. MergedBy(L, f, x, y, k)
      BY <1>1, WordsAre
<1>14. MergedBy(H, f, p, q, n)
      BY WordsAre
<1> HIDE DEF V, L, H
<1>4. ASSUME NEW i \in 0 .. (k + n) - 1
      PROVE  bit(i) \in 0 .. 1
  <2>1. i \in Nat
        OBVIOUS
  <2>2. Bit(X, i) \in 0 .. 1 /\ Bit(Y, i) \in 0 .. 1
        BY <1>1, <2>1, BitIs
  <2> QED
      BY <2>2, TablesGive
<1>5. /\ MergeBits(f, X, Y, k + n) = V[0] /\ V[k + n] = 0
      /\ \A i \in 0 .. (k + n) - 1 : V[i] = bit(i) + 2 * V[i + 1]
      /\ \A i \in 0 .. k + n : V[i] \in Nat
      BY <1>12 DEF MergedBy
<1>6. /\ MergeBits(f, x, y, k) = L[0] /\ L[k] = 0
      /\ \A i \in 0 .. k - 1 : L[i] = f[<<Bit(x, i), Bit(y, i)>>] + 2 * L[i + 1]
      /\ \A i \in 0 .. k : L[i] \in Nat
      BY <1>13 DEF MergedBy
<1>7. /\ MergeBits(f, p, q, n) = H[0] /\ H[n] = 0
      /\ \A i \in 0 .. n - 1 : H[i] = f[<<Bit(p, i), Bit(q, i)>>] + 2 * H[i + 1]
      BY <1>14 DEF MergedBy
<1> HIDE DEF bit
<1>8. \A j \in 0 .. n : j \in T
  <2>1. n \in T
        BY <1>5, <1>7
  <2>2. ASSUME NEW j \in 0 .. n, j < n, j + 1 \in T
        PROVE  j \in T
    <3>1. j \in 0 .. n - 1 /\ j \in Nat /\ k + j \in 0 .. (k + n) - 1 /\ k + (j + 1) = (k + j) + 1
          BY <2>2
    <3>2. V[k + j] = bit(k + j) + 2 * V[(k + j) + 1]
          BY <1>5, <3>1
    <3>3. V[(k + j) + 1] = H[j + 1]
          BY <2>2, <3>1
    <3>4. H[j] = f[<<Bit(p, j), Bit(q, j)>>] + 2 * H[j + 1]
          BY <1>7, <3>1
    <3>5. V[k + j] = H[j]
          BY <1>3, <3>1, <3>2, <3>3, <3>4
    <3> QED
        BY <3>5
  <2> HIDE DEF T
  <2>3. 0 \in Int /\ n \in Int
        OBVIOUS
  <2> QED
      BY <2>1, <2>2, <2>3, InductDown
<1>9. V[k] = H[0] /\ V[k] \in Nat
  <2>1. 0 \in 0 .. n /\ k + 0 = k /\ k \in 0 .. k + n
        OBVIOUS
  <2> QED
      BY <1>5, <1>8, <2>1
<1>10. \A i \in 0 .. k : i \in U
  <2>1. k \in U
    <3>1. k - k = 0 /\ Two[0] = 1 /\ k \in 0 .. k
          BY BaseIs
    <3>2. V[k] = 0 + 1 * V[k]
          BY <1>9
    <3> QED
        BY <1>6, <3>1, <3>2
  <2>2. ASSUME NEW i \in 0 .. k, i < k, i + 1 \in U
        PROVE  i \in U
    <3>1. /\ i \in 0 .. k - 1 /\ i \in Nat /\ i \in 0 .. (k + n) - 1 /\ k - (i + 1) \in Nat /\ (k - (i + 1)) + 1 = k - i
          /\ i + 1 \in 0 .. k
          BY <2>2
    <3>2. V[i] = bit(i) + 2 * V[i + 1]
          BY <1>5, <3>1
    <3>3. V[i + 1] = L[i + 1] + Two[k - (i + 1)] * V[k]
          BY <2>2
    <3>4. L[i] = bit(i) + 2 * L[i + 1]
          BY <1>2, <1>6, <3>1
    <3>5. Two[k - i] = 2 * Two[k - (i + 1)] /\ Two[k - (i + 1)] \in Int
      <4>1. Two[(k - (i + 1)) + 1] = 2 * Two[k - (i + 1)]
            BY <3>1, BaseIs
      <4> QED
          BY <3>1, <4>1, TwoNat
    <3>6. bit(i) \in Int /\ L[i + 1] \in Int /\ V[k] \in Int
      <4>1. bit(i) \in 0 .. 1
            BY <1>4, <3>1
      <4>2. L[i + 1] \in Nat
            BY <1>6, <3>1
      <4> QED
          BY <1>9, <4>1, <4>2
    <3>7. MergeOver(bit(i), L[i + 1], Two[k - (i + 1)], V[k])
          BY <3>5, <3>6, MergeOvers
    <3>8. V[i] = L[i] + Two[k - i] * V[k]
          BY <3>2, <3>3, <3>4, <3>5, <3>7, Zenon DEF MergeOver
    <3> QED
        BY <3>8
  <2> HIDE DEF U
  <2>3. 0 \in Int /\ k \in Int
        OBVIOUS
  <2> QED
      BY <2>1, <2>2, <2>3, InductDown
<1>11. V[0] = L[0] + Two[k] * H[0]
  <2>1. 0 \in 0 .. k /\ k - 0 = k
        OBVIOUS
  <2> QED
      BY <1>9, <1>10, <2>1
<1> QED
    BY <1>5, <1>6, <1>7, <1>11 DEF X, Y

\* A merge limb by limb is the merge of the numbers, if there is nothing to
\* merge above.
LEMMA MergeExact ==
    ASSUME NEW f \in Tables, NEW a \in Limbs, NEW b \in Limbs, NEW n \in Nat, NEW m \in Nat, n <= m,
           \A k \in Nat : MergeBits(f, Above(a, n + 1), Above(b, n + 1), k) = 0
    PROVE  /\ MergeLimbs(f, a, b, n) \in Limbs /\ Len(MergeLimbs(f, a, b, n)) = n
           /\ Value(MergeLimbs(f, a, b, n)) = MergeBits(f, Value(a), Value(b), LimbBits * m)
<1> DEFINE r == MergeLimbs(f, a, b, n)
           g == [i \in 1 .. n + 1 |-> MergeBits(f, Above(a, i), Above(b, i), LimbBits * (m + 1 - i))]
<1>1. r = [i \in 1 .. n |-> MergeBits(f, Limb(a, i), Limb(b, i), LimbBits)]
      BY DEF MergeLimbs
<1>2. LimbBits \in Nat /\ Two[LimbBits] = B
      BY BaseIs
<1>3. ASSUME NEW l \in Limbs, NEW i \in Int
      PROVE  Limb(l, i) \in Nat /\ Limb(l, i) \in 0 .. Two[LimbBits] - 1
  <2>1. Limb(l, i) \in 0 .. B - 1
        BY LimbIs
  <2> QED
      BY <1>2, <2>1, BaseNat
<1> HIDE DEF r
<1>4. ASSUME NEW i \in 1 .. n
      PROVE  r[i] \in 0 .. B - 1
  <2>1. Limb(a, i) \in Nat /\ Limb(b, i) \in Nat
        BY <1>3
  <2>2. MergeBits(f, Limb(a, i), Limb(b, i), LimbBits) \in 0 .. Two[LimbBits] - 1
        BY <1>2, <2>1, MergeBound
  <2> QED
      BY <1>1, <1>2, <2>2
<1>5. r \in Limbs /\ Len(r) = n
  <2>1. r = [i \in 1 .. n |-> r[i]]
        BY <1>1
  <2> QED
      BY <1>4, <2>1, LimbsAre
<1>6. \A i \in 1 .. n + 1 : g[i] = MergeBits(f, Above(a, i), Above(b, i), LimbBits * (m + 1 - i))
      OBVIOUS
<1> HIDE DEF g
<1>7. ASSUME NEW i \in 1 .. n
      PROVE  g[i] = r[i] + B * g[i + 1]
  <2>1. /\ i \in Nat \ {0} /\ i + 1 \in Nat /\ i \in 1 .. n + 1 /\ i + 1 \in 1 .. n + 1 /\ m + 1 - (i + 1) \in Nat
        /\ m + 1 - i = 1 + (m + 1 - (i + 1))
        OBVIOUS
  <2>2. Above(a, i) = Limb(a, i) + B * Above(a, i + 1) /\ Above(a, i + 1) \in Nat
        BY <2>1, AboveIs
  <2>3. Above(b, i) = Limb(b, i) + B * Above(b, i + 1) /\ Above(b, i + 1) \in Nat
        BY <2>1, AboveIs
  <2> DEFINE k == LimbBits * (m + 1 - (i + 1))
  <2>4. LimbBits * (m + 1 - i) = LimbBits + k /\ k \in Nat
        BY <1>2, <2>1
  <2> HIDE DEF k
  <2>5. Limb(a, i) \in 0 .. Two[LimbBits] - 1 /\ Limb(b, i) \in 0 .. Two[LimbBits] - 1
        BY <1>3
  <2>6. MergeBits(f, Limb(a, i) + Two[LimbBits] * Above(a, i + 1), Limb(b, i) + Two[LimbBits] * Above(b, i + 1), LimbBits + k)
            = MergeBits(f, Limb(a, i), Limb(b, i), LimbBits) + Two[LimbBits] * MergeBits(f, Above(a, i + 1), Above(b, i + 1), k)
        BY <1>2, <2>2, <2>3, <2>4, <2>5, MergeSplit
  <2>7. g[i] = MergeBits(f, Above(a, i), Above(b, i), LimbBits + k)
        BY <1>6, <2>1, <2>4
  <2>8. g[i + 1] = MergeBits(f, Above(a, i + 1), Above(b, i + 1), k)
        BY <1>6, <2>1 DEF k
  <2>9. r[i] = MergeBits(f, Limb(a, i), Limb(b, i), LimbBits)
        BY <1>1
  <2> QED
      BY <1>2, <2>2, <2>3, <2>6, <2>7, <2>8, <2>9, Zenon
<1>8. g[n + 1] = 0
  <2>1. n + 1 \in 1 .. n + 1 /\ m + 1 - (n + 1) \in Nat
        OBVIOUS
  <2>2. LimbBits * (m + 1 - (n + 1)) \in Nat
        BY <1>2, <2>1
  <2> QED
      BY <1>6, <2>1, <2>2
<1>9. g[1] = MergeBits(f, Value(a), Value(b), LimbBits * m)
  <2>1. 1 \in 1 .. n + 1 /\ m + 1 - 1 = m
        OBVIOUS
  <2>2. Above(a, 1) = Value(a) /\ Above(b, 1) = Value(b)
        BY AboveIs
  <2> QED
      BY <1>6, <2>1, <2>2
<1>10. Value(r) = g[1]
      BY <1>5, <1>7, <1>8, ValueBy
<1> QED
    BY <1>5, <1>9, <1>10 DEF r

\* bn_or, bn_and, bn_xor: the merges of the numbers by the truth tables.
THEOREM BitwiseExact ==
    ASSUME NEW a \in Limbs, NEW b \in Limbs, a # <<>>, b # <<>>, Len(a) <= MaxLimbs, Len(b) <= MaxLimbs
    PROVE  /\ LimbsOr(a, b) \in Limbs /\ Len(LimbsOr(a, b)) \in 1 .. MaxLimbs
           /\ Value(LimbsOr(a, b)) = Merge(TheOr, Value(a), Value(b))
           /\ LimbsAnd(a, b) \in Limbs /\ Len(LimbsAnd(a, b)) \in 1 .. MaxLimbs
           /\ Value(LimbsAnd(a, b)) = Merge(TheAnd, Value(a), Value(b))
           /\ LimbsXor(a, b) \in Limbs /\ Len(LimbsXor(a, b)) \in 1 .. MaxLimbs
           /\ Value(LimbsXor(a, b)) = Merge(TheXor, Value(a), Value(b))
<1>1. Len(a) \in Nat /\ Len(a) >= 1 /\ Len(b) \in Nat /\ Len(b) >= 1 /\ MaxLimbs \in Nat
  <2>1. Len(a) \in Nat /\ Len(a) # 0
        BY LimbIs DEF Limbs
  <2>2. Len(b) \in Nat /\ Len(b) # 0
        BY LimbIs DEF Limbs
  <2>3. MaxLimbs \in Nat
        BY BaseIs
  <2> QED
      BY <2>1, <2>2, <2>3
<1> DEFINE n == Larger(Len(a), Len(b))
           m == Smaller(Len(a), Len(b))
<1>2. n \in Nat /\ n \in 1 .. MaxLimbs /\ n >= Len(a) /\ n >= Len(b) /\ n <= MaxLimbs
      BY <1>1 DEF Larger
<1>3. m \in Nat /\ m \in 1 .. MaxLimbs /\ (m >= Len(a) \/ m >= Len(b)) /\ m <= MaxLimbs
      BY <1>1 DEF Smaller
<1> HIDE DEF n, m
<1>4. n + 1 \in Nat /\ n + 1 > Len(a) /\ n + 1 > Len(b)
      BY <1>1, <1>2
<1>5. Above(a, n + 1) = 0 /\ Above(b, n + 1) = 0
      BY <1>4, AboveIs
<1>6. ASSUME NEW f \in Tables, f[<<0, 0>>] = 0
      PROVE  \A k \in Nat : MergeBits(f, Above(a, n + 1), Above(b, n + 1), k) = 0
  <2>1. \A i \in Nat : f[<<Bit(0, i), Bit(0, i)>>] = 0
    <3>1. \A i \in Nat : Bit(0, i) = 0
          BY BitIs
    <3> QED
        BY <1>6, <3>1
  <2>2. 0 \in Nat
        OBVIOUS
  <2>3. \A k \in Nat : MergeBits(f, 0, 0, k) = 0
        BY <2>1, <2>2, MergeNothing
  <2> QED
      BY <1>5, <2>3
<1>7. m + 1 \in Nat /\ (m + 1 > Len(a) \/ m + 1 > Len(b))
      BY <1>1, <1>3
<1>8. Above(a, m + 1) \in Nat /\ Above(b, m + 1) \in Nat /\ (Above(a, m + 1) = 0 \/ Above(b, m + 1) = 0)
      BY <1>7, AboveIs
<1>9. \A k \in Nat : MergeBits(TheAnd, Above(a, m + 1), Above(b, m + 1), k) = 0
  <2> DEFINE x == Above(a, m + 1)
             y == Above(b, m + 1)
  <2> HIDE DEF x, y
  <2>1. ASSUME NEW i \in Nat
        PROVE  TheAnd[<<Bit(x, i), Bit(y, i)>>] = 0
    <3>1. Bit(x, i) \in 0 .. 1 /\ Bit(y, i) \in 0 .. 1 /\ Bit(0, i) = 0
          BY <1>8, BitIs DEF x, y
    <3>2. Bit(x, i) = 0 \/ Bit(y, i) = 0
          BY <1>8, <3>1 DEF x, y
    <3> QED
        BY <3>1, <3>2, TablesGive
  <2>2. x \in Nat /\ y \in Nat
        BY <1>8 DEF x, y
  <2>3. \A k \in Nat : MergeBits(TheAnd, x, y, k) = 0
        BY <2>1, <2>2, TablesAre, MergeNothing
  <2> QED
      BY <2>3 DEF x, y
<1>10. /\ LimbsOr(a, b) \in Limbs /\ Len(LimbsOr(a, b)) = n
       /\ Value(LimbsOr(a, b)) = Merge(TheOr, Value(a), Value(b))
  <2>1. \A k \in Nat : MergeBits(TheOr, Above(a, n + 1), Above(b, n + 1), k) = 0
        BY <1>6, TablesAre, TablesGive
  <2>2. LimbsOr(a, b) = MergeLimbs(TheOr, a, b, n) /\ TheOr \in Tables
        BY TablesAre DEF LimbsOr, n
  <2> QED
      BY <1>1, <1>2, <2>1, <2>2, MergeExact DEF Merge
<1>11. /\ LimbsXor(a, b) \in Limbs /\ Len(LimbsXor(a, b)) = n
       /\ Value(LimbsXor(a, b)) = Merge(TheXor, Value(a), Value(b))
  <2>1. \A k \in Nat : MergeBits(TheXor, Above(a, n + 1), Above(b, n + 1), k) = 0
        BY <1>6, TablesAre, TablesGive
  <2>2. LimbsXor(a, b) = MergeLimbs(TheXor, a, b, n) /\ TheXor \in Tables
        BY TablesAre DEF LimbsXor, n
  <2> QED
      BY <1>1, <1>2, <2>1, <2>2, MergeExact DEF Merge
<1>12. /\ LimbsAnd(a, b) \in Limbs /\ Len(LimbsAnd(a, b)) = m
       /\ Value(LimbsAnd(a, b)) = Merge(TheAnd, Value(a), Value(b))
  <2>1. LimbsAnd(a, b) = MergeLimbs(TheAnd, a, b, m) /\ TheAnd \in Tables
        BY TablesAre DEF LimbsAnd, m
  <2> QED
      BY <1>1, <1>3, <1>9, <2>1, MergeExact DEF Merge
<1> QED
    BY <1>2, <1>3, <1>10, <1>11, <1>12

-----------------------------------------------------------------------------
(* Dividing two limbs by one, a bit at a time.                             *)

\* The base is even.
LEMMA BaseHalves == \E h \in Nat \ {0} : B = 2 * h
<1>1. LimbBits \in Nat \ {0, 1} /\ B = Two[LimbBits]
      BY BaseIs
<1>2. LimbBits - 1 \in Nat /\ (LimbBits - 1) + 1 = LimbBits
      BY <1>1
<1>3. Two[(LimbBits - 1) + 1] = 2 * Two[LimbBits - 1] /\ Two[LimbBits - 1] \in Nat \ {0}
      BY <1>2, BaseIs, TwoNat
<1> QED
    BY <1>1, <1>2, <1>3

\* One bit brought down to the remainder r: what is left with v taken off or not.
Down1(r, bit) == ((2 * r) % B) + bit
\* The divisor can be taken off: the remainder left its limb or is large enough.
Goes(r, bit, v) == 2 * r >= B \/ Down1(r, bit) >= v

\* What one step of the restoring division does.
BitStep(r, bit, v) ==
    /\ Down1(r, bit) \in 0 .. B - 1 /\ (Down1(r, bit) - v) % B \in 0 .. B - 1
    /\ r < v => IF Goes(r, bit, v)
                THEN (Down1(r, bit) - v) % B = 2 * r + bit - v /\ (Down1(r, bit) - v) % B \in 0 .. v - 1
                ELSE Down1(r, bit) = 2 * r + bit /\ Down1(r, bit) \in 0 .. v - 1

\* It takes the divisor off as often as it fits, once or not at all.
LEMMA BitStepIs ==
    ASSUME NEW r \in 0 .. B - 1, NEW bit \in 0 .. 1, NEW v \in 1 .. B - 1
    PROVE  BitStep(r, bit, v)
<1> DEFINE x == Down1(r, bit)
           y == (x - v) % B
<1>1. PICK h \in Nat \ {0} : B = 2 * h
      BY BaseHalves
<1>2. B \in Nat \ {0} /\ B \in Int
      BY BaseNat
<1>3. r \in Int /\ bit \in Int /\ v \in Int /\ 2 * r \in Int
      BY <1>2
<1>4. 2 * r < B => (2 * r) % B = 2 * r
  <2> SUFFICES ASSUME 2 * r < B
               PROVE  (2 * r) % B = 2 * r
      OBVIOUS
  <2>1. 2 * r \in 0 .. B - 1 /\ 2 * r = B * 0 + 2 * r
        BY <1>2, <1>3
  <2> DEFINE z == 2 * r
  <2>2. z \in 0 .. B - 1 /\ z = B * 0 + z /\ z \in Int /\ 0 \in Int
        BY <1>3, <2>1
  <2> HIDE DEF z
  <2>3. z % B = z
        BY <1>2, <2>2, QuotientIs
  <2> QED
      BY <2>3 DEF z
<1>5. 2 * r >= B => (2 * r) % B = 2 * r - B
  <2> SUFFICES ASSUME 2 * r >= B
               PROVE  (2 * r) % B = 2 * r - B
      OBVIOUS
  <2> DEFINE z == 2 * r
             t == 2 * r - B
  <2>1. z \in Int /\ t \in 0 .. B - 1 /\ z = B * 1 + t /\ 1 \in Int
        BY <1>2, <1>3
  <2> HIDE DEF z, t
  <2>2. z % B = t
        BY <1>2, <2>1, QuotientIs
  <2> QED
      BY <2>2 DEF z, t
<1>6. x = IF 2 * r >= B THEN 2 * r - B + bit ELSE 2 * r + bit
      BY <1>3, <1>2, <1>4, <1>5 DEF Down1
<1>7. x \in 0 .. B - 1
      BY <1>1, <1>2, <1>3, <1>6
<1> HIDE DEF x
<1>8. y \in 0 .. B - 1
  <2>1. x - v \in Int
        BY <1>2, <1>3, <1>7
  <2> QED
      BY <1>2, <2>1, Quotient
<1>9. ASSUME NEW t \in 0 .. B - 1, NEW k \in 0 .. 1, x - v = t - B * k
      PROVE  y = t
  <2> DEFINE z == x - v
             c == 0 - k
  <2>2. t \in Int /\ k \in Int /\ B * c = 0 - B * k
        BY <1>2
  <2>1. z \in Int /\ c \in Int /\ z = B * c + t
        BY <1>2, <1>3, <1>7, <1>9, <2>2
  <2> HIDE DEF z, c
  <2>3. z % B = t
        BY <1>2, <2>1, QuotientIs
  <2> QED
      BY <2>3 DEF z
<1> HIDE DEF y
<1>10. ASSUME r < v
       PROVE  IF 2 * r >= B \/ x >= v THEN y = 2 * r + bit - v /\ y \in 0 .. v - 1
                                      ELSE x = 2 * r + bit /\ x \in 0 .. v - 1
  <2>1. CASE 2 * r >= B
    <3>1. 2 * r + bit - v \in 0 .. v - 1 /\ 2 * r + bit - v \in 0 .. B - 1
          BY <1>2, <1>3, <1>10, <2>1
    <3>2. B * 1 = B /\ 1 \in 0 .. 1
          BY <1>2
    <3>3. x - v = (2 * r + bit - v) - B * 1
          BY <1>2, <1>3, <1>6, <2>1, <3>2
    <3>4. y = 2 * r + bit - v
          BY <1>9, <3>1, <3>2, <3>3
    <3> QED
        BY <2>1, <3>1, <3>4
  <2>2. CASE ~(2 * r >= B)
    <3>1. x = 2 * r + bit
          BY <1>6, <2>2
    <3>2. CASE x >= v
      <4>1. x - v \in 0 .. v - 1 /\ x - v \in 0 .. B - 1 /\ B * 0 = 0 /\ 0 \in 0 .. 1
            BY <1>2, <1>3, <1>10, <3>1, <3>2
      <4>2. x - v = (x - v) - B * 0
            BY <1>2, <1>3, <1>7, <4>1
      <4>3. y = x - v
            BY <1>9, <4>1, <4>2
      <4>4. y = 2 * r + bit - v
            BY <1>3, <3>1, <4>3
      <4> QED
          BY <3>2, <4>1, <4>3, <4>4
    <3>3. CASE ~(x >= v)
      <4>1. x \in 0 .. v - 1
            BY <1>2, <1>3, <1>7, <3>3
      <4> QED
          BY <2>2, <3>1, <3>3, <4>1
    <3> QED
        BY <3>2, <3>3
  <2> QED
      BY <2>1, <2>2
<1> QED
    BY <1>7, <1>8, <1>10 DEF BitStep, Goes, x, y

\* One step of DivLimb.
BitDown(s, u0, v, i) ==
    IF Goes(s.r, Bit(u0, i), v)
    THEN [q |-> s.q + Two[i], r |-> (Down1(s.r, Bit(u0, i)) - v) % B]
    ELSE [q |-> s.q, r |-> Down1(s.r, Bit(u0, i))]

\* All of them.
BitsDown(u1, u0, v) ==
    CHOOSE f : f = [i \in 0 .. LimbBits |->
        IF i = LimbBits THEN [q |-> 0, r |-> u1] ELSE BitDown(f[i + 1], u0, v, i)]

\* DivLimb by its recurrence.
LEMMA BitsDownAre ==
    ASSUME NEW u1 \in 0 .. B - 1, NEW u0 \in 0 .. B - 1, NEW v \in 1 .. B - 1
    PROVE  /\ DivLimb(u1, u0, v) = BitsDown(u1, u0, v)[0]
           /\ BitsDown(u1, u0, v)[LimbBits] = [q |-> 0, r |-> u1]
           /\ \A i \in 0 .. LimbBits - 1 : BitsDown(u1, u0, v)[i] = BitDown(BitsDown(u1, u0, v)[i + 1], u0, v, i)
<1> DEFINE n == LimbBits
           S == [q : Nat, r : 0 .. B - 1]
           c == [q |-> 0, r |-> u1]
           Is(f) == f = [i \in 0 .. n |-> IF i = n THEN c ELSE BitDown(f[i + 1], u0, v, i)]
           step == [p \in (0 .. n - 1) \X S |-> BitDown(p[2], u0, v, p[1])]
<1>1. n \in Nat
      BY BaseIs
<1> HIDE DEF n
<1>2. ASSUME NEW i \in 0 .. n - 1, NEW s \in S
      PROVE  BitDown(s, u0, v, i) \in S
  <2>1. s.q \in Nat /\ s.r \in 0 .. B - 1 /\ i \in Nat /\ u0 \in Nat
        BY <1>1
  <2>2. Bit(u0, i) \in 0 .. 1
        BY <2>1, BitIs
  <2>3. BitStep(s.r, Bit(u0, i), v)
        BY <2>1, <2>2, BitStepIs
  <2>4. Down1(s.r, Bit(u0, i)) \in 0 .. B - 1 /\ (Down1(s.r, Bit(u0, i)) - v) % B \in 0 .. B - 1
        BY <2>3 DEF BitStep
  <2>5. s.q + Two[i] \in Nat
        BY <2>1, TwoNat
  <2> QED
      BY <2>1, <2>4, <2>5 DEF BitDown
<1>3. \A i \in 0 .. n - 1 : \A s \in S : step[<<i, s>>] = BitDown(s, u0, v, i)
      OBVIOUS
<1>4. step \in [(0 .. n - 1) \X S -> S]
      BY <1>2
<1>5. c \in S
      OBVIOUS
<1> HIDE DEF step, S, c
<1>6. PICK g \in [0 .. n -> S] : Downward(g, 0, n, c, step)
  <2>1. 0 \in Int /\ n \in Int /\ \A i \in 0 .. n : i < n => i \in 0 .. n - 1
        BY <1>1
  <2> QED
      BY <1>4, <1>5, <2>1, ChainDown, Zenon
<1>7. Is(g)
  <2>1. \A i \in 0 .. n : i # n => i \in 0 .. n - 1 /\ g[i + 1] \in S
        BY <1>1
  <2>2. g = [i \in 0 .. n |-> IF i = n THEN c ELSE step[<<i, g[i + 1]>>]]
        BY <1>6 DEF Downward
  <2> QED
      BY <2>1, <2>2, <1>3
<1>8. BitsDown(u1, u0, v) = CHOOSE f : Is(f)
      BY DEF BitsDown, n, c
<1>9. Is(BitsDown(u1, u0, v))
  <2> HIDE DEF Is
  <2> QED
      BY <1>7, <1>8
<1>10. DivLimb(u1, u0, v) = BitsDown(u1, u0, v)[0]
      BY DEF DivLimb, BitsDown, BitDown, Goes, Down1, Bit
<1> DEFINE F == BitsDown(u1, u0, v)
<1>11. F = [i \in 0 .. n |-> IF i = n THEN c ELSE BitDown(F[i + 1], u0, v, i)]
      BY <1>9
<1> HIDE DEF F
<1>12. F[n] = c /\ \A i \in 0 .. n - 1 : F[i] = BitDown(F[i + 1], u0, v, i)
      BY <1>1, <1>11
<1> QED
    BY <1>10, <1>12 DEF F, n, c

\* After the bits from i up: k is the quotient so far.
DivAt(s, u1, u0, v, i, k) ==
    /\ k \in 0 .. Two[LimbBits - i] - 1 /\ s.q = Two[i] * k /\ s.r \in 0 .. B - 1
    /\ u1 < v => s.r < v /\ u1 * Two[LimbBits - i] + (u0 \div Two[i]) = k * v + s.r

\* The bits so far times the divisor, and what is left.
BitParts(u, c, x, y, k, v, r, bit, e, z) ==
    u * c + y = k * v + r /\ x = 2 * y + bit /\ z = 2 * r + bit - e * v => u * (2 * c) + x = (2 * k + e) * v + z
\* BitParts, for all integers.
LEMMA BitPartsAre == \A u, c, x, y, k, v, r, bit, e, z \in Int : BitParts(u, c, x, y, k, v, r, bit, e, z)
<1> SUFFICES ASSUME NEW u \in Int, NEW c \in Int, NEW x \in Int, NEW y \in Int, NEW k \in Int, NEW v \in Int,
                    NEW r \in Int, NEW bit \in Int, NEW e \in Int, NEW z \in Int,
                    u * c + y = k * v + r, x = 2 * y + bit, z = 2 * r + bit - e * v
             PROVE  u * (2 * c) + x = (2 * k + e) * v + z
    BY DEF BitParts
<1>1. u * (2 * c) = 2 * (u * c) /\ (2 * k + e) * v = 2 * (k * v) + e * v
      OBVIOUS
<1>2. u * c \in Int /\ k * v \in Int /\ e * v \in Int
      OBVIOUS
<1> QED
    BY <1>1, <1>2

\* One step keeps the quotient and the remainder so far.
LEMMA DivAtNext ==
    ASSUME NEW u1 \in 0 .. B - 1, NEW u0 \in 0 .. B - 1, NEW v \in 1 .. B - 1, NEW i \in 0 .. LimbBits - 1,
           NEW s, NEW k, DivAt(s, u1, u0, v, i + 1, k)
    PROVE  \E j : DivAt(BitDown(s, u0, v, i), u1, u0, v, i, j)
<1> DEFINE m == Two[i]
           c == Two[LimbBits - (i + 1)]
           bit == Bit(u0, i)
           r == s.r
           x == u0 \div m
           y == u0 \div (2 * m)
           t == BitDown(s, u0, v, i)
<1>1. LimbBits \in Nat /\ i \in Nat /\ i + 1 \in Nat /\ LimbBits - (i + 1) \in Nat /\ (LimbBits - (i + 1)) + 1 = LimbBits - i
  <2>1. LimbBits \in Nat
        BY BaseIs
  <2> QED
      BY <2>1
<1>2. m \in Nat \ {0} /\ c \in Nat \ {0}
      BY <1>1, TwoNat
<1>3. Two[i + 1] = 2 * m
      BY <1>1, BaseIs
<1>4. Two[LimbBits - i] = 2 * c
  <2>1. Two[(LimbBits - (i + 1)) + 1] = 2 * c
        BY <1>1, BaseIs
  <2> QED
      BY <1>1, <2>1
<1>5. u0 \in Nat /\ u1 \in Nat /\ v \in Nat /\ B \in Nat
      BY BaseNat
<1>6. bit \in 0 .. 1 /\ bit = x % 2
      BY <1>1, <1>5, BitIs DEF Bit
<1> HIDE DEF m, c, bit, r
<1>7. k \in 0 .. c - 1 /\ s.q = (2 * m) * k /\ r \in 0 .. B - 1
      BY <1>3 DEF DivAt, c, r
<1>8. x = 2 * y + bit /\ x \in Nat /\ y \in Nat
  <2>1. x \in Nat
        BY <1>2, <1>5, QuotientNat
  <2>2. (u0 \div m) \div 2 = u0 \div (m * 2) /\ m * 2 = 2 * m
    <3>1. 2 \in Nat \ {0} /\ m * 2 = 2 * m
          BY <1>2
    <3>2. (u0 \div m) \div 2 = u0 \div (m * 2)
          BY <1>2, <1>5, <3>1, QuotientTwice
    <3> QED
        BY <3>1, <3>2
  <2>3. y = x \div 2
        BY <2>2
  <2> HIDE DEF x, y
  <2>4. x = 2 * (x \div 2) + (x % 2) /\ x \div 2 \in Nat
        BY <2>1
  <2> QED
      BY <1>6, <2>1, <2>3, <2>4
<1>9. u1 < v => r < v /\ u1 * c + y = k * v + r
      BY <1>3 DEF DivAt, c, r
<1>10. BitStep(r, bit, v)
      BY <1>6, <1>7, BitStepIs
<1> HIDE DEF x, y
<1> DEFINE e == IF Goes(r, bit, v) THEN 1 ELSE 0
           j == 2 * k + e
<1>11. e \in 0 .. 1 /\ j \in 0 .. 2 * c - 1
      BY <1>2, <1>7
<1>12. t.q = m * j
  <2>1. t.q = (2 * m) * k + e * m
    <3>1. t.q = IF Goes(r, bit, v) THEN s.q + m ELSE s.q
          BY DEF BitDown, r, bit, m
    <3>2. (2 * m) * k \in Int
          BY <1>2, <1>7
    <3>3. 1 * m = m /\ 0 * m = 0
          BY <1>2
    <3> QED
        BY <1>7, <3>1, <3>2, <3>3
  <2> HIDE DEF e
  <2>2. (2 * m) * k + e * m = m * (2 * k + e)
        BY <1>2, <1>7, <1>11
  <2> QED
      BY <2>1, <2>2
<1>13. t.r = IF Goes(r, bit, v) THEN (Down1(r, bit) - v) % B ELSE Down1(r, bit)
      BY DEF BitDown, r, bit
<1>14. t.r \in 0 .. B - 1
      BY <1>10, <1>13 DEF BitStep
<1>15. u1 < v => t.r < v /\ t.r = 2 * r + bit - e * v
  <2> SUFFICES ASSUME u1 < v
               PROVE  t.r < v /\ t.r = 2 * r + bit - e * v
      OBVIOUS
  <2>1. r < v
        BY <1>9
  <2>2. r \in Int /\ bit \in Int /\ v \in Int
        BY <1>5, <1>6, <1>7
  <2>3. CASE Goes(r, bit, v)
    <3>1. t.r = 2 * r + bit - v /\ t.r \in 0 .. v - 1
          BY <1>10, <1>13, <2>1, <2>3 DEF BitStep
    <3>2. e * v = v
          BY <2>2, <2>3
    <3> QED
        BY <2>2, <3>1, <3>2
  <2>4. CASE ~Goes(r, bit, v)
    <3>1. t.r = 2 * r + bit /\ t.r \in 0 .. v - 1
          BY <1>10, <1>13, <2>1, <2>4 DEF BitStep
    <3>2. e * v = 0
          BY <2>2, <2>4
    <3> QED
        BY <2>2, <3>1, <3>2
  <2> QED
      BY <2>3, <2>4
<1> HIDE DEF e, t
<1>16. u1 < v => u1 * (2 * c) + x = j * v + t.r
  <2>1. /\ u1 \in Int /\ c \in Int /\ x \in Int /\ y \in Int /\ k \in Int /\ v \in Int /\ r \in Int /\ bit \in Int
        /\ e \in Int /\ t.r \in Int
        BY <1>2, <1>5, <1>6, <1>7, <1>8, <1>11, <1>14
  <2>2. BitParts(u1, c, x, y, k, v, r, bit, e, t.r)
        BY <2>1, BitPartsAre
  <2> QED
      BY <1>8, <1>9, <1>15, <2>2 DEF BitParts
<1> HIDE DEF j
<1>17. DivAt(t, u1, u0, v, i, j)
      BY <1>4, <1>11, <1>12, <1>14, <1>15, <1>16 DEF DivAt, m, x
<1> QED
    BY <1>17 DEF t

\* divlu64: restoring division by a limb the high part is less than.
DivLimbSound(d, u1, u0, v) ==
    /\ d \in [q : 0 .. B - 1, r : 0 .. B - 1]
    /\ u1 < v => d.r < v /\ u1 * B + u0 = d.q * v + d.r

\* divlu64: the quotient and the remainder of two limbs by one, if the high
\* limb is less than the divisor; limbs in any case.
THEOREM DivLimbExact ==
    ASSUME NEW u1 \in 0 .. B - 1, NEW u0 \in 0 .. B - 1, NEW v \in 1 .. B - 1
    PROVE  DivLimbSound(DivLimb(u1, u0, v), u1, u0, v)
<1> DEFINE F == BitsDown(u1, u0, v)
           n == LimbBits
           T == {i \in 0 .. n : \E k : DivAt(F[i], u1, u0, v, i, k)}
<1>1. /\ DivLimb(u1, u0, v) = F[0] /\ F[n] = [q |-> 0, r |-> u1]
      /\ \A i \in 0 .. n - 1 : F[i] = BitDown(F[i + 1], u0, v, i)
      BY BitsDownAre
<1>2. n \in Nat /\ Two[n] = B /\ Two[0] = 1 /\ B \in Nat \ {0} /\ u0 \in Nat /\ u1 \in Nat /\ u0 < B
  <2>1. n \in Nat /\ Two[n] = B /\ Two[0] = 1
        BY BaseIs
  <2> QED
      BY <2>1, BaseNat
<1> HIDE DEF F
<1>3. n \in T
  <2>1. n - n = 0 /\ n \in 0 .. n
        BY <1>2
  <2>2. u0 \div B = 0
    <3>1. u0 \in 0 .. B - 1 /\ u0 = B * 0 + u0 /\ u0 \in Int /\ 0 \in Int
          BY <1>2
    <3> QED
        BY <1>2, <3>1, QuotientIs
  <2>3. F[n].q = Two[n] * 0 /\ F[n].r = u1 /\ 0 \in 0 .. Two[n - n] - 1
        BY <1>1, <1>2, <2>1
  <2>4. u1 * Two[n - n] + (u0 \div Two[n]) = 0 * v + F[n].r
    <3>1. u1 * 1 + 0 = u1 /\ 0 * v + u1 = u1
          BY <1>2, BaseNat
    <3> QED
        BY <1>2, <2>1, <2>2, <2>3, <3>1
  <2>5. DivAt(F[n], u1, u0, v, n, 0)
        BY <1>2, <2>3, <2>4 DEF DivAt
  <2> QED
      BY <2>1, <2>5
<1>4. ASSUME NEW i \in 0 .. n, i < n, i + 1 \in T
      PROVE  i \in T
  <2>1. i \in 0 .. LimbBits - 1
        BY <1>2, <1>4
  <2>2. PICK k : DivAt(F[i + 1], u1, u0, v, i + 1, k)
        BY <1>4
  <2>3. \E j : DivAt(BitDown(F[i + 1], u0, v, i), u1, u0, v, i, j)
        BY <2>1, <2>2, DivAtNext
  <2>4. F[i] = BitDown(F[i + 1], u0, v, i)
        BY <1>1, <2>1
  <2> QED
      BY <2>3, <2>4
<1> HIDE DEF T
<1>5. \A i \in 0 .. n : i \in T
  <2>1. 0 \in Int /\ n \in Int
        BY <1>2
  <2> QED
      BY <1>3, <1>4, <2>1, InductDown
<1>6. PICK k : DivAt(F[0], u1, u0, v, 0, k)
  <2>1. 0 \in 0 .. n
        BY <1>2
  <2> QED
      BY <1>5, <2>1 DEF T
<1> DEFINE d == F[0]
<1>7. /\ k \in 0 .. B - 1 /\ d.q = 1 * k /\ d.r \in 0 .. B - 1
      /\ u1 < v => d.r < v /\ u1 * B + (u0 \div 1) = k * v + d.r
  <2>1. n - 0 = n
        BY <1>2
  <2> QED
      BY <1>2, <1>6, <2>1 DEF DivAt
<1>8. d.q = k /\ u0 \div 1 = u0
      BY <1>2, <1>7
<1>10. d = [q |-> d.q, r |-> d.r]
  <2>1. 0 \in 0 .. n - 1
        BY <1>2, BaseIs
  <2>2. F[0] = BitDown(F[0 + 1], u0, v, 0)
        BY <1>1, <2>1
  <2> QED
      BY <2>2 DEF BitDown
<1> HIDE DEF d
<1>11. d \in [q : 0 .. B - 1, r : 0 .. B - 1]
      BY <1>7, <1>8, <1>10
<1>9. DivLimbSound(d, u1, u0, v)
      BY <1>7, <1>8, <1>11 DEF DivLimbSound
<1> QED
    BY <1>1, <1>9 DEF d

-----------------------------------------------------------------------------
(* Dividing by a divisor of one limb.                                      *)

\* The places of div1.
Shorts(u, v) ==
    CHOOSE f : f = [i \in 1 .. Len(u) + 1 |->
        IF i = Len(u) + 1 THEN [q |-> 0, r |-> 0] ELSE DivLimb(f[i + 1].r, u[i], v)]

\* Their recurrence.
ShortsSay(f, u, v, n) ==
    /\ f[n + 1].r = 0
    /\ \A i \in 1 .. n : f[i] = DivLimb(f[i + 1].r, u[i], v)
    /\ \A i \in 1 .. n + 1 : f[i] \in [q : 0 .. B - 1, r : 0 .. B - 1]

\* They satisfy it.
LEMMA ShortsAre ==
    ASSUME NEW u \in Limbs, NEW v \in 1 .. B - 1, NEW n \in Nat, n = Len(u)
    PROVE  ShortsSay(Shorts(u, v), u, v, n)
<1> DEFINE S == [q : 0 .. B - 1, r : 0 .. B - 1]
           c == [q |-> 0, r |-> 0]
           Is(f) == f = [i \in 1 .. n + 1 |-> IF i = n + 1 THEN c ELSE DivLimb(f[i + 1].r, u[i], v)]
           step == [p \in (1 .. n) \X S |-> DivLimb(p[2].r, u[p[1]], v)]
<1>2. ASSUME NEW i \in 1 .. n, NEW s \in S
      PROVE  DivLimb(s.r, u[i], v) \in S
  <2>1. s.r \in 0 .. B - 1
        OBVIOUS
  <2>2. u[i] \in 0 .. B - 1
        BY LimbIs
  <2>3. DivLimbSound(DivLimb(s.r, u[i], v), s.r, u[i], v)
        BY <2>1, <2>2, DivLimbExact
  <2> QED
      BY <2>3 DEF DivLimbSound
<1>3. \A i \in 1 .. n : \A s \in S : step[<<i, s>>] = DivLimb(s.r, u[i], v)
      OBVIOUS
<1>4. step \in [(1 .. n) \X S -> S]
      BY <1>2
<1>5. c \in S
      BY BaseNat
<1>13. c.r = 0
      OBVIOUS
<1> HIDE DEF step, S, c
<1>6. PICK g \in [1 .. n + 1 -> S] : Downward(g, 1, n + 1, c, step)
  <2>1. 1 \in Int /\ n + 1 \in Int /\ \A i \in 1 .. n + 1 : i < n + 1 => i \in 1 .. n
        OBVIOUS
  <2> QED
      BY <1>4, <1>5, <2>1, ChainDown, Zenon
<1>7. Is(g)
  <2>1. \A i \in 1 .. n + 1 : i # n + 1 => i \in 1 .. n /\ g[i + 1] \in S
        OBVIOUS
  <2>2. g = [i \in 1 .. n + 1 |-> IF i = n + 1 THEN c ELSE step[<<i, g[i + 1]>>]]
        BY <1>6 DEF Downward
  <2> QED
      BY <2>1, <2>2, <1>3
<1>8. Shorts(u, v) = CHOOSE f : Is(f)
      BY DEF Shorts, c
<1>9. Is(Shorts(u, v))
  <2> HIDE DEF Is
  <2> QED
      BY <1>7, <1>8
<1> DEFINE F == Shorts(u, v)
<1>11. F = [i \in 1 .. n + 1 |-> IF i = n + 1 THEN c ELSE DivLimb(F[i + 1].r, u[i], v)]
      BY <1>9
<1> HIDE DEF F
<1>12. F[n + 1] = c /\ \A i \in 1 .. n : F[i] = DivLimb(F[i + 1].r, u[i], v)
      BY <1>11
<1>14. \A i \in 1 .. n + 1 : F[i] \in S
  <2> DEFINE T == {i \in 1 .. n + 1 : F[i] \in S}
  <2>1. n + 1 \in T
        BY <1>5, <1>12
  <2>2. ASSUME NEW i \in 1 .. n + 1, i < n + 1, i + 1 \in T
        PROVE  i \in T
    <3>1. i \in 1 .. n
          BY <2>2
    <3>2. F[i] = DivLimb(F[i + 1].r, u[i], v) /\ F[i + 1] \in S
          BY <1>12, <2>2, <3>1
    <3> QED
        BY <1>2, <3>1, <3>2
  <2> HIDE DEF T
  <2>3. 1 \in Int /\ n + 1 \in Int
        OBVIOUS
  <2>4. \A i \in 1 .. n + 1 : i \in T
        BY <2>1, <2>2, <2>3, InductDown
  <2> QED
      BY <2>4 DEF T
<1> QED
    BY <1>12, <1>13, <1>14 DEF F, S, ShortsSay

\* A digit and a remainder at a place, over those above it.
HornerShort(x, p, v, q, r, t, z) ==
    p = v * q + r /\ r * B + x = t * v + z => x + B * p = v * (t + B * q) + z
\* HornerShort, for all integers.
LEMMA HornerShorts == \A x, p, v, q, r, t, z \in Int : HornerShort(x, p, v, q, r, t, z)
<1>1. \A b, x, p, v, q, r, t, z \in Int :
          p = v * q + r /\ r * b + x = t * v + z => x + b * p = v * (t + b * q) + z
  <2> SUFFICES ASSUME NEW b \in Int, NEW x \in Int, NEW p \in Int, NEW v \in Int, NEW q \in Int, NEW r \in Int,
                      NEW t \in Int, NEW z \in Int, p = v * q + r, r * b + x = t * v + z
               PROVE  x + b * p = v * (t + b * q) + z
      OBVIOUS
  <2>1. b * (v * q + r) = v * (b * q) + r * b /\ v * (t + b * q) = t * v + v * (b * q)
        OBVIOUS
  <2>2. v * (b * q) \in Int /\ r * b \in Int /\ t * v \in Int
        OBVIOUS
  <2> QED
      BY <2>1, <2>2
<1> QED
    BY <1>1, BaseNat DEF HornerShort

\* div1: the quotient and the remainder by a divisor of one limb.
THEOREM DivShortExact ==
    ASSUME NEW u \in Limbs, u # <<>>, NEW v \in 1 .. B - 1
    PROVE  /\ DivShort(u, v).q \in Limbs /\ Len(DivShort(u, v).q) = Len(u)
           /\ DivShort(u, v).r \in Limbs /\ Len(DivShort(u, v).r) = 1
           /\ Value(DivShort(u, v).q) = Value(u) \div v
           /\ Value(DivShort(u, v).r) = Value(u) % v
<1> DEFINE n == Len(u)
           F == Shorts(u, v)
           d == DivShort(u, v)
           q == d.q
<1>1. n \in Nat /\ n >= 1
  <2>1. n \in Nat /\ n # 0
        BY LimbIs DEF Limbs
  <2> QED
      BY <2>1
<1>2. ShortsSay(F, u, v, n)
      BY <1>1, ShortsAre
<1>3. q = [i \in 1 .. n |-> F[i].q] /\ d.r = <<F[1].r>>
  <2>1. DOMAIN u = 1 .. n
        BY DEF Limbs
  <2>2. d = [q |-> [i \in DOMAIN u |-> F[i].q], r |-> <<F[1].r>>, sound |-> TRUE]
        BY DEF DivShort, Shorts
  <2> QED
      BY <2>1, <2>2
<1> HIDE DEF F, n, d
<1>4. /\ F[n + 1].r = 0
      /\ \A i \in 1 .. n : F[i] = DivLimb(F[i + 1].r, u[i], v)
      /\ \A i \in 1 .. n + 1 : F[i].q \in 0 .. B - 1 /\ F[i].r \in 0 .. B - 1
      BY <1>2 DEF ShortsSay
<1> HIDE DEF q
<1>5. q \in Limbs /\ Len(q) = n
  <2>1. q = [i \in 1 .. n |-> q[i]]
        BY <1>3
  <2>2. \A i \in 1 .. n : i \in 1 .. n + 1
        BY <1>1
  <2>3. \A i \in 1 .. n : q[i] \in 0 .. B - 1
        BY <1>3, <1>4, <2>2, Zenon
  <2> QED
      BY <1>1, <2>1, <2>3, LimbsAre
<1> DEFINE T == {i \in 1 .. n + 1 : F[i].r < v /\ Above(u, i) = v * Above(q, i) + F[i].r}
<1>6. v \in Int /\ v \in Nat \ {0}
      BY BaseNat
<1>7. n + 1 \in T
  <2>1. n + 1 \in Nat /\ n + 1 > Len(u) /\ n + 1 > Len(q) /\ n + 1 \in 1 .. n + 1
        BY <1>1, <1>5 DEF n
  <2>2. Above(u, n + 1) = 0 /\ Above(q, n + 1) = 0
        BY <1>5, <2>1, AboveIs
  <2>3. v * 0 + 0 = 0 /\ 0 < v
        BY <1>6
  <2> QED
      BY <1>4, <2>1, <2>2, <2>3
<1>8. ASSUME NEW i \in 1 .. n + 1, i < n + 1, i + 1 \in T
      PROVE  i \in T
  <2>1. i \in 1 .. n /\ i \in Nat \ {0} /\ i + 1 \in Nat /\ i + 1 \in 1 .. n + 1
        BY <1>1, <1>8
  <2> DEFINE r == F[i + 1].r
             x == u[i]
             t == F[i].q
             z == F[i].r
  <2>2. r \in 0 .. B - 1 /\ t \in 0 .. B - 1 /\ z \in 0 .. B - 1 /\ F[i] = DivLimb(r, x, v)
        BY <1>4, <2>1
  <2>3. x \in 0 .. B - 1
        BY <2>1, LimbIs DEF n
  <2>4. DivLimbSound(F[i], r, x, v)
        BY <2>2, <2>3, DivLimbExact
  <2>5. r < v /\ Above(u, i + 1) = v * Above(q, i + 1) + r
        BY <1>8
  <2>6. z < v /\ r * B + x = t * v + z
        BY <2>4, <2>5 DEF DivLimbSound
  <2>7. Above(u, i) = x + B * Above(u, i + 1)
    <3>1. Above(u, i) = Limb(u, i) + B * Above(u, i + 1)
          BY <2>1, AboveIs
    <3>2. Limb(u, i) = x
          BY <2>1, LimbIs DEF n
    <3> QED
        BY <3>1, <3>2
  <2>8. Above(q, i) = t + B * Above(q, i + 1)
    <3>1. Above(q, i) = Limb(q, i) + B * Above(q, i + 1)
          BY <1>5, <2>1, AboveIs
    <3>2. Limb(q, i) = t
      <4>1. Limb(q, i) = q[i]
            BY <1>5, <2>1, LimbIs
      <4> QED
          BY <1>3, <2>1, <4>1
    <3> QED
        BY <3>1, <3>2
  <2>9. Above(u, i + 1) \in Int /\ Above(q, i + 1) \in Int /\ x \in Int /\ r \in Int /\ t \in Int /\ z \in Int
    <3>1. Above(u, i + 1) \in Nat /\ Above(q, i + 1) \in Nat
          BY <1>5, <2>1, AboveIs
    <3> HIDE DEF x, r, t, z
    <3> QED
        BY <2>2, <2>3, <3>1
  <2> HIDE DEF x, r, t, z
  <2>10. HornerShort(x, Above(u, i + 1), v, Above(q, i + 1), r, t, z)
        BY <1>6, <2>9, HornerShorts
  <2>11. Above(u, i) = v * Above(q, i) + z
        BY <2>5, <2>6, <2>7, <2>8, <2>10 DEF HornerShort
  <2> QED
      BY <2>6, <2>11 DEF z
<1> HIDE DEF T
<1>9. \A i \in 1 .. n + 1 : i \in T
  <2>1. 1 \in Int /\ n + 1 \in Int
        BY <1>1
  <2> QED
      BY <1>7, <1>8, <2>1, InductDown
<1>10. 1 \in 1 .. n + 1
      BY <1>1
<1>11. F[1].r < v /\ Value(u) = v * Value(q) + F[1].r
  <2>1. F[1].r < v /\ Above(u, 1) = v * Above(q, 1) + F[1].r
        BY <1>9, <1>10 DEF T
  <2>2. Value(u) = Above(u, 1) /\ Value(q) = Above(q, 1)
        BY <1>5, AboveIs
  <2> QED
      BY <2>1, <2>2
<1>12. F[1].r \in 0 .. B - 1
      BY <1>4, <1>10
<1>13. F[1].r \in 0 .. v - 1 /\ Value(u) \in Int /\ Value(q) \in Int
  <2>1. Value(u) \in Nat /\ Value(q) \in Nat
        BY <1>5, ValueNat
  <2> QED
      BY <1>6, <1>11, <1>12, <2>1
<1>14. Value(u) \div v = Value(q) /\ Value(u) % v = F[1].r
      BY <1>6, <1>11, <1>13, QuotientIs
<1>15. d.r \in Limbs /\ Len(d.r) = 1 /\ Value(d.r) = F[1].r
      BY <1>3, <1>12, OneLimb
<1> QED
    BY <1>5, <1>14, <1>15 DEF d, q, n

-----------------------------------------------------------------------------
(* The estimate of a quotient digit (D3).                                  *)

\* A dividend with x above its limb low and nl below it, and a divisor with
\* the two leading limbs v1 and v2 and vl below them; p is the weight of low.
Leading(num, div, x, low, p, nl, v1, v2, vl) ==
    /\ p \in Nat \ {0} /\ x \in Nat /\ low \in 0 .. B - 1 /\ nl \in 0 .. p - 1
    /\ v1 \in 1 .. B - 1 /\ v2 \in 0 .. B - 1 /\ vl \in 0 .. p - 1
    /\ num = (x * B + low) * p + nl /\ div = (v1 * B + v2) * p + vl

\* What of it the proofs below use.
Leads(num, div, x, low, p, nl, v1, v2, vl) ==
    /\ p \in Nat \ {0} /\ x \in Nat /\ low \in Nat /\ nl \in Nat /\ v1 \in Nat \ {0} /\ v2 \in Nat /\ vl \in Nat
    /\ B \in Nat \ {0} /\ num \in Nat /\ div \in Nat /\ B * p \in Nat \ {0}
    /\ num = x * (B * p) + (low * p + nl) /\ low * p + nl \in 0 .. (B * p) - 1
    /\ div = v1 * (B * p) + (v2 * p + vl) /\ v2 * p + vl \in 0 .. (B * p) - 1

\* It follows.
LEMMA LeadingLeads ==
    ASSUME NEW num, NEW div, NEW x, NEW low, NEW p, NEW nl, NEW v1, NEW v2, NEW vl,
           Leading(num, div, x, low, p, nl, v1, v2, vl)
    PROVE  Leads(num, div, x, low, p, nl, v1, v2, vl)
<1>1. /\ p \in Nat \ {0} /\ x \in Nat /\ low \in 0 .. B - 1 /\ nl \in 0 .. p - 1
      /\ v1 \in 1 .. B - 1 /\ v2 \in 0 .. B - 1 /\ vl \in 0 .. p - 1
      BY DEF Leading
<1>2. num = (x * B + low) * p + nl /\ div = (v1 * B + v2) * p + vl
      BY DEF Leading
<1>3. B \in Nat \ {0}
      BY BaseNat
<1>4. low \in Nat /\ nl \in Nat /\ v1 \in Nat \ {0} /\ v2 \in Nat /\ vl \in Nat
      BY <1>1, <1>3
<1>5. \A b, y, z, w, r \in Nat : (y * b + z) * w + r = y * (b * w) + (z * w + r)
      OBVIOUS
<1>6. ASSUME NEW y \in 0 .. B - 1, NEW r \in 0 .. p - 1
      PROVE  y * p + r \in 0 .. (B * p) - 1
  <2>1. y \in Nat /\ y + 1 <= B /\ y + 1 \in Nat /\ B \in Nat /\ p \in Nat
        BY <1>1, <1>3
  <2>2. (y + 1) * p <= B * p
        BY <2>1, ProductMono
  <2>3. (y + 1) * p = y * p + p /\ y * p \in Nat
        BY <2>1
  <2>4. B * p \in Int
        BY <2>1
  <2> QED
      BY <2>1, <2>2, <2>3, <2>4
<1>7. num = x * (B * p) + (low * p + nl) /\ div = v1 * (B * p) + (v2 * p + vl)
  <2>1. p \in Nat /\ B \in Nat
        BY <1>1, <1>3
  <2>2. (x * B + low) * p + nl = x * (B * p) + (low * p + nl)
        BY <1>1, <1>4, <1>5, <2>1
  <2>3. (v1 * B + v2) * p + vl = v1 * (B * p) + (v2 * p + vl)
    <3>1. v1 \in Nat
          BY <1>4
    <3> QED
        BY <1>4, <1>5, <2>1, <3>1
  <2> QED
      BY <1>2, <2>2, <2>3
<1>8. low * p + nl \in 0 .. (B * p) - 1 /\ v2 * p + vl \in 0 .. (B * p) - 1
      BY <1>1, <1>6
<1>9. B * p \in Nat \ {0}
      BY <1>1, <1>3
<1>10. num \in Nat /\ div \in Nat
  <2> DEFINE w == B * p
             y == low * p + nl
             z == v2 * p + vl
  <2>1. w \in Nat /\ y \in 0 .. w - 1 /\ z \in 0 .. w - 1 /\ num = x * w + y /\ div = v1 * w + z
        BY <1>7, <1>8, <1>9
  <2> HIDE DEF w, y, z
  <2>2. x * w \in Nat /\ v1 * w \in Nat
        BY <1>1, <1>4, <2>1
  <2> QED
      BY <2>1, <2>2
<1> QED
    BY <1>1, <1>3, <1>4, <1>7, <1>8, <1>9, <1>10 DEF Leads

\* No multiple of the divisor that fits exceeds what the leading limbs allow.
LEMMA EstimateCovers ==
    ASSUME NEW num, NEW div, NEW x, NEW low, NEW p, NEW nl, NEW v1, NEW v2, NEW vl,
           Leading(num, div, x, low, p, nl, v1, v2, vl), NEW q \in Nat, q * div <= num
    PROVE  q * v1 <= x
<1> DEFINE w == B * p
           y == low * p + nl
           z == v2 * p + vl
<1>1. /\ x \in Nat /\ v1 \in Nat /\ num \in Nat /\ div \in Nat /\ w \in Nat \ {0}
      /\ num = x * w + y /\ y \in 0 .. w - 1 /\ div = v1 * w + z /\ z \in 0 .. w - 1
  <2>1. Leads(num, div, x, low, p, nl, v1, v2, vl)
        BY LeadingLeads
  <2> QED
      BY <2>1 DEF Leads
<1> HIDE DEF w, y, z
<1>2. SUFFICES ASSUME q * v1 > x
               PROVE  FALSE
  <2>1. q * v1 \in Int
        BY <1>1
  <2> QED
      BY <1>1, <2>1
<1>3. x + 1 <= q * v1 /\ q * v1 \in Nat /\ x + 1 \in Nat /\ w \in Nat
      BY <1>1, <1>2
<1>4. (x + 1) * w <= (q * v1) * w
      BY <1>3, ProductMono
<1>5. q * div = (q * v1) * w + q * z /\ q * z >= 0
  <2>1. \A a, b, c, d \in Nat : a * (b * c + d) = (a * b) * c + a * d /\ a * d >= 0
        OBVIOUS
  <2>2. z \in Nat
        BY <1>1
  <2> QED
      BY <1>1, <1>3, <2>1, <2>2
<1>6. (x + 1) * w = x * w + w
      BY <1>1
<1>7. x * w \in Int /\ (q * v1) * w \in Int /\ q * z \in Int
      BY <1>1, <1>3
<1> QED
    BY <1>1, <1>4, <1>5, <1>6, <1>7

\* The test of D3: a second limb that shows the estimate too large is right.
LEMMA EstimateLowers ==
    ASSUME NEW num, NEW div, NEW x, NEW low, NEW p, NEW nl, NEW v1, NEW v2, NEW vl,
           Leading(num, div, x, low, p, nl, v1, v2, vl),
           NEW q \in Nat, NEW t \in Nat, x = q * v1 + t, q * v2 > t * B + low
    PROVE  q * div > num
<1>1. /\ x \in Nat /\ v1 \in Nat /\ v2 \in Nat /\ vl \in Nat /\ low \in Nat /\ B \in Nat /\ p \in Nat /\ nl \in 0 .. p - 1
  <2>1. Leads(num, div, x, low, p, nl, v1, v2, vl)
        BY LeadingLeads
  <2>2. nl \in 0 .. p - 1
        BY DEF Leading
  <2> QED
      BY <2>1, <2>2 DEF Leads
<1>2. num = (x * B + low) * p + nl /\ div = (v1 * B + v2) * p + vl
      BY DEF Leading
<1>3. q * div = (q * v1 * B + q * v2) * p + q * vl
  <2>1. \A b, c, d, e, f, g \in Nat : b * ((c * d + e) * f + g) = (b * c * d + b * e) * f + b * g
        OBVIOUS
  <2> QED
      BY <1>1, <1>2, <2>1
<1>4. x * B + low + 1 <= q * v1 * B + q * v2
  <2>1. (q * v1 + t) * B = q * v1 * B + t * B
        BY <1>1
  <2>2. q * v1 * B \in Int /\ t * B \in Int /\ q * v2 \in Int
        BY <1>1
  <2>3. q * v2 >= t * B + low + 1
        BY <1>1, <2>2
  <2> QED
      BY <1>1, <2>1, <2>2, <2>3
<1> DEFINE y == x * B + low
           z == q * v1 * B + q * v2
<1>5. y \in Nat /\ z \in Nat /\ y + 1 <= z /\ y + 1 \in Nat
  <2>1. x * B \in Nat /\ q * v1 * B \in Nat /\ q * v2 \in Nat
        BY <1>1
  <2> QED
      BY <1>1, <1>4, <2>1
<1>6. num = y * p + nl /\ q * div = z * p + q * vl
      BY <1>2, <1>3
<1> HIDE DEF y, z
<1>7. (y + 1) * p <= z * p /\ (y + 1) * p = y * p + p
      BY <1>1, <1>5, ProductMono
<1>8. q * vl \in Nat /\ y * p \in Int /\ z * p \in Int
      BY <1>1, <1>5
<1> QED
    BY <1>1, <1>6, <1>7, <1>8

\* An estimate the second limb bears out is at most one too large.
LEMMA EstimateClose ==
    ASSUME NEW num, NEW div, NEW x, NEW low, NEW p, NEW nl, NEW v1, NEW v2, NEW vl,
           Leading(num, div, x, low, p, nl, v1, v2, vl),
           NEW q \in Nat, q < B, NEW t \in Nat, x = q * v1 + t, q * v2 <= t * B + low
    PROVE  (q - 1) * div <= num
<1>1. /\ x \in Nat /\ v1 \in Nat \ {0} /\ v2 \in Nat /\ vl \in 0 .. p - 1 /\ vl \in Nat /\ low \in Nat /\ B \in Nat \ {0}
      /\ p \in Nat \ {0} /\ nl \in Nat
      /\ div \in Nat /\ num \in Nat
  <2>1. Leads(num, div, x, low, p, nl, v1, v2, vl)
        BY LeadingLeads
  <2>2. vl \in 0 .. p - 1
        BY DEF Leading
  <2> QED
      BY <2>1, <2>2 DEF Leads
<1>2. num = (x * B + low) * p + nl /\ div = (v1 * B + v2) * p + vl
      BY DEF Leading
<1>3. q * div = (q * v1 * B + q * v2) * p + q * vl
  <2>1. \A b, c, d, e, f, g \in Nat : b * ((c * d + e) * f + g) = (b * c * d + b * e) * f + b * g
        OBVIOUS
  <2> QED
      BY <1>1, <1>2, <2>1
<1> DEFINE y == x * B + low
           z == q * v1 * B + q * v2
           d == v1 * B + v2
<1>4. z <= y
  <2>1. (q * v1 + t) * B = q * v1 * B + t * B
        BY <1>1
  <2>2. q * v1 * B \in Int /\ t * B \in Int /\ q * v2 \in Int
        BY <1>1
  <2> QED
      BY <1>1, <2>1, <2>2
<1>5. y \in Nat /\ z \in Nat /\ d \in Nat /\ B <= d
  <2>1. x * B \in Nat /\ q * v1 * B \in Nat /\ q * v2 \in Nat /\ v1 * B \in Nat
        BY <1>1
  <2>2. 1 * B <= v1 * B
    <3>1. 1 \in Nat /\ 1 <= v1 /\ v1 \in Nat /\ B \in Nat
          BY <1>1
    <3> QED
        BY <3>1, ProductMono
  <2>3. 1 * B = B
        BY <1>1
  <2> QED
      BY <1>1, <2>1, <2>2, <2>3
<1>6. num = y * p + nl /\ q * div = z * p + q * vl /\ div = d * p + vl
      BY <1>2, <1>3
<1> HIDE DEF y, z, d
<1>7. z * p <= y * p
      BY <1>1, <1>4, <1>5, ProductMono
<1>8. q * vl <= d * p
  <2>1. q * vl <= q * p
        BY <1>1, ProductMono
  <2>2. q * p <= d * p
        BY <1>1, <1>5, ProductMono
  <2>3. q * vl \in Int /\ q * p \in Int /\ d * p \in Int
        BY <1>1, <1>5
  <2> QED
      BY <2>1, <2>2, <2>3
<1>9. (q - 1) * div = q * div - div
      BY <1>1
<1>10. y * p \in Int /\ z * p \in Int /\ q * vl \in Int /\ d * p \in Int
      BY <1>1, <1>5
<1> QED
    BY <1>1, <1>6, <1>7, <1>8, <1>9, <1>10

\* An estimate whose remainder has left its limb is not too large.
LEMMA EstimateFits ==
    ASSUME NEW num, NEW div, NEW x, NEW low, NEW p, NEW nl, NEW v1, NEW v2, NEW vl,
           Leading(num, div, x, low, p, nl, v1, v2, vl),
           NEW q \in Nat, q < B, NEW t \in Nat, x = q * v1 + t, t >= B
    PROVE  q * div <= num
<1> DEFINE w == B * p
           y == low * p + nl
           z == v2 * p + vl
<1>1. /\ x \in Nat /\ v1 \in Nat /\ num \in Nat /\ div \in Nat /\ w \in Nat \ {0} /\ B \in Nat
      /\ num = x * w + y /\ y \in 0 .. w - 1 /\ div = v1 * w + z /\ z \in 0 .. w - 1
  <2>1. Leads(num, div, x, low, p, nl, v1, v2, vl)
        BY LeadingLeads
  <2> QED
      BY <2>1 DEF Leads
<1> HIDE DEF w, y, z
<1>2. z \in Nat /\ z <= w /\ w \in Nat /\ q <= t
      BY <1>1
<1>3. q * z <= q * w
      BY <1>2, ProductMono
<1>4. q * w <= t * w
      BY <1>2, ProductMono
<1>5. q * (v1 * w + z) = (q * v1) * w + q * z /\ (q * v1 + t) * w = (q * v1) * w + t * w
      BY <1>1, <1>2
<1>6. q * z \in Int /\ q * w \in Int /\ t * w \in Int /\ (q * v1) * w \in Int
      BY <1>1, <1>2
<1> QED
    BY <1>1, <1>3, <1>4, <1>5, <1>6

\* Another round of D3.
Again(qhat, rhat, v1, v2, low, k) == rhat + k * v1 < B /\ (qhat - k) * v2 > (rhat + k * v1) * B + low

\* The estimate lowered k times, and why the rounds ended.
RefinedBy(qhat, rhat, v1, v2, low, k) ==
    /\ k \in 0 .. 2 /\ qhat - k \in 0 .. B - 1
    /\ ~Again(qhat, rhat, v1, v2, low, k) /\ \A j \in 0 .. k - 1 : Again(qhat, rhat, v1, v2, low, j)
    /\ Refined(qhat, rhat, v1, v2, low) = qhat - k

\* The rounds end after two at the latest: the remainder has left its limb.
LEMMA RefinedIs ==
    ASSUME NEW qhat \in 0 .. B - 1, NEW rhat \in Nat, NEW v1 \in 0 .. B - 1, 2 * v1 >= B,
           NEW v2 \in 0 .. B - 1, NEW low \in 0 .. B - 1
    PROVE  \E k : RefinedBy(qhat, rhat, v1, v2, low, k)
<1> DEFINE again(k) == Again(qhat, rhat, v1, v2, low, k)
           T == {k \in 0 .. 2 : ~again(k)}
           Is(k) == ~again(k) /\ \A j \in 0 .. k - 1 : again(j)
<1>1. B \in Nat /\ qhat \in Nat /\ v1 \in Nat /\ v2 \in Nat /\ low \in Nat
      BY BaseNat
<1>2. 2 \in T
  <2>1. ~(rhat + 2 * v1 < B)
        BY <1>1
  <2>2. 2 \in 0 .. 2
        OBVIOUS
  <2> QED
      BY <2>1, <2>2 DEF Again
<1> HIDE DEF again
<1>3. T \subseteq Nat /\ T # {}
      BY <1>2
<1>4. PICK m \in T : \A k \in T : m <= k
      BY <1>3, Least
<1>5. m \in 0 .. 2 /\ Is(m)
  <2>1. m \in 0 .. 2 /\ ~again(m)
        BY <1>4
  <2>2. ASSUME NEW j \in 0 .. m - 1
        PROVE  again(j)
    <3>1. j \in 0 .. 2 /\ ~(m <= j)
          BY <2>1
    <3> QED
        BY <1>4, <3>1
  <2> QED
      BY <2>1, <2>2
<1>6. Refined(qhat, rhat, v1, v2, low) = qhat - (CHOOSE k \in 0 .. 2 : Is(k))
      BY DEF Refined, again, Again
<1> DEFINE c == CHOOSE k \in 0 .. 2 : Is(k)
<1>7. c \in 0 .. 2 /\ Is(c)
  <2> HIDE DEF Is
  <2> QED
      BY <1>5
<1> HIDE DEF c
<1>8. qhat - c \in 0 .. B - 1
  <2>1. CASE c = 0
        BY <1>1, <2>1
  <2>2. CASE c # 0
    <3>1. c - 1 \in 0 .. c - 1 /\ c - 1 \in Nat
          BY <1>7, <2>2
    <3>2. again(c - 1)
          BY <1>7, <3>1
    <3> DEFINE i == c - 1
    <3>3. i \in Nat /\ (qhat - i) * v2 > (rhat + i * v1) * B + low
          BY <3>1, <3>2 DEF again, Again
    <3> HIDE DEF i
    <3>4. (rhat + i * v1) * B \in Nat
          BY <1>1, <3>3
    <3>5. (qhat - i) * v2 > 0
      <4>1. (qhat - i) * v2 \in Int
            BY <1>1, <3>3
      <4> QED
          BY <1>1, <3>3, <3>4, <4>1
    <3>6. qhat - i > 0
      <4>1. \A a \in Int : \A b \in Nat : a * b > 0 => a > 0
            OBVIOUS
      <4>2. qhat - i \in Int
            BY <1>1, <3>3
      <4> QED
          BY <1>1, <3>5, <4>1, <4>2
    <3>7. qhat - (c - 1) > 0
          BY <3>6 DEF i
    <3> QED
        BY <1>1, <1>7, <3>7
  <2> QED
      BY <2>1, <2>2
<1>9. RefinedBy(qhat, rhat, v1, v2, low, c)
      BY <1>6, <1>7, <1>8 DEF RefinedBy, again, c
<1> QED
    BY <1>9

\* What the estimate of D3 promises of the dividend and the divisor: it is the
\* place of the quotient, or one more.
OneOver(num, div, qhat) ==
    /\ (qhat - 1) * div <= num
    /\ \A q \in Nat : q * div <= num => q <= qhat

\* D3: the estimate is the digit of the quotient or one more, if the two
\* leading limbs have a quotient that fits a limb.
THEOREM RefinedExact ==
    ASSUME NEW num, NEW div, NEW x, NEW low, NEW p, NEW nl, NEW v1, NEW v2, NEW vl,
           Leading(num, div, x, low, p, nl, v1, v2, vl), 2 * v1 >= B,
           NEW q \in 0 .. B - 1, NEW r \in 0 .. v1 - 1, x = q * v1 + r
    PROVE  OneOver(num, div, Refined(q, r, v1, v2, low))
<1>1. /\ v1 \in 0 .. B - 1 /\ v1 \in Nat \ {0} /\ v1 \in Nat /\ v2 \in 0 .. B - 1 /\ low \in 0 .. B - 1 /\ r \in Nat /\ q \in Nat
      /\ B \in Nat
      BY BaseNat DEF Leading
<1>2. PICK k : RefinedBy(q, r, v1, v2, low, k)
      BY <1>1, RefinedIs
<1> DEFINE t == r + k * v1
           qhat == q - k
<1>3. k \in 0 .. 2 /\ k \in Nat /\ qhat \in 0 .. B - 1 /\ qhat \in Nat /\ qhat < B
      BY <1>1, <1>2 DEF RefinedBy
<1>4. Refined(q, r, v1, v2, low) = qhat /\ ~(t < B /\ qhat * v2 > t * B + low)
      BY <1>2 DEF RefinedBy, Again
<1>5. ASSUME NEW i \in Nat, i <= q
      PROVE  x = (q - i) * v1 + (r + i * v1) /\ r + i * v1 \in Nat
  <2>1. (q - i) * v1 = q * v1 - i * v1 /\ i * v1 \in Nat /\ q * v1 \in Nat
        BY <1>1, <1>5
  <2> QED
      BY <1>1, <2>1
<1>6. x = qhat * v1 + t /\ t \in Nat
  <2>1. k <= q
        BY <1>1, <1>3
  <2> QED
      BY <1>3, <1>5, <2>1
<1>13. num \in Nat /\ div \in Nat
  <2>1. Leads(num, div, x, low, p, nl, v1, v2, vl)
        BY LeadingLeads
  <2> QED
      BY <2>1 DEF Leads
<1>7. ASSUME NEW c \in Nat, c * div <= num
      PROVE  c <= qhat
  <2>1. c <= q
    <3>1. c * v1 <= x
          BY <1>7, EstimateCovers
    <3>2. SUFFICES ASSUME c >= q + 1
                   PROVE  FALSE
          BY <1>1
    <3>3. (q + 1) * v1 <= c * v1 /\ (q + 1) * v1 = q * v1 + v1
      <4>1. q + 1 \in Nat /\ q + 1 <= c
            BY <1>1, <3>2
      <4>2. (q + 1) * v1 <= c * v1
            BY <1>1, <4>1, ProductMono
      <4> QED
          BY <1>1, <4>2
    <3>4. q * v1 \in Int /\ c * v1 \in Int /\ r < v1
          BY <1>1
    <3> QED
        BY <1>1, <3>1, <3>3, <3>4
  <2>2. CASE k = 0
        BY <1>1, <2>1, <2>2
  <2>3. CASE k # 0
    <3> DEFINE i == k - 1
    <3>1. i \in 0 .. k - 1 /\ i \in Nat /\ i <= q /\ q - i \in Nat
          BY <1>1, <1>3, <2>3
    <3>2. Again(q, r, v1, v2, low, i)
          BY <1>2, <3>1 DEF RefinedBy
    <3> HIDE DEF i
    <3>3. (q - i) * v2 > (r + i * v1) * B + low
          BY <3>2 DEF Again
    <3>4. x = (q - i) * v1 + (r + i * v1) /\ r + i * v1 \in Nat
          BY <1>5, <3>1
    <3>5. (q - i) * div > num
      <4> DEFINE a == q - i
                 b == r + i * v1
      <4>1. a \in Nat /\ b \in Nat /\ x = a * v1 + b /\ a * v2 > b * B + low
            BY <3>1, <3>3, <3>4
      <4> HIDE DEF a, b
      <4>2. a * div > num
            BY <4>1, EstimateLowers
      <4> QED
          BY <4>2 DEF a
    <3>6. ~(q - i <= c)
      <4> SUFFICES ASSUME q - i <= c
                   PROVE  FALSE
          OBVIOUS
      <4>1. (q - i) * div <= c * div
            BY <1>13, <3>1, ProductMono
      <4>2. (q - i) * div \in Int /\ c * div \in Int
            BY <1>13, <3>1
      <4> QED
          BY <1>7, <1>13, <3>5, <4>1, <4>2
    <3> QED
        BY <1>1, <1>3, <3>6, <2>3 DEF i
  <2> QED
      BY <2>2, <2>3
<1>8. (qhat - 1) * div <= num
  <2> HIDE DEF t, qhat
  <2>1. CASE t >= B
    <3>1. qhat * div <= num
          BY <1>3, <1>6, <2>1, EstimateFits
    <3>2. (qhat - 1) * div = qhat * div - div /\ qhat * div \in Int
          BY <1>3, <1>13
    <3> QED
        BY <1>13, <3>1, <3>2
  <2>2. CASE ~(t >= B)
    <3>1. qhat * v2 <= t * B + low
      <4>1. qhat * v2 \in Int /\ t * B \in Int /\ low \in Int /\ t < B
            BY <1>1, <1>3, <1>6, <2>2
      <4> QED
          BY <1>4, <4>1
    <3> QED
        BY <1>3, <1>6, <3>1, EstimateClose
  <2> QED
      BY <2>1, <2>2
<1> HIDE DEF qhat
<1> QED
    BY <1>4, <1>7, <1>8 DEF OneOver

\* What is above w more limbs.
LEMMA AboveSplit ==
    ASSUME NEW l \in Limbs, NEW i \in Nat \ {0}, NEW w \in Nat
    PROVE  /\ Above(l, i + w) = Above(l, i) \div Power(B)[w]
           /\ \E r \in 0 .. Power(B)[w] - 1 : Above(l, i) = r + Power(B)[w] * Above(l, i + w)
<1> DEFINE a == Above(l, i)
           p == Power(B)[w]
<1>1. i - 1 \in Nat /\ (i - 1) + 1 = i /\ (i - 1) + w \in Nat /\ ((i - 1) + w) + 1 = i + w /\ i \in Nat
      OBVIOUS
<1>2. Above(l, ((i - 1) + w) + 1) = Value(l) \div Power(B)[(i - 1) + w]
      BY <1>1, AboveDiv
<1>3. Above(l, (i - 1) + 1) = Value(l) \div Power(B)[i - 1]
      BY <1>1, AboveDiv
<1>4. Power(B)[(i - 1) + w] = Power(B)[i - 1] * p
      BY <1>1, BaseNat, PowerAdd
<1>5. Value(l) \in Nat /\ Power(B)[i - 1] \in Nat \ {0} /\ p \in Nat \ {0}
      BY <1>1, ValueNat, BaseNext
<1>6. (Value(l) \div Power(B)[i - 1]) \div p = Value(l) \div (Power(B)[i - 1] * p)
      BY <1>5, QuotientTwice
<1>7. Above(l, i + w) = a \div p
      BY <1>1, <1>2, <1>3, <1>4, <1>6
<1>8. a \in Nat
      BY <1>1, AboveIs
<1> HIDE DEF a, p
<1>9. a % p \in 0 .. p - 1 /\ a = p * (a \div p) + (a % p)
      BY <1>5, <1>8, Quotient
<1>10. p * (a \div p) \in Int
  <2>1. a \div p \in Nat
        BY <1>5, <1>8, QuotientNat
  <2> QED
      BY <1>5, <2>1
<1>11. a = (a % p) + p * (a \div p)
      BY <1>5, <1>9, <1>10
<1> QED
    BY <1>7, <1>9, <1>11 DEF a, p

\* One limb and what is above it.
LEMMA AboveNext ==
    ASSUME NEW l \in Limbs, NEW i \in 1 .. Len(l)
    PROVE  Above(l, i) = l[i] + B * Above(l, i + 1) /\ l[i] \in 0 .. B - 1 /\ Above(l, i + 1) \in Nat /\ Above(l, i) \in Nat
<1>1. i \in Nat \ {0} /\ i \in Nat /\ i + 1 \in Nat
      OBVIOUS
<1>2. Above(l, i) = Limb(l, i) + B * Above(l, i + 1)
      BY <1>1, AboveIs
<1>3. Limb(l, i) = l[i] /\ l[i] \in 0 .. B - 1
      BY LimbIs
<1>4. Above(l, i + 1) \in Nat
      BY <1>1, AboveIs
<1>5. Above(l, i) \in Nat
      BY <1>1, AboveIs
<1> QED
    BY <1>2, <1>3, <1>4, <1>5

\* A divisor as bn_divmod_impl hands it to divmod_knuth: more than a limb, the
\* top bit set.
Divisors == {v \in Limbs : Len(v) >= 2 /\ 2 * v[Len(v)] >= B}

\* The top limbs of a divisor.
LEMMA DivisorIs ==
    ASSUME NEW v \in Divisors
    PROVE  /\ v \in Limbs /\ Len(v) \in Nat /\ Len(v) >= 2 /\ 2 * v[Len(v)] >= B
           /\ v[Len(v)] \in 1 .. B - 1 /\ v[Len(v) - 1] \in 0 .. B - 1
<1>1. v \in Limbs /\ Len(v) \in Nat /\ Len(v) >= 2 /\ 2 * v[Len(v)] >= B
  <2>1. v \in Limbs
        BY DEF Divisors
  <2> QED
      BY <2>1, LimbIs DEF Divisors
<1>2. Len(v) \in 1 .. Len(v) /\ Len(v) - 1 \in 1 .. Len(v)
      BY <1>1
<1>3. v[Len(v)] \in 0 .. B - 1 /\ v[Len(v) - 1] \in 0 .. B - 1
      BY <1>1, <1>2, LimbIs
<1>4. v[Len(v)] # 0
      BY <1>1, BaseNat
<1> QED
    BY <1>1, <1>3, <1>4, BaseNat

\* Three leading limbs over what is below them.
HornerLead(a, b, c, d, f) == f + d * (c + B * (b + B * a)) = ((a * B + b) * B + c) * d + f
\* HornerLead, for all integers.
LEMMA HornerLeads == \A a, b, c, d, f \in Int : HornerLead(a, b, c, d, f)
<1>1. \A e, a, b, c, d, f \in Int : f + d * (c + e * (b + e * a)) = ((a * e + b) * e + c) * d + f
      OBVIOUS
<1> QED
    BY <1>1, BaseNat DEF HornerLead

\* The leading limbs of a dividend from place j and of a divisor.
LEMMA LeadingLimbs ==
    ASSUME NEW u \in Limbs, NEW v \in Divisors, NEW n \in Nat, n = Len(v), NEW j \in 1 .. Len(u), j + n \in 1 .. Len(u),
           Above(u, (j + n) + 1) = 0
    PROVE  \E p, nl, vl : Leading(Above(u, j), Value(v), u[j + n] * B + u[j + n - 1], u[j + n - 2], p, nl, v[n], v[n - 1], vl)
<1> DEFINE p == Power(B)[n - 2]
<1>1. v \in Limbs /\ n >= 2 /\ v[n] \in 1 .. B - 1 /\ v[n - 1] \in 0 .. B - 1
      BY DivisorIs
<1>2. n - 2 \in Nat /\ j \in Nat \ {0} /\ j + (n - 2) = j + n - 2 /\ 1 + (n - 2) = n - 1 /\ 1 \in Nat \ {0}
      BY <1>1
<1>3. p \in Nat \ {0}
      BY <1>2, BaseNext
<1>4. PICK nl \in 0 .. p - 1 : Above(u, j) = nl + p * Above(u, j + n - 2)
      BY <1>2, AboveSplit
<1>5. PICK vl \in 0 .. p - 1 : Above(v, 1) = vl + p * Above(v, n - 1)
  <2>1. \E r \in 0 .. p - 1 : Above(v, 1) = r + p * Above(v, 1 + (n - 2))
        BY <1>1, <1>2, AboveSplit
  <2> HIDE DEF p
  <2> QED
      BY <1>2, <2>1
<1> HIDE DEF p
<1>6. Above(v, n - 1) = v[n - 1] + B * v[n]
  <2>1. n - 1 \in 1 .. Len(v) /\ n \in 1 .. Len(v) /\ (n - 1) + 1 = n /\ n + 1 \in Nat /\ n + 1 > Len(v)
        BY <1>1
  <2>2. Above(v, n - 1) = v[n - 1] + B * Above(v, (n - 1) + 1)
        BY <1>1, <2>1, AboveNext
  <2>3. Above(v, n) = v[n] + B * Above(v, n + 1)
        BY <1>1, <2>1, AboveNext
  <2>4. Above(v, n + 1) = 0
        BY <1>1, <2>1, AboveIs
  <2>5. v[n] + B * 0 = v[n]
        BY <1>1, BaseNat
  <2> QED
      BY <2>1, <2>2, <2>3, <2>4, <2>5
<1>7. /\ Above(u, j + n - 2) = u[j + n - 2] + B * (u[j + n - 1] + B * u[j + n])
      /\ u[j + n - 2] \in 0 .. B - 1 /\ u[j + n - 1] \in 0 .. B - 1 /\ u[j + n] \in 0 .. B - 1
  <2>1. /\ j + n - 2 \in 1 .. Len(u) /\ j + n - 1 \in 1 .. Len(u) /\ (j + n - 2) + 1 = j + n - 1 /\ (j + n - 1) + 1 = j + n
        BY <1>1
  <2>2. Above(u, j + n - 2) = u[j + n - 2] + B * Above(u, j + n - 1) /\ u[j + n - 2] \in 0 .. B - 1
        BY <2>1, AboveNext
  <2>3. Above(u, j + n - 1) = u[j + n - 1] + B * Above(u, j + n) /\ u[j + n - 1] \in 0 .. B - 1
        BY <2>1, AboveNext
  <2>4. Above(u, j + n) = u[j + n] + B * 0 /\ u[j + n] \in 0 .. B - 1
        BY AboveNext
  <2>5. u[j + n] + B * 0 = u[j + n]
        BY <2>4, BaseNat
  <2> QED
      BY <2>2, <2>3, <2>4, <2>5
<1> DEFINE x == u[j + n] * B + u[j + n - 1]
<1>8. /\ u[j + n - 2] \in Int /\ u[j + n - 1] \in Int /\ u[j + n] \in Int /\ v[n] \in Int /\ v[n - 1] \in Int
      /\ u[j + n - 1] \in Nat /\ u[j + n] \in Nat /\ nl \in Int /\ vl \in Int /\ p \in Int /\ B \in Int /\ B \in Nat
  <2>1. B \in Int /\ B \in Nat
        BY BaseNat
  <2>2. \A a \in 0 .. B - 1 : a \in Int /\ a \in Nat
        BY <2>1
  <2>3. p \in Int /\ nl \in Int /\ vl \in Int
        BY <1>3
  <2>4. v[n] \in Int /\ v[n - 1] \in Int
        BY <1>1, <2>1
  <2> QED
      BY <1>7, <2>1, <2>2, <2>3, <2>4, Zenon
<1>9. x \in Nat
      BY <1>8
<1>11. Above(u, j) = (x * B + u[j + n - 2]) * p + nl
  <2>1. HornerLead(u[j + n], u[j + n - 1], u[j + n - 2], p, nl)
        BY <1>8, HornerLeads
  <2> QED
      BY <1>4, <1>7, <2>1, Zenon DEF HornerLead
<1>12. \A a, b, d, e, f \in Int : f + d * (b + e * a) = (a * e + b) * d + f
      OBVIOUS
<1>13. Value(v) = (v[n] * B + v[n - 1]) * p + vl
  <2>1. Value(v) = vl + p * (v[n - 1] + B * v[n])
        BY <1>1, <1>5, <1>6, AboveIs
  <2> QED
      BY <1>8, <1>12, <2>1
<1> HIDE DEF x
<1>14. Leading(Above(u, j), Value(v), x, u[j + n - 2], p, nl, v[n], v[n - 1], vl)
      BY <1>1, <1>3, <1>7, <1>9, <1>11, <1>13 DEF Leading
<1> QED
    BY <1>14 DEF x

\* The estimate at a place, by RefinedExact.
LEMMA EstimateIs ==
    ASSUME NEW u \in Limbs, NEW v \in Divisors, NEW n \in Nat, n = Len(v), NEW j \in 1 .. Len(u), j + n \in 1 .. Len(u)
    PROVE  /\ Estimate(u, v, j) \in 0 .. B - 1
           /\ u[j + n] < v[n] /\ Above(u, (j + n) + 1) = 0 => OneOver(Above(u, j), Value(v), Estimate(u, v, j))
<1> DEFINE u1 == u[j + n]
           u0 == u[j + n - 1]
           low == u[j + n - 2]
           v1 == v[n]
           v2 == v[n - 1]
           d == DivLimb(u1, u0, v1)
           q == d.q
           r == d.r
           x == u1 * B + u0
           y == u1 * B + u0 - q * v1
           rhat == y % (B * B)
           e == Estimate(u, v, j)
<1>1. n >= 2 /\ v1 \in 1 .. B - 1 /\ v2 \in 0 .. B - 1 /\ 2 * v1 >= B
      BY DivisorIs
<1>2. u1 \in 0 .. B - 1 /\ u0 \in 0 .. B - 1 /\ low \in 0 .. B - 1
  <2>1. j + n - 1 \in 1 .. Len(u) /\ j + n - 2 \in 1 .. Len(u)
        BY <1>1
  <2> QED
      BY <2>1, LimbIs
<1>3. e = Refined(q, rhat, v1, v2, low)
      BY DEF Estimate
<1>4. DivLimbSound(d, u1, u0, v1)
      BY <1>1, <1>2, DivLimbExact
<1> HIDE DEF u1, u0, low, v1, v2, e, d
<1>5. q \in 0 .. B - 1 /\ r \in 0 .. B - 1 /\ (u1 < v1 => r < v1 /\ x = q * v1 + r)
      BY <1>4 DEF DivLimbSound
<1> HIDE DEF q, r
<1>6. B \in Nat \ {0} /\ q \in Int /\ v1 \in Int /\ u1 \in Int /\ u0 \in Int /\ v1 \in 0 .. B - 1
      BY <1>1, <1>2, <1>5, BaseNat
<1>7. B * B \in Nat \ {0} /\ B <= B * B
      BY <1>6
<1>8. y \in Int /\ x \in Int /\ q * v1 \in Int
  <2>1. u1 * B \in Int /\ q * v1 \in Int
        BY <1>6
  <2> QED
      BY <1>6, <2>1
<1> HIDE DEF x, y
<1>9. rhat \in Nat
  <2> DEFINE w == B * B
  <2>1. w \in Nat \ {0}
        BY <1>7
  <2> HIDE DEF w
  <2>2. y % w \in 0 .. w - 1
        BY <1>8, <2>1, Quotient
  <2>3. y % w \in Nat
        BY <2>1, <2>2
  <2> QED
      BY <2>3 DEF w
<1>10. e \in 0 .. B - 1
  <2>1. PICK k : RefinedBy(q, rhat, v1, v2, low, k)
        BY <1>1, <1>2, <1>5, <1>6, <1>9, RefinedIs
  <2> QED
      BY <1>3, <2>1 DEF RefinedBy
<1>11. ASSUME u1 < v1, Above(u, (j + n) + 1) = 0
       PROVE  OneOver(Above(u, j), Value(v), e)
  <2>1. r < v1 /\ x = q * v1 + r
        BY <1>5, <1>11
  <2>2. rhat = r
    <3> DEFINE w == B * B
    <3>1. w \in Nat \ {0} /\ r \in 0 .. w - 1
          BY <1>5, <1>6, <1>7
    <3>2. y = r
      <4>1. y = x - q * v1
        <5>1. u1 * B \in Int
              BY <1>6
        <5> QED
            BY <1>6, <1>8, <5>1 DEF x, y
      <4> QED
          BY <1>5, <1>8, <2>1, <4>1
    <3>3. y = w * 0 + r
          BY <3>1, <3>2
    <3> HIDE DEF w
    <3>4. y % w = r
          BY <1>8, <3>1, <3>3, QuotientIs
    <3> QED
        BY <3>4 DEF w
  <2>3. r \in 0 .. v1 - 1
        BY <1>5, <1>6, <2>1
  <2>4. PICK p, nl, vl : Leading(Above(u, j), Value(v), x, low, p, nl, v1, v2, vl)
    <3>1. \E p, nl, vl : Leading(Above(u, j), Value(v), u[j + n] * B + u[j + n - 1], u[j + n - 2], p, nl, v[n], v[n - 1], vl)
          BY <1>11, LeadingLimbs
    <3> QED
        BY <3>1 DEF x, u1, u0, low, v1, v2
  <2>5. OneOver(Above(u, j), Value(v), Refined(q, r, v1, v2, low))
        BY <1>1, <1>5, <2>1, <2>3, <2>4, RefinedExact
  <2> QED
      BY <1>3, <2>2, <2>5
<1> QED
    BY <1>10, <1>11 DEF e, u1, v1

-----------------------------------------------------------------------------
(* Taking the product off (D4), and adding the divisor back (D6).          *)

\* The two chains of D4 and D5: what is borrowed while the multiple is taken
\* off, and what is carried while the divisor is added back.
LimbLess(u, v, j, q, i, b) == u[j + i - 1] - q * Limb(v, i) + b

\* The signed borrows of D4.
Owed(u, v, j, q) ==
    CHOOSE w : w = [i \in 0 .. Len(v) + 1 |-> IF i = 0 THEN 0 ELSE Signed(LimbLess(u, v, j, q, i, w[i - 1])) \div B]

\* The limbs it leaves.
Rest(u, v, j, q) == [i \in 1 .. Len(v) + 1 |-> LimbLess(u, v, j, q, i, Owed(u, v, j, q)[i - 1]) % B]

\* The carries while the divisor is added back.
AddedBack(r, v) ==
    CHOOSE c : c = [i \in 0 .. Len(v) |-> IF i = 0 THEN 0 ELSE (r[i] + v[i] + c[i - 1]) \div B]

\* A signed double limb is an integer.
LEMMA SignedInt == \A x \in Int : Signed(x) \in Int /\ Signed(x) \div B \in Int
<1> SUFFICES ASSUME NEW x \in Int
             PROVE  Signed(x) \in Int /\ Signed(x) \div B \in Int
    OBVIOUS
<1> DEFINE w == B * B
           h == w \div 2
<1>1. w \in Nat \ {0}
      BY BaseNat
<1>2. Signed(x) = ((x + h) % w) - h
      BY DEF Signed
<1> HIDE DEF w
<1>3. h \in Nat
      BY <1>1
<1> HIDE DEF h
<1>4. x + h \in Int
      BY <1>3
<1>5. (x + h) % w \in 0 .. w - 1
      BY <1>1, <1>4, Quotient
<1>6. Signed(x) \in Int
      BY <1>1, <1>2, <1>3, <1>5
<1> QED
    BY <1>6, BaseQuotient

\* The limbs of D4 are integers.
LEMMA LimbLessInt ==
    ASSUME NEW u \in Limbs, NEW v \in Limbs, NEW n \in Nat, n = Len(v), NEW j \in 1 .. Len(u), j + n \in 1 .. Len(u), NEW q \in Int
    PROVE  \A i \in 1 .. n + 1 : /\ j + i - 1 \in 1 .. Len(u) /\ u[j + i - 1] \in 0 .. B - 1
                                 /\ \A b \in Int : LimbLess(u, v, j, q, i, b) \in Int
<1> SUFFICES ASSUME NEW i \in 1 .. n + 1
             PROVE  /\ j + i - 1 \in 1 .. Len(u) /\ u[j + i - 1] \in 0 .. B - 1
                    /\ \A b \in Int : LimbLess(u, v, j, q, i, b) \in Int
    OBVIOUS
<1>1. Len(u) \in Nat
      BY LimbIs
<1>2. j + i - 1 \in 1 .. Len(u)
      BY <1>1
<1>3. u[j + i - 1] \in 0 .. B - 1
      BY <1>2, LimbIs
<1>4. Limb(v, i) \in 0 .. B - 1
      BY LimbIs
<1>5. u[j + i - 1] \in Int /\ Limb(v, i) \in Int
      BY <1>3, <1>4, BaseNat
<1>6. q * Limb(v, i) \in Int
      BY <1>5
<1> QED
    BY <1>2, <1>3, <1>5, <1>6 DEF LimbLess

\* The borrows satisfy their recurrence.
LEMMA OwedIs ==
    ASSUME NEW u \in Limbs, NEW v \in Limbs, NEW n \in Nat, n = Len(v), NEW j \in 1 .. Len(u), j + n \in 1 .. Len(u), NEW q \in Int
    PROVE  /\ Owed(u, v, j, q)[0] = 0
           /\ \A i \in 1 .. n + 1 : Owed(u, v, j, q)[i] = Signed(LimbLess(u, v, j, q, i, Owed(u, v, j, q)[i - 1])) \div B
           /\ \A i \in 0 .. n + 1 : Owed(u, v, j, q)[i] \in Int
<1> DEFINE Is(w) == w = [i \in 0 .. n + 1 |-> IF i = 0 THEN 0 ELSE Signed(LimbLess(u, v, j, q, i, w[i - 1])) \div B]
           step == [p \in (1 .. n + 1) \X Int |-> Signed(LimbLess(u, v, j, q, p[1], p[2])) \div B]
<1>1. \A i \in 1 .. n + 1 : \A b \in Int : Signed(LimbLess(u, v, j, q, i, b)) \div B \in Int
      BY LimbLessInt, SignedInt
<1>2. \A i \in 1 .. n + 1 : \A b \in Int : step[<<i, b>>] = Signed(LimbLess(u, v, j, q, i, b)) \div B
      OBVIOUS
<1>3. step \in [(1 .. n + 1) \X Int -> Int]
      BY <1>1
<1> HIDE DEF step
<1>4. PICK f \in [0 .. n + 1 -> Int] : Upward(f, 0, n + 1, 0, step)
  <2>1. 0 \in Int /\ n + 1 \in Int /\ \A i \in 0 .. n + 1 : 0 < i => i \in 1 .. n + 1
        OBVIOUS
  <2> QED
      BY <2>1, <1>3, ChainUp, Zenon
<1>5. Is(f)
  <2>1. \A i \in 0 .. n + 1 : i # 0 => i \in 1 .. n + 1 /\ f[i - 1] \in Int
        OBVIOUS
  <2>2. f = [i \in 0 .. n + 1 |-> IF i = 0 THEN 0 ELSE step[<<i, f[i - 1]>>]]
        BY <1>4 DEF Upward
  <2> QED
      BY <2>1, <2>2, <1>2
<1>6. Owed(u, v, j, q) = CHOOSE w : Is(w)
      BY DEF Owed
<1>7. Is(Owed(u, v, j, q))
  <2> HIDE DEF Is
  <2> QED
      BY <1>5, <1>6
<1> DEFINE F == Owed(u, v, j, q)
<1>8. F = [i \in 0 .. n + 1 |-> IF i = 0 THEN 0 ELSE Signed(LimbLess(u, v, j, q, i, F[i - 1])) \div B]
      BY <1>7
<1> HIDE DEF F
<1>9. F[0] = 0 /\ \A i \in 1 .. n + 1 : F[i] = Signed(LimbLess(u, v, j, q, i, F[i - 1])) \div B
      BY <1>8
<1>10. \A i \in 0 .. n + 1 : F[i] \in Int
  <2>1. 0 \in Int /\ n + 1 \in Int /\ 0 <= n + 1 /\ F[0] \in Int
        BY <1>9
  <2>2. ASSUME NEW i \in 0 .. n + 1, i < n + 1, F[i] \in Int
        PROVE  F[i + 1] \in Int
    <3>1. i + 1 \in 1 .. n + 1 /\ (i + 1) - 1 = i
          BY <2>2
    <3> QED
        BY <3>1, <1>1, <1>9, <2>2
  <2> QED
      BY <2>1, <2>2, HoldsUp, Zenon
<1> QED
    BY <1>9, <1>10 DEF F

\* The carries are bits and satisfy theirs.
LEMMA AddedBackIs ==
    ASSUME NEW v \in Limbs, NEW n \in Nat, n = Len(v), NEW r, \A i \in 1 .. n : r[i] \in 0 .. B - 1
    PROVE  /\ AddedBack(r, v)[0] = 0
           /\ \A i \in 1 .. n : AddedBack(r, v)[i] = (r[i] + v[i] + AddedBack(r, v)[i - 1]) \div B
           /\ \A i \in 0 .. n : AddedBack(r, v)[i] \in 0 .. 1
<1> DEFINE Is(c) == c = [i \in 0 .. n |-> IF i = 0 THEN 0 ELSE (r[i] + v[i] + c[i - 1]) \div B]
           step == [p \in (1 .. n) \X (0 .. 1) |-> (r[p[1]] + v[p[1]] + p[2]) \div B]
<1>1. \A i \in 1 .. n : v[i] \in 0 .. B - 1
      BY LimbIs
<1>2. \A i \in 1 .. n : \A x \in 0 .. 1 : (r[i] + v[i] + x) \div B \in 0 .. 1
      BY <1>1, CarryBit
<1>3. \A i \in 1 .. n : \A x \in 0 .. 1 : step[<<i, x>>] = (r[i] + v[i] + x) \div B
      OBVIOUS
<1>4. step \in [(1 .. n) \X (0 .. 1) -> 0 .. 1]
      BY <1>2
<1> HIDE DEF step
<1>5. PICK f \in [0 .. n -> 0 .. 1] : Upward(f, 0, n, 0, step)
  <2>1. 0 \in Int /\ n \in Int /\ 0 \in 0 .. 1 /\ \A i \in 0 .. n : 0 < i => i \in 1 .. n
        OBVIOUS
  <2> QED
      BY <2>1, <1>4, ChainUp, Zenon
<1>6. Is(f)
  <2>1. \A i \in 0 .. n : i # 0 => i \in 1 .. n /\ f[i - 1] \in 0 .. 1
        OBVIOUS
  <2>2. f = [i \in 0 .. n |-> IF i = 0 THEN 0 ELSE step[<<i, f[i - 1]>>]]
        BY <1>5 DEF Upward
  <2> QED
      BY <2>1, <2>2, <1>3
<1>7. AddedBack(r, v) = CHOOSE c : Is(c)
      BY DEF AddedBack
<1>8. Is(AddedBack(r, v))
  <2> HIDE DEF Is
  <2> QED
      BY <1>6, <1>7
<1> DEFINE F == AddedBack(r, v)
<1>9. F = [i \in 0 .. n |-> IF i = 0 THEN 0 ELSE (r[i] + v[i] + F[i - 1]) \div B]
      BY <1>8
<1> HIDE DEF F
<1>10. F[0] = 0 /\ \A i \in 1 .. n : F[i] = (r[i] + v[i] + F[i - 1]) \div B
      BY <1>9
<1>11. \A i \in 0 .. n : F[i] \in 0 .. 1
  <2>1. 0 \in Int /\ n \in Int /\ 0 <= n /\ F[0] \in 0 .. 1
        BY <1>10
  <2>2. ASSUME NEW i \in 0 .. n, i < n, F[i] \in 0 .. 1
        PROVE  F[i + 1] \in 0 .. 1
    <3>1. i + 1 \in 1 .. n /\ (i + 1) - 1 = i
          BY <2>2
    <3> QED
        BY <3>1, <1>2, <1>10, <2>2
  <2> QED
      BY <2>1, <2>2, HoldsUp, Zenon
<1> QED
    BY <1>10, <1>11 DEF F

\* What TakeOff makes of the dividend, in these terms.
TakenOff(t, s, v, j, n, q, w, r, c) ==
    /\ w[0] = 0 /\ c[0] = 0
    /\ \A i \in 1 .. n + 1 : w[i] = Signed(LimbLess(s.u, v, j, q, i, w[i - 1])) \div B
    /\ \A i \in 0 .. n + 1 : w[i] \in Int
    /\ \A i \in 1 .. n + 1 : r[i] = LimbLess(s.u, v, j, q, i, w[i - 1]) % B /\ r[i] \in 0 .. B - 1
    /\ \A i \in 1 .. n : c[i] = (r[i] + v[i] + c[i - 1]) \div B
    /\ \A i \in 0 .. n : c[i] \in 0 .. 1
    /\ t.q = IF w[n + 1] < 0 THEN (q - 1) % B ELSE q
    /\ t.u = [k \in 1 .. Len(s.u) |->
                IF k - j + 1 \notin 1 .. n + 1 THEN s.u[k]
                ELSE IF w[n + 1] < 0 THEN (r[k - j + 1] + Limb(v, k - j + 1) + c[(k - j + 1) - 1]) % B
                ELSE r[k - j + 1]]
    /\ t.sound = (/\ s.sound /\ s.u[j + n] < v[n]
                  /\ \A i \in 1 .. n + 1 :
                        LET x == LimbLess(s.u, v, j, q, i, w[i - 1])
                        IN  x = Signed(x) /\ q * Limb(v, i) < (B * B) \div 2)

\* It does.
LEMMA TakeOffIs ==
    ASSUME NEW s, s.u \in Limbs, NEW v \in Divisors, NEW n \in Nat, n = Len(v), NEW j \in 1 .. Len(s.u), j + n \in 1 .. Len(s.u)
    PROVE  \E w, r, c : TakenOff(TakeOff(s, v, j), s, v, j, n, Estimate(s.u, v, j), w, r, c)
<1> DEFINE u == s.u
           q == Estimate(s.u, v, j)
           w == Owed(u, v, j, q)
           r == Rest(u, v, j, q)
           c == AddedBack(r, v)
           t == TakeOff(s, v, j)
<1>1. v \in Limbs
      BY DivisorIs
<1>2. q \in Int
  <2>1. q \in 0 .. B - 1
        BY EstimateIs
  <2> QED
      BY <2>1, BaseNat
<1> HIDE DEF q
<1>3. /\ w[0] = 0
      /\ \A i \in 1 .. n + 1 : w[i] = Signed(LimbLess(u, v, j, q, i, w[i - 1])) \div B
      /\ \A i \in 0 .. n + 1 : w[i] \in Int
      BY <1>1, <1>2, OwedIs
<1>4. ASSUME NEW i \in 1 .. n + 1
      PROVE  r[i] = LimbLess(u, v, j, q, i, w[i - 1]) % B /\ r[i] \in 0 .. B - 1
  <2>1. r[i] = LimbLess(u, v, j, q, i, w[i - 1]) % B
        BY DEF Rest
  <2>2. i - 1 \in 0 .. n + 1
        OBVIOUS
  <2>3. w[i - 1] \in Int
        BY <1>3, <2>2
  <2>4. LimbLess(u, v, j, q, i, w[i - 1]) \in Int
        BY <1>1, <1>2, <2>3, LimbLessInt
  <2> HIDE DEF r, w
  <2> QED
      BY <2>1, <2>4, BaseQuotient
<1>5. /\ c[0] = 0 /\ \A i \in 1 .. n : c[i] = (r[i] + v[i] + c[i - 1]) \div B
      /\ \A i \in 0 .. n : c[i] \in 0 .. 1
  <2>1. \A i \in 1 .. n : i \in 1 .. n + 1
        OBVIOUS
  <2>2. \A i \in 1 .. n : r[i] \in 0 .. B - 1
        BY <1>4, <2>1
  <2> HIDE DEF r
  <2> QED
      BY <1>1, <2>2, AddedBackIs
<1>6. DOMAIN u = 1 .. Len(u)
      BY DEF Limbs
<1> DEFINE rest(i) == LimbLess(u, v, j, q, i, w[i - 1]) % B
           cc == CHOOSE f : f = [i \in 0 .. n |-> IF i = 0 THEN 0 ELSE (rest(i) + v[i] + f[i - 1]) \div B]
<1>7. cc = c
  <2>1. \A i \in 1 .. n + 1 : r[i] = rest(i)
        BY <1>4
  <2>2. \A i \in 0 .. n : i # 0 => i \in 1 .. n + 1
        OBVIOUS
  <2> HIDE DEF r, rest
  <2>3. \A f : [i \in 0 .. n |-> IF i = 0 THEN 0 ELSE (rest(i) + v[i] + f[i - 1]) \div B]
               = [i \in 0 .. n |-> IF i = 0 THEN 0 ELSE (r[i] + v[i] + f[i - 1]) \div B]
        BY <2>1, <2>2
  <2> QED
      BY <2>3 DEF AddedBack
<1>8. t.q = IF w[n + 1] < 0 THEN (q - 1) % B ELSE q
      BY DEF TakeOff, Owed, LimbLess, q
<1>9. t.u = [k \in 1 .. Len(u) |->
                IF k - j + 1 \notin 1 .. n + 1 THEN u[k]
                ELSE IF w[n + 1] < 0 THEN (rest(k - j + 1) + Limb(v, k - j + 1) + cc[(k - j + 1) - 1]) % B
                ELSE rest(k - j + 1)]
  <2>1. t.u = [k \in DOMAIN u |->
                IF k - j + 1 \notin 1 .. n + 1 THEN u[k]
                ELSE IF w[n + 1] < 0 THEN (rest(k - j + 1) + Limb(v, k - j + 1) + cc[(k - j + 1) - 1]) % B
                ELSE rest(k - j + 1)]
        BY DEF TakeOff, Owed, LimbLess, q
  <2> HIDE DEF t, rest, cc, w
  <2> QED
      BY <1>6, <2>1
<1>10. t.sound = (/\ s.sound /\ u[j + n] < v[n]
                  /\ \A i \in 1 .. n + 1 :
                        LET x == LimbLess(u, v, j, q, i, w[i - 1])
                        IN  x = Signed(x) /\ q * Limb(v, i) < (B * B) \div 2)
      BY DEF TakeOff, Owed, LimbLess, q
<1>11. t.u = [k \in 1 .. Len(u) |->
                IF k - j + 1 \notin 1 .. n + 1 THEN u[k]
                ELSE IF w[n + 1] < 0 THEN (r[k - j + 1] + Limb(v, k - j + 1) + c[(k - j + 1) - 1]) % B
                ELSE r[k - j + 1]]
  <2>1. \A i \in 1 .. n + 1 : rest(i) = r[i]
        BY <1>4
  <2> HIDE DEF t, rest, cc, c, r, w
  <2> QED
      BY <1>7, <1>9, <2>1
<1> HIDE DEF t, rest, cc, c, r, w
<1>12. TakenOff(t, s, v, j, n, q, w, r, c)
      BY <1>3, <1>4, <1>5, <1>8, <1>10, <1>11 DEF TakenOff
<1> QED
    BY <1>12 DEF t, q

\* A chain of limbs r over carries g, from place 1 to the top.
Chained(n, r, g) ==
    /\ \A i \in 1 .. n : r[i] \in 0 .. B - 1 /\ g[i] = r[i] + B * g[i + 1]
    /\ \A i \in 1 .. n + 1 : g[i] \in Int

\* A number that fits n limbs leaves nothing above them.
LEMMA ChainedTop ==
    ASSUME NEW n \in Nat, NEW r, NEW g, Chained(n, r, g), g[1] >= 0, g[1] < Power(B)[n]
    PROVE  g[n + 1] = 0
BY TopZero DEF Chained

\* A chain of carries goes below zero at the top exactly if the number does.
LEMMA SignCarries ==
    ASSUME NEW n \in Nat, NEW r, NEW g, Chained(n, r, g)
    PROVE  g[1] < 0 <=> g[n + 1] < 0
<1> DEFINE T == {x \in Int : x < 0 <=> g[n + 1] < 0}
<1>1. 1 \in Int /\ n + 1 \in Int /\ 1 <= n + 1 /\ n + 1 \in 1 .. n + 1 /\ 1 \in 1 .. n + 1
      OBVIOUS
<1>2. g[n + 1] \in T
      BY <1>1 DEF Chained
<1>3. ASSUME NEW i \in 1 .. n + 1, i < n + 1, g[i + 1] \in T
      PROVE  g[i] \in T
  <2>1. i \in 1 .. n /\ i + 1 \in 1 .. n + 1
        BY <1>3
  <2>2. r[i] \in 0 .. B - 1 /\ g[i] = r[i] + B * g[i + 1] /\ g[i] \in Int /\ g[i + 1] \in Int
        BY <2>1 DEF Chained
  <2>3. r[i] \in Int
        BY <2>2, BaseNat
  <2>4. CASE g[i + 1] < 0
    <3>1. HornerBack(r[i], g[i + 1])
          BY <2>2, <2>3, HornerBacks
    <3> QED
        BY <1>3, <2>2, <2>4, <3>1 DEF HornerBack
  <2>5. CASE ~(g[i + 1] < 0)
    <3>1. g[i + 1] \in Nat
          BY <2>2, <2>5
    <3>2. B * g[i + 1] \in Nat
          BY <3>1, BaseNat
    <3>3. ~(g[i] < 0)
          BY <2>2, <2>3, <3>2
    <3> QED
        BY <1>3, <2>2, <2>5, <3>3
  <2> QED
      BY <2>4, <2>5
<1> HIDE DEF T
<1>4. \A i \in 1 .. n + 1 : g[i] \in T
      BY <1>1, <1>2, <1>3, HoldsDown, Zenon
<1>5. g[n + 1] \in Int /\ g[1] \in Int
      BY <1>1 DEF Chained
<1> QED
    BY <1>1, <1>4, <1>5 DEF T

\* A number below the next power, read off n limbs from place j.
ReadFrom(l, j, n, g) ==
    /\ n \in Nat \ {0} /\ j + n - 1 \in 1 .. Len(l) /\ Above(l, j + n) = 0
    /\ \A i \in 1 .. n : g[i] = l[j + i - 1] + B * g[i + 1]
    /\ \A i \in 1 .. n + 1 : g[i] \in Int
    /\ g[1] >= 0 /\ g[1] < Power(B)[n]

\* What is read off is the number.
LEMMA AboveFrom ==
    ASSUME NEW l \in Limbs, NEW j \in 1 .. Len(l), NEW n, NEW g, ReadFrom(l, j, n, g)
    PROVE  Above(l, j) = g[1]
<1>0. /\ n \in Nat \ {0} /\ j + n - 1 \in 1 .. Len(l) /\ Above(l, j + n) = 0
      /\ \A i \in 1 .. n : g[i] = l[j + i - 1] + B * g[i + 1]
      /\ \A i \in 1 .. n + 1 : g[i] \in Int
      /\ g[1] >= 0 /\ g[1] < Power(B)[n]
      BY DEF ReadFrom
<1> USE <1>0
<1> DEFINE r == [i \in 1 .. n |-> l[j + i - 1]]
           d == [i \in 1 .. n + 1 |-> Above(l, j + i - 1) - g[i]]
<1>1. Len(l) \in Nat
      BY LimbIs
<1>2. \A i \in 1 .. n : j + i - 1 \in 1 .. Len(l) /\ (j + i - 1) + 1 = j + (i + 1) - 1 /\ i + 1 \in 1 .. n + 1 /\ i \in 1 .. n + 1
      BY <1>1
<1>3. \A i \in 1 .. n : r[i] \in 0 .. B - 1 /\ g[i] = r[i] + B * g[i + 1]
  <2> SUFFICES ASSUME NEW i \in 1 .. n
               PROVE  r[i] \in 0 .. B - 1 /\ g[i] = r[i] + B * g[i + 1]
      OBVIOUS
  <2>1. r[i] = l[j + i - 1]
        OBVIOUS
  <2>2. l[j + i - 1] \in 0 .. B - 1
        BY <1>2, LimbIs
  <2>3. g[i] = l[j + i - 1] + B * g[i + 1]
        OBVIOUS
  <2> HIDE DEF r
  <2> QED
      BY <2>1, <2>2, <2>3, Zenon
<1> HIDE DEF r
<1>4. g[n + 1] = 0
  <2>1. n \in Nat
        OBVIOUS
  <2>2. Chained(n, r, g)
        BY <1>3 DEF Chained
  <2> QED
      BY <2>1, <2>2, ChainedTop
<1>5. 1 \in Int /\ n + 1 \in Int /\ 1 <= n + 1 /\ n + 1 \in 1 .. n + 1 /\ 1 \in 1 .. n + 1 /\ j + (n + 1) - 1 = j + n /\ j + 1 - 1 = j
      OBVIOUS
<1>6. d[n + 1] \in {0}
      BY <1>4, <1>5
<1>7. ASSUME NEW i \in 1 .. n + 1, i < n + 1, d[i + 1] \in {0}
      PROVE  d[i] \in {0}
  <2>1. i \in 1 .. n /\ i + 1 \in 1 .. n + 1
        BY <1>7
  <2>2. Above(l, j + i - 1) = l[j + i - 1] + B * Above(l, (j + i - 1) + 1) /\ Above(l, (j + i - 1) + 1) \in Nat
        BY <1>2, <2>1, AboveNext
  <2>3. (j + i - 1) + 1 = j + (i + 1) - 1
        BY <1>2, <2>1
  <2>4. Above(l, j + (i + 1) - 1) = g[i + 1]
    <3>1. d[i + 1] = Above(l, j + (i + 1) - 1) - g[i + 1]
          BY <2>1
    <3>2. g[i + 1] \in Int
          BY <2>1
    <3> HIDE DEF d
    <3> QED
        BY <1>7, <2>2, <2>3, <3>1, <3>2
  <2>5. g[i] = l[j + i - 1] + B * g[i + 1] /\ g[i] \in Int
        BY <2>1
  <2>6. Above(l, j + i - 1) = g[i]
        BY <2>2, <2>3, <2>4, <2>5, Zenon
  <2> QED
      BY <2>5, <2>6
<1>8. \A i \in 1 .. n + 1 : d[i] \in {0}
  <2> HIDE DEF d
  <2> QED
      BY <1>5, <1>6, <1>7, HoldsDown, Zenon
<1>9. d[1] = Above(l, j) - g[1]
      BY <1>5
<1>10. Above(l, j) \in Nat /\ g[1] \in Int /\ d[1] = 0
      BY <1>5, <1>8, AboveNext
<1> HIDE DEF d
<1> QED
    BY <1>9, <1>10

\* A limb, a product and a borrow make a limb and the next borrow.
HornerTake(x, y, q, w, r, p, d, c) ==
    x - q * y + w = r + B * c => (x + B * p) - q * (y + B * d) + w = r + B * (p - q * d + c)
\* HornerTake, for all integers.
LEMMA HornerTakes == \A x, y, q, w, r, p, d, c \in Int : HornerTake(x, y, q, w, r, p, d, c)
<1>1. \A b, x, y, q, w, r, p, d, c \in Int :
          x - q * y + w = r + b * c => (x + b * p) - q * (y + b * d) + w = r + b * (p - q * d + c)
      OBVIOUS
<1> QED
    BY <1>1, BaseNat DEF HornerTake

\* Limbs in their range, whatever the estimate was.
TakenLimbs(t, s, v, j, n, w, r, c) ==
    /\ t.u \in Limbs /\ Len(t.u) = Len(s.u) /\ t.q \in 0 .. B - 1
    /\ \A k \in 1 .. Len(s.u) : k < j \/ k > j + n => t.u[k] = s.u[k]
    /\ \A i \in 1 .. n + 1 : /\ j + i - 1 \in 1 .. Len(s.u)
                             /\ w[n + 1] < 0 => t.u[j + i - 1] = (r[i] + Limb(v, i) + c[i - 1]) % B
                             /\ ~(w[n + 1] < 0) => t.u[j + i - 1] = r[i]

\* TakeOff leaves limbs.
LEMMA TakenOffLimbs ==
    ASSUME NEW t, NEW s, s.u \in Limbs, NEW v \in Divisors, NEW n \in Nat, n = Len(v), NEW j \in 1 .. Len(s.u), j + n \in 1 .. Len(s.u),
           NEW q \in 0 .. B - 1, NEW w, NEW r, NEW c, TakenOff(t, s, v, j, n, q, w, r, c)
    PROVE  TakenLimbs(t, s, v, j, n, w, r, c)
<1> DEFINE m == Len(s.u)
           back == w[n + 1] < 0
           put(i) == IF back THEN (r[i] + Limb(v, i) + c[i - 1]) % B ELSE r[i]
<1>1. m \in Nat /\ \A k \in 1 .. m : s.u[k] \in 0 .. B - 1
      BY LimbIs
<1>2. v \in Limbs /\ \A i : Limb(v, i) \in 0 .. B - 1
      BY DivisorIs, LimbIs
<1>3. /\ \A i \in 1 .. n + 1 : r[i] \in 0 .. B - 1
      /\ \A i \in 0 .. n : c[i] \in 0 .. 1
      BY DEF TakenOff
<1>4. t.u = [k \in 1 .. m |-> IF k - j + 1 \notin 1 .. n + 1 THEN s.u[k] ELSE put(k - j + 1)]
      BY DEF TakenOff
<1>5. \A i \in 1 .. n + 1 : put(i) \in 0 .. B - 1
  <2> SUFFICES ASSUME NEW i \in 1 .. n + 1
               PROVE  put(i) \in 0 .. B - 1
      OBVIOUS
  <2>1. i - 1 \in 0 .. n
        OBVIOUS
  <2>2. r[i] \in Int /\ Limb(v, i) \in Int /\ c[i - 1] \in Int
        BY <1>2, <1>3, <2>1, BaseNat
  <2>3. r[i] + Limb(v, i) + c[i - 1] \in Int
        BY <2>2
  <2>4. (r[i] + Limb(v, i) + c[i - 1]) % B \in 0 .. B - 1
        BY <2>3, BaseQuotient
  <2> QED
      BY <1>3, <2>4
<1> HIDE DEF put, m
<1>6. \A k \in 1 .. m : t.u[k] \in 0 .. B - 1
      BY <1>1, <1>4, <1>5
<1>7. t.u \in Limbs /\ Len(t.u) = m
  <2>1. t.u = [k \in 1 .. m |-> t.u[k]]
        BY <1>4
  <2> QED
      BY <1>1, <1>6, <2>1, LimbsAre
<1>8. t.q \in 0 .. B - 1
  <2>1. t.q = IF back THEN (q - 1) % B ELSE q
        BY DEF TakenOff
  <2>2. q - 1 \in Int
        BY BaseNat
  <2>3. (q - 1) % B \in 0 .. B - 1
        BY <2>2, BaseQuotient
  <2> QED
      BY <2>1, <2>3
<1>9. \A k \in 1 .. m : k < j \/ k > j + n => t.u[k] = s.u[k]
      BY <1>1, <1>4
<1>10. ASSUME NEW i \in 1 .. n + 1
       PROVE  j + i - 1 \in 1 .. m /\ t.u[j + i - 1] = put(i)
  <2>1. j + i - 1 \in 1 .. m /\ (j + i - 1) - j + 1 = i
        BY <1>1 DEF m
  <2> QED
      BY <1>4, <2>1
<1>11. \A i \in 1 .. n + 1 : (back => put(i) = (r[i] + Limb(v, i) + c[i - 1]) % B) /\ (~back => put(i) = r[i])
      BY DEF put
<1> QED
    BY <1>7, <1>8, <1>9, <1>10, <1>11 DEF m, TakenLimbs

\* The number from place j while the multiple is taken off, and while the
\* divisor is added back.
TakenAt(u, v, j, n, q, w) == [i \in 1 .. n + 2 |-> Above(u, j + i - 1) - q * Above(v, i) + w[i - 1]]

\* The chain of the subtraction: what is left of the number, at every place.
TakenSays(s, v, j, n, q, w, r, g) ==
    /\ Chained(n + 1, r, g)
    /\ g[1] = Above(s.u, j) - q * Value(v) /\ g[n + 2] = w[n + 1]

\* A sound step subtracts the digit times the divisor.
LEMMA TakenChain ==
    ASSUME NEW t, NEW s, s.u \in Limbs, NEW v \in Divisors, NEW n \in Nat, n = Len(v), NEW j \in 1 .. Len(s.u), j + n \in 1 .. Len(s.u),
           NEW q \in 0 .. B - 1, NEW w, NEW r, NEW c, TakenOff(t, s, v, j, n, q, w, r, c), t.sound,
           Above(s.u, (j + n) + 1) = 0
    PROVE  TakenSays(s, v, j, n, q, w, r, TakenAt(s.u, v, j, n, q, w))
<1> DEFINE u == s.u
           g == TakenAt(u, v, j, n, q, w)
<1>1. v \in Limbs /\ n >= 2 /\ Len(u) \in Nat /\ Len(u) >= j + n
      BY DivisorIs, LimbIs
<1>2. q \in Int /\ B \in Int
      BY BaseNat
<1>3. ASSUME NEW i \in 1 .. n + 2
      PROVE  /\ i \in Nat \ {0} /\ i \in Nat /\ i - 1 \in 0 .. n + 1 /\ j + i - 1 \in Nat \ {0} /\ j + i - 1 \in Nat
             /\ (j + i - 1) + 1 = j + (i + 1) - 1 /\ (i + 1) - 1 = i
      BY <1>1
<1>4. ASSUME NEW i \in 1 .. n + 2
      PROVE  /\ g[i] = Above(u, j + i - 1) - q * Above(v, i) + w[i - 1] /\ g[i] \in Int
             /\ Above(u, j + i - 1) \in Nat /\ Above(v, i) \in Nat /\ w[i - 1] \in Int
  <2>1. g[i] = Above(u, j + i - 1) - q * Above(v, i) + w[i - 1]
        BY DEF TakenAt
  <2>2. Above(u, j + i - 1) \in Nat /\ Above(v, i) \in Nat
        BY <1>1, <1>3, AboveIs
  <2>3. w[i - 1] \in Int
        BY <1>3 DEF TakenOff
  <2>4. q * Above(v, i) \in Int
        BY <1>2, <2>2
  <2> HIDE DEF g
  <2>5. g[i] \in Int
        BY <2>1, <2>2, <2>3, <2>4
  <2> QED
      BY <2>1, <2>2, <2>3, <2>5
<1> HIDE DEF g
<1>5. ASSUME NEW i \in 1 .. n + 1
      PROVE  r[i] \in 0 .. B - 1 /\ g[i] = r[i] + B * g[i + 1]
  <2> DEFINE x == LimbLess(u, v, j, q, i, w[i - 1])
  <2>1. i \in 1 .. n + 2 /\ i + 1 \in 1 .. n + 2 /\ i \in 0 .. n + 1 /\ i - 1 \in 0 .. n + 1 /\ (i + 1) - 1 = i
        BY <1>1
  <2>2. x = Signed(x)
        BY DEF TakenOff
  <2>3. w[i] = Signed(x) \div B /\ r[i] = x % B /\ r[i] \in 0 .. B - 1 /\ w[i] \in Int /\ w[i - 1] \in Int
        BY <2>1 DEF TakenOff
  <2>4. x \in Int /\ j + i - 1 \in 1 .. Len(u) /\ u[j + i - 1] \in 0 .. B - 1
        BY <1>1, <1>2, <2>3, LimbLessInt
  <2>11. x = u[j + i - 1] - q * Limb(v, i) + w[i - 1]
        BY DEF LimbLess
  <2> HIDE DEF x
  <2>5. x = r[i] + B * w[i]
    <3>1. x \div B = w[i]
          BY <2>2, <2>3
    <3> QED
        BY <2>3, <2>4, <3>1, BaseQuotient
  <2>6. Limb(v, i) \in Int /\ u[j + i - 1] \in Int /\ r[i] \in Int
    <3>1. Limb(v, i) \in 0 .. B - 1
          BY <1>1, LimbIs
    <3> QED
        BY <2>3, <2>4, <3>1, BaseNat
  <2>7. Above(u, j + i - 1) = u[j + i - 1] + B * Above(u, j + (i + 1) - 1)
    <3>1. Above(u, j + i - 1) = u[j + i - 1] + B * Above(u, (j + i - 1) + 1)
          BY <2>4, AboveNext
    <3> QED
        BY <1>3, <2>1, <3>1
  <2>8. Above(v, i) = Limb(v, i) + B * Above(v, i + 1)
    <3>1. i \in Nat \ {0}
          BY <1>3, <2>1
    <3> QED
        BY <1>1, <3>1, AboveIs
  <2>9. /\ g[i] = Above(u, j + i - 1) - q * Above(v, i) + w[i - 1]
        /\ g[i + 1] = Above(u, j + (i + 1) - 1) - q * Above(v, i + 1) + w[i]
        /\ Above(u, j + (i + 1) - 1) \in Int /\ Above(v, i + 1) \in Int
    <3>1. g[i] = Above(u, j + i - 1) - q * Above(v, i) + w[i - 1]
          BY <1>4, <2>1
    <3>2. /\ g[i + 1] = Above(u, j + (i + 1) - 1) - q * Above(v, i + 1) + w[(i + 1) - 1]
          /\ Above(u, j + (i + 1) - 1) \in Nat /\ Above(v, i + 1) \in Nat
          BY <1>4, <2>1
    <3>3. Above(u, j + (i + 1) - 1) \in Int /\ Above(v, i + 1) \in Int
          BY <3>2
    <3> QED
        BY <2>1, <3>1, <3>2, <3>3, Zenon
  <2>10. HornerTake(u[j + i - 1], Limb(v, i), q, w[i - 1], r[i], Above(u, j + (i + 1) - 1), Above(v, i + 1), w[i])
        BY <1>2, <2>3, <2>6, <2>9, HornerTakes
  <2>12. g[i] = r[i] + B * g[i + 1]
        BY <2>5, <2>7, <2>8, <2>9, <2>10, <2>11, Zenon DEF HornerTake
  <2> QED
      BY <2>3, <2>12
<1>6. Chained(n + 1, r, g)
  <2>1. \A i \in 1 .. (n + 1) + 1 : g[i] \in Int
        BY <1>4
  <2> QED
      BY <1>5, <2>1 DEF Chained
<1>7. g[1] = Above(u, j) - q * Value(v)
  <2>1. 1 \in 1 .. n + 2 /\ j + 1 - 1 = j /\ 1 - 1 = 0
        OBVIOUS
  <2>2. g[1] = Above(u, j + 1 - 1) - q * Above(v, 1) + w[1 - 1] /\ Above(u, j + 1 - 1) \in Nat /\ Above(v, 1) \in Nat
        BY <1>4, <2>1
  <2>3. Above(v, 1) = Value(v)
        BY <1>1, AboveIs
  <2>4. w[0] = 0
        BY DEF TakenOff
  <2>5. q * Value(v) \in Int
        BY <1>2, <2>2, <2>3
  <2> QED
      BY <2>1, <2>2, <2>3, <2>4, <2>5
<1>8. g[n + 2] = w[n + 1]
  <2>1. n + 2 \in 1 .. n + 2 /\ (n + 2) - 1 = n + 1 /\ j + (n + 2) - 1 = (j + n) + 1 /\ n + 2 \in Nat /\ n + 2 > n
        OBVIOUS
  <2>2. g[n + 2] = Above(u, j + (n + 2) - 1) - q * Above(v, n + 2) + w[(n + 2) - 1] /\ w[(n + 2) - 1] \in Int
        BY <1>4, <2>1
  <2>3. Above(v, n + 2) = 0
        BY <1>1, <2>1, AboveIs
  <2>4. Above(u, j + (n + 2) - 1) = 0
        BY <2>1
  <2>5. q * 0 = 0
        BY <1>2
  <2> QED
      BY <2>1, <2>2, <2>3, <2>4, <2>5
<1> QED
    BY <1>6, <1>7, <1>8 DEF g, TakenSays

\* The carry out of the top limb when the divisor is added back.
Onward(r, c, v, n) == [i \in 0 .. n + 1 |-> IF i <= n THEN c[i] ELSE (r[n + 1] + Limb(v, n + 1) + c[n]) \div B]

BackAt(g, v, o, n) == [i \in 1 .. n + 2 |-> g[i] + Above(v, i) + o[i - 1]]

\* The carries of the adding back, and the limbs they leave.
BackIs(v, n, r, c, e) ==
    /\ c[0] = 0 /\ \A i \in 0 .. n : c[i] \in 0 .. 1
    /\ \A i \in 1 .. n : c[i] = (r[i] + v[i] + c[i - 1]) \div B
    /\ \A i \in 1 .. n + 1 : e[i] = (r[i] + Limb(v, i) + c[i - 1]) % B

\* Adding back adds the divisor.
LEMMA BackChain ==
    ASSUME NEW v \in Divisors, NEW n \in Nat, n = Len(v), NEW r, NEW g, Chained(n + 1, r, g),
           NEW c, NEW e, BackIs(v, n, r, c, e)
    PROVE  /\ Chained(n + 1, e, BackAt(g, v, Onward(r, c, v, n), n))
           /\ BackAt(g, v, Onward(r, c, v, n), n)[1] = g[1] + Value(v)
<1>0. /\ c[0] = 0 /\ \A i \in 0 .. n : c[i] \in 0 .. 1
      /\ \A i \in 1 .. n : c[i] = (r[i] + v[i] + c[i - 1]) \div B
      /\ \A i \in 1 .. n + 1 : e[i] = (r[i] + Limb(v, i) + c[i - 1]) % B
      BY DEF BackIs
<1> USE <1>0
<1> DEFINE o == Onward(r, c, v, n)
           h == BackAt(g, v, o, n)
<1>1. v \in Limbs /\ n >= 2 /\ B \in Int
      BY DivisorIs, BaseNat
<1>2. ASSUME NEW i \in 1 .. n + 1
      PROVE  /\ r[i] \in 0 .. B - 1 /\ Limb(v, i) \in 0 .. B - 1 /\ c[i - 1] \in 0 .. 1
             /\ o[i - 1] = c[i - 1] /\ o[i] = (r[i] + Limb(v, i) + c[i - 1]) \div B
  <2>1. i - 1 \in 0 .. n + 1 /\ i - 1 <= n /\ i \in 0 .. n + 1 /\ i - 1 \in 0 .. n /\ n + 1 \in Nat
        OBVIOUS
  <2>2. o[i - 1] = c[i - 1]
        BY <2>1 DEF Onward
  <2>3. o[i] = (r[i] + Limb(v, i) + c[i - 1]) \div B
    <3>1. CASE i <= n
      <4>1. i \in 1 .. n
            BY <3>1
      <4>2. o[i] = c[i]
            BY <2>1, <3>1 DEF Onward
      <4>3. Limb(v, i) = v[i]
            BY <1>1, <4>1, LimbIs
      <4> HIDE DEF o
      <4> QED
          BY <4>1, <4>2, <4>3
    <3>2. CASE ~(i <= n)
      <4>1. i = n + 1 /\ i - 1 = n
            BY <3>2
      <4>2. o[i] = (r[n + 1] + Limb(v, n + 1) + c[n]) \div B
            BY <2>1, <3>2 DEF Onward
      <4> HIDE DEF o
      <4> QED
          BY <4>1, <4>2
    <3> QED
        BY <3>1, <3>2
  <2>4. r[i] \in 0 .. B - 1
        BY DEF Chained
  <2>5. Limb(v, i) \in 0 .. B - 1
        BY <1>1, LimbIs
  <2> HIDE DEF o
  <2> QED
      BY <2>1, <2>2, <2>3, <2>4, <2>5
<1> HIDE DEF o
<1>3. \A i \in 0 .. n + 1 : o[i] \in 0 .. 1
  <2> SUFFICES ASSUME NEW i \in 0 .. n + 1
               PROVE  o[i] \in 0 .. 1
      OBVIOUS
  <2>1. CASE i = 0
    <3>1. 1 \in 1 .. n + 1 /\ 1 - 1 = 0
          OBVIOUS
    <3>2. o[1 - 1] = c[1 - 1] /\ c[1 - 1] \in 0 .. 1
          BY <1>2, <3>1
    <3> QED
        BY <2>1, <3>1, <3>2
  <2>2. CASE i # 0
    <3>1. i \in 1 .. n + 1
          BY <2>2
    <3>2. r[i] \in 0 .. B - 1 /\ Limb(v, i) \in 0 .. B - 1 /\ c[i - 1] \in 0 .. 1 /\ o[i] = (r[i] + Limb(v, i) + c[i - 1]) \div B
          BY <1>2, <3>1
    <3> QED
        BY <3>2, CarryBit
  <2> QED
      BY <2>1, <2>2
<1>4. ASSUME NEW i \in 1 .. n + 2
      PROVE  h[i] = g[i] + Above(v, i) + o[i - 1] /\ h[i] \in Int /\ g[i] \in Int /\ Above(v, i) \in Int /\ o[i - 1] \in Int
  <2>1. i \in Nat /\ i - 1 \in 0 .. n + 1 /\ i \in 1 .. (n + 1) + 1
        OBVIOUS
  <2>2. h[i] = g[i] + Above(v, i) + o[i - 1]
        BY DEF BackAt
  <2>3. g[i] \in Int
        BY <2>1 DEF Chained
  <2>4. Above(v, i) \in Nat
        BY <1>1, <2>1, AboveIs
  <2>5. o[i - 1] \in 0 .. 1
        BY <1>3, <2>1
  <2> HIDE DEF h
  <2> QED
      BY <2>2, <2>3, <2>4, <2>5
<1> HIDE DEF h
<1>5. ASSUME NEW i \in 1 .. n + 1
      PROVE  e[i] \in 0 .. B - 1 /\ h[i] = e[i] + B * h[i + 1]
  <2> DEFINE x == r[i] + Limb(v, i) + c[i - 1]
  <2>1. i \in 1 .. n + 2 /\ i + 1 \in 1 .. n + 2 /\ (i + 1) - 1 = i /\ i \in Nat \ {0} /\ i \in 0 .. n + 1
        OBVIOUS
  <2>2. r[i] \in 0 .. B - 1 /\ Limb(v, i) \in 0 .. B - 1 /\ c[i - 1] \in 0 .. 1 /\ o[i - 1] = c[i - 1] /\ o[i] = x \div B
        BY <1>2
  <2>3. r[i] \in Int /\ Limb(v, i) \in Int /\ c[i - 1] \in Int /\ o[i - 1] \in Int /\ o[i] \in Int
    <3>1. o[i] \in 0 .. 1
          BY <1>3, <2>1
    <3> QED
        BY <2>2, <3>1, BaseNat
  <2>4. e[i] = x % B /\ x \in Int
        BY <2>3
  <2>11. x = r[i] + Limb(v, i) + o[i - 1]
        BY <2>2
  <2> HIDE DEF x
  <2>5. e[i] \in 0 .. B - 1 /\ x = e[i] + B * o[i]
        BY <2>2, <2>4, BaseQuotient
  <2>6. e[i] \in Int
        BY <2>5, BaseNat
  <2>7. g[i] = r[i] + B * g[i + 1]
        BY DEF Chained
  <2>8. Above(v, i) = Limb(v, i) + B * Above(v, i + 1)
        BY <1>1, <2>1, AboveIs
  <2>9. /\ h[i] = g[i] + Above(v, i) + o[i - 1] /\ h[i + 1] = g[i + 1] + Above(v, i + 1) + o[i]
        /\ g[i + 1] \in Int /\ Above(v, i + 1) \in Int
    <3>1. h[i + 1] = g[i + 1] + Above(v, i + 1) + o[(i + 1) - 1] /\ g[i + 1] \in Int /\ Above(v, i + 1) \in Int
          BY <1>4, <2>1
    <3>2. h[i] = g[i] + Above(v, i) + o[i - 1]
          BY <1>4, <2>1
    <3> QED
        BY <2>1, <3>1, <3>2, Zenon
  <2>10. HornerSum(r[i], Limb(v, i), o[i - 1], e[i], g[i + 1], Above(v, i + 1), o[i])
        BY <2>3, <2>6, <2>9, HornerSums
  <2>12. h[i] = e[i] + B * h[i + 1]
        BY <2>5, <2>7, <2>8, <2>9, <2>10, <2>11, Zenon DEF HornerSum
  <2> QED
      BY <2>5, <2>12
<1>6. Chained(n + 1, e, h)
  <2>1. \A i \in 1 .. (n + 1) + 1 : h[i] \in Int
        BY <1>4
  <2> QED
      BY <1>5, <2>1 DEF Chained
<1>7. h[1] = g[1] + Value(v)
  <2>1. 1 \in 1 .. n + 2 /\ 1 \in 1 .. n + 1 /\ 1 - 1 = 0
        OBVIOUS
  <2>2. h[1] = g[1] + Above(v, 1) + o[0] /\ g[1] \in Int /\ Above(v, 1) \in Int
        BY <1>4, <2>1
  <2>3. o[0] = 0
        BY <1>2, <2>1
  <2>4. Above(v, 1) = Value(v)
        BY <1>1, AboveIs
  <2> QED
      BY <2>2, <2>3, <2>4
<1> QED
    BY <1>6, <1>7 DEF h, o

\* What one place of divmod_knuth does: the dividend from that place on is the
\* divisor times the digit, and what is left is below the divisor.
TookOff(t, s, v, j) ==
    /\ t.u \in Limbs /\ Len(t.u) = Len(s.u) /\ t.q \in 0 .. B - 1 /\ t.sound \in BOOLEAN
    /\ \A k \in 1 .. Len(s.u) : k < j => t.u[k] = s.u[k]
    /\ t.sound => s.sound
    /\ t.sound /\ Above(s.u, j + 1) < Value(v)
          => Above(s.u, j) = Value(v) * t.q + Above(t.u, j) /\ Above(t.u, j) < Value(v)

\* A number below a multiple of the base.
BelowTimes(x, p, v) == x \in 0 .. B - 1 /\ p < v => x + B * p < B * v
\* BelowTimes, for all of them.
LEMMA BelowsTimes == \A x \in Int : \A p, v \in Nat : BelowTimes(x, p, v)
<1> SUFFICES ASSUME NEW x \in Int, NEW p \in Nat, NEW v \in Nat, x \in 0 .. B - 1, p < v
             PROVE  x + B * p < B * v
    BY DEF BelowTimes
<1>1. B \in Nat
      BY BaseNat
<1>2. B * (p + 1) <= B * v
      BY <1>1, ProductMono
<1>3. B * (p + 1) = B * p + B
      BY <1>1
<1>4. B * p \in Int /\ B * v \in Int
      BY <1>1
<1> QED
    BY <1>1, <1>2, <1>3, <1>4

\* D3 to D6 at a place: a sound step finds the true digit of the quotient and
\* leaves the true remainder, below the divisor.
THEOREM TakeOffExact ==
    ASSUME NEW s, s.u \in Limbs, s.sound \in BOOLEAN, NEW v \in Divisors, NEW n \in Nat, n = Len(v),
           NEW j \in 1 .. Len(s.u), j + n \in 1 .. Len(s.u)
    PROVE  TookOff(TakeOff(s, v, j), s, v, j)
<1> DEFINE t == TakeOff(s, v, j)
           u == s.u
           q == Estimate(s.u, v, j)
           V == Value(v)
           N == Above(u, j)
           P == Power(B)
<1>1. PICK w, r, c : TakenOff(t, s, v, j, n, q, w, r, c)
      BY TakeOffIs
<1>2. q \in 0 .. B - 1
      BY EstimateIs
<1>3. /\ t.u \in Limbs /\ Len(t.u) = Len(u) /\ t.q \in 0 .. B - 1
      /\ \A k \in 1 .. Len(u) : k < j \/ k > j + n => t.u[k] = u[k]
      /\ \A i \in 1 .. n + 1 : /\ j + i - 1 \in 1 .. Len(u)
                               /\ w[n + 1] < 0 => t.u[j + i - 1] = (r[i] + Limb(v, i) + c[i - 1]) % B
                               /\ ~(w[n + 1] < 0) => t.u[j + i - 1] = r[i]
  <2> HIDE DEF t, q
  <2>1. TakenLimbs(t, s, v, j, n, w, r, c)
        BY <1>1, <1>2, TakenOffLimbs
  <2> QED
      BY <2>1 DEF TakenLimbs
<1>4. t.sound \in BOOLEAN /\ (t.sound => s.sound)
  <2> HIDE DEF t, q
  <2> QED
      BY <1>1 DEF TakenOff
<1>5. ASSUME t.sound, Above(u, j + 1) < V
      PROVE  N = V * t.q + Above(t.u, j) /\ Above(t.u, j) < V
  <2>1. v \in Limbs /\ n >= 2 /\ n + 1 \in Nat /\ n \in Nat /\ Len(u) \in Nat /\ n + 1 \in Nat \ {0}
        BY DivisorIs, LimbIs
  <2>2. V \in Nat /\ V < P[n] /\ P[n] \in Nat \ {0} /\ P[n + 1] \in Nat \ {0} /\ P[n] <= P[n + 1]
    <3>1. V \in Nat /\ V < P[n]
          BY <2>1, ValueBound
    <3>2. P[n] \in Nat \ {0} /\ P[n + 1] \in Nat \ {0}
          BY <2>1, BaseNext
    <3>3. n <= n + 1
          OBVIOUS
    <3>4. P[n] <= P[n + 1]
          BY <2>1, <3>3, BaseNat, PowerMono
    <3> QED
        BY <3>1, <3>2, <3>4
  <2>3. N = u[j] + B * Above(u, j + 1) /\ u[j] \in 0 .. B - 1 /\ Above(u, j + 1) \in Nat /\ N \in Nat
        BY AboveNext
  <2> HIDE DEF t, q, N, V, P
  <2>4. Above(u, (j + n) + 1) = 0
    <3> DEFINE a == Above(u, j + 1)
    <3>1. j + 1 \in Nat \ {0} /\ (j + 1) + n = (j + n) + 1
          OBVIOUS
    <3>2. Above(u, (j + 1) + n) = a \div P[n]
          BY <2>1, <3>1, AboveSplit DEF P
    <3>3. a \in Nat /\ a < P[n] /\ a = P[n] * 0 + a /\ a \in 0 .. P[n] - 1
          BY <1>5, <2>2, <2>3
    <3> HIDE DEF a
    <3>4. a \div P[n] = 0
          BY <2>2, <3>3, QuotientIs
    <3> QED
        BY <3>1, <3>2, <3>4
  <2>5. u[j + n] < v[n]
        BY <1>1, <1>5 DEF TakenOff
  <2>6. OneOver(N, V, q)
        BY <2>4, <2>5, EstimateIs DEF N, V, q
  <2>7. N < B * V
    <3>1. u[j] \in Int
          BY <2>3, BaseNat
    <3>2. BelowTimes(u[j], Above(u, j + 1), V)
          BY <2>2, <2>3, <3>1, BelowsTimes
    <3> QED
        BY <1>5, <2>3, <3>2, Zenon DEF BelowTimes
  <2> DEFINE g == TakenAt(u, v, j, n, q, w)
  <2>8. Chained(n + 1, r, g) /\ g[1] = N - q * V /\ g[n + 2] = w[n + 1]
    <3>1. TakenSays(s, v, j, n, q, w, r, g)
          BY <1>1, <1>2, <1>5, <2>4, TakenChain DEF g
    <3> QED
        BY <3>1 DEF TakenSays, N, V
  <2> HIDE DEF g
  <2>9. g[1] < 0 <=> w[n + 1] < 0
    <3>1. (n + 1) + 1 = n + 2
          OBVIOUS
    <3>2. g[1] < 0 <=> g[(n + 1) + 1] < 0
          BY <2>1, <2>8, SignCarries
    <3> QED
        BY <2>8, <3>1, <3>2
  <2>10. q \in Nat /\ q \in Int /\ V \in Int /\ N \in Int /\ q * V \in Int /\ q * V \in Nat
    <3>1. q \in Nat
          BY <1>2
    <3> QED
        BY <2>2, <2>3, <3>1
  <2>11. /\ Above(t.u, j + (n + 1)) = 0 /\ j + (n + 1) - 1 \in 1 .. Len(t.u) /\ j \in 1 .. Len(t.u)
    <3>1. \A k \in Nat : k > j + n => Limb(t.u, k) = Limb(u, k)
      <4> SUFFICES ASSUME NEW k \in Nat, k > j + n
                   PROVE  Limb(t.u, k) = Limb(u, k)
          OBVIOUS
      <4>1. CASE k > Len(u)
            BY <1>3, <4>1, LimbIs
      <4>2. CASE ~(k > Len(u))
        <5>1. k \in 1 .. Len(u) /\ k \in 1 .. Len(t.u) /\ t.u[k] = u[k]
              BY <1>3, <2>1, <4>2
        <5> QED
            BY <1>3, <5>1, LimbIs
      <4> QED
          BY <4>1, <4>2
    <3>2. j + n \in Nat /\ j + (n + 1) = (j + n) + 1
          OBVIOUS
    <3>3. Above(t.u, (j + n) + 1) = Above(u, (j + n) + 1)
          BY <1>3, <3>1, <3>2, AboveSame
    <3>4. j + (n + 1) - 1 \in 1 .. Len(t.u)
          BY <1>3
    <3> QED
        BY <1>3, <2>4, <3>2, <3>3, <3>4
  <2>12. \A z : \A e : Chained(n + 1, e, z) /\ (\A i \in 1 .. n + 1 : t.u[j + i - 1] = e[i]) /\ z[1] >= 0 /\ z[1] < V
                => Above(t.u, j) = z[1]
    <3> SUFFICES ASSUME NEW z, NEW e, Chained(n + 1, e, z), \A i \in 1 .. n + 1 : t.u[j + i - 1] = e[i], z[1] >= 0, z[1] < V
                 PROVE  Above(t.u, j) = z[1]
        OBVIOUS
    <3> DEFINE m == n + 1
    <3>1. m \in Nat \ {0} /\ Chained(m, e, z) /\ Above(t.u, j + m) = 0 /\ j + m - 1 \in 1 .. Len(t.u)
          BY <2>1, <2>11
    <3>2. \A i \in 1 .. m : t.u[j + i - 1] = e[i]
          OBVIOUS
    <3>5. V < P[m] /\ P[m] \in Int
          BY <2>2
    <3> HIDE DEF m
    <3>3. \A i \in 1 .. m : z[i] = t.u[j + i - 1] + B * z[i + 1]
      <4> SUFFICES ASSUME NEW i \in 1 .. m
                   PROVE  z[i] = t.u[j + i - 1] + B * z[i + 1]
          OBVIOUS
      <4>1. z[i] = e[i] + B * z[i + 1]
            BY <3>1 DEF Chained
      <4>2. t.u[j + i - 1] = e[i]
            BY <3>2
      <4> QED
          BY <4>1, <4>2, Zenon
    <3>4. \A i \in 1 .. m + 1 : z[i] \in Int
          BY <3>1 DEF Chained
    <3>6. z[1] < P[m]
      <4>1. 1 \in 1 .. m + 1
            BY <3>1
      <4>2. z[1] \in Int
            BY <3>4, <4>1
      <4> QED
          BY <2>2, <3>5, <4>2
    <3> QED
      <4>1. ReadFrom(t.u, j, m, z)
            BY <3>1, <3>3, <3>4, <3>6 DEF P, ReadFrom
      <4> QED
          BY <1>3, <2>11, <4>1, AboveFrom
  <2>13. CASE ~(w[n + 1] < 0)
    <3>1. g[1] >= 0 /\ g[1] \in Int
      <4>1. g[1] \in Int
            BY <2>8, <2>10
      <4> QED
          BY <2>9, <2>13, <4>1
    <3>2. g[1] < V
      <4> SUFFICES ASSUME ~(g[1] < V)
                   PROVE  FALSE
          OBVIOUS
      <4>1. (q + 1) * V = q * V + V
            BY <2>10
      <4>2. (q + 1) * V <= N
            BY <2>8, <2>10, <4>1
      <4>3. q + 1 \in Nat
            BY <2>10
      <4>4. q + 1 <= q
            BY <2>6, <4>2, <4>3 DEF OneOver
      <4> QED
          BY <2>10, <4>4
    <3>3. \A i \in 1 .. n + 1 : t.u[j + i - 1] = r[i]
          BY <1>3, <2>13
    <3>4. Above(t.u, j) = g[1]
          BY <2>8, <2>12, <3>1, <3>2, <3>3, Zenon
    <3>5. t.q = q
          BY <1>1, <2>13 DEF TakenOff
    <3>6. V * q = q * V
          BY <2>10
    <3> QED
        BY <2>8, <2>10, <3>2, <3>4, <3>5, <3>6
  <2>14. CASE w[n + 1] < 0
    <3>1. g[1] < 0 /\ g[1] \in Int
      <4>1. g[1] \in Int
            BY <2>8, <2>10
      <4> QED
          BY <2>9, <2>14, <4>1
    <3>2. q # 0
      <4> SUFFICES ASSUME q = 0
                   PROVE  FALSE
          OBVIOUS
      <4>1. q * V = 0
            BY <2>10
      <4> QED
          BY <2>3, <2>8, <3>1, <4>1
    <3>3. (q - 1) * V = q * V - V /\ (q - 1) * V <= N
      <4>1. (q - 1) * V <= N
            BY <2>6 DEF OneOver
      <4>2. (q - 1) * V = q * V - V
            BY <2>10
      <4> QED
          BY <4>1, <4>2
    <3> DEFINE o == Onward(r, c, v, n)
               h == BackAt(g, v, o, n)
               e == [i \in 1 .. n + 1 |-> (r[i] + Limb(v, i) + c[i - 1]) % B]
    <3>4. \A i \in 1 .. n + 1 : e[i] = (r[i] + Limb(v, i) + c[i - 1]) % B
          OBVIOUS
    <3> HIDE DEF e
    <3>5. c[0] = 0 /\ (\A i \in 0 .. n : c[i] \in 0 .. 1) /\ \A i \in 1 .. n : c[i] = (r[i] + v[i] + c[i - 1]) \div B
          BY <1>1 DEF TakenOff
    <3>6. Chained(n + 1, e, h) /\ h[1] = g[1] + V
      <4>1. BackIs(v, n, r, c, e)
            BY <3>4, <3>5 DEF BackIs
      <4> QED
          BY <2>8, <4>1, BackChain DEF V
    <3> HIDE DEF o, h
    <3>7. h[1] >= 0 /\ h[1] < V /\ h[1] \in Int
          BY <2>8, <2>10, <3>1, <3>3, <3>6
    <3>8. \A i \in 1 .. n + 1 : t.u[j + i - 1] = e[i]
          BY <1>3, <2>14, <3>4
    <3>9. Above(t.u, j) = h[1]
          BY <2>12, <3>6, <3>7, <3>8, Zenon
    <3>10. t.q = q - 1
      <4>1. t.q = (q - 1) % B
            BY <1>1, <2>14 DEF TakenOff
      <4>2. q - 1 \in 0 .. B - 1 /\ q - 1 \in Int /\ q - 1 = B * 0 + (q - 1)
            BY <1>2, <2>10, <3>2, BaseNat
      <4>3. (q - 1) % B = q - 1
            BY <4>2, BaseNat, QuotientIs
      <4> QED
          BY <4>1, <4>3
    <3>11. V * (q - 1) = (q - 1) * V
          BY <2>10
    <3> QED
        BY <2>8, <2>10, <3>3, <3>6, <3>7, <3>9, <3>10, <3>11
  <2> QED
      BY <2>13, <2>14
<1> HIDE DEF t
<1> QED
    BY <1>3, <1>4, <1>5 DEF TookOff, t

-----------------------------------------------------------------------------
(* The places of a long division.                                          *)

\* What is held between two places: the dividend's limbs, the digit found.
Held(k) == [u : {l \in Limbs : Len(l) = k}, q : 0 .. B - 1, sound : BOOLEAN]

\* A step keeps that.
LEMMA TakeOffHeld ==
    ASSUME NEW v \in Divisors, NEW n \in Nat, n = Len(v), NEW k \in Nat, NEW s \in Held(k), NEW j \in 1 .. k, j + n \in 1 .. k
    PROVE  TakeOff(s, v, j) \in Held(k) /\ TookOff(TakeOff(s, v, j), s, v, j)
<1> DEFINE t == TakeOff(s, v, j)
<1>1. s.u \in Limbs /\ Len(s.u) = k /\ s.sound \in BOOLEAN
      BY DEF Held
<1>2. TookOff(t, s, v, j)
      BY <1>1, TakeOffExact
<1>3. t.u \in Limbs /\ Len(t.u) = k /\ t.q \in 0 .. B - 1 /\ t.sound \in BOOLEAN
  <2> HIDE DEF t
  <2> QED
      BY <1>1, <1>2 DEF TookOff
<1>4. \E a, b, c : t = [q |-> a, u |-> b, sound |-> c]
      BY DEF TakeOff
<1> HIDE DEF t
<1>5. t \in Held(k)
      BY <1>3, <1>4 DEF Held
<1> QED
    BY <1>2, <1>5 DEF t

\* The places of divmod_knuth, m of them.
Start(u) == [u |-> u, q |-> 0, sound |-> TRUE]

Places(u, v, m) ==
    CHOOSE f : f = [j \in 1 .. m + 1 |-> IF j = m + 1 THEN Start(u) ELSE TakeOff(f[j + 1], v, j)]

\* The recurrence of the places.
PlacesSay(f, u, v, m) ==
    /\ f[m + 1] = Start(u)
    /\ \A j \in 1 .. m + 1 : f[j] \in Held(Len(u))
    /\ \A j \in 1 .. m : f[j] = TakeOff(f[j + 1], v, j) /\ TookOff(f[j], f[j + 1], v, j)

\* They satisfy it.
LEMMA PlacesAre ==
    ASSUME NEW u \in Limbs, NEW v \in Divisors, NEW m \in Nat, Len(u) = m + Len(v)
    PROVE  PlacesSay(Places(u, v, m), u, v, m)
<1> DEFINE S == Held(Len(u))
           c == Start(u)
           Is(f) == f = [j \in 1 .. m + 1 |-> IF j = m + 1 THEN c ELSE TakeOff(f[j + 1], v, j)]
           step == [p \in (1 .. m) \X S |-> TakeOff(p[2], v, p[1])]
<1>1. Len(v) \in Nat /\ Len(v) >= 2 /\ Len(u) \in Nat
      BY DivisorIs, LimbIs
<1>2. ASSUME NEW j \in 1 .. m, NEW s \in S
      PROVE  TakeOff(s, v, j) \in S /\ TookOff(TakeOff(s, v, j), s, v, j)
  <2>1. j \in 1 .. Len(u) /\ j + Len(v) \in 1 .. Len(u)
        BY <1>1
  <2> QED
      BY <1>1, <2>1, TakeOffHeld
<1>3. \A j \in 1 .. m : \A s \in S : step[<<j, s>>] = TakeOff(s, v, j)
      OBVIOUS
<1>4. step \in [(1 .. m) \X S -> S]
      BY <1>2
<1>5. c \in S
      BY BaseNat DEF Start, Held
<1> HIDE DEF step, S, c
<1>6. PICK g \in [1 .. m + 1 -> S] : Downward(g, 1, m + 1, c, step)
  <2>1. 1 \in Int /\ m + 1 \in Int /\ \A j \in 1 .. m + 1 : j < m + 1 => j \in 1 .. m
        OBVIOUS
  <2> QED
      BY <1>4, <1>5, <2>1, ChainDown, Zenon
<1>7. Is(g)
  <2>1. \A j \in 1 .. m + 1 : j # m + 1 => j \in 1 .. m /\ g[j + 1] \in S
        OBVIOUS
  <2>2. g = [j \in 1 .. m + 1 |-> IF j = m + 1 THEN c ELSE step[<<j, g[j + 1]>>]]
        BY <1>6 DEF Downward
  <2> QED
      BY <2>1, <2>2, <1>3
<1>8. Places(u, v, m) = CHOOSE f : Is(f)
      BY DEF Places, c
<1>9. Is(Places(u, v, m))
  <2> HIDE DEF Is
  <2> QED
      BY <1>7, <1>8
<1> DEFINE F == Places(u, v, m)
<1>11. F = [j \in 1 .. m + 1 |-> IF j = m + 1 THEN c ELSE TakeOff(F[j + 1], v, j)]
      BY <1>9
<1> HIDE DEF F
<1>12. F[m + 1] = c /\ \A j \in 1 .. m : F[j] = TakeOff(F[j + 1], v, j)
      BY <1>11
<1>14. \A j \in 1 .. m + 1 : F[j] \in S
  <2>1. 1 \in Int /\ m + 1 \in Int /\ 1 <= m + 1 /\ F[m + 1] \in S
        BY <1>5, <1>12
  <2>2. ASSUME NEW j \in 1 .. m + 1, j < m + 1, F[j + 1] \in S
        PROVE  F[j] \in S
    <3>1. j \in 1 .. m
          BY <2>2
    <3>2. F[j] = TakeOff(F[j + 1], v, j)
          BY <1>12, <3>1
    <3> QED
        BY <1>2, <2>2, <3>1, <3>2
  <2> QED
      BY <2>1, <2>2, HoldsDown, Zenon
<1>15. ASSUME NEW j \in 1 .. m
       PROVE  F[j] = TakeOff(F[j + 1], v, j) /\ TookOff(F[j], F[j + 1], v, j)
  <2>1. j + 1 \in 1 .. m + 1
        OBVIOUS
  <2>2. F[j + 1] \in S
        BY <1>14, <2>1
  <2>3. TookOff(TakeOff(F[j + 1], v, j), F[j + 1], v, j)
        BY <1>2, <2>2
  <2> QED
      BY <1>12, <2>3
<1> QED
    BY <1>12, <1>14, <1>15 DEF F, S, c, PlacesSay

\* A digit taken off at a place, over the digits above it.
HornerPlace(x, a, v, q, k, z) ==
    x + B * a = v * q + z => x + B * (v * k + a) = v * (q + B * k) + z
\* HornerPlace, for all integers.
LEMMA HornerPlaces == \A x, a, v, q, k, z \in Int : HornerPlace(x, a, v, q, k, z)
<1>1. \A b, x, a, v, q, k, z \in Int : x + b * a = v * q + z => x + b * (v * k + a) = v * (q + b * k) + z
      OBVIOUS
<1> QED
    BY <1>1, BaseNat DEF HornerPlace

\* At place j: what is left of the dividend, and the digits so far.
PlaceAt(f, l, u, v, j) ==
    /\ \A k \in 1 .. Len(u) : k < j => f.u[k] = u[k]
    /\ f.sound => Above(u, j) = Value(v) * Above(l, j) + Above(f.u, j) /\ Above(f.u, j) < Value(v)

\* One place further down.
LEMMA PlaceNext ==
    ASSUME NEW u \in Limbs, NEW v \in Divisors, NEW l \in Limbs, NEW j \in 1 .. Len(l), j <= Len(u),
           NEW s \in Held(Len(u)), NEW t \in Held(Len(u)), TookOff(t, s, v, j), l[j] = t.q, PlaceAt(s, l, u, v, j + 1)
    PROVE  PlaceAt(t, l, u, v, j)
<1>1. /\ s.u \in Limbs /\ Len(s.u) = Len(u) /\ t.u \in Limbs /\ Len(t.u) = Len(u) /\ Len(u) \in Nat /\ j \in 1 .. Len(u)
      /\ Value(v) \in Nat /\ t.sound \in BOOLEAN
  <2>1. s.u \in Limbs /\ Len(s.u) = Len(u) /\ t.u \in Limbs /\ Len(t.u) = Len(u) /\ t.sound \in BOOLEAN
        BY DEF Held
  <2>2. Len(u) \in Nat /\ Len(l) \in Nat
        BY LimbIs
  <2>3. j \in 1 .. Len(u)
        BY <2>2
  <2>4. Value(v) \in Nat
        BY DivisorIs, ValueNat
  <2> QED
      BY <2>1, <2>2, <2>3, <2>4
<1>2. \A k \in 1 .. Len(u) : k < j => t.u[k] = u[k]
  <2> SUFFICES ASSUME NEW k \in 1 .. Len(u), k < j
               PROVE  t.u[k] = u[k]
      OBVIOUS
  <2>1. t.u[k] = s.u[k]
        BY <1>1 DEF TookOff
  <2>2. k < j + 1
        OBVIOUS
  <2>3. s.u[k] = u[k]
        BY <2>2 DEF PlaceAt
  <2> QED
      BY <2>1, <2>3
<1>3. ASSUME t.sound
      PROVE  Above(u, j) = Value(v) * Above(l, j) + Above(t.u, j) /\ Above(t.u, j) < Value(v)
  <2> DEFINE a == Above(s.u, j + 1)
             k == Above(l, j + 1)
             z == Above(t.u, j)
             V == Value(v)
  <2>1. s.sound
        BY <1>3 DEF TookOff
  <2>2. Above(u, j + 1) = V * k + a /\ a < V
        BY <2>1 DEF PlaceAt
  <2>3. Above(s.u, j) = V * t.q + z /\ z < V
        BY <1>3, <2>2 DEF TookOff
  <2>4. Above(s.u, j) = s.u[j] + B * a /\ a \in Nat
        BY <1>1, AboveNext
  <2>5. s.u[j] = u[j]
    <3>1. j < j + 1
          OBVIOUS
    <3> QED
        BY <1>1, <3>1 DEF PlaceAt
  <2>6. Above(u, j) = u[j] + B * Above(u, j + 1) /\ u[j] \in 0 .. B - 1
        BY <1>1, AboveNext
  <2>7. Above(l, j) = t.q + B * k /\ k \in Nat /\ t.q \in 0 .. B - 1
    <3>1. Above(l, j) = l[j] + B * k /\ k \in Nat /\ l[j] \in 0 .. B - 1
          BY AboveNext
    <3> QED
        BY <3>1
  <2>8. z \in Nat
        BY <1>1, AboveNext
  <2> HIDE DEF a, k, z, V
  <2>9. u[j] \in Int /\ a \in Int /\ V \in Int /\ t.q \in Int /\ k \in Int /\ z \in Int
        BY <1>1, <2>4, <2>6, <2>7, <2>8, BaseNat DEF V
  <2>10. HornerPlace(u[j], a, V, t.q, k, z)
        BY <2>9, HornerPlaces
  <2>11. u[j] + B * a = V * t.q + z
        BY <2>3, <2>4, <2>5, Zenon
  <2>12. u[j] + B * (V * k + a) = V * (t.q + B * k) + z
        BY <2>10, <2>11, Zenon DEF HornerPlace
  <2>13. Above(u, j) = V * Above(l, j) + z
        BY <2>2, <2>6, <2>7, <2>12, Zenon
  <2> QED
      BY <2>3, <2>13 DEF V, z
<1> QED
    BY <1>2, <1>3 DEF PlaceAt

\* The quotient and the remainder of two normalised numbers.
DividedBy(d, u, v, m) ==
    /\ d.q \in Limbs /\ Len(d.q) = m /\ d.r \in Limbs /\ Len(d.r) = Len(u) /\ d.sound \in BOOLEAN
    /\ d.sound /\ Above(u, m + 1) < Value(v) => Value(u) = Value(v) * Value(d.q) + Value(d.r) /\ Value(d.r) < Value(v)

\* divmod_knuth: the quotient and the remainder of a dividend whose top limbs
\* are less than the normalised divisor, whenever the division was sound.
THEOREM KnuthExact ==
    ASSUME NEW u \in Limbs, NEW v \in Divisors, NEW m \in Nat, Len(u) = m + Len(v)
    PROVE  DividedBy(Knuth(u, v), u, v, m)
<1> DEFINE F == Places(u, v, m)
           d == Knuth(u, v)
           l == [j \in 1 .. m |-> F[j].q]
<1>1. Len(v) \in Nat /\ Len(v) >= 2 /\ Len(u) \in Nat /\ Len(u) - Len(v) = m
      BY DivisorIs, LimbIs
<1>2. PlacesSay(F, u, v, m)
      BY PlacesAre
<1>3. d = [q |-> l, r |-> F[1].u, sound |-> F[1].sound]
  <2>1. d = [q |-> [j \in 1 .. Len(u) - Len(v) |-> Places(u, v, Len(u) - Len(v))[j].q],
             r |-> Places(u, v, Len(u) - Len(v))[1].u, sound |-> Places(u, v, Len(u) - Len(v))[1].sound]
        BY DEF Knuth, Places, Start
  <2> HIDE DEF d
  <2> QED
      BY <1>1, <2>1
<1> HIDE DEF F, d
<1>4. \A j \in 1 .. m + 1 : F[j] \in Held(Len(u))
      BY <1>2 DEF PlacesSay
<1>5. l \in Limbs /\ Len(l) = m
  <2>1. \A j \in 1 .. m : l[j] \in 0 .. B - 1
    <3> SUFFICES ASSUME NEW j \in 1 .. m
                 PROVE  l[j] \in 0 .. B - 1
        OBVIOUS
    <3>1. F[j] \in Held(Len(u))
          BY <1>4
    <3> QED
        BY <3>1 DEF Held
  <2>2. l = [j \in 1 .. m |-> l[j]]
        OBVIOUS
  <2> HIDE DEF l
  <2> QED
      BY <2>1, <2>2, LimbsAre
<1>6. 1 \in 1 .. m + 1 /\ m + 1 \in 1 .. m + 1 /\ 1 \in Int /\ m + 1 \in Int /\ 1 <= m + 1 /\ m + 1 \in Nat
      OBVIOUS
<1>7. F[1] \in Held(Len(u))
      BY <1>4, <1>6
<1>8. d.q = l /\ d.r = F[1].u /\ d.sound = F[1].sound
      BY <1>3
<1>12. \A j \in 1 .. m : l[j] = F[j].q
      OBVIOUS
<1> HIDE DEF l
<1>9. ASSUME Above(u, m + 1) < Value(v)
      PROVE  PlaceAt(F[1], l, u, v, 1)
  <2> DEFINE T == {j \in 1 .. m + 1 : PlaceAt(F[j], l, u, v, j)}
  <2>1. m + 1 \in T
    <3>1. F[m + 1].u = u
          BY <1>2 DEF PlacesSay, Start
    <3>2. Above(l, m + 1) = 0
          BY <1>5, <1>6, AboveIs
    <3>3. Above(u, m + 1) \in Nat /\ Value(v) \in Nat
      <4>1. v \in Limbs
            BY DivisorIs
      <4> QED
          BY <1>6, <4>1, AboveIs, ValueNat
    <3>4. Above(u, m + 1) = Value(v) * 0 + Above(u, m + 1)
          BY <3>3
    <3>5. PlaceAt(F[m + 1], l, u, v, m + 1)
          BY <1>9, <3>1, <3>2, <3>4 DEF PlaceAt
    <3> QED
        BY <1>6, <3>5
  <2>2. ASSUME NEW j \in 1 .. m + 1, j < m + 1, j + 1 \in T
        PROVE  j \in T
    <3>1. j \in 1 .. m /\ j + 1 \in 1 .. m + 1 /\ j \in 1 .. Len(l) /\ j <= Len(u)
          BY <1>1, <1>5, <2>2
    <3>2. F[j] \in Held(Len(u)) /\ F[j + 1] \in Held(Len(u))
          BY <1>4, <3>1
    <3>3. TookOff(F[j], F[j + 1], v, j)
          BY <1>2, <3>1 DEF PlacesSay
    <3>4. PlaceAt(F[j + 1], l, u, v, j + 1)
          BY <2>2
    <3>5. l[j] = F[j].q
          BY <1>12, <3>1
    <3>6. PlaceAt(F[j], l, u, v, j)
          BY <1>5, <3>1, <3>2, <3>3, <3>4, <3>5, PlaceNext
    <3> QED
        BY <3>6
  <2> HIDE DEF T
  <2>3. \A j \in 1 .. m + 1 : j \in T
        BY <1>6, <2>1, <2>2, InductDown
  <2> QED
      BY <1>6, <2>3 DEF T
<1>10. d.q \in Limbs /\ Len(d.q) = m /\ d.r \in Limbs /\ Len(d.r) = Len(u) /\ d.sound \in BOOLEAN
      BY <1>5, <1>7, <1>8 DEF Held
<1>11. ASSUME d.sound, Above(u, m + 1) < Value(v)
       PROVE  Value(u) = Value(v) * Value(d.q) + Value(d.r) /\ Value(d.r) < Value(v)
  <2>1. Value(u) = Above(u, 1) /\ Value(l) = Above(l, 1) /\ Value(d.r) = Above(d.r, 1)
        BY <1>5, <1>10, AboveIs
  <2>2. Above(u, 1) = Value(v) * Above(l, 1) + Above(F[1].u, 1) /\ Above(F[1].u, 1) < Value(v)
        BY <1>8, <1>9, <1>11 DEF PlaceAt
  <2> QED
      BY <1>8, <2>1, <2>2, Zenon
<1> QED
    BY <1>10, <1>11 DEF DividedBy, d

-----------------------------------------------------------------------------
(* Normalising the operands, and the division as a whole.                  *)

\* Limbs whose value fits fewer are zero above them.
LEMMA PrefixValue ==
    ASSUME NEW l \in Limbs, NEW n \in 1 .. Len(l), Value(l) < Power(B)[n]
    PROVE  SubSeq(l, 1, n) \in Limbs /\ Len(SubSeq(l, 1, n)) = n /\ Value(SubSeq(l, 1, n)) = Value(l)
<1> DEFINE r == SubSeq(l, 1, n)
           g == [i \in 1 .. n + 1 |-> Above(l, i)]
<1>1. r \in Limbs /\ Len(r) = n /\ \A i \in 1 .. n : r[i] = l[i]
      BY Prefix DEF Limbs
<1>2. Len(l) \in Nat /\ n \in Nat /\ n \in Nat \ {0}
      BY LimbIs
<1> HIDE DEF r
<1>3. Above(l, n + 1) = 0
  <2> DEFINE a == Value(l)
             p == Power(B)[n]
  <2>1. Above(l, n + 1) = a \div p
        BY <1>2, AboveDiv
  <2>2. a \in Nat /\ p \in Nat \ {0} /\ a < p
        BY <1>2, ValueNat, BaseNext
  <2> HIDE DEF a, p
  <2>3. a \in 0 .. p - 1 /\ a = p * 0 + a
        BY <2>2
  <2> QED
      BY <2>1, <2>2, <2>3, QuotientIs
<1>4. g[Len(r) + 1] = 0
      BY <1>1, <1>2, <1>3
<1>5. \A i \in 1 .. Len(r) : g[i] = r[i] + B * g[i + 1]
  <2> SUFFICES ASSUME NEW i \in 1 .. n
               PROVE  g[i] = r[i] + B * g[i + 1]
      BY <1>1
  <2>1. i \in 1 .. Len(l) /\ i \in 1 .. n + 1 /\ i + 1 \in 1 .. n + 1
        BY <1>2
  <2>2. Above(l, i) = l[i] + B * Above(l, i + 1)
        BY <2>1, AboveNext
  <2>3. g[i] = Above(l, i) /\ g[i + 1] = Above(l, i + 1)
        BY <2>1
  <2> HIDE DEF g
  <2> QED
      BY <1>1, <2>2, <2>3, Zenon
<1>6. g[1] = Value(l)
      BY <1>2, AboveIs
<1> HIDE DEF g
<1>7. Value(r) = g[1]
      BY <1>1, <1>4, <1>5, ValueBy
<1> QED
    BY <1>1, <1>6, <1>7 DEF r

\* A numeral of more than a limb: its top limb, and between which powers it lies.
LEMMA NumeralTop ==
    ASSUME NEW b \in Numerals, NEW n \in Nat, n = Len(b), n >= 2
    PROVE  /\ b \in Limbs /\ b[n] \in 1 .. B - 1 /\ Value(b) \in Nat /\ Value(b) >= Power(B)[n - 1]
           /\ \A c \in Nat : b[n] < c => Value(b) < c * Power(B)[n - 1]
<1> DEFINE p == Power(B)[n - 1]
           a == Value(b)
<1>1. b \in Limbs /\ b[n] # 0 /\ n \in 1 .. Len(b)
      BY DEF Numerals
<1>2. b[n] \in 0 .. B - 1 /\ b[n] \in 1 .. B - 1 /\ b[n] \in Nat
  <2>1. b[n] \in 0 .. B - 1
        BY <1>1, LimbIs
  <2> QED
      BY <1>1, <2>1, BaseNat
<1>3. a \in Nat /\ p \in Nat \ {0} /\ n - 1 \in Nat /\ (n - 1) + 1 = n /\ n + 1 \in Nat /\ n + 1 > n
  <2>1. n - 1 \in Nat /\ (n - 1) + 1 = n /\ n + 1 \in Nat /\ n + 1 > n
        OBVIOUS
  <2> QED
      BY <1>1, <2>1, ValueNat, BaseNext
<1>4. Above(b, n) = b[n]
  <2>1. Above(b, n) = b[n] + B * Above(b, n + 1)
        BY <1>1, AboveNext
  <2>2. Above(b, n + 1) = 0
        BY <1>1, <1>3, AboveIs
  <2>3. B * 0 = 0
        BY BaseNat
  <2> QED
      BY <1>2, <2>1, <2>2, <2>3
<1>5. a \div p = b[n]
  <2>1. Above(b, (n - 1) + 1) = Value(b) \div Power(B)[n - 1]
        BY <1>1, <1>3, AboveDiv
  <2> QED
      BY <1>3, <1>4, <2>1
<1> HIDE DEF p, a
<1>6. a >= p
  <2>1. a \div p >= 1
        BY <1>2, <1>5
  <2>2. a >= p * 1
        BY <1>3, <2>1, QuotientLess
  <2> QED
      BY <1>3, <2>2
<1>7. ASSUME NEW c \in Nat, b[n] < c
      PROVE  a < c * p
  <2>1. a < p * c
        BY <1>3, <1>5, <1>7, QuotientLess
  <2>2. p * c = c * p
        BY <1>3
  <2> QED
      BY <2>1, <2>2
<1> QED
    BY <1>1, <1>2, <1>3, <1>6, <1>7 DEF p, a

\* The normalisation of D1.
ShiftOf(b) == LimbBits - Bits(b[Len(b)])

\* The divisor of D1 has its top bit set.
LEMMA Normalised ==
    ASSUME NEW b \in Numerals, NEW n \in Nat, n = Len(b), n >= 2, NEW s, s = ShiftOf(b)
    PROVE  /\ s \in 0 .. LimbBits - 1 /\ Up(b, s, n) \in Divisors /\ Len(Up(b, s, n)) = n
           /\ Value(Up(b, s, n)) = Two[s] * Value(b)
<1> DEFINE k == Bits(b[n])
           v == Up(b, s, n)
           x == b[n]
           p == Power(B)[n - 1]
<1>1. b \in Limbs /\ x \in 1 .. B - 1 /\ x \in 0 .. B - 1 /\ Value(b) \in Nat /\ LimbBits \in Nat
  <2>1. b \in Limbs /\ b[n] \in 1 .. B - 1 /\ Value(b) \in Nat
        BY NumeralTop
  <2>2. \A c \in 1 .. B - 1 : c \in 0 .. B - 1
        BY BaseNat
  <2>3. LimbBits \in Nat
        BY NumberAssumption
  <2> QED
      BY <2>1, <2>2, <2>3
<1>2. k \in 0 .. LimbBits /\ x < Two[k] /\ (k = 0 \/ x >= Two[k - 1])
      BY <1>1, BitsIs
<1>3. k # 0
  <2> SUFFICES ASSUME k = 0
               PROVE  FALSE
      OBVIOUS
  <2>1. Two[k] = 1
        BY BaseIs
  <2> HIDE DEF k, x
  <2> QED
      BY <1>1, <1>2, <2>1
<1>4. s = LimbBits - k
      BY DEF ShiftOf
<1>14. \A c \in Nat : x < c => Value(b) < c * p
      BY NumeralTop
<1> HIDE DEF k, x
<1>5. s \in 0 .. LimbBits - 1 /\ s \in Nat /\ k \in Nat /\ k - 1 \in Nat /\ s + k = LimbBits /\ s + (k - 1) = LimbBits - 1 /\ (s + (k - 1)) + 1 = LimbBits
      /\ LimbBits - 1 \in Nat /\ s \in 0 .. LimbBits
      BY <1>1, <1>2, <1>3, <1>4
<1>6. /\ Two[s] * Two[k] = B /\ 2 * (Two[s] * Two[k - 1]) = B
      /\ Two[s] \in Nat \ {0} /\ Two[k] \in Nat \ {0} /\ Two[k - 1] \in Nat \ {0} /\ B \in Nat
  <2>1. Two[s + k] = Two[s] * Two[k] /\ Two[s + (k - 1)] = Two[s] * Two[k - 1]
        BY <1>5, TwoAdd
  <2>2. Two[(LimbBits - 1) + 1] = 2 * Two[LimbBits - 1] /\ B = Two[LimbBits]
        BY <1>5, BaseIs
  <2>3. (LimbBits - 1) + 1 = LimbBits
        BY <1>1
  <2>4. Two[s] \in Nat \ {0} /\ Two[k] \in Nat \ {0} /\ Two[k - 1] \in Nat \ {0} /\ B \in Nat
        BY <1>5, BaseNat, TwoNat
  <2>5. Two[s] * Two[k] = B
        BY <1>5, <2>1, <2>2, Zenon
  <2>6. 2 * (Two[s] * Two[k - 1]) = B
        BY <1>5, <2>1, <2>2, <2>3, Zenon
  <2> QED
      BY <2>4, <2>5, <2>6
<1>7. Two[s] * Value(b) < Power(B)[n]
  <2>1. p \in Nat \ {0} /\ Power(B)[n] = B * p
    <3>1. n - 1 \in Nat /\ (n - 1) + 1 = n
          OBVIOUS
    <3>2. Power(B)[(n - 1) + 1] = B * Power(B)[n - 1]
          BY <3>1, BaseNext
    <3> QED
        BY <3>1, <3>2, BaseNext
  <2>2. Value(b) < Two[k] * p
        BY <1>2, <1>6, <1>14
  <2> DEFINE y == Value(b)
             z == Two[k] * p
  <2>3. y \in Nat /\ z \in Nat /\ y < z
        BY <1>1, <1>6, <2>1, <2>2
  <2>4. Two[s] * z = B * p
    <3>1. \A e, f, g \in Int : e * (f * g) = (e * f) * g
          OBVIOUS
    <3>2. Two[s] \in Int /\ Two[k] \in Int /\ p \in Int
          BY <1>6, <2>1
    <3>3. Two[s] * (Two[k] * p) = (Two[s] * Two[k]) * p
          BY <3>1, <3>2
    <3> QED
        BY <1>6, <3>3
  <2> HIDE DEF y, z
  <2>5. Two[s] * y < Two[s] * z
        BY <1>6, <2>3, ProductLess
  <2> QED
      BY <2>1, <2>4, <2>5 DEF y
<1>8. v \in Limbs /\ Len(v) = n /\ Value(v) = Two[s] * Value(b)
      BY <1>1, <1>5, <1>7, UpExact
<1>9. 2 * v[n] >= B
  <2> DEFINE y == Limb(b, n - 1) \div Two[LimbBits - s]
  <2>1. v[n] = ((Limb(b, n) * Two[s]) % B) + y
        BY DEF Up
  <2>2. Limb(b, n) = x
        BY <1>1, LimbIs DEF x
  <2>3. y \in Nat
    <3>1. Limb(b, n - 1) \in 0 .. B - 1
          BY <1>1, LimbIs
    <3>2. LimbBits - s \in Nat
          BY <1>5
    <3>3. Two[LimbBits - s] \in Nat \ {0}
          BY <3>2, TwoNat
    <3>4. Limb(b, n - 1) \in Nat
          BY <3>1, BaseNat
    <3> QED
        BY <3>3, <3>4, QuotientNat
  <2> HIDE DEF y, v
  <2> DEFINE w == x * Two[s]
  <2>4. w \in Nat /\ w < B /\ 2 * w >= B
    <3>1. x \in Nat
          BY <1>1
    <3>2. x * Two[s] < Two[k] * Two[s] /\ Two[k - 1] * Two[s] <= x * Two[s]
      <4>1. Two[k - 1] <= x
            BY <1>1, <1>2, <1>3, <1>6
      <4>2. Two[k - 1] * Two[s] <= x * Two[s]
            BY <1>6, <3>1, <4>1, ProductMono
      <4>3. x * Two[s] < Two[k] * Two[s]
            BY <1>2, <1>6, <3>1, ProductLess
      <4> QED
          BY <4>2, <4>3
    <3>3. Two[k] * Two[s] = B /\ 2 * (Two[k - 1] * Two[s]) = B
          BY <1>6
    <3>4. w \in Nat /\ Two[k - 1] * Two[s] \in Nat
          BY <1>6, <3>1
    <3> QED
        BY <1>6, <3>2, <3>3, <3>4
  <2>5. v[n] = (w % B) + y
        BY <2>1, <2>2
  <2> HIDE DEF w
  <2>6. w % B = w
    <3>1. w \in 0 .. B - 1 /\ w = B * 0 + w /\ w \in Int
          BY <1>6, <2>4
    <3> QED
        BY <3>1, BaseNat, QuotientIs
  <2> QED
      BY <1>6, <2>3, <2>4, <2>5, <2>6
<1>10. v \in Divisors
  <2> HIDE DEF v
  <2> QED
      BY <1>8, <1>9 DEF Divisors
<1> QED
    BY <1>5, <1>8, <1>10

\* The shift of the dividend makes room for one more limb, and its leading
\* limbs are below the divisor.
LEMMA Dividend ==
    ASSUME NEW a \in Numerals, NEW b \in Numerals, NEW n \in Nat, n = Len(b), n >= 2, NEW s, s = ShiftOf(b),
           NEW m \in Nat, m + n = Len(a) + 1, m >= 1
    PROVE  /\ Up(a, s, Len(a) + 1) \in Limbs /\ Len(Up(a, s, Len(a) + 1)) = m + n
           /\ Value(Up(a, s, Len(a) + 1)) = Two[s] * Value(a)
           /\ Above(Up(a, s, Len(a) + 1), m + 1) < Value(Up(b, s, n))
<1> DEFINE k == Len(a)
           u == Up(a, s, k + 1)
           v == Up(b, s, n)
           P == Power(B)
           x == Value(a)
           y == Value(b)
           t == Two[s]
<1>1. a \in Limbs /\ k \in Nat /\ x \in Nat /\ x < P[k]
  <2>1. a \in Limbs
        BY DEF Numerals
  <2> QED
      BY <2>1, LimbIs, ValueBound
<1>2. y \in Nat /\ y >= P[n - 1]
      BY NumeralTop
<1>3. s \in 0 .. LimbBits - 1 /\ Value(v) = t * y
      BY Normalised
<1>4. s \in Nat /\ t \in Nat \ {0} /\ t < B
  <2>1. LimbBits \in Nat /\ s \in Nat /\ s + 1 \in Nat /\ s + 1 <= LimbBits
        BY <1>3, NumberAssumption
  <2>2. Two[s + 1] <= Two[LimbBits] /\ Two[s + 1] = 2 * Two[s]
        BY <2>1, TwoMono, BaseIs
  <2>3. t \in Nat \ {0} /\ B = Two[LimbBits]
        BY <2>1, TwoNat, BaseIs
  <2> HIDE DEF t
  <2>4. 2 * t <= B
        BY <2>2, <2>3 DEF t
  <2> QED
      BY <2>1, <2>3, <2>4, BaseNat
<1>5. P[k] \in Nat \ {0} /\ P[k + 1] = B * P[k] /\ P[m] \in Nat \ {0} /\ n - 1 \in Nat /\ P[n - 1] \in Nat \ {0} /\ B \in Nat \ {0}
  <2>1. n - 1 \in Nat
        OBVIOUS
  <2> QED
      BY <1>1, <2>1, BaseNext, BaseNat
<1>6. P[k] = P[m] * P[n - 1]
  <2>1. m + (n - 1) = k
        BY <1>1
  <2>2. P[m + (n - 1)] = P[m] * P[n - 1]
        BY <1>5, BaseNat, PowerAdd
  <2> QED
      BY <2>1, <2>2
<1> HIDE DEF k, x, y, t, P
<1>7. t * x < P[k + 1]
  <2>1. t * x <= B * x
        BY <1>1, <1>4, <1>5, ProductMono
  <2>2. B * x < B * P[k]
        BY <1>1, <1>5, ProductLess
  <2>3. t * x \in Nat /\ B * x \in Nat /\ B * P[k] \in Nat
        BY <1>1, <1>4, <1>5
  <2> QED
      BY <1>5, <2>1, <2>2, <2>3
<1>8. u \in Limbs /\ Len(u) = k + 1 /\ Value(u) = t * x
  <2>1. k + 1 \in Nat
        BY <1>1
  <2> QED
      BY <1>1, <1>3, <1>7, <2>1, UpExact DEF t, x, P
<1>9. t * x < P[m] * (t * y)
  <2> DEFINE q == P[n - 1]
             z == P[m]
  <2>1. q \in Nat /\ z \in Nat /\ q <= y /\ x < z * q /\ z * q \in Nat
    <3>1. q \in Nat /\ z \in Nat /\ q <= y
          BY <1>2, <1>5
    <3>2. z * q \in Nat
          BY <3>1
    <3> QED
        BY <1>1, <1>6, <3>1, <3>2
  <2> HIDE DEF q, z
  <2>2. t * x < t * (z * q)
    <3> DEFINE w == z * q
    <3>1. w \in Nat /\ x < w
          BY <2>1
    <3> HIDE DEF w
    <3>2. t * x < t * w
          BY <1>1, <1>4, <3>1, ProductLess
    <3> QED
        BY <3>2 DEF w
  <2>3. z * q <= z * y
        BY <1>2, <2>1, ProductMono
  <2>4. t * (z * q) <= t * (z * y)
    <3> DEFINE w == z * q
               h == z * y
    <3>1. w \in Nat /\ h \in Nat /\ w <= h /\ t \in Nat
          BY <1>2, <1>4, <2>1, <2>3
    <3> HIDE DEF w, h
    <3>2. t * w <= t * h
          BY <3>1, ProductMono
    <3> QED
        BY <3>2 DEF w, h
  <2>5. \A e, f, g \in Int : e * (f * g) = f * (e * g) /\ e * (f * g) \in Int /\ e * f \in Int
        OBVIOUS
  <2>6. t \in Int /\ z \in Int /\ y \in Int /\ q \in Int /\ x \in Int
        BY <1>1, <1>2, <1>4, <2>1
  <2>7. t * (z * y) = z * (t * y) /\ t * (z * y) \in Int /\ t * (z * q) \in Int /\ t * x \in Int
        BY <2>5, <2>6, Zenon
  <2>8. t * x < t * (z * y)
        BY <2>2, <2>4, <2>7
  <2>9. t * x < z * (t * y)
        BY <2>7, <2>8
  <2> QED
      BY <2>9 DEF z
<1>10. Above(u, m + 1) < Value(v)
  <2>1. Above(u, m + 1) = Value(u) \div P[m]
        BY <1>8, AboveDiv DEF P
  <2> DEFINE e == t * x
             f == t * y
             g == P[m]
  <2>2. e \in Nat /\ f \in Nat /\ g \in Nat \ {0} /\ e < g * f
    <3>1. e \in Nat /\ f \in Nat
          BY <1>1, <1>2, <1>4
    <3> QED
        BY <1>5, <1>9, <3>1
  <2>3. Above(u, m + 1) = e \div g /\ Value(v) = f
        BY <1>3, <1>8, <2>1
  <2> HIDE DEF e, f, g
  <2> QED
      BY <2>2, <2>3, QuotientBound
<1>11. k + 1 = m + n
      BY DEF k
<1> QED
    BY <1>8, <1>10, <1>11 DEF k, t, x

\* A quotient and a remainder, when the division was sound.
DivModSays(d, a, b) ==
    /\ d.q \in Limbs /\ Len(d.q) \in 1 .. Len(a) /\ d.r \in Limbs /\ Len(d.r) \in 1 .. Len(a) /\ d.sound \in BOOLEAN
    /\ d.sound => Value(d.q) = Value(a) \div Value(b) /\ Value(d.r) = Value(a) % Value(b)

\* A division of both terms' multiples by t.
Scaled(x, y, t, q, r) == t * x = (t * y) * q + r /\ r < t * y

\* A common factor leaves the quotient, and divides out of the remainder.
LEMMA Unshifted ==
    ASSUME NEW x \in Nat, NEW y \in Nat \ {0}, NEW t \in Nat \ {0}, NEW q \in Nat, NEW r \in Nat, Scaled(x, y, t, q, r)
    PROVE  q = x \div y /\ r \div t = x % y
<1>0. t * x = (t * y) * q + r /\ r < t * y
      BY DEF Scaled
<1> USE <1>0
<1> DEFINE z == x - y * q
<1>1. z \in Int /\ x = y * q + z
  <2>1. y * q \in Int
        OBVIOUS
  <2> QED
      BY <2>1
<1>2. r = t * z
  <2>1. t * z = t * x - t * (y * q)
    <3>1. \A e, f, g \in Int : e * (f - g) = e * f - e * g
          OBVIOUS
    <3>2. t \in Int /\ x \in Int /\ y * q \in Int
          OBVIOUS
    <3> QED
        BY <3>1, <3>2
  <2>2. t * (y * q) = (t * y) * q
    <3>1. \A e, f, g \in Int : e * (f * g) = (e * f) * g
          OBVIOUS
    <3> QED
        BY <3>1
  <2>3. (t * y) * q \in Int /\ t * x \in Int
        OBVIOUS
  <2> HIDE DEF z
  <2> QED
      BY <2>1, <2>2, <2>3
<1> HIDE DEF z
<1>3. z >= 0
  <2>1. \A e \in Nat \ {0} : \A f \in Int : e * f >= 0 => f >= 0
        OBVIOUS
  <2>2. t * z >= 0
        BY <1>2
  <2> QED
      BY <1>1, <2>1, <2>2
<1>4. z < y
  <2>1. z \in Nat /\ y \in Nat
        BY <1>1, <1>3
  <2> SUFFICES ASSUME y <= z
               PROVE  FALSE
      BY <2>1
  <2>2. t * y <= t * z
        BY <2>1, ProductMono
  <2>3. t * y \in Int /\ t * z \in Int
        BY <2>1
  <2> QED
      BY <1>2, <2>2, <2>3
<1>5. x \div y = q /\ x % y = z
  <2>1. z \in 0 .. y - 1 /\ q \in Int /\ x \in Int
        BY <1>1, <1>3, <1>4
  <2> QED
      BY <1>1, <2>1, QuotientIs
<1>6. r \div t = z
  <2>1. 0 \in 0 .. t - 1 /\ r \in Int /\ t * z + 0 = r
    <3>1. t * z \in Int
          BY <1>1
    <3> QED
        BY <1>2, <3>1
  <2> QED
      BY <1>1, <2>1, QuotientIs
<1> QED
    BY <1>5, <1>6

\* A divisor of several limbs: normalised, divided, shifted back.
LEMMA KnuthDivides ==
    ASSUME NEW a \in Numerals, NEW b \in Numerals, ~Less(a, b), Len(b) # 1
    PROVE  DivModSays(DivMod(a, b), a, b)
<1> DEFINE n == Len(b)
           s == ShiftOf(b)
           m == (Len(a) + 1) - n
           u == Up(a, s, Len(a) + 1)
           v == Up(b, s, n)
           d == Knuth(u, v)
           t == Two[s]
           c == SubSeq(d.r, 1, n)
           e == DivMod(a, b)
<1>1. a \in Limbs /\ b \in Limbs /\ n \in Nat /\ n >= 2 /\ Len(a) \in Nat
  <2>1. a \in Limbs /\ b \in Limbs /\ Len(b) >= 1
        BY DEF Numerals
  <2>2. Len(a) \in Nat /\ Len(b) \in Nat
        BY <2>1, LimbIs
  <2>3. Len(b) >= 2
    <3> DEFINE k == Len(b)
    <3>1. k \in Nat /\ k >= 1 /\ k # 1
          BY <2>1, <2>2
    <3> HIDE DEF k
    <3>2. k >= 2
          BY <3>1
    <3> QED
        BY <3>2 DEF k
  <2> QED
      BY <2>1, <2>2, <2>3
<1>2. n <= Len(a)
      BY <1>1 DEF Less
<1>3. m \in Nat /\ m + n = Len(a) + 1 /\ m >= 1 /\ m <= Len(a)
      BY <1>1, <1>2
<1>4. s \in 0 .. LimbBits - 1 /\ v \in Divisors /\ Len(v) = n /\ Value(v) = t * Value(b)
      BY <1>1, Normalised
<1>14. s = ShiftOf(b)
      OBVIOUS
<1> HIDE DEF s, m
<1>5. u \in Limbs /\ Len(u) = m + n /\ Value(u) = t * Value(a) /\ Above(u, m + 1) < Value(v)
      BY <1>1, <1>3, <1>14, Dividend
<1>6. e.q = d.q /\ e.sound = d.sound /\ e.r = Down(c, s, n)
  <2>1. ~(n = 1)
        OBVIOUS
  <2>2. e = [d EXCEPT !.r = Down(SubSeq(@, 1, n), s, n)]
        BY <2>1 DEF DivMod, ShiftOf, s
  <2>3. \E x, y, z : d = [q |-> x, r |-> y, sound |-> z]
        BY DEF Knuth
  <2> HIDE DEF e, d, n
  <2> QED
      BY <2>2, <2>3 DEF c
<1> HIDE DEF u, v, e
<1>7. DividedBy(d, u, v, m)
      BY <1>3, <1>4, <1>5, KnuthExact
<1> HIDE DEF d
<1>8. d.q \in Limbs /\ Len(d.q) = m /\ d.r \in Limbs /\ Len(d.r) = m + n /\ d.sound \in BOOLEAN
      BY <1>5, <1>7 DEF DividedBy
<1>9. LimbBits \in Nat /\ s \in 0 .. LimbBits /\ s \in Nat
  <2>1. LimbBits \in Nat
        BY NumberAssumption
  <2> QED
      BY <1>4, <2>1
<1>10. c \in Limbs /\ Len(c) = n
  <2>1. n \in 1 .. Len(d.r)
        BY <1>1, <1>3, <1>8
  <2> QED
      BY <1>8, <2>1, Prefix DEF Limbs
<1>11. Down(c, s, n) \in Limbs /\ Len(Down(c, s, n)) = n /\ Value(Down(c, s, n)) = Value(c) \div t
      BY <1>1, <1>9, <1>10, DownExact
<1>12. ASSUME d.sound
       PROVE  Value(d.q) = Value(a) \div Value(b) /\ Value(Down(c, s, n)) = Value(a) % Value(b)
  <2>1. Value(u) = Value(v) * Value(d.q) + Value(d.r) /\ Value(d.r) < Value(v)
        BY <1>5, <1>7, <1>12 DEF DividedBy
  <2>2. Value(v) \in Nat /\ Value(v) < Power(B)[n] /\ Power(B)[n] \in Nat
    <3>1. v \in Limbs
          BY <1>4, DivisorIs
    <3> QED
        BY <1>1, <1>4, <3>1, ValueBound, BaseNext
  <2>3. Value(d.r) \in Nat /\ Value(d.q) \in Nat /\ Value(a) \in Nat /\ Value(b) \in Nat
        BY <1>1, <1>8, ValueNat
  <2>4. n \in 1 .. Len(d.r) /\ Value(d.r) < Power(B)[n]
        BY <1>1, <1>3, <1>8, <2>1, <2>2, <2>3
  <2>5. Value(c) = Value(d.r)
        BY <1>8, <2>4, PrefixValue
  <2>6. t \in Nat \ {0}
        BY <1>9, TwoNat
  <2>7. Value(b) \in Nat \ {0}
    <3>1. Value(b) # 0
      <4> SUFFICES ASSUME Value(b) = 0
                   PROVE  FALSE
          OBVIOUS
      <4>1. t * Value(b) = 0
            BY <2>6
      <4> QED
          BY <1>4, <2>1, <2>2, <2>3, <4>1
    <3> QED
        BY <2>3, <3>1
  <2> DEFINE A == Value(a)
             K == Value(b)
             q == Value(d.q)
             r == Value(d.r)
  <2>8. A \in Nat /\ K \in Nat \ {0} /\ q \in Nat /\ r \in Nat /\ t * A = (t * K) * q + r /\ r < t * K
        BY <1>4, <1>5, <2>1, <2>3, <2>7
  <2>9. Value(Down(c, s, n)) = r \div t
        BY <1>11, <2>5
  <2> HIDE DEF A, K, q, r, t
  <2>10. q = A \div K /\ r \div t = A % K
    <3>1. Scaled(A, K, t, q, r)
          BY <2>8 DEF Scaled
    <3>2. t \in Nat \ {0}
          BY <2>6 DEF t
    <3> QED
        BY <2>8, <3>1, <3>2, Unshifted
  <2> QED
      BY <2>9, <2>10 DEF A, K, q
<1>13. Len(e.q) \in 1 .. Len(a) /\ Len(e.r) \in 1 .. Len(a)
      BY <1>1, <1>2, <1>3, <1>6, <1>8, <1>11
<1> QED
    BY <1>6, <1>8, <1>11, <1>12, <1>13 DEF DivModSays, e

\* bn_divmod_impl: the quotient and the remainder of any two numbers, the
\* divisor not zero, whenever the division was sound; limbs in any case.
THEOREM DivModExact ==
    ASSUME NEW a \in Numerals, NEW b \in Numerals, ~IsZero(b)
    PROVE  DivModSays(DivMod(a, b), a, b)
<1> DEFINE d == DivMod(a, b)
<1>1. /\ a \in Limbs /\ b \in Limbs /\ Len(a) \in Nat /\ Len(a) >= 1 /\ a # <<>> /\ Value(a) \in Nat /\ Value(b) \in Nat \ {0}
  <2>1. a \in Limbs /\ b \in Limbs /\ Len(a) >= 1
        BY DEF Numerals
  <2>2. Len(a) \in Nat
        BY <2>1, LimbIs
  <2>3. a # <<>>
        BY <2>1, <2>2
  <2>4. Value(b) # 0
        BY ZeroValue
  <2> QED
      BY <2>1, <2>2, <2>3, <2>4, ValueNat
<1>2. CASE Less(a, b)
  <2>1. d = [q |-> Zero, r |-> a, sound |-> TRUE]
        BY <1>2 DEF DivMod
  <2> HIDE DEF d
  <2>2. d.q = Zero /\ d.r = a /\ d.sound = TRUE
        BY <2>1
  <2>3. Zero \in Limbs /\ Len(Zero) = 1 /\ Value(Zero) = 0
    <3>1. Zero \in Numerals /\ Value(Zero) = 0
          BY ZeroValue
    <3> QED
        BY <3>1 DEF Zero, Numerals
  <2>4. Value(a) < Value(b)
        BY <1>2, LessExact
  <2>5. Value(a) \div Value(b) = 0 /\ Value(a) % Value(b) = Value(a)
    <3> DEFINE x == Value(a)
               y == Value(b)
    <3>1. x \in Nat /\ y \in Nat \ {0} /\ x < y
          BY <1>1, <2>4
    <3> HIDE DEF x, y
    <3>2. x \in 0 .. y - 1 /\ x = y * 0 + x /\ x \in Int
          BY <3>1
    <3>3. x \div y = 0 /\ x % y = x
          BY <3>1, <3>2, QuotientIs
    <3> QED
        BY <3>3 DEF x, y
  <2>6. 1 \in 1 .. Len(a) /\ Len(a) \in 1 .. Len(a)
        BY <1>1
  <2>7. DivModSays(d, a, b)
        BY <1>1, <2>2, <2>3, <2>5, <2>6 DEF DivModSays
  <2> QED
      BY <2>7 DEF d
<1>3. CASE ~Less(a, b) /\ Len(b) = 1
  <2>1. d = DivShort(a, b[1])
        BY <1>3 DEF DivMod
  <2>2. b[1] \in 0 .. B - 1 /\ b = <<b[1]>> /\ b[1] # 0
    <3>1. 1 \in 1 .. Len(b)
          BY <1>3
    <3>2. b[1] \in 0 .. B - 1
          BY <1>1, <3>1, LimbIs
    <3>3. b = <<b[1]>>
          BY <1>1, <1>3 DEF Limbs
    <3>4. b # Zero
          BY DEF IsZero
    <3> QED
        BY <3>2, <3>3, <3>4 DEF Zero
  <2>3. b[1] \in 1 .. B - 1
        BY <2>2, BaseNat
  <2>4. Value(b) = b[1]
    <3> DEFINE x == b[1]
    <3>1. x \in 0 .. B - 1 /\ b = <<x>>
          BY <2>2
    <3> HIDE DEF x
    <3>2. Value(<<x>>) = x
          BY <3>1, OneLimb
    <3>3. Value(b) = x
          BY <3>1, <3>2
    <3> QED
        BY <3>3 DEF x
  <2>5. /\ d.q \in Limbs /\ Len(d.q) = Len(a) /\ d.r \in Limbs /\ Len(d.r) = 1
        /\ Value(d.q) = Value(a) \div b[1] /\ Value(d.r) = Value(a) % b[1]
        BY <1>1, <2>1, <2>3, DivShortExact
  <2>6. d.sound = TRUE
        BY <2>1 DEF DivShort
  <2> HIDE DEF d
  <2>7. 1 \in 1 .. Len(a) /\ Len(a) \in 1 .. Len(a)
        BY <1>1
  <2>8. DivModSays(d, a, b)
        BY <2>4, <2>5, <2>6, <2>7 DEF DivModSays
  <2> QED
      BY <2>8 DEF d
<1>4. CASE ~Less(a, b) /\ Len(b) # 1
      BY <1>4, KnuthDivides
<1> QED
    BY <1>2, <1>3, <1>4

-----------------------------------------------------------------------------
(* Reading decimal text.                                                   *)

\* Limbs that fit the scratch arrays.
Operands == {l \in Limbs : Len(l) \in 1 .. MaxLimbs}

\* The radix is a limb.
LEMMA RadixIs == Radix \in Nat /\ Radix \in Nat \ {0, 1} /\ Radix \in Int /\ Radix >= 2 /\ Radix <= B - 1 /\ MaxLimbs \in Nat \ {0} /\ MaxLimbs \in Nat
<1>1. Radix \in 2 .. Ones /\ MaxLimbs \in Nat \ {0}
      BY NumberAssumption
<1> QED
    BY <1>1, BaseNat

\* One limb of do_mul10_add.
RadixCarry(x, c) ==
    /\ x * Radix + c \in Nat /\ (x * Radix + c) \div B \in 0 .. Radix - 1 /\ (x * Radix + c) % B \in 0 .. B - 1
    /\ x * Radix + c = ((x * Radix + c) % B) + B * ((x * Radix + c) \div B)

\* The carry is less than the radix.
LEMMA RadixCarries ==
    ASSUME NEW x \in 0 .. B - 1, NEW c \in 0 .. Radix - 1
    PROVE  RadixCarry(x, c)
<1> DEFINE y == x * Radix + c
<1>1. x \in Nat /\ c \in Nat /\ Radix \in Nat \ {0} /\ B \in Nat \ {0} /\ Radix \in Nat
      BY RadixIs, BaseNat
<1>2. y \in Nat /\ y < B * Radix
  <2>1. (x + 1) * Radix <= B * Radix
    <3>1. x + 1 \in Nat /\ x + 1 <= B /\ B \in Nat
          BY <1>1
    <3> QED
        BY <1>1, <3>1, ProductMono
  <2>2. (x + 1) * Radix = x * Radix + Radix
        BY <1>1
  <2>3. x * Radix \in Nat /\ B * Radix \in Nat /\ c < Radix
        BY <1>1
  <2> QED
      BY <1>1, <2>1, <2>2, <2>3
<1> HIDE DEF y
<1>3. y \div B < Radix /\ y \div B \in Nat
      BY <1>1, <1>2, QuotientBound, QuotientNat
<1>4. y % B \in 0 .. B - 1 /\ y = (y % B) + B * (y \div B)
      BY <1>2, BaseQuotient
<1>5. y \div B \in 0 .. Radix - 1
      BY <1>1, <1>3
<1> QED
    BY <1>2, <1>4, <1>5 DEF y, RadixCarry

\* The carries of do_mul10_add.
RadixChain(l, d) ==
    CHOOSE c : c = [i \in 0 .. Len(l) |-> IF i = 0 THEN d ELSE (l[i] * Radix + c[i - 1]) \div B]

\* Their recurrence.
RadixChainSays(c, l, d, n) ==
    /\ c[0] = d /\ \A i \in 0 .. n : c[i] \in 0 .. Radix - 1
    /\ \A i \in 1 .. n : c[i] = (l[i] * Radix + c[i - 1]) \div B

\* They satisfy it and are less than the radix.
LEMMA RadixChainIs ==
    ASSUME NEW l \in Limbs, NEW n \in Nat, n = Len(l), NEW d \in 0 .. Radix - 1
    PROVE  RadixChainSays(RadixChain(l, d), l, d, n)
<1> DEFINE S == 0 .. Radix - 1
           Is(c) == c = [i \in 0 .. n |-> IF i = 0 THEN d ELSE (l[i] * Radix + c[i - 1]) \div B]
           step == [p \in (1 .. n) \X S |-> (l[p[1]] * Radix + p[2]) \div B]
<1>1. ASSUME NEW i \in 1 .. n, NEW x \in S
      PROVE  (l[i] * Radix + x) \div B \in S
  <2>1. l[i] \in 0 .. B - 1
        BY LimbIs
  <2>2. RadixCarry(l[i], x)
        BY <2>1, RadixCarries
  <2> QED
      BY <2>2 DEF RadixCarry
<1>3. \A i \in 1 .. n : \A x \in S : step[<<i, x>>] = (l[i] * Radix + x) \div B
      OBVIOUS
<1>4. step \in [(1 .. n) \X S -> S]
      BY <1>1
<1> HIDE DEF step, S
<1>5. PICK f \in [0 .. n -> S] : Upward(f, 0, n, d, step)
  <2>1. 0 \in Int /\ n \in Int /\ d \in S /\ \A i \in 0 .. n : 0 < i => i \in 1 .. n
        BY DEF S
  <2> QED
      BY <2>1, <1>4, ChainUp, Zenon
<1>6. Is(f)
  <2>1. \A i \in 0 .. n : i # 0 => i \in 1 .. n /\ f[i - 1] \in S
        OBVIOUS
  <2>2. f = [i \in 0 .. n |-> IF i = 0 THEN d ELSE step[<<i, f[i - 1]>>]]
        BY <1>5 DEF Upward
  <2> QED
      BY <2>1, <2>2, <1>3
<1>7. RadixChain(l, d) = CHOOSE c : Is(c)
      BY DEF RadixChain
<1>8. Is(RadixChain(l, d))
  <2> HIDE DEF Is
  <2> QED
      BY <1>6, <1>7
<1> DEFINE F == RadixChain(l, d)
<1>9. F = [i \in 0 .. n |-> IF i = 0 THEN d ELSE (l[i] * Radix + F[i - 1]) \div B]
      BY <1>8
<1> HIDE DEF F
<1>10. F[0] = d /\ \A i \in 1 .. n : F[i] = (l[i] * Radix + F[i - 1]) \div B
      BY <1>9
<1>11. \A i \in 0 .. n : F[i] \in S
  <2>1. 0 \in Int /\ n \in Int /\ 0 <= n /\ F[0] \in S
        BY <1>10 DEF S
  <2>2. ASSUME NEW i \in 0 .. n, i < n, F[i] \in S
        PROVE  F[i + 1] \in S
    <3>1. i + 1 \in 1 .. n /\ (i + 1) - 1 = i
          BY <2>2
    <3>2. F[i + 1] = (l[i + 1] * Radix + F[(i + 1) - 1]) \div B
          BY <1>10, <3>1
    <3> QED
        BY <3>1, <3>2, <1>1, <2>2
  <2> QED
      BY <2>1, <2>2, HoldsUp, Zenon
<1> QED
    BY <1>10, <1>11 DEF F, S, RadixChainSays

\* A limb times the radix and a carry make a limb and the next carry.
HornerMulAdd(x, v, z, r, p, c) ==
    x * v + z = r + B * c => (x + B * p) * v + z = r + B * (p * v + c)
\* HornerMulAdd, for all integers.
LEMMA HornerMulAdds == \A x, v, z, r, p, c \in Int : HornerMulAdd(x, v, z, r, p, c)
<1>1. \A b, x, v, z, r, p, c \in Int : x * v + z = r + b * c => (x + b * p) * v + z = r + b * (p * v + c)
      OBVIOUS
<1> QED
    BY <1>1, BaseNat DEF HornerMulAdd

\* The limbs before the last carry is appended.
Scaled10(l, d) == [i \in 1 .. Len(l) |-> (l[i] * Radix + RadixChain(l, d)[i - 1]) % B]

\* Those limbs and the last carry are the number times the radix.
LEMMA Scaled10Is ==
    ASSUME NEW l \in Limbs, NEW n \in Nat, n = Len(l), NEW d \in 0 .. Radix - 1
    PROVE  /\ Scaled10(l, d) \in Limbs /\ Len(Scaled10(l, d)) = n /\ RadixChain(l, d)[n] \in 0 .. Radix - 1
           /\ \E g : /\ g[1] = Value(l) * Radix + d /\ g[n + 1] = RadixChain(l, d)[n]
                     /\ \A i \in 1 .. n : g[i] = Scaled10(l, d)[i] + B * g[i + 1]
<1> DEFINE r == Scaled10(l, d)
           C == RadixChain(l, d)
           g == [i \in 1 .. n + 1 |-> Above(l, i) * Radix + C[i - 1]]
<1>1. RadixChainSays(C, l, d, n)
      BY RadixChainIs
<1>2. r = [i \in 1 .. n |-> (l[i] * Radix + C[i - 1]) % B]
      BY DEF Scaled10
<1> HIDE DEF r, C
<1>3. ASSUME NEW i \in 1 .. n
      PROVE  /\ r[i] \in 0 .. B - 1 /\ l[i] * Radix + C[i - 1] = r[i] + B * C[i]
             /\ l[i] \in Int /\ C[i - 1] \in Int /\ r[i] \in Int /\ C[i] \in Int
  <2>1. l[i] \in 0 .. B - 1 /\ i - 1 \in 0 .. n /\ i \in 0 .. n
        BY LimbIs
  <2>2. C[i - 1] \in 0 .. Radix - 1 /\ C[i] \in 0 .. Radix - 1 /\ C[i] = (l[i] * Radix + C[i - 1]) \div B
        BY <1>1, <2>1 DEF RadixChainSays
  <2>3. RadixCarry(l[i], C[i - 1])
        BY <2>1, <2>2, RadixCarries
  <2>4. r[i] = (l[i] * Radix + C[i - 1]) % B
        BY <1>2
  <2>5. r[i] \in 0 .. B - 1
        BY <2>3, <2>4 DEF RadixCarry
  <2>6. l[i] * Radix + C[i - 1] = r[i] + B * C[i]
        BY <2>2, <2>3, <2>4, Zenon DEF RadixCarry
  <2>7. l[i] \in Int /\ C[i - 1] \in Int /\ r[i] \in Int /\ C[i] \in Int
        BY <2>1, <2>2, <2>5, BaseNat, RadixIs
  <2> QED
      BY <2>5, <2>6, <2>7
<1>4. r \in Limbs /\ Len(r) = n
  <2>1. r = [i \in 1 .. n |-> r[i]]
        BY <1>2
  <2>2. \A i \in 1 .. n : r[i] \in 0 .. B - 1
        BY <1>3
  <2> QED
      BY <2>1, <2>2, LimbsAre
<1>5. ASSUME NEW i \in 1 .. n
      PROVE  g[i] = r[i] + B * g[i + 1]
  <2>1. i \in 1 .. n + 1 /\ i + 1 \in 1 .. n + 1 /\ (i + 1) - 1 = i
        OBVIOUS
  <2>2. g[i] = Above(l, i) * Radix + C[i - 1]
        BY <2>1
  <2>3. g[i + 1] = Above(l, i + 1) * Radix + C[i]
        BY <2>1
  <2> HIDE DEF g
  <2>4. Above(l, i) = l[i] + B * Above(l, i + 1) /\ Above(l, i + 1) \in Nat
        BY AboveNext
  <2>5. Above(l, i + 1) \in Int /\ Radix \in Int
        BY <2>4, RadixIs
  <2>6. /\ l[i] * Radix + C[i - 1] = r[i] + B * C[i]
        /\ l[i] \in Int /\ C[i - 1] \in Int /\ r[i] \in Int /\ C[i] \in Int
        BY <1>3
  <2>7. HornerMulAdd(l[i], Radix, C[i - 1], r[i], Above(l, i + 1), C[i])
        BY <2>5, <2>6, HornerMulAdds
  <2> QED
      BY <2>2, <2>3, <2>4, <2>6, <2>7, Zenon DEF HornerMulAdd
<1>6. g[1] = Value(l) * Radix + d
  <2>1. 1 \in 1 .. n + 1 /\ 1 - 1 = 0
        OBVIOUS
  <2>2. g[1] = Above(l, 1) * Radix + C[0]
        BY <2>1
  <2> HIDE DEF g
  <2> QED
      BY <1>1, <2>2, AboveIs DEF RadixChainSays
<1>7. C[n] \in 0 .. Radix - 1 /\ C[n] \in Int
  <2>1. n \in 0 .. n
        OBVIOUS
  <2> QED
      BY <1>1, <2>1, RadixIs DEF RadixChainSays
<1>8. g[n + 1] = C[n]
  <2>1. n + 1 \in 1 .. n + 1 /\ (n + 1) - 1 = n /\ n + 1 \in Nat /\ n + 1 > n
        OBVIOUS
  <2>2. g[n + 1] = Above(l, n + 1) * Radix + C[n]
        BY <2>1
  <2>3. Above(l, n + 1) = 0
        BY <2>1, AboveIs
  <2>4. 0 * Radix = 0
        BY RadixIs
  <2> HIDE DEF g
  <2> QED
      BY <1>7, <2>2, <2>3, <2>4
<1> HIDE DEF g
<1> QED
    BY <1>4, <1>5, <1>6, <1>7, <1>8 DEF r, C

\* One more limb on top.
LEMMA Appended ==
    ASSUME NEW l \in Limbs, NEW x \in 0 .. B - 1
    PROVE  /\ Append(l, x) \in Limbs /\ Len(Append(l, x)) = Len(l) + 1
           /\ \A i \in 1 .. Len(l) : Append(l, x)[i] = l[i]
           /\ Append(l, x)[Len(l) + 1] = x
<1>1. \A S : \A p \in Seq(S) : \A z \in S : /\ Append(p, z) \in Seq(S) /\ Len(Append(p, z)) = Len(p) + 1
                                           /\ \A i \in 1 .. Len(p) : Append(p, z)[i] = p[i]
                                           /\ Append(p, z)[Len(p) + 1] = z
      OBVIOUS
<1>2. x \in 0 .. Ones
      BY BaseNat
<1> QED
    BY <1>1, <1>2 DEF Limbs

\* do_mul10_add is exact while the number fits the scratch array.
LEMMA MulAddExact ==
    ASSUME NEW l \in Operands, NEW d \in 0 .. Radix - 1, Value(l) * Radix + d < Power(B)[MaxLimbs]
    PROVE  MulAdd(l, d) \in Operands /\ Value(MulAdd(l, d)) = Value(l) * Radix + d
<1> DEFINE n == Len(l)
           r == Scaled10(l, d)
           c == RadixChain(l, d)[n]
           out == IF c = 0 THEN r ELSE Append(r, c)
           k == Smaller(Len(out), MaxLimbs)
           y == Value(l) * Radix + d
<1>1. l \in Limbs /\ n \in Nat /\ n >= 1 /\ n <= MaxLimbs /\ DOMAIN l = 1 .. n
      BY DEF Operands, Limbs
<1>2. MulAdd(l, d) = SubSeq(out, 1, k)
      BY <1>1 DEF MulAdd, Scaled10, RadixChain
<1>3. /\ r \in Limbs /\ Len(r) = n /\ c \in 0 .. Radix - 1
      /\ \E g : g[1] = y /\ g[n + 1] = c /\ \A i \in 1 .. n : g[i] = r[i] + B * g[i + 1]
      BY <1>1, Scaled10Is
<1> HIDE DEF r, c, n, y
<1>4. PICK g : g[1] = y /\ g[n + 1] = c /\ \A i \in 1 .. n : g[i] = r[i] + B * g[i + 1]
      BY <1>3
<1>5. c \in 0 .. B - 1 /\ c \in Int
      BY <1>3, RadixIs, BaseNat
<1>6. out \in Limbs /\ Len(out) \in n .. n + 1 /\ Value(out) = y
  <2>1. CASE c = 0
    <3>1. g[Len(r) + 1] = 0 /\ \A i \in 1 .. Len(r) : g[i] = r[i] + B * g[i + 1]
          BY <1>3, <1>4, <2>1
    <3>2. Value(r) = y
          BY <1>3, <1>4, <3>1, ValueBy
    <3> QED
        BY <1>1, <1>3, <2>1, <3>2
  <2>2. CASE c # 0
    <3> DEFINE a == Append(r, c)
               h == [i \in 1 .. n + 2 |-> IF i = n + 2 THEN 0 ELSE g[i]]
    <3>1. a \in Limbs /\ Len(a) = n + 1 /\ a[n + 1] = c /\ \A i \in 1 .. n : a[i] = r[i]
          BY <1>3, <1>5, Appended
    <3> HIDE DEF a
    <3>2. h[(n + 1) + 1] = 0
          BY <1>1
    <3>3. \A i \in 1 .. n + 1 : h[i] = a[i] + B * h[i + 1]
      <4> SUFFICES ASSUME NEW i \in 1 .. n + 1
                   PROVE  h[i] = a[i] + B * h[i + 1]
          OBVIOUS
      <4>1. CASE i = n + 1
        <5>1. h[i] = g[n + 1] /\ h[i + 1] = 0
              BY <1>1, <4>1
        <5> HIDE DEF h
        <5>2. c = c + B * 0
              BY <1>5, BaseNat
        <5> QED
            BY <1>4, <3>1, <4>1, <5>1, <5>2
      <4>2. CASE i # n + 1
        <5>1. i \in 1 .. n /\ h[i] = g[i] /\ h[i + 1] = g[i + 1]
              BY <1>1, <4>2
        <5> HIDE DEF h
        <5>2. g[i] = r[i] + B * g[i + 1] /\ a[i] = r[i]
              BY <1>4, <3>1, <5>1
        <5> QED
            BY <5>1, <5>2, Zenon
      <4> QED
          BY <4>1, <4>2
    <3>4. h[1] = y
          BY <1>1, <1>4
    <3> HIDE DEF h
    <3>5. h[Len(a) + 1] = 0 /\ \A i \in 1 .. Len(a) : h[i] = a[i] + B * h[i + 1]
          BY <3>1, <3>2, <3>3
    <3>6. Value(a) = y
          BY <3>1, <3>4, <3>5, ValueBy
    <3> QED
        BY <1>1, <2>2, <3>1, <3>6 DEF a
  <2> QED
      BY <2>1, <2>2
<1> HIDE DEF out
<1>7. k \in 1 .. Len(out) /\ k \in 1 .. MaxLimbs /\ (k = Len(out) \/ k = MaxLimbs)
      BY <1>1, <1>6, RadixIs DEF Smaller
<1>8. Value(out) < Power(B)[k]
      BY <1>6, <1>7, ValueBound DEF y
<1>9. SubSeq(out, 1, k) \in Limbs /\ Len(SubSeq(out, 1, k)) = k /\ Value(SubSeq(out, 1, k)) = Value(out)
      BY <1>6, <1>7, <1>8, PrefixValue
<1> QED
    BY <1>2, <1>6, <1>7, <1>9 DEF y, Operands

\* The powers of the radix.
RadixPower(k) == Power(Radix)[k]

\* They are positive, and larger than their exponents.
LEMMA RadixPowers ==
    ASSUME NEW k \in Nat
    PROVE  /\ RadixPower(k) \in Nat \ {0} /\ RadixPower(k + 1) = Radix * RadixPower(k)
           /\ RadixPower(0) = 1 /\ k < RadixPower(k)
<1>1. Radix \in Nat \ {0} /\ Radix \in Nat \ {0, 1} /\ Radix \in Nat
      BY RadixIs
<1>2. Power(Radix)[0] = 1
      BY <1>1, PowerIs
<1>3. Power(Radix)[k] \in Nat \ {0} /\ Power(Radix)[k + 1] = Radix * Power(Radix)[k]
      BY <1>1, PowerPos
<1>4. k < Power(Radix)[k]
      BY <1>1, PowerGrows
<1> QED
    BY <1>2, <1>3, <1>4 DEF RadixPower

\* A larger exponent, a larger power.
LEMMA RadixMono ==
    ASSUME NEW i \in Nat, NEW j \in Nat, i <= j
    PROVE  RadixPower(i) <= RadixPower(j)
BY RadixIs, PowerMono DEF RadixPower

\* k digits: the next power exceeds n, and no smaller one does.
SizeSays(k, n) == k \in Nat /\ k >= 1 /\ k <= n + 1 /\ n < RadixPower(k) /\ (k = 1 \/ n >= RadixPower(k - 1))

\* Size is the only such k.
LEMMA SizeIs ==
    ASSUME NEW n \in Nat
    PROVE  SizeSays(Size(n), n) /\ \A k : SizeSays(k, n) => k = Size(n)
<1> DEFINE Is(k) == n < RadixPower(k) /\ (k = 1 \/ n >= RadixPower(k - 1))
           T == {k \in 1 .. n + 1 : n < RadixPower(k)}
<1>1. n + 1 \in T
  <2>1. n + 1 \in Nat
        OBVIOUS
  <2>2. n + 1 < RadixPower(n + 1) /\ RadixPower(n + 1) \in Nat
        BY <2>1, RadixPowers
  <2> QED
      BY <2>2
<1>2. PICK m \in T : \A x \in T : m <= x
  <2>1. T \subseteq Nat /\ T # {}
        BY <1>1
  <2> HIDE DEF T
  <2> QED
      BY <2>1, Least
<1>3. m \in 1 .. n + 1 /\ Is(m)
  <2>1. m \in 1 .. n + 1 /\ n < RadixPower(m)
        OBVIOUS
  <2>2. CASE m # 1
    <3>1. m - 1 \in 1 .. n + 1 /\ ~(m <= m - 1) /\ m - 1 \in Nat
          BY <2>1, <2>2
    <3>2. ~(n < RadixPower(m - 1))
          BY <1>2, <3>1
    <3>3. RadixPower(m - 1) \in Nat
          BY <3>1, RadixPowers
    <3>4. n >= RadixPower(m - 1)
          BY <3>2, <3>3
    <3> QED
        BY <2>1, <3>4
  <2> QED
      BY <2>1, <2>2
<1> DEFINE s == CHOOSE k \in 1 .. n + 1 : Is(k)
<1>4. Size(n) = s
      BY DEF Size, RadixPower
<1>5. s \in 1 .. n + 1 /\ Is(s)
  <2> HIDE DEF Is
  <2> QED
      BY <1>3
<1> HIDE DEF s
<1>6. SizeSays(s, n)
      BY <1>5 DEF SizeSays
<1>7. ASSUME NEW a, NEW b, SizeSays(a, n), SizeSays(b, n), a < b
      PROVE  FALSE
  <2>1. a \in Nat /\ b \in Nat /\ b - 1 \in Nat /\ a <= b - 1 /\ n < RadixPower(a) /\ n >= RadixPower(b - 1) /\ b # 1
        BY <1>7 DEF SizeSays
  <2>2. RadixPower(a) <= RadixPower(b - 1) /\ RadixPower(a) \in Nat /\ RadixPower(b - 1) \in Nat
    <3> DEFINE c == b - 1
    <3>1. c \in Nat /\ a <= c
          BY <2>1
    <3> HIDE DEF c
    <3>2. RadixPower(a) <= RadixPower(c) /\ RadixPower(a) \in Nat /\ RadixPower(c) \in Nat
          BY <2>1, <3>1, RadixMono, RadixPowers
    <3> QED
        BY <3>2 DEF c
  <2> QED
      BY <2>1, <2>2
<1>8. ASSUME NEW k, SizeSays(k, n)
      PROVE  k = s
  <2>1. k \in Nat /\ s \in Nat
        BY <1>6, <1>8 DEF SizeSays
  <2>2. ~(k < s) /\ ~(s < k)
        BY <1>6, <1>7, <1>8
  <2> QED
      BY <2>1, <2>2
<1> QED
    BY <1>4, <1>6, <1>8

\* The numbers the digits spell from the left.
Leftmost(n, i) == n \div RadixPower(Size(n) - i)

\* Each digit appends to the number left of it.
LEMMA DigitsAre ==
    ASSUME NEW n \in Nat
    PROVE  /\ Size(n) \in Nat /\ Digits(n) = [i \in 1 .. Size(n) |-> Leftmost(n, i) % Radix] /\ Len(Digits(n)) = Size(n)
           /\ Leftmost(n, 0) = 0 /\ Leftmost(n, Size(n)) = n
           /\ \A i \in 0 .. Size(n) : Leftmost(n, i) \in Nat /\ Leftmost(n, i) <= n
           /\ \A i \in 1 .. Size(n) : /\ Leftmost(n, i) % Radix \in 0 .. Radix - 1
                                      /\ Leftmost(n, i) = Leftmost(n, i - 1) * Radix + (Leftmost(n, i) % Radix)
<1> DEFINE k == Size(n)
<1>1. SizeSays(k, n)
      BY SizeIs
<1>2. Digits(n) = [i \in 1 .. k |-> Leftmost(n, i) % Radix]
      BY DEF Digits, LowDigits, Leftmost, RadixPower
<1> HIDE DEF k
<1>3. k \in Nat /\ n < RadixPower(k)
      BY <1>1 DEF SizeSays
<1>4. ASSUME NEW i \in 0 .. k
      PROVE  Leftmost(n, i) \in Nat /\ Leftmost(n, i) <= n
  <2>1. k - i \in Nat
        BY <1>3
  <2>2. RadixPower(k - i) \in Nat \ {0}
        BY <2>1, RadixPowers
  <2> DEFINE p == RadixPower(k - i)
  <2> HIDE DEF p
  <2>3. n \div p \in Nat /\ n \div p <= n
        BY <2>2, QuotientNat DEF p
  <2> QED
      BY <2>3 DEF Leftmost, k, p
<1>5. ASSUME NEW i \in 1 .. k
      PROVE  /\ Leftmost(n, i) % Radix \in 0 .. Radix - 1
             /\ Leftmost(n, i) = Leftmost(n, i - 1) * Radix + (Leftmost(n, i) % Radix)
  <2> DEFINE j == k - i
             x == n \div RadixPower(j)
  <2>1. j \in Nat /\ k - (i - 1) = j + 1 /\ i \in 0 .. k /\ i - 1 \in 0 .. k
        BY <1>3
  <2>2. x = Leftmost(n, i)
        BY DEF Leftmost, k
  <2>3. x \in Nat
        BY <1>4, <2>1, <2>2
  <2> HIDE DEF j
  <2>4. RadixPower(j) \in Nat \ {0} /\ RadixPower(j + 1) = Radix * RadixPower(j)
        BY <2>1, RadixPowers
  <2>5. RadixPower(j) * Radix = RadixPower(j + 1)
        BY <2>4, RadixIs
  <2>6. x \div Radix = n \div (RadixPower(j) * Radix)
    <3>1. Radix \in Nat \ {0}
          BY RadixIs
    <3> QED
        BY <2>4, <3>1, QuotientTwice
  <2>7. Leftmost(n, i - 1) = n \div RadixPower(k - (i - 1))
        BY DEF Leftmost, k
  <2>8. Leftmost(n, i - 1) = x \div Radix
        BY <2>1, <2>5, <2>6, <2>7
  <2> HIDE DEF x
  <2>9. x % Radix \in 0 .. Radix - 1 /\ x = Radix * (x \div Radix) + (x % Radix) /\ x \div Radix \in Int
    <3>1. x \in Int /\ Radix \in Nat \ {0}
          BY <2>3, RadixIs
    <3> QED
        BY <3>1, Quotient
  <2>10. Radix * (x \div Radix) = (x \div Radix) * Radix
        BY <2>9, RadixIs
  <2> QED
      BY <2>2, <2>8, <2>9, <2>10
<1>6. Leftmost(n, 0) = 0 /\ Leftmost(n, k) = n
  <2>1. k - 0 = k /\ k - k = 0
        BY <1>3
  <2>2. RadixPower(k) \in Nat \ {0} /\ RadixPower(0) = 1
        BY <1>3, RadixPowers
  <2>3. Leftmost(n, 0) = n \div RadixPower(k) /\ Leftmost(n, k) = n \div RadixPower(0)
        BY <2>1 DEF Leftmost, k
  <2> DEFINE p == RadixPower(k)
  <2>4. p \in Nat \ {0} /\ n \in 0 .. p - 1 /\ n = p * 0 + n
        BY <1>3, <2>2
  <2> HIDE DEF p
  <2>5. n \div p = 0
        BY <2>4, QuotientIs
  <2>6. n \div 1 = n
        OBVIOUS
  <2> QED
      BY <2>2, <2>3, <2>5, <2>6 DEF p
<1>7. Len(Digits(n)) = k
      BY <1>2, <1>3
<1> QED
    BY <1>2, <1>3, <1>4, <1>5, <1>6, <1>7 DEF k

\* The numbers bn_from_decimal has read, digit by digit.
ReadUp(ds) == CHOOSE f : f = [i \in 0 .. Len(ds) |-> IF i = 0 THEN Zero ELSE MulAdd(f[i - 1], ds[i])]

\* bn_from_decimal: the digits of a number of at most MaxLimbs limbs are
\* read as that number, in at most MaxLimbs limbs.
THEOREM FromDecimalExact ==
    ASSUME NEW n \in Nat, n < Power(B)[MaxLimbs]
    PROVE  FromDecimal(Digits(n)) \in Operands /\ Value(FromDecimal(Digits(n))) = n
<1> DEFINE k == Size(n)
           ds == Digits(n)
           Is(f) == f = [i \in 0 .. k |-> IF i = 0 THEN Zero ELSE MulAdd(f[i - 1], ds[i])]
<1>1. /\ k \in Nat /\ ds = [i \in 1 .. k |-> Leftmost(n, i) % Radix] /\ Len(ds) = k
      /\ Leftmost(n, 0) = 0 /\ Leftmost(n, k) = n
      /\ \A i \in 0 .. k : Leftmost(n, i) \in Nat /\ Leftmost(n, i) <= n
      /\ \A i \in 1 .. k : /\ Leftmost(n, i) % Radix \in 0 .. Radix - 1
                           /\ Leftmost(n, i) = Leftmost(n, i - 1) * Radix + (Leftmost(n, i) % Radix)
      BY DigitsAre
<1> HIDE DEF k, ds
<1>2. FromDecimal(ds) = (CHOOSE f : Is(f))[k]
      BY <1>1 DEF FromDecimal
<1>3. Zero \in Operands /\ Value(Zero) = 0
  <2>1. Zero \in Numerals /\ Value(Zero) = 0
        BY ZeroValue
  <2>2. Len(Zero) = 1
        BY DEF Zero
  <2>3. 1 \in 1 .. MaxLimbs
        BY RadixIs
  <2> QED
      BY <2>1, <2>2, <2>3 DEF Operands, Numerals
<1>4. ASSUME NEW i \in 1 .. k, NEW l \in Operands, Value(l) = Leftmost(n, i - 1)
      PROVE  MulAdd(l, ds[i]) \in Operands /\ Value(MulAdd(l, ds[i])) = Leftmost(n, i)
  <2>1. ds[i] = Leftmost(n, i) % Radix /\ ds[i] \in 0 .. Radix - 1
        BY <1>1
  <2>2. Value(l) * Radix + ds[i] = Leftmost(n, i)
        BY <1>1, <1>4, <2>1, Zenon
  <2>3. Leftmost(n, i) < Power(B)[MaxLimbs]
    <3>1. i \in 0 .. k
          OBVIOUS
    <3>2. Leftmost(n, i) \in Nat /\ Leftmost(n, i) <= n
          BY <1>1, <3>1
    <3>3. Power(B)[MaxLimbs] \in Nat
          BY RadixIs, BaseNext
    <3> QED
        BY <3>2, <3>3
  <2> DEFINE d == ds[i]
  <2>4. d \in 0 .. Radix - 1 /\ Value(l) * Radix + d < Power(B)[MaxLimbs]
        BY <2>1, <2>2, <2>3
  <2> HIDE DEF d
  <2>5. MulAdd(l, d) \in Operands /\ Value(MulAdd(l, d)) = Value(l) * Radix + d
        BY <2>4, MulAddExact
  <2> QED
      BY <2>2, <2>5, Zenon DEF d
<1> DEFINE good(l, i) == l \in Operands /\ Value(l) = Leftmost(n, i)
           next(l, i) == IF good(l, i - 1) THEN MulAdd(l, ds[i]) ELSE Zero
           step == [p \in (1 .. k) \X Operands |-> next(p[2], p[1])]
<1>5. \A i \in 1 .. k : \A l \in Operands : step[<<i, l>>] = next(l, i)
      OBVIOUS
<1>6. step \in [(1 .. k) \X Operands -> Operands]
  <2>1. \A i \in 1 .. k : \A l \in Operands : next(l, i) \in Operands
        BY <1>3, <1>4
  <2> HIDE DEF next
  <2> QED
      BY <2>1
<1> HIDE DEF step
<1>7. PICK f \in [0 .. k -> Operands] : Upward(f, 0, k, Zero, step)
  <2>1. 0 \in Int /\ k \in Int /\ \A i \in 0 .. k : 0 < i => i \in 1 .. k
        BY <1>1
  <2> QED
      BY <1>3, <1>6, <2>1, ChainUp, Zenon
<1>8. f = [i \in 0 .. k |-> IF i = 0 THEN Zero ELSE step[<<i, f[i - 1]>>]]
      BY <1>7 DEF Upward
<1>9. f[0] = Zero /\ \A i \in 1 .. k : f[i] = next(f[i - 1], i) /\ f[i - 1] \in Operands
  <2>1. f[0] = Zero
        BY <1>1, <1>8
  <2>2. ASSUME NEW i \in 1 .. k
        PROVE  f[i] = next(f[i - 1], i) /\ f[i - 1] \in Operands
    <3>1. i \in 0 .. k /\ i # 0 /\ i - 1 \in 0 .. k
          BY <1>1
    <3>2. f[i - 1] \in Operands
          BY <3>1
    <3>3. f[i] = step[<<i, f[i - 1]>>]
          BY <1>8, <3>1
    <3> HIDE DEF next
    <3> QED
        BY <1>5, <3>2, <3>3
  <2> QED
      BY <2>1, <2>2
<1>10. \A i \in 0 .. k : good(f[i], i)
  <2> DEFINE T == {i \in 0 .. k : good(f[i], i)}
  <2>1. 0 \in T
        BY <1>1, <1>3, <1>9
  <2>2. ASSUME NEW i \in 0 .. k, i < k, i \in T
        PROVE  i + 1 \in T
    <3>1. i + 1 \in 1 .. k /\ (i + 1) - 1 = i /\ i + 1 \in 0 .. k
          BY <1>1, <2>2
    <3>2. good(f[i], (i + 1) - 1) /\ f[i + 1] = next(f[i], i + 1)
          BY <1>9, <2>2, <3>1
    <3>3. f[i + 1] = MulAdd(f[i], ds[i + 1])
          BY <3>2
    <3>4. good(f[i + 1], i + 1)
          BY <1>4, <3>1, <3>2, <3>3
    <3> QED
        BY <3>1, <3>4
  <2> HIDE DEF T
  <2>3. 0 \in Int /\ k \in Int
        BY <1>1
  <2>4. \A i \in 0 .. k : i \in T
        BY <2>1, <2>2, <2>3, InductUp
  <2> QED
      BY <2>4 DEF T
<1>11. Is(f)
  <2>1. \A i \in 0 .. k : i # 0 => f[i] = MulAdd(f[i - 1], ds[i])
    <3> SUFFICES ASSUME NEW i \in 0 .. k, i # 0
                 PROVE  f[i] = MulAdd(f[i - 1], ds[i])
        OBVIOUS
    <3>1. i \in 1 .. k /\ i - 1 \in 0 .. k
          BY <1>1
    <3>2. good(f[i - 1], i - 1)
          BY <1>10, <3>1
    <3> QED
        BY <1>9, <3>1, <3>2
  <2>2. f = [i \in 0 .. k |-> f[i]]
        BY <1>8
  <2> QED
      BY <1>9, <2>1, <2>2
<1>12. \A g : Is(g) => g = f
  <2> SUFFICES ASSUME NEW g, Is(g)
               PROVE  g = f
      OBVIOUS
  <2>1. /\ g = [i \in 0 .. k |-> g[i]] /\ g[0] = Zero /\ \A i \in 1 .. k : g[i] = MulAdd(g[i - 1], ds[i])
        /\ f[0] = Zero /\ \A i \in 1 .. k : f[i] = MulAdd(f[i - 1], ds[i])
    <3>1. ASSUME NEW h, Is(h)
          PROVE  h = [i \in 0 .. k |-> h[i]] /\ h[0] = Zero /\ \A i \in 1 .. k : h[i] = MulAdd(h[i - 1], ds[i])
      <4> DEFINE body(i) == IF i = 0 THEN Zero ELSE MulAdd(h[i - 1], ds[i])
      <4>1. h = [i \in 0 .. k |-> body(i)]
            BY <3>1
      <4>2. body(0) = Zero /\ \A i \in 1 .. k : body(i) = MulAdd(h[i - 1], ds[i])
            OBVIOUS
      <4> HIDE DEF body
      <4>3. \A i \in 0 .. k : h[i] = body(i)
            BY <4>1
      <4>4. h = [i \in 0 .. k |-> h[i]]
            BY <4>1, <4>3
      <4>5. 0 \in 0 .. k /\ \A i \in 1 .. k : i \in 0 .. k
            BY <1>1
      <4> QED
          BY <4>2, <4>3, <4>4, <4>5
    <3> HIDE DEF Is
    <3> QED
        BY <1>11, <3>1
  <2>2. f[0] = Zero /\ \A i \in 1 .. k : f[i] = MulAdd(f[i - 1], ds[i])
        BY <2>1
  <2> DEFINE T == {i \in 0 .. k : g[i] = f[i]}
  <2>3. 0 \in T
        BY <1>1, <2>1, <2>2
  <2>4. ASSUME NEW i \in 0 .. k, i < k, i \in T
        PROVE  i + 1 \in T
    <3>1. i + 1 \in 1 .. k /\ (i + 1) - 1 = i /\ i + 1 \in 0 .. k
          BY <1>1, <2>4
    <3>2. g[i + 1] = MulAdd(g[(i + 1) - 1], ds[i + 1]) /\ f[i + 1] = MulAdd(f[(i + 1) - 1], ds[i + 1])
          BY <2>1, <2>2, <3>1
    <3> QED
        BY <2>4, <3>1, <3>2
  <2> HIDE DEF T
  <2>5. 0 \in Int /\ k \in Int
        BY <1>1
  <2>6. \A i \in 0 .. k : i \in T
        BY <2>3, <2>4, <2>5, InductUp
  <2>7. \A i \in 0 .. k : g[i] = f[i]
        BY <2>6 DEF T
  <2>8. f = [i \in 0 .. k |-> f[i]]
        BY <1>8
  <2> HIDE DEF Is
  <2> QED
      BY <2>1, <2>7, <2>8
<1>13. (CHOOSE g : Is(g)) = f
  <2> HIDE DEF Is
  <2> QED
      BY <1>11, <1>12
<1> HIDE DEF Is
<1>14. FromDecimal(ds) = f[k] /\ k \in 0 .. k
  <2>1. k \in 0 .. k
        BY <1>1
  <2> QED
      BY <1>2, <1>13, <2>1
<1> QED
    BY <1>1, <1>10, <1>14 DEF ds

-----------------------------------------------------------------------------
(* Writing decimal text.                                                   *)

\* One limb of bn_div10_inplace.
RadixDown(r, x) ==
    /\ (r * B + x) % Radix \in 0 .. Radix - 1 /\ (r * B + x) \div Radix \in 0 .. B - 1
    /\ r * B + x = ((r * B + x) \div Radix) * Radix + ((r * B + x) % Radix)
    /\ r >= 1 => (r * B + x) \div Radix # 0

\* The quotient is a limb and the remainder a digit.
LEMMA RadixDowns ==
    ASSUME NEW r \in 0 .. Radix - 1, NEW x \in 0 .. B - 1
    PROVE  RadixDown(r, x)
<1> DEFINE y == r * B + x
<1>1. x \in Nat /\ r \in Nat /\ Radix \in Nat \ {0} /\ B \in Nat \ {0} /\ Radix \in Nat /\ B \in Nat /\ Radix <= B
      BY RadixIs, BaseNat
<1>2. y \in Nat /\ y < Radix * B /\ (r >= 1 => y >= B)
  <2>1. (r + 1) * B <= Radix * B
    <3>1. r + 1 \in Nat /\ r + 1 <= Radix
          BY <1>1
    <3> QED
        BY <1>1, <3>1, ProductMono
  <2>2. (r + 1) * B = r * B + B
        BY <1>1
  <2>3. r * B \in Nat /\ Radix * B \in Nat /\ x < B
        BY <1>1
  <2>4. r >= 1 => 1 * B <= r * B
        BY <1>1, ProductMono
  <2> QED
      BY <1>1, <2>1, <2>2, <2>3, <2>4
<1> HIDE DEF y
<1>3. y \div Radix < B /\ y \div Radix \in Nat
      BY <1>1, <1>2, QuotientBound, QuotientNat
<1>4. y % Radix \in 0 .. Radix - 1 /\ y = Radix * (y \div Radix) + (y % Radix)
  <2>1. y \in Int
        BY <1>2
  <2> QED
      BY <1>1, <2>1, Quotient
<1>5. Radix * (y \div Radix) = (y \div Radix) * Radix
      BY <1>1, <1>3
<1>6. r >= 1 => y \div Radix # 0
  <2> SUFFICES ASSUME r >= 1, y \div Radix = 0
               PROVE  FALSE
      OBVIOUS
  <2>1. Radix * 0 = 0
        BY <1>1
  <2>2. y = y % Radix
        BY <1>4, <2>1
  <2> QED
      BY <1>1, <1>2, <1>4, <2>2
<1>7. y \div Radix \in 0 .. B - 1
      BY <1>1, <1>3
<1> QED
    BY <1>4, <1>5, <1>6, <1>7 DEF y, RadixDown

\* The remainders of bn_div10_inplace.
Rems(l) ==
    CHOOSE f : f = [i \in 1 .. Len(l) + 1 |-> IF i = Len(l) + 1 THEN 0 ELSE (f[i + 1] * B + l[i]) % Radix]

\* Their recurrence.
RemsSay(f, l, n) ==
    /\ f[n + 1] = 0 /\ \A i \in 1 .. n + 1 : f[i] \in 0 .. Radix - 1
    /\ \A i \in 1 .. n : f[i] = (f[i + 1] * B + l[i]) % Radix

\* They satisfy it.
LEMMA RemsAre ==
    ASSUME NEW l \in Limbs, NEW n \in Nat, n = Len(l)
    PROVE  RemsSay(Rems(l), l, n)
<1> DEFINE S == 0 .. Radix - 1
           body(f, i) == IF i = n + 1 THEN 0 ELSE (f[i + 1] * B + l[i]) % Radix
           Is(f) == f = [i \in 1 .. n + 1 |-> body(f, i)]
           step == [p \in (1 .. n) \X S |-> (p[2] * B + l[p[1]]) % Radix]
<1>1. ASSUME NEW i \in 1 .. n, NEW x \in S
      PROVE  (x * B + l[i]) % Radix \in S
  <2>1. l[i] \in 0 .. B - 1
        BY LimbIs
  <2>2. RadixDown(x, l[i])
        BY <2>1, RadixDowns
  <2> QED
      BY <2>2 DEF RadixDown
<1>3. \A i \in 1 .. n : \A x \in S : step[<<i, x>>] = (x * B + l[i]) % Radix
      OBVIOUS
<1>4. step \in [(1 .. n) \X S -> S]
      BY <1>1
<1>5. 0 \in S
      BY RadixIs
<1> HIDE DEF step, S
<1>6. PICK g \in [1 .. n + 1 -> S] : Downward(g, 1, n + 1, 0, step)
  <2>1. 1 \in Int /\ n + 1 \in Int /\ \A i \in 1 .. n + 1 : i < n + 1 => i \in 1 .. n
        OBVIOUS
  <2> QED
      BY <1>4, <1>5, <2>1, ChainDown, Zenon
<1>7. Is(g)
  <2>1. \A i \in 1 .. n + 1 : i # n + 1 => i \in 1 .. n /\ g[i + 1] \in S
        OBVIOUS
  <2>2. g = [i \in 1 .. n + 1 |-> IF i = n + 1 THEN 0 ELSE step[<<i, g[i + 1]>>]]
        BY <1>6 DEF Downward
  <2> QED
      BY <2>1, <2>2, <1>3
<1>8. Rems(l) = CHOOSE f : Is(f)
      BY DEF Rems
<1>9. Is(Rems(l))
  <2> HIDE DEF Is
  <2> QED
      BY <1>7, <1>8
<1> DEFINE F == Rems(l)
<1>11. F = [i \in 1 .. n + 1 |-> body(F, i)]
      BY <1>9
<1>20. body(F, n + 1) = 0 /\ \A i \in 1 .. n : body(F, i) = (F[i + 1] * B + l[i]) % Radix
      OBVIOUS
<1> HIDE DEF F, body
<1>21. n + 1 \in 1 .. n + 1 /\ \A i \in 1 .. n : i \in 1 .. n + 1
      OBVIOUS
<1>12. F[n + 1] = 0 /\ \A i \in 1 .. n : F[i] = (F[i + 1] * B + l[i]) % Radix
  <2>1. \A i \in 1 .. n + 1 : F[i] = body(F, i)
        BY <1>11
  <2> QED
      BY <1>20, <1>21, <2>1
<1>14. \A i \in 1 .. n + 1 : F[i] \in S
  <2>1. 1 \in Int /\ n + 1 \in Int /\ 1 <= n + 1 /\ F[n + 1] \in S
        BY <1>5, <1>12
  <2>2. ASSUME NEW i \in 1 .. n + 1, i < n + 1, F[i + 1] \in S
        PROVE  F[i] \in S
    <3>1. i \in 1 .. n
          BY <2>2
    <3>2. F[i] = (F[i + 1] * B + l[i]) % Radix
          BY <1>12, <3>1
    <3> QED
        BY <1>1, <2>2, <3>1, <3>2
  <2> QED
      BY <2>1, <2>2, HoldsDown, Zenon
<1> QED
    BY <1>12, <1>14 DEF F, S, RemsSay

\* The limbs of the quotient.
Tenth(l) == [i \in 1 .. Len(l) |-> (Rems(l)[i + 1] * B + l[i]) \div Radix]

\* A quotient by the radix; if its top limb is zero the next is not.
TenthSays(q, r, l, n) ==
    /\ q \in Limbs /\ Len(q) = n /\ r \in 0 .. Radix - 1
    /\ Value(q) = Value(l) \div Radix /\ r = Value(l) % Radix
    /\ q[n] = 0 /\ n > 1 /\ l[n] # 0 => q[n - 1] # 0

\* bn_div10_inplace before it shrinks.
LEMMA TenthIs ==
    ASSUME NEW l \in Limbs, NEW n \in Nat, n = Len(l), n >= 1
    PROVE  TenthSays(Tenth(l), Rems(l)[1], l, n)
<1> DEFINE F == Rems(l)
           q == Tenth(l)
<1>1. RemsSay(F, l, n)
      BY RemsAre
<1>2. q = [i \in 1 .. n |-> (F[i + 1] * B + l[i]) \div Radix]
      BY DEF Tenth
<1> HIDE DEF F, q
<1>3. ASSUME NEW i \in 1 .. n
      PROVE  /\ F[i] \in 0 .. Radix - 1 /\ F[i + 1] \in 0 .. Radix - 1 /\ l[i] \in 0 .. B - 1 /\ q[i] \in 0 .. B - 1
             /\ F[i + 1] * B + l[i] = q[i] * Radix + F[i] /\ (F[i + 1] >= 1 => q[i] # 0)
             /\ q[i] = (F[i + 1] * B + l[i]) \div Radix
  <2>1. i \in 1 .. n + 1 /\ i + 1 \in 1 .. n + 1
        OBVIOUS
  <2>2. l[i] \in 0 .. B - 1
        BY LimbIs
  <2>3. F[i] \in 0 .. Radix - 1 /\ F[i + 1] \in 0 .. Radix - 1 /\ F[i] = (F[i + 1] * B + l[i]) % Radix
        BY <1>1, <2>1 DEF RemsSay
  <2>4. RadixDown(F[i + 1], l[i])
        BY <2>2, <2>3, RadixDowns
  <2>5. q[i] = (F[i + 1] * B + l[i]) \div Radix
        BY <1>2
  <2>6. q[i] \in 0 .. B - 1 /\ (F[i + 1] >= 1 => q[i] # 0)
        BY <2>4, <2>5 DEF RadixDown
  <2>7. F[i + 1] * B + l[i] = q[i] * Radix + F[i]
        BY <2>3, <2>4, <2>5, Zenon DEF RadixDown
  <2> QED
      BY <2>2, <2>3, <2>5, <2>6, <2>7
<1>4. q \in Limbs /\ Len(q) = n
  <2>1. q = [i \in 1 .. n |-> q[i]]
        BY <1>2
  <2>2. \A i \in 1 .. n : q[i] \in 0 .. B - 1
        BY <1>3
  <2> QED
      BY <2>1, <2>2, LimbsAre
<1> DEFINE T == {i \in 1 .. n + 1 : Above(l, i) = Radix * Above(q, i) + F[i]}
<1>5. n + 1 \in T
  <2>1. n + 1 \in Nat /\ n + 1 > Len(l) /\ n + 1 > Len(q) /\ n + 1 \in 1 .. n + 1
        BY <1>4
  <2>2. Above(l, n + 1) = 0 /\ Above(q, n + 1) = 0
        BY <1>4, <2>1, AboveIs
  <2>3. Radix * 0 + 0 = 0
        BY RadixIs
  <2>4. F[n + 1] = 0
        BY <1>1 DEF RemsSay
  <2> QED
      BY <2>1, <2>2, <2>3, <2>4
<1>6. ASSUME NEW i \in 1 .. n + 1, i < n + 1, i + 1 \in T
      PROVE  i \in T
  <2>1. i \in 1 .. n /\ i \in 1 .. Len(l) /\ i \in 1 .. Len(q)
        BY <1>4, <1>6
  <2>2. Above(l, i) = l[i] + B * Above(l, i + 1) /\ Above(q, i) = q[i] + B * Above(q, i + 1)
        /\ Above(l, i + 1) \in Nat /\ Above(q, i + 1) \in Nat
        BY <1>4, <2>1, AboveNext
  <2>3. Above(l, i + 1) = Radix * Above(q, i + 1) + F[i + 1]
        BY <1>6
  <2>4. /\ F[i] \in 0 .. Radix - 1 /\ F[i + 1] \in 0 .. Radix - 1 /\ l[i] \in 0 .. B - 1 /\ q[i] \in 0 .. B - 1
        /\ F[i + 1] * B + l[i] = q[i] * Radix + F[i]
        BY <1>3, <2>1
  <2>5. /\ F[i] \in Int /\ F[i + 1] \in Int /\ l[i] \in Int /\ q[i] \in Int
        /\ Above(l, i + 1) \in Int /\ Above(q, i + 1) \in Int /\ Radix \in Int
    <3>1. \A x \in 0 .. Radix - 1 : x \in Int
          BY RadixIs
    <3>2. \A x \in 0 .. B - 1 : x \in Int
          BY BaseNat
    <3>3. Above(l, i + 1) \in Int /\ Above(q, i + 1) \in Int
          BY <2>2
    <3> QED
        BY <2>4, <3>1, <3>2, <3>3, RadixIs, Zenon
  <2>6. HornerShort(l[i], Above(l, i + 1), Radix, Above(q, i + 1), F[i + 1], q[i], F[i])
        BY <2>5, HornerShorts
  <2>7. Above(l, i) = Radix * Above(q, i) + F[i]
        BY <2>2, <2>3, <2>4, <2>6, Zenon DEF HornerShort
  <2> QED
      BY <2>7
<1> HIDE DEF T
<1>7. \A i \in 1 .. n + 1 : i \in T
  <2>1. 1 \in Int /\ n + 1 \in Int
        OBVIOUS
  <2> QED
      BY <1>5, <1>6, <2>1, InductDown
<1>8. 1 \in 1 .. n + 1 /\ 1 \in 1 .. n /\ n \in 1 .. n
      OBVIOUS
<1>9. Value(l) = Radix * Value(q) + F[1]
  <2>1. Above(l, 1) = Radix * Above(q, 1) + F[1]
        BY <1>7, <1>8 DEF T
  <2> QED
      BY <1>4, <2>1, AboveIs
<1>10. F[1] \in 0 .. Radix - 1
      BY <1>3, <1>8
<1>11. Value(l) \div Radix = Value(q) /\ Value(l) % Radix = F[1]
  <2>1. Value(l) \in Nat /\ Value(q) \in Nat
        BY <1>4, ValueNat
  <2>2. Value(l) \in Int /\ Value(q) \in Int /\ Radix \in Nat \ {0}
        BY <2>1, RadixIs
  <2> QED
      BY <1>9, <1>10, <2>2, QuotientIs
<1>12. ASSUME q[n] = 0, n > 1, l[n] # 0
       PROVE  q[n - 1] # 0
  <2>1. n - 1 \in 1 .. n /\ (n - 1) + 1 = n
        BY <1>12
  <2>2. F[n + 1] * B + l[n] = q[n] * Radix + F[n] /\ l[n] \in 0 .. B - 1 /\ F[n] \in 0 .. Radix - 1
        BY <1>3, <1>8
  <2>3. F[n + 1] = 0
        BY <1>1 DEF RemsSay
  <2>4. 0 * B = 0 /\ 0 * Radix = 0
        BY BaseNat, RadixIs
  <2>5. 0 + l[n] = 0 + F[n]
        BY <1>12, <2>2, <2>3, <2>4, Zenon
  <2>6. F[n] >= 1
        BY <1>12, <2>2, <2>5, BaseNat, RadixIs
  <2>7. F[(n - 1) + 1] >= 1 => q[n - 1] # 0
        BY <1>3, <2>1
  <2> QED
      BY <2>1, <2>6, <2>7
<1> QED
    BY <1>4, <1>10, <1>11, <1>12 DEF F, q, TenthSays

\* A quotient without a zero limb on top, and the digit.
ShrunkSays(s, l) ==
    /\ s.limbs \in Numerals /\ Len(s.limbs) <= Len(l)
    /\ Value(s.limbs) = Value(l) \div Radix /\ s.digit = Value(l) % Radix

\* bn_div10_inplace: dropping one zero limb is enough.
LEMMA ShrunkExact ==
    ASSUME NEW l \in Numerals
    PROVE  ShrunkSays(Shrunk(l), l)
<1> DEFINE n == Len(l)
           q == Tenth(l)
           r == Rems(l)[1]
           k == IF n > 1 /\ q[n] = 0 THEN 1 ELSE 0
           s == Shrunk(l)
<1>1. l \in Limbs /\ n \in Nat /\ n >= 1 /\ (n > 1 => l[n] # 0) /\ DOMAIN l = 1 .. n
  <2>1. l \in Limbs /\ n >= 1 /\ (n > 1 => l[n] # 0)
        BY DEF Numerals
  <2>2. n \in Nat /\ DOMAIN l = 1 .. n
        BY <2>1 DEF Limbs
  <2> QED
      BY <2>1, <2>2
<1>2. s = [limbs |-> SubSeq(q, 1, n - k), digit |-> r]
      BY <1>1 DEF Shrunk, Rems, Tenth
<1>3. TenthSays(q, r, l, n)
      BY <1>1, TenthIs
<1> HIDE DEF q, r, s, n
<1>4. /\ q \in Limbs /\ Len(q) = n /\ Value(q) = Value(l) \div Radix /\ r = Value(l) % Radix
      /\ q[n] = 0 /\ n > 1 /\ l[n] # 0 => q[n - 1] # 0
      BY <1>3 DEF TenthSays
<1>5. n - k \in 1 .. n /\ (k = 0 \/ k = 1)
      BY <1>1
<1>6. Value(q) < Power(B)[n - k]
  <2>1. CASE k = 0
    <3>1. n - k = n
          BY <1>1, <2>1
    <3> QED
        BY <1>4, <3>1, ValueBound
  <2>2. CASE k = 1
    <3>1. n > 1 /\ q[n] = 0 /\ n - k = n - 1 /\ n - 1 \in Nat /\ (n - 1) + 1 = n
          BY <1>1, <2>2
    <3> DEFINE p == Power(B)[n - 1]
               a == Value(q)
    <3>2. Above(q, n) = a \div p
          BY <1>4, <3>1, AboveDiv
    <3>3. Above(q, n) = 0
      <4>1. n \in 1 .. Len(q) /\ n + 1 \in Nat /\ n + 1 > Len(q)
            BY <1>1, <1>4
      <4>2. Above(q, n) = q[n] + B * Above(q, n + 1) /\ Above(q, n + 1) = 0
            BY <1>4, <4>1, AboveNext, AboveIs
      <4>3. B * 0 = 0
            BY BaseNat
      <4> QED
          BY <3>1, <4>2, <4>3
    <3>4. a \in Nat /\ p \in Nat \ {0}
          BY <1>4, <3>1, ValueNat, BaseNext
    <3> HIDE DEF a, p
    <3>5. a \div p < 1
          BY <3>2, <3>3
    <3>6. a < p * 1
          BY <3>4, <3>5, QuotientLess
    <3>7. a < p
          BY <3>4, <3>6
    <3> QED
        BY <3>1, <3>7 DEF a, p
  <2> QED
      BY <1>5, <2>1, <2>2
<1> DEFINE t == SubSeq(q, 1, n - k)
<1>7. t \in Limbs /\ Len(t) = n - k /\ Value(t) = Value(q)
      BY <1>4, <1>5, <1>6, PrefixValue
<1>8. \A i \in 1 .. n - k : t[i] = q[i]
      BY <1>4, <1>5, Prefix DEF Limbs
<1> HIDE DEF t
<1>9. Len(t) = 1 \/ t[Len(t)] # 0
  <2>1. CASE k = 0
    <3>1. n - k = n /\ n \in 1 .. n - k
          BY <1>1, <2>1
    <3>2. n > 1 => q[n] # 0
          BY <2>1
    <3> QED
        BY <1>1, <1>7, <1>8, <3>1, <3>2
  <2>2. CASE k = 1
    <3>1. n > 1 /\ q[n] = 0 /\ n - k = n - 1 /\ n - 1 \in 1 .. n - k
          BY <1>1, <2>2
    <3>2. q[n - 1] # 0
          BY <1>1, <1>4, <3>1
    <3> QED
        BY <1>7, <1>8, <3>1, <3>2
  <2> QED
      BY <1>5, <2>1, <2>2
<1>10. t \in Numerals /\ Len(t) <= n
  <2>1. Len(t) \in 1 .. n
        BY <1>5, <1>7
  <2>2. Len(t) >= 1 /\ Len(t) <= n
        BY <1>1, <2>1
  <2> QED
      BY <1>7, <1>9, <2>2 DEF Numerals
<1>11. s.limbs = t /\ s.digit = r
      BY <1>2 DEF t
<1> QED
    BY <1>4, <1>7, <1>10, <1>11 DEF s, n, ShrunkSays

\* What bn_to_decimal has left, digit by digit.
Lefts(l) ==
    CHOOSE f : f = [i \in 0 .. LimbBits * Len(l) |-> IF i = 0 THEN l ELSE Shrunk(f[i - 1]).limbs]

\* Their recurrence.
LeftsSay(f, l, n) ==
    /\ f[0] = l /\ DOMAIN f = 0 .. n
    /\ \A i \in 0 .. n : f[i] \in Numerals
    /\ \A i \in 1 .. n : f[i] = Shrunk(f[i - 1]).limbs

\* They satisfy it.
LEMMA LeftsAre ==
    ASSUME NEW l \in Numerals, NEW n \in Nat, n = LimbBits * Len(l)
    PROVE  LeftsSay(Lefts(l), l, n)
<1> DEFINE next(k) == Shrunk(k).limbs
           Is(f) == f = [i \in 0 .. n |-> IF i = 0 THEN l ELSE next(f[i - 1])]
           step == [p \in (1 .. n) \X Numerals |-> next(p[2])]
<1>1. \A k \in Numerals : next(k) \in Numerals
      BY ShrunkExact DEF ShrunkSays
<1>2. Lefts(l) = CHOOSE f : Is(f)
      BY DEF Lefts
<1> HIDE DEF next
<1>3. \A i \in 1 .. n : \A k \in Numerals : step[<<i, k>>] = next(k)
      OBVIOUS
<1>4. step \in [(1 .. n) \X Numerals -> Numerals]
      BY <1>1
<1> HIDE DEF step
<1>5. PICK f \in [0 .. n -> Numerals] : Upward(f, 0, n, l, step)
  <2>1. 0 \in Int /\ n \in Int /\ \A i \in 0 .. n : 0 < i => i \in 1 .. n
        OBVIOUS
  <2> QED
      BY <2>1, <1>4, ChainUp, Zenon
<1>6. Is(f)
  <2>1. f = [i \in 0 .. n |-> IF i = 0 THEN l ELSE step[<<i, f[i - 1]>>]]
        BY <1>5 DEF Upward
  <2>2. \A i \in 0 .. n : i # 0 => step[<<i, f[i - 1]>>] = next(f[i - 1])
    <3> SUFFICES ASSUME NEW i \in 0 .. n, i # 0
                 PROVE  step[<<i, f[i - 1]>>] = next(f[i - 1])
        OBVIOUS
    <3>1. i \in 1 .. n /\ i - 1 \in 0 .. n
          OBVIOUS
    <3>2. f[i - 1] \in Numerals
          BY <3>1
    <3> QED
        BY <1>3, <3>1, <3>2
  <2> QED
      BY <2>1, <2>2
<1>7. Is(Lefts(l))
  <2> HIDE DEF Is
  <2> QED
      BY <1>2, <1>6
<1> DEFINE F == Lefts(l)
<1>8. F = [i \in 0 .. n |-> IF i = 0 THEN l ELSE next(F[i - 1])]
      BY <1>7
<1> HIDE DEF F
<1>9. F[0] = l /\ DOMAIN F = 0 .. n /\ \A i \in 1 .. n : F[i] = next(F[i - 1])
      BY <1>8
<1>10. \A i \in 0 .. n : F[i] \in Numerals
  <2>1. ASSUME NEW i \in 0 .. n, i < n, F[i] \in Numerals
        PROVE  F[i + 1] \in Numerals
    <3>1. i + 1 \in 1 .. n /\ (i + 1) - 1 = i
          BY <2>1
    <3>2. F[i + 1] = next(F[i])
          BY <1>9, <3>1
    <3> QED
        BY <1>1, <2>1, <3>2
  <2>2. 0 \in Int /\ n \in Int /\ F[0] \in Numerals /\ 0 <= n
        BY <1>9
  <2> QED
      BY <2>1, <2>2, HoldsUp
<1> QED
    BY <1>9, <1>10 DEF F, LeftsSay, next

\* After i digits the number divided by the i-th power of the radix is left.
LEMMA LeftIs ==
    ASSUME NEW l \in Numerals, NEW n \in Nat, NEW F, LeftsSay(F, l, n)
    PROVE  \A i \in 0 .. n : Value(F[i]) = Value(l) \div RadixPower(i)
<1> DEFINE v == Value(l)
           T == {i \in 0 .. n : Value(F[i]) = v \div RadixPower(i)}
<1>1. v \in Nat
      BY ValueNat DEF Numerals
<1>2. /\ F[0] = l /\ \A i \in 0 .. n : F[i] \in Numerals
      /\ \A i \in 1 .. n : F[i] = Shrunk(F[i - 1]).limbs
      BY DEF LeftsSay
<1>3. 0 \in T
  <2>1. Value(F[0]) = v /\ 0 \in 0 .. n
        BY <1>2
  <2> HIDE DEF v
  <2>2. v \div 1 = v
        BY <1>1
  <2>3. RadixPower(0) = 1
        BY RadixPowers
  <2> QED
      BY <2>1, <2>2, <2>3
<1> HIDE DEF v
<1>4. ASSUME NEW i \in 0 .. n, i < n, i \in T
      PROVE  i + 1 \in T
  <2>1. i + 1 \in 1 .. n /\ (i + 1) - 1 = i /\ i + 1 \in 0 .. n /\ i \in Nat
        BY <1>4
  <2>2. F[i + 1] = Shrunk(F[i]).limbs /\ F[i] \in Numerals
        BY <1>2, <2>1
  <2>3. Value(F[i + 1]) = Value(F[i]) \div Radix
        BY <2>2, ShrunkExact DEF ShrunkSays
  <2>4. Value(F[i]) = v \div RadixPower(i)
        BY <1>4
  <2>5. RadixPower(i) \in Nat \ {0} /\ RadixPower(i + 1) = Radix * RadixPower(i) /\ Radix \in Nat \ {0}
        BY <2>1, RadixPowers, RadixIs
  <2>6. (v \div RadixPower(i)) \div Radix = v \div (RadixPower(i) * Radix)
        BY <1>1, <2>5, QuotientTwice
  <2>7. RadixPower(i) * Radix = RadixPower(i + 1)
        BY <2>5
  <2> QED
      BY <2>1, <2>3, <2>4, <2>6, <2>7
<1> HIDE DEF T
<1>5. 0 \in Int /\ n \in Int
      OBVIOUS
<1>6. \A i \in 0 .. n : i \in T
      BY <1>3, <1>4, <1>5, InductUp
<1> QED
    BY <1>6 DEF T, v

\* A power of the radix is at least that of two.
LEMMA RadixOverTwo == \A k \in Nat : Two[k] <= RadixPower(k)
<1> DEFINE T == {k \in Nat : Two[k] <= RadixPower(k)}
<1>1. 0 \in T
  <2>1. 0 \in Nat
        OBVIOUS
  <2>2. Two[0] = 1 /\ RadixPower(0) = 1
        BY <2>1, BaseIs, RadixPowers
  <2> QED
      BY <2>1, <2>2
<1>2. ASSUME NEW k \in Nat, k \in T
      PROVE  k + 1 \in T
  <2> DEFINE x == Two[k]
             y == RadixPower(k)
  <2>1. x \in Nat /\ y \in Nat /\ x <= y /\ Two[k + 1] = 2 * x /\ RadixPower(k + 1) = Radix * y
        BY <1>2, BaseIs, RadixPowers
  <2> HIDE DEF x, y
  <2>2. 2 * y <= Radix * y
    <3>1. 2 \in Nat /\ Radix \in Nat /\ 2 <= Radix
          BY RadixIs
    <3> QED
        BY <2>1, <3>1, ProductMono
  <2>3. Radix * y \in Nat
        BY <2>1, RadixIs
  <2> QED
      BY <2>1, <2>2, <2>3
<1> HIDE DEF T
<1>3. \A k \in Nat : k \in T
      BY <1>1, <1>2, Induct
<1> QED
    BY <1>3 DEF T

\* A number has no more digits than its limbs have bits.
LEMMA DigitsFit ==
    ASSUME NEW l \in Numerals, NEW n \in Nat, n = LimbBits * Len(l), Value(l) # 0
    PROVE  Size(Value(l)) \in 1 .. n
<1> DEFINE v == Value(l)
           s == Size(v)
<1>1. v \in Nat /\ v < Power(B)[Len(l)] /\ Len(l) \in Nat /\ Len(l) >= 1
  <2>1. l \in Limbs /\ Len(l) >= 1
        BY DEF Numerals
  <2> QED
      BY <2>1, ValueBound, LimbIs
<1>2. SizeSays(s, v)
      BY <1>1, SizeIs
<1>3. Two[n] = Power(B)[Len(l)] /\ Two[n] <= RadixPower(n)
      BY <1>1, BasePower, RadixOverTwo
<1> HIDE DEF s, v
<1>4. v < RadixPower(n)
  <2>1. RadixPower(n) \in Nat /\ Two[n] \in Nat
        BY RadixPowers, TwoNat
  <2> QED
      BY <1>1, <1>3, <2>1
<1>5. s \in Nat /\ s >= 1 /\ (s = 1 \/ v >= RadixPower(s - 1))
      BY <1>2 DEF SizeSays
<1>6. n >= 1
  <2>1. LimbBits \in Nat /\ LimbBits >= 1
        BY NumberAssumption
  <2>2. 1 * Len(l) <= LimbBits * Len(l)
        BY <1>1, <2>1, ProductMono
  <2> QED
      BY <1>1, <2>2
<1>7. ASSUME s > n PROVE FALSE
  <2> DEFINE t == s - 1
  <2>1. t \in Nat /\ n <= t /\ v >= RadixPower(t)
        BY <1>5, <1>6, <1>7
  <2> HIDE DEF t
  <2>2. RadixPower(n) <= RadixPower(t) /\ RadixPower(n) \in Nat /\ RadixPower(t) \in Nat
        BY <2>1, RadixMono, RadixPowers
  <2> QED
      BY <1>1, <1>4, <2>1, <2>2
<1>8. s \in 1 .. n
      BY <1>5, <1>7
<1> QED
    BY <1>8 DEF s, v

\* Zero is printed as one digit.
LEMMA ZeroPrinted == Printed(0) = <<0>>
<1>1. SizeSays(Size(0), 0)
      BY SizeIs
<1>2. Smaller(Size(0), DecimalMax) = 1
  <2>1. Size(0) = 1
        BY <1>1 DEF SizeSays
  <2> QED
      BY <2>1, NumberAssumption DEF Smaller
<1>3. RadixPower(0) = 1
      BY RadixPowers
<1>4. Printed(0) = [i \in 1 .. 1 |-> (0 \div RadixPower(1 - i)) % Radix]
      BY <1>2 DEF Printed, LowDigits, RadixPower
<1>5. (0 \div 1) % Radix = 0
      BY RadixIs
<1>6. ASSUME NEW i \in 1 .. 1
      PROVE  (0 \div RadixPower(1 - i)) % Radix = 0
  <2>1. 1 - i = 0
        OBVIOUS
  <2> QED
      BY <1>3, <1>5, <2>1
<1>7. Printed(0) = [i \in 1 .. 1 |-> 0]
      BY <1>4, <1>6
<1> QED
    BY <1>7

\* bn_to_decimal: a numeral is written with exactly the digits of its
\* number, the first of them not zero unless it is the only one; of more than
\* DecimalMax digits the low ones are written.
THEOREM ToDecimalExact ==
    ASSUME NEW l \in Numerals
    PROVE  ToDecimal(l) = Printed(Value(l))
<1> DEFINE n == LimbBits * Len(l)
           v == Value(l)
           F == Lefts(l)
           s == Size(v)
           Ends(i) == IsZero(F[i]) /\ \A j \in 0 .. i - 1 : ~IsZero(F[j])
<1>1. n \in Nat /\ v \in Nat /\ Len(l) \in Nat
  <2>1. l \in Limbs /\ LimbBits \in Nat
        BY NumberAssumption DEF Numerals
  <2>2. Len(l) \in Nat /\ v \in Nat
        BY <2>1, LimbIs, ValueNat
  <2> QED
      BY <2>1, <2>2
<1>2. CASE IsZero(l)
  <2>1. v = 0
        BY <1>2, ZeroValue
  <2>2. ToDecimal(l) = <<0>>
        BY <1>2 DEF ToDecimal
  <2> QED
      BY <2>1, <2>2, ZeroPrinted
<1>3. CASE ~IsZero(l)
  <2>1. v # 0
        BY <1>3, ZeroValue
  <2>2. ToDecimal(l) = LET size == CHOOSE i \in DOMAIN F : Ends(i)
                           kept == Smaller(size, DecimalMax)
                       IN  [k \in 1 .. kept |-> Shrunk(F[kept - k]).digit]
        BY <1>3 DEF ToDecimal, Lefts
  <2>3. s \in 1 .. n
        BY <1>1, <2>1, DigitsFit
  <2>4. LeftsSay(F, l, n)
        BY <1>1, LeftsAre
  <2>5. \A i \in 0 .. n : Value(F[i]) = v \div RadixPower(i)
        BY <1>1, <2>4, LeftIs
  <2>6. DOMAIN F = 0 .. n /\ \A i \in 0 .. n : F[i] \in Numerals
        BY <2>4 DEF LeftsSay
  <2>7. SizeSays(s, v)
        BY <1>1, SizeIs
  <2> HIDE DEF F, n, v
  <2>8. \A i \in 0 .. n : IsZero(F[i]) <=> v < RadixPower(i)
    <3> SUFFICES ASSUME NEW i \in 0 .. n
                 PROVE  IsZero(F[i]) <=> v < RadixPower(i)
        OBVIOUS
    <3> DEFINE p == RadixPower(i)
    <3>1. i \in Nat
          BY <1>1
    <3>2. p \in Nat \ {0}
          BY <3>1, RadixPowers
    <3>3. IsZero(F[i]) <=> v \div p = 0
          BY <2>5, <2>6, ZeroValue
    <3> HIDE DEF p
    <3>4. v % p \in 0 .. p - 1 /\ v = p * (v \div p) + (v % p)
          BY <1>1, <3>2, Quotient
    <3>5. v \div p = 0 => v < p
      <4> SUFFICES ASSUME v \div p = 0 PROVE v < p
          OBVIOUS
      <4>1. p * 0 = 0
            BY <3>2
      <4>2. v = v % p
            BY <1>1, <3>4, <4>1
      <4> QED
          BY <3>2, <3>4, <4>2
    <3>6. v < p => v \div p = 0
      <4> SUFFICES ASSUME v < p PROVE v \div p = 0
          OBVIOUS
      <4>1. v \in 0 .. p - 1 /\ v = p * 0 + v
            BY <1>1, <3>2
      <4> QED
          BY <1>1, <3>2, <4>1, QuotientIs
    <3> QED
        BY <3>3, <3>5, <3>6 DEF p
  <2> HIDE DEF s
  <2>9. Ends(s)
    <3>1. s \in 0 .. n /\ s \in Nat /\ s >= 1
          BY <1>1, <2>3
    <3>2. IsZero(F[s])
          BY <2>7, <2>8, <3>1 DEF SizeSays
    <3>3. ASSUME NEW j \in 0 .. s - 1
          PROVE  ~IsZero(F[j])
      <4> DEFINE t == s - 1
      <4>1. j \in 0 .. n /\ j \in Nat /\ t \in Nat /\ j <= t /\ (s = 1 => t = 0 /\ j = 0)
            BY <1>1, <2>3, <3>1
      <4>2. s = 1 \/ v >= RadixPower(t)
            BY <2>7 DEF SizeSays
      <4> HIDE DEF t
      <4>3. RadixPower(j) <= RadixPower(t) /\ RadixPower(j) \in Nat /\ RadixPower(t) \in Nat /\ RadixPower(0) = 1
            BY <4>1, RadixMono, RadixPowers
      <4>4. ~(v < RadixPower(j))
            BY <1>1, <2>1, <4>1, <4>2, <4>3
      <4> QED
          BY <2>8, <4>1, <4>4
    <3> QED
        BY <3>2, <3>3
  <2>10. \A i \in 0 .. n : Ends(i) => i = s
    <3> SUFFICES ASSUME NEW i \in 0 .. n, Ends(i)
                 PROVE  i = s
        OBVIOUS
    <3>1. i \in Nat /\ s \in Nat /\ s \in 0 .. n
          BY <1>1, <2>3
    <3>2. ~(i < s)
      <4> SUFFICES ASSUME i < s PROVE FALSE
          OBVIOUS
      <4>1. i \in 0 .. s - 1
            BY <3>1
      <4> QED
          BY <2>9, <4>1
    <3>3. ~(s < i)
      <4> SUFFICES ASSUME s < i PROVE FALSE
          OBVIOUS
      <4>1. s \in 0 .. i - 1
            BY <3>1
      <4> QED
          BY <2>9, <4>1
    <3> QED
        BY <3>1, <3>2, <3>3
  <2>11. (CHOOSE i \in DOMAIN F : Ends(i)) = s
    <3>1. s \in 0 .. n
          BY <1>1, <2>3
    <3> HIDE DEF Ends
    <3> QED
        BY <2>6, <2>9, <2>10, <3>1
  <2> DEFINE z == Smaller(s, DecimalMax)
  <2>12. ToDecimal(l) = [k \in 1 .. z |-> Shrunk(F[z - k]).digit]
        BY <2>2, <2>11
  <2>13. Printed(v) = [k \in 1 .. z |-> (v \div RadixPower(z - k)) % Radix]
        BY DEF Printed, LowDigits, RadixPower, s
  <2>14. z \in 0 .. n
        BY <1>1, <2>3, NumberAssumption DEF Smaller
  <2> HIDE DEF z
  <2>15. ASSUME NEW k \in 1 .. z
         PROVE  Shrunk(F[z - k]).digit = (v \div RadixPower(z - k)) % Radix
    <3> DEFINE i == z - k
    <3>1. i \in 0 .. n
          BY <1>1, <2>14
    <3> HIDE DEF i
    <3>2. F[i] \in Numerals /\ Value(F[i]) = v \div RadixPower(i)
          BY <2>5, <2>6, <3>1
    <3>3. Shrunk(F[i]).digit = Value(F[i]) % Radix
          BY <3>2, ShrunkExact DEF ShrunkSays
    <3> QED
        BY <3>2, <3>3 DEF i
  <2> QED
      BY <2>12, <2>13, <2>15 DEF v
<1> QED
    BY <1>2, <1>3
=============================================================================
