------------------------------- MODULE BigNum -------------------------------
(***************************************************************************)
(* The arithmetic of bignum.c on limb sequences: little-endian, limbs of   *)
(* LimbBits bits (64 in the code), as atom_limbs copies them out of a noun *)
(* and bn_normalize takes them back.  A carry or a borrow chain is a       *)
(* function on the limb numbers.  Operands are at most MaxLimbs long: the  *)
(* scratch arrays are that size.                                           *)
(***************************************************************************)
EXTENDS Integers, Sequences

CONSTANTS LimbBits,  \* 64
          MaxLimbs,  \* BN_MAX_LIMBS, 64
          Radix,     \* 10; any radix a limb can hold
          DecimalMax \* BN_DECIMAL_MAX, 512

\* Power(b)[k] is b to the k.
Power(b) == LET power[k \in Nat] == IF k = 0 THEN 1 ELSE b * power[k - 1] IN power
Two == Power(2)
B == Two[LimbBits]
Ones == B - 1

ASSUME NumberAssumption ==
    /\ LimbBits \in Nat \ {0, 1} /\ MaxLimbs \in Nat \ {0}
    /\ Radix \in 2 .. Ones /\ DecimalMax \in Nat \ {0}

Larger(x, y) == IF x > y THEN x ELSE y
Smaller(x, y) == IF x < y THEN x ELSE y

\* Limb i, zero beyond the sequence.
Limb(l, i) == IF i \in DOMAIN l THEN l[i] ELSE 0

Zero == <<0>>
IsZero(l) == l = Zero

\* How many of the lowest limbs equal x.
Run(l, x) == CHOOSE k \in 0 .. Len(l) :
    (\A i \in 1 .. k : l[i] = x) /\ (k = Len(l) \/ l[k + 1] # x)

\* The number of significant bits of a limb: 64 - clz.
Bits(x) == CHOOSE k \in 0 .. LimbBits : x < Two[k] /\ (k = 0 \/ x >= Two[k - 1])

-----------------------------------------------------------------------------
(* Counting, comparing, adding.                                            *)

Inc(l) ==
    LET ones == Run(l, Ones)
    IN  [i \in 1 .. Larger(Len(l), ones + 1) |->
            IF i <= ones THEN 0 ELSE IF i = ones + 1 THEN Limb(l, i) + 1 ELSE l[i]]

Dec(l) ==
    LET zeros == Run(l, 0)
    IN  [i \in DOMAIN l |->
            IF i <= zeros THEN Ones ELSE IF i = zeros + 1 THEN l[i] - 1 ELSE l[i]]

Less(a, b) ==
    \/ Len(a) < Len(b)
    \/ /\ Len(a) = Len(b)
       /\ \E i \in DOMAIN a : a[i] < b[i] /\ \A j \in i + 1 .. Len(a) : a[j] = b[j]

Add(a, b) ==
    LET n == Larger(Len(a), Len(b)) + 1
        carry[i \in 0 .. n] ==
            IF i = 0 THEN 0 ELSE (Limb(a, i) + Limb(b, i) + carry[i - 1]) \div B
    IN  [i \in 1 .. n |-> (Limb(a, i) + Limb(b, i) + carry[i - 1]) % B]

\* Mutant: a borrow on top of a limb of ones is forgotten.
Borrows_Wraps(x, y, borrow) == x < (y + borrow) % B

\* The borrow test of bn_sub: y + borrow may itself wrap to zero.
Borrows(x, y, borrow) == x < (y + borrow) % B \/ (borrow = 1 /\ y = Ones)

Sub(a, b) ==
    LET borrow[i \in 0 .. Len(a)] ==
            IF i > 0 /\ Borrows(a[i], Limb(b, i), borrow[i - 1]) THEN 1 ELSE 0
    IN  [i \in DOMAIN a |-> (a[i] - Limb(b, i) - borrow[i - 1]) % B]

\* One row of bn_mul: a[i] times b is added in at place i, and the carry runs up.
AddRow(acc, x, b, i) ==
    LET prod(k, c) == x * Limb(b, k - i + 1) + acc[k] + c
        carry[k \in i - 1 .. Len(acc)] ==
            IF k = i - 1 THEN 0 ELSE prod(k, carry[k - 1]) \div B
    IN  [k \in DOMAIN acc |-> IF k < i THEN acc[k] ELSE prod(k, carry[k - 1]) % B]

Mul(a, b) ==
    LET rows[i \in 0 .. Len(a)] ==
            IF i = 0 THEN [k \in 1 .. Len(a) + Len(b) |-> 0]
                     ELSE AddRow(rows[i - 1], a[i], b, i)
    IN  IF IsZero(a) \/ IsZero(b) THEN Zero ELSE rows[Len(a)]

-----------------------------------------------------------------------------
(* Shifts and bits.                                                        *)

\* n limbs of l moved up, or down, by less than a limb.
Up(l, s, n) ==
    [i \in 1 .. n |-> ((Limb(l, i) * Two[s]) % B) + (Limb(l, i - 1) \div Two[LimbBits - s])]
Down(l, s, n) ==
    [i \in 1 .. n |-> (Limb(l, i) \div Two[s]) + ((Limb(l, i + 1) * Two[LimbBits - s]) % B)]

LshSize(l, k) == Len(l) + (k \div LimbBits) + (IF k % LimbBits > 0 THEN 1 ELSE 0)

Lsh(l, k) ==
    IF k = 0 THEN l
    ELSE [i \in 1 .. k \div LimbBits |-> 0]
           \o Up(l, k % LimbBits, LshSize(l, k) - (k \div LimbBits))

Rsh(l, k) ==
    LET words == k \div LimbBits
    IN  IF words >= Len(l) THEN Zero
        ELSE Down(SubSeq(l, words + 1, Len(l)), k % LimbBits, Len(l) - words)

\* The low n bits of x and y merged by the truth table f.
Bit(x, i) == (x \div Two[i]) % 2
MergeBits(f, x, y, n) ==
    LET word[i \in 0 .. n] == IF i = n THEN 0 ELSE f[<<Bit(x, i), Bit(y, i)>>] + 2 * word[i + 1]
    IN  word[0]

Pairs == (0 .. 1) \X (0 .. 1)
TheOr == [p \in Pairs |-> IF p[1] + p[2] > 0 THEN 1 ELSE 0]
TheAnd == [p \in Pairs |-> p[1] * p[2]]
TheXor == [p \in Pairs |-> (p[1] + p[2]) % 2]

MergeLimbs(f, a, b, n) == [i \in 1 .. n |-> MergeBits(f, Limb(a, i), Limb(b, i), LimbBits)]
LimbsOr(a, b) == MergeLimbs(TheOr, a, b, Larger(Len(a), Len(b)))
LimbsAnd(a, b) == MergeLimbs(TheAnd, a, b, Smaller(Len(a), Len(b)))
LimbsXor(a, b) == MergeLimbs(TheXor, a, b, Larger(Len(a), Len(b)))

Met(l) == LimbBits * (Len(l) - 1) + Bits(l[Len(l)])

Bex(k) == [i \in 1 .. (k \div LimbBits) + 1 |->
              IF i = (k \div LimbBits) + 1 THEN Two[k % LimbBits] ELSE 0]

-----------------------------------------------------------------------------
(* Division.                                                               *)

\* divlu64: restoring division of u1:u0 by v, one bit of u0 at a time.
DivLimb(u1, u0, v) ==
    LET step[i \in 0 .. LimbBits] ==
            IF i = LimbBits THEN [q |-> 0, r |-> u1]
            ELSE LET p == step[i + 1]
                     r == ((2 * p.r) % B) + ((u0 \div Two[i]) % 2)
                 IN  IF 2 * p.r >= B \/ r >= v
                     THEN [q |-> p.q + Two[i], r |-> (r - v) % B]
                     ELSE [q |-> p.q, r |-> r]
    IN  step[0]

\* div1: a divisor of one limb.
DivShort(u, v) ==
    LET step[i \in 1 .. Len(u) + 1] ==
            IF i = Len(u) + 1 THEN [q |-> 0, r |-> 0] ELSE DivLimb(step[i + 1].r, u[i], v)
    IN  [q |-> [i \in DOMAIN u |-> step[i].q], r |-> <<step[1].r>>, sound |-> TRUE]

Signed(x) == ((x + ((B * B) \div 2)) % (B * B)) - ((B * B) \div 2)

\* D3: while the second limb shows the estimate too large, and the remainder
\* still fits a limb, the estimate is lowered.  The divisor's top limb is at
\* least B / 2, so the remainder leaves its limb after two rounds at the latest.
Refined(qhat, rhat, v1, v2, low) ==
    LET again(k) == rhat + k * v1 < B /\ (qhat - k) * v2 > (rhat + k * v1) * B + low
    IN  qhat - (CHOOSE k \in 0 .. 2 : ~again(k) /\ \A j \in 0 .. k - 1 : again(j))

Estimate(u, v, j) ==
    LET n == Len(v)
        q == DivLimb(u[j + n], u[j + n - 1], v[n]).q
    IN  Refined(q, (u[j + n] * B + u[j + n - 1] - q * v[n]) % (B * B), v[n], v[n - 1], u[j + n - 2])

\* D4 and D5 at place j: qhat times v is taken off u with a signed borrow, and
\* v added back once when that went below zero.  The products are formed in
\* signed double limbs; one that does not fit wraps (the overflow is undefined
\* in C, wrapping is what an unoptimised build does).
TakeOff(s, v, j) ==
    LET n == Len(v)
        u == s.u
        qhat == Estimate(u, v, j)
        exact(i, borrow) == u[j + i - 1] - qhat * Limb(v, i) + borrow
        borrow[i \in 0 .. n + 1] ==
            IF i = 0 THEN 0 ELSE Signed(exact(i, borrow[i - 1])) \div B
        rest(i) == exact(i, borrow[i - 1]) % B
        carry[i \in 0 .. n] ==
            IF i = 0 THEN 0 ELSE (rest(i) + v[i] + carry[i - 1]) \div B
        back == borrow[n + 1] < 0
    IN  [q |-> IF back THEN (qhat - 1) % B ELSE qhat,
         u |-> [k \in DOMAIN u |->
                   LET i == k - j + 1
                   IN  IF i \notin 1 .. n + 1 THEN u[k]
                       ELSE IF back THEN (rest(i) + Limb(v, i) + carry[i - 1]) % B
                       ELSE rest(i)],
         sound |-> /\ s.sound
                   /\ u[j + n] < v[n]
                   /\ \A i \in 1 .. n + 1 :
                         LET x == exact(i, borrow[i - 1])
                         IN  x = Signed(x) /\ qhat * Limb(v, i) < (B * B) \div 2]

\* divmod_knuth, from the top place down; sound while every estimate had its
\* precondition and no signed product overflowed.
Knuth(u, v) ==
    LET m == Len(u) - Len(v)
        step[j \in 1 .. m + 1] ==
            IF j = m + 1 THEN [u |-> u, q |-> 0, sound |-> TRUE]
                         ELSE TakeOff(step[j + 1], v, j)
        quotient(s) == [q |-> [j \in 1 .. m |-> s[j].q], r |-> s[1].u, sound |-> s[1].sound]
    IN  quotient(step)

\* bn_divmod_impl, of a divisor that is not zero.
DivMod(a, b) ==
    LET n == Len(b)
        shift == LimbBits - Bits(b[n])
    IN  IF Less(a, b) THEN [q |-> Zero, r |-> a, sound |-> TRUE]
        ELSE IF n = 1 THEN DivShort(a, b[1])
        ELSE [Knuth(Up(a, shift, Len(a) + 1), Up(b, shift, n))
                 EXCEPT !.r = Down(SubSeq(@, 1, n), shift, n)]

-----------------------------------------------------------------------------
(* Decimal text, a sequence of digits, most significant first.             *)

\* do_mul10_add, cut to the scratch array.
MulAdd(l, d) ==
    LET carry[i \in 0 .. Len(l)] ==
            IF i = 0 THEN d ELSE (l[i] * Radix + carry[i - 1]) \div B
        limbs == [i \in DOMAIN l |-> (l[i] * Radix + carry[i - 1]) % B]
        out == IF carry[Len(l)] = 0 THEN limbs ELSE Append(limbs, carry[Len(l)])
    IN  SubSeq(out, 1, Smaller(Len(out), MaxLimbs))

FromDecimal(digits) ==
    LET read[i \in 0 .. Len(digits)] == IF i = 0 THEN Zero ELSE MulAdd(read[i - 1], digits[i])
    IN  read[Len(digits)]

\* bn_div10_inplace, with the shrinking after it.
Shrunk(l) ==
    LET rem[i \in 1 .. Len(l) + 1] ==
            IF i = Len(l) + 1 THEN 0 ELSE (rem[i + 1] * B + l[i]) % Radix
        limbs == [i \in DOMAIN l |-> (rem[i + 1] * B + l[i]) \div Radix]
    IN  [limbs |-> SubSeq(limbs, 1, Len(l) - (IF Len(l) > 1 /\ limbs[Len(l)] = 0 THEN 1 ELSE 0)),
         digit |-> rem[1]]

\* bn_to_decimal: divided by the radix until nothing is left.  Of the digits the
\* first DecimalMax are kept, which are the lowest.
ToDecimal(l) ==
    LET left[i \in 0 .. LimbBits * Len(l)] == IF i = 0 THEN l ELSE Shrunk(left[i - 1]).limbs
        size == CHOOSE i \in DOMAIN left : IsZero(left[i]) /\ \A j \in 0 .. i - 1 : ~IsZero(left[j])
        kept == Smaller(size, DecimalMax)
    IN  IF IsZero(l) THEN <<0>> ELSE [k \in 1 .. kept |-> Shrunk(left[kept - k]).digit]
=============================================================================
