------------------------------- MODULE Numbers -------------------------------
(***************************************************************************)
(* A calculation: literals are read (bn_from_decimal) and operators run    *)
(* over the two topmost nouns of a stack, as the Forth words and the jets  *)
(* of nock.c run them over a data stack or a sample.  Operands are read    *)
(* out of the atom store, results interned in it; a crash of an operator,  *)
(* or a refusal by the store, ends the calculation and aborts an open      *)
(* transaction.                                                            *)
(***************************************************************************)
EXTENDS AtomStore, BigNum

CONSTANTS Literals  \* numbers a program may write, of MaxLimbs limbs at most

\* A direct word is a limb; a product is the longest result there is.
ASSUME ProgramAssumption ==
    /\ Half <= B
    /\ Contents \subseteq Seq(0 .. Ones)
    /\ \A n \in 1 .. 2 * MaxLimbs : [1 .. n -> 0 .. Ones] \subseteq Contents
    /\ Literals \subseteq 0 .. Power(B)[MaxLimbs] - 1

VARIABLE stack  \* at most two entries: the word, and as history the number it
                \* should be and whether every division on the way was sound

nVars == <<vars, stack>>

Entry(w, n, ok) == [word |-> w, num |-> n, sound |-> ok]

\* atom_of; a direct word is its own limb.
Stored(w) == IF w < Half THEN <<w>> ELSE data[CHOOSE p \in DOMAIN data : Finds(w - Half, p)]

\* atom_limbs: at most MaxLimbs are copied.
AtomLimbs(w) == SubSeq(Stored(w), 1, Smaller(Len(Stored(w)), MaxLimbs))

-----------------------------------------------------------------------------
(* What the arithmetic should be, on numbers.                              *)

\* The number from limb i up, and in all.
From(l) == LET from[i \in 1 .. Len(l) + 1] == IF i = Len(l) + 1 THEN 0 ELSE l[i] + B * from[i + 1] IN from
Value(l) == From(l)[1]

\* The digits of n: as many as make the next power of the radix exceed it.
Size(n) == CHOOSE k \in 1 .. n + 1 : n < Power(Radix)[k] /\ (k = 1 \/ n >= Power(Radix)[k - 1])
LowDigits(n, k) == [i \in 1 .. k |-> (n \div Power(Radix)[k - i]) % Radix]
Digits(n) == LowDigits(n, Size(n))

\* What is printed of n: its digits, of more than DecimalMax the low ones only.
Printed(n) == LowDigits(n, Smaller(Size(n), DecimalMax))

\* As many bits as the longest operand has.
Merge(f, x, y) == MergeBits(f, x, y, LimbBits * MaxLimbs)

Unary == {"inc", "dec", "bex"}
Binary == {"add", "sub", "mul", "div", "mod", "lsh", "rsh", "or", "and", "xor", "lth", "lte"}

Loobean(yes) == IF yes THEN 0 ELSE 1

True(op, x, y) ==
    CASE op = "inc" -> x + 1
      [] op = "dec" -> x - 1
      [] op = "bex" -> Two[x]
      [] op = "add" -> x + y
      [] op = "sub" -> x - y
      [] op = "mul" -> x * y
      [] op = "div" -> x \div y
      [] op = "mod" -> x % y
      [] op = "lsh" -> x * Two[y]
      [] op = "rsh" -> x \div Two[y]
      [] op = "or"  -> Merge(TheOr, x, y)
      [] op = "and" -> Merge(TheAnd, x, y)
      [] op = "xor" -> Merge(TheXor, x, y)
      [] op = "lth" -> Loobean(x < y)
      [] op = "lte" -> Loobean(x <= y)

-----------------------------------------------------------------------------
(* The operators of bignum.c.                                              *)

\* A result that is not the quotient or remainder of a division is sound.
Plain(l) == [limbs |-> l, sound |-> TRUE]
Part(op, d) == [limbs |-> IF op = "div" THEN d.q ELSE d.r, sound |-> d.sound]

Result1(op, a) ==
    Plain(CASE op = "inc" -> Inc(a)
            [] op = "dec" -> Dec(a)
            [] op = "bex" -> Bex(a[1]))

Result2(op, a, b) ==
    IF op \in {"div", "mod"} THEN Part(op, DivMod(a, b))
    ELSE Plain(CASE op = "add" -> Add(a, b)
                 [] op = "sub" -> Sub(a, b)
                 [] op = "mul" -> Mul(a, b)
                 [] op = "lsh" -> Lsh(a, b[1])
                 [] op = "rsh" -> Rsh(a, b[1])
                 [] op = "or"  -> LimbsOr(a, b)
                 [] op = "and" -> LimbsAnd(a, b)
                 [] op = "xor" -> LimbsXor(a, b)
                 [] op = "lth" -> <<Loobean(Less(a, b))>>
                 [] op = "lte" -> <<Loobean(~Less(b, a))>>)

\* Where the operators crash; a shift or an exponent is one limb.
Crashes(op, a, b) ==
    \/ op = "dec" /\ IsZero(a)
    \/ op = "sub" /\ Less(a, b)
    \/ op \in {"div", "mod"} /\ IsZero(b)
    \/ op = "bex" /\ (Len(a) > 1 \/ a[1] \div LimbBits >= MaxLimbs)
    \/ op \in {"lsh", "rsh"} /\ Len(b) > 1
    \/ op = "lsh" /\ LshSize(a, b[1]) > MaxLimbs /\ b[1] > 0

\* An operand of more than MaxLimbs limbs is cut by most operators and overruns
\* the arrays of two: no number is claimed for it and it is not computed with.
Short(w) == Len(Stored(w)) <= MaxLimbs

Usable(e) == e.sound /\ Short(e.word)

-----------------------------------------------------------------------------

\* bn_normalize of a result that should be the number n, onto what is left.
Push(rest, r, n) ==
    \E s \in Canonical(r.limbs) :
        \/ Make(r.limbs, s) /\ stack' = Append(rest, Entry(Word(s), n, r.sound))
        \/ Refuse(s) /\ stack' = <<>>

Give == IF tx.live THEN Abort ELSE UNCHANGED vars

Enter(n) ==
    /\ Len(stack) < 2
    /\ \A k \in DOMAIN stack : Usable(stack[k])
    /\ Push(stack, Plain(FromDecimal(Digits(n))), n)

Compute1(op) ==
    /\ Len(stack) = 1 /\ Usable(stack[1])
    /\ LET a == AtomLimbs(stack[1].word)
       IN  IF Crashes(op, a, <<0>>) THEN Give /\ stack' = <<>>
           ELSE Push(<<>>, Result1(op, a), True(op, stack[1].num, 0))

Compute2(op) ==
    /\ Len(stack) = 2
    /\ LET a == AtomLimbs(stack[1].word)
           b == AtomLimbs(stack[2].word)
       IN  IF Crashes(op, a, b) THEN Give /\ stack' = <<>>
           ELSE Push(<<>>, Result2(op, a, b), True(op, stack[1].num, stack[2].num))

Forget == stack # <<>> /\ stack' = <<>> /\ UNCHANGED vars

Transaction ==
    \/ (Begin \/ Commit) /\ UNCHANGED stack
    \/ Abort /\ stack' = <<>>

NInit == Init /\ stack = <<>>

NNext ==
    \/ \E n \in Literals : Enter(n)
    \/ \E op \in Unary : Compute1(op)
    \/ \E op \in Binary : Compute2(op)
    \/ Forget \/ Transaction

NSpec == NInit /\ [][NNext]_nVars

-----------------------------------------------------------------------------
(* Properties.                                                             *)

\* An entry's atom is its number: it compares, prints and measures as such, as
\* far as the printed digits go.
Exact(e) ==
    /\ Value(Stored(e.word)) = e.num
    /\ Short(e.word) =>
          LET l == AtomLimbs(e.word)
          IN  /\ ToDecimal(l) = Printed(e.num)
              /\ Two[Met(l)] > e.num /\ (e.num > 0 => Two[Met(l) - 1] <= e.num)
    /\ \A f \in {stack[k] : k \in DOMAIN stack} :
          f.sound => (e.word = f.word <=> e.num = f.num)

\* Whatever was read and computed, interned, found again, refused or rolled
\* back, an operand is the number the calculation should have at that place
\* (bignum.c over noun.c) -- as long as no division met a leading limb equal
\* to the divisor's or a product beyond the signed double limb.
ArithmeticExact == \A k \in DOMAIN stack : stack[k].sound => Exact(stack[k])

\* Of every division: the quotient and the remainder are the true ones.
DivisionExact == \A k \in DOMAIN stack : Value(Stored(stack[k].word)) = stack[k].num
=============================================================================
