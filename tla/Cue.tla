-------------------------------- MODULE Cue --------------------------------
(***************************************************************************)
(* The bit encoding of nouns: jam (jam.c), the plain cue of the legacy     *)
(* paths (jam.c) and the bounded cue every I2 input goes through           *)
(* (bounded_cue.c).  An atom is <<value>>, a cell <<head, tail>>; a byte   *)
(* is a number of ByteBits bits, the lowest first.                         *)
(*                                                                         *)
(* The position caches are functions; the probes of their hash tables are  *)
(* counted as one unit of work each.  Allocation does not fail here.       *)
(***************************************************************************)
EXTENDS Integers, Sequences, FiniteSets, TLC

CONSTANTS
    ByteBits,      \* bits of a byte
    JamCache,      \* I2_JAM_CACHE_ADMITTED
    MaxDepth, MaxNodes, MaxCells, MaxBackrefs, MaxCache,
    MaxAtomBytes, MaxTotalAtomBytes, MaxWork   \* cue_i2_limits

IsCell(n) == Len(n) = 2

-----------------------------------------------------------------------------
(* Numbers and bits.                                                       *)

\* bn_met, u64_bits: bits of a number without leading zeros.
Met(k) == IF k = 0 THEN 0 ELSE CHOOSE a \in 1 .. 31 : 2 ^ (a - 1) <= k /\ k < 2 ^ a
Low(k, n) == [i \in 1 .. n |-> (k \div 2 ^ (i - 1)) % 2]
Value(bits) ==
    LET sum[i \in 0 .. Len(bits)] == IF i = 0 THEN 0 ELSE sum[i - 1] + bits[i] * 2 ^ (i - 1)
    IN  sum[Len(bits)]

\* Whole bytes that hold n bits, and the bytes of a bit sequence, padded.
Bytes(n) == (n + ByteBits - 1) \div ByteBits
Packed(bits) ==
    LET bit(i) == IF i <= Len(bits) THEN bits[i] ELSE 0
    IN  [j \in 1 .. Bytes(Len(bits)) |-> Value([i \in 1 .. ByteBits |-> bit((j - 1) * ByteBits + i)])]
Unpacked(bytes) ==
    [i \in 1 .. Len(bytes) * ByteBits |->
        Low(bytes[(i - 1) \div ByteBits + 1], ByteBits)[((i - 1) % ByteBits) + 1]]

-----------------------------------------------------------------------------
(* jam.                                                                    *)

\* do_mat: the length of the length in unary, the length, the number.
Mat(k) ==
    LET a == Met(k)
        b == Met(a)
    IN  IF a = 0 THEN <<1>>
                 ELSE [i \in 1 .. b |-> 0] \o <<1>> \o Low(a, b - 1) \o Low(k, a)

AtomCode(n) == <<0>> \o Mat(n[1])
RefCode(pos) == <<1, 1>> \o Mat(pos)

\* jcache_put under noun_eq: a full cache forgets the noun, not its encoding.
Noted(j, n) ==
    IF Cardinality(DOMAIN j.cache) >= JamCache THEN j.cache ELSE j.cache @@ (n :> Len(j.bits))

\* do_jam; a repeated atom is written again unless the reference is shorter.
RECURSIVE JamInto(_, _)
JamInto(j, n) ==
    LET found == n \in DOMAIN j.cache
        ref == RefCode(j.cache[n])
        write(code) == [j EXCEPT !.bits = @ \o code]
    IN  CASE found /\ (IsCell(n) \/ Len(AtomCode(n)) > Len(ref)) -> write(ref)
          [] found /\ ~IsCell(n) /\ Len(AtomCode(n)) <= Len(ref) -> write(AtomCode(n))
          [] ~found /\ ~IsCell(n) -> [bits |-> j.bits \o AtomCode(n), cache |-> Noted(j, n)]
          [] ~found /\ IsCell(n) ->
                JamInto(JamInto([bits |-> j.bits \o <<1, 0>>, cache |-> Noted(j, n)], n[1]), n[2])

\* jam_encode_bytes_checked.
Jam(n) == Packed(JamInto([bits |-> <<>>, cache |-> <<>>], n).bits)

-----------------------------------------------------------------------------
(* The bounded reader.                                                     *)

Reader == [cur |-> 0, status |-> "ok", work |-> 0, total |-> 0, nodes |-> 0, cells |-> 0,
           backrefs |-> 0, cache |-> <<>>, got |-> <<>>, out |-> <<0>>]

Fail(r, why) == [r EXCEPT !.status = IF @ = "ok" THEN why ELSE @]
Then(r, Step(_)) == IF r.status = "ok" THEN Step(r) ELSE r
Within(r, bound, why) == IF bound THEN r ELSE Fail(r, why)

Charge(r, n) == IF r.work + n > MaxWork THEN Fail(r, "work") ELSE [r EXCEPT !.work = @ + n]

\* read_bit, n times: each costs one unit, and is refused behind the end.
Read(w, r, n) ==
    LET budget == MaxWork - r.work
        left == Len(w) - r.cur
    IN  IF n <= budget /\ n <= left
        THEN [r EXCEPT !.work = @ + n, !.cur = @ + n, !.got = SubSeq(w, r.cur + 1, r.cur + n)]
        ELSE Fail(r, IF budget <= left THEN "work" ELSE "truncated")

\* Zeros before the next one; all that is left and one more if there is none.
ZerosAt(w, cur) ==
    LET ones == {i \in cur + 1 .. Len(w) : w[i] = 1}
    IN  IF ones = {} THEN Len(w) - cur ELSE (CHOOSE i \in ones : \A k \in ones : i <= k) - cur - 1

\* decode_mat once the length is known.
ReadAtom(w, r, bits) ==
    LET bytes == Bytes(bits)
        fit == Within(r, bytes <= MaxAtomBytes /\ r.total + bytes <= MaxTotalAtomBytes, "atom")
        read == Then(fit, LAMBDA x : Then(Charge([x EXCEPT !.total = @ + bytes], bytes),
                                          LAMBDA y : Read(w, y, bits)))
    IN  Then(read, LAMBDA x : [x EXCEPT !.out = <<Value(x.got)>>])

\* decode_mat.
ReadMat(w, r) ==
    LET z == ZerosAt(w, r.cur)
    IN  Then(Read(w, r, z + 1), LAMBDA x :
            IF z = 0 THEN [x EXCEPT !.out = <<0>>]
            ELSE Then(Read(w, x, z - 1), LAMBDA y : ReadAtom(w, y, 2 ^ (z - 1) + Value(y.got))))

\* A reference points behind itself, at the beginning of a noun.
Resolve(r, start) ==
    LET pos == r.out[1]
    IN  IF pos < start /\ pos \in DOMAIN r.cache
        THEN Charge([r EXCEPT !.out = r.cache[pos]], 1)
        ELSE Fail(r, "backref")

\* Mutant: the noun is filed under its end.
Remember_AtEnd(r, start) ==
    Then(Charge(r, 1), LAMBDA x :
        Then(Within(x, Cardinality(DOMAIN x.cache) < MaxCache, "cache"), LAMBDA y :
            [y EXCEPT !.cache = @ @@ (y.cur :> y.out)]))

\* cache_put.
Remember(r, start) ==
    Then(Charge(r, 1), LAMBDA x :
        Then(Within(x, Cardinality(DOMAIN x.cache) < MaxCache, "cache"), LAMBDA y :
            [y EXCEPT !.cache = @ @@ (start :> y.out)]))

\* decode_noun.
RECURSIVE Decode(_, _, _)
Decode(w, r, depth) ==
    LET start == r.cur
        seen == Within(Within(r, depth <= MaxDepth, "depth"), r.nodes < MaxNodes, "nodes")
        tag == Then(seen, LAMBDA x : Then(Charge([x EXCEPT !.nodes = @ + 1], 1), LAMBDA y : Read(w, y, 1)))
        cell(x) ==
            LET room == Within(Within(x, x.cells < MaxCells, "cells"), depth < MaxDepth, "depth")
                head == Then([room EXCEPT !.cells = @ + 1], LAMBDA y : Decode(w, y, depth + 1))
                tail == Then(head, LAMBDA y : Decode(w, y, depth + 1))
            IN  Then(tail, LAMBDA y : [y EXCEPT !.out = <<head.out, y.out>>])
        reference(x) ==
            LET room == Within(x, x.backrefs < MaxBackrefs, "backref")
            IN  Then(Then([room EXCEPT !.backrefs = @ + 1], LAMBDA y : ReadMat(w, y)),
                     LAMBDA y : Resolve(y, start))
        noun == Then(tag, LAMBDA x :
                    IF x.got = <<0>> THEN ReadMat(w, x)
                    ELSE Then(Read(w, x, 1), LAMBDA y : IF y.got = <<0>> THEN cell(y) ELSE reference(y)))
    IN  Then(noun, LAMBDA x : Remember(x, start))

\* Less than a byte of zeros may follow.
Padding(w, r) ==
    LET rest == Len(w) - r.cur
    IN  IF rest >= ByteBits THEN Fail(r, "trailing")
        ELSE Then(Read(w, r, rest), LAMBDA x : Within(x, \A i \in 1 .. rest : x.got[i] = 0, "trailing"))

\* cue_bounded_bytes.
CueBounded(bytes) ==
    LET w == Unpacked(bytes)
        r == Then(Decode(w, Reader, 1), LAMBDA x : Padding(w, x))
    IN  [status |-> r.status, noun |-> IF r.status = "ok" THEN r.out ELSE <<0>>]

-----------------------------------------------------------------------------
(* The plain decoder, where there is one: no budget, no end, no check of   *)
(* where a reference points.                                               *)

Bit(w, i) == IF i <= Len(w) THEN w[i] ELSE 0
Crash == [cur |-> 0, cache |-> <<>>, out |-> <<>>]
Fine(p) == p.out # <<>>

\* do_rub: the end reads as zeros, and 65 zeros crash.
Rub(w, p) ==
    LET ones == {i \in p.cur + 1 .. Len(w) : w[i] = 1}
        z == ZerosAt(w, p.cur)
        at == p.cur + z + 1
        bits == 2 ^ (z - 1) + Value([i \in 1 .. z - 1 |-> Bit(w, at + i)])
    IN  IF ones = {} THEN Crash
        ELSE IF z = 0 THEN [p EXCEPT !.cur = at, !.out = <<0>>]
        ELSE [p EXCEPT !.cur = at + z - 1 + bits,
                       !.out = <<Value([i \in 1 .. bits |-> Bit(w, at + z - 1 + i)])>>]

\* do_cue.
RECURSIVE PlainInto(_, _)
PlainInto(w, p) ==
    LET step(n) == [p EXCEPT !.cur = @ + n]
        head == PlainInto(w, step(2))
        tail == IF Fine(head) THEN PlainInto(w, head) ELSE Crash
        ref == Rub(w, step(2))
        res == IF Bit(w, p.cur + 1) = 0 THEN Rub(w, step(1))
               ELSE IF Bit(w, p.cur + 2) = 0
               THEN IF Fine(tail) THEN [tail EXCEPT !.out = <<head.out, tail.out>>] ELSE Crash
               ELSE IF Fine(ref) /\ ref.out[1] \in DOMAIN ref.cache
               THEN [ref EXCEPT !.out = ref.cache[ref.out[1]]] ELSE Crash
    IN  IF Fine(res) THEN [res EXCEPT !.cache = (p.cur :> res.out) @@ @] ELSE Crash

\* cue of the same bytes; <<>> when it crashes.
CuePlain(bytes) == PlainInto(Unpacked(bytes), [cur |-> 0, cache |-> <<>>, out |-> <<0>>]).out

=============================================================================
