----------------------------- MODULE ColdImage -----------------------------
(***************************************************************************)
(* What is written on a cold image and how cold.c reads it back: objects,  *)
(* superblocks, the walk over the object chain and the choice between the  *)
(* two superblock slots.  The module has no state.                         *)
(*                                                                         *)
(* An image is a function on addresses.  SLOT0 and SLOT1 hold superblocks; *)
(* the addresses from DATA0 on are the units of the data area.  An object  *)
(* takes one unit for its header (the commit word included) and one per    *)
(* payload unit.  A digest is modelled by what it tells apart: a header    *)
(* names the payload it was made for, and Junk has no valid digest.        *)
(***************************************************************************)
EXTENDS Integers, Sequences, SequencesExt, FiniteSets, FiniteSetsExt

CONSTANTS Cap,         \* data units: COLD_SIZE - COLD_DATA0
          PerSector,   \* data units in one physical sector
          Vals         \* payloads, as far as a digest tells them apart

ASSUME ImageAssumption == Cap \in Nat /\ PerSector \in Nat \ {0}

SLOT0 == -1
SLOT1 == 0
DATA0 == 1

Slots == {SLOT0, SLOT1}
Units == DATA0 .. Cap
Addr  == Slots \cup Units

\* cold_media.c translate: each slot has a sector of its own, the data area
\* is cut into sectors that neighbouring objects share.
SectorOf(a) == IF a < DATA0 THEN a ELSE DATA0 + (a - DATA0) \div PerSector

Kinds == {"log", "blob", "snap"}
Objs  == [kind : Kinds, val : Vals, len : Nat \ {0}]

Zero  == [is |-> "zero"]
Junk  == [is |-> "junk"]      \* bytes no digest or magic agrees with
Alien == [is |-> "alien"]     \* COLD_MAGIC with another version

Headers == [is : {"head"}, kind : Kinds, len : Nat \ {0}, digest : Vals,
            gen : Nat, commit : BOOLEAN]
Payloads  == [is : {"pay"}, val : Vals, at : Nat]
Supers    == [is : {"super"}, gen : Nat, head : Nat, logs : Nat, snapOff : Nat, snapGen : Nat]

Image == [Addr -> {Zero, Junk, Alien} \cup Headers \cup Payloads \cup Supers]

Blank == [a \in Addr |-> Zero]

Header(obj, gen, done) ==
    [is |-> "head", kind |-> obj.kind, len |-> obj.len, digest |-> obj.val,
     gen |-> gen, commit |-> done]

Payload(obj, i) == [is |-> "pay", val |-> obj.val, at |-> i]

FirstSuper ==
    [is |-> "super", gen |-> 1, head |-> DATA0, logs |-> 0, snapOff |-> 0, snapGen |-> 0]

Extent(obj) == 1 + obj.len

-----------------------------------------------------------------------------
\* object_validate for a header at off under a chain that ends at head.
ObjectOk(img, head, off, gen) ==
    LET h == img[off]
    IN  /\ h.is = "head"
        /\ h.gen = gen
        /\ h.commit
        /\ off + 1 + h.len <= head
        /\ \A i \in 1 .. h.len :
              img[off + i] = [is |-> "pay", val |-> h.digest, at |-> i]

ObjectAt(img, off) ==
    [kind |-> img[off].kind, val |-> img[off].digest, len |-> img[off].len]

\* The headers on the way of the walk of super_validate to head, and the units
\* that the object with the header at a takes.
Heads(img, head) == {a \in DATA0 .. head - 1 : img[a].is = "head"}
Body(img, a) == a .. a + img[a].len

\* The walk finds its way from COLD_DATA0 to head: every header on it is that
\* of a valid object, every unit belongs to one of them (so that each object
\* begins where the one before it ends), and the generations are 2, 3, ...
Chained(img, head) ==
    LET H == Heads(img, head)
    IN  /\ head \in DATA0 .. Cap + 1
        /\ \A a \in H : ObjectOk(img, head, a, img[a].gen)
        /\ \A u \in DATA0 .. head - 1 : \E a \in H : u \in Body(img, a)
        /\ {img[a].gen : a \in H} = 2 .. Cardinality(H) + 1
        /\ \A a, b \in H : a < b => img[a].gen < img[b].gen

\* The objects the walk meets, in its order.
Objects(img, head) ==
    [i \in 1 .. Cardinality(Heads(img, head)) |->
        ObjectAt(img, CHOOSE a \in Heads(img, head) : img[a].gen = i + 1)]

Snaps(img, head) == {a \in Heads(img, head) : img[a].kind = "snap"}
Logs(img, head)  == {a \in Heads(img, head) : img[a].kind = "log"}

\* The superblock describes its chain: contiguous generations, log count and
\* the latest snapshot.
Describes(s, img) ==
    LET S == Snaps(img, s.head)
    IN  /\ s.gen = Cardinality(Heads(img, s.head)) + 1
        /\ s.logs = Cardinality(Logs(img, s.head))
        /\ s.snapOff = (IF S = {} THEN 0 ELSE Max(S))
        /\ s.snapGen = (IF S = {} THEN 0 ELSE img[Max(S)].gen)

\* super_validate
SuperOk(img, slot) ==
    LET s == img[slot]
    IN  s.is = "super" /\ Chained(img, s.head) /\ Describes(s, img)

\* select_super
Divergent(img) ==
    /\ \A slot \in Slots : SuperOk(img, slot)
    /\ img[SLOT0].gen = img[SLOT1].gen
    /\ img[SLOT0] # img[SLOT1]

Verdict(img) ==
    IF \E slot \in Slots : SuperOk(img, slot)
    THEN IF Divergent(img) THEN "corrupt" ELSE "valid"
    ELSE IF img = Blank THEN "empty"
    ELSE IF \E slot \in Slots : img[slot] = Alien THEN "unsupported"
    ELSE "corrupt"

SelectedSlot(img) ==
    IF ~SuperOk(img, SLOT0) \/ (SuperOk(img, SLOT1) /\ img[SLOT1].gen > img[SLOT0].gen)
    THEN SLOT1 ELSE SLOT0

\* What a reader of the image finds: its one log of objects, or none.
Found(img) ==
    IF Verdict(img) = "valid"
    THEN {Objects(img, img[SelectedSlot(img)].head)}
    ELSE {}

\* The superblock append_obj and cold_store_deployment write over old when
\* one more object of generation gen has been appended at off.
Selecting(old, obj, gen, off) ==
    [old EXCEPT !.gen = gen,
                !.head = off + Extent(obj),
                !.logs = IF obj.kind = "log" THEN @ + 1 ELSE @,
                !.snapGen = IF obj.kind = "snap" THEN gen ELSE @,
                !.snapOff = IF obj.kind = "snap" THEN off ELSE @]
=============================================================================
