-------------------------- MODULE ColdStoreProofs --------------------------
(***************************************************************************)
(* Proofs about the cold store, for every size of the data area and of a   *)
(* sector, every set of objects and every first image.                     *)
(***************************************************************************)
EXTENDS ColdStore, FiniteSetTheorems, SequenceTheorems, WellFoundedInduction, TLAPS

-----------------------------------------------------------------------------
(* The append in progress.                                                 *)

\* The superblock that describes the chain up to head.
SuperOf(img, head) ==
    LET S == Snaps(img, head)
    IN  [is |-> "super", gen |-> Cardinality(Heads(img, head)) + 1, head |-> head,
         logs |-> Cardinality(Logs(img, head)),
         snapOff |-> IF S = {} THEN 0 ELSE Max(S),
         snapGen |-> IF S = {} THEN 0 ELSE img[Max(S)].gen]

Jobs == [obj : Objs, gen : Nat, off : Nat]
Ops  == [deploy : BOOLEAN, jobs : Seq(Jobs), super : Supers, slot : Slots, auto : BOOLEAN]

Writing == pc \in {"header", "payload", "commit", "barrier"}
Closing == pc \in {"super", "super barrier", "verify"}
Busy    == Writing \/ Closing

\* The slot an append starts from, and the end of what it has appended.
Base  == OtherSlot(op.slot)
Tip == IF op.jobs = <<>> THEN op.super.head ELSE op.jobs[1].off

\* The jobs lie behind the front, in the data area, and carry on its count.
JobsOk ==
    /\ Len(op.jobs) \in 0 .. 2
    /\ Writing <=> Busy /\ op.jobs # <<>>
    /\ op.jobs # <<>> =>
          /\ op.jobs[1].gen = Cardinality(Heads(ram, Tip)) + 2
          /\ Fits(op.jobs[Len(op.jobs)])
    /\ Len(op.jobs) = 2 =>
          /\ op.jobs[2].gen = op.jobs[1].gen + 1
          /\ op.jobs[2].off = op.jobs[1].off + Extent(op.jobs[1].obj)

\* What has been appended is a chain in the window, and the superblock to
\* write describes it once the jobs are done.
ChainBuilt ==
    /\ SuperOk(ram, Base) /\ ram[Base].head <= Tip /\ ram[Base].gen < op.super.gen
    /\ Chained(ram, Tip)
    /\ op.super = IF op.jobs = <<>> THEN SuperOf(ram, Tip)
                                   ELSE Superblock(SuperOf(ram, Tip), op.jobs)

\* The object that is being written, as far as it is.
ObjectBuilt ==
    /\ pc \in {"payload", "commit", "barrier"} =>
          LET j == op.jobs[1]
          IN  /\ ram[j.off] = Header(j.obj, j.gen, pc = "barrier")
              /\ pc # "payload" =>
                    \A i \in 1 .. j.obj.len : ram[j.off + i] = Payload(j.obj, i)
    /\ pc \in {"super barrier", "verify"} => ram[op.slot] = op.super

\* The first k of the objects behind the log l.
Extended(l, objs, k) ==
    CASE k = 0 -> l
      [] k = 1 -> Append(l, objs[1])
      [] k = 2 -> Append(Append(l, objs[1]), objs[2])

Appends == IF op.deploy THEN Deployments ELSE {<<obj>> : obj \in Singles}

Carries(objs) ==
    LET k == Len(objs) - Len(op.jobs)
    IN  /\ k \in 0 .. 2
        /\ op.super.gen = ram[Base].gen + Len(objs)
        /\ Objects(ram, Tip) = Extended(Objects(ram, ram[Base].head), objs, k)
        /\ \A i \in 1 .. Len(op.jobs) : op.jobs[i].obj = objs[k + i]

BuildOk ==
    Busy => JobsOk /\ ChainBuilt /\ ObjectBuilt /\ \E objs \in Appends : Carries(objs)

\* Answers, by the program counter, and what an automatic format is for.
Conduct ==
    /\ pc \in {"off", "format", "format barrier"} => answer = "none"
    /\ Busy <=> answer = "busy"
    /\ pc = "off" => ~active /\ ~latched
    /\ pc = "format barrier" => ram[SLOT0] = FirstSuper /\ ram[SLOT1] = Zero
    /\ pc = "verify" => active /\ op.deploy
    /\ pc = "format" /\ op.auto => Kept = Blank /\ ram = Blank /\ ~latched
    /\ active => Sectors

WInv == TypeOK /\ op \in Ops /\ SelectedTrue /\ Conduct /\ BuildOk

-----------------------------------------------------------------------------
(* Images.                                                                 *)

\* The addresses are an interval, with the slots in front of the data.
LEMMA Addresses ==
    /\ SLOT0 = -1 /\ SLOT1 = 0 /\ DATA0 = 1 /\ Slots = {-1, 0} /\ Cap \in Nat
    /\ \A a : a \in Addr <=> a \in -1 .. Cap
    /\ \A a : a \in Units <=> a \in 1 .. Cap
BY ImageAssumption DEF SLOT0, SLOT1, DATA0, Slots, Units, Addr

LEMMA BelowHead ==
    ASSUME NEW h \in DATA0 .. Cap + 1
    PROVE  DATA0 .. h - 1 \subseteq Addr /\ \A a \in Slots : a \notin DATA0 .. h - 1
<1>1. h \in Int /\ h <= Cap + 1 /\ Cap \in Nat /\ DATA0 = 1
      BY Addresses
<1>2. \A a \in DATA0 .. h - 1 : a \in DATA0 .. Cap
      BY <1>1
<1> QED
    BY <1>2, Addresses DEF Addr, Units

\* What is found at an address tells its fields.
LEMMA Contents ==
    ASSUME NEW img \in Image, NEW a \in Addr
    PROVE  /\ img[a].is = "head" => img[a] \in Headers
           /\ img[a].is = "super" => img[a] \in Supers
           /\ img[a].is = "pay" => img[a] \in Payloads
<1>1. \/ img[a] = Zero \/ img[a] = Junk \/ img[a] = Alien
      \/ img[a] \in Headers \/ img[a] \in Payloads \/ img[a] \in Supers
      BY DEF Image
<1>2. CASE img[a] = Zero \/ img[a] = Junk \/ img[a] = Alien
      BY <1>2 DEF Zero, Junk, Alien
<1>3. CASE img[a] \in Headers \/ img[a] \in Payloads \/ img[a] \in Supers
      BY <1>3 DEF Headers, Payloads, Supers
<1> QED
    BY <1>1, <1>2, <1>3

\* The fields of a header, a payload unit and a superblock.
LEMMA Fields ==
    /\ \A h \in Headers : /\ h.is = "head" /\ h.kind \in Kinds /\ h.len \in Nat \ {0}
                          /\ h.digest \in Vals /\ h.gen \in Nat /\ h.commit \in BOOLEAN
    /\ \A s \in Supers : /\ s.is = "super" /\ s.gen \in Nat /\ s.head \in Nat /\ s.logs \in Nat
                         /\ s.snapOff \in Nat /\ s.snapGen \in Nat
    /\ \A o \in Objs : o.kind \in Kinds /\ o.val \in Vals /\ o.len \in Nat \ {0}
BY DEF Headers, Supers, Objs

\* What is written is content.
LEMMA Written ==
    /\ \A o \in Objs : \A g \in Nat : \A d \in BOOLEAN : Header(o, g, d) \in Headers
    /\ \A o \in Objs : \A i \in Nat : Payload(o, i) \in Payloads
    /\ FirstSuper \in Supers
BY Fields DEF Header, Payload, FirstSuper, Headers, Payloads, Supers, DATA0

LEMMA HeaderFields ==
    ASSUME NEW o, NEW g
    PROVE  /\ Header(o, g, TRUE).is = "head" /\ Header(o, g, TRUE).gen = g
           /\ Header(o, g, TRUE).commit = TRUE /\ Header(o, g, TRUE).len = o.len
           /\ Header(o, g, TRUE).digest = o.val /\ Header(o, g, TRUE).kind = o.kind
BY DEF Header

\* The commit word turns a header into a committed one.
LEMMA Committed ==
    ASSUME NEW o, NEW g
    PROVE  /\ Header(o, g, FALSE).is = "head"
           /\ [Header(o, g, FALSE) EXCEPT !.commit = TRUE] = Header(o, g, TRUE)
<1>1. Header(o, g, FALSE).is = "head"
      BY DEF Header
<1>2. [Header(o, g, FALSE) EXCEPT !.commit = TRUE] = Header(o, g, TRUE)
  <2> DEFINE k == o.kind
             l == o.len
             v == o.val
             h == Header(o, g, FALSE)
  <2>1. h = [is |-> "head", kind |-> k, len |-> l, digest |-> v, gen |-> g, commit |-> FALSE]
        BY Zenon DEF Header
  <2> HIDE DEF k, l, v, h
  <2>2. \A t : [h EXCEPT !.commit = t]
                = [is |-> "head", kind |-> k, len |-> l, digest |-> v, gen |-> g, commit |-> t]
        BY <2>1
  <2>3. [h EXCEPT !.commit = TRUE]
          = [is |-> "head", kind |-> k, len |-> l, digest |-> v, gen |-> g, commit |-> TRUE]
        BY <2>2, Zenon
  <2> QED
      BY <2>3, Zenon DEF Header, k, l, v, h
<1> QED
    BY <1>1, <1>2

LEMMA PayloadFields ==
    ASSUME NEW o, NEW i
    PROVE  Payload(o, i).is = "pay" /\ Payload(o, i) = [is |-> "pay", val |-> o.val, at |-> i]
BY DEF Payload

\* An image with other contents is an image.
LEMMA Rewritten ==
    ASSUME NEW img \in Image, NEW img2, DOMAIN img2 = Addr, img2 = [a \in Addr |-> img2[a]],
           \A a \in Addr : \/ img2[a] = img[a] \/ img2[a] = Junk \/ img2[a] = Zero
                           \/ img2[a] \in Headers \cup Payloads \cup Supers
    PROVE  img2 \in Image
BY DEF Image

\* The headers of a chain are finitely many, fewer than there are units.
LEMMA HeadsFinite ==
    ASSUME NEW img, NEW head \in Nat
    PROVE  /\ IsFiniteSet(Heads(img, head)) /\ Cardinality(Heads(img, head)) \in Nat
           /\ head > 0 => Cardinality(Heads(img, head)) <= head - 1
           /\ IsFiniteSet(Logs(img, head)) /\ Cardinality(Logs(img, head)) \in Nat
<1>1. IsFiniteSet(1 .. head - 1) /\ (head > 0 => Cardinality(1 .. head - 1) = head - 1)
      BY FS_Interval
<1>2. Heads(img, head) \in SUBSET (1 .. head - 1)
      BY DEF Heads, DATA0
<1>3. IsFiniteSet(Heads(img, head)) /\ Cardinality(Heads(img, head)) <= Cardinality(1 .. head - 1)
      BY <1>1, <1>2, FS_Subset
<1>4. Cardinality(Heads(img, head)) \in Nat
      BY <1>3, FS_CardinalityType
<1>5. Logs(img, head) \in SUBSET Heads(img, head)
      BY DEF Logs
<1>6. IsFiniteSet(Logs(img, head))
      BY <1>3, <1>5, FS_Subset
<1> QED
    BY <1>1, <1>3, <1>4, <1>6, FS_CardinalityType

\* A set of numbers that is not empty and has a bound has a greatest one: the
\* intervals below its members are ordered as they are.
LEMMA GreatestExists ==
    ASSUME NEW S, NEW n \in Nat, S \subseteq 1 .. n, S # {}
    PROVE  Max(S) \in S /\ \A y \in S : y <= Max(S)
<1> DEFINE R == StrictSubsetOrdering(Nat)
           F == FiniteSubsetsOf(Nat)
           T == {x .. n : x \in S}
<1>1. IsWellFoundedOn(R, F)
      BY FS_StrictSubsetOrderingWellFounded
<1>2. T \subseteq F /\ T # {}
  <2>1. \A x \in S : x .. n \in F
        BY FS_Interval DEF FiniteSubsetsOf
  <2> QED
      BY <2>1
<1>3. \A a, b \in F : a \subseteq b /\ a # b => <<a, b>> \in R
      BY DEF StrictSubsetOrdering, FiniteSubsetsOf
<1> HIDE DEF R, F
<1>4. \E a \in T : \A b \in T : ~ (<<b, a>> \in R)
  <2> HIDE DEF T
  <2> QED
      BY <1>1, <1>2, WFMin
<1>5. PICK x \in S : \A y \in S : ~ (<<y .. n, x .. n>> \in R)
      BY <1>4
<1>6. \A y \in S : y <= x
  <2> SUFFICES ASSUME NEW y \in S, x < y
               PROVE  FALSE
      OBVIOUS
  <2>1. x \in 1 .. n /\ y \in 1 .. n
        OBVIOUS
  <2>2. y .. n \subseteq x .. n /\ x \in x .. n /\ x \notin y .. n
        BY <2>1
  <2>3. y .. n \in F /\ x .. n \in F
        BY <1>2
  <2> QED
      BY <1>3, <1>5, <2>2, <2>3
<1> QED
    BY <1>6 DEF Max

\* The latest snapshot of a chain is one of its headers.
LEMMA LatestSnap ==
    ASSUME NEW img, NEW head \in Nat, Snaps(img, head) # {}
    PROVE  Max(Snaps(img, head)) \in Snaps(img, head)
<1>1. Snaps(img, head) \subseteq 1 .. head
      BY DEF Snaps, Heads, DATA0
<1> QED
    BY <1>1, GreatestExists

\* The i-th object of a chain is at the one header of generation i + 1.
LEMMA HeaderOf ==
    ASSUME NEW img, NEW head, Chained(img, head),
           NEW i \in 1 .. Cardinality(Heads(img, head))
    PROVE  LET a == CHOOSE b \in Heads(img, head) : img[b].gen = i + 1
           IN  a \in Heads(img, head) /\ img[a].gen = i + 1
<1>1. head \in Nat
      BY Addresses DEF Chained
<1>2. i + 1 \in 2 .. Cardinality(Heads(img, head)) + 1
      BY <1>1, HeadsFinite
<1>3. \E b \in Heads(img, head) : img[b].gen = i + 1
      BY <1>2 DEF Chained
<1> QED
    BY <1>3

\* Two images that agree on a chain.
LEMMA SameChain ==
    ASSUME NEW img \in Image, NEW img2 \in Image, NEW head \in DATA0 .. Cap + 1,
           \A a \in DATA0 .. head - 1 : img2[a] = img[a]
    PROVE  /\ Heads(img2, head) = Heads(img, head)
           /\ Chained(img, head) => Chained(img2, head) /\ Objects(img2, head) = Objects(img, head)
           /\ SuperOf(img2, head) = SuperOf(img, head)
<1>1. Heads(img2, head) = Heads(img, head)
      BY DEF Heads
<1>2. \A a \in Heads(img, head) : /\ a \in DATA0 .. head - 1 /\ a \in Addr /\ img2[a] = img[a]
                                  /\ img[a].len \in Nat
      BY Addresses, Contents, Fields DEF Heads
<1>3. Snaps(img2, head) = Snaps(img, head) /\ Logs(img2, head) = Logs(img, head)
      BY <1>1, <1>2 DEF Snaps, Logs
<1>4. ASSUME Chained(img, head)
      PROVE  Chained(img2, head) /\ Objects(img2, head) = Objects(img, head)
  <2>1. ASSUME NEW a \in Heads(img, head)
        PROVE  ObjectOk(img2, head, a, img2[a].gen)
    <3>1. ObjectOk(img, head, a, img[a].gen)
          BY <1>4 DEF Chained
    <3>2. \A i \in 1 .. img[a].len : a + i \in DATA0 .. head - 1
          BY <1>2, <3>1, Addresses DEF ObjectOk
    <3> QED
        BY <1>2, <3>1, <3>2 DEF ObjectOk
  <2>2. \A u \in DATA0 .. head - 1 : \E a \in Heads(img, head) : u \in Body(img2, a)
        BY <1>2, <1>4 DEF Chained, Body
  <2>3. {img2[a].gen : a \in Heads(img, head)} = {img[a].gen : a \in Heads(img, head)}
        BY <1>2
  <2>4. Chained(img2, head)
        BY <1>1, <1>2, <1>4, <2>1, <2>2, <2>3 DEF Chained
  <2>5. ASSUME NEW i \in 1 .. Cardinality(Heads(img, head))
        PROVE  ObjectAt(img2, CHOOSE b \in Heads(img2, head) : img2[b].gen = i + 1)
             = ObjectAt(img, CHOOSE b \in Heads(img, head) : img[b].gen = i + 1)
    <3>1. (CHOOSE b \in Heads(img2, head) : img2[b].gen = i + 1)
            = (CHOOSE b \in Heads(img, head) : img[b].gen = i + 1)
          BY <1>1, <1>2
    <3>2. (CHOOSE b \in Heads(img, head) : img[b].gen = i + 1) \in Heads(img, head)
          BY <1>4, HeaderOf
    <3> QED
        BY <1>2, <3>1, <3>2 DEF ObjectAt
  <2> QED
      BY <1>1, <2>4, <2>5 DEF Objects
<1>5. SuperOf(img2, head) = SuperOf(img, head)
  <2>1. Snaps(img, head) # {} => img2[Max(Snaps(img, head))] = img[Max(Snaps(img, head))]
        BY <1>2, LatestSnap, Addresses DEF Snaps
  <2> QED
      BY <1>1, <1>3, <2>1 DEF SuperOf
<1> QED
    BY <1>1, <1>4, <1>5

\* A sequence with one more element, as a function.
LEMMA AppendIs ==
    ASSUME NEW S, NEW l \in Seq(S), NEW x \in S, NEW n, Len(l) = n
    PROVE  Append(l, x) = [i \in 1 .. n + 1 |-> IF i = n + 1 THEN x ELSE l[i]]
<1>1. n \in Nat /\ l \in [1 .. n -> S]
      BY LenProperties
<1>2. Append(l, x) \in [1 .. n + 1 -> S]
  <2>1. Append(l, x) \in Seq(S) /\ Len(Append(l, x)) = n + 1
        BY AppendProperties
  <2> QED
      BY <2>1, LenProperties
<1>3. \A i \in 1 .. n + 1 : Append(l, x)[i] = IF i = n + 1 THEN x ELSE l[i]
      BY <1>1, AppendProperties
<1> QED
    BY <1>2, <1>3

\* A valid object behind a chain extends it by one.
LEMMA ExtendHeads ==
    ASSUME NEW img \in Image, NEW head \in Units, NEW top \in DATA0 .. Cap + 1,
           NEW gen \in Nat, ObjectOk(img, top, head, gen), top = head + 1 + img[head].len
    PROVE  /\ Heads(img, top) = Heads(img, head) \cup {head}
           /\ head \notin Heads(img, head) /\ head \in Addr /\ head < top
           /\ Cardinality(Heads(img, top)) = Cardinality(Heads(img, head)) + 1
           /\ img[head] \in Headers /\ img[head].gen = gen
<1>1. head \in Nat /\ head >= 1 /\ Cap \in Nat /\ top \in Nat /\ top <= Cap + 1
      BY Addresses
<1>2. img[head].is = "head" /\ img[head].gen = gen
      BY DEF ObjectOk
<1>3. head \in Addr /\ img[head] \in Headers /\ img[head].len \in Nat
  <2>1. head \in Addr
        BY DEF Addr
  <2> QED
      BY <1>2, <2>1, Contents, Fields
<1>4. \A a \in head + 1 .. top - 1 : img[a].is # "head"
  <2> SUFFICES ASSUME NEW a \in head + 1 .. top - 1
               PROVE  img[a].is # "head"
      OBVIOUS
  <2>1. a - head \in 1 .. img[head].len /\ head + (a - head) = a
        BY <1>1, <1>3
  <2>2. img[head + (a - head)] = [is |-> "pay", val |-> img[head].digest, at |-> a - head]
        BY <2>1 DEF ObjectOk
  <2> QED
      BY <2>1, <2>2
<1>5. \A a : a \in DATA0 .. top - 1 <=> a \in DATA0 .. head - 1 \/ a = head \/ a \in head + 1 .. top - 1
      BY <1>1, <1>3, Addresses
<1>6. Heads(img, top) = Heads(img, head) \cup {head}
      BY <1>2, <1>4, <1>5 DEF Heads
<1>7. head \notin Heads(img, head)
      BY <1>1 DEF Heads
<1>8. Cardinality(Heads(img, top)) = Cardinality(Heads(img, head)) + 1
      BY <1>1, <1>6, <1>7, HeadsFinite, FS_AddElement
<1>9. head < top
      BY <1>1, <1>3
<1> QED
    BY <1>2, <1>3, <1>6, <1>7, <1>8, <1>9

LEMMA ExtendChain ==
    ASSUME NEW img \in Image, NEW head \in Units, NEW top \in DATA0 .. Cap + 1,
           Chained(img, head), top = head + 1 + img[head].len,
           ObjectOk(img, top, head, Cardinality(Heads(img, head)) + 2)
    PROVE  /\ Chained(img, top)
           /\ Objects(img, top) = Append(Objects(img, head), ObjectAt(img, head))
<1> DEFINE H == Heads(img, head)
           n == Cardinality(H)
           G == H \cup {head}
           At(S, i) == CHOOSE b \in S : img[b].gen = i + 1
           Read(S) == [i \in 1 .. Cardinality(S) |-> ObjectAt(img, At(S, i))]
<1>1. head \in Nat /\ head >= 1 /\ Cap \in Nat /\ n \in Nat /\ top \in Nat
      BY Addresses, HeadsFinite
<1>2. /\ Heads(img, top) = G /\ head \notin H /\ Cardinality(G) = n + 1 /\ head < top
      /\ head \in Addr /\ img[head] \in Headers /\ img[head].gen = n + 2
  <2> DEFINE g == n + 2
  <2>1. g \in Nat /\ ObjectOk(img, top, head, g)
        BY <1>1
  <2> HIDE DEF g
  <2>2. /\ Heads(img, top) = Heads(img, head) \cup {head}
        /\ head \notin Heads(img, head) /\ head \in Addr /\ head < top
        /\ Cardinality(Heads(img, top)) = Cardinality(Heads(img, head)) + 1
        /\ img[head] \in Headers /\ img[head].gen = g
        BY <2>1, ExtendHeads
  <2> QED
      BY <2>2 DEF g
<1>3. \A a \in H : a \in DATA0 .. head - 1 /\ a < head /\ a \in Addr /\ img[a] \in Headers /\ img[a].gen \in Nat
      BY <1>1, Addresses, Contents, Fields DEF Heads
<1>4. img[head].len \in Nat
      BY <1>2, Fields
<1>5. \A a \in H : ObjectOk(img, head, a, img[a].gen)
      BY DEF Chained
<1>6. {img[a].gen : a \in H} = 2 .. n + 1
      BY DEF Chained
<1>7. \A a, b \in H : a < b => img[a].gen < img[b].gen
      BY DEF Chained
<1>8. \A u \in DATA0 .. head - 1 : \E a \in H : u \in Body(img, a)
      BY DEF Chained
<1>9. \A i \in 1 .. n : \E b \in H : img[b].gen = i + 1
  <2> SUFFICES ASSUME NEW i \in 1 .. n
               PROVE  \E b \in H : img[b].gen = i + 1
      OBVIOUS
  <2>1. i + 1 \in 2 .. n + 1
        BY <1>1
  <2> QED
      BY <1>6, <2>1
<1>10. Objects(img, head) = Read(H) /\ Objects(img, top) = Read(Heads(img, top))
       BY DEF Objects
<1>11. Objects(img, top) = Read(G)
  <2> HIDE DEF Read
  <2> QED
      BY <1>2, <1>10
<1>12. ObjectOk(img, top, head, n + 2)
       OBVIOUS
<1> HIDE DEF H, n
<1>13. ASSUME NEW a \in G
       PROVE  ObjectOk(img, top, a, img[a].gen)
  <2>1. CASE a \in H
    <3>1. ObjectOk(img, head, a, img[a].gen)
          BY <1>5, <2>1
    <3>2. a + 1 + img[a].len <= top
          BY <1>1, <1>2, <1>3, <2>1, <3>1, Fields DEF ObjectOk
    <3> QED
        BY <3>1, <3>2 DEF ObjectOk
  <2>2. CASE a = head
        BY <1>2, <1>12, <2>2
  <2> QED
      BY <2>1, <2>2
<1>14. ASSUME NEW u \in DATA0 .. top - 1
       PROVE  \E a \in G : u \in Body(img, a)
  <2>1. CASE u \in DATA0 .. head - 1
        BY <1>8, <2>1
  <2>2. CASE u \notin DATA0 .. head - 1
    <3>1. u \in head .. head + img[head].len
          BY <1>1, <1>4, <2>2, Addresses
    <3> QED
        BY <3>1 DEF Body
  <2> QED
      BY <2>1, <2>2
<1>15. {img[a].gen : a \in G} = 2 .. (n + 1) + 1
  <2>1. {img[a].gen : a \in G} = {img[a].gen : a \in H} \cup {n + 2}
        BY <1>2
  <2>2. 2 .. (n + 1) + 1 = (2 .. n + 1) \cup {n + 2}
        BY <1>1
  <2> QED
      BY <1>6, <2>1, <2>2
<1>16. \A a \in H : img[a].gen < n + 2
  <2> SUFFICES ASSUME NEW a \in H
               PROVE  img[a].gen < n + 2
      OBVIOUS
  <2>1. img[a].gen \in 2 .. n + 1
        BY <1>6
  <2> QED
      BY <1>1, <2>1
<1>17. \A a, b \in G : a < b => img[a].gen < img[b].gen
  <2>1. \A b \in H : ~(head < b)
        BY <1>1, <1>3, Addresses
  <2>2. ~(head < head)
        BY <1>1
  <2> QED
      BY <1>2, <1>7, <1>16, <2>1, <2>2
<1>18. Chained(img, top)
      BY <1>2, <1>13, <1>14, <1>15, <1>17 DEF Chained
<1>19. \A i \in 1 .. n : At(G, i) = At(H, i)
  <2> SUFFICES ASSUME NEW i \in 1 .. n
               PROVE  (CHOOSE b \in G : img[b].gen = i + 1) = (CHOOSE b \in H : img[b].gen = i + 1)
      OBVIOUS
  <2>1. img[head].gen # i + 1
        BY <1>1, <1>2
  <2>2. \A b : (b \in G /\ img[b].gen = i + 1) <=> (b \in H /\ img[b].gen = i + 1)
        BY <2>1
  <2> QED
      BY <2>2
<1>20. At(G, n + 1) = head
  <2>1. (n + 1) + 1 = n + 2
        BY <1>1
  <2>2. \A b \in H : img[b].gen # n + 2
        BY <1>1, <1>3, <1>16
  <2> QED
      BY <1>2, <2>1, <2>2
<1>21. Objects(img, top) = Append(Objects(img, head), ObjectAt(img, head))
  <2> DEFINE l == Objects(img, head)
             m == Objects(img, top)
             x == ObjectAt(img, head)
  <2> HIDE DEF At
  <2>1. \A i \in 1 .. n : m[i] = l[i]
    <3>1. \A i \in 1 .. n : i \in 1 .. Cardinality(G) /\ i \in 1 .. Cardinality(H)
          BY <1>1, <1>2 DEF n
    <3>2. \A i \in 1 .. n : m[i] = ObjectAt(img, At(G, i)) /\ l[i] = ObjectAt(img, At(H, i))
          BY <1>10, <1>11, <3>1
    <3> QED
        BY <1>19, <3>2
  <2>2. m[n + 1] = x
    <3>1. n + 1 \in 1 .. Cardinality(G)
          BY <1>1, <1>2
    <3>2. m[n + 1] = ObjectAt(img, At(G, n + 1))
          BY <1>11, <3>1
    <3> QED
        BY <1>20, <3>2
  <2>3. l = [i \in 1 .. n |-> l[i]] /\ m = [i \in 1 .. n + 1 |-> m[i]]
        BY <1>2, <1>10, <1>11 DEF n
  <2> HIDE DEF l, m, x
  <2> DEFINE S == {l[i] : i \in 1 .. n} \cup {x}
  <2>4. Len(l) = n /\ l \in Seq(S) /\ x \in S
        BY <1>1, <2>3
  <2> HIDE DEF S
  <2>5. Append(l, x) = [i \in 1 .. n + 1 |-> IF i = n + 1 THEN x ELSE l[i]]
        BY <2>4, AppendIs
  <2>6. \A i \in 1 .. n + 1 : m[i] = IF i = n + 1 THEN x ELSE l[i]
        BY <1>1, <2>1, <2>2
  <2>7. m = Append(l, x)
        BY <2>3, <2>5, <2>6
  <2> QED
      BY <2>7 DEF l, m, x
<1> QED
    BY <1>18, <1>21

\* The superblock of a chain is one.
LEMMA SuperOfType ==
    ASSUME NEW img \in Image, NEW head \in DATA0 .. Cap + 1
    PROVE  /\ SuperOf(img, head) \in Supers
           /\ SuperOf(img, head).gen = Cardinality(Heads(img, head)) + 1
           /\ SuperOf(img, head).gen \in 1 .. head
           /\ SuperOf(img, head).head = head
<1>1. head \in Nat /\ head >= 1 /\ head <= Cap + 1 /\ Cap \in Nat
      BY Addresses
<1>2. Cardinality(Heads(img, head)) \in Nat /\ Cardinality(Logs(img, head)) \in Nat
      BY <1>1, HeadsFinite
<1>3. Cardinality(Heads(img, head)) <= head - 1
      BY <1>1, HeadsFinite
<1>4. ASSUME Snaps(img, head) # {}
      PROVE  Max(Snaps(img, head)) \in Nat /\ img[Max(Snaps(img, head))].gen \in Nat
  <2>1. Max(Snaps(img, head)) \in Snaps(img, head)
        BY <1>1, <1>4, LatestSnap
  <2> DEFINE m == Max(Snaps(img, head))
  <2> HIDE DEF m
  <2>2. m \in DATA0 .. head - 1 /\ img[m].is = "head"
        BY <2>1 DEF m, Snaps, Heads
  <2>3. m \in Addr /\ m \in Nat
        BY <1>1, <2>2, Addresses
  <2> QED
      BY <2>2, <2>3, Contents, Fields DEF m
<1> QED
    BY <1>1, <1>2, <1>3, <1>4 DEF SuperOf, Supers

\* The fields of the superblock that selects one more object.
LEMMA SelectingIs ==
    ASSUME NEW old \in Supers, NEW obj, NEW gen, NEW off
    PROVE  Selecting(old, obj, gen, off) =
             [is |-> "super", gen |-> gen, head |-> off + Extent(obj),
              logs |-> IF obj.kind = "log" THEN old.logs + 1 ELSE old.logs,
              snapOff |-> IF obj.kind = "snap" THEN off ELSE old.snapOff,
              snapGen |-> IF obj.kind = "snap" THEN gen ELSE old.snapGen]
<1>1. old = [is |-> "super", gen |-> old.gen, head |-> old.head, logs |-> old.logs,
             snapOff |-> old.snapOff, snapGen |-> old.snapGen]
      BY DEF Supers
<1> DEFINE g == old.gen
           h == old.head
           l == old.logs
           o == old.snapOff
           d == old.snapGen
           e == off + Extent(obj)
<1> HIDE DEF g, h, l, o, d, e
<1>2. old = [is |-> "super", gen |-> g, head |-> h, logs |-> l, snapOff |-> o, snapGen |-> d]
      BY <1>1 DEF g, h, l, o, d
<1>3. Selecting(old, obj, gen, off) =
        [[[[[old EXCEPT !.gen = gen] EXCEPT !.head = e]
              EXCEPT !.logs = IF obj.kind = "log" THEN l + 1 ELSE l]
              EXCEPT !.snapGen = IF obj.kind = "snap" THEN gen ELSE d]
              EXCEPT !.snapOff = IF obj.kind = "snap" THEN off ELSE o]
      BY DEF Selecting, l, o, d, e
<1> DEFINE L == IF obj.kind = "log" THEN l + 1 ELSE l
           D == IF obj.kind = "snap" THEN gen ELSE d
           O == IF obj.kind = "snap" THEN off ELSE o
<1>4. Selecting(old, obj, gen, off) =
        [[[[[old EXCEPT !.gen = gen] EXCEPT !.head = e]
              EXCEPT !.logs = L] EXCEPT !.snapGen = D] EXCEPT !.snapOff = O]
      BY <1>3
<1> HIDE DEF L, D, O
<1>5. Selecting(old, obj, gen, off) =
        [is |-> "super", gen |-> gen, head |-> e, logs |-> L, snapOff |-> O, snapGen |-> D]
      BY <1>2, <1>4
<1> QED
    BY <1>5 DEF L, D, O, l, o, d, e

\* Appending one object behind a chain extends its superblock as Selecting does.
LEMMA ExtendSuper ==
    ASSUME NEW img \in Image, NEW head \in Units, NEW top \in DATA0 .. Cap + 1,
           top = head + 1 + img[head].len,
           ObjectOk(img, top, head, Cardinality(Heads(img, head)) + 2)
    PROVE  SuperOf(img, top)
             = Selecting(SuperOf(img, head), ObjectAt(img, head),
                         Cardinality(Heads(img, head)) + 2, head)
<1> DEFINE n == Cardinality(Heads(img, head))
           g == n + 2
           h == img[head]
           S == Snaps(img, head)
           L == Logs(img, head)
<1>1. head \in Nat /\ head >= 1 /\ head \in DATA0 .. Cap + 1 /\ n \in Nat /\ g \in Nat
      BY Addresses, HeadsFinite
<1>2. /\ Heads(img, top) = Heads(img, head) \cup {head}
      /\ head \notin Heads(img, head) /\ head \in Addr
      /\ Cardinality(Heads(img, top)) = n + 1
      /\ h \in Headers /\ h.gen = g
  <2>1. ObjectOk(img, top, head, g)
        OBVIOUS
  <2> HIDE DEF g
  <2> QED
      BY <1>1, <2>1, ExtendHeads DEF g
<1>3. h.len \in Nat /\ h.kind \in Kinds
      BY <1>2, Fields
<1>4. Snaps(img, top) = IF h.kind = "snap" THEN S \cup {head} ELSE S
      BY <1>2 DEF Snaps
<1>5. Logs(img, top) = IF h.kind = "log" THEN L \cup {head} ELSE L
      BY <1>2 DEF Logs
<1>6. Cardinality(Logs(img, top)) = IF h.kind = "log" THEN Cardinality(L) + 1 ELSE Cardinality(L)
  <2>1. head \notin L /\ IsFiniteSet(L)
        BY <1>1, <1>2, HeadsFinite DEF Logs
  <2> QED
      BY <1>5, <2>1, FS_AddElement
<1>7. Max(S \cup {head}) = head
  <2>1. \A y \in S : y \in Nat /\ y < head
        BY <1>1 DEF Snaps, Heads, DATA0
  <2> DEFINE T == S \cup {head}
  <2>2. \A x \in T : (\A y \in T : y <= x) <=> x = head
        BY <1>1, <2>1
  <2>3. head \in T
        OBVIOUS
  <2> HIDE DEF T
  <2>4. Max(T) = head
        BY <2>2, <2>3 DEF Max
  <2> QED
      BY <2>4 DEF T
<1>8. /\ ObjectAt(img, head).kind = h.kind /\ head + Extent(ObjectAt(img, head)) = top
      BY <1>1, <1>3 DEF ObjectAt, Extent
<1>9. SuperOf(img, head) = [is |-> "super", gen |-> n + 1, head |-> head, logs |-> Cardinality(L),
                            snapOff |-> IF S = {} THEN 0 ELSE Max(S),
                            snapGen |-> IF S = {} THEN 0 ELSE img[Max(S)].gen]
      BY DEF SuperOf
<1>10. SuperOf(img, top) = [is |-> "super", gen |-> n + 2, head |-> top,
                            logs |-> IF h.kind = "log" THEN Cardinality(L) + 1 ELSE Cardinality(L),
                            snapOff |-> IF h.kind = "snap" THEN head ELSE IF S = {} THEN 0 ELSE Max(S),
                            snapGen |-> IF h.kind = "snap" THEN g ELSE IF S = {} THEN 0 ELSE img[Max(S)].gen]
  <2> DEFINE M == Max(S)
             C == Cardinality(Logs(img, top))
             N == Cardinality(Heads(img, top))
  <2>1. N + 1 = n + 2
        BY <1>1, <1>2
  <2>2. CASE h.kind = "snap"
    <3>1. Snaps(img, top) # {} /\ Max(Snaps(img, top)) = head
          BY <1>4, <1>7, <2>2
    <3> QED
        BY <1>2, <1>6, <2>1, <2>2, <3>1 DEF SuperOf
  <2>3. CASE h.kind # "snap"
        BY <1>4, <1>6, <2>1, <2>3 DEF SuperOf
  <2> QED
      BY <2>2, <2>3
<1> HIDE DEF n, g, h, S, L
<1>11. SuperOf(img, top) = Selecting(SuperOf(img, head), ObjectAt(img, head), g, head)
  <2> DEFINE x == ObjectAt(img, head)
             e == Extent(x)
             O == IF S = {} THEN 0 ELSE Max(S)
             G == IF S = {} THEN 0 ELSE img[Max(S)].gen
             c == Cardinality(L)
  <2>1. x.kind = h.kind /\ head + Extent(x) = top /\ n + 2 = g
        BY <1>8 DEF g
  <2>2. SuperOf(img, head) = [is |-> "super", gen |-> n + 1, head |-> head, logs |-> c, snapOff |-> O, snapGen |-> G]
        BY <1>9
  <2>3. SuperOf(img, top) = [is |-> "super", gen |-> n + 2, head |-> top, logs |-> IF h.kind = "log" THEN c + 1 ELSE c,
                             snapOff |-> IF h.kind = "snap" THEN head ELSE O, snapGen |-> IF h.kind = "snap" THEN g ELSE G]
        BY <1>10
  <2> HIDE DEF x, O, G, c
  <2>4. SuperOf(img, top) = Selecting(SuperOf(img, head), x, g, head)
    <3>1. SuperOf(img, head) \in Supers
          BY <1>1, SuperOfType
    <3> QED
        BY <2>1, <2>2, <2>3, <3>1, SelectingIs
  <2> QED
      BY <2>4 DEF x
<1> QED
    BY <1>11 DEF g, n

\* What super_validate accepts is the superblock of a chain.
LEMMA SuperIs ==
    ASSUME NEW img \in Image, NEW slot \in Slots
    PROVE  /\ SuperOk(img, slot) =>
                 /\ img[slot] \in Supers /\ img[slot].head \in DATA0 .. Cap + 1
                 /\ Chained(img, img[slot].head)
                 /\ img[slot] = SuperOf(img, img[slot].head)
                 /\ img[slot].gen = Cardinality(Heads(img, img[slot].head)) + 1
                 /\ img[slot].gen \in 1 .. Cap + 1
           /\ \A head \in DATA0 .. Cap + 1 :
                 img[slot] = SuperOf(img, head) /\ Chained(img, head) => SuperOk(img, slot)
<1>1. slot \in Addr
      BY DEF Addr
<1>2. ASSUME SuperOk(img, slot)
      PROVE  /\ img[slot] \in Supers /\ img[slot].head \in DATA0 .. Cap + 1
             /\ Chained(img, img[slot].head)
             /\ img[slot] = SuperOf(img, img[slot].head)
             /\ img[slot].gen = Cardinality(Heads(img, img[slot].head)) + 1
             /\ img[slot].gen \in 1 .. Cap + 1
  <2> DEFINE s == img[slot]
             h == s.head
  <2>1. s \in Supers
        BY <1>1, <1>2, Contents DEF SuperOk
  <2>2. Chained(img, h) /\ h \in DATA0 .. Cap + 1
        BY <1>2 DEF SuperOk, Chained
  <2>3. s = [is |-> "super", gen |-> s.gen, head |-> s.head, logs |-> s.logs,
             snapOff |-> s.snapOff, snapGen |-> s.snapGen]
        BY <2>1 DEF Supers
  <2>4. Describes(s, img)
        BY <1>2 DEF SuperOk
  <2> HIDE DEF s
  <2>5. s = SuperOf(img, h)
        BY <2>3, <2>4 DEF Describes, SuperOf
  <2>6. SuperOf(img, h).gen = Cardinality(Heads(img, h)) + 1 /\ SuperOf(img, h).gen \in 1 .. h
    <3> HIDE DEF h
    <3> QED
        BY <2>2, SuperOfType
  <2>7. s.gen = Cardinality(Heads(img, h)) + 1 /\ s.gen \in 1 .. Cap + 1
        BY <2>2, <2>5, <2>6, Addresses
  <2> QED
      BY <2>1, <2>2, <2>5, <2>7 DEF s
<1>3. ASSUME NEW head \in DATA0 .. Cap + 1, img[slot] = SuperOf(img, head), Chained(img, head)
      PROVE  SuperOk(img, slot)
  <2>1. img[slot].is = "super" /\ img[slot].head = head
        BY <1>3 DEF SuperOf
  <2>2. Describes(SuperOf(img, head), img)
        BY DEF SuperOf, Describes
  <2> QED
      BY <1>3, <2>1, <2>2 DEF SuperOk
<1> QED
    BY <1>2, <1>3

\* Of two chains of an image the longer one has more objects.
LEMMA OrderedChains ==
    ASSUME NEW img \in Image, NEW h1, NEW h2, Chained(img, h1), Chained(img, h2), h1 < h2
    PROVE  Cardinality(Heads(img, h1)) < Cardinality(Heads(img, h2))
<1>1. h1 \in DATA0 .. Cap + 1 /\ h2 \in DATA0 .. Cap + 1 /\ Cap \in Nat /\ DATA0 = 1
      BY Addresses DEF Chained
<1>2. h1 \in Heads(img, h2)
  <2>1. PICK a \in Heads(img, h2) : h1 \in Body(img, a)
        BY <1>1 DEF Chained
  <2>2. a \in DATA0 .. h2 - 1 /\ a \in Addr /\ img[a].len \in Nat
        BY <1>1, Addresses, Contents, Fields DEF Heads
  <2>3. a <= h1 /\ h1 <= a + img[a].len
        BY <1>1, <2>1, <2>2 DEF Body
  <2>4. ASSUME a < h1
        PROVE  FALSE
    <3>1. a \in Heads(img, h1)
          BY <1>1, <2>2, <2>4 DEF Heads
    <3>2. a + 1 + img[a].len <= h1
          BY <3>1 DEF Chained, ObjectOk
    <3> QED
        BY <1>1, <2>2, <2>3, <3>2
  <2> QED
      BY <1>1, <2>2, <2>3, <2>4
<1>3. h1 \notin Heads(img, h1) /\ Heads(img, h1) \subseteq Heads(img, h2)
      BY <1>1 DEF Heads
<1>4. IsFiniteSet(Heads(img, h2)) /\ Cardinality(Heads(img, h2)) \in Nat
      /\ Cardinality(Heads(img, h1)) \in Nat
      BY <1>1, HeadsFinite
<1>5. /\ Cardinality(Heads(img, h1)) <= Cardinality(Heads(img, h2))
      /\ Cardinality(Heads(img, h2)) = Cardinality(Heads(img, h1)) => Heads(img, h1) = Heads(img, h2)
      BY <1>3, <1>4, FS_Subset
<1> QED
    BY <1>2, <1>3, <1>4, <1>5

\* select_super never meets two valid superblocks of one generation that differ:
\* both describe the one chain the image has up to there.
LEMMA NeverDivergent ==
    ASSUME NEW img \in Image
    PROVE  ~Divergent(img)
<1> SUFFICES ASSUME Divergent(img)
             PROVE  FALSE
    OBVIOUS
<1> DEFINE a == img[SLOT0].head
           b == img[SLOT1].head
<1>1. SLOT0 \in Slots /\ SLOT1 \in Slots
      BY DEF Slots
<1>2. SuperOk(img, SLOT0) /\ SuperOk(img, SLOT1) /\ img[SLOT0].gen = img[SLOT1].gen /\ img[SLOT0] # img[SLOT1]
      BY <1>1 DEF Divergent
<1>3. /\ Chained(img, a) /\ img[SLOT0] = SuperOf(img, a) /\ a \in DATA0 .. Cap + 1
      /\ img[SLOT0].gen = Cardinality(Heads(img, a)) + 1
      BY <1>1, <1>2, SuperIs
<1>4. /\ Chained(img, b) /\ img[SLOT1] = SuperOf(img, b) /\ b \in DATA0 .. Cap + 1
      /\ img[SLOT1].gen = Cardinality(Heads(img, b)) + 1
      BY <1>1, <1>2, SuperIs
<1> HIDE DEF a, b
<1>5. Cardinality(Heads(img, a)) \in Nat /\ Cardinality(Heads(img, b)) \in Nat /\ a \in Nat /\ b \in Nat
      BY <1>3, <1>4, HeadsFinite, Addresses
<1>6. Cardinality(Heads(img, a)) = Cardinality(Heads(img, b))
      BY <1>2, <1>3, <1>4, <1>5
<1>7. ~(a < b)
      BY <1>3, <1>4, <1>5, <1>6, OrderedChains
<1>8. ~(b < a)
      BY <1>3, <1>4, <1>5, <1>6, OrderedChains
<1>9. a = b
      BY <1>5, <1>7, <1>8
<1> QED
    BY <1>2, <1>3, <1>4, <1>9

LEMMA Others ==
    /\ \A slot \in Slots : OtherSlot(slot) \in Slots /\ OtherSlot(slot) # slot
                           /\ OtherSlot(OtherSlot(slot)) = slot
    /\ \A slot \in Slots, s2 \in Slots : s2 = slot \/ s2 = OtherSlot(slot)
    /\ \A img : SelectedSlot(img) \in Slots
    /\ SLOT0 \in Slots /\ SLOT1 \in Slots /\ SLOT0 # SLOT1 /\ Slots \subseteq Addr
BY DEF Slots, OtherSlot, SelectedSlot, SLOT0, SLOT1, Addr

\* The verdict is valid when a superblock is, and the newer one is selected.
LEMMA Selectable ==
    ASSUME NEW img \in Image
    PROVE  /\ Verdict(img) = "valid" <=> \E slot \in Slots : SuperOk(img, slot)
           /\ Verdict(img) = "valid" => SuperOk(img, SelectedSlot(img))
           /\ \A slot \in Slots :
                 SuperOk(img, slot)
                 /\ (SuperOk(img, OtherSlot(slot)) => img[OtherSlot(slot)].gen < img[slot].gen)
                    => SelectedSlot(img) = slot
           /\ Verdict(img) \in {"valid", "corrupt", "empty", "unsupported"}
           /\ Verdict(img) = "empty" => img = Blank
<1>1. Verdict(img) = "valid" <=> \E slot \in Slots : SuperOk(img, slot)
      BY NeverDivergent DEF Verdict
<1>2. (\E slot \in Slots : SuperOk(img, slot)) => SuperOk(img, SelectedSlot(img))
      BY DEF SelectedSlot, Slots
<1>3. ASSUME NEW slot \in Slots, SuperOk(img, slot),
             SuperOk(img, OtherSlot(slot)) => img[OtherSlot(slot)].gen < img[slot].gen
      PROVE  SelectedSlot(img) = slot
  <2>1. \A s \in Slots : SuperOk(img, s) => img[s].gen \in Nat
        BY SuperIs, Addresses
  <2>2. SLOT0 \in Slots /\ SLOT1 \in Slots
        BY DEF Slots
  <2>3. CASE slot = SLOT0
        BY <1>3, <2>1, <2>2, <2>3 DEF SelectedSlot, OtherSlot
  <2>4. CASE slot = SLOT1
    <3>1. OtherSlot(slot) = SLOT0
          BY <2>4 DEF OtherSlot, SLOT0, SLOT1
    <3> QED
        BY <1>3, <2>1, <2>2, <2>4, <3>1 DEF SelectedSlot
  <2> QED
      BY <2>3, <2>4 DEF Slots
<1>4. /\ Verdict(img) \in {"valid", "corrupt", "empty", "unsupported"}
      /\ Verdict(img) = "empty" => img = Blank
      BY DEF Verdict
<1> QED
    BY <1>1, <1>2, <1>3, <1>4

-----------------------------------------------------------------------------
(* Writes.                                                                 *)

Content == {Zero, Junk, Alien} \cup Headers \cup Payloads \cup Supers

\* What a phase writes.
Fragment(c) == DOMAIN c \subseteq Addr /\ \A a \in DOMAIN c : c[a] \in Content

LEMMA Images1 ==
    /\ \A img \in Image : DOMAIN img = Addr /\ img # <<>> /\ \A a \in Addr : img[a] \in Content
    /\ Blank \in Image
    /\ \A img : (\A a \in Addr : img[a] \in Content) => [a \in Addr |-> img[a]] \in Image
    /\ Addr # {}
<1>1. Addr # {} /\ -1 \in Addr
      BY Addresses
<1>2. \A img \in Image : DOMAIN img = Addr /\ \A a \in Addr : img[a] \in Content
      BY DEF Image, Content
<1>3. DOMAIN <<>> = {}
      OBVIOUS
<1> QED
    BY <1>1, <1>2, <1>3 DEF Image, Content, Blank

LEMMA Overs ==
    ASSUME NEW img \in Image, NEW c, Fragment(c)
    PROVE  /\ Over(c, img) \in Image
           /\ \A a \in Addr : Over(c, img)[a] = IF a \in DOMAIN c THEN c[a] ELSE img[a]
           /\ \A S : Over(Part(c, S), img) \in Image
           /\ \A S : \A a \in Addr :
                 Over(Part(c, S), img)[a] = IF a \in DOMAIN c /\ a \in S THEN c[a] ELSE img[a]
<1>1. \A a \in Addr : img[a] \in Content /\ (a \in DOMAIN c => c[a] \in Content)
      BY Images1 DEF Fragment
<1>2. \A a \in Addr : Over(c, img)[a] = IF a \in DOMAIN c THEN c[a] ELSE img[a]
      BY DEF Over
<1>3. Over(c, img) \in Image
      BY <1>1 DEF Over, Image, Content
<1>4. \A S : DOMAIN Part(c, S) = DOMAIN c \cap S /\ \A a \in DOMAIN c \cap S : Part(c, S)[a] = c[a]
      BY DEF Part
<1>5. \A S : \A a \in Addr :
         Over(Part(c, S), img)[a] = IF a \in DOMAIN c /\ a \in S THEN c[a] ELSE img[a]
      BY <1>4 DEF Over
<1>6. ASSUME NEW S
      PROVE  Over(Part(c, S), img) \in Image
  <2> DEFINE i2 == Over(Part(c, S), img)
  <2>1. i2 = [a \in Addr |-> i2[a]]
        BY DEF Over
  <2>2. \A a \in Addr : i2[a] \in Content
        BY <1>1, <1>5
  <2> HIDE DEF i2
  <2>3. i2 \in [Addr -> Content]
        BY <2>1, <2>2
  <2> QED
      BY <2>3 DEF i2, Image, Content
<1> QED
    BY <1>2, <1>3, <1>5, <1>6

LEMMA Losing ==
    ASSUME NEW img \in Image, NEW S
    PROVE  Lost(img, S) \in Image /\ \A a \in Addr : Lost(img, S)[a] = IF a \in S THEN Junk ELSE img[a]
BY Images1 DEF Lost, Image, Content

\* The medium with the sectors T of a write of c done, but for the units L.
Left(c, T, L) ==
    [a \in Addr |-> IF a \in L THEN Junk
                    ELSE IF a \in DOMAIN c /\ SectorOf(a) \in T THEN c[a]
                    ELSE disk[a]]

\* A write of c leaves some of its sectors T written and some units L lost; all
\* sectors when it is acknowledged, and those in front of one of them when it
\* fails without a latch.
Outcome(c, o, T, L) ==
    /\ o.disk = Left(c, T, L)
    /\ o.ok \in BOOLEAN /\ o.latched \in BOOLEAN
    /\ latched => ~o.ok /\ o.latched /\ o.disk = disk
    /\ o.ok => ~o.latched /\ T = Touched(c)
    /\ Faults \cap {"torn", "flip"} = {} => L = {}
    /\ ~o.ok /\ ~o.latched =>
          /\ L = {}
          /\ "late" \in Faults \/ "read" \in Faults
          /\ \E s \in Touched(c) : T = Sooner(c, s)

LEMMA WriteOutcome ==
    ASSUME disk \in Image, latched \in BOOLEAN, NEW c, Fragment(c), NEW o \in MediaWrite(c)
    PROVE  \E T, L : Outcome(c, o, T, L)
<1>1. ASSUME NEW T
      PROVE  Upto(c, T) = Left(c, T, {})
  <2>1. Upto(c, T) = [a \in Addr |-> Upto(c, T)[a]]
        BY DEF Upto, Over
  <2>2. \A a \in Addr : Upto(c, T)[a] = IF a \in DOMAIN c /\ a \in {b \in Addr : SectorOf(b) \in T}
                                        THEN c[a] ELSE disk[a]
        BY Overs DEF Upto
  <2> QED
      BY <2>1, <2>2 DEF Left
<1>2. ASSUME NEW T, NEW L
      PROVE  Lost(Upto(c, T), L) = Left(c, T, L)
  <2>1. \A a \in Addr : Upto(c, T)[a] = IF a \in DOMAIN c /\ SectorOf(a) \in T THEN c[a] ELSE disk[a]
        BY <1>1 DEF Left
  <2> QED
      BY <2>1 DEF Lost, Left
<1>3. disk = Left(c, {}, {})
  <2>1. disk = [a \in Addr |-> disk[a]]
        BY DEF Image
  <2> QED
      BY <2>1 DEF Left
<1>4. CASE latched
  <2>1. o = Failed(disk, TRUE)
        BY <1>4 DEF MediaWrite
  <2>2. /\ o.disk = disk /\ o.disk = Left(c, {}, {}) /\ o.ok = FALSE /\ o.latched = TRUE
        BY <1>3, <2>1 DEF Failed
  <2>3. Outcome(c, o, {}, {})
        BY <1>4, <2>2 DEF Outcome
  <2> QED
      BY <2>3
<1>5. CASE ~latched
  <2>1. CASE \E d \in Acknowledged(c) : o = Done(d)
    <3>1. PICK L : /\ o = Done(Left(c, Touched(c), L))
                   /\ L = {} \/ "flip" \in Faults
      <4> DEFINE whole == Upto(c, Touched(c))
                 Flip(a) == Lost(whole, {a})
                 Hit == UNION {UnitsOf(s) : s \in Touched(c)}
      <4>1. Acknowledged(c) = {whole} \cup (IF "flip" \in Faults THEN {Flip(a) : a \in Hit} ELSE {})
            BY DEF Acknowledged
      <4> HIDE DEF whole, Flip, Hit
      <4>2. o = Done(whole) \/ ("flip" \in Faults /\ \E a : o = Done(Flip(a)))
            BY <2>1, <4>1
      <4>3. whole = Left(c, Touched(c), {}) /\ \A a : Flip(a) = Left(c, Touched(c), {a})
            BY <1>1, <1>2 DEF whole, Flip
      <4> QED
          BY <4>2, <4>3
    <3>2. o.disk = Left(c, Touched(c), L) /\ o.ok = TRUE /\ o.latched = FALSE
          BY <3>1 DEF Done
    <3>3. Outcome(c, o, Touched(c), L)
          BY <1>5, <3>1, <3>2 DEF Outcome
    <3> QED
        BY <3>3
  <2>2. CASE \E s \in Touched(c) : o \in FailAt(c, s)
    <3>1. PICK s \in Touched(c) : o \in FailAt(c, s)
          BY <2>2
    <3> DEFINE before == Upto(c, Sooner(c, s))
               after == Upto(c, Sooner(c, s) \cup {s})
    <3>2. \/ ("late" \in Faults \/ "read" \in Faults) /\ o = Failed(before, FALSE)
          \/ o = Failed(before, TRUE) \/ o = Failed(after, TRUE)
          \/ "torn" \in Faults /\ \E L : o = Failed(Lost(before, L), TRUE) \/ o = Failed(Lost(after, L), TRUE)
      <4> DEFINE Few(L) == Lost(before, L)
                 Many(L) == Lost(after, L)
      <4> HIDE DEF before, after
      <4>1. FailAt(c, s) =
              (IF "late" \in Faults \/ ("read" \in Faults /\ Partial(c, s))
               THEN {Failed(before, FALSE)} ELSE {})
              \cup (IF "reject" \in Faults THEN {Failed(before, TRUE)} ELSE {})
              \cup (IF "unknown" \in Faults THEN {Failed(d, TRUE) : d \in {before, after}} ELSE {})
              \cup (IF "torn" \in Faults
                    THEN {Failed(Few(L), TRUE) : L \in SUBSET UnitsOf(s)}
                         \cup {Failed(Many(L), TRUE) : L \in SUBSET UnitsOf(s)}
                    ELSE {})
            BY DEF FailAt, before, after
      <4> HIDE DEF Few, Many
      <4>2. \/ ("late" \in Faults \/ "read" \in Faults) /\ o = Failed(before, FALSE)
            \/ o = Failed(before, TRUE) \/ o = Failed(after, TRUE)
            \/ "torn" \in Faults /\ \E L : o = Failed(Few(L), TRUE) \/ o = Failed(Many(L), TRUE)
            BY <3>1, <4>1
      <4> QED
          BY <4>2 DEF Few, Many
    <3>3. \/ ("late" \in Faults \/ "read" \in Faults) /\ o = Failed(Left(c, Sooner(c, s), {}), FALSE)
          \/ \E T, L : o = Failed(Left(c, T, L), TRUE) /\ (L = {} \/ "torn" \in Faults)
      <4>1. \A L : Lost(before, L) = Left(c, Sooner(c, s), L) /\ Lost(after, L) = Left(c, Sooner(c, s) \cup {s}, L)
            BY <1>2
      <4>2. before = Left(c, Sooner(c, s), {}) /\ after = Left(c, Sooner(c, s) \cup {s}, {})
            BY <1>1
      <4> DEFINE E(T, L) == Failed(Left(c, T, L), TRUE)
                 T0 == Sooner(c, s)
                 T1 == Sooner(c, s) \cup {s}
      <4>3. \/ ("late" \in Faults \/ "read" \in Faults) /\ o = Failed(Left(c, T0, {}), FALSE)
            \/ o = E(T0, {}) \/ o = E(T1, {})
            \/ "torn" \in Faults /\ \E L : o = E(T0, L) \/ o = E(T1, L)
        <5> HIDE DEF before, after
        <5> QED
            BY <3>2, <4>1, <4>2
      <4> HIDE DEF E, T0, T1
      <4>4. \/ ("late" \in Faults \/ "read" \in Faults) /\ o = Failed(Left(c, T0, {}), FALSE)
            \/ \E T, L : o = E(T, L) /\ (L = {} \/ "torn" \in Faults)
            BY <4>3
      <4> QED
          BY <4>4 DEF E, T0
    <3>4. CASE ("late" \in Faults \/ "read" \in Faults) /\ o = Failed(Left(c, Sooner(c, s), {}), FALSE)
      <4>1. o.disk = Left(c, Sooner(c, s), {}) /\ o.ok = FALSE /\ o.latched = FALSE
            BY <3>4 DEF Failed
      <4>2. Outcome(c, o, Sooner(c, s), {})
            BY <1>5, <3>1, <3>4, <4>1 DEF Outcome
      <4> QED
          BY <4>2
    <3>5. ASSUME NEW T, NEW L, o = Failed(Left(c, T, L), TRUE), L = {} \/ "torn" \in Faults
          PROVE  Outcome(c, o, T, L)
      <4>1. o.disk = Left(c, T, L) /\ o.ok = FALSE /\ o.latched = TRUE
            BY <3>5 DEF Failed
      <4> QED
          BY <1>5, <3>5, <4>1 DEF Outcome
    <3> QED
        BY <3>3, <3>4, <3>5
  <2> QED
      BY <1>5, <2>1, <2>2 DEF MediaWrite
<1> QED
    BY <1>4, <1>5

LEMMA LeftOk ==
    ASSUME disk \in Image, NEW c, Fragment(c), NEW T, NEW L
    PROVE  Left(c, T, L) \in Image
<1>1. \A a \in Addr : disk[a] \in Content /\ (a \in DOMAIN c => c[a] \in Content) /\ Junk \in Content
      BY Images1 DEF Fragment, Content
<1>2. Left(c, T, L) \in [Addr -> Content]
      BY <1>1 DEF Left
<1> QED
    BY <1>2 DEF Image, Content

LEMMA BarrierOutcome ==
    ASSUME latched \in BOOLEAN, active \in BOOLEAN, NEW o \in BarrierOutcomes
    PROVE  /\ o.ok \in BOOLEAN /\ o.latched \in BOOLEAN
           /\ ~active => o.ok /\ o.latched = latched
           /\ active /\ o.ok => ~latched /\ ~o.latched
<1>1. CASE ~active
  <2>1. o = [ok |-> TRUE, latched |-> latched]
        BY <1>1 DEF BarrierOutcomes
  <2>2. o.ok = TRUE /\ o.latched = latched
        BY <2>1
  <2> QED
      BY <1>1, <2>2
<1>2. CASE active
  <2>1. \/ o = [ok |-> TRUE, latched |-> FALSE] /\ ~latched
        \/ o = [ok |-> FALSE, latched |-> TRUE]
        \/ o = [ok |-> FALSE, latched |-> FALSE]
        BY <1>2 DEF BarrierOutcomes
  <2>2. \/ o.ok = TRUE /\ o.latched = FALSE /\ ~latched
        \/ o.ok = FALSE /\ o.latched = TRUE
        \/ o.ok = FALSE /\ o.latched = FALSE
        BY <2>1
  <2> QED
      BY <1>2, <2>2
<1> QED
    BY <1>1, <1>2

\* A phase on the window and the medium.
LEMMA PhaseOutcome ==
    ASSUME ram \in Image, disk \in Image \cup {<<>>}, active \in BOOLEAN, latched \in BOOLEAN,
           active => disk \in Image,
           NEW c, NEW c2, active => Fragment(c), Fragment(c2), NEW o \in PhaseWrite(c, c2)
    PROVE  /\ o.ram \in Image /\ o.disk \in Image \cup {<<>>}
           /\ o.ok \in BOOLEAN /\ o.latched \in BOOLEAN
           /\ o.ok => o.ram = Over(c2, ram)
           /\ ~active => o.disk = disk /\ o.latched = latched
           /\ active => o.disk \in Image /\ (~o.ok => o.ram = ram)
           /\ active => \E T, L : Outcome(c, o, T, L)
<1>1. Over(c2, ram) \in Image
      BY Overs
<1>2. CASE active
  <2>1. PICK m \in MediaWrite(c) :
           o = [disk |-> m.disk, ok |-> m.ok, latched |-> m.latched,
                ram |-> IF m.ok THEN Over(c2, ram) ELSE ram]
        BY <1>2 DEF PhaseWrite
  <2>2. PICK T, L : Outcome(c, m, T, L)
        BY <1>2, WriteOutcome
  <2>3. \A a \in Addr : disk[a] \in Content /\ (a \in DOMAIN c => c[a] \in Content) /\ Junk \in Content
        BY <1>2, Images1 DEF Fragment, Content
  <2>4. Left(c, T, L) \in [Addr -> Content]
        BY <2>3 DEF Left
  <2>5. m.disk \in Image /\ m.ok \in BOOLEAN /\ m.latched \in BOOLEAN
        BY <2>2, <2>4 DEF Image, Content, Outcome
  <2>6. /\ o.disk = m.disk /\ o.ok = m.ok /\ o.latched = m.latched
        /\ o.ram = IF m.ok THEN Over(c2, ram) ELSE ram
        BY <2>1
  <2>7. Outcome(c, o, T, L)
        BY <2>2, <2>6 DEF Outcome
  <2> QED
      BY <1>1, <1>2, <2>2, <2>5, <2>6, <2>7
<1>3. CASE ~active
  <2>1. \/ o = [disk |-> disk, ok |-> TRUE, latched |-> latched, ram |-> Over(c2, ram)]
        \/ \E r \in Cuts(c2) : o = [disk |-> disk, ok |-> FALSE, latched |-> latched, ram |-> r]
        BY <1>3 DEF PhaseWrite
  <2>2. ASSUME NEW r \in Cuts(c2)
        PROVE  r \in Image
    <3>1. PICK a \in DOMAIN c2 :
            r \in {Over(Part(c2, Addr \cap (SLOT0 .. (a - 1))), ram),
                   Lost(Over(Part(c2, Addr \cap (SLOT0 .. (a - 1))), ram), {a}),
                   Over(Part(c2, Addr \cap (SLOT0 .. a)), ram)}
          BY DEF Cuts
    <3>2. Over(Part(c2, Addr \cap (SLOT0 .. (a - 1))), ram) \in Image
          BY Overs
    <3>3. Over(Part(c2, Addr \cap (SLOT0 .. a)), ram) \in Image
          BY Overs
    <3>4. Lost(Over(Part(c2, Addr \cap (SLOT0 .. (a - 1))), ram), {a}) \in Image
          BY <3>2, Losing
    <3> QED
        BY <3>1, <3>2, <3>3, <3>4
  <2>3. CASE o = [disk |-> disk, ok |-> TRUE, latched |-> latched, ram |-> Over(c2, ram)]
    <3>1. o.disk = disk /\ o.ok = TRUE /\ o.latched = latched /\ o.ram = Over(c2, ram)
          BY <2>3
    <3> QED
        BY <1>1, <1>3, <3>1
  <2>4. ASSUME NEW r \in Cuts(c2), o = [disk |-> disk, ok |-> FALSE, latched |-> latched, ram |-> r]
        PROVE  o.disk = disk /\ o.ok = FALSE /\ o.latched = latched /\ o.ram \in Image
        BY <2>2, <2>4
  <2> QED
      BY <1>1, <1>3, <2>1, <2>3, <2>4
<1> QED
    BY <1>2, <1>3

-----------------------------------------------------------------------------
(* The steps.                                                              *)

LEMMA NoOpOk == NoOp \in Ops /\ NoOp.super.head \in DATA0 .. Cap + 1 /\ NoOp.slot \in Slots /\ NoOp.jobs = <<>>
                /\ NoOp.auto = FALSE /\ NoOp.deploy = FALSE
<1>1. <<>> \in Seq(Jobs)
      OBVIOUS
<1>2. FirstSuper \in Supers /\ FirstSuper.head = DATA0
      BY Written DEF FirstSuper
<1> QED
    BY <1>1, <1>2, Addresses, Others DEF NoOp, Ops

\* What select_super leaves.
LEMMA SelectsOk ==
    ASSUME TypeOK, NEW img \in Image, Selects(img)
    PROVE  /\ last' \in {"valid", "empty", "absent", "corrupt", "unsupported", "fault", "length"}
           /\ selected'.gen \in 0 .. Cap + 1 /\ selected'.head \in 0 .. Cap + 1
           /\ last' = Verdict(img)
           /\ last' = "valid" => /\ SuperOk(img, SelectedSlot(img))
                                 /\ selected'.gen = img[SelectedSlot(img)].gen
                                 /\ selected'.head = img[SelectedSlot(img)].head
<1> DEFINE t == SelectedSlot(img)
           v == Verdict(img)
<1>1. v \in {"valid", "corrupt", "empty", "unsupported"} /\ last' = v
      BY Selectable DEF Selects
<1>2. v = "valid" => SuperOk(img, t) /\ t \in Slots
      BY Selectable, Others
<1>3. v = "valid" => img[t].gen \in 0 .. Cap + 1 /\ img[t].head \in 0 .. Cap + 1
  <2> SUFFICES ASSUME v = "valid"
               PROVE  img[t].gen \in 0 .. Cap + 1 /\ img[t].head \in 0 .. Cap + 1
      OBVIOUS
  <2>1. SuperOk(img, t) /\ t \in Slots
        BY <1>2
  <2> HIDE DEF t, v
  <2>2. img[t].gen \in 1 .. Cap + 1 /\ img[t].head \in DATA0 .. Cap + 1
        BY <2>1, SuperIs
  <2> QED
      BY <2>2, Addresses
<1>4. selected' = CASE v = "valid" -> [gen |-> img[t].gen, head |-> img[t].head]
                  []  v = "empty" \/ Divergent(img) -> [gen |-> 0, head |-> 0]
                  []  OTHER -> selected
      BY DEF Selects
<1>5. Cap \in Nat /\ selected.gen \in 0 .. Cap + 1 /\ selected.head \in 0 .. Cap + 1
      BY Addresses DEF TypeOK
<1> HIDE DEF t, v
<1>6. CASE v = "valid"
  <2>1. selected'.gen = img[t].gen /\ selected'.head = img[t].head
        BY <1>4, <1>6, NeverDivergent
  <2> QED
      BY <1>1, <1>2, <1>3, <1>6, <2>1 DEF t, v
<1>7. CASE v # "valid"
  <2>1. selected' = [gen |-> 0, head |-> 0] \/ selected' = selected
        BY <1>4, <1>7
  <2>2. selected'.gen \in 0 .. Cap + 1 /\ selected'.head \in 0 .. Cap + 1
        BY <1>5, <2>1
  <2>3. last' # "valid"
        BY <1>1, <1>7
  <2> QED
      BY <1>1, <2>2, <2>3 DEF v
<1> QED
    BY <1>6, <1>7

\* Between operations and while formatting there is nothing being built.
LEMMA Settled ==
    ASSUME pc' \in {"off", "idle", "format", "format barrier"},
           op' \in Ops, op'.super.head \in DATA0 .. Cap + 1, op'.slot \in Slots,
           ram' \in Image, disk' \in Image \cup {<<>>}, active' \in BOOLEAN, latched' \in BOOLEAN,
           selected'.gen \in 0 .. Cap + 1 /\ selected'.head \in 0 .. Cap + 1,
           last' \in {"valid", "empty", "absent", "corrupt", "unsupported", "fault", "length"},
           answer' \in {"none", "ok", "committed", "failed", "rejected", "unknown"},
           pc' # "idle" => answer' = "none",
           pc' = "off" => ~active' /\ ~latched',
           pc' = "format barrier" => ram'[SLOT0] = FirstSuper /\ ram'[SLOT1] = Zero,
           pc' = "format" /\ op'.auto => Kept' = Blank /\ ram' = Blank /\ ~latched',
           active' => Sectors',
           pc' = "idle" /\ last' = "valid" =>
              /\ SuperOk(ram', SelectedSlot(ram'))
              /\ selected'.gen = ram'[SelectedSlot(ram')].gen
              /\ selected'.head = ram'[SelectedSlot(ram')].head
    PROVE  WInv'
<1>1. TypeOK'
      BY DEF TypeOK, PcNames
<1>2. SelectedTrue'
      BY Selectable, Others DEF SelectedTrue
<1>3. ~Busy'
      BY DEF Busy, Writing, Closing
<1>4. BuildOk'
      BY <1>3 DEF BuildOk
<1>5. Conduct'
      BY <1>3 DEF Conduct
<1> QED
    BY <1>1, <1>2, <1>4, <1>5 DEF WInv

LEMMA WInvInit == Init => WInv
<1> SUFFICES ASSUME Init
             PROVE  WInv
    OBVIOUS
<1>1. PICK image \in Images, sectors \in Builds : Off(image, sectors)
      BY DEF Init
<1>2. /\ active = FALSE /\ latched = FALSE /\ selected = [gen |-> 0, head |-> 0] /\ last = "empty"
      /\ pc = "off" /\ op = NoOp /\ answer = "none"
      BY DEF Init
<1>3. image \in Image /\ Blank \in Image
      BY StoreAssumption, Images1
<1>4. ram \in Image /\ disk \in Image \cup {<<>>}
      BY <1>1, <1>3 DEF Off
<1>5. selected.gen \in 0 .. Cap + 1 /\ selected.head \in 0 .. Cap + 1
      BY <1>2, Addresses
<1>6. TypeOK /\ op \in Ops
      BY <1>2, <1>4, <1>5, NoOpOk DEF TypeOK, PcNames
<1>7. ~Busy
      BY <1>2 DEF Busy, Writing, Closing
<1> QED
    BY <1>2, <1>6, <1>7 DEF WInv, SelectedTrue, Conduct, BuildOk

\* What the invariant says of the window and the medium.
LEMMA Facts ==
    ASSUME WInv
    PROVE  /\ ram \in Image /\ disk \in Image \cup {<<>>} /\ active \in BOOLEAN /\ latched \in BOOLEAN
           /\ Kept \in Image /\ (Sectors => disk \in Image) /\ (active => disk \in Image /\ Sectors)
           /\ op \in Ops /\ op.super.head \in DATA0 .. Cap + 1 /\ op.slot \in Slots
           /\ \A img \in Image : DOMAIN img # {}
<1>1. /\ ram \in Image /\ disk \in Image \cup {<<>>} /\ active \in BOOLEAN /\ latched \in BOOLEAN
      /\ op \in Ops /\ op.super.head \in DATA0 .. Cap + 1 /\ op.slot \in Slots
      BY DEF WInv, TypeOK
<1>2. Sectors => disk \in Image
      BY <1>1 DEF Sectors
<1>3. active => Sectors
      BY DEF WInv, Conduct
<1> QED
    BY <1>1, <1>2, <1>3, Images1 DEF Kept

LEMMA WRestart ==
    ASSUME WInv, Restart
    PROVE  WInv'
<1>1. ram \in Image /\ disk \in Image \cup {<<>>} /\ Blank \in Image
      BY Facts, Images1
<1>2. /\ ram' \in Image /\ disk' \in Image \cup {<<>>}
      /\ active' = FALSE /\ latched' = FALSE
      /\ selected' = [gen |-> 0, head |-> 0] /\ last' = "empty"
      /\ pc' = "off" /\ op' = NoOp /\ answer' = "none"
      BY <1>1 DEF Restart
<1>3. selected'.gen \in 0 .. Cap + 1 /\ selected'.head \in 0 .. Cap + 1
      BY <1>2, Addresses
<1> QED
    BY <1>2, <1>3, NoOpOk, Settled

LEMMA WBoot ==
    ASSUME WInv, Boot
    PROVE  WInv'
<1>1. /\ pc = "off" /\ active' = Sectors /\ ram' = Kept /\ Selects(Kept)
      /\ disk' = disk /\ latched' = latched /\ answer' = answer
      BY DEF Boot, Mount
<1>2. answer = "none" /\ latched = FALSE
      BY <1>1, Facts DEF WInv, Conduct
<1>3. /\ ram' \in Image /\ disk' \in Image \cup {<<>>} /\ active' \in BOOLEAN
      /\ Sectors' = Sectors /\ Kept' = Kept
  <2>1. Sectors' = Sectors /\ Sectors \in BOOLEAN
        BY <1>1 DEF Sectors
  <2>2. Kept' = Kept
        BY <1>1, <2>1 DEF Kept
  <2> QED
      BY <1>1, <2>1, <2>2, Facts
<1>4. CASE Verdict(Kept) = "empty"
  <2>1. pc' = "format" /\ op' = [NoOp EXCEPT !.auto = TRUE]
        BY <1>4 DEF Boot, Mount
  <2>2. Kept = Blank
        BY <1>4, Facts, Selectable
  <2>3. op' \in Ops /\ op'.super = NoOp.super /\ op'.slot = NoOp.slot
        BY <2>1, NoOpOk DEF Ops
  <2> QED
      BY <1>1, <1>2, <1>3, <2>1, <2>2, <2>3, Facts, SelectsOk, NoOpOk, Settled DEF WInv
<1>5. CASE Verdict(Kept) # "empty"
  <2>1. pc' = "idle" /\ op' = NoOp
        BY <1>5 DEF Boot, Mount
  <2> QED
      BY <1>1, <1>2, <1>3, <2>1, Facts, SelectsOk, NoOpOk, Settled DEF WInv
<1> QED
    BY <1>4, <1>5

LEMMA WBootLoadFails ==
    ASSUME WInv, BootLoadFails
    PROVE  WInv'
<1>1. /\ pc = "off" /\ Sectors /\ active' = TRUE /\ latched' = TRUE
      /\ selected' = [gen |-> 0, head |-> 0] /\ last' = "corrupt" /\ pc' = "idle"
      /\ disk' = disk /\ op' = op /\ answer' = answer
      BY DEF BootLoadFails
<1>2. PICK s : ram' = Over(Part(disk, {a \in Addr : SectorOf(a) < s}), ram)
      BY DEF BootLoadFails
<1>3. disk \in Image /\ ram \in Image
      BY <1>1, Facts
<1>4. Fragment(disk)
      BY <1>3, Images1 DEF Fragment
<1>5. ram' \in Image
      BY <1>2, <1>3, <1>4, Overs
<1>6. answer = "none" /\ Sectors'
      BY <1>1 DEF WInv, Conduct, Sectors
<1>7. selected'.gen \in 0 .. Cap + 1 /\ selected'.head \in 0 .. Cap + 1
      BY <1>1, Addresses
<1> QED
    BY <1>1, <1>3, <1>5, <1>6, <1>7, Facts, Settled

LEMMA WBootProbeFails ==
    ASSUME WInv, BootProbeFails
    PROVE  WInv'
<1>1. /\ pc = "off" /\ selected' = [gen |-> 0, head |-> 0] /\ last' = "absent" /\ pc' = "idle"
      /\ ram' = ram /\ disk' = disk /\ active' = active /\ latched' = latched /\ op' = op /\ answer' = answer
      BY DEF BootProbeFails
<1>2. answer = "none" /\ active = FALSE
      BY <1>1, Facts DEF WInv, Conduct
<1>3. selected'.gen \in 0 .. Cap + 1 /\ selected'.head \in 0 .. Cap + 1
      BY <1>1, Addresses
<1> QED
    BY <1>1, <1>2, <1>3, Facts, Settled

LEMMA Formatting ==
    ASSUME NEW img \in Image, img[SLOT0] = FirstSuper, img[SLOT1] = Zero
    PROVE  /\ SuperOk(img, SLOT0) /\ ~SuperOk(img, SLOT1) /\ SelectedSlot(img) = SLOT0
           /\ img[SLOT0].gen = 1 /\ img[SLOT0].head = DATA0
<1>1. Heads(img, DATA0) = {} /\ Snaps(img, DATA0) = {} /\ Logs(img, DATA0) = {}
      BY Addresses DEF Heads, Snaps, Logs
<1>2. Cardinality({}) = 0
      BY FS_EmptySet
<1>3. Chained(img, DATA0)
  <2>1. DATA0 \in DATA0 .. Cap + 1 /\ DATA0 .. DATA0 - 1 = {} /\ 2 .. 0 + 1 = {}
        BY Addresses
  <2> QED
      BY <1>1, <1>2, <2>1 DEF Chained
<1>4. SuperOf(img, DATA0) = FirstSuper
      BY <1>1, <1>2 DEF SuperOf, FirstSuper
<1>5. SuperOk(img, SLOT0)
      BY <1>3, <1>4, Addresses, Others, SuperIs
<1>6. ~SuperOk(img, SLOT1)
      BY DEF SuperOk, Zero
<1>7. img[SLOT0].gen = 1 /\ img[SLOT0].head = DATA0
      BY DEF FirstSuper
<1> QED
    BY <1>5, <1>6, <1>7 DEF SelectedSlot

LEMMA WFormatStart ==
    ASSUME WInv, FormatStart
    PROVE  WInv'
<1>1. /\ pc' = "format" /\ op' = NoOp /\ answer' = "none" /\ ram' = ram /\ disk' = disk
      /\ active' = active /\ latched' = latched /\ selected' = selected /\ last' = last
      BY DEF FormatStart, media
<1>2. Sectors' = Sectors
      BY <1>1 DEF Sectors
<1>3. /\ selected.gen \in 0 .. Cap + 1 /\ selected.head \in 0 .. Cap + 1
      /\ last \in {"valid", "empty", "absent", "corrupt", "unsupported", "fault", "length"}
      BY DEF WInv, TypeOK
<1> QED
    BY <1>1, <1>2, <1>3, Facts, NoOpOk, Settled

LEMMA WFormatWrite ==
    ASSUME WInv, FormatWrite
    PROVE  WInv'
<1> DEFINE c == [slot \in Slots |-> IF slot = SLOT0 THEN FirstSuper ELSE Zero]
<1>1. /\ pc = "format" /\ ram' = Over(c, ram) /\ active' = active /\ answer' = answer
      BY DEF FormatWrite
<1>2. answer = "none"
      BY <1>1 DEF WInv, Conduct
<1>3. Fragment(c)
      BY Others, Written DEF Fragment, Content
<1>4. ram' \in Image /\ ram'[SLOT0] = FirstSuper /\ ram'[SLOT1] = Zero
  <2>1. c[SLOT0] = FirstSuper /\ c[SLOT1] = Zero /\ SLOT0 \in Addr /\ SLOT1 \in Addr
        /\ SLOT0 \in DOMAIN c /\ SLOT1 \in DOMAIN c
        BY Others
  <2> HIDE DEF c
  <2> QED
      BY <1>1, <1>3, <2>1, Facts, Overs
<1> HIDE DEF c
<1>5. /\ SuperOk(ram', SLOT0) /\ ~SuperOk(ram', SLOT1) /\ SelectedSlot(ram') = SLOT0
      /\ ram'[SLOT0].gen = 1 /\ ram'[SLOT0].head = DATA0
      BY <1>4, Formatting
<1>6. /\ selected.gen \in 0 .. Cap + 1 /\ selected.head \in 0 .. Cap + 1
      /\ last \in {"valid", "empty", "absent", "corrupt", "unsupported", "fault", "length"}
      BY DEF WInv, TypeOK
<1>7. 0 \in 0 .. Cap + 1 /\ 1 \in 0 .. Cap + 1 /\ DATA0 \in 0 .. Cap + 1
      BY Addresses
<1>8. CASE active
  <2>1. PICK o \in MediaWrite(c) :
           /\ disk' = o.disk /\ latched' = o.latched
           /\ IF o.ok THEN /\ pc' = "format barrier"
                           /\ selected' = selected /\ last' = last /\ op' = op
              ELSE FormatFails
        BY <1>8 DEF FormatWrite, c
  <2>2. disk' \in Image /\ latched' \in BOOLEAN
    <3>1. disk \in Image /\ latched \in BOOLEAN
          BY <1>8, Facts
    <3>2. PICK T, L : Outcome(c, o, T, L)
          BY <1>3, <3>1, WriteOutcome
    <3>3. o.disk \in Image
          BY <1>3, <3>1, <3>2, LeftOk DEF Outcome
    <3> QED
        BY <2>1, <3>2, <3>3 DEF Outcome
  <2>3. Sectors'
        BY <2>2, Images1 DEF Sectors
  <2>4. CASE pc' = "format barrier" /\ selected' = selected /\ last' = last /\ op' = op
        BY <1>1, <1>2, <1>4, <1>6, <2>2, <2>3, <2>4, Facts, Settled
  <2>5. CASE FormatFails
    <3>1. selected' = [gen |-> 0, head |-> 0] /\ last' = "fault" /\ pc' = "idle" /\ op' = NoOp
          BY <2>5 DEF FormatFails
    <3> QED
        BY <1>1, <1>2, <1>4, <1>7, <2>2, <2>3, <3>1, NoOpOk, Facts, Settled
  <2> QED
      BY <2>1, <2>4, <2>5
<1>9. CASE ~active
  <2>1. /\ selected' = [gen |-> 1, head |-> DATA0] /\ last' \in {"empty", "valid"} /\ pc' = "idle"
        /\ op' = NoOp /\ disk' = disk /\ latched' = latched
        BY <1>9 DEF FormatWrite, Formatted
  <2> QED
      BY <1>1, <1>2, <1>4, <1>5, <1>7, <1>9, <2>1, NoOpOk, Facts, Settled
<1> QED
    BY <1>8, <1>9

LEMMA WFormatBarrier ==
    ASSUME WInv, FormatBarrier
    PROVE  WInv'
<1>1. /\ pc = "format barrier" /\ ram' = ram /\ disk' = disk /\ active' = active /\ answer' = answer
      BY DEF FormatBarrier
<1>2. answer = "none" /\ ram[SLOT0] = FirstSuper /\ ram[SLOT1] = Zero
      BY <1>1 DEF WInv, Conduct
<1>3. /\ SuperOk(ram, SLOT0) /\ SelectedSlot(ram) = SLOT0
      /\ ram[SLOT0].gen = 1 /\ ram[SLOT0].head = DATA0
      BY <1>2, Facts, Formatting
<1>4. PICK o \in BarrierOutcomes : latched' = o.latched /\ IF o.ok THEN Formatted ELSE FormatFails
      BY DEF FormatBarrier
<1>5. latched' \in BOOLEAN
      BY <1>4, Facts, BarrierOutcome
<1>6. Sectors' = Sectors
      BY <1>1 DEF Sectors
<1>7. 0 \in 0 .. Cap + 1 /\ 1 \in 0 .. Cap + 1 /\ DATA0 \in 0 .. Cap + 1
      BY Addresses
<1>8. /\ pc' = "idle" /\ op' = NoOp
      /\ \/ selected' = [gen |-> 1, head |-> DATA0] /\ last' \in {"empty", "valid"}
         \/ selected' = [gen |-> 0, head |-> 0] /\ last' = "fault"
      BY <1>4 DEF Formatted, FormatFails
<1>9. /\ selected'.gen \in 0 .. Cap + 1 /\ selected'.head \in 0 .. Cap + 1
      /\ last' \in {"valid", "empty", "fault"}
      /\ last' = "valid" => selected'.gen = 1 /\ selected'.head = DATA0
      BY <1>7, <1>8
<1> QED
    BY <1>1, <1>2, <1>3, <1>5, <1>6, <1>8, <1>9, NoOpOk, Facts, Settled

LEMMA WQuery ==
    ASSUME WInv, Query
    PROVE  WInv'
<1>1. /\ pc = "idle" /\ Selects(ram) /\ ram' = ram /\ disk' = disk /\ active' = active /\ latched' = latched
      /\ pc' = pc /\ op' = op /\ answer' = answer
      BY DEF Query, media
<1>2. answer \in {"none", "ok", "committed", "failed", "rejected", "unknown"}
  <2>1. ~Busy
        BY <1>1 DEF Busy, Writing, Closing
  <2> QED
      BY <2>1 DEF WInv, Conduct, TypeOK
<1>3. Sectors' = Sectors
      BY <1>1 DEF Sectors
<1> QED
    BY <1>1, <1>2, <1>3, Facts, SelectsOk, Settled DEF WInv

LEMMA JobFields ==
    ASSUME NEW j \in Jobs
    PROVE  /\ j.obj \in Objs /\ j.gen \in Nat /\ j.off \in Nat /\ Extent(j.obj) \in Nat \ {0}
           /\ Extent(j.obj) = 1 + j.obj.len /\ j.obj.len \in Nat \ {0}
BY Fields DEF Jobs, Extent

\* The superblock with one more job.
And(s, j) == Selecting(s, j.obj, j.gen, j.off)

LEMMA AndOk ==
    ASSUME NEW old \in Supers, NEW j \in Jobs
    PROVE  And(old, j) \in Supers /\ And(old, j).gen = j.gen /\ And(old, j).head = j.off + Extent(j.obj)
<1>1. j.off + Extent(j.obj) \in Nat /\ j.gen \in Nat /\ j.off \in Nat
      BY JobFields
<1>2. old.logs \in Nat /\ old.snapOff \in Nat /\ old.snapGen \in Nat
      BY Fields
<1> DEFINE L == IF j.obj.kind = "log" THEN old.logs + 1 ELSE old.logs
           O == IF j.obj.kind = "snap" THEN j.off ELSE old.snapOff
           D == IF j.obj.kind = "snap" THEN j.gen ELSE old.snapGen
           e == j.off + Extent(j.obj)
<1>3. L \in Nat /\ O \in Nat /\ D \in Nat /\ e \in Nat
      BY <1>1, <1>2
<1>4. And(old, j) = [is |-> "super", gen |-> j.gen, head |-> e, logs |-> L, snapOff |-> O, snapGen |-> D]
      BY SelectingIs DEF And
<1> HIDE DEF L, O, D, e
<1>5. And(old, j) \in Supers /\ And(old, j).gen = j.gen /\ And(old, j).head = e
      BY <1>1, <1>3, <1>4 DEF Supers
<1> QED
    BY <1>5 DEF e

\* The superblock for one job or two.
LEMMA SuperblockIs ==
    ASSUME NEW old \in Supers, NEW jobs \in Seq(Jobs)
    PROVE  /\ Len(jobs) = 1 => Superblock(old, jobs) = And(old, jobs[1])
           /\ Len(jobs) = 2 => Superblock(old, jobs) = And(And(old, jobs[1]), jobs[2])
           /\ Len(jobs) \in {1, 2} =>
                 LET j == jobs[Len(jobs)]
                 IN  /\ Superblock(old, jobs) \in Supers
                     /\ Superblock(old, jobs).gen = j.gen
                     /\ Superblock(old, jobs).head = j.off + Extent(j.obj)
<1>1. Len(jobs) = 1 => Superblock(old, jobs) = And(old, jobs[1])
      BY DEF Superblock, And
<1>2. Len(jobs) = 2 => Superblock(old, jobs) = And(And(old, jobs[1]), jobs[2])
      BY DEF Superblock, And
<1>3. CASE Len(jobs) = 1
  <2>1. jobs[1] \in Jobs
    <3>1. 1 \in 1 .. Len(jobs)
          BY <1>3
    <3> QED
        BY <3>1, ElementOfSeq
  <2> QED
      BY <1>1, <1>3, <2>1, AndOk
<1>4. CASE Len(jobs) = 2
  <2>1. jobs[1] \in Jobs /\ jobs[2] \in Jobs
        BY <1>4, ElementOfSeq
  <2>2. And(old, jobs[1]) \in Supers
        BY <2>1, AndOk
  <2> QED
      BY <1>2, <1>4, <2>1, <2>2, AndOk
<1> QED
    BY <1>1, <1>2, <1>3, <1>4

\* What append_obj and cold_store_deployment plan.
LEMMA PlannedIs ==
    ASSUME NEW old \in Supers, NEW objs, Len(objs) \in {1, 2}, objs \in Seq(Objs)
    PROVE  LET jobs == Planned(old, objs)
           IN  /\ jobs \in Seq(Jobs) /\ Len(jobs) = Len(objs) /\ jobs # <<>>
               /\ jobs[1] = [obj |-> objs[1], gen |-> old.gen + 1, off |-> old.head]
               /\ Len(objs) = 2 =>
                    jobs[2] = [obj |-> objs[2], gen |-> old.gen + 2, off |-> old.head + Extent(objs[1])]
               /\ Last(jobs) = jobs[Len(jobs)]
               /\ jobs[Len(jobs)].gen = old.gen + Len(objs)
<1> DEFINE n == Len(objs)
           jobs == Planned(old, objs)
           e == Extent(objs[1])
           E(i) == [obj |-> objs[i], gen |-> old.gen + i, off |-> IF i = 1 THEN old.head ELSE old.head + e]
<1>1. old.gen \in Nat /\ old.head \in Nat
      BY Fields
<1>2. /\ DOMAIN objs = 1 .. n /\ n \in Nat /\ \A i \in 1 .. n : objs[i] \in Objs
      BY LenProperties
<1>3. e \in Nat
      BY <1>2, Fields DEF Extent
<1>4. jobs = [i \in 1 .. n |-> E(i)]
      BY <1>2 DEF Planned
<1>5. \A i \in 1 .. n : E(i) \in Jobs
      BY <1>1, <1>2, <1>3 DEF Jobs
<1> HIDE DEF E, e
<1>6. jobs \in Seq(Jobs) /\ Len(jobs) = n /\ \A i \in 1 .. n : jobs[i] = E(i)
      BY <1>2, <1>4, <1>5
<1> HIDE DEF jobs
<1>7. jobs[1] = E(1) /\ (n = 2 => jobs[2] = E(2)) /\ jobs[n] = E(n) /\ jobs # <<>>
      BY <1>2, <1>6
<1>8. Last(jobs) = jobs[n]
      BY <1>6 DEF Last
<1>9. E(n).gen = old.gen + n
      BY DEF E
<1> QED
    BY <1>6, <1>7, <1>8, <1>9 DEF jobs, E, e

LEMMA AppendsOk ==
    ASSUME NEW objs, objs \in Deployments \/ \E obj \in Singles : objs = <<obj>>
    PROVE  objs \in Seq(Objs) /\ Len(objs) \in {1, 2}
<1>1. ASSUME objs \in Deployments
      PROVE  objs \in Seq(Objs) /\ Len(objs) \in {1, 2}
  <2>1. objs \in Objs \X Objs
        BY <1>1, StoreAssumption
  <2>2. PICK x \in Objs, y \in Objs : objs = <<x, y>>
        BY <2>1
  <2>3. objs \in Seq(Objs) /\ Len(objs) = 2
        BY <2>2
  <2> QED
      BY <2>3
<1>2. ASSUME NEW obj \in Singles, objs = <<obj>>
      PROVE  objs \in Seq(Objs) /\ Len(objs) \in {1, 2}
      BY <1>2, StoreAssumption
<1> QED
    BY <1>1, <1>2

LEMMA WBegin ==
    ASSUME WInv, NEW deploy \in BOOLEAN, NEW objs, Begin(deploy, objs),
           IF deploy THEN objs \in Deployments ELSE \E obj \in Singles : objs = <<obj>>
    PROVE  WInv'
<1> DEFINE t == SelectedSlot(ram)
           old == ram[t]
           jobs == Planned(old, objs)
           next == Superblock(old, jobs)
           refusal == IF deploy THEN "rejected" ELSE "failed"
<1>1. pc = "idle" /\ ram' = ram /\ disk' = disk /\ active' = active /\ latched' = latched
      BY DEF Begin, media
<1>2. objs \in Seq(Objs) /\ Len(objs) \in {1, 2}
      BY AppendsOk
<1>3. Sectors' = Sectors /\ (active' => Sectors')
      BY <1>1, Facts DEF Sectors
<1>4. CASE Verdict(ram) # "valid"
  <2>1. Selects(ram) /\ pc' = "idle" /\ op' = NoOp /\ answer' = refusal
        BY <1>4 DEF Begin, Finish
  <2>2. answer' \in {"rejected", "failed"}
        BY <2>1
  <2> HIDE DEF refusal
  <2> QED
      BY <1>1, <1>3, <2>1, <2>2, Facts, SelectsOk, NoOpOk, Settled DEF WInv
<1>5. CASE Verdict(ram) = "valid"
  <2>1. SuperOk(ram, t) /\ t \in Slots /\ t \in Addr
        BY <1>5, Facts, Selectable, Others
  <2> HIDE DEF t
  <2>2. /\ old \in Supers /\ old.head \in DATA0 .. Cap + 1 /\ Chained(ram, old.head)
        /\ old = SuperOf(ram, old.head) /\ old.gen = Cardinality(Heads(ram, old.head)) + 1
        /\ old.gen \in 1 .. Cap + 1
        BY <2>1, Facts, SuperIs
  <2> HIDE DEF old
  <2>3. /\ jobs \in Seq(Jobs) /\ Len(jobs) = Len(objs) /\ jobs # <<>>
        /\ jobs[1] = [obj |-> objs[1], gen |-> old.gen + 1, off |-> old.head]
        /\ Len(objs) = 2 =>
             jobs[2] = [obj |-> objs[2], gen |-> old.gen + 2, off |-> old.head + Extent(objs[1])]
        /\ Last(jobs) = jobs[Len(jobs)]
        /\ jobs[Len(jobs)].gen = old.gen + Len(objs)
        BY <1>2, <2>2, PlannedIs
  <2>4. \/ last' = "length" /\ selected' = [gen |-> old.gen, head |-> old.head]
           /\ pc' = "idle" /\ op' = NoOp /\ answer' = refusal
        \/ /\ Fits(Last(jobs)) /\ Selects(ram) /\ pc' = "header" /\ answer' = "busy"
           /\ op' = [NoOp EXCEPT !.deploy = deploy, !.jobs = jobs, !.super = next, !.slot = OtherSlot(t)]
        BY <1>5 DEF Begin, Finish, old, t
  <2>5. CASE last' = "length" /\ selected' = [gen |-> old.gen, head |-> old.head]
             /\ pc' = "idle" /\ op' = NoOp /\ answer' = refusal
    <3>1. selected'.gen \in 0 .. Cap + 1 /\ selected'.head \in 0 .. Cap + 1
          BY <2>2, <2>5, Addresses
    <3>2. answer' \in {"rejected", "failed"}
          BY <2>5
    <3> QED
        BY <1>1, <1>3, <2>5, <3>1, <3>2, Facts, NoOpOk, Settled
  <2>6. CASE /\ Fits(Last(jobs)) /\ Selects(ram) /\ pc' = "header" /\ answer' = "busy"
             /\ op' = [NoOp EXCEPT !.deploy = deploy, !.jobs = jobs, !.super = next, !.slot = OtherSlot(t)]
    <3> HIDE DEF jobs
    <3> DEFINE j == jobs[Len(jobs)]
    <3>1. j \in Jobs /\ jobs[1] \in Jobs /\ (Len(jobs) = 2 => jobs[2] \in Jobs)
          BY <1>2, <2>3, ElementOfSeq
    <3>2. next \in Supers /\ next.gen = j.gen /\ next.head = j.off + Extent(j.obj)
          BY <1>2, <2>2, <2>3, SuperblockIs
    <3> HIDE DEF next
    <3>3. next.head <= Cap + 1
          BY <2>3, <2>6, <3>2 DEF Fits
    <3>4. j.off + Extent(j.obj) > 0 /\ next.head \in DATA0 .. Cap + 1
          BY <3>1, <3>2, <3>3, JobFields, Addresses
    <3>5. /\ op'.jobs = jobs /\ op'.super = next /\ op'.slot = OtherSlot(t) /\ op'.deploy = deploy
          /\ op'.auto = FALSE
          BY <2>6 DEF NoOp
    <3>6. op' \in Ops /\ OtherSlot(t) \in Slots
      <4>1. op' = [deploy |-> deploy, jobs |-> jobs, super |-> next, slot |-> OtherSlot(t), auto |-> FALSE]
            BY <2>6 DEF NoOp
      <4> QED
          BY <2>1, <2>3, <3>2, <4>1, Others DEF Ops
    <3>7. TypeOK'
      <4>1. /\ last' \in {"valid", "empty", "absent", "corrupt", "unsupported", "fault", "length"}
            /\ selected'.gen \in 0 .. Cap + 1 /\ selected'.head \in 0 .. Cap + 1
            BY <2>6, Facts, SelectsOk DEF WInv
      <4> QED
          BY <1>1, <2>6, <3>4, <3>5, <3>6, <4>1, Facts DEF TypeOK, PcNames
    <3>8. Writing' /\ Busy' /\ ~Closing'
          BY <2>6 DEF Writing, Busy, Closing
    <3>9. Conduct'
          BY <1>3, <2>6, <3>5, <3>8 DEF Conduct
    <3>10. Base' = t /\ Tip' = old.head
      <4>1. op'.jobs[1].off = old.head /\ op'.jobs # <<>>
            BY <2>3, <3>5
      <4> QED
          BY <2>1, <3>5, <4>1, Others DEF Base, Tip
    <3>11. JobsOk'
      <4>1. jobs[1].gen = old.gen + 1 /\ jobs[1].off = old.head /\ jobs[1].obj = objs[1]
            BY <2>3
      <4>2. Len(jobs) = 2 => jobs[2].gen = old.gen + 2 /\ jobs[2].off = old.head + Extent(objs[1])
            BY <2>3
      <4>3. old.gen \in Nat /\ Cardinality(Heads(ram, old.head)) \in Nat
            BY <2>2, HeadsFinite, Addresses
      <4>4. jobs[1].gen = Cardinality(Heads(ram, old.head)) + 2
            BY <2>2, <4>1, <4>3
      <4>5. Len(jobs) = 2 => jobs[2].gen = jobs[1].gen + 1
            BY <4>1, <4>2, <4>3
      <4>6. Len(jobs) \in 0 .. 2 /\ Fits(jobs[Len(jobs)])
            BY <1>2, <2>3, <2>6
      <4> QED
          BY <1>1, <2>3, <3>5, <3>8, <3>10, <4>1, <4>2, <4>4, <4>5, <4>6 DEF JobsOk
    <3>12. ChainBuilt'
      <4>1. old.gen < next.gen
            BY <1>2, <2>2, <2>3, <3>2, Addresses
      <4>2. op'.super = Superblock(SuperOf(ram, old.head), op'.jobs)
            BY <2>2, <3>5 DEF next
      <4> QED
          BY <1>1, <2>1, <2>2, <2>3, <3>5, <3>10, <4>1, <4>2, Addresses DEF ChainBuilt, old
    <3>13. ObjectBuilt'
          BY <2>6 DEF ObjectBuilt
    <3>14. objs \in Appends' /\ Carries(objs)'
      <4>1. objs \in Appends'
            BY <3>5 DEF Appends
      <4>2. Len(objs) - Len(jobs) = 0 /\ Len(objs) \in Nat
            BY <1>2, <2>3
      <4>3. next.gen = old.gen + Len(objs)
            BY <2>3, <3>2
      <4>4. \A i \in 1 .. Len(jobs) : jobs[i].obj = objs[0 + i]
        <5>1. jobs[1].obj = objs[1] /\ (Len(jobs) = 2 => jobs[2].obj = objs[2])
              BY <2>3
        <5>2. Len(jobs) \in {1, 2}
              BY <1>2, <2>3
        <5> DEFINE n == Len(jobs)
        <5>4. n \in {1, 2}
              BY <5>2
        <5> HIDE DEF n
        <5>3. \A i \in 1 .. n : i = 1 \/ (n = 2 /\ i = 2)
              BY <5>4
        <5> QED
            BY <5>1, <5>3 DEF n
      <4>5. Objects(ram, old.head) = Extended(Objects(ram, old.head), objs, 0)
            BY DEF Extended
      <4> QED
          BY <1>1, <3>5, <3>10, <4>1, <4>2, <4>3, <4>4, <4>5 DEF Carries, old
    <3> QED
        BY <2>6, <3>6, <3>7, <3>9, <3>11, <3>12, <3>13, <3>14 DEF WInv, BuildOk, SelectedTrue
  <2> QED
      BY <2>4, <2>5, <2>6
<1> QED
    BY <1>4, <1>5

LEMMA WAbandon ==
    ASSUME WInv, Abandon, ram' \in Image, disk' \in Image \cup {<<>>}, active' \in BOOLEAN,
           latched' \in BOOLEAN, active' => Sectors'
    PROVE  WInv'
<1>1. /\ last' = "fault" /\ selected' = selected /\ pc' = "idle" /\ op' = NoOp
      /\ answer' \in {"failed", "unknown", "rejected"}
      BY DEF Abandon, Finish
<1>2. selected.gen \in 0 .. Cap + 1 /\ selected.head \in 0 .. Cap + 1
      BY DEF WInv, TypeOK
<1> QED
    BY <1>1, <1>2, NoOpOk, Settled

\* An append in progress.
LEMMA BusyFacts ==
    ASSUME WInv, Busy
    PROVE  /\ Base \in Slots /\ Base # op.slot /\ op.slot = OtherSlot(Base) /\ Base \in Addr
           /\ SuperOk(ram, Base) /\ Chained(ram, Tip) /\ Tip \in DATA0 .. Cap + 1
           /\ ram[Base].head \in DATA0 .. Tip /\ Chained(ram, ram[Base].head)
           /\ op.jobs \in Seq(Jobs) /\ op.super \in Supers
           /\ JobsOk /\ ChainBuilt /\ ObjectBuilt /\ answer = "busy"
           /\ Writing => LET j == op.jobs[1]
                         IN  /\ op.jobs # <<>> /\ Len(op.jobs) \in {1, 2} /\ j \in Jobs
                             /\ Head(op.jobs) = j /\ j.off = Tip /\ Tip + Extent(j.obj) <= Cap + 1
                             /\ Len(op.jobs) = 2 => op.jobs[2] \in Jobs
           /\ Closing => op.jobs = <<>> /\ Tip = op.super.head /\ op.super = SuperOf(ram, Tip)
<1>1. /\ op \in Ops /\ op.slot \in Slots /\ ram \in Image
      BY Facts
<1>2. Base \in Slots /\ Base # op.slot /\ op.slot = OtherSlot(Base) /\ Base \in Addr
      BY <1>1, Others DEF Base
<1>3. JobsOk /\ ChainBuilt /\ ObjectBuilt
      BY DEF WInv, BuildOk
<1>4. answer = "busy"
      BY DEF WInv, Conduct
<1>5. op.jobs \in Seq(Jobs) /\ op.super \in Supers
      BY <1>1 DEF Ops
<1>6. SuperOk(ram, Base) /\ Chained(ram, Tip) /\ ram[Base].head <= Tip
      BY <1>3 DEF ChainBuilt
<1>7. Tip \in DATA0 .. Cap + 1
      BY <1>6 DEF Chained
<1>8. ram[Base].head \in DATA0 .. Cap + 1 /\ Chained(ram, ram[Base].head)
      BY <1>1, <1>2, <1>6, SuperIs
<1>9. ram[Base].head \in DATA0 .. Tip
      BY <1>6, <1>7, <1>8, Addresses
<1>10. ASSUME Writing
       PROVE  LET j == op.jobs[1]
              IN  /\ op.jobs # <<>> /\ Len(op.jobs) \in {1, 2} /\ j \in Jobs
                  /\ Head(op.jobs) = j /\ j.off = Tip /\ Tip + Extent(j.obj) <= Cap + 1
                  /\ Len(op.jobs) = 2 => op.jobs[2] \in Jobs
  <2>1. op.jobs # <<>> /\ Len(op.jobs) \in 0 .. 2 /\ Fits(op.jobs[Len(op.jobs)])
        BY <1>3, <1>10 DEF JobsOk
  <2>2. Len(op.jobs) \in {1, 2} /\ op.jobs[1] \in Jobs /\ (Len(op.jobs) = 2 => op.jobs[2] \in Jobs)
        BY <1>5, <2>1
  <2>3. op.jobs[1].off = Tip
        BY <2>1 DEF Tip
  <2>4. Head(op.jobs) = op.jobs[1]
        BY <2>1, <1>5
  <2>5. Len(op.jobs) = 2 => op.jobs[2].off = op.jobs[1].off + Extent(op.jobs[1].obj)
        BY <1>3 DEF JobsOk
  <2>6. CASE Len(op.jobs) = 1
        BY <2>1, <2>2, <2>3, <2>4, <2>6 DEF Fits
  <2>7. CASE Len(op.jobs) = 2
    <3> DEFINE e1 == Extent(op.jobs[1].obj)
               e2 == Extent(op.jobs[2].obj)
               o2 == op.jobs[2].off
    <3>1. e1 \in Nat /\ e2 \in Nat /\ o2 = Tip + e1 /\ o2 + e2 <= Cap + 1
          BY <2>1, <2>2, <2>3, <2>5, <2>7, JobFields DEF Fits
    <3>2. Tip \in Nat /\ Cap \in Nat
          BY <1>7, Addresses
    <3> HIDE DEF e1, e2, o2
    <3>3. Tip + e1 <= Cap + 1
          BY <3>1, <3>2
    <3> QED
        BY <2>1, <2>2, <2>3, <2>4, <3>3 DEF e1
  <2> QED
      BY <2>2, <2>6, <2>7
<1>11. ASSUME Closing
       PROVE  op.jobs = <<>> /\ Tip = op.super.head /\ op.super = SuperOf(ram, Tip)
  <2>1. op.jobs = <<>>
        BY <1>3, <1>11 DEF JobsOk, Writing, Closing, Busy
  <2> QED
      BY <1>3, <2>1 DEF ChainBuilt, Tip
<1> QED
    BY <1>1, <1>2, <1>3, <1>4, <1>5, <1>6, <1>7, <1>8, <1>9, <1>10, <1>11

\* What the append has built stays where nothing is written.
LEMMA Preserved ==
    ASSUME WInv, Busy, NEW img \in Image, img[Base] = ram[Base],
           \A a \in DATA0 .. Tip - 1 : img[a] = ram[a]
    PROVE  /\ SuperOk(img, Base) /\ Chained(img, Tip) /\ SuperOf(img, Tip) = SuperOf(ram, Tip)
           /\ Heads(img, Tip) = Heads(ram, Tip) /\ Objects(img, Tip) = Objects(ram, Tip)
           /\ Objects(img, ram[Base].head) = Objects(ram, ram[Base].head)
<1> DEFINE h == ram[Base].head
<1>1. /\ ram \in Image /\ Tip \in DATA0 .. Cap + 1 /\ h \in DATA0 .. Tip /\ Chained(ram, Tip)
      /\ SuperOk(ram, Base) /\ Base \in Slots /\ Chained(ram, h)
      BY Facts, BusyFacts
<1>2. ram[Base] = SuperOf(ram, h) /\ h \in DATA0 .. Cap + 1
      BY <1>1, SuperIs
<1> HIDE DEF h
<1>3. \A a \in DATA0 .. h - 1 : img[a] = ram[a]
      BY <1>1, <1>2, Addresses
<1>4. /\ Heads(img, Tip) = Heads(ram, Tip) /\ Chained(img, Tip) /\ Objects(img, Tip) = Objects(ram, Tip)
      /\ SuperOf(img, Tip) = SuperOf(ram, Tip)
      BY <1>1, SameChain
<1>5. Chained(img, h) /\ Objects(img, h) = Objects(ram, h) /\ SuperOf(img, h) = SuperOf(ram, h)
      BY <1>1, <1>2, <1>3, SameChain
<1>6. SuperOk(img, Base)
      BY <1>1, <1>2, <1>5, SuperIs
<1> QED
    BY <1>4, <1>5, <1>6 DEF h

\* A step of the append that writes neither.
LEMMA WOnward ==
    ASSUME WInv, Busy, ram' \in Image, ram'[Base] = ram[Base],
           \A a \in DATA0 .. Tip - 1 : ram'[a] = ram[a],
           disk' \in Image \cup {<<>>}, active' = active, latched' \in BOOLEAN, active' => Sectors',
           selected' = selected, last' = last, op' = op, answer' = answer,
           Busy', Writing' <=> Writing, pc' = "verify" => active /\ op.deploy, ObjectBuilt'
    PROVE  WInv'
<1>1. /\ SuperOk(ram', Base) /\ Chained(ram', Tip) /\ SuperOf(ram', Tip) = SuperOf(ram, Tip)
      /\ Heads(ram', Tip) = Heads(ram, Tip) /\ Objects(ram', Tip) = Objects(ram, Tip)
      /\ Objects(ram', ram[Base].head) = Objects(ram, ram[Base].head)
      BY Preserved
<1>2. Base' = Base /\ Tip' = Tip
      BY DEF Base, Tip
<1>3. JobsOk /\ ChainBuilt /\ answer = "busy"
      BY BusyFacts
<1>4. JobsOk'
      BY <1>1, <1>2, <1>3 DEF JobsOk
<1>5. ChainBuilt'
      BY <1>1, <1>2, <1>3 DEF ChainBuilt
<1>6. ASSUME NEW objs \in Appends, Carries(objs)
      PROVE  objs \in Appends' /\ Carries(objs)'
      BY <1>1, <1>2, <1>6 DEF Appends, Carries
<1>7. BuildOk'
  <2>1. PICK objs \in Appends : Carries(objs)
        BY DEF WInv, BuildOk
  <2> QED
      BY <1>4, <1>5, <1>6, <2>1 DEF BuildOk
<1>8. pc' \in {"header", "payload", "commit", "barrier", "super", "super barrier", "verify"}
      BY DEF Busy, Writing, Closing
<1>9. TypeOK'
      BY <1>8, Facts DEF TypeOK, PcNames, WInv
<1>10. Conduct'
      BY <1>3, <1>8 DEF Conduct
<1>11. SelectedTrue' /\ op' \in Ops
      BY <1>8, Facts DEF SelectedTrue
<1> QED
    BY <1>7, <1>9, <1>10, <1>11 DEF WInv

\* A phase of the append.
LEMMA WPhase ==
    ASSUME WInv, NEW at, NEW next, NEW c, NEW c2, Phase(at, c, c2, next),
           \/ at = "header" /\ next = "payload"
           \/ at = "payload" /\ next = "commit"
           \/ at = "commit" /\ next = "barrier"
           \/ at = "super" /\ next = "super barrier",
           active => Fragment(c), Fragment(c2),
           \A a \in DOMAIN c2 : a # Base /\ a \notin DATA0 .. Tip - 1,
           ram' = Over(c2, ram) /\ pc' = next /\ op' = op => ObjectBuilt'
    PROVE  WInv'
<1>1. pc = at /\ active' = active
      BY DEF Phase
<1>2. Busy /\ Base \in Addr /\ Tip \in DATA0 .. Cap + 1
  <2>1. Busy
        BY <1>1 DEF Busy, Writing, Closing
  <2> QED
      BY <2>1, BusyFacts
<1>3. PICK o \in PhaseWrite(c, c2) :
         /\ ram' = o.ram /\ disk' = o.disk /\ latched' = o.latched
         /\ IF o.ok THEN /\ pc' = next /\ selected' = selected /\ last' = last /\ op' = op /\ answer' = answer
            ELSE Abandon
      BY DEF Phase
<1>4. /\ o.ram \in Image /\ o.disk \in Image \cup {<<>>}
      /\ o.ok \in BOOLEAN /\ o.latched \in BOOLEAN
      /\ o.ok => o.ram = Over(c2, ram)
      /\ active => o.disk \in Image
      BY Facts, PhaseOutcome
<1>5. active' => Sectors'
      BY <1>1, <1>3, <1>4, Images1 DEF Sectors
<1>6. CASE ~o.ok
      BY <1>1, <1>3, <1>4, <1>5, <1>6, Facts, WAbandon
<1>7. CASE o.ok
  <2>1. ram' = Over(c2, ram) /\ pc' = next /\ op' = op /\ selected' = selected /\ last' = last /\ answer' = answer
        BY <1>3, <1>4, <1>7
  <2>2. ObjectBuilt'
        BY <2>1
  <2>3. \A a \in Addr : a \notin DOMAIN c2 => ram'[a] = ram[a]
        BY <2>1 DEF Over
  <2>4. DATA0 .. Tip - 1 \subseteq Addr
        BY <1>2, BelowHead
  <2>5. ram'[Base] = ram[Base] /\ \A a \in DATA0 .. Tip - 1 : ram'[a] = ram[a]
        BY <1>2, <2>3, <2>4
  <2>6. Busy' /\ (Writing' <=> Writing) /\ pc' # "verify"
        BY <1>1, <2>1 DEF Busy, Writing, Closing
  <2> QED
      BY <1>1, <1>2, <1>3, <1>4, <1>5, <2>1, <2>2, <2>5, <2>6, WOnward
<1> QED
    BY <1>4, <1>6, <1>7

\* The units of the object that is being written.
LEMMA JobUnits ==
    ASSUME WInv, Writing
    PROVE  LET j == op.jobs[1]
           IN  /\ Busy /\ j \in Jobs /\ Head(op.jobs) = j /\ j.off = Tip /\ Tip \in Units /\ Tip \in Addr
               /\ j.obj \in Objs /\ j.gen \in Nat /\ j.obj.len \in Nat \ {0}
               /\ Tip + Extent(j.obj) \in DATA0 .. Cap + 1 /\ Tip + Extent(j.obj) = Tip + 1 + j.obj.len
               /\ \A i \in 1 .. j.obj.len : Tip + i \in Units /\ Tip + i \in Addr
               /\ \A a \in Units : a # Base
               /\ \A a \in DATA0 .. Tip - 1 : a < Tip
<1> DEFINE j == op.jobs[1]
           e == Extent(j.obj)
           l == j.obj.len
<1>1. /\ Busy /\ j \in Jobs /\ Head(op.jobs) = j /\ j.off = Tip /\ Tip + e <= Cap + 1
      /\ Tip \in DATA0 .. Cap + 1 /\ Base \in Slots
      BY BusyFacts DEF Busy
<1> HIDE DEF j
<1>2. j.obj \in Objs /\ j.gen \in Nat /\ l \in Nat \ {0} /\ e = 1 + l
      BY <1>1, JobFields
<1> HIDE DEF e, l
<1>3. Tip \in Nat /\ Tip >= 1 /\ Cap \in Nat /\ DATA0 = 1
      BY <1>1, Addresses
<1>4. Tip \in Units /\ Tip + e \in DATA0 .. Cap + 1 /\ Tip + e = Tip + 1 + l
      BY <1>1, <1>2, <1>3 DEF Units
<1>5. \A i \in 1 .. l : Tip + i \in Units
      BY <1>1, <1>2, <1>3 DEF Units
<1>6. \A a \in Units : a \in Addr /\ a # Base
      BY <1>1, Addresses DEF Addr
<1>7. \A a \in DATA0 .. Tip - 1 : a < Tip
      BY <1>3
<1> QED
    BY <1>1, <1>2, <1>4, <1>5, <1>6, <1>7 DEF j, e, l

LEMMA WWriteHeader ==
    ASSUME WInv, WriteHeader
    PROVE  WInv'
<1> DEFINE j == op.jobs[1]
           c == [a \in {j.off} |-> Header(j.obj, j.gen, FALSE)]
<1>1. pc = "header" /\ Writing
      BY DEF WriteHeader, Phase, Writing
<1>2. /\ j \in Jobs /\ Head(op.jobs) = j /\ j.off = Tip /\ Tip \in Units /\ Tip \in Addr
      /\ j.obj \in Objs /\ j.gen \in Nat /\ Tip # Base /\ Tip \notin DATA0 .. Tip - 1
      BY <1>1, JobUnits
<1>3. Phase("header", c, c, "payload")
      BY <1>2 DEF WriteHeader
<1>4. Header(j.obj, j.gen, FALSE) \in Headers
      BY <1>2, Written
<1>5. c = [a \in {Tip} |-> Header(j.obj, j.gen, FALSE)] /\ DOMAIN c = {Tip}
      BY <1>2
<1>6. Fragment(c)
      BY <1>2, <1>4, <1>5 DEF Fragment, Content
<1>7. ASSUME ram' = Over(c, ram), pc' = "payload", op' = op
      PROVE  ObjectBuilt'
  <2>1. ram'[Tip] = Header(j.obj, j.gen, FALSE)
        BY <1>2, <1>5, <1>7 DEF Over
  <2>2. (pc' = "barrier") = FALSE
        BY <1>7
  <2>3. ram'[op'.jobs[1].off] = Header(op'.jobs[1].obj, op'.jobs[1].gen, pc' = "barrier")
        BY <1>2, <1>7, <2>1, <2>2
  <2> QED
      BY <1>7, <2>3 DEF ObjectBuilt
<1>8. \A a \in DOMAIN c : a # Base /\ a \notin DATA0 .. Tip - 1
      BY <1>2, <1>5
<1> HIDE DEF c
<1> QED
    BY <1>3, <1>6, <1>7, <1>8, WPhase

LEMMA WWritePayload ==
    ASSUME WInv, WritePayload
    PROVE  WInv'
<1> DEFINE j == op.jobs[1]
           c == [a \in (j.off + 1) .. (j.off + j.obj.len) |-> Payload(j.obj, a - j.off)]
<1>1. pc = "payload" /\ Writing
      BY DEF WritePayload, Phase, Writing
<1>2. /\ j \in Jobs /\ Head(op.jobs) = j /\ j.off = Tip /\ Tip \in Units /\ Tip \in Addr
      /\ j.obj \in Objs /\ j.gen \in Nat /\ j.obj.len \in Nat \ {0} /\ Busy
      /\ \A i \in 1 .. j.obj.len : Tip + i \in Units /\ Tip + i \in Addr
      /\ \A a \in Units : a # Base
      BY <1>1, JobUnits
<1>3. Phase("payload", c, c, "commit")
      BY <1>2 DEF WritePayload
<1>4. Tip \in Nat /\ DATA0 = 1
      BY <1>2, Addresses
<1>5. DOMAIN c = Tip + 1 .. Tip + j.obj.len /\ \A a \in DOMAIN c : c[a] = Payload(j.obj, a - Tip)
      BY <1>2
<1> HIDE DEF c
<1>6. \A a \in DOMAIN c : a - Tip \in 1 .. j.obj.len /\ a - Tip \in Nat /\ Tip + (a - Tip) = a /\ a \notin DATA0 .. Tip - 1
      BY <1>2, <1>4, <1>5
<1>7. \A a \in DOMAIN c : a \in Units /\ a \in Addr /\ a # Base /\ a \notin DATA0 .. Tip - 1
      BY <1>2, <1>6
<1>8. Fragment(c)
  <2>1. \A a \in DOMAIN c : c[a] \in Payloads
        BY <1>2, <1>5, <1>6, Written
  <2> QED
      BY <1>7, <2>1 DEF Fragment, Content
<1>9. ASSUME ram' = Over(c, ram), pc' = "commit", op' = op
      PROVE  ObjectBuilt'
  <2>1. ram[Tip] = Header(j.obj, j.gen, FALSE)
    <3>1. ObjectBuilt
          BY <1>2, BusyFacts
    <3>2. (pc = "barrier") = FALSE
          BY <1>1
    <3> QED
        BY <1>1, <1>2, <3>1, <3>2 DEF ObjectBuilt
  <2>2. Tip \notin DOMAIN c
        BY <1>4, <1>5
  <2>3. ram'[Tip] = Header(j.obj, j.gen, FALSE)
        BY <1>2, <1>9, <2>1, <2>2 DEF Over
  <2>4. \A i \in 1 .. j.obj.len : ram'[Tip + i] = Payload(j.obj, i)
    <3> SUFFICES ASSUME NEW i \in 1 .. j.obj.len
                 PROVE  ram'[Tip + i] = Payload(j.obj, i)
        OBVIOUS
    <3>1. Tip + i \in DOMAIN c /\ (Tip + i) - Tip = i /\ Tip + i \in Addr
          BY <1>2, <1>4, <1>5
    <3>2. c[Tip + i] = Payload(j.obj, i)
          BY <1>5, <3>1
    <3> QED
        BY <1>9, <3>1, <3>2 DEF Over
  <2>5. (pc' = "barrier") = FALSE
        BY <1>9
  <2>6. /\ ram'[op'.jobs[1].off] = Header(op'.jobs[1].obj, op'.jobs[1].gen, pc' = "barrier")
        /\ \A i \in 1 .. op'.jobs[1].obj.len : ram'[op'.jobs[1].off + i] = Payload(op'.jobs[1].obj, i)
        BY <1>2, <1>9, <2>3, <2>4, <2>5
  <2> QED
      BY <1>9, <2>6 DEF ObjectBuilt
<1> QED
    BY <1>3, <1>7, <1>8, <1>9, WPhase

LEMMA WWriteCommit ==
    ASSUME WInv, WriteCommit
    PROVE  WInv'
<1> DEFINE j == op.jobs[1]
           committed(h) == IF h.is = "head" THEN [h EXCEPT !.commit = TRUE] ELSE h
           c(image) == [a \in {Head(op.jobs).off} |-> committed(image[a])]
<1>1. pc = "commit" /\ Writing
      BY DEF WriteCommit, Phase, Writing
<1>2. /\ j \in Jobs /\ Head(op.jobs) = j /\ j.off = Tip /\ Tip \in Units /\ Tip \in Addr
      /\ j.obj \in Objs /\ j.gen \in Nat /\ j.obj.len \in Nat \ {0} /\ Busy
      /\ \A i \in 1 .. j.obj.len : Tip + i \in Units /\ Tip + i \in Addr
      /\ \A a \in Units : a # Base
      BY <1>1, JobUnits
<1>3. Phase("commit", c(disk), c(ram), "barrier")
      BY DEF WriteCommit
<1>4. Tip \in Nat /\ DATA0 = 1
      BY <1>2, Addresses
<1>5. ASSUME NEW image \in Image
      PROVE  Fragment(c(image)) /\ DOMAIN c(image) = {Tip}
  <2>1. image[Tip] \in Content /\ (image[Tip].is = "head" => image[Tip] \in Headers)
        BY <1>2, Images1, Contents
  <2>2. \A h \in Headers : [h EXCEPT !.commit = TRUE] \in Headers
        BY DEF Headers
  <2>3. committed(image[Tip]) \in Content
        BY <2>1, <2>2 DEF Content
  <2>4. c(image) = [a \in {Tip} |-> committed(image[a])]
        BY <1>2
  <2> HIDE DEF c, committed
  <2> QED
      BY <1>2, <2>3, <2>4 DEF Fragment
<1>6. \A a \in DOMAIN c(ram) : a # Base /\ a \notin DATA0 .. Tip - 1
      BY <1>2, <1>4, <1>5, Facts
<1>7. ASSUME ram' = Over(c(ram), ram), pc' = "barrier", op' = op
      PROVE  ObjectBuilt'
  <2>1. ram[Tip] = Header(j.obj, j.gen, FALSE) /\ \A i \in 1 .. j.obj.len : ram[Tip + i] = Payload(j.obj, i)
    <3>1. ObjectBuilt
          BY <1>2, BusyFacts
    <3>2. (pc = "barrier") = FALSE
          BY <1>1
    <3> QED
        BY <1>1, <1>2, <3>1, <3>2 DEF ObjectBuilt
  <2>2. committed(ram[Tip]) = Header(j.obj, j.gen, TRUE)
        BY <2>1, Committed
  <2>3. DOMAIN c(ram) = {Tip} /\ c(ram)[Tip] = committed(ram[Tip])
        BY <1>2
  <2> HIDE DEF c, committed
  <2>4. ram'[Tip] = Header(j.obj, j.gen, TRUE)
        BY <1>2, <1>7, <2>2, <2>3 DEF Over
  <2>5. \A i \in 1 .. j.obj.len : ram'[Tip + i] = Payload(j.obj, i)
    <3> SUFFICES ASSUME NEW i \in 1 .. j.obj.len
                 PROVE  ram'[Tip + i] = Payload(j.obj, i)
        OBVIOUS
    <3>1. Tip + i \notin DOMAIN c(ram) /\ Tip + i \in Addr
          BY <1>2, <1>4, <2>3
    <3> QED
        BY <1>7, <2>1, <3>1 DEF Over
  <2>6. (pc' = "barrier") = TRUE
        BY <1>7
  <2>7. /\ ram'[op'.jobs[1].off] = Header(op'.jobs[1].obj, op'.jobs[1].gen, pc' = "barrier")
        /\ \A i \in 1 .. op'.jobs[1].obj.len : ram'[op'.jobs[1].off + i] = Payload(op'.jobs[1].obj, i)
        BY <1>2, <1>7, <2>4, <2>5, <2>6
  <2> QED
      BY <1>7, <2>7 DEF ObjectBuilt
<1>8. (active => Fragment(c(disk))) /\ Fragment(c(ram))
      BY <1>5, Facts
<1> HIDE DEF c
<1> QED
    BY <1>3, <1>6, <1>7, <1>8, WPhase

LEMMA WWriteSuper ==
    ASSUME WInv, WriteSuper
    PROVE  WInv'
<1> DEFINE c == [a \in {op.slot} |-> op.super]
<1>1. pc = "super" /\ Busy /\ Phase("super", c, c, "super barrier")
      BY DEF WriteSuper, Phase, Busy, Closing
<1>2. /\ op.slot \in Slots /\ op.slot # Base /\ op.super \in Supers /\ Tip \in DATA0 .. Cap + 1
      BY <1>1, Facts, BusyFacts
<1>3. op.slot \in Addr /\ op.slot \notin DATA0 .. Tip - 1
      BY <1>2, BelowHead, Others
<1>4. Fragment(c)
      BY <1>2, <1>3 DEF Fragment, Content
<1>5. ASSUME ram' = Over(c, ram), pc' = "super barrier", op' = op
      PROVE  ObjectBuilt'
      BY <1>3, <1>5 DEF ObjectBuilt, Over
<1>6. \A a \in DOMAIN c : a # Base /\ a \notin DATA0 .. Tip - 1
      BY <1>2, <1>3
<1> HIDE DEF c
<1> QED
    BY <1>1, <1>4, <1>5, <1>6, WPhase

\* The object of a finished job is the next one of the chain.
LEMMA JobDone ==
    ASSUME WInv, pc = "barrier"
    PROVE  LET j == op.jobs[1]
               top == Tip + Extent(j.obj)
           IN  /\ ObjectOk(ram, top, Tip, j.gen) /\ j.gen = Cardinality(Heads(ram, Tip)) + 2
               /\ Chained(ram, top) /\ SuperOf(ram, top) = And(SuperOf(ram, Tip), j)
               /\ Cardinality(Heads(ram, top)) = Cardinality(Heads(ram, Tip)) + 1
               /\ Objects(ram, top) = Append(Objects(ram, Tip), j.obj)
<1> DEFINE j == op.jobs[1]
           top == Tip + Extent(j.obj)
           o == j.obj
           g == j.gen
           n == Cardinality(Heads(ram, Tip))
<1>1. Writing /\ Busy
      BY DEF Writing, Busy
<1>2. /\ j \in Jobs /\ j.off = Tip /\ Tip \in Units /\ Tip \in Addr /\ o \in Objs /\ g \in Nat
      /\ o.len \in Nat \ {0} /\ top \in DATA0 .. Cap + 1 /\ top = Tip + 1 + o.len
      BY <1>1, JobUnits
<1>3. JobsOk /\ ObjectBuilt /\ Chained(ram, Tip) /\ op.jobs # <<>> /\ ram \in Image
      BY <1>1, BusyFacts, Facts
<1>4. ram[Tip] = Header(o, g, TRUE) /\ \A i \in 1 .. o.len : ram[Tip + i] = Payload(o, i)
  <2>1. (pc = "barrier") = TRUE
        OBVIOUS
  <2> QED
      BY <1>2, <1>3, <2>1 DEF ObjectBuilt
<1>5. g = n + 2
      BY <1>3 DEF JobsOk
<1> HIDE DEF j, o, g, n
<1>6. /\ ram[Tip].is = "head" /\ ram[Tip].gen = g /\ ram[Tip].commit = TRUE /\ ram[Tip].len = o.len
      /\ ram[Tip].digest = o.val /\ ram[Tip].kind = o.kind
  <2>1. ram[Tip] = Header(o, g, TRUE)
        BY <1>4
  <2> QED
      BY <2>1 DEF Header
<1>7. ObjectOk(ram, top, Tip, g)
  <2>1. \A i \in 1 .. o.len : ram[Tip + i] = [is |-> "pay", val |-> ram[Tip].digest, at |-> i]
        BY <1>4, <1>6 DEF Payload
  <2>2. Tip + 1 + ram[Tip].len <= top
        BY <1>2, <1>6, Addresses
  <2> QED
      BY <1>6, <2>1, <2>2 DEF ObjectOk
<1>8. ObjectAt(ram, Tip) = o
  <2>1. ObjectAt(ram, Tip) = [kind |-> o.kind, val |-> o.val, len |-> o.len]
        BY <1>6 DEF ObjectAt
  <2> QED
      BY <1>2, <2>1 DEF Objs
<1> HIDE DEF top
<1>9. ObjectOk(ram, top, Tip, Cardinality(Heads(ram, Tip)) + 2) /\ top = Tip + 1 + ram[Tip].len
      BY <1>2, <1>5, <1>6, <1>7 DEF n
<1>10. Chained(ram, top) /\ Objects(ram, top) = Append(Objects(ram, Tip), ObjectAt(ram, Tip))
      BY <1>2, <1>3, <1>9, ExtendChain
<1>11. SuperOf(ram, top)
         = Selecting(SuperOf(ram, Tip), ObjectAt(ram, Tip), Cardinality(Heads(ram, Tip)) + 2, Tip)
      BY <1>2, <1>3, <1>9, ExtendSuper
<1>12. SuperOf(ram, top) = And(SuperOf(ram, Tip), j)
  <2>1. SuperOf(ram, top) = Selecting(SuperOf(ram, Tip), o, g, Tip)
        BY <1>5, <1>8, <1>11 DEF n
  <2>2. SuperOf(ram, top) = Selecting(SuperOf(ram, Tip), j.obj, j.gen, j.off)
        BY <1>2, <2>1 DEF o, g
  <2> QED
      BY <2>2 DEF And
<1>13. Cardinality(Heads(ram, top)) = n + 1
  <2>1. ObjectOk(ram, top, Tip, g) /\ top = Tip + 1 + ram[Tip].len
        BY <1>7, <1>9
  <2> QED
      BY <1>2, <1>3, <2>1, ExtendHeads DEF n
<1> QED
    BY <1>5, <1>7, <1>8, <1>10, <1>12, <1>13 DEF j, o, g, n, top

LEMMA ShortTail ==
    ASSUME NEW S, NEW s \in Seq(S), Len(s) \in {1, 2}
    PROVE  /\ Len(Tail(s)) = Len(s) - 1 /\ (Len(s) > 1 <=> Len(s) = 2)
           /\ Len(s) = 1 => Tail(s) = <<>>
           /\ Len(s) = 2 => Len(Tail(s)) = 1 /\ Tail(s)[1] = s[2] /\ Tail(s) # <<>>
<1> DEFINE n == Len(s)
           t == Tail(s)
<1>1. n \in {1, 2} /\ s # <<>>
      OBVIOUS
<1>2. t \in Seq(S) /\ Len(t) = n - 1 /\ \A i \in 1 .. Len(t) : t[i] = s[i + 1]
      BY <1>1, HeadTailProperties
<1> HIDE DEF n, t
<1>3. n > 1 <=> n = 2
      BY <1>1
<1>4. n = 1 => t = <<>>
  <2>1. t # <<>> => Len(t) \in Nat \ {0}
        BY <1>2, EmptySeq
  <2>2. n = 1 => Len(t) = 0
        BY <1>2
  <2> QED
      BY <2>1, <2>2
<1>5. ASSUME n = 2
      PROVE  Len(t) = 1 /\ t[1] = s[2] /\ t # <<>>
  <2>1. Len(t) = 1
        BY <1>2, <1>5
  <2>2. t[1] = s[1 + 1]
    <3>1. 1 \in 1 .. Len(t)
          BY <2>1
    <3> QED
        BY <1>2, <3>1
  <2>3. t # <<>>
        BY <2>1
  <2>4. 1 + 1 = 2
        OBVIOUS
  <2> QED
      BY <2>1, <2>2, <2>3, <2>4
<1> QED
    BY <1>2, <1>3, <1>4, <1>5 DEF n, t

LEMMA WDataBarrier ==
    ASSUME WInv, DataBarrier
    PROVE  WInv'
<1> DEFINE j == op.jobs[1]
           top == Tip + Extent(j.obj)
<1>1. pc = "barrier" /\ ram' = ram /\ disk' = disk /\ active' = active /\ Writing /\ Busy
      BY DEF DataBarrier, Writing, Busy
<1>2. PICK o \in BarrierOutcomes :
         /\ latched' = o.latched
         /\ \/ /\ op' = [op EXCEPT !.jobs = Tail(@)]
               /\ pc' = IF Len(op.jobs) > 1 THEN "header" ELSE "super"
               /\ selected' = selected /\ last' = last /\ answer' = answer
            \/ Abandon
      BY DEF DataBarrier
<1>3. latched' \in BOOLEAN /\ Sectors' = Sectors
      BY <1>1, <1>2, Facts, BarrierOutcome DEF Sectors
<1>4. CASE Abandon
      BY <1>1, <1>3, <1>4, Facts, WAbandon
<1>5. CASE /\ op' = [op EXCEPT !.jobs = Tail(@)]
           /\ pc' = IF Len(op.jobs) > 1 THEN "header" ELSE "super"
           /\ selected' = selected /\ last' = last /\ answer' = answer
  <2>1. /\ Chained(ram, top) /\ SuperOf(ram, top) = And(SuperOf(ram, Tip), j)
        /\ Cardinality(Heads(ram, top)) = Cardinality(Heads(ram, Tip)) + 1
        /\ Objects(ram, top) = Append(Objects(ram, Tip), j.obj)
        /\ j.gen = Cardinality(Heads(ram, Tip)) + 2
        BY <1>1, JobDone
  <2>2. /\ j \in Jobs /\ j.off = Tip /\ Tip \in Units /\ j.obj \in Objs /\ j.gen \in Nat
        /\ top \in DATA0 .. Cap + 1 /\ top = Tip + 1 + j.obj.len /\ j.obj.len \in Nat \ {0}
        BY <1>1, JobUnits
  <2>3. /\ SuperOk(ram, Base) /\ Tip \in DATA0 .. Cap + 1 /\ ram[Base].head \in DATA0 .. Tip
        /\ op.jobs \in Seq(Jobs) /\ op.super \in Supers /\ JobsOk /\ ChainBuilt /\ answer = "busy"
        /\ op.jobs # <<>> /\ Len(op.jobs) \in {1, 2}
        /\ Len(op.jobs) = 2 => op.jobs[2] \in Jobs
        BY <1>1, BusyFacts
  <2>4. /\ op \in Ops /\ ram \in Image /\ op.super.head \in DATA0 .. Cap + 1 /\ op.slot \in Slots
        BY Facts
  <2>5. /\ op'.jobs = Tail(op.jobs) /\ op'.super = op.super /\ op'.slot = op.slot /\ op'.deploy = op.deploy
        /\ op' \in Ops
    <3>1. Tail(op.jobs) \in Seq(Jobs)
          BY <2>3
    <3> QED
        BY <1>5, <2>4, <3>1 DEF Ops
  <2>6. /\ Len(op.jobs) = 1 => op'.jobs = <<>>
        /\ Len(op.jobs) = 2 => Len(op'.jobs) = 1 /\ op'.jobs[1] = op.jobs[2] /\ op'.jobs # <<>>
        BY <2>3, <2>5, ShortTail
  <2>7. op.super = Superblock(SuperOf(ram, Tip), op.jobs)
        BY <2>3 DEF ChainBuilt
  <2>8. SuperOf(ram, Tip) \in Supers /\ Cardinality(Heads(ram, Tip)) \in Nat
        BY <2>3, <2>4, SuperOfType, HeadsFinite, Addresses
  <2>9. Base' = Base
        BY <2>5 DEF Base
  <2>10. Tip' = top
    <3>1. CASE Len(op.jobs) = 1
      <4>1. op.super = And(SuperOf(ram, Tip), j)
            BY <2>3, <2>7, <2>8, <3>1, SuperblockIs
      <4>2. op.super.head = j.off + Extent(j.obj)
            BY <2>2, <2>8, <4>1, AndOk
      <4> QED
          BY <2>2, <2>5, <2>6, <3>1, <4>2 DEF Tip
    <3>2. CASE Len(op.jobs) = 2
      <4>1. op.jobs[2].off = op.jobs[1].off + Extent(op.jobs[1].obj)
            BY <2>3, <3>2 DEF JobsOk
      <4> QED
          BY <2>2, <2>6, <3>2, <4>1 DEF Tip
    <3> QED
        BY <2>3, <3>1, <3>2
  <2> HIDE DEF top
  <2>11. pc' = IF Len(op.jobs) = 2 THEN "header" ELSE "super"
    <3>1. Len(op.jobs) > 1 <=> Len(op.jobs) = 2
          BY <2>3, ShortTail
    <3> QED
        BY <1>5, <3>1
  <2>12. Busy' /\ (Writing' <=> Len(op.jobs) = 2) /\ (Closing' <=> Len(op.jobs) = 1)
         BY <2>3, <2>11 DEF Busy, Writing, Closing
  <2>13. JobsOk'
    <3>1. CASE Len(op.jobs) = 1
      <4>1. Len(op'.jobs) = 0
            BY <2>6, <3>1
      <4> QED
          BY <2>6, <2>12, <3>1, <4>1 DEF JobsOk
    <3>2. CASE Len(op.jobs) = 2
      <4>1. op.jobs[2].gen = op.jobs[1].gen + 1 /\ Fits(op.jobs[2])
            BY <2>3, <3>2 DEF JobsOk
      <4>2. op.jobs[2].gen = Cardinality(Heads(ram, top)) + 2
            BY <2>1, <2>8, <4>1
      <4> QED
          BY <1>1, <2>6, <2>10, <2>12, <3>2, <4>1, <4>2 DEF JobsOk
    <3> QED
        BY <2>3, <3>1, <3>2
  <2>14. op'.super = IF op'.jobs = <<>> THEN SuperOf(ram, top) ELSE Superblock(SuperOf(ram, top), op'.jobs)
    <3>1. CASE Len(op.jobs) = 1
          BY <2>1, <2>3, <2>5, <2>6, <2>7, <2>8, <3>1, SuperblockIs
    <3>2. CASE Len(op.jobs) = 2
      <4>1. op.super = And(SuperOf(ram, top), op.jobs[2])
            BY <2>1, <2>3, <2>7, <2>8, <3>2, SuperblockIs
      <4>2. Superblock(SuperOf(ram, top), op'.jobs) = And(SuperOf(ram, top), op.jobs[2])
        <5>1. SuperOf(ram, top) \in Supers /\ op'.jobs \in Seq(Jobs) /\ Len(op'.jobs) = 1
              BY <2>2, <2>4, <2>5, <2>6, <3>2, SuperOfType DEF Ops, top
        <5> QED
            BY <2>6, <3>2, <5>1, SuperblockIs
      <4> QED
          BY <2>5, <2>6, <3>2, <4>1, <4>2
    <3> QED
        BY <2>3, <3>1, <3>2
  <2>15. ChainBuilt'
    <3>1. ram[Base].head <= top
      <4>1. ram[Base].head <= Tip /\ Tip <= top /\ Tip \in Int /\ ram[Base].head \in Int /\ top \in Int
            BY <2>2, <2>3, Addresses
      <4> HIDE DEF top
      <4> QED
          BY <4>1
    <3>2. ram[Base].gen < op.super.gen
          BY <2>3 DEF ChainBuilt
    <3> QED
        BY <1>1, <2>1, <2>3, <2>5, <2>9, <2>10, <2>14, <3>1, <3>2 DEF ChainBuilt
  <2>16. ObjectBuilt'
         BY <2>11 DEF ObjectBuilt
  <2>17. \E objs \in Appends' : Carries(objs)'
    <3>1. PICK objs \in Appends : Carries(objs)
          BY <1>1 DEF WInv, BuildOk
    <3>2. Len(objs) \in {1, 2} /\ objs \in Seq(Objs)
          BY <3>1, AppendsOk DEF Appends
    <3> DEFINE k == Len(objs) - Len(op.jobs)
               l == Objects(ram, ram[Base].head)
               x == objs[k + 1]
    <3>3. /\ k \in 0 .. 2 /\ Objects(ram, Tip) = Extended(l, objs, k) /\ op.super.gen = ram[Base].gen + Len(objs)
          /\ \A i \in 1 .. Len(op.jobs) : op.jobs[i].obj = objs[k + i]
          BY <3>1 DEF Carries
    <3>4. k \in {0, 1} /\ (Len(op.jobs) = 2 => k = 0)
      <4> DEFINE n == Len(objs)
                 m == Len(op.jobs)
      <4>1. n \in {1, 2} /\ m \in {1, 2} /\ n - m \in 0 .. 2
            BY <2>3, <3>2, <3>3
      <4> HIDE DEF n, m
      <4>2. n - m \in {0, 1} /\ (m = 2 => n - m = 0)
            BY <4>1
      <4> QED
          BY <4>2 DEF n, m
    <3>5. j.obj = objs[k + 1]
      <4>1. 1 \in 1 .. Len(op.jobs)
            BY <2>3
      <4> QED
          BY <3>3, <4>1
    <3>6. Objects(ram, top) = Extended(l, objs, k + 1)
      <4>1. Objects(ram, top) = Append(Extended(l, objs, k), objs[k + 1])
            BY <2>1, <3>3, <3>5
      <4> HIDE DEF l, k, j
      <4>2. CASE k = 0
        <5>1. Extended(l, objs, 0) = l /\ Extended(l, objs, 1) = Append(l, objs[1]) /\ 0 + 1 = 1
              BY DEF Extended
        <5> QED
            BY <4>1, <4>2, <5>1
      <4>3. CASE k = 1
        <5>1. Extended(l, objs, 1) = Append(l, objs[1]) /\ 1 + 1 = 2
              /\ Extended(l, objs, 2) = Append(Append(l, objs[1]), objs[2])
              BY DEF Extended
        <5> QED
            BY <4>1, <4>3, <5>1
      <4> QED
          BY <3>4, <4>2, <4>3
    <3>7. Len(objs) - Len(op'.jobs) = k + 1 /\ k + 1 \in 0 .. 2
      <4> DEFINE n == Len(objs)
                 m == Len(op.jobs)
      <4>1. Len(op'.jobs) = m - 1 /\ n \in {1, 2} /\ m \in {1, 2} /\ n - m \in {0, 1}
            BY <2>3, <2>5, <3>2, <3>4, ShortTail
      <4> HIDE DEF n, m
      <4>2. n - (m - 1) = (n - m) + 1 /\ (n - m) + 1 \in 0 .. 2
            BY <4>1
      <4>3. Len(objs) = n /\ k = n - m
            BY DEF n, m
      <4> HIDE DEF k
      <4> QED
          BY <4>1, <4>2, <4>3
    <3>8. \A i \in 1 .. Len(op'.jobs) : op'.jobs[i].obj = objs[(k + 1) + i]
      <4>1. CASE Len(op.jobs) = 1
        <5>1. Len(op'.jobs) = 0
              BY <2>6, <4>1
        <5> QED
            BY <5>1
      <4>2. CASE Len(op.jobs) = 2
        <5>1. op.jobs[2].obj = objs[k + 2] /\ k + 2 = (k + 1) + 1
          <6>1. 2 \in 1 .. Len(op.jobs)
                BY <4>2
          <6> HIDE DEF k
          <6>2. op.jobs[2].obj = objs[k + 2] /\ k \in {0, 1}
                BY <3>3, <3>4, <6>1
          <6> QED
              BY <6>2
        <5>2. Len(op'.jobs) = 1 /\ op'.jobs[1] = op.jobs[2]
              BY <2>6, <4>2
        <5>3. op'.jobs[1].obj = objs[(k + 1) + 1]
              BY <5>1, <5>2
        <5> HIDE DEF k
        <5>4. \A i \in 1 .. Len(op'.jobs) : i = 1
              BY <5>2
        <5> QED
            BY <5>3, <5>4
      <4> QED
          BY <2>3, <4>1, <4>2
    <3>9. objs \in Appends'
          BY <2>5, <3>1 DEF Appends
    <3>10. Carries(objs)'
      <4> HIDE DEF k
      <4> QED
          BY <1>1, <2>5, <2>9, <2>10, <3>3, <3>6, <3>7, <3>8 DEF Carries, l
    <3> QED
        BY <3>9, <3>10
  <2>18. BuildOk'
         BY <2>13, <2>15, <2>16, <2>17 DEF BuildOk
  <2>19. TypeOK'
         BY <1>1, <1>3, <1>5, <2>4, <2>5, <2>11 DEF TypeOK, PcNames, WInv
  <2>20. Conduct'
    <3>1. answer' = "busy"
          BY <1>5, <2>3
    <3>2. active => Sectors
          BY Facts
    <3> QED
        BY <1>1, <1>3, <2>11, <2>12, <3>1, <3>2 DEF Conduct
  <2>21. SelectedTrue'
         BY <2>11 DEF SelectedTrue
  <2> QED
      BY <2>5, <2>18, <2>19, <2>20, <2>21 DEF WInv
<1> QED
    BY <1>2, <1>4, <1>5

\* An append whose superblock is in the window is what the window selects.
LEMMA WAccept ==
    ASSUME WInv, Closing, Accept, ram' \in Image, SuperOk(ram', op.slot), ram'[op.slot] = op.super,
           ram'[Base] = ram[Base], disk' = disk, active' = active, latched' \in BOOLEAN
    PROVE  WInv' /\ SelectedSlot(ram') = op.slot
<1>1. /\ selected' = [gen |-> op.super.gen, head |-> op.super.head] /\ last' = "valid"
      /\ pc' = "idle" /\ op' = NoOp /\ answer' \in {"committed", "ok"}
      BY DEF Accept, Finish
<1>2. /\ op.slot \in Slots /\ OtherSlot(op.slot) = Base /\ ram[Base].gen < op.super.gen
      BY BusyFacts, Facts DEF Base, ChainBuilt, Busy
<1>3. SelectedSlot(ram') = op.slot
      BY <1>2, Selectable
<1>4. op.super.gen \in 0 .. Cap + 1 /\ op.super.head \in 0 .. Cap + 1
  <2>1. ram'[op.slot].gen \in 1 .. Cap + 1 /\ ram'[op.slot].head \in DATA0 .. Cap + 1
        BY <1>2, SuperIs
  <2> QED
      BY <2>1, Addresses
<1>5. selected'.gen = op.super.gen /\ selected'.head = op.super.head
      BY <1>1
<1>6. Sectors' = Sectors
      BY DEF Sectors
<1>7. WInv'
      BY <1>1, <1>3, <1>4, <1>5, <1>6, Facts, NoOpOk, Settled
<1> QED
    BY <1>3, <1>7

\* The superblock of the append, where it has been written.
LEMMA SuperWritten ==
    ASSUME WInv, pc = "super barrier" \/ pc = "verify"
    PROVE  Closing /\ Busy /\ ram[op.slot] = op.super /\ SuperOk(ram, op.slot)
<1>1. Closing /\ Busy
      BY DEF Closing, Busy
<1>2. ram[op.slot] = op.super
      BY <1>1, BusyFacts DEF ObjectBuilt
<1>3. Chained(ram, Tip) /\ op.super = SuperOf(ram, Tip) /\ Tip \in DATA0 .. Cap + 1
      BY <1>1, BusyFacts
<1>4. SuperOk(ram, op.slot)
      BY <1>2, <1>3, Facts, SuperIs
<1> QED
    BY <1>1, <1>2, <1>4

LEMMA WSuperBarrier ==
    ASSUME WInv, SuperBarrier
    PROVE  WInv'
<1>1. pc = "super barrier" /\ ram' = ram /\ disk' = disk /\ active' = active
      BY DEF SuperBarrier
<1>2. Closing /\ Busy /\ ram[op.slot] = op.super /\ SuperOk(ram, op.slot)
      BY <1>1, SuperWritten
<1>3. PICK o \in BarrierOutcomes :
         /\ latched' = o.latched
         /\ \/ Abandon
            \/ /\ op.deploy /\ active /\ pc' = "verify"
               /\ selected' = selected /\ last' = last /\ op' = op /\ answer' = answer
            \/ Accept
      BY DEF SuperBarrier
<1>4. latched' \in BOOLEAN /\ Sectors' = Sectors /\ (active' => Sectors')
      BY <1>1, <1>3, Facts, BarrierOutcome DEF Sectors
<1>5. CASE Abandon
      BY <1>1, <1>4, <1>5, Facts, WAbandon
<1>6. CASE /\ op.deploy /\ active /\ pc' = "verify"
           /\ selected' = selected /\ last' = last /\ op' = op /\ answer' = answer
  <2>1. Busy' /\ ~Writing' /\ ~Writing
        BY <1>1, <1>6 DEF Busy, Closing, Writing
  <2>2. ObjectBuilt'
        BY <1>1, <1>2, <1>6 DEF ObjectBuilt
  <2> QED
      BY <1>1, <1>2, <1>4, <1>6, <2>1, <2>2, Facts, WOnward
<1>7. CASE Accept
      BY <1>1, <1>2, <1>4, <1>7, Facts, WAccept
<1> QED
    BY <1>3, <1>5, <1>6, <1>7

LEMMA ReadBackOk ==
    ASSUME WInv, Sectors, NEW S
    PROVE  /\ ReadBack(S) \in Image
           /\ \A a \in Addr : ReadBack(S)[a] = IF a \in S THEN disk[a] ELSE ram[a]
<1>1. ram \in Image /\ disk \in Image /\ DOMAIN disk = Addr
      BY Facts, Images1
<1>2. Fragment(disk)
      BY <1>1, Images1 DEF Fragment
<1> QED
    BY <1>1, <1>2, Overs DEF ReadBack

LEMMA WVerify ==
    ASSUME WInv, Verify
    PROVE  WInv'
<1> DEFINE S == (DATA0 .. (op.super.head - 1)) \cup {op.slot}
<1>1. /\ pc = "verify" /\ ram' = ReadBack(S) /\ disk' = disk /\ active' = active /\ latched' = latched
      BY DEF Verify, media
<1>2. Closing /\ Busy
      BY <1>1, SuperWritten
<1>3. active /\ Sectors
      BY <1>1, Facts DEF WInv, Conduct
<1>4. ram' \in Image /\ ram'[Base] = ram[Base]
  <2>1. Base \in Addr /\ Base \in Slots /\ Base # op.slot /\ op.super.head \in DATA0 .. Cap + 1
        BY <1>2, Facts, BusyFacts
  <2>2. Base \notin S
        BY <2>1, BelowHead
  <2> HIDE DEF S
  <2> QED
      BY <1>1, <1>3, <2>1, <2>2, ReadBackOk
<1>5. CASE SuperOk(ram', op.slot) /\ ram'[op.slot] = op.super
  <2>1. Accept
        BY <1>5 DEF Verify
  <2> QED
      BY <1>1, <1>2, <1>4, <1>5, <2>1, Facts, WAccept
<1>6. CASE ~(SuperOk(ram', op.slot) /\ ram'[op.slot] = op.super)
  <2>1. last' = "corrupt" /\ selected' = selected /\ pc' = "idle" /\ op' = NoOp /\ answer' = "unknown"
        BY <1>6 DEF Verify, Finish
  <2>2. selected.gen \in 0 .. Cap + 1 /\ selected.head \in 0 .. Cap + 1
        BY DEF WInv, TypeOK
  <2>3. Sectors'
        BY <1>1, <1>3 DEF Sectors
  <2> QED
      BY <1>1, <1>4, <2>1, <2>2, <2>3, Facts, NoOpOk, Settled
<1> QED
    BY <1>5, <1>6

LEMMA WVerifyFails ==
    ASSUME WInv, VerifyFails
    PROVE  WInv'
<1>1. pc = "verify" /\ Abandon /\ latched' = TRUE /\ disk' = disk /\ active' = active
      BY DEF VerifyFails
<1>2. active /\ Sectors
      BY <1>1, Facts DEF WInv, Conduct
<1>3. PICK S : ram' = ReadBack(S)
      BY DEF VerifyFails
<1>4. ram' \in Image /\ Sectors'
      BY <1>1, <1>2, <1>3, ReadBackOk DEF Sectors
<1> QED
    BY <1>1, <1>4, Facts, WAbandon

LEMMA WInvStep == WInv /\ [Next]_vars => WInv'
<1> SUFFICES ASSUME WInv, [Next]_vars
             PROVE  WInv'
    OBVIOUS
<1>1. CASE Restart
      BY <1>1, WRestart
<1>2. CASE Boot \/ BootLoadFails \/ BootProbeFails
      BY <1>2, WBoot, WBootLoadFails, WBootProbeFails
<1>3. CASE FormatStart \/ FormatWrite \/ FormatBarrier
      BY <1>3, WFormatStart, WFormatWrite, WFormatBarrier
<1>4. CASE Query
      BY <1>4, WQuery
<1>5. CASE BeginSingle
  <2>1. PICK obj \in Singles : Begin(FALSE, <<obj>>)
        BY <1>5 DEF BeginSingle
  <2>2. \E x \in Singles : <<obj>> = <<x>>
        OBVIOUS
  <2> QED
      BY <2>1, <2>2, WBegin, Zenon
<1>6. CASE BeginDeployment
  <2>1. PICK d \in Deployments : Begin(TRUE, d)
        BY <1>6 DEF BeginDeployment
  <2> QED
      BY <2>1, WBegin, Zenon
<1>7. CASE WriteHeader \/ WritePayload \/ WriteCommit \/ DataBarrier
      BY <1>7, WWriteHeader, WWritePayload, WWriteCommit, WDataBarrier
<1>8. CASE WriteSuper \/ SuperBarrier \/ Verify \/ VerifyFails
      BY <1>8, WWriteSuper, WSuperBarrier, WVerify, WVerifyFails
<1>9. CASE UNCHANGED vars
  <2>1. /\ ram' = ram /\ disk' = disk /\ active' = active /\ latched' = latched /\ selected' = selected
        /\ last' = last /\ pc' = pc /\ op' = op /\ answer' = answer /\ goal' = goal
        BY <1>9 DEF vars
  <2>2. Busy' = Busy /\ Writing' = Writing /\ Base' = Base /\ Tip' = Tip /\ Kept' = Kept /\ Appends' = Appends
        BY <2>1 DEF Busy, Writing, Closing, Base, Tip, Kept, Sectors, Appends
  <2>3. TypeOK' /\ (op \in Ops)' /\ SelectedTrue' /\ Sectors' = Sectors
        BY <2>1 DEF WInv, TypeOK, SelectedTrue, Sectors
  <2>4. Conduct'
        BY <2>1, <2>2, <2>3 DEF WInv, Conduct
  <2>5. JobsOk' = JobsOk /\ ChainBuilt' = ChainBuilt /\ ObjectBuilt' = ObjectBuilt
        BY <2>1, <2>2 DEF JobsOk, ChainBuilt, ObjectBuilt
  <2>6. \A objs : Carries(objs)' = Carries(objs)
        BY <2>1, <2>2 DEF Carries
  <2>7. BuildOk'
        BY <2>2, <2>5, <2>6 DEF WInv, BuildOk
  <2> QED
      BY <2>3, <2>4, <2>7 DEF WInv
<1> QED
    BY <1>1, <1>2, <1>3, <1>4, <1>5, <1>6, <1>7, <1>8, <1>9 DEF Next

\* The window, the medium and the append in progress stay what WInv says.
THEOREM StoreInvariant == Spec => []WInv
<1>1. Init => WInv
      BY WInvInit
<1>2. WInv /\ [Next]_vars => WInv'
      BY WInvStep
<1> QED
    BY <1>1, <1>2, PTL DEF Spec

\* Every variable of the cold store keeps its range, and every superblock that
\* is planned lies inside the data area.
THEOREM TypeCorrect == Spec => []TypeOK
<1>1. WInv => TypeOK
      BY DEF WInv
<1> QED
    BY <1>1, StoreInvariant, PTL

\* Between operations the generation and the head that cold.c reports with a
\* valid result are those of the superblock a reader of the window selects.
THEOREM AlwaysSelectedTrue == Spec => []SelectedTrue
<1>1. WInv => SelectedTrue
      BY DEF WInv
<1> QED
    BY <1>1, StoreInvariant, PTL

-----------------------------------------------------------------------------
(* A medium that cannot be read is not overwritten.                        *)

LEMMA BlankIsEmpty == Verdict(Blank) = "empty"
<1>1. \A slot \in Slots : Blank[slot] = Zero
      BY Others DEF Blank
<1>2. \A slot \in Slots : ~SuperOk(Blank, slot)
      BY <1>1 DEF SuperOk, Zero
<1> QED
    BY <1>2 DEF Verdict

Unreadable == Sectors /\ Verdict(disk) \in {"corrupt", "unsupported"} /\ Found(ram) = {}

LEMMA NotAppending ==
    ASSUME WInv, Found(ram) = {}
    PROVE  ~Busy
<1> SUFFICES ASSUME Busy
             PROVE  FALSE
    OBVIOUS
<1>1. Base \in Slots /\ SuperOk(ram, Base)
      BY BusyFacts
<1>2. Verdict(ram) = "valid"
      BY <1>1, Facts, Selectable
<1> QED
    BY <1>2 DEF Found

LEMMA UnreadableKept ==
    ASSUME WInv, [Next]_vars, Unreadable
    PROVE  disk' = disk \/ (pc = "format" /\ ~op.auto)
<1>1. CASE UNCHANGED vars
      BY <1>1 DEF vars
<1>2. CASE Restart \/ Boot \/ BootLoadFails \/ BootProbeFails
      BY <1>2 DEF Restart, Boot, BootLoadFails, BootProbeFails, Mount
<1>3. CASE FormatStart \/ FormatBarrier \/ Query
      BY <1>3 DEF FormatStart, FormatBarrier, Query, media
<1>4. CASE FormatWrite
  <2>1. pc = "format"
        BY <1>4 DEF FormatWrite
  <2>2. op.auto => Verdict(disk) = "empty"
    <3>1. op.auto => Kept = Blank
          BY <2>1 DEF WInv, Conduct
    <3> QED
        BY <3>1, BlankIsEmpty DEF Unreadable, Kept
  <2> QED
      BY <2>1, <2>2 DEF Unreadable
<1>5. CASE BeginSingle \/ BeginDeployment
      BY <1>5 DEF BeginSingle, BeginDeployment, Begin, media
<1>6. CASE \/ WriteHeader \/ WritePayload \/ WriteCommit \/ DataBarrier
           \/ WriteSuper \/ SuperBarrier \/ Verify \/ VerifyFails
  <2>1. Busy
        BY <1>6 DEF WriteHeader, WritePayload, WriteCommit, DataBarrier, WriteSuper, SuperBarrier,
                    Verify, VerifyFails, Phase, Busy, Writing, Closing
  <2> QED
      BY <2>1, NotAppending DEF Unreadable
<1> QED
    BY <1>1, <1>2, <1>3, <1>4, <1>5, <1>6 DEF Next

\* A medium that is neither blank nor readable, of which the running store has
\* no log either, is only ever written by the operator's own format: not by
\* the automatic format of cold_init, and by no phase of an append.
THEOREM AlwaysFailClosed == Spec => FailClosed
<1>1. WInv /\ [Next]_vars
        => [Sectors /\ Verdict(disk) \in {"corrupt", "unsupported"} /\ Found(ram) = {}
              => disk' = disk \/ (pc = "format" /\ ~op.auto)]_disk
      BY UnreadableKept DEF Unreadable
<1> QED
    BY <1>1, StoreInvariant, PTL DEF Spec, FailClosed

-----------------------------------------------------------------------------
(* The medium follows the window.                                          *)

\* How far this append has written both.
Reach ==
    IF pc = "payload" THEN Tip + 1
    ELSE IF pc \in {"commit", "barrier"} THEN Tip + Extent(op.jobs[1].obj)
    ELSE Tip

\* A superblock on the medium is that of the window, and what the append has
\* written is there or lost.
Follows ==
    active /\ ~latched =>
        /\ \A slot \in Slots : disk[slot].is = "super" => disk[slot] = ram[slot]
        /\ Busy => \A a \in ram[Base].head .. Reach - 1 : disk[a] \in {ram[a], Junk}

\* What an operation that can still be told apart leaves of a barrier.
LEMMA BarrierUnlatched ==
    ASSUME active, NEW o \in BarrierOutcomes, ~o.latched
    PROVE  ~latched
<1>1. latched => o = [ok |-> FALSE, latched |-> TRUE]
      BY DEF BarrierOutcomes
<1> QED
    BY <1>1

\* The medium after a phase whose outcome is known.
LEMMA KnownOutcome ==
    ASSUME disk \in Image, NEW c, NEW o, NEW T, NEW L, Outcome(c, o, T, L), ~o.latched
    PROVE  /\ ~latched
           /\ o.ok => \A a \in Addr :
                 o.disk[a] = IF a \in L THEN Junk ELSE IF a \in DOMAIN c THEN c[a] ELSE disk[a]
<1>1. ~latched /\ o.ok \in BOOLEAN
      BY DEF Outcome
<1>2. \A a \in Addr : o.disk[a] = IF a \in L THEN Junk
                                  ELSE IF a \in DOMAIN c /\ SectorOf(a) \in T THEN c[a]
                                  ELSE disk[a]
      BY DEF Outcome, Left
<1>3. ASSUME o.ok
      PROVE  \A a \in Addr :
                 o.disk[a] = IF a \in L THEN Junk ELSE IF a \in DOMAIN c THEN c[a] ELSE disk[a]
  <2>1. T = Touched(c)
        BY <1>3 DEF Outcome
  <2>2. \A a \in DOMAIN c : SectorOf(a) \in T
        BY <2>1 DEF Touched
  <2> QED
      BY <1>2, <2>2
<1> QED
    BY <1>1, <1>3

\* No failure of the medium leaves the session unlatched.
Patient == Faults \cap {"late", "read"} = {}

LEMMA KnownFailure ==
    ASSUME disk \in Image, NEW c, NEW o, NEW T, NEW L, Outcome(c, o, T, L), ~o.latched, ~o.ok
    PROVE  /\ ~Patient
           /\ \A a \in Addr : o.disk[a] = disk[a] \/ (a \in DOMAIN c /\ o.disk[a] = c[a])
           /\ (\E a \in Slots : DOMAIN c = {a}) => \A a \in Addr : o.disk[a] = disk[a]
<1>1. L = {} /\ ~Patient /\ \E s \in Touched(c) : T = Sooner(c, s)
      BY DEF Outcome, Patient
<1>2. \A a \in Addr : o.disk[a] = IF a \in L THEN Junk
                                  ELSE IF a \in DOMAIN c /\ SectorOf(a) \in T THEN c[a]
                                  ELSE disk[a]
      BY DEF Outcome, Left
<1>3. ASSUME NEW b \in Slots, DOMAIN c = {b}
      PROVE  T = {}
  <2>1. SectorOf(b) = b /\ b \in Int
        BY Addresses DEF SectorOf
  <2>2. Touched(c) = {b}
        BY <1>3, <2>1 DEF Touched
  <2>3. Sooner(c, b) = {}
        BY <2>1, <2>2 DEF Sooner
  <2> QED
      BY <1>1, <2>2, <2>3
<1> QED
    BY <1>1, <1>2, <1>3

LEMMA SlotsApart == \A slot \in Slots : slot \in Addr /\ slot \notin Units
<1>1. \A a \in Units : a >= 1
      BY Addresses
<1>2. -1 \notin Units /\ 0 \notin Units
      BY <1>1
<1> QED
    BY <1>2, Addresses, Others

\* The whole of a phase has been written, but for the units L.
Whole(c, c2, L) ==
    /\ Fragment(c2) /\ DOMAIN c = DOMAIN c2
    /\ DOMAIN c2 \subseteq Units \/ DOMAIN c2 = {op.slot}
    /\ \A a \in DOMAIN c2 : c[a] \in {c2[a], Junk}
    /\ \A a \in ram[Base].head .. Reach' - 1 :
          a \in Addr /\ (a \in DOMAIN c2 \/ a \in ram[Base].head .. Reach - 1)
    /\ \A a \in Addr : disk'[a] = IF a \in L THEN Junk ELSE IF a \in DOMAIN c THEN c[a] ELSE disk[a]
    /\ ram' = Over(c2, ram)

LEMMA FollowsWritten ==
    ASSUME ram \in Image, disk \in Image, NEW c, NEW c2, NEW L, Whole(c, c2, L), Base \in Slots, Base # op.slot,
           \A slot \in Slots : disk[slot].is = "super" => disk[slot] = ram[slot],
           \A a \in ram[Base].head .. Reach - 1 : disk[a] \in {ram[a], Junk},
           Base' = Base
    PROVE  /\ \A slot \in Slots : disk'[slot].is = "super" => disk'[slot] = ram'[slot]
           /\ \A a \in ram'[Base'].head .. Reach' - 1 : disk'[a] \in {ram'[a], Junk}
<1> DEFINE h == ram[Base].head
<1>5. /\ Fragment(c2) /\ DOMAIN c = DOMAIN c2
      /\ DOMAIN c2 \subseteq Units \/ DOMAIN c2 = {op.slot}
      /\ \A a \in DOMAIN c2 : c[a] \in {c2[a], Junk}
      /\ \A a \in ram[Base].head .. Reach' - 1 :
            a \in Addr /\ (a \in DOMAIN c2 \/ a \in ram[Base].head .. Reach - 1)
      /\ \A a \in Addr : disk'[a] = IF a \in L THEN Junk ELSE IF a \in DOMAIN c THEN c[a] ELSE disk[a]
      /\ ram' = Over(c2, ram)
      BY DEF Whole
<1>1. \A a \in Addr : ram'[a] = IF a \in DOMAIN c2 THEN c2[a] ELSE ram[a]
  <2>1. \A a \in Addr : Over(c2, ram)[a] = IF a \in DOMAIN c2 THEN c2[a] ELSE ram[a]
        BY <1>5, Overs
  <2> QED
      BY <1>5, <2>1
<1>2. \A slot \in Slots : slot \in Addr /\ (disk'[slot].is = "super" => disk'[slot] = ram'[slot])
  <2> SUFFICES ASSUME NEW slot \in Slots
               PROVE  slot \in Addr /\ (disk'[slot].is = "super" => disk'[slot] = ram'[slot])
      OBVIOUS
  <2>1. Junk.is # "super"
        BY DEF Junk
  <2>2. slot \in Addr
        BY SlotsApart
  <2>3. /\ ram'[slot] = IF slot \in DOMAIN c2 THEN c2[slot] ELSE ram[slot]
        /\ disk'[slot] = IF slot \in L THEN Junk ELSE IF slot \in DOMAIN c2 THEN c[slot] ELSE disk[slot]
        BY <1>1, <1>5, <2>2
  <2>4. slot \in DOMAIN c2 => c[slot] = c2[slot] \/ c[slot] = Junk
        BY <1>5
  <2> QED
      BY <2>1, <2>2, <2>3, <2>4
<1>3. ram'[Base'] = ram[Base]
  <2>1. Base \notin DOMAIN c2 /\ Base \in Addr
        BY <1>5, SlotsApart
  <2> QED
      BY <1>1, <2>1
<1>4. ASSUME NEW a \in h .. Reach' - 1
      PROVE  disk'[a] \in {ram'[a], Junk}
  <2>1. a \in Addr /\ (a \in DOMAIN c2 \/ a \in h .. Reach - 1)
        BY <1>4, <1>5
  <2>2. /\ ram'[a] = IF a \in DOMAIN c2 THEN c2[a] ELSE ram[a]
        /\ disk'[a] = IF a \in L THEN Junk ELSE IF a \in DOMAIN c2 THEN c[a] ELSE disk[a]
        BY <1>1, <1>5, <2>1
  <2>3. a \in DOMAIN c2 => c[a] = c2[a] \/ c[a] = Junk
        BY <1>5
  <2>4. a \in h .. Reach - 1 => disk[a] = ram[a] \/ disk[a] = Junk
        OBVIOUS
  <2> QED
      BY <2>1, <2>2, <2>3, <2>4
<1> QED
    BY <1>2, <1>3, <1>4

\* A phase has failed with an outcome that is known.
LEMMA FollowsCut ==
    ASSUME NEW c, NEW c2, DOMAIN c = DOMAIN c2, DOMAIN c2 \subseteq Units \/ DOMAIN c2 = {op.slot},
           \A slot \in Slots : disk[slot].is = "super" => disk[slot] = ram[slot],
           \A a \in Addr : disk'[a] = disk[a] \/ a \in DOMAIN c,
           DOMAIN c = {op.slot} => \A a \in Addr : disk'[a] = disk[a],
           ram' = ram
    PROVE  \A slot \in Slots : disk'[slot].is = "super" => disk'[slot] = ram'[slot]
<1>1. \A slot \in Slots : slot \in Addr /\ (slot \in DOMAIN c => DOMAIN c = {op.slot})
      BY SlotsApart
<1> QED
    BY <1>1

\* The phases of an append that write, each with the one after it.
InTurn(at, next) ==
    \/ at = "header" /\ next = "payload"
    \/ at = "payload" /\ next = "commit"
    \/ at = "commit" /\ next = "barrier"
    \/ at = "super" /\ next = "super barrier"

\* What a phase writes to the medium is what it writes to the window, or what
\* was lost there, and it lies in the data area or is the superblock.
Alike(at, c, c2) ==
    /\ DOMAIN c = DOMAIN c2
    /\ IF at = "super" THEN DOMAIN c2 = {op.slot} ELSE DOMAIN c2 \subseteq Units
    /\ active /\ ~latched => \A a \in DOMAIN c2 : c[a] \in {c2[a], Junk}

\* After it the append has reached no further than what has been written.
Covers(next, c2) ==
    pc' = next /\ op' = op =>
        \A a \in ram[Base].head .. Reach' - 1 :
            a \in Addr /\ (a \in DOMAIN c2 \/ a \in ram[Base].head .. Reach - 1)

\* A phase keeps the medium after the window.
LEMMA FollowsPhase ==
    ASSUME WInv, Follows, NEW at, NEW next, NEW c, NEW c2, Phase(at, c, c2, next),
           InTurn(at, next),
           active => Fragment(c), Fragment(c2), Alike(at, c, c2), Covers(next, c2)
    PROVE  Follows'
<1> SUFFICES ASSUME active', ~latched'
             PROVE  /\ \A slot \in Slots : disk'[slot].is = "super" => disk'[slot] = ram'[slot]
                    /\ Busy' => \A a \in ram'[Base'].head .. Reach' - 1 : disk'[a] \in {ram'[a], Junk}
    BY DEF Follows
<1>1. pc = at /\ active
      BY DEF Phase
<1>2. /\ Busy /\ Base \in Slots /\ Base \in Addr /\ Base # op.slot /\ Tip \in DATA0 .. Cap + 1
      /\ ram[Base].head \in DATA0 .. Tip /\ op.slot \in Slots /\ disk \in Image /\ ram \in Image
  <2>1. Busy
        BY <1>1 DEF Busy, Writing, Closing, InTurn
  <2> QED
      BY <1>1, <2>1, BusyFacts, Facts
<1>3. PICK o \in PhaseWrite(c, c2) :
         /\ ram' = o.ram /\ disk' = o.disk /\ latched' = o.latched
         /\ IF o.ok THEN pc' = next /\ op' = op ELSE Abandon
      BY DEF Phase
<1>4. ram' = o.ram /\ disk' = o.disk /\ latched' = o.latched
      BY <1>3
<1>5. o.ok => op' = op /\ \A a \in ram[Base].head .. Reach' - 1 :
                            a \in Addr /\ (a \in DOMAIN c2 \/ a \in ram[Base].head .. Reach - 1)
      BY <1>3 DEF Covers
<1>6. ~o.ok => pc' = "idle"
      BY <1>3 DEF Abandon, Finish
<1>7. /\ o.ok => o.ram = Over(c2, ram)
      /\ ~o.ok => o.ram = ram
      /\ \E T, L : Outcome(c, o, T, L)
      /\ o.ok \in BOOLEAN
      BY <1>1, Facts, PhaseOutcome
<1>8. PICK T, L : Outcome(c, o, T, L)
      BY <1>7
<1>9. ~latched /\ ~o.latched
      BY <1>2, <1>4, <1>8, KnownOutcome
<1>10. /\ \A slot \in Slots : disk[slot].is = "super" => disk[slot] = ram[slot]
       /\ \A a \in ram[Base].head .. Reach - 1 : disk[a] \in {ram[a], Junk}
      BY <1>1, <1>2, <1>9 DEF Follows
<1>11. /\ DOMAIN c = DOMAIN c2
       /\ DOMAIN c2 \subseteq Units \/ DOMAIN c2 = {op.slot}
       /\ \A a \in DOMAIN c2 : c[a] \in {c2[a], Junk}
      BY <1>1, <1>9 DEF Alike
<1>12. CASE o.ok
  <2>1. \A a \in Addr : disk'[a] = IF a \in L THEN Junk ELSE IF a \in DOMAIN c THEN c[a] ELSE disk[a]
    <3>1. \A a \in Addr : o.disk[a] = IF a \in L THEN Junk ELSE IF a \in DOMAIN c THEN c[a] ELSE disk[a]
          BY <1>2, <1>8, <1>9, <1>12, KnownOutcome
    <3> QED
        BY <1>4, <3>1
  <2>2. ram' = Over(c2, ram)
        BY <1>4, <1>7, <1>12
  <2>3. Base' = Base
        BY <1>5, <1>12 DEF Base
  <2>4. \A a \in ram[Base].head .. Reach' - 1 :
           a \in Addr /\ (a \in DOMAIN c2 \/ a \in ram[Base].head .. Reach - 1)
        BY <1>5, <1>12
  <2>6. Whole(c, c2, L)
        BY <1>11, <2>1, <2>2, <2>4 DEF Whole
  <2>5. /\ \A slot \in Slots : disk'[slot].is = "super" => disk'[slot] = ram'[slot]
        /\ \A a \in ram'[Base'].head .. Reach' - 1 : disk'[a] \in {ram'[a], Junk}
        BY <1>2, <1>10, <2>3, <2>6, FollowsWritten
  <2> QED
      BY <2>5
<1>13. CASE ~o.ok
  <2>1. \A a \in Addr : disk'[a] = disk[a] \/ a \in DOMAIN c
    <3>1. \A a \in Addr : o.disk[a] = disk[a] \/ (a \in DOMAIN c /\ o.disk[a] = c[a])
          BY <1>2, <1>8, <1>9, <1>13, KnownFailure
    <3> QED
        BY <1>4, <3>1
  <2>2. DOMAIN c = {op.slot} => \A a \in Addr : disk'[a] = disk[a]
    <3>1. (\E a \in Slots : DOMAIN c = {a}) => \A a \in Addr : o.disk[a] = disk[a]
          BY <1>2, <1>8, <1>9, <1>13, KnownFailure
    <3> QED
        BY <1>2, <1>4, <3>1
  <2>3. ~Busy' /\ ram' = ram
        BY <1>4, <1>6, <1>7, <1>13 DEF Busy, Writing, Closing
  <2> QED
      BY <1>2, <1>10, <1>11, <2>1, <2>2, <2>3, FollowsCut
<1> QED
    BY <1>7, <1>12, <1>13

\* The front of the append when its operation stays the same.
LEMMA ReachAfter ==
    ASSUME op' = op
    PROVE  /\ Tip' = Tip
           /\ pc' = "payload" => Reach' = Tip + 1
           /\ pc' \in {"commit", "barrier"} => Reach' = Tip + Extent(op.jobs[1].obj)
           /\ pc' \notin {"payload", "commit", "barrier"} => Reach' = Tip
BY DEF Reach, Tip

LEMMA ReachNow ==
    /\ pc = "payload" => Reach = Tip + 1
    /\ pc \in {"commit", "barrier"} => Reach = Tip + Extent(op.jobs[1].obj)
    /\ pc \notin {"payload", "commit", "barrier"} => Reach = Tip
BY DEF Reach

LEMMA Behind ==
    ASSUME WInv, Busy, NEW top \in DATA0 .. Cap + 1, NEW a \in ram[Base].head .. top - 1
    PROVE  a \in Addr /\ a \in Units
<1>1. ram[Base].head \in DATA0 .. Tip /\ DATA0 = 1 /\ Cap \in Nat /\ Tip \in DATA0 .. Cap + 1
      BY BusyFacts, Addresses
<1> DEFINE h == ram[Base].head
<1> HIDE DEF h
<1>2. h \in 1 .. Cap + 1 /\ top \in 1 .. Cap + 1 /\ a \in h .. top - 1
      BY <1>1 DEF h
<1>3. a \in 1 .. Cap
      BY <1>1, <1>2
<1> QED
    BY <1>3, Addresses DEF Addr

LEMMA FollowsHeader ==
    ASSUME WInv, Follows, WriteHeader
    PROVE  Follows'
<1> DEFINE j == op.jobs[1]
           c == [a \in {j.off} |-> Header(j.obj, j.gen, FALSE)]
<1>1. pc = "header" /\ Writing
      BY DEF WriteHeader, Phase, Writing
<1>2. /\ j \in Jobs /\ Head(op.jobs) = j /\ j.off = Tip /\ Tip \in Units /\ Tip \in Addr
      /\ j.obj \in Objs /\ j.gen \in Nat /\ Busy
      BY <1>1, JobUnits
<1>3. Phase("header", c, c, "payload")
      BY <1>2 DEF WriteHeader
<1>4. Header(j.obj, j.gen, FALSE) \in Headers
      BY <1>2, Written
<1>5. c = [a \in {Tip} |-> Header(j.obj, j.gen, FALSE)] /\ DOMAIN c = {Tip}
      BY <1>2
<1>6. Fragment(c)
      BY <1>2, <1>4, <1>5 DEF Fragment, Content
<1> HIDE DEF c
<1>7. Alike("header", c, c)
      BY <1>2, <1>5 DEF Alike
<1>8. Covers("payload", c)
  <2> SUFFICES ASSUME pc' = "payload", op' = op, NEW a \in ram[Base].head .. Reach' - 1
               PROVE  a \in Addr /\ (a \in DOMAIN c \/ a \in ram[Base].head .. Reach - 1)
      BY DEF Covers
  <2>1. Reach' = Tip + 1 /\ Reach = Tip
        BY <1>1, ReachAfter, ReachNow
  <2>2. Tip + 1 \in DATA0 .. Cap + 1 /\ Tip \in Int /\ ram[Base].head \in Int
        BY <1>2, BusyFacts, Addresses
  <2>3. a \in Addr
        BY <1>2, <2>1, <2>2, Behind
  <2> DEFINE h == ram[Base].head
  <2> HIDE DEF h
  <2>4. a = Tip \/ a \in h .. Tip - 1
    <3>1. a \in h .. (Tip + 1) - 1 /\ h \in Int
          BY <2>1, <2>2 DEF h
    <3> QED
        BY <2>2, <3>1
  <2> QED
      BY <1>5, <2>1, <2>3, <2>4 DEF h
<1>9. InTurn("header", "payload")
      BY DEF InTurn
<1> QED
    BY <1>3, <1>6, <1>7, <1>8, <1>9, FollowsPhase

LEMMA FollowsPayload ==
    ASSUME WInv, Follows, WritePayload
    PROVE  Follows'
<1> DEFINE j == op.jobs[1]
           c == [a \in (j.off + 1) .. (j.off + j.obj.len) |-> Payload(j.obj, a - j.off)]
<1>1. pc = "payload" /\ Writing
      BY DEF WritePayload, Phase, Writing
<1>2. /\ j \in Jobs /\ Head(op.jobs) = j /\ j.off = Tip /\ Tip \in Units /\ Tip \in Addr
      /\ j.obj \in Objs /\ j.gen \in Nat /\ j.obj.len \in Nat \ {0} /\ Busy
      /\ \A i \in 1 .. j.obj.len : Tip + i \in Units /\ Tip + i \in Addr
      /\ Tip + Extent(j.obj) \in DATA0 .. Cap + 1 /\ Tip + Extent(j.obj) = Tip + 1 + j.obj.len
      BY <1>1, JobUnits
<1>3. Phase("payload", c, c, "commit")
      BY <1>2 DEF WritePayload
<1>4. Tip \in Nat /\ DATA0 = 1
      BY <1>2, Addresses
<1>5. DOMAIN c = Tip + 1 .. Tip + j.obj.len /\ \A a \in DOMAIN c : c[a] = Payload(j.obj, a - Tip)
      BY <1>2
<1> HIDE DEF c
<1>6. \A a \in DOMAIN c : a - Tip \in 1 .. j.obj.len /\ a - Tip \in Nat /\ Tip + (a - Tip) = a
      BY <1>2, <1>4, <1>5
<1>7. \A a \in DOMAIN c : a \in Units /\ a \in Addr
      BY <1>2, <1>6
<1>8. Fragment(c)
  <2>1. \A a \in DOMAIN c : c[a] \in Payloads
        BY <1>2, <1>5, <1>6, Written
  <2> QED
      BY <1>7, <2>1 DEF Fragment, Content
<1>9. Alike("payload", c, c)
      BY <1>7 DEF Alike
<1>10. Covers("commit", c)
  <2> SUFFICES ASSUME pc' = "commit", op' = op, NEW a \in ram[Base].head .. Reach' - 1
               PROVE  a \in Addr /\ (a \in DOMAIN c \/ a \in ram[Base].head .. Reach - 1)
      BY DEF Covers
  <2>1. Reach' = Tip + Extent(j.obj) /\ Reach = Tip + 1
        BY <1>1, ReachAfter, ReachNow
  <2>2. ram[Base].head \in Int
        BY <1>2, BusyFacts, Addresses
  <2>3. a \in Addr
        BY <1>2, <2>1, Behind
  <2> DEFINE h == ram[Base].head
             l == j.obj.len
  <2>4. a \in h .. (Tip + 1 + l) - 1 /\ h \in Int /\ l \in Nat
        BY <1>2, <2>1, <2>2
  <2> HIDE DEF h, l
  <2>5. a \in Tip + 1 .. Tip + l \/ a \in h .. (Tip + 1) - 1
        BY <1>4, <2>4
  <2> QED
      BY <1>5, <2>1, <2>3, <2>5 DEF h, l
<1>11. InTurn("payload", "commit")
      BY DEF InTurn
<1> QED
    BY <1>3, <1>8, <1>9, <1>10, <1>11, FollowsPhase

LEMMA FollowsCommit ==
    ASSUME WInv, Follows, WriteCommit
    PROVE  Follows'
<1> DEFINE j == op.jobs[1]
           committed(h) == IF h.is = "head" THEN [h EXCEPT !.commit = TRUE] ELSE h
           c(image) == [a \in {Head(op.jobs).off} |-> committed(image[a])]
<1>1. pc = "commit" /\ Writing
      BY DEF WriteCommit, Phase, Writing
<1>2. /\ j \in Jobs /\ Head(op.jobs) = j /\ j.off = Tip /\ Tip \in Units /\ Tip \in Addr
      /\ j.obj \in Objs /\ j.obj.len \in Nat \ {0} /\ Busy
      /\ Tip + Extent(j.obj) \in DATA0 .. Cap + 1 /\ Tip + Extent(j.obj) = Tip + 1 + j.obj.len
      BY <1>1, JobUnits
<1>3. Phase("commit", c(disk), c(ram), "barrier")
      BY DEF WriteCommit
<1>4. ASSUME NEW image \in Image
      PROVE  Fragment(c(image)) /\ DOMAIN c(image) = {Tip}
  <2>1. image[Tip] \in Content /\ (image[Tip].is = "head" => image[Tip] \in Headers)
        BY <1>2, Images1, Contents
  <2>2. \A h \in Headers : [h EXCEPT !.commit = TRUE] \in Headers
        BY DEF Headers
  <2>3. committed(image[Tip]) \in Content
        BY <2>1, <2>2 DEF Content
  <2>4. c(image) = [a \in {Tip} |-> committed(image[a])]
        BY <1>2
  <2> HIDE DEF c, committed
  <2> QED
      BY <1>2, <2>3, <2>4 DEF Fragment
<1>5. (active => Fragment(c(disk))) /\ Fragment(c(ram)) /\ DOMAIN c(ram) = {Tip}
      BY <1>4, Facts
<1>6. DOMAIN c(disk) = {Tip} /\ c(disk)[Tip] = committed(disk[Tip]) /\ c(ram)[Tip] = committed(ram[Tip])
      BY <1>2
<1>7. Alike("commit", c(disk), c(ram))
  <2>1. ASSUME active, ~latched
        PROVE  committed(disk[Tip]) \in {committed(ram[Tip]), Junk}
    <3>1. Tip \in ram[Base].head .. Reach - 1
      <4>1. Reach = Tip + Extent(j.obj)
            BY <1>1, ReachNow
      <4>2. ram[Base].head \in DATA0 .. Tip /\ DATA0 = 1 /\ Tip \in Nat
            BY <1>2, BusyFacts, Addresses
      <4> DEFINE h == ram[Base].head
                 l == j.obj.len
      <4>3. h \in 1 .. Tip /\ l \in Nat \ {0} /\ Reach = Tip + 1 + l
            BY <1>2, <4>1, <4>2
      <4> HIDE DEF h, l
      <4>4. Tip \in h .. Reach - 1
            BY <4>2, <4>3
      <4> QED
          BY <4>4 DEF h
    <3>2. disk[Tip] = ram[Tip] \/ disk[Tip] = Junk
          BY <1>2, <2>1, <3>1 DEF Follows
    <3>3. committed(Junk) = Junk
          BY DEF Junk
    <3> HIDE DEF committed
    <3> QED
        BY <3>2, <3>3
  <2> HIDE DEF c, committed
  <2> QED
      BY <1>2, <1>5, <1>6, <2>1 DEF Alike
<1> HIDE DEF c
<1>8. Covers("barrier", c(ram))
  <2> SUFFICES ASSUME pc' = "barrier", op' = op, NEW a \in ram[Base].head .. Reach' - 1
               PROVE  a \in Addr /\ (a \in DOMAIN c(ram) \/ a \in ram[Base].head .. Reach - 1)
      BY DEF Covers
  <2>1. Reach' = Tip + Extent(j.obj) /\ Reach = Tip + Extent(j.obj)
        BY <1>1, ReachAfter, ReachNow
  <2> QED
      BY <1>2, <2>1, Behind
<1>9. InTurn("commit", "barrier")
      BY DEF InTurn
<1> QED
    BY <1>3, <1>5, <1>7, <1>8, <1>9, FollowsPhase

LEMMA FollowsSuper ==
    ASSUME WInv, Follows, WriteSuper
    PROVE  Follows'
<1> DEFINE c == [a \in {op.slot} |-> op.super]
<1>1. pc = "super" /\ Busy /\ Phase("super", c, c, "super barrier")
      BY DEF WriteSuper, Phase, Busy, Closing
<1>2. /\ op.slot \in Slots /\ op.super \in Supers /\ Tip \in DATA0 .. Cap + 1 /\ op.slot \in Addr
      BY <1>1, Facts, BusyFacts, Others
<1>3. Fragment(c) /\ DOMAIN c = {op.slot}
      BY <1>2 DEF Fragment, Content
<1> HIDE DEF c
<1>4. Alike("super", c, c)
      BY <1>3 DEF Alike
<1>5. Covers("super barrier", c)
  <2> SUFFICES ASSUME pc' = "super barrier", op' = op, NEW a \in ram[Base].head .. Reach' - 1
               PROVE  a \in Addr /\ (a \in DOMAIN c \/ a \in ram[Base].head .. Reach - 1)
      BY DEF Covers
  <2>1. Reach' = Tip /\ Reach = Tip
        BY <1>1, ReachAfter, ReachNow
  <2> QED
      BY <1>1, <1>2, <2>1, Behind
<1>6. InTurn("super", "super barrier")
      BY DEF InTurn
<1> QED
    BY <1>1, <1>3, <1>4, <1>5, <1>6, FollowsPhase

\* A job that is done moves the end of what has been appended.
LEMMA JobTaken ==
    ASSUME WInv, pc = "barrier", op' = [op EXCEPT !.jobs = Tail(@)]
    PROVE  /\ op'.super = op.super /\ op'.slot = op.slot /\ op'.deploy = op.deploy
           /\ Base' = Base /\ Tip' = Tip + Extent(op.jobs[1].obj)
           /\ op'.jobs = Tail(op.jobs) /\ Len(op'.jobs) = Len(op.jobs) - 1 /\ Len(op.jobs) \in {1, 2}
           /\ Len(op.jobs) = 1 => op'.jobs = <<>>
           /\ Len(op.jobs) = 2 => op'.jobs # <<>> /\ op'.jobs[1] = op.jobs[2]
<1> DEFINE j == op.jobs[1]
           top == Tip + Extent(j.obj)
<1>1. Writing /\ Busy
      BY DEF Writing, Busy
<1>2. /\ SuperOk(ram, Base) /\ Tip \in DATA0 .. Cap + 1 /\ op.jobs \in Seq(Jobs) /\ JobsOk /\ ChainBuilt
      /\ op.jobs # <<>> /\ Len(op.jobs) \in {1, 2} /\ j \in Jobs /\ j.off = Tip
      BY <1>1, BusyFacts
<1>3. op \in Ops /\ ram \in Image
      BY Facts
<1>4. op'.jobs = Tail(op.jobs) /\ op'.super = op.super /\ op'.slot = op.slot /\ op'.deploy = op.deploy
      BY <1>3 DEF Ops
<1>5. /\ Len(op.jobs) = 1 => op'.jobs = <<>>
      /\ Len(op.jobs) = 2 => Len(op'.jobs) = 1 /\ op'.jobs[1] = op.jobs[2] /\ op'.jobs # <<>>
      /\ Len(op'.jobs) = Len(op.jobs) - 1
      BY <1>2, <1>4, ShortTail
<1>6. op.super = Superblock(SuperOf(ram, Tip), op.jobs)
      BY <1>2 DEF ChainBuilt
<1>7. SuperOf(ram, Tip) \in Supers
      BY <1>2, <1>3, SuperOfType
<1>8. Base' = Base
      BY <1>4 DEF Base
<1>9. Tip' = top
  <2>1. CASE Len(op.jobs) = 1
    <3>1. op.super = And(SuperOf(ram, Tip), j)
          BY <1>2, <1>6, <1>7, <2>1, SuperblockIs
    <3>2. op.super.head = j.off + Extent(j.obj)
          BY <1>2, <1>7, <3>1, AndOk
    <3> QED
        BY <1>2, <1>4, <1>5, <2>1, <3>2 DEF Tip
  <2>2. CASE Len(op.jobs) = 2
    <3>1. op.jobs[2].off = op.jobs[1].off + Extent(op.jobs[1].obj)
          BY <1>2, <2>2 DEF JobsOk
    <3> QED
        BY <1>2, <1>5, <2>2, <3>1 DEF Tip
  <2> QED
      BY <1>2, <2>1, <2>2
<1> QED
    BY <1>2, <1>4, <1>5, <1>8, <1>9

\* What append_obj and cold_store_deployment have decided when they begin.
LEMMA Planning ==
    ASSUME WInv, NEW deploy \in BOOLEAN, NEW objs, Begin(deploy, objs),
           IF deploy THEN objs \in Deployments ELSE \E obj \in Singles : objs = <<obj>>
    PROVE  /\ pc = "idle" /\ ram' = ram /\ disk' = disk /\ active' = active /\ latched' = latched
           /\ \/ pc' = "idle" /\ answer' \in {"rejected", "failed"} /\ goal' = goal
              \/ /\ pc' = "header" /\ answer' = "busy" /\ goal' = {l \o objs : l \in Found(Kept)}
                 /\ Verdict(ram) = "valid"
                 /\ Base' = SelectedSlot(ram) /\ Tip' = ram[SelectedSlot(ram)].head
                 /\ op'.slot = OtherSlot(SelectedSlot(ram)) /\ op'.deploy = deploy
                 /\ Len(op'.jobs) = Len(objs) /\ op'.jobs[1].obj = objs[1]
                 /\ Len(objs) = 2 => op'.jobs[2].obj = objs[2]
<1> DEFINE t == SelectedSlot(ram)
           old == ram[t]
           jobs == Planned(old, objs)
           next == Superblock(old, jobs)
<1>1. pc = "idle" /\ ram' = ram /\ disk' = disk /\ active' = active /\ latched' = latched
      BY DEF Begin, media
<1>2. objs \in Seq(Objs) /\ Len(objs) \in {1, 2}
      BY AppendsOk
<1>3. \/ pc' = "idle" /\ answer' = (IF deploy THEN "rejected" ELSE "failed") /\ goal' = goal
      \/ /\ pc' = "header" /\ answer' = "busy" /\ goal' = {l \o objs : l \in Found(Kept)}
         /\ Verdict(ram) = "valid"
         /\ op' = [NoOp EXCEPT !.deploy = deploy, !.jobs = jobs, !.super = next, !.slot = OtherSlot(t)]
      BY DEF Begin, Finish
<1>4. CASE pc' = "idle" /\ answer' = (IF deploy THEN "rejected" ELSE "failed") /\ goal' = goal
      BY <1>1, <1>4
<1>5. CASE /\ pc' = "header" /\ answer' = "busy" /\ goal' = {l \o objs : l \in Found(Kept)}
           /\ Verdict(ram) = "valid"
           /\ op' = [NoOp EXCEPT !.deploy = deploy, !.jobs = jobs, !.super = next, !.slot = OtherSlot(t)]
  <2>1. SuperOk(ram, t) /\ t \in Slots /\ t \in Addr
        BY <1>5, Facts, Selectable, Others
  <2> HIDE DEF t
  <2>2. old \in Supers
        BY <2>1, Facts, SuperIs
  <2> HIDE DEF old
  <2>3. /\ jobs \in Seq(Jobs) /\ Len(jobs) = Len(objs) /\ jobs # <<>>
        /\ jobs[1] = [obj |-> objs[1], gen |-> old.gen + 1, off |-> old.head]
        /\ Len(objs) = 2 =>
             jobs[2] = [obj |-> objs[2], gen |-> old.gen + 2, off |-> old.head + Extent(objs[1])]
        /\ Last(jobs) = jobs[Len(jobs)]
        /\ jobs[Len(jobs)].gen = old.gen + Len(objs)
        BY <1>2, <2>2, PlannedIs
  <2> HIDE DEF jobs, next
  <2>4. op'.jobs = jobs /\ op'.slot = OtherSlot(t) /\ op'.deploy = deploy
        BY <1>5 DEF NoOp
  <2>5. Base' = t
        BY <2>1, <2>4, Others DEF Base
  <2>6. op'.jobs # <<>> /\ op'.jobs[1] = [obj |-> objs[1], gen |-> old.gen + 1, off |-> old.head]
        BY <2>3, <2>4
  <2>7. op'.jobs[1].off = old.head /\ op'.jobs # <<>>
        BY <2>6
  <2>8. Tip' = old.head
        BY <2>7 DEF Tip
  <2>9. op'.jobs[1].obj = objs[1] /\ (Len(objs) = 2 => op'.jobs[2].obj = objs[2])
        BY <2>3, <2>4
  <2> QED
      BY <1>1, <1>5, <2>3, <2>4, <2>5, <2>8, <2>9 DEF t, old
<1> QED
    BY <1>3, <1>4, <1>5

\* The operator formats only a medium whose writes do not fail half-way
\* without latching the session.
SafeFormat == Reformat => Patient

\* A format that is not automatic is the operator's.
Asked == pc = "format" /\ ~op.auto => Reformat

LEMMA FollowsFormat ==
    ASSUME WInv, Follows, SafeFormat, Asked, FormatWrite
    PROVE  Follows'
<1> DEFINE c == [slot \in Slots |-> IF slot = SLOT0 THEN FirstSuper ELSE Zero]
<1> SUFFICES ASSUME active', ~latched'
             PROVE  /\ \A slot \in Slots : disk'[slot].is = "super" => disk'[slot] = ram'[slot]
                    /\ ~Busy'
    BY DEF Follows
<1>1. pc = "format" /\ ram' = Over(c, ram) /\ active
      BY DEF FormatWrite
<1>2. PICK o \in MediaWrite(c) : disk' = o.disk /\ latched' = o.latched
                                 /\ (pc' = "format barrier" \/ pc' = "idle")
      BY <1>1 DEF FormatWrite, FormatFails
<1>3. ~Busy'
      BY <1>2 DEF Busy, Writing, Closing
<1>4. disk \in Image /\ ram \in Image /\ latched \in BOOLEAN /\ Sectors
      BY <1>1, Facts
<1>5. DOMAIN c = Slots /\ \A slot \in Slots : slot \in Addr /\ c[slot] \in Content /\ c[slot] # Junk
      BY Others, Written DEF Content, FirstSuper, Zero, Junk
<1>6. Fragment(c)
      BY <1>5 DEF Fragment
<1>7. PICK T, L : Outcome(c, o, T, L)
      BY <1>4, <1>6, WriteOutcome
<1>8. \A slot \in Slots : ram'[slot] = c[slot]
  <2>1. \A a \in Addr : Over(c, ram)[a] = IF a \in DOMAIN c THEN c[a] ELSE ram[a]
        BY <1>4, <1>6, Overs
  <2> QED
      BY <1>1, <1>5, <2>1
<1> HIDE DEF c
<1>9. ~o.latched
      BY <1>2
<1>10. CASE o.ok
  <2>1. \A a \in Addr : o.disk[a] = IF a \in L THEN Junk ELSE IF a \in DOMAIN c THEN c[a] ELSE disk[a]
        BY <1>4, <1>7, <1>9, <1>10, KnownOutcome
  <2>2. \A slot \in Slots : disk'[slot] = Junk \/ disk'[slot] = c[slot]
        BY <1>2, <1>5, <2>1
  <2>3. Junk.is # "super"
        BY DEF Junk
  <2> QED
      BY <1>3, <1>8, <2>2, <2>3
<1>11. CASE ~o.ok
  <2>1. /\ ~Patient
        /\ \A a \in Addr : o.disk[a] = disk[a] \/ (a \in DOMAIN c /\ o.disk[a] = c[a])
        BY <1>4, <1>7, <1>9, <1>11, KnownFailure
  <2>2. op.auto
        BY <1>1, <2>1 DEF SafeFormat, Asked
  <2>3. disk = Blank
        BY <1>1, <1>4, <2>2 DEF WInv, Conduct, Kept
  <2>4. \A slot \in Slots : disk'[slot] = Zero \/ disk'[slot] = c[slot]
        BY <1>2, <1>5, <2>1, <2>3 DEF Blank
  <2>5. Zero.is # "super"
        BY DEF Zero
  <2> QED
      BY <1>3, <1>8, <2>4, <2>5
<1>12. o.ok \in BOOLEAN
      BY <1>7 DEF Outcome
<1> QED
    BY <1>10, <1>11, <1>12

\* Steps that leave window and medium alone.
LEMMA FollowsIdle ==
    ASSUME Follows, ram' = ram, disk' = disk, active' = active, active' /\ ~latched' => ~latched,
           Busy' => Base' = Base /\ ((Reach' = Reach /\ Busy) \/ Reach' = ram[Base].head)
                    /\ ram[Base].head \in Int
    PROVE  Follows'
<1> SUFFICES ASSUME active', ~latched'
             PROVE  /\ \A slot \in Slots : disk'[slot].is = "super" => disk'[slot] = ram'[slot]
                    /\ Busy' => \A a \in ram'[Base'].head .. Reach' - 1 : disk'[a] \in {ram'[a], Junk}
    BY DEF Follows
<1>1. /\ \A slot \in Slots : disk[slot].is = "super" => disk[slot] = ram[slot]
      /\ Busy => \A a \in ram[Base].head .. Reach - 1 : disk[a] \in {ram[a], Junk}
      BY DEF Follows
<1>2. ASSUME Busy', Reach' = ram[Base].head
      PROVE  ram[Base].head .. Reach' - 1 = {}
      BY <1>2
<1> QED
    BY <1>1, <1>2

LEMMA ReachThen == pc' \notin {"payload", "commit", "barrier"} => Reach' = Tip'
BY DEF Reach

LEMMA FollowsDataBarrier ==
    ASSUME WInv, Follows, DataBarrier
    PROVE  Follows'
<1>1. pc = "barrier" /\ ram' = ram /\ disk' = disk /\ active' = active /\ Busy
      BY DEF DataBarrier, Busy, Writing
<1>2. PICK o \in BarrierOutcomes :
         /\ latched' = o.latched
         /\ \/ op' = [op EXCEPT !.jobs = Tail(@)] /\ pc' \in {"header", "super"}
            \/ Abandon
      BY DEF DataBarrier
<1>3. active' /\ ~latched' => ~latched
      BY <1>1, <1>2, BarrierUnlatched
<1>4. CASE Abandon
  <2>1. ~Busy'
        BY <1>4 DEF Abandon, Finish, Busy, Writing, Closing
  <2> QED
      BY <1>1, <1>3, <2>1, FollowsIdle
<1>5. CASE op' = [op EXCEPT !.jobs = Tail(@)] /\ pc' \in {"header", "super"}
  <2>1. Base' = Base /\ Tip' = Tip + Extent(op.jobs[1].obj)
        BY <1>1, <1>5, JobTaken
  <2>2. Reach' = Tip'
        BY <1>5, ReachThen
  <2>3. Reach = Tip + Extent(op.jobs[1].obj)
        BY <1>1, ReachNow
  <2>4. ram[Base].head \in Int
        BY <1>1, BusyFacts, Addresses
  <2> QED
      BY <1>1, <1>3, <2>1, <2>2, <2>3, <2>4, FollowsIdle
<1> QED
    BY <1>2, <1>4, <1>5

LEMMA FollowsSuperBarrier ==
    ASSUME WInv, Follows, SuperBarrier
    PROVE  Follows'
<1>1. pc = "super barrier" /\ ram' = ram /\ disk' = disk /\ active' = active /\ Busy
      BY DEF SuperBarrier, Busy, Closing
<1>2. PICK o \in BarrierOutcomes :
         /\ latched' = o.latched
         /\ \/ pc' = "idle"
            \/ pc' = "verify" /\ op' = op
      BY DEF SuperBarrier, Abandon, Accept, Finish
<1>3. active' /\ ~latched' => ~latched
      BY <1>1, <1>2, BarrierUnlatched
<1>4. CASE pc' = "idle"
  <2>1. ~Busy'
        BY <1>4 DEF Busy, Writing, Closing
  <2> QED
      BY <1>1, <1>3, <2>1, FollowsIdle
<1>5. CASE pc' = "verify" /\ op' = op
  <2>1. Base' = Base /\ Tip' = Tip
        BY <1>5 DEF Base, Tip
  <2>2. Reach = Tip
        BY <1>1, ReachNow
  <2>3. Reach' = Tip'
        BY <1>5, ReachThen
  <2>4. Busy
        BY <1>1
  <2>5. ram[Base].head \in DATA0 .. Tip
        BY <2>4, BusyFacts
  <2>6. ram[Base].head \in Int
        BY <2>5
  <2>7. Base' = Base /\ Reach' = Reach
        BY <2>1, <2>2, <2>3
  <2> QED
      BY <1>1, <1>3, <2>6, <2>7, FollowsIdle
<1> QED
    BY <1>2, <1>4, <1>5

LEMMA FollowsBegin ==
    ASSUME WInv, Follows, NEW deploy \in BOOLEAN, NEW objs, Begin(deploy, objs),
           IF deploy THEN objs \in Deployments ELSE \E obj \in Singles : objs = <<obj>>
    PROVE  Follows'
<1>1. /\ ram' = ram /\ disk' = disk /\ active' = active /\ latched' = latched
      /\ \/ pc' = "idle"
         \/ /\ pc' = "header" /\ Verdict(ram) = "valid"
            /\ Base' = SelectedSlot(ram) /\ Tip' = ram[SelectedSlot(ram)].head
  <2>1. /\ pc = "idle" /\ ram' = ram /\ disk' = disk /\ active' = active /\ latched' = latched
        /\ \/ pc' = "idle" /\ answer' \in {"rejected", "failed"} /\ goal' = goal
           \/ /\ pc' = "header" /\ answer' = "busy" /\ goal' = {l \o objs : l \in Found(Kept)}
              /\ Verdict(ram) = "valid"
              /\ Base' = SelectedSlot(ram) /\ Tip' = ram[SelectedSlot(ram)].head
              /\ op'.slot = OtherSlot(SelectedSlot(ram)) /\ op'.deploy = deploy
              /\ Len(op'.jobs) = Len(objs)
        BY Planning, Zenon
  <2> QED
      BY <2>1, Zenon
<1>2. CASE pc' = "idle"
  <2>1. ~Busy'
        BY <1>2 DEF Busy, Writing, Closing
  <2> QED
      BY <1>1, <2>1, FollowsIdle
<1>3. CASE /\ pc' = "header" /\ Verdict(ram) = "valid"
           /\ Base' = SelectedSlot(ram) /\ Tip' = ram[SelectedSlot(ram)].head
  <2>1. Reach' = Tip'
        BY <1>3, ReachThen
  <2>2. SuperOk(ram, SelectedSlot(ram)) /\ SelectedSlot(ram) \in Slots
        BY <1>3, Facts, Selectable, Others
  <2>3. Tip' \in Int
        BY <1>3, <2>2, Facts, SuperIs, Addresses
  <2>4. \A n \in Int : n .. n - 1 = {}
        OBVIOUS
  <2>5. Tip' .. Tip' - 1 = {}
        BY <2>3, <2>4
  <2>6. ram'[Base'].head .. Reach' - 1 = {}
        BY <1>1, <1>3, <2>1, <2>5
  <2>7. active' /\ ~latched' => \A slot \in Slots : disk'[slot].is = "super" => disk'[slot] = ram'[slot]
        BY <1>1 DEF Follows
  <2> QED
      BY <2>6, <2>7 DEF Follows
<1> QED
    BY <1>1, <1>2, <1>3

\* What a verified deployment leaves in the window.
LEMMA VerifyReads ==
    ASSUME WInv, Verify
    PROVE  /\ pc = "verify" /\ Closing /\ Busy /\ active /\ Sectors /\ op.deploy
           /\ ram' \in Image /\ disk \in Image
           /\ disk' = disk /\ active' = active /\ latched' = latched /\ ~latched /\ pc' = "idle"
           /\ \A a \in Addr : ram'[a] = IF a \in DATA0 .. (op.super.head - 1) \/ a = op.slot
                                        THEN disk[a] ELSE ram[a]
<1> DEFINE S == (DATA0 .. (op.super.head - 1)) \cup {op.slot}
<1>1. /\ pc = "verify" /\ ram' = ReadBack(S) /\ disk' = disk /\ active' = active /\ latched' = latched
      /\ ~latched
      BY DEF Verify, media
<1>2. pc' = "idle"
      BY DEF Verify, Accept, Finish
<1>3. Closing /\ Busy
      BY <1>1, SuperWritten
<1>4. active /\ op.deploy /\ Sectors /\ disk \in Image
      BY <1>1, Facts DEF WInv, Conduct
<1>5. ram' \in Image /\ \A a \in Addr : ram'[a] = IF a \in S THEN disk[a] ELSE ram[a]
      BY <1>1, <1>4, ReadBackOk
<1> QED
    BY <1>1, <1>2, <1>3, <1>4, <1>5

LEMMA FollowsVerify ==
    ASSUME WInv, Follows, Verify
    PROVE  Follows'
<1>1. ~Busy'
      BY VerifyReads DEF Busy, Writing, Closing
<1>2. active /\ ~latched /\ disk' = disk
      BY VerifyReads
<1>3. \A slot \in Slots : disk[slot].is = "super" => disk[slot] = ram[slot]
      BY <1>2 DEF Follows
<1>4. \A slot \in Slots : ram'[slot] = disk[slot] \/ ram'[slot] = ram[slot]
      BY VerifyReads, Others
<1> QED
    BY <1>1, <1>2, <1>3, <1>4 DEF Follows

LEMMA FollowsStep == WInv /\ Follows /\ SafeFormat /\ Asked /\ [Next]_vars => Follows'
<1> SUFFICES ASSUME WInv, Follows, SafeFormat, Asked, [Next]_vars
             PROVE  Follows'
    OBVIOUS
<1>1. CASE Restart \/ BootProbeFails
  <2>1. ~active' \/ (active' = active /\ ~active)
    <3>1. BootProbeFails => active' = active /\ ~active
          BY DEF BootProbeFails, WInv, Conduct
    <3> QED
        BY <1>1, <3>1 DEF Restart
  <2> QED
      BY <2>1 DEF Follows
<1>2. CASE BootLoadFails \/ VerifyFails
      BY <1>2 DEF BootLoadFails, VerifyFails, Follows
<1>3. CASE Boot
  <2>1. /\ active' = Sectors /\ ram' = Kept /\ disk' = disk /\ pc' \in {"format", "idle"}
        BY <1>3 DEF Boot, Mount
  <2>2. ~Busy'
        BY <2>1 DEF Busy, Writing, Closing
  <2>3. active' => ram' = disk'
        BY <2>1 DEF Kept
  <2> QED
      BY <2>2, <2>3 DEF Follows
<1>4. CASE FormatStart \/ Query
  <2>1. /\ ram' = ram /\ disk' = disk /\ active' = active /\ latched' = latched /\ pc' \in {"format", "idle"}
        BY <1>4 DEF FormatStart, Query, media
  <2>2. ~Busy'
        BY <2>1 DEF Busy, Writing, Closing
  <2> QED
      BY <2>1, <2>2, FollowsIdle
<1>5. CASE FormatWrite
      BY <1>5, FollowsFormat
<1>6. CASE FormatBarrier
  <2>1. /\ ram' = ram /\ disk' = disk /\ active' = active /\ pc' = "idle"
        /\ \E o \in BarrierOutcomes : latched' = o.latched
        BY <1>6 DEF FormatBarrier, Formatted, FormatFails
  <2>2. ~Busy'
        BY <2>1 DEF Busy, Writing, Closing
  <2>3. active' /\ ~latched' => ~latched
        BY <2>1, BarrierUnlatched
  <2> QED
      BY <2>1, <2>2, <2>3, FollowsIdle
<1>7. CASE BeginSingle
  <2>1. PICK obj \in Singles : Begin(FALSE, <<obj>>)
        BY <1>7 DEF BeginSingle
  <2>2. \E x \in Singles : <<obj>> = <<x>>
        OBVIOUS
  <2> QED
      BY <2>1, <2>2, FollowsBegin, Zenon
<1>8. CASE BeginDeployment
  <2>1. PICK d \in Deployments : Begin(TRUE, d)
        BY <1>8 DEF BeginDeployment
  <2> QED
      BY <2>1, FollowsBegin, Zenon
<1>9. CASE WriteHeader \/ WritePayload \/ WriteCommit \/ WriteSuper
      BY <1>9, FollowsHeader, FollowsPayload, FollowsCommit, FollowsSuper
<1>10. CASE DataBarrier \/ SuperBarrier \/ Verify
      BY <1>10, FollowsDataBarrier, FollowsSuperBarrier, FollowsVerify
<1>11. CASE UNCHANGED vars
  <2>1. /\ ram' = ram /\ disk' = disk /\ active' = active /\ latched' = latched /\ pc' = pc /\ op' = op
        BY <1>11 DEF vars
  <2>2. Busy' = Busy /\ Base' = Base /\ Reach' = Reach
        BY <2>1 DEF Busy, Writing, Closing, Base, Reach, Tip
  <2> QED
      BY <2>1, <2>2 DEF Follows
<1> QED
    BY <1>1, <1>2, <1>3, <1>4, <1>5, <1>6, <1>7, <1>8, <1>9, <1>10, <1>11 DEF Next

LEMMA AskedStep == Asked /\ [Next]_vars => Asked'
<1> SUFFICES ASSUME Asked, [Next]_vars, pc' = "format", ~op'.auto
             PROVE  Reformat
    BY DEF Asked
<1>1. CASE FormatStart
      BY <1>1 DEF FormatStart
<1>2. CASE Boot
      BY <1>2 DEF Boot, Mount, NoOp
<1>3. CASE UNCHANGED vars
      BY <1>3 DEF vars, Asked
<1>4. CASE Query
      BY <1>4 DEF Query, Asked
<1>5. CASE \/ WriteHeader \/ WritePayload \/ WriteCommit \/ DataBarrier
           \/ WriteSuper \/ SuperBarrier \/ Verify \/ VerifyFails
      BY <1>5 DEF WriteHeader, WritePayload, WriteCommit, DataBarrier, WriteSuper, SuperBarrier,
                  Verify, VerifyFails, Phase, Abandon, Accept, Finish
<1>6. CASE BeginSingle \/ BeginDeployment
      BY <1>6 DEF BeginSingle, BeginDeployment, Begin, Finish
<1>7. CASE Restart \/ BootLoadFails \/ BootProbeFails \/ FormatWrite \/ FormatBarrier
      BY <1>7 DEF Restart, BootLoadFails, BootProbeFails, FormatWrite, FormatBarrier, Formatted, FormatFails
<1> QED
    BY <1>1, <1>2, <1>3, <1>4, <1>5, <1>6, <1>7 DEF Next

-----------------------------------------------------------------------------
(* What a verified deployment has on the medium.                           *)

\* The objects of a chain are numbered by the generations of their headers.
LEMMA ObjectIs ==
    ASSUME NEW img \in Image, NEW head, Chained(img, head), NEW a \in Heads(img, head)
    PROVE  /\ img[a] \in Headers /\ img[a].gen \in 2 .. Cardinality(Heads(img, head)) + 1
           /\ Objects(img, head)[img[a].gen - 1] = ObjectAt(img, a)
<1> DEFINE H == Heads(img, head)
           g == img[a].gen
<1>1. head \in DATA0 .. Cap + 1 /\ {img[b].gen : b \in H} = 2 .. Cardinality(H) + 1
      /\ \A b, d \in H : b < d => img[b].gen < img[d].gen
      BY DEF Chained
<1>2. a \in DATA0 .. head - 1 /\ img[a].is = "head"
      BY DEF Heads
<1>3. img[a] \in Headers
      BY <1>1, <1>2, BelowHead, Contents
<1>4. g \in 2 .. Cardinality(H) + 1 /\ Cardinality(H) \in Nat
      BY <1>1, HeadsFinite, Addresses
<1>5. \A b \in H : b \in Int
  <2>1. \A b \in H : b \in DATA0 .. head - 1
        BY DEF Heads
  <2> QED
      BY <2>1
<1>6. \A b \in H : img[b].gen = g => b = a
  <2> SUFFICES ASSUME NEW b \in H, img[b].gen = g, b # a
               PROVE  FALSE
      OBVIOUS
  <2>1. a \in Int /\ b \in Int
        BY <1>5
  <2>2. b < a \/ a < b
        BY <2>1
  <2>3. a \in H
        OBVIOUS
  <2> HIDE DEF H
  <2>4. img[b].gen < g \/ g < img[b].gen
        BY <1>1, <2>2, <2>3
  <2> QED
      BY <1>4, <2>4
<1> HIDE DEF g
<1>7. g - 1 \in 1 .. Cardinality(H) /\ (g - 1) + 1 = g
      BY <1>4
<1>8. (CHOOSE b \in H : img[b].gen = g) = a
      BY <1>6 DEF g
<1>9. Objects(img, head)[g - 1] = ObjectAt(img, CHOOSE b \in H : img[b].gen = (g - 1) + 1)
      BY <1>7 DEF Objects
<1> QED
    BY <1>3, <1>4, <1>7, <1>8, <1>9 DEF g

LEMMA ObjectsAre ==
    ASSUME NEW img \in Image, NEW head, Chained(img, head)
    PROVE  /\ Objects(img, head) \in Seq(Objs)
           /\ Len(Objects(img, head)) = Cardinality(Heads(img, head))
           /\ Cardinality(Heads(img, head)) \in Nat
<1> DEFINE n == Cardinality(Heads(img, head))
<1>1. n \in Nat
      BY HeadsFinite, Addresses DEF Chained
<1>2. \A a \in Heads(img, head) : ObjectAt(img, a) \in Objs
  <2>1. \A a \in Heads(img, head) : img[a] \in Headers
        BY ObjectIs
  <2> QED
      BY <2>1, Fields DEF ObjectAt, Objs
<1>3. \A i \in 1 .. n : (CHOOSE a \in Heads(img, head) : img[a].gen = i + 1) \in Heads(img, head)
      BY HeaderOf
<1>4. Objects(img, head) = [i \in 1 .. n |->
        ObjectAt(img, CHOOSE a \in Heads(img, head) : img[a].gen = i + 1)]
      BY DEF Objects
<1> HIDE DEF n
<1>5. Objects(img, head) \in [1 .. n -> Objs]
      BY <1>2, <1>3, <1>4
<1> QED
    BY <1>1, <1>5 DEF n

LEMMA NothingLost ==
    ASSUME NEW img \in Image, NEW head, Chained(img, head), NEW u \in DATA0 .. head - 1
    PROVE  img[u] # Junk
<1>1. PICK a \in Heads(img, head) : u \in Body(img, a)
      BY DEF Chained
<1>2. ObjectOk(img, head, a, img[a].gen)
      BY DEF Chained
<1>3. a \in DATA0 .. head - 1 /\ img[a].is = "head" /\ img[a].len \in Nat
      BY ObjectIs, Fields DEF Heads
<1>4. Junk.is = "junk"
      BY DEF Junk
<1>5. CASE u = a
      BY <1>3, <1>4, <1>5
<1>6. CASE u # a
  <2> DEFINE l == img[a].len
  <2>1. u \in a .. a + l
        BY <1>1 DEF Body
  <2>2. a \in Int /\ l \in Nat
        BY <1>3
  <2> HIDE DEF l
  <2>3. u - a \in 1 .. l /\ a + (u - a) = u
        BY <1>6, <2>1, <2>2
  <2>4. img[a + (u - a)] = [is |-> "pay", val |-> img[a].digest, at |-> u - a]
        BY <1>2, <2>3 DEF ObjectOk, l
  <2>5. img[u].is = "pay"
        BY <2>3, <2>4
  <2> QED
      BY <1>4, <2>5
<1> QED
    BY <1>5, <1>6

\* A header whose generation is beyond a shorter chain lies behind it.
LEMMA LaterHeader ==
    ASSUME NEW img \in Image, NEW h1, NEW h2, Chained(img, h1), Chained(img, h2),
           NEW a \in Heads(img, h2), img[a].gen > Cardinality(Heads(img, h1)) + 1
    PROVE  a \in h1 .. h2 - 1
<1>1. a \in DATA0 .. h2 - 1 /\ img[a].is = "head" /\ h1 \in Int /\ h2 \in Int
      BY Addresses DEF Heads, Chained
<1>2. a \notin Heads(img, h1)
  <2> SUFFICES ASSUME a \in Heads(img, h1)
               PROVE  FALSE
      OBVIOUS
  <2>1. img[a].gen \in 2 .. Cardinality(Heads(img, h1)) + 1 /\ Cardinality(Heads(img, h1)) \in Nat
        BY ObjectIs, ObjectsAre
  <2> QED
      BY <2>1
<1>3. a \notin DATA0 .. h1 - 1
      BY <1>1, <1>2 DEF Heads
<1> QED
    BY <1>1, <1>3

LEMMA EndsWith ==
    ASSUME NEW S, NEW l \in Seq(S), NEW pair \in Seq(S), Len(pair) = 2, NEW n \in Nat, Len(l) = n, n >= 2,
           l[n - 1] = pair[1], l[n] = pair[2]
    PROVE  IsSuffix(pair, l)
<1>1. Reverse(pair) = [i \in 1 .. 2 |-> pair[(2 - i) + 1]] /\ Reverse(l) = [i \in 1 .. n |-> l[(n - i) + 1]]
      BY Zenon DEF Reverse
<1>2. /\ Reverse(pair) \in Seq(S) /\ Len(Reverse(pair)) = 2
      /\ Reverse(l) \in Seq(S) /\ Len(Reverse(l)) = n
  <2>1. \A i \in 1 .. 2 : (2 - i) + 1 \in 1 .. 2
        OBVIOUS
  <2>2. \A i \in 1 .. n : (n - i) + 1 \in 1 .. n
        OBVIOUS
  <2>3. \A i \in 1 .. 2 : pair[(2 - i) + 1] \in S
        BY <2>1, ElementOfSeq
  <2>4. \A i \in 1 .. n : l[(n - i) + 1] \in S
        BY <2>2, ElementOfSeq
  <2>5. Reverse(pair) \in [1 .. 2 -> S] /\ Reverse(l) \in [1 .. n -> S]
        BY <1>1, <2>3, <2>4
  <2>6. \A m \in Nat : \A f \in [1 .. m -> S] : f \in Seq(S) /\ Len(f) = m
        OBVIOUS
  <2> QED
      BY <2>5, <2>6
<1>3. \A i \in 1 .. 2 : Reverse(pair)[i] = Reverse(l)[i]
  <2>1. Reverse(pair)[1] = pair[2] /\ Reverse(pair)[2] = pair[1]
        BY <1>1
  <2>2. Reverse(l)[1] = l[n] /\ Reverse(l)[2] = l[n - 1]
    <3>1. (n - 1) + 1 = n /\ (n - 2) + 1 = n - 1 /\ 1 \in 1 .. n /\ 2 \in 1 .. n
          OBVIOUS
    <3> QED
        BY <1>1, <3>1
  <2>3. \A i \in 1 .. 2 : i = 1 \/ i = 2
        OBVIOUS
  <2> QED
      BY <2>1, <2>2, <2>3
<1>4. SubSeq(Reverse(pair), 1, 2) = SubSeq(Reverse(l), 1, 2)
  <2> DEFINE r == Reverse(pair)
             q == Reverse(l)
  <2> HIDE DEF r, q
  <2>1. /\ SubSeq(r, 1, 2) = [i \in 1 .. 2 |-> r[i]]
        /\ SubSeq(q, 1, 2) = [i \in 1 .. 2 |-> q[i]]
        OBVIOUS
  <2>2. \A i \in 1 .. 2 : r[i] = q[i]
        BY <1>3 DEF r, q
  <2>3. [i \in 1 .. 2 |-> r[i]] = [i \in 1 .. 2 |-> q[i]]
        BY <2>2
  <2> QED
      BY <2>1, <2>3 DEF r, q
<1> QED
    BY <1>2, <1>4 DEF IsSuffix, IsPrefix

\* What a restart finds after a deployment that has been verified.
LEMMA VerifiedRemounts ==
    ASSUME WInv, Follows, Verify, answer' = "committed"
    PROVE  CommittedRemounts'
<1> DEFINE head == op.super.head
           slot == op.slot
<1>1. /\ Closing /\ Busy /\ active /\ op.deploy /\ ~latched /\ pc = "verify"
      /\ ram' \in Image /\ disk \in Image /\ disk' = disk
      /\ \A a \in Addr : ram'[a] = IF a \in DATA0 .. (head - 1) \/ a = slot THEN disk[a] ELSE ram[a]
      BY VerifyReads
<1>2. SuperOk(ram', slot) /\ ram'[slot] = op.super
      BY DEF Verify, Finish
<1>3. /\ Base \in Slots /\ Base \in Addr /\ Base # slot /\ slot \in Slots /\ slot \in Addr
      /\ OtherSlot(slot) = Base /\ SuperOk(ram, Base) /\ ram \in Image
      /\ head = Tip /\ head \in DATA0 .. Cap + 1 /\ op.jobs = <<>>
      /\ ram[Base].head \in DATA0 .. head /\ Chained(ram, ram[Base].head) /\ Chained(ram, head)
      /\ op.super = SuperOf(ram, head) /\ ram[Base].gen < op.super.gen
      BY <1>1, BusyFacts, Facts, Others DEF Base, ChainBuilt
<1>4. /\ Chained(ram', head) /\ op.super = SuperOf(ram', head)
      BY <1>1, <1>2, <1>3, SuperIs
<1>5. \A a \in DATA0 .. head - 1 : disk[a] = ram'[a]
      BY <1>1, <1>3, BelowHead
<1>6. disk[slot] = ram'[slot]
      BY <1>1, <1>3
<1>7. /\ Chained(disk, head) /\ Objects(disk, head) = Objects(ram', head) /\ SuperOf(disk, head) = op.super
      BY <1>1, <1>3, <1>4, <1>5, SameChain
<1>8. SuperOk(disk, slot) /\ disk[slot] = op.super
      BY <1>1, <1>2, <1>3, <1>6, <1>7, SuperIs
<1>9. SelectedSlot(ram') = slot
  <2>1. ram'[Base] = ram[Base]
    <3>1. Base \notin DATA0 .. head - 1
          BY <1>3, BelowHead
    <3> QED
        BY <1>1, <1>3, <3>1
  <2> QED
      BY <1>1, <1>2, <1>3, <2>1, Selectable
<1>10. SelectedSlot(disk) = slot
  <2>1. SuperOk(disk, Base) => disk[Base] = ram[Base]
    <3>1. SuperOk(disk, Base) => disk[Base].is = "super"
          BY DEF SuperOk
    <3> QED
        BY <1>1, <1>3, <3>1 DEF Follows
  <2> QED
      BY <1>1, <1>3, <1>8, <2>1, Selectable
<1> HIDE DEF head, slot
<1>11. Found(ram') = {Objects(ram', head)} /\ Found(disk) = {Objects(ram', head)}
  <2>1. Verdict(ram') = "valid" /\ Verdict(disk) = "valid"
        BY <1>1, <1>2, <1>3, <1>8, Selectable
  <2>2. ram'[slot].head = head /\ disk[slot].head = head
        BY <1>2, <1>8 DEF head
  <2> QED
      BY <1>7, <1>9, <1>10, <2>1, <2>2 DEF Found
<1> DEFINE n == Cardinality(Heads(ram, head))
           b == Cardinality(Heads(ram, ram[Base].head))
           before == Objects(ram, ram[Base].head)
<1>12. Cardinality(Heads(ram', head)) = n /\ n \in Nat /\ b \in Nat
  <2>1. SuperOf(ram', head) = SuperOf(ram, head)
        BY <1>3, <1>4
  <2>2. /\ SuperOf(ram', head).gen = Cardinality(Heads(ram', head)) + 1
        /\ SuperOf(ram, head).gen = Cardinality(Heads(ram, head)) + 1
        BY <1>1, <1>3, SuperOfType
  <2>3. Cardinality(Heads(ram', head)) \in Nat /\ Cardinality(Heads(ram, head)) \in Nat /\ b \in Nat
        BY <1>1, <1>3, <1>4, ObjectsAre
  <2> QED
      BY <2>1, <2>2, <2>3
<1>13. PICK objs \in Appends : Carries(objs)
       BY <1>1 DEF WInv, BuildOk
<1>14. /\ objs \in Deployments /\ objs \in Seq(Objs) /\ Len(objs) = 2
       /\ objs[1] \in Objs /\ objs[2] \in Objs
  <2>1. objs \in Deployments
        BY <1>1, <1>13 DEF Appends
  <2>2. objs \in Objs \X Objs
        BY <2>1, StoreAssumption
  <2>3. objs \in Seq(Objs) /\ Len(objs) \in {1, 2}
        BY <2>1, AppendsOk
  <2>4. PICK o1 \in Objs, o2 \in Objs : objs = <<o1, o2>>
        BY <2>2
  <2>5. Len(objs) = 2 /\ objs[1] = o1 /\ objs[2] = o2
        BY <2>4
  <2> QED
      BY <2>1, <2>3, <2>5
<1>15. /\ Objects(ram, head) = Append(Append(before, objs[1]), objs[2])
       /\ op.super.gen = ram[Base].gen + 2
  <2>1. Len(objs) - Len(op.jobs) = 2
        BY <1>3, <1>14
  <2>2. Objects(ram, Tip) = Extended(before, objs, Len(objs) - Len(op.jobs))
        /\ op.super.gen = ram[Base].gen + Len(objs)
        BY <1>13 DEF Carries
  <2>3. Extended(before, objs, 2) = Append(Append(before, objs[1]), objs[2])
        BY DEF Extended
  <2> QED
      BY <1>3, <1>14, <2>1, <2>2, <2>3
<1>16. n = b + 2 /\ before \in Seq(Objs) /\ Len(before) = b
  <2>1. before \in Seq(Objs) /\ Len(before) = b
        BY <1>3, ObjectsAre
  <2>2. Len(Objects(ram, head)) = n
        BY <1>3, ObjectsAre
  <2>3. objs[1] \in Objs /\ objs[2] \in Objs
        BY <1>14
  <2> HIDE DEF n, b, before
  <2>4. Len(Append(Append(before, objs[1]), objs[2])) = b + 2
        BY <1>12, <2>1, <2>3
  <2> QED
      BY <1>15, <2>1, <2>2, <2>4
<1>17. ASSUME NEW i \in {n - 1, n}
       PROVE  Objects(ram', head)[i] = Objects(ram, head)[i]
  <2>1. i \in 1 .. n /\ i > b
    <3> HIDE DEF n, b
    <3> QED
        BY <1>12, <1>16
  <2>2. PICK a \in Heads(ram, head) : ram[a].gen = i + 1
        BY <1>3, <2>1, HeaderOf
  <2>3. a \in ram[Base].head .. head - 1
    <3>1. ram[a].gen > b + 1
      <4> HIDE DEF n, b
      <4> QED
          BY <1>12, <2>1, <2>2
    <3> QED
        BY <1>3, <3>1, LaterHeader
  <2>4. a \in DATA0 .. head - 1
        BY DEF Heads
  <2>5. ram'[a] = ram[a]
    <3>1. disk[a] = ram[a] \/ disk[a] = Junk
      <4>1. Reach = head
            BY <1>1, <1>3, ReachNow
      <4>2. \A u \in ram[Base].head .. Reach - 1 : disk[u] \in {ram[u], Junk}
            BY <1>1 DEF Follows
      <4> QED
          BY <2>3, <4>1, <4>2
    <3>2. ram'[a] # Junk
          BY <1>1, <1>4, <2>4, NothingLost
    <3> QED
        BY <1>5, <2>4, <3>1, <3>2
  <2>6. a \in Heads(ram', head)
        BY <2>4, <2>5, <2>2 DEF Heads
  <2>7. /\ Objects(ram, head)[ram[a].gen - 1] = ObjectAt(ram, a)
        /\ Objects(ram', head)[ram'[a].gen - 1] = ObjectAt(ram', a)
        BY <1>1, <1>3, <1>4, <2>2, <2>6, ObjectIs
  <2>8. ObjectAt(ram', a) = ObjectAt(ram, a)
        BY <2>5 DEF ObjectAt
  <2>9. (i + 1) - 1 = i
        BY <1>12, <2>1
  <2> QED
      BY <2>2, <2>5, <2>7, <2>8, <2>9
<1>18. IsSuffix(objs, Objects(ram', head))
  <2> DEFINE l == Objects(ram', head)
  <2>1. l \in Seq(Objs) /\ Len(l) = n
        BY <1>1, <1>4, <1>12, ObjectsAre
  <2>2. l[n - 1] = Objects(ram, head)[n - 1] /\ l[n] = Objects(ram, head)[n]
        BY <1>17
  <2>3. objs[1] \in Objs /\ objs[2] \in Objs
        BY <1>14
  <2> HIDE DEF l, n, b, before
  <2>4. n - 1 = b + 1 /\ n = b + 2 /\ n >= 2
        BY <1>12, <1>16
  <2>5. /\ Append(Append(before, objs[1]), objs[2])[b + 1] = objs[1]
        /\ Append(Append(before, objs[1]), objs[2])[b + 2] = objs[2]
    <3>1. /\ Append(before, objs[1]) \in Seq(Objs) /\ Len(Append(before, objs[1])) = b + 1
          /\ Append(before, objs[1])[b + 1] = objs[1]
          BY <1>12, <1>16, <2>3
    <3> QED
        BY <1>12, <2>3, <3>1
  <2>6. l[n - 1] = objs[1] /\ l[n] = objs[2]
        BY <1>15, <2>2, <2>4, <2>5
  <2>7. IsSuffix(objs, l)
        BY <1>12, <1>14, <2>1, <2>4, <2>6, EndsWith
  <2> QED
      BY <2>7 DEF l
<1> QED
    BY <1>1, <1>11, <1>14, <1>18 DEF CommittedRemounts

\* Every other step leaves what has been committed alone.
LEMMA RemountsKept ==
    ASSUME WInv, CommittedRemounts, [Next]_vars, ~Verify
    PROVE  CommittedRemounts'
<1> SUFFICES ASSUME answer' = "committed", active'
             PROVE  /\ answer = "committed" /\ active
                    /\ ram' = ram /\ disk' = disk
    BY DEF CommittedRemounts
<1>1. pc \in {"off", "format", "format barrier"} => answer = "none"
      BY DEF WInv, Conduct
<1>2. CASE Restart \/ FormatStart
      BY <1>2 DEF Restart, FormatStart
<1>3. CASE Boot \/ BootLoadFails \/ BootProbeFails \/ FormatWrite \/ FormatBarrier
      BY <1>1, <1>3 DEF Boot, Mount, BootLoadFails, BootProbeFails, FormatWrite, FormatBarrier
<1>4. CASE Query \/ UNCHANGED vars
      BY <1>4 DEF Query, media, vars
<1>5. CASE BeginSingle \/ BeginDeployment
      BY <1>5 DEF BeginSingle, BeginDeployment, Begin, Finish
<1>6. CASE WriteHeader \/ WritePayload \/ WriteCommit \/ WriteSuper \/ DataBarrier
  <2>1. answer = "busy"
        BY <1>6 DEF WriteHeader, WritePayload, WriteCommit, WriteSuper, DataBarrier, Phase,
                    WInv, Conduct, Busy, Writing, Closing
  <2>2. answer' = answer \/ Abandon
        BY <1>6 DEF WriteHeader, WritePayload, WriteCommit, WriteSuper, DataBarrier, Phase
  <2>3. Abandon => answer' \in {"failed", "unknown", "rejected"}
        BY DEF Abandon, Finish
  <2> QED
      BY <2>1, <2>2, <2>3
<1>7. CASE SuperBarrier
  <2>1. answer = "busy" /\ active' = active
        BY <1>7 DEF SuperBarrier, WInv, Conduct, Busy, Closing
  <2>2. Abandon => answer' \in {"failed", "unknown", "rejected"}
        BY DEF Abandon, Finish
  <2>3. \/ Abandon
        \/ answer' = answer
        \/ ~(op.deploy /\ active) /\ answer' = (IF op.deploy THEN "committed" ELSE "ok")
        BY <1>7 DEF SuperBarrier, Accept, Finish
  <2> QED
      BY <2>1, <2>2, <2>3
<1>8. CASE VerifyFails
      BY <1>8 DEF VerifyFails, Abandon, Finish
<1> QED
    BY <1>2, <1>3, <1>4, <1>5, <1>6, <1>7, <1>8 DEF Next

\* A deployment is answered committed only when a restart finds the log that
\* the window has, with the new pair at its end: whatever the medium loses or
\* refuses, wherever a restart falls, after any earlier operations.  The one
\* exception is the operator's format of a medium on which a write can fail
\* and leave the session usable.
THEOREM AlwaysCommittedRemounts ==
    ASSUME SafeFormat
    PROVE  Spec => []CommittedRemounts
<1> DEFINE DInv == Follows /\ Asked /\ CommittedRemounts
<1>1. Init => DInv
      BY DEF Init, Follows, Asked, CommittedRemounts
<1>2. WInv /\ DInv /\ [Next]_vars => DInv'
  <2> SUFFICES ASSUME WInv, DInv, [Next]_vars
               PROVE  DInv'
      OBVIOUS
  <2>1. Follows' /\ Asked'
        BY FollowsStep, AskedStep
  <2>2. CommittedRemounts'
    <3>1. CASE Verify
      <4>1. CASE answer' = "committed"
            BY <3>1, <4>1, VerifiedRemounts
      <4>2. CASE answer' # "committed"
            BY <4>2 DEF CommittedRemounts
      <4> QED
          BY <4>1, <4>2
    <3>2. CASE ~Verify
          BY <3>2, RemountsKept
    <3> QED
        BY <3>1, <3>2
  <2> QED
      BY <2>1, <2>2
<1> QED
    BY <1>1, <1>2, StoreInvariant, PTL DEF Spec

-----------------------------------------------------------------------------
(* The medium as a log.                                                    *)

\* Every superblock of the image is valid, and there is one.
Sound(img) ==
    /\ \E slot \in Slots : SuperOk(img, slot)
    /\ \A slot \in Slots : img[slot].is = "super" => SuperOk(img, slot)

\* The end of the log a reader of the image finds.
EndOf(img) == img[SelectedSlot(img)].head

\* The medium starts with a log, keeps what it acknowledged, and what was
\* there before a write that it refused.
Gentle ==
    /\ Faults \cap {"torn", "flip"} = {} /\ ~Reformat
    /\ \A image \in Images : Sound(image)

\* The store works on what a restart would find.
Live == pc # "off" /\ (Sectors => active /\ ~latched)

Agree(head) == \A a \in Addr : a < head => Kept[a] = ram[a]

\* The log l with the objects still to append.
Rest(l) ==
    CASE Len(op.jobs) = 0 -> l
      [] Len(op.jobs) = 1 -> Append(l, op.jobs[1].obj)
      [] Len(op.jobs) = 2 -> Append(Append(l, op.jobs[1].obj), op.jobs[2].obj)

\* Up to where the append has come, or to the end of the log between two, the
\* window and the medium are equal; a superblock is selected there from the
\* step that writes it on.
LogInv ==
    /\ Sound(Kept)
    /\ pc \notin {"format", "format barrier"}
    /\ Sectors /\ ~active => ram = Blank /\ pc \in {"off", "idle"}
    /\ ~Live => pc \in {"off", "idle", "header"}
    /\ Live /\ ~Busy => Agree(EndOf(Kept))
    /\ Live /\ Busy =>
          /\ Agree(Reach)
          /\ SelectedSlot(Kept) = IF pc \in {"super barrier", "verify"} THEN op.slot ELSE Base
          /\ goal = {Rest(Objects(ram, Tip))}

\* A sound image has one log, and no superblock describes more.
LEMMA SoundLog ==
    ASSUME NEW img \in Image, Sound(img)
    PROVE  /\ Verdict(img) = "valid" /\ SuperOk(img, SelectedSlot(img))
           /\ SelectedSlot(img) \in Slots /\ SelectedSlot(img) \in Addr
           /\ EndOf(img) \in DATA0 .. Cap + 1 /\ Chained(img, EndOf(img))
           /\ Found(img) = {Objects(img, EndOf(img))}
           /\ \A slot \in Slots : SuperOk(img, slot) => img[slot].head <= EndOf(img)
<1> DEFINE t == SelectedSlot(img)
<1>1. Verdict(img) = "valid" /\ SuperOk(img, t) /\ t \in Slots /\ t \in Addr
      BY Selectable, Others DEF Sound
<1>2. img[t].head \in DATA0 .. Cap + 1 /\ Chained(img, img[t].head)
      BY <1>1, SuperIs
<1>3. Found(img) = {Objects(img, EndOf(img))}
      BY <1>1 DEF Found, EndOf
<1>4. ASSUME NEW slot \in Slots, SuperOk(img, slot)
      PROVE  img[slot].head <= img[t].head
  <2>1. img[slot].gen <= img[t].gen
    <3>1. \A s \in Slots : SuperOk(img, s) => img[s].gen \in Int
          BY SuperIs, Addresses
    <3>2. slot = SLOT0 \/ slot = SLOT1
          BY DEF Slots
    <3>3. CASE t = SLOT0
          BY <1>1, <1>4, <3>1, <3>2, <3>3, Others DEF SelectedSlot
    <3>4. CASE t = SLOT1
          BY <1>1, <1>4, <3>1, <3>2, <3>4, Others DEF SelectedSlot
    <3> QED
        BY <1>1, <3>3, <3>4 DEF Slots
  <2>2. /\ img[slot].head \in DATA0 .. Cap + 1 /\ Chained(img, img[slot].head)
        /\ img[slot].gen = Cardinality(Heads(img, img[slot].head)) + 1
        /\ img[t].gen = Cardinality(Heads(img, img[t].head)) + 1
        BY <1>1, <1>4, SuperIs
  <2>3. img[slot].head \in Nat /\ img[t].head \in Nat
        BY <1>2, <2>2, Addresses
  <2> DEFINE n == Cardinality(Heads(img, img[t].head))
             m == Cardinality(Heads(img, img[slot].head))
  <2>4. n \in Nat /\ m \in Nat
        BY <2>3, HeadsFinite
  <2>5. img[t].head < img[slot].head => n < m
        BY <1>2, <2>2, OrderedChains
  <2>6. m <= n
    <3>1. m + 1 <= n + 1
          BY <2>1, <2>2
    <3> HIDE DEF n, m
    <3> QED
        BY <2>4, <3>1
  <2> HIDE DEF n, m, t
  <2> QED
      BY <2>3, <2>4, <2>5, <2>6
<1> QED
    BY <1>1, <1>2, <1>3, <1>4 DEF EndOf

\* What lies behind the log changes nothing of it, nor does the superblock
\* that is not selected when it is lost.
LEMMA SameLog ==
    ASSUME NEW img \in Image, Sound(img), NEW img2 \in Image,
           \A a \in Addr : a < EndOf(img) =>
              \/ img2[a] = img[a]
              \/ a \in Slots /\ a # SelectedSlot(img) /\ img2[a].is # "super"
    PROVE  /\ Sound(img2) /\ SelectedSlot(img2) = SelectedSlot(img) /\ EndOf(img2) = EndOf(img)
           /\ Objects(img2, EndOf(img)) = Objects(img, EndOf(img))
           /\ Found(img2) = Found(img)
<1> DEFINE t == SelectedSlot(img)
<1>1. /\ SuperOk(img, t) /\ t \in Slots /\ t \in Addr /\ EndOf(img) = img[t].head
      /\ EndOf(img) \in DATA0 .. Cap + 1 /\ Chained(img, EndOf(img))
      /\ Found(img) = {Objects(img, EndOf(img))}
      /\ \A slot \in Slots : SuperOk(img, slot) => img[slot].head <= EndOf(img)
      BY SoundLog DEF EndOf
<1>2. \A slot \in Slots : slot \in Addr /\ slot < EndOf(img) /\ slot \notin Units
      BY <1>1, Addresses, SlotsApart
<1>3. \A slot \in Slots : img2[slot] = img[slot] \/ (slot # t /\ img2[slot].is # "super")
      BY <1>2
<1>4. \A a \in DATA0 .. EndOf(img) - 1 : img2[a] = img[a]
  <2> SUFFICES ASSUME NEW a \in DATA0 .. EndOf(img) - 1
               PROVE  img2[a] = img[a]
      OBVIOUS
  <2>1. a \in Addr /\ a \notin Slots
        BY <1>1, BelowHead
  <2>2. a < EndOf(img)
        BY <1>1, Addresses
  <2> QED
      BY <2>1, <2>2
<1>5. ASSUME NEW slot \in Slots, SuperOk(img, slot), img2[slot] = img[slot]
      PROVE  SuperOk(img2, slot)
  <2> DEFINE h == img[slot].head
  <2>1. h \in DATA0 .. Cap + 1 /\ h <= EndOf(img) /\ Chained(img, h) /\ img[slot] = SuperOf(img, h)
        BY <1>1, <1>5, SuperIs
  <2> HIDE DEF h
  <2>2. \A a \in DATA0 .. h - 1 : img2[a] = img[a]
    <3>1. \A a \in DATA0 .. h - 1 : a \in DATA0 .. EndOf(img) - 1
          BY <1>1, <2>1, Addresses
    <3> QED
        BY <1>4, <3>1
  <2>3. Chained(img2, h) /\ SuperOf(img2, h) = SuperOf(img, h)
        BY <2>1, <2>2, SameChain
  <2> QED
      BY <1>5, <2>1, <2>3, SuperIs
<1>6. \A slot \in Slots : SuperOk(img2, slot) => img2[slot].is = "super"
      BY DEF SuperOk
<1>7. \A slot \in Slots : img2[slot].is = "super" => img2[slot] = img[slot] /\ SuperOk(img, slot)
      BY <1>3 DEF Sound
<1>8. SuperOk(img2, t) /\ img2[t] = img[t]
      BY <1>1, <1>3, <1>5
<1>9. Sound(img2)
  <2>1. \A slot \in Slots : img2[slot].is = "super" => SuperOk(img2, slot)
        BY <1>5, <1>7
  <2> QED
      BY <1>1, <1>8, <2>1 DEF Sound
<1>10. \A slot \in Slots : SuperOk(img2, slot) => SuperOk(img, slot) /\ img2[slot] = img[slot]
       BY <1>6, <1>7
<1>11. SelectedSlot(img2) = t
  <2>1. t = SLOT0 \/ t = SLOT1
        BY <1>1 DEF Slots
  <2>2. CASE t = SLOT0
    <3>1. ~(SuperOk(img, SLOT1) /\ img[SLOT1].gen > img[SLOT0].gen)
          BY <2>2, Others DEF SelectedSlot
    <3> HIDE DEF t
    <3>2. ~(SuperOk(img2, SLOT1) /\ img2[SLOT1].gen > img2[SLOT0].gen)
          BY <1>8, <1>10, <2>2, <3>1, Others
    <3> QED
        BY <1>8, <2>2, <3>2 DEF SelectedSlot
  <2>3. CASE t = SLOT1
    <3>1. ~SuperOk(img, SLOT0) \/ (SuperOk(img, SLOT1) /\ img[SLOT1].gen > img[SLOT0].gen)
          BY <2>3, Others DEF SelectedSlot
    <3> HIDE DEF t
    <3>2. ~SuperOk(img2, SLOT0) \/ (SuperOk(img2, SLOT1) /\ img2[SLOT1].gen > img2[SLOT0].gen)
          BY <1>8, <1>10, <2>3, <3>1, Others
    <3> QED
        BY <2>3, <3>2 DEF SelectedSlot
  <2> QED
      BY <2>1, <2>2, <2>3
<1>12. EndOf(img2) = EndOf(img)
       BY <1>8, <1>11 DEF EndOf
<1>13. Objects(img2, EndOf(img)) = Objects(img, EndOf(img))
       BY <1>1, <1>4, SameChain
<1> QED
    BY <1>1, <1>9, <1>11, <1>12, <1>13, SoundLog DEF EndOf

\* A newer superblock that describes a chain of the image is selected.
LEMMA NewLog ==
    ASSUME NEW img \in Image, Sound(img), NEW img2 \in Image, NEW tip \in DATA0 .. Cap + 1,
           EndOf(img) <= tip,
           \A a \in Addr : a < EndOf(img) /\ a # OtherSlot(SelectedSlot(img)) => img2[a] = img[a],
           Chained(img2, tip), img2[OtherSlot(SelectedSlot(img))] = SuperOf(img2, tip),
           img[SelectedSlot(img)].gen < SuperOf(img2, tip).gen
    PROVE  /\ Sound(img2) /\ SelectedSlot(img2) = OtherSlot(SelectedSlot(img)) /\ EndOf(img2) = tip
           /\ Found(img2) = {Objects(img2, tip)}
<1> DEFINE t == SelectedSlot(img)
           s == OtherSlot(t)
<1>1. /\ SuperOk(img, t) /\ t \in Slots /\ t \in Addr /\ EndOf(img) = img[t].head
      /\ EndOf(img) \in DATA0 .. Cap + 1 /\ Chained(img, EndOf(img)) /\ img[t] = SuperOf(img, EndOf(img))
  <2>1. /\ SuperOk(img, t) /\ t \in Slots /\ t \in Addr /\ EndOf(img) = img[t].head
        /\ EndOf(img) \in DATA0 .. Cap + 1 /\ Chained(img, EndOf(img))
        BY SoundLog DEF EndOf
  <2> QED
      BY <2>1, SuperIs
<1>2. s \in Slots /\ s \in Addr /\ s # t /\ OtherSlot(s) = t /\ \A slot \in Slots : slot = s \/ slot = t
      BY <1>1, Others
<1>3. SuperOk(img2, s) /\ img2[s].head = tip
      BY <1>2, SuperIs, SuperOfType
<1>4. img2[t] = img[t]
  <2>1. t # OtherSlot(SelectedSlot(img))
        BY <1>2
  <2> HIDE DEF t
  <2>2. t < EndOf(img)
        BY <1>1, Addresses
  <2> QED
      BY <1>1, <2>1, <2>2
<1>5. \A a \in DATA0 .. EndOf(img) - 1 : img2[a] = img[a]
  <2> SUFFICES ASSUME NEW a \in DATA0 .. EndOf(img) - 1
               PROVE  img2[a] = img[a]
      OBVIOUS
  <2>1. a \in Addr /\ a \notin Slots
        BY <1>1, BelowHead
  <2>2. a < EndOf(img)
        BY <1>1, Addresses
  <2> QED
      BY <1>2, <2>1, <2>2
<1>6. SuperOk(img2, t)
  <2>1. Chained(img2, EndOf(img)) /\ SuperOf(img2, EndOf(img)) = SuperOf(img, EndOf(img))
        BY <1>1, <1>5, SameChain
  <2> QED
      BY <1>1, <1>4, <2>1, SuperIs
<1>7. Sound(img2)
      BY <1>2, <1>3, <1>6 DEF Sound
<1>8. img2[OtherSlot(s)].gen < img2[s].gen
      BY <1>2, <1>4
<1> HIDE DEF s
<1>9. SelectedSlot(img2) = s
      BY <1>2, <1>3, <1>8, Selectable
<1>10. EndOf(img2) = tip
       BY <1>3, <1>9 DEF EndOf
<1>11. Found(img2) = {Objects(img2, tip)}
       BY <1>7, <1>10, SoundLog
<1> QED
    BY <1>7, <1>9, <1>10, <1>11 DEF s, t

-----------------------------------------------------------------------------
(* The phases of an append and the log.                                    *)

\* A write of the window that is cut short.
LEMMA CutShort ==
    ASSUME ram \in Image, NEW c, Fragment(c), NEW r \in Cuts(c)
    PROVE  \A a \in Addr : r[a] = ram[a] \/ (a \in DOMAIN c /\ r[a] \in {c[a], Junk})
<1> DEFINE cut(S) == Over(Part(c, S), ram)
<1>1. PICK a \in DOMAIN c : \/ r = cut(Addr \cap (SLOT0 .. (a - 1)))
                            \/ r = Lost(cut(Addr \cap (SLOT0 .. (a - 1))), {a})
                            \/ r = cut(Addr \cap (SLOT0 .. a))
      BY DEF Cuts
<1>2. \A S : /\ cut(S) \in Image
             /\ \A b \in Addr : cut(S)[b] = IF b \in DOMAIN c /\ b \in S THEN c[b] ELSE ram[b]
      BY Overs
<1> HIDE DEF cut
<1>3. \A S : \A b \in Addr : Lost(cut(S), {a})[b] = IF b \in {a} THEN Junk ELSE cut(S)[b]
      BY <1>2, Losing
<1> SUFFICES ASSUME NEW b \in Addr
             PROVE  r[b] = ram[b] \/ (b \in DOMAIN c /\ (r[b] = c[b] \/ r[b] = Junk))
    OBVIOUS
<1>4. \A S : cut(S)[b] = ram[b] \/ (b \in DOMAIN c /\ cut(S)[b] = c[b])
      BY <1>2
<1>5. \A S : \/ Lost(cut(S), {a})[b] = cut(S)[b]
             \/ b \in DOMAIN c /\ Lost(cut(S), {a})[b] = Junk
      BY <1>3
<1>6. \E S : r[b] = cut(S)[b] \/ r[b] = Lost(cut(S), {a})[b]
      BY <1>1
<1> QED
    BY <1>4, <1>5, <1>6

LEMMA SectorsKept ==
    ASSUME WInv, disk' \in Image \cup {<<>>}, active => disk' \in Image, ~active => disk' = disk
    PROVE  Sectors' = Sectors
<1>1. active => Sectors /\ Sectors'
      BY Facts, Images1 DEF Sectors
<1>2. ~active => Sectors' = Sectors
      BY DEF Sectors
<1>3. Sectors \in BOOLEAN /\ Sectors' \in BOOLEAN
      BY DEF Sectors
<1> QED
    BY <1>1, <1>2, <1>3

\* A phase that is done has written the same on both.
Complete(next, c) ==
    /\ Live /\ Live' /\ pc' = next /\ op' = op /\ answer' = answer /\ goal' = goal
    /\ \A a \in Addr : /\ ram'[a] = IF a \in DOMAIN c THEN c[a] ELSE ram[a]
                       /\ Kept'[a] = IF a \in DOMAIN c THEN c[a] ELSE Kept[a]

\* One that is not has changed no more than what it was to write; nothing in a
\* session that is latched; and one that is not latched after it goes on with
\* equal contents wherever it does not write.
CutOff(c) ==
    /\ Abandon
    /\ \A a \in Addr : Kept'[a] = Kept[a] \/ (Live /\ a \in DOMAIN c /\ Kept'[a] \in {c[a], Junk})
    /\ Live' => /\ Live
                /\ \A a \in Addr : Kept[a] = ram[a] /\ (a \in DOMAIN c => \E b \in Slots : DOMAIN c = {b})
                                   => Kept'[a] = ram'[a]

LEMMA PhaseKept ==
    ASSUME WInv, LogInv, Gentle, NEW at, NEW next, NEW c, NEW c2, Phase(at, c, c2, next),
           InTurn(at, next), active => Fragment(c), Fragment(c2), Live /\ active => c = c2
    PROVE  /\ Sectors' = Sectors /\ Kept' \in Image /\ ram' \in Image /\ active' = active /\ Busy
           /\ Complete(next, c2) \/ CutOff(c2)
<1>1. pc = at /\ active' = active
      BY DEF Phase
<1>2. Busy /\ pc # "off" /\ pc # "idle"
      BY <1>1 DEF Busy, Writing, Closing, InTurn
<1>3. PICK o \in PhaseWrite(c, c2) :
         /\ ram' = o.ram /\ disk' = o.disk /\ latched' = o.latched
         /\ IF o.ok THEN pc' = next /\ op' = op /\ answer' = answer /\ goal' = goal ELSE Abandon
      BY DEF Phase
<1>4. ram' = o.ram /\ disk' = o.disk /\ latched' = o.latched
      BY <1>3
<1>5. o.ok => pc' = next /\ op' = op /\ answer' = answer /\ goal' = goal
      BY <1>3
<1>6. ~o.ok => Abandon /\ pc' = "idle"
      BY <1>3 DEF Abandon, Finish
<1>7. /\ o.ram \in Image /\ o.disk \in Image \cup {<<>>}
      /\ o.ok \in BOOLEAN /\ o.latched \in BOOLEAN
      /\ o.ok => o.ram = Over(c2, ram)
      /\ ~active => o.disk = disk /\ o.latched = latched
      /\ active => o.disk \in Image /\ (~o.ok => o.ram = ram)
      /\ active => \E T, L : Outcome(c, o, T, L)
      BY Facts, PhaseOutcome
<1>8. Sectors' = Sectors
      BY <1>4, <1>7, SectorsKept
<1>9. Kept' = (IF Sectors THEN disk' ELSE ram') /\ Sectors = active
  <2>1. Sectors \in BOOLEAN /\ active \in BOOLEAN /\ (active => Sectors)
        BY Facts DEF Sectors
  <2>2. Sectors => active
        BY <1>2 DEF LogInv
  <2> QED
      BY <1>8, <2>1, <2>2 DEF Kept
<1>10. ram' \in Image /\ Kept' \in Image
       BY <1>4, <1>7, <1>9
<1>11. pc' # "off"
       BY <1>5, <1>6, <1>7 DEF InTurn
<1>12. ram \in Image /\ (active => disk \in Image) /\ latched \in BOOLEAN
       BY Facts
<1>13. o.ok => \A a \in Addr : ram'[a] = IF a \in DOMAIN c2 THEN c2[a] ELSE ram[a]
  <2>1. \A a \in Addr : Over(c2, ram)[a] = IF a \in DOMAIN c2 THEN c2[a] ELSE ram[a]
        BY <1>12, Overs
  <2> QED
      BY <1>4, <1>7, <2>1
<1>14. CASE ~active
  <2>1. Live /\ Live' /\ Kept = ram /\ Kept' = ram'
        BY <1>2, <1>8, <1>9, <1>11, <1>14 DEF Live, Kept
  <2>2. ASSUME o.ok
        PROVE  Complete(next, c2)
        BY <1>5, <1>13, <2>1, <2>2 DEF Complete
  <2>3. ASSUME ~o.ok
        PROVE  CutOff(c2)
    <3>1. o.ram \in Cuts(c2)
      <4>1. \/ o = [disk |-> disk, ok |-> TRUE, latched |-> latched, ram |-> Over(c2, ram)]
            \/ \E r \in Cuts(c2) : o = [disk |-> disk, ok |-> FALSE, latched |-> latched, ram |-> r]
            BY <1>14 DEF PhaseWrite
      <4>2. o # [disk |-> disk, ok |-> TRUE, latched |-> latched, ram |-> Over(c2, ram)]
            BY <2>3
      <4>3. PICK r \in Cuts(c2) : o = [disk |-> disk, ok |-> FALSE, latched |-> latched, ram |-> r]
            BY <4>1, <4>2
      <4> QED
          BY <4>3
    <3>2. \A a \in Addr : ram'[a] = ram[a] \/ (a \in DOMAIN c2 /\ ram'[a] \in {c2[a], Junk})
          BY <1>4, <1>12, <3>1, CutShort
    <3> QED
        BY <1>6, <2>1, <2>3, <3>2 DEF CutOff
  <2> QED
      BY <1>1, <1>2, <1>7, <1>8, <1>10, <2>2, <2>3
<1>15. CASE active
  <2>1. PICK T, L : Outcome(c, o, T, L)
        BY <1>7, <1>15
  <2>2. L = {}
        BY <2>1 DEF Outcome, Gentle
  <2>3. Kept = disk /\ Kept' = disk' /\ disk \in Image /\ Sectors /\ Sectors'
        BY <1>8, <1>9, <1>12, <1>15 DEF Kept
  <2>4. ASSUME latched
        PROVE  CutOff(c2)
    <3>1. ~o.ok /\ o.latched /\ o.disk = disk
          BY <2>1, <2>4 DEF Outcome
    <3>2. ~Live'
          BY <1>4, <2>3, <3>1 DEF Live
    <3> QED
        BY <1>4, <1>6, <2>3, <3>1, <3>2 DEF CutOff
  <2>5. ASSUME ~latched
        PROVE  Complete(next, c2) \/ CutOff(c2)
    <3>1. Live /\ c = c2
          BY <1>2, <1>15, <2>5 DEF Live
    <3>2. ASSUME o.ok
          PROVE  Complete(next, c2)
      <4>1. ~o.latched
            BY <2>1, <3>2 DEF Outcome
      <4>2. \A a \in Addr : o.disk[a] = IF a \in L THEN Junk ELSE IF a \in DOMAIN c THEN c[a] ELSE disk[a]
            BY <2>1, <2>3, <3>2, <4>1, KnownOutcome
      <4>3. Live'
            BY <1>1, <1>4, <1>11, <1>15, <4>1 DEF Live
      <4> QED
          BY <1>4, <1>5, <1>13, <2>2, <2>3, <3>1, <3>2, <4>2, <4>3 DEF Complete
    <3>3. ASSUME ~o.ok
          PROVE  CutOff(c2)
      <4>1. \A a \in Addr : o.disk[a] = disk[a] \/ (a \in DOMAIN c /\ o.disk[a] = c[a])
            BY <2>1, <2>2 DEF Outcome, Left
      <4>2. ASSUME Live'
            PROVE  \A a \in Addr : Kept[a] = ram[a] /\ (a \in DOMAIN c => \E b \in Slots : DOMAIN c = {b})
                                   => Kept'[a] = ram'[a]
        <5>1. ~o.latched
              BY <1>4, <2>3, <4>2 DEF Live
        <5>2. (\E b \in Slots : DOMAIN c = {b}) => \A a \in Addr : o.disk[a] = disk[a]
              BY <2>1, <2>3, <3>3, <5>1, KnownFailure
        <5> QED
            BY <1>4, <1>7, <1>15, <2>3, <3>3, <4>1, <5>2
      <4> QED
          BY <1>4, <1>6, <2>3, <3>1, <3>3, <4>1, <4>2 DEF CutOff
    <3> QED
        BY <1>7, <3>2, <3>3
  <2> QED
      BY <1>1, <1>2, <1>8, <1>10, <1>12, <2>4, <2>5
<1> QED
    BY <1>14, <1>15, Facts

LEMMA HeadsAreInt == \A h \in DATA0 .. Cap + 1 : h \in Int
BY Addresses

\* The window is an image, with the log's own superblock in the selected slot.
LEMMA LogBounds ==
    ASSUME WInv, LogInv
    PROVE  /\ Kept \in Image /\ Found(Kept) = {Objects(Kept, EndOf(Kept))}
           /\ EndOf(Kept) \in DATA0 .. Cap + 1 /\ SelectedSlot(Kept) \in Slots
           /\ Busy /\ Live =>
                 /\ Reach \in Nat /\ Tip <= Reach /\ EndOf(Kept) <= Tip /\ Agree(Tip)
                 /\ EndOf(Kept) = IF pc \in {"super barrier", "verify"} THEN Tip ELSE ram[Base].head
<1>1. Kept \in Image /\ Sound(Kept)
      BY Facts DEF LogInv
<1>2. /\ Found(Kept) = {Objects(Kept, EndOf(Kept))} /\ EndOf(Kept) \in DATA0 .. Cap + 1
      /\ SelectedSlot(Kept) \in Slots
      BY <1>1, SoundLog
<1>3. ASSUME Busy, Live
      PROVE  /\ Reach \in Nat /\ Tip <= Reach /\ EndOf(Kept) <= Tip /\ Agree(Tip)
             /\ EndOf(Kept) = IF pc \in {"super barrier", "verify"} THEN Tip ELSE ram[Base].head
  <2>1. /\ Base \in Slots /\ op.slot \in Slots /\ Tip \in DATA0 .. Cap + 1 /\ ram[Base].head \in DATA0 .. Tip
        BY <1>3, BusyFacts, Facts
  <2>2. Reach \in Nat /\ Tip <= Reach
    <3>1. Tip \in Nat
          BY <2>1, Addresses
    <3>2. CASE pc \in {"payload", "commit", "barrier"}
      <4>1. Writing
            BY <3>2 DEF Writing
      <4>2. Extent(op.jobs[1].obj) \in Nat
            BY <4>1, BusyFacts, <1>3, JobFields
      <4> QED
          BY <3>1, <3>2, <4>2, ReachNow
    <3>3. CASE pc \notin {"payload", "commit", "barrier"}
          BY <3>1, <3>3, ReachNow
    <3> QED
        BY <3>2, <3>3
  <2>3. Agree(Reach) /\ SelectedSlot(Kept) = IF pc \in {"super barrier", "verify"} THEN op.slot ELSE Base
        BY <1>3 DEF LogInv
  <2>4. Agree(Tip)
    <3>1. \A a \in Addr : a \in Int
          BY Addresses
    <3>2. Tip \in Int
          BY <2>1, Addresses
    <3>3. \A a \in Addr : a < Tip => a < Reach
          BY <2>2, <3>1, <3>2
    <3> QED
        BY <2>3, <3>3 DEF Agree
  <2>5. \A slot \in Slots : Kept[slot] = ram[slot]
    <3>1. \A slot \in Slots : slot \in Addr /\ slot < Tip
          BY <2>1, Addresses, SlotsApart
    <3> QED
        BY <2>4, <3>1 DEF Agree
  <2>6. EndOf(Kept) = IF pc \in {"super barrier", "verify"} THEN ram[op.slot].head ELSE ram[Base].head
        BY <2>1, <2>3, <2>5 DEF EndOf
  <2>7. pc \in {"super barrier", "verify"} => ram[op.slot].head = Tip
    <3>1. pc \in {"super barrier", "verify"} => ram[op.slot] = op.super /\ Tip = op.super.head
          BY <1>3, BusyFacts, SuperWritten
    <3> QED
        BY <3>1
  <2>8. ram[Base].head <= Tip /\ Tip <= Tip
        BY <2>1, Addresses
  <2> QED
      BY <2>2, <2>4, <2>6, <2>7, <2>8
<1> QED
    BY <1>1, <1>2, <1>3

\* What the window holds in front of the objects to append stays the same.
LEMMA RestKept ==
    ASSUME WInv, Busy, ram' \in Image, \A a \in DATA0 .. Tip - 1 : ram'[a] = ram[a], op' = op
    PROVE  /\ Rest(Objects(ram, Tip))' = Rest(Objects(ram, Tip)) /\ Tip' = Tip /\ Base' = Base
           /\ Objects(ram', Tip) = Objects(ram, Tip)
<1>1. Chained(ram, Tip) /\ Tip \in DATA0 .. Cap + 1 /\ ram \in Image
      BY BusyFacts, Facts
<1>2. Objects(ram', Tip) = Objects(ram, Tip)
      BY <1>1, SameChain
<1>3. Tip' = Tip /\ Base' = Base
      BY DEF Tip, Base
<1> QED
    BY <1>2, <1>3 DEF Rest

\* A phase that was cut off, once the log is known to have stayed sound.
LEMMA LogGivenUp ==
    ASSUME WInv, LogInv, Busy, NEW c, CutOff(c), Sectors' = Sectors, active' = active,
           Sound(Kept'), EndOf(Kept') \in Int,
           Live => EndOf(Kept') <= Tip,
           \A a \in DOMAIN c : a < Tip => \E b \in Slots : DOMAIN c = {b}
    PROVE  LogInv'
<1>1. pc' = "idle" /\ ~Busy'
      BY DEF CutOff, Abandon, Finish, Busy, Writing, Closing
<1>2. Sectors => active
      BY DEF LogInv, Busy, Writing, Closing
<1>3. ASSUME Live'
      PROVE  Agree(EndOf(Kept))'
  <2>1. /\ Live
        /\ \A a \in Addr : Kept[a] = ram[a] /\ (a \in DOMAIN c => \E b \in Slots : DOMAIN c = {b})
                           => Kept'[a] = ram'[a]
        BY <1>3 DEF CutOff
  <2>2. Agree(Tip) /\ EndOf(Kept') <= Tip /\ Tip \in Int
    <3>1. Agree(Tip) /\ Tip \in DATA0 .. Cap + 1
          BY <2>1, LogBounds, BusyFacts
    <3> QED
        BY <2>1, <3>1, HeadsAreInt
  <2>3. \A a \in Addr : a \in Int
        BY Addresses
  <2>4. \A a \in Addr : a < EndOf(Kept') => a < Tip
        BY <2>2, <2>3
  <2>5. ASSUME NEW a \in Addr, a < EndOf(Kept')
        PROVE  Kept'[a] = ram'[a]
    <3>1. a < Tip
          BY <2>4, <2>5
    <3>2. Kept[a] = ram[a]
          BY <2>2, <3>1 DEF Agree
    <3>3. a \in DOMAIN c => \E b \in Slots : DOMAIN c = {b}
          BY <3>1
    <3> QED
        BY <2>1, <3>2, <3>3
  <2>6. EndOf(Kept)' = EndOf(Kept')
        OBVIOUS
  <2> QED
      BY <2>5, <2>6 DEF Agree
<1> QED
    BY <1>1, <1>2, <1>3 DEF LogInv

\* A phase in the data area leaves the log alone, whatever becomes of it.
LEMMA LogPhase ==
    ASSUME WInv, LogInv, Gentle, NEW at, NEW next, NEW c, NEW c2, Phase(at, c, c2, next),
           InTurn(at, next), at # "super",
           active => Fragment(c), Fragment(c2), Live /\ active => c = c2,
           \A a \in DOMAIN c2 : a \in Addr /\ a >= Tip,
           pc' = next /\ op' = op => \A a \in Addr : a < Reach' => a \in DOMAIN c2 \/ a < Reach
    PROVE  /\ LogInv' /\ Found(Kept') = Found(Kept)
           /\ Abandon \/ (answer' = answer /\ goal' = goal)
<1>1. /\ Sectors' = Sectors /\ Kept' \in Image /\ ram' \in Image /\ active' = active /\ Busy
      /\ Complete(next, c2) \/ CutOff(c2)
      BY PhaseKept
<1>2. /\ Kept \in Image /\ EndOf(Kept) \in DATA0 .. Cap + 1 /\ EndOf(Kept) \in Int /\ Sound(Kept)
      /\ Tip \in DATA0 .. Cap + 1 /\ Tip \in Int
  <2>1. /\ Kept \in Image /\ EndOf(Kept) \in DATA0 .. Cap + 1 /\ Sound(Kept) /\ Tip \in DATA0 .. Cap + 1
        BY <1>1, LogBounds, BusyFacts DEF LogInv
  <2> QED
      BY <2>1, HeadsAreInt
<1>3. pc = at /\ pc \notin {"super barrier", "verify"}
      BY DEF Phase, InTurn
<1>4. Live => EndOf(Kept) <= Tip /\ Agree(Tip) /\ SelectedSlot(Kept) = Base /\ goal = {Rest(Objects(ram, Tip))}
             /\ Agree(Reach)
      BY <1>1, <1>3, LogBounds DEF LogInv
<1>5. \A a \in Addr : a \in Int
      BY Addresses
<1>6. \A a \in Addr : a < EndOf(Kept) => Kept'[a] = Kept[a]
  <2> SUFFICES ASSUME NEW a \in Addr, a < EndOf(Kept)
               PROVE  Kept'[a] = Kept[a]
      OBVIOUS
  <2>1. Live => a \notin DOMAIN c2
    <3>1. Live => a < Tip
          BY <1>2, <1>4, <1>5
    <3> QED
        BY <1>2, <1>5, <3>1
  <2>2. CASE Complete(next, c2)
        BY <2>1, <2>2 DEF Complete
  <2>3. CASE CutOff(c2)
        BY <2>1, <2>3 DEF CutOff
  <2> QED
      BY <1>1, <2>2, <2>3
<1>7. /\ Sound(Kept') /\ SelectedSlot(Kept') = SelectedSlot(Kept) /\ EndOf(Kept') = EndOf(Kept)
      /\ Found(Kept') = Found(Kept)
      BY <1>1, <1>2, <1>6, SameLog
<1>8. ASSUME CutOff(c2)
      PROVE  LogInv' /\ Abandon
  <2>1. \A a \in DOMAIN c2 : ~(a < Tip)
        BY <1>2, <1>5
  <2> QED
      BY <1>1, <1>2, <1>4, <1>7, <1>8, <2>1, LogGivenUp DEF CutOff
<1>9. ASSUME Complete(next, c2)
      PROVE  LogInv' /\ answer' = answer /\ goal' = goal
  <2>1. Live /\ Live' /\ pc' = next /\ op' = op /\ answer' = answer /\ goal' = goal
        BY <1>9 DEF Complete
  <2>2. /\ pc' \in {"payload", "commit", "barrier"} /\ Busy'
        BY <2>1 DEF InTurn, Busy, Writing
  <2>3. \A a \in DATA0 .. Tip - 1 : ram'[a] = ram[a]
    <3> SUFFICES ASSUME NEW a \in DATA0 .. Tip - 1
                 PROVE  ram'[a] = ram[a]
        OBVIOUS
    <3>1. a \in Addr
          BY <1>2, BelowHead
    <3>2. a \notin DOMAIN c2
          BY <1>2, <1>5, <3>1
    <3> QED
        BY <1>9, <3>1, <3>2 DEF Complete
  <2>4. Rest(Objects(ram, Tip))' = Rest(Objects(ram, Tip)) /\ Base' = Base
        BY <1>1, <2>1, <2>3, RestKept
  <2>5. goal' = {Rest(Objects(ram, Tip))}'
        BY <1>4, <2>1, <2>4
  <2>6. Agree(Reach)'
    <3> SUFFICES ASSUME NEW a \in Addr, a < Reach'
                 PROVE  Kept'[a] = ram'[a]
        BY DEF Agree
    <3>1. a \in DOMAIN c2 \/ a < Reach
          BY <2>1
    <3>2. a < Reach => Kept[a] = ram[a]
          BY <1>4, <2>1 DEF Agree
    <3> QED
        BY <1>9, <3>1, <3>2 DEF Complete
  <2>7. SelectedSlot(Kept)' = Base'
        BY <1>4, <1>7, <2>1, <2>4
  <2>8. Sectors' /\ ~active' => ram' = Blank /\ pc' \in {"off", "idle"}
        BY <1>1 DEF LogInv, Busy, Writing, Closing
  <2> QED
      BY <1>7, <2>1, <2>2, <2>5, <2>6, <2>7, <2>8 DEF LogInv
<1> QED
    BY <1>1, <1>7, <1>8, <1>9

\* The phase of the superblock puts all of the append into the log, or leaves
\* the log as it was.
LEMMA LogSuper ==
    ASSUME WInv, LogInv, Gentle, WriteSuper
    PROVE  /\ LogInv' /\ pc = "super"
           /\ \/ Live /\ Found(Kept') = goal /\ answer' = answer /\ goal' = goal
              \/ Abandon /\ (Found(Kept') = Found(Kept) \/ (Live /\ Found(Kept') = goal))
<1> DEFINE c == [a \in {op.slot} |-> op.super]
<1>1. pc = "super" /\ Busy /\ Closing /\ Phase("super", c, c, "super barrier") /\ InTurn("super", "super barrier")
      BY DEF WriteSuper, Phase, Busy, Closing, InTurn
<1>2. /\ op.slot \in Slots /\ op.slot \in Addr /\ op.super \in Supers
      /\ Tip \in DATA0 .. Cap + 1 /\ Tip \in Int /\ ram \in Image
      /\ Base \in Slots /\ op.slot = OtherSlot(Base) /\ Base # op.slot
      /\ op.jobs = <<>> /\ op.super = SuperOf(ram, Tip) /\ Chained(ram, Tip)
      /\ ram[Base].gen < op.super.gen
  <2>1. /\ op.super \in Supers /\ Tip \in DATA0 .. Cap + 1
        /\ Base \in Slots /\ op.slot = OtherSlot(Base) /\ Base # op.slot
        /\ op.jobs = <<>> /\ op.super = SuperOf(ram, Tip) /\ Chained(ram, Tip) /\ ChainBuilt
        BY <1>1, BusyFacts
  <2>2. op.slot \in Slots /\ op.slot \in Addr /\ ram \in Image
        BY Facts, Others
  <2> QED
      BY <2>1, <2>2, HeadsAreInt DEF ChainBuilt
<1>3. Fragment(c) /\ DOMAIN c = {op.slot} /\ c[op.slot] = op.super
      BY <1>2 DEF Fragment, Content
<1> HIDE DEF c
<1>4. /\ Sectors' = Sectors /\ Kept' \in Image /\ ram' \in Image /\ active' = active
      /\ Complete("super barrier", c) \/ CutOff(c)
      BY <1>1, <1>3, PhaseKept
<1>5. /\ Kept \in Image /\ EndOf(Kept) \in DATA0 .. Cap + 1 /\ EndOf(Kept) \in Int /\ Sound(Kept)
      /\ Found(Kept) = {Objects(Kept, EndOf(Kept))}
      BY LogBounds, HeadsAreInt DEF LogInv
<1>6. \A a \in Addr : a \in Int
      BY Addresses
<1>7. \A a \in DATA0 .. Tip - 1 : a \in Addr /\ a # op.slot /\ a < Tip
  <2> SUFFICES ASSUME NEW a \in DATA0 .. Tip - 1
               PROVE  a \in Addr /\ a # op.slot /\ a < Tip
      OBVIOUS
  <2>1. a \in Addr /\ \A b \in Slots : b \notin DATA0 .. Tip - 1
        BY <1>2, BelowHead
  <2>2. a < Tip
        BY <1>2, <1>6, <2>1
  <2> QED
      BY <1>2, <2>1, <2>2
<1>8. ASSUME Live
      PROVE  /\ EndOf(Kept) <= Tip /\ Agree(Tip) /\ Agree(Reach) /\ Reach = Tip /\ SelectedSlot(Kept) = Base
             /\ goal = {Objects(ram, Tip)}
             /\ Kept[Base] = ram[Base]
  <2>1. /\ EndOf(Kept) <= Tip /\ Agree(Tip) /\ SelectedSlot(Kept) = Base /\ Agree(Reach)
        /\ goal = {Rest(Objects(ram, Tip))}
        BY <1>1, <1>8, LogBounds DEF LogInv
  <2>2. Reach = Tip
        BY <1>1, ReachNow
  <2>3. Rest(Objects(ram, Tip)) = Objects(ram, Tip)
    <3>1. Len(op.jobs) = 0
          BY <1>2
    <3> QED
        BY <3>1 DEF Rest
  <2>4. Base \in Addr /\ Base < Tip
        BY <1>2, Addresses, SlotsApart
  <2> QED
      BY <2>1, <2>2, <2>3, <2>4 DEF Agree
<1>9. ASSUME Live, Kept'[op.slot] = op.super, \A a \in Addr : a # op.slot => Kept'[a] = Kept[a]
      PROVE  /\ Sound(Kept') /\ SelectedSlot(Kept') = op.slot /\ EndOf(Kept') = Tip
             /\ Found(Kept') = goal
  <2>1. \A a \in DATA0 .. Tip - 1 : Kept'[a] = ram[a]
        BY <1>7, <1>8, <1>9 DEF Agree
  <2>2. Chained(Kept', Tip) /\ Objects(Kept', Tip) = Objects(ram, Tip) /\ SuperOf(Kept', Tip) = op.super
        BY <1>2, <1>4, <2>1, SameChain
  <2>3. OtherSlot(SelectedSlot(Kept)) = op.slot /\ Kept[SelectedSlot(Kept)].gen < op.super.gen
        BY <1>2, <1>8, <1>9
  <2>4. \A a \in Addr : a < EndOf(Kept) /\ a # OtherSlot(SelectedSlot(Kept)) => Kept'[a] = Kept[a]
        BY <1>9, <2>3
  <2>6. /\ Kept'[OtherSlot(SelectedSlot(Kept))] = SuperOf(Kept', Tip)
        /\ Kept[SelectedSlot(Kept)].gen < SuperOf(Kept', Tip).gen
        BY <1>9, <2>2, <2>3
  <2>5. /\ Sound(Kept') /\ SelectedSlot(Kept') = op.slot /\ EndOf(Kept') = Tip
        /\ Found(Kept') = {Objects(Kept', Tip)}
    <3>1. /\ Kept \in Image /\ Sound(Kept) /\ Kept' \in Image /\ Tip \in DATA0 .. Cap + 1
          /\ EndOf(Kept) <= Tip
          BY <1>2, <1>4, <1>5, <1>8, <1>9
    <3>2. /\ Sound(Kept') /\ SelectedSlot(Kept') = OtherSlot(SelectedSlot(Kept)) /\ EndOf(Kept') = Tip
          /\ Found(Kept') = {Objects(Kept', Tip)}
          BY <2>2, <2>4, <2>6, <3>1, NewLog
    <3> QED
        BY <2>3, <3>2
  <2> QED
      BY <1>8, <1>9, <2>2, <2>5
<1>10. ASSUME \A a \in Addr : Kept'[a] = Kept[a] \/ (Live /\ a = op.slot /\ Kept'[a] = Junk)
       PROVE  /\ Sound(Kept') /\ SelectedSlot(Kept') = SelectedSlot(Kept) /\ EndOf(Kept') = EndOf(Kept)
              /\ Found(Kept') = Found(Kept)
  <2>1. Junk.is # "super"
        BY DEF Junk
  <2>2. Live => op.slot # SelectedSlot(Kept)
        BY <1>2, <1>8
  <2>3. \A a \in Addr : \/ Kept'[a] = Kept[a]
                        \/ a \in Slots /\ a # SelectedSlot(Kept) /\ Kept'[a].is # "super"
        BY <1>2, <1>10, <2>1, <2>2
  <2> QED
      BY <1>4, <1>5, <2>3, SameLog
<1>11. ASSUME Complete("super barrier", c)
       PROVE  LogInv' /\ Live /\ Found(Kept') = goal /\ answer' = answer /\ goal' = goal
  <2>1. Live /\ Live' /\ pc' = "super barrier" /\ op' = op /\ answer' = answer /\ goal' = goal
        BY <1>11 DEF Complete
  <2>2. \A a \in Addr : /\ ram'[a] = IF a = op.slot THEN op.super ELSE ram[a]
                        /\ Kept'[a] = IF a = op.slot THEN op.super ELSE Kept[a]
        BY <1>3, <1>11 DEF Complete
  <2>3. /\ Sound(Kept') /\ SelectedSlot(Kept') = op.slot /\ EndOf(Kept') = Tip
        /\ Found(Kept') = goal
        BY <1>2, <1>9, <2>1, <2>2
  <2>4. \A a \in DATA0 .. Tip - 1 : ram'[a] = ram[a]
        BY <1>7, <2>2
  <2>5. Rest(Objects(ram, Tip))' = Rest(Objects(ram, Tip)) /\ Tip' = Tip
        BY <1>1, <1>4, <2>1, <2>4, RestKept
  <2>6. goal' = {Rest(Objects(ram, Tip))}'
        BY <1>1, <2>1, <2>5 DEF LogInv
  <2>7. Reach' = Tip
        BY <2>1, <2>5, ReachThen
  <2>8. Agree(Reach)'
    <3> SUFFICES ASSUME NEW a \in Addr, a < Reach'
                 PROVE  Kept'[a] = ram'[a]
        BY DEF Agree
    <3>1. Kept[a] = ram[a]
          BY <1>8, <2>1, <2>7 DEF Agree
    <3> QED
        BY <2>2, <3>1
  <2>9. Sectors' /\ ~active' => ram' = Blank /\ pc' \in {"off", "idle"}
        BY <1>1, <1>4 DEF LogInv, Busy, Writing, Closing
  <2>10. SelectedSlot(Kept)' = IF pc' \in {"super barrier", "verify"} THEN op'.slot ELSE Base'
         BY <2>1, <2>3
  <2>11. Busy' /\ pc' \notin {"format", "format barrier"}
         BY <2>1 DEF Busy, Closing
  <2>12. LogInv'
         BY <2>1, <2>3, <2>6, <2>8, <2>9, <2>10, <2>11 DEF LogInv
  <2> QED
      BY <2>1, <2>3, <2>12
<1>12. ASSUME CutOff(c)
       PROVE  LogInv' /\ Abandon /\ (Found(Kept') = Found(Kept) \/ (Live /\ Found(Kept') = goal))
  <2>1. \A a \in Addr : Kept'[a] = Kept[a] \/ (Live /\ a = op.slot /\ (Kept'[a] = op.super \/ Kept'[a] = Junk))
        BY <1>3, <1>12 DEF CutOff
  <2>2. \A a \in DOMAIN c : a < Tip => \E b \in Slots : DOMAIN c = {b}
        BY <1>2, <1>3
  <2>3. /\ Sound(Kept') /\ (Live => EndOf(Kept') <= Tip) /\ EndOf(Kept') \in Int
        /\ Found(Kept') = Found(Kept) \/ (Live /\ Found(Kept') = goal)
    <3>1. CASE Live /\ Kept'[op.slot] = op.super
      <4>1. \A a \in Addr : a # op.slot => Kept'[a] = Kept[a]
            BY <2>1
      <4>2. Tip <= Tip
            BY <1>2
      <4> QED
          BY <1>2, <1>9, <3>1, <4>1, <4>2
    <3>2. CASE ~(Live /\ Kept'[op.slot] = op.super)
      <4>1. \A a \in Addr : Kept'[a] = Kept[a] \/ (Live /\ a = op.slot /\ Kept'[a] = Junk)
            BY <2>1, <3>2
      <4> QED
          BY <1>5, <1>8, <1>10, <4>1
    <3> QED
        BY <3>1, <3>2
  <2>4. Abandon
        BY <1>12 DEF CutOff
  <2> QED
      BY <1>1, <1>4, <1>12, <2>2, <2>3, <2>4, LogGivenUp
<1>13. CASE Complete("super barrier", c)
       BY <1>1, <1>11, <1>13
<1>14. CASE CutOff(c)
       BY <1>1, <1>12, <1>14
<1> QED
    BY <1>4, <1>13, <1>14

LEMMA LogHeader ==
    ASSUME WInv, LogInv, Gentle, WriteHeader
    PROVE  /\ LogInv' /\ Found(Kept') = Found(Kept) /\ pc = "header"
           /\ Abandon \/ (answer' = answer /\ goal' = goal)
<1> DEFINE j == op.jobs[1]
           c == [a \in {j.off} |-> Header(j.obj, j.gen, FALSE)]
<1>1. pc = "header" /\ Writing
      BY DEF WriteHeader, Phase, Writing
<1>2. /\ j \in Jobs /\ Head(op.jobs) = j /\ j.off = Tip /\ Tip \in Units /\ Tip \in Addr
      /\ j.obj \in Objs /\ j.gen \in Nat /\ Busy
      BY <1>1, JobUnits
<1>3. Phase("header", c, c, "payload")
      BY <1>2 DEF WriteHeader
<1>4. Header(j.obj, j.gen, FALSE) \in Headers
      BY <1>2, Written
<1>5. c = [a \in {Tip} |-> Header(j.obj, j.gen, FALSE)] /\ DOMAIN c = {Tip}
      BY <1>2
<1>6. Fragment(c)
      BY <1>2, <1>4, <1>5 DEF Fragment, Content
<1> HIDE DEF c
<1>7. \A a \in Addr : a \in Int
      BY Addresses
<1>8. \A a \in DOMAIN c : a \in Addr /\ a >= Tip
      BY <1>2, <1>5, <1>7
<1>9. pc' = "payload" /\ op' = op => \A a \in Addr : a < Reach' => a \in DOMAIN c \/ a < Reach
  <2>1. pc' = "payload" /\ op' = op => Reach' = Tip + 1
        BY ReachAfter
  <2>2. Reach = Tip
        BY <1>1, ReachNow
  <2>3. \A a \in Addr : a < Tip + 1 => a = Tip \/ a < Tip
        BY <1>2, <1>7
  <2> QED
      BY <1>5, <2>1, <2>2, <2>3
<1>10. InTurn("header", "payload") /\ "header" # "super"
       BY DEF InTurn
<1> QED
    BY <1>1, <1>3, <1>6, <1>8, <1>9, <1>10, LogPhase

LEMMA LogPayload ==
    ASSUME WInv, LogInv, Gentle, WritePayload
    PROVE  /\ LogInv' /\ Found(Kept') = Found(Kept) /\ pc = "payload"
           /\ Abandon \/ (answer' = answer /\ goal' = goal)
<1> DEFINE j == op.jobs[1]
           c == [a \in (j.off + 1) .. (j.off + j.obj.len) |-> Payload(j.obj, a - j.off)]
<1>1. pc = "payload" /\ Writing
      BY DEF WritePayload, Phase, Writing
<1>2. /\ j \in Jobs /\ Head(op.jobs) = j /\ j.off = Tip /\ Tip \in Units /\ Tip \in Addr
      /\ j.obj \in Objs /\ j.gen \in Nat /\ j.obj.len \in Nat \ {0} /\ Busy
      /\ \A i \in 1 .. j.obj.len : Tip + i \in Units /\ Tip + i \in Addr
      /\ Tip + Extent(j.obj) = Tip + 1 + j.obj.len
      BY <1>1, JobUnits
<1>3. Phase("payload", c, c, "commit")
      BY <1>2 DEF WritePayload
<1>4. Tip \in Nat
      BY <1>2, Addresses
<1>5. DOMAIN c = Tip + 1 .. Tip + j.obj.len /\ \A a \in DOMAIN c : c[a] = Payload(j.obj, a - Tip)
      BY <1>2
<1> HIDE DEF c
<1>6. \A a \in DOMAIN c : a - Tip \in 1 .. j.obj.len /\ a - Tip \in Nat /\ Tip + (a - Tip) = a /\ a >= Tip
      BY <1>2, <1>4, <1>5
<1>7. \A a \in DOMAIN c : a \in Addr /\ a >= Tip
      BY <1>2, <1>6
<1>8. Fragment(c)
  <2>1. \A a \in DOMAIN c : c[a] \in Payloads
        BY <1>2, <1>5, <1>6, Written
  <2> QED
      BY <1>7, <2>1 DEF Fragment, Content
<1>9. \A a \in Addr : a \in Int
      BY Addresses
<1>10. pc' = "commit" /\ op' = op => \A a \in Addr : a < Reach' => a \in DOMAIN c \/ a < Reach
  <2>1. pc' = "commit" /\ op' = op => Reach' = Tip + 1 + j.obj.len
        BY <1>2, ReachAfter
  <2>2. Reach = Tip + 1
        BY <1>1, ReachNow
  <2> DEFINE l == j.obj.len
  <2>3. l \in Nat /\ DOMAIN c = Tip + 1 .. Tip + l
        BY <1>2, <1>5
  <2> HIDE DEF l
  <2>4. \A a \in Addr : a < Tip + 1 + l => a \in Tip + 1 .. Tip + l \/ a < Tip + 1
        BY <1>4, <1>9, <2>3
  <2> QED
      BY <2>1, <2>2, <2>3, <2>4 DEF l
<1>11. InTurn("payload", "commit") /\ "payload" # "super"
       BY DEF InTurn
<1> QED
    BY <1>1, <1>3, <1>7, <1>8, <1>10, <1>11, LogPhase

LEMMA LogCommit ==
    ASSUME WInv, LogInv, Gentle, WriteCommit
    PROVE  /\ LogInv' /\ Found(Kept') = Found(Kept) /\ pc = "commit"
           /\ Abandon \/ (answer' = answer /\ goal' = goal)
<1> DEFINE j == op.jobs[1]
           committed(h) == IF h.is = "head" THEN [h EXCEPT !.commit = TRUE] ELSE h
           c(image) == [a \in {Head(op.jobs).off} |-> committed(image[a])]
<1>1. pc = "commit" /\ Writing
      BY DEF WriteCommit, Phase, Writing
<1>2. /\ j \in Jobs /\ Head(op.jobs) = j /\ j.off = Tip /\ Tip \in Units /\ Tip \in Addr
      /\ j.obj \in Objs /\ j.obj.len \in Nat \ {0} /\ Busy
      /\ Tip + Extent(j.obj) = Tip + 1 + j.obj.len
      BY <1>1, JobUnits
<1>3. Phase("commit", c(disk), c(ram), "barrier")
      BY DEF WriteCommit
<1>4. ASSUME NEW image \in Image
      PROVE  Fragment(c(image)) /\ DOMAIN c(image) = {Tip}
  <2>1. image[Tip] \in Content /\ (image[Tip].is = "head" => image[Tip] \in Headers)
        BY <1>2, Images1, Contents
  <2>2. \A h \in Headers : [h EXCEPT !.commit = TRUE] \in Headers
        BY DEF Headers
  <2>3. committed(image[Tip]) \in Content
        BY <2>1, <2>2 DEF Content
  <2>4. c(image) = [a \in {Tip} |-> committed(image[a])]
        BY <1>2
  <2> HIDE DEF c, committed
  <2> QED
      BY <1>2, <2>3, <2>4 DEF Fragment
<1>5. (active => Fragment(c(disk))) /\ Fragment(c(ram)) /\ DOMAIN c(ram) = {Tip}
      BY <1>4, Facts
<1>6. Live /\ active => c(disk) = c(ram)
  <2> SUFFICES ASSUME Live, active
               PROVE  c(disk) = c(ram)
      OBVIOUS
  <2>1. Kept = disk
        BY Facts DEF Kept
  <2>2. Tip < Reach
    <3>1. Reach = Tip + 1 + j.obj.len
          BY <1>1, <1>2, ReachNow
    <3>2. Tip \in Nat
          BY <1>2, Addresses
    <3> DEFINE l == j.obj.len
    <3>3. l \in Nat /\ Reach = Tip + 1 + l
          BY <1>2, <3>1
    <3> HIDE DEF l
    <3> QED
        BY <3>2, <3>3
  <2>3. disk[Tip] = ram[Tip]
        BY <1>2, <2>1, <2>2 DEF LogInv, Agree
  <2> QED
      BY <1>2, <2>3
<1> HIDE DEF c
<1>7. \A a \in Addr : a \in Int
      BY Addresses
<1>8. \A a \in DOMAIN c(ram) : a \in Addr /\ a >= Tip
      BY <1>2, <1>5, <1>7
<1>9. pc' = "barrier" /\ op' = op => \A a \in Addr : a < Reach' => a \in DOMAIN c(ram) \/ a < Reach
  <2>1. pc' = "barrier" /\ op' = op => Reach' = Reach
        BY <1>1, ReachAfter, ReachNow
  <2> QED
      BY <2>1
<1>10. InTurn("commit", "barrier") /\ "commit" # "super"
       BY DEF InTurn
<1> QED
    BY <1>1, <1>3, <1>5, <1>6, <1>8, <1>9, <1>10, LogPhase

\* A step that writes neither and gives the append up, or finishes it.
LEMMA LogIdle ==
    ASSUME WInv, LogInv, Busy, pc' = "idle", disk' = disk, active' = active,
           Sectors \/ ram' = ram,
           Live' => Live /\ \A a \in Addr : ram'[a] = ram[a] \/ ram'[a] = Kept[a]
    PROVE  LogInv' /\ Kept' = Kept
<1>1. ~Busy' /\ Sectors' = Sectors
      BY DEF Busy, Writing, Closing, Sectors
<1>2. Kept' = Kept
      BY <1>1 DEF Kept
<1>3. Sectors => active
      BY DEF LogInv, Busy, Writing, Closing
<1>4. ASSUME Live'
      PROVE  Agree(EndOf(Kept))'
  <2>1. Agree(Tip) /\ EndOf(Kept) <= Tip /\ Tip \in Int /\ EndOf(Kept) \in Int
        BY <1>4, LogBounds, BusyFacts, HeadsAreInt
  <2>2. \A a \in Addr : a \in Int
        BY Addresses
  <2>3. \A a \in Addr : a < EndOf(Kept) => a < Tip
        BY <2>1, <2>2
  <2>4. \A a \in Addr : a < EndOf(Kept) => Kept[a] = ram'[a]
        BY <1>4, <2>1, <2>3 DEF Agree
  <2> QED
      BY <1>2, <2>4 DEF Agree
<1>5. Sound(Kept)'
      BY <1>2 DEF LogInv
<1> QED
    BY <1>1, <1>2, <1>3, <1>4, <1>5 DEF LogInv

\* A barrier whose step leaves the session usable found it so.
LEMMA BarrierLive ==
    ASSUME WInv, LogInv, Busy, NEW o \in BarrierOutcomes, latched' = o.latched, disk' = disk, active' = active
    PROVE  /\ Sectors' = Sectors
           /\ (Live' => Live) /\ (o.ok /\ pc' # "off" => Live /\ Live')
<1>1. Sectors' = Sectors /\ pc # "off"
      BY DEF Sectors, Busy, Writing, Closing
<1>2. Sectors => active
      BY DEF LogInv, Busy, Writing, Closing
<1>3. active /\ ~latched' => ~latched
      BY BarrierUnlatched
<1>4. active /\ o.ok => ~latched /\ ~latched'
      BY BarrierOutcome, Facts
<1> QED
    BY <1>1, <1>2, <1>3, <1>4 DEF Live

LEMMA LogDataBarrier ==
    ASSUME WInv, LogInv, DataBarrier
    PROVE  /\ LogInv' /\ Kept' = Kept /\ pc = "barrier"
           /\ Abandon \/ (answer' = answer /\ goal' = goal)
<1>1. pc = "barrier" /\ Writing /\ Busy /\ ram' = ram /\ disk' = disk /\ active' = active
      BY DEF DataBarrier, Writing, Busy
<1>2. PICK o \in BarrierOutcomes :
         /\ latched' = o.latched
         /\ \/ Abandon
            \/ /\ o.ok /\ op' = [op EXCEPT !.jobs = Tail(@)]
               /\ pc' = IF Len(op.jobs) > 1 THEN "header" ELSE "super"
               /\ answer' = answer /\ goal' = goal
      BY DEF DataBarrier
<1>3. /\ Sectors' = Sectors
      /\ (Live' => Live) /\ (o.ok /\ pc' # "off" => Live /\ Live')
      BY <1>1, <1>2, BarrierLive
<1>4. ASSUME Abandon
      PROVE  LogInv' /\ Kept' = Kept
  <2>1. pc' = "idle"
        BY <1>4 DEF Abandon, Finish
  <2> QED
      BY <1>1, <1>3, <2>1, LogIdle
<1>5. ASSUME o.ok, op' = [op EXCEPT !.jobs = Tail(@)],
             pc' = IF Len(op.jobs) > 1 THEN "header" ELSE "super",
             goal' = goal
      PROVE  LogInv' /\ Kept' = Kept
  <2>1. /\ op'.slot = op.slot /\ Base' = Base /\ Tip' = Tip + Extent(op.jobs[1].obj)
        /\ op'.jobs = Tail(op.jobs) /\ Len(op'.jobs) = Len(op.jobs) - 1 /\ Len(op.jobs) \in {1, 2}
        /\ Len(op.jobs) = 2 => op'.jobs[1] = op.jobs[2]
        BY <1>1, <1>5, JobTaken
  <2>2. Kept' = Kept
        BY <1>1, <1>3 DEF Kept
  <2>3. pc' \in {"header", "super"} /\ Busy'
        BY <1>5 DEF Busy, Writing, Closing
  <2>4. Live /\ Live'
        BY <1>3, <1>5, <2>3
  <2>5. Reach' = Tip' /\ Reach = Tip + Extent(op.jobs[1].obj)
        BY <1>1, <2>3, ReachThen, ReachNow
  <2>6. Agree(Reach)'
        BY <1>1, <2>1, <2>2, <2>4, <2>5 DEF LogInv, Agree
  <2>7. Objects(ram, Tip') = Append(Objects(ram, Tip), op.jobs[1].obj)
        BY <1>1, <2>1, JobDone
  <2>8. Rest(Objects(ram, Tip))' = Rest(Objects(ram, Tip))
    <3>1. CASE Len(op.jobs) = 1
      <4>1. Len(op'.jobs) = 0
            BY <2>1, <3>1
      <4> QED
          BY <1>1, <2>7, <3>1, <4>1 DEF Rest
    <3>2. CASE Len(op.jobs) = 2
      <4>1. Len(op'.jobs) = 1 /\ op'.jobs[1].obj = op.jobs[2].obj
            BY <2>1, <3>2
      <4> QED
          BY <1>1, <2>7, <3>2, <4>1 DEF Rest
    <3> QED
        BY <2>1, <3>1, <3>2
  <2>9. SelectedSlot(Kept) = Base /\ goal = {Rest(Objects(ram, Tip))} /\ Sound(Kept) /\ (Sectors => active)
        BY <1>1, <2>4 DEF LogInv
  <2>10. SelectedSlot(Kept)' = IF pc' \in {"super barrier", "verify"} THEN op'.slot ELSE Base'
         BY <2>1, <2>2, <2>3, <2>9
  <2>11. goal' = {Rest(Objects(ram, Tip))}'
         BY <1>5, <2>8, <2>9
  <2>12. Sound(Kept)' /\ (Sectors' => active') /\ pc' \notin {"format", "format barrier"}
         BY <1>1, <1>3, <2>2, <2>3, <2>9
  <2> QED
      BY <2>2, <2>3, <2>4, <2>6, <2>10, <2>11, <2>12 DEF LogInv
<1> QED
    BY <1>1, <1>2, <1>4, <1>5

\* The superblock of the append is there.
Sealed == pc \in {"super barrier", "verify"}

\* Success is answered for what a restart finds.
LEMMA GoalReached ==
    ASSUME WInv, LogInv, Sealed, Live
    PROVE  Found(Kept) = goal
<1>1. Busy /\ Closing
      BY DEF Busy, Closing, Sealed
<1>2. /\ Found(Kept) = {Objects(Kept, EndOf(Kept))} /\ EndOf(Kept) = Tip /\ Agree(Tip)
      /\ goal = {Rest(Objects(ram, Tip))} /\ Kept \in Image /\ ram \in Image
  <2>1. /\ Found(Kept) = {Objects(Kept, EndOf(Kept))} /\ Agree(Tip) /\ Kept \in Image
        /\ EndOf(Kept) = Tip
        BY <1>1, LogBounds DEF Sealed
  <2>2. goal = {Rest(Objects(ram, Tip))}
        BY <1>1 DEF LogInv
  <2> QED
      BY <2>1, <2>2, Facts
<1>3. op.jobs = <<>> /\ Tip \in DATA0 .. Cap + 1 /\ Chained(ram, Tip)
      BY <1>1, BusyFacts
<1>4. Rest(Objects(ram, Tip)) = Objects(ram, Tip)
  <2>1. Len(op.jobs) = 0
        BY <1>3
  <2> QED
      BY <2>1 DEF Rest
<1>5. \A a \in DATA0 .. Tip - 1 : Kept[a] = ram[a]
  <2> SUFFICES ASSUME NEW a \in DATA0 .. Tip - 1
               PROVE  Kept[a] = ram[a]
      OBVIOUS
  <2>1. a \in Addr
        BY <1>3, BelowHead
  <2>2. a < Tip
        BY <1>3, <2>1, Addresses
  <2> QED
      BY <1>2, <2>1, <2>2 DEF Agree
<1>6. Objects(Kept, Tip) = Objects(ram, Tip)
      BY <1>2, <1>3, <1>5, SameChain
<1> QED
    BY <1>2, <1>4, <1>6

LEMMA LogSuperBarrier ==
    ASSUME WInv, LogInv, SuperBarrier
    PROVE  /\ LogInv' /\ Kept' = Kept /\ pc = "super barrier"
           /\ \/ Abandon
              \/ answer' = answer /\ goal' = goal
              \/ Found(Kept) = goal /\ answer' \in {"ok", "committed"} /\ goal' = goal
<1>1. pc = "super barrier" /\ Busy /\ ram' = ram /\ disk' = disk /\ active' = active
      BY DEF SuperBarrier, Closing, Busy
<1>2. PICK o \in BarrierOutcomes :
         /\ latched' = o.latched
         /\ \/ ~o.ok /\ Abandon
            \/ o.ok /\ Accept
            \/ o.ok /\ pc' = "verify" /\ op' = op /\ answer' = answer /\ goal' = goal
      BY DEF SuperBarrier
<1>3. /\ Sectors' = Sectors
      /\ (Live' => Live) /\ (o.ok /\ pc' # "off" => Live /\ Live')
      BY <1>1, <1>2, BarrierLive
<1>4. ASSUME Abandon
      PROVE  LogInv' /\ Kept' = Kept
  <2>1. pc' = "idle"
        BY <1>4 DEF Abandon, Finish
  <2> QED
      BY <1>1, <1>3, <2>1, LogIdle
<1>5. ASSUME o.ok, Accept
      PROVE  /\ LogInv' /\ Kept' = Kept
             /\ Found(Kept) = goal /\ answer' \in {"ok", "committed"} /\ goal' = goal
  <2>1. pc' = "idle" /\ answer' \in {"ok", "committed"} /\ goal' = goal
        BY <1>5 DEF Accept, Finish
  <2>2. LogInv' /\ Kept' = Kept
        BY <1>1, <1>3, <2>1, LogIdle
  <2>3. Live
        BY <1>3, <1>5, <2>1
  <2> QED
      BY <1>1, <2>1, <2>2, <2>3, GoalReached DEF Sealed
<1>6. ASSUME o.ok, pc' = "verify", op' = op, goal' = goal
      PROVE  LogInv' /\ Kept' = Kept
  <2>1. Kept' = Kept
        BY <1>1, <1>3 DEF Kept
  <2>2. Live /\ Live' /\ Busy'
        BY <1>3, <1>6 DEF Busy, Closing
  <2>3. Tip' = Tip /\ Base' = Base /\ Reach' = Reach
        BY <1>1, <1>6, ReachAfter, ReachNow DEF Base
  <2>4. Agree(Reach)'
        BY <1>1, <2>1, <2>2, <2>3 DEF LogInv, Agree
  <2>5. Rest(Objects(ram, Tip))' = Rest(Objects(ram, Tip))
        BY <1>1, <1>6, <2>3 DEF Rest
  <2>6. goal' = {Rest(Objects(ram, Tip))}'
        BY <1>1, <1>6, <2>2, <2>5 DEF LogInv
  <2>7. SelectedSlot(Kept)' = op'.slot
        BY <1>1, <1>6, <2>1, <2>2 DEF LogInv
  <2>8. Sound(Kept)'
        BY <2>1 DEF LogInv
  <2>9. Sectors' => active'
        BY <1>1, <1>3 DEF LogInv
  <2> QED
      BY <1>6, <2>1, <2>2, <2>4, <2>6, <2>7, <2>8, <2>9 DEF LogInv
<1> QED
    BY <1>1, <1>2, <1>4, <1>5, <1>6

LEMMA LogVerify ==
    ASSUME WInv, LogInv, Verify
    PROVE  /\ LogInv' /\ Kept' = Kept /\ pc = "verify" /\ Found(Kept) = goal
           /\ answer' \in {"ok", "committed", "unknown"} /\ goal' = goal
<1>1. /\ pc = "verify" /\ Busy /\ active /\ Sectors /\ disk' = disk /\ active' = active
      /\ latched' = latched /\ ~latched /\ pc' = "idle"
      /\ \A a \in Addr : ram'[a] = IF a \in DATA0 .. (op.super.head - 1) \/ a = op.slot
                                   THEN disk[a] ELSE ram[a]
      BY VerifyReads
<1>2. Live /\ Kept = disk
      BY <1>1 DEF Live, Kept
<1>3. LogInv' /\ Kept' = Kept
      BY <1>1, <1>2, LogIdle
<1>4. answer' \in {"ok", "committed", "unknown"} /\ goal' = goal
      BY DEF Verify, Accept, Finish
<1> QED
    BY <1>1, <1>2, <1>3, <1>4, GoalReached DEF Sealed

LEMMA LogVerifyFails ==
    ASSUME WInv, LogInv, VerifyFails
    PROVE  LogInv' /\ Kept' = Kept /\ pc = "verify" /\ Abandon
<1>1. pc = "verify" /\ Busy /\ latched' = TRUE /\ Abandon /\ disk' = disk /\ active' = active
      BY DEF VerifyFails, Busy, Closing
<1>2. pc' = "idle"
      BY <1>1 DEF Abandon, Finish
<1>3. Sectors /\ ~Live'
      BY <1>1 DEF WInv, Conduct, Live, Sectors
<1> QED
    BY <1>1, <1>2, <1>3, LogIdle

-----------------------------------------------------------------------------
(* The other steps and the log.                                            *)

LEMMA ConcatIs ==
    ASSUME NEW S, NEW l \in Seq(S), NEW s \in Seq(S)
    PROVE  /\ Len(s) = 1 => l \o s = Append(l, s[1])
           /\ Len(s) = 2 => l \o s = Append(Append(l, s[1]), s[2])
<1>1. l \o s \in Seq(S) /\ Len(l \o s) = Len(l) + Len(s)
      /\ \A i \in 1 .. Len(l) + Len(s) : (l \o s)[i] = IF i <= Len(l) THEN l[i] ELSE s[i - Len(l)]
      BY ConcatProperties
<1>2. ASSUME NEW t \in Seq(S), NEW x \in S
      PROVE  /\ Append(t, x) \in Seq(S) /\ Len(Append(t, x)) = Len(t) + 1
             /\ \A i \in 1 .. Len(t) + 1 : Append(t, x)[i] = IF i <= Len(t) THEN t[i] ELSE x
      BY AppendProperties
<1>3. ASSUME NEW t \in Seq(S), NEW u \in Seq(S), Len(t) = Len(u), \A i \in 1 .. Len(t) : t[i] = u[i]
      PROVE  t = u
      BY <1>3, SeqEqual
<1>4. Len(l) \in Nat
      BY LenProperties
<1>5. ASSUME Len(s) = 1
      PROVE  l \o s = Append(l, s[1])
  <2>1. s[1] \in S
    <3>1. 1 \in 1 .. Len(s)
          BY <1>5
    <3> QED
        BY <3>1, ElementOfSeq
  <2>2. /\ Append(l, s[1]) \in Seq(S) /\ Len(Append(l, s[1])) = Len(l) + 1
        /\ \A i \in 1 .. Len(l) + 1 : Append(l, s[1])[i] = IF i <= Len(l) THEN l[i] ELSE s[1]
        BY <1>2, <2>1
  <2>3. \A i \in 1 .. Len(l) + 1 : (l \o s)[i] = Append(l, s[1])[i]
    <3> SUFFICES ASSUME NEW i \in 1 .. Len(l) + 1
                 PROVE  (l \o s)[i] = Append(l, s[1])[i]
        OBVIOUS
    <3>1. CASE i <= Len(l)
          BY <1>1, <1>5, <2>2, <3>1
    <3>2. CASE i = Len(l) + 1
      <4>1. i - Len(l) = 1 /\ ~(i <= Len(l))
            BY <1>4, <3>2
      <4> QED
          BY <1>1, <1>5, <2>2, <4>1
    <3>3. i <= Len(l) \/ i = Len(l) + 1
          BY <1>4
    <3> QED
        BY <3>1, <3>2, <3>3
  <2>4. Len(l \o s) = Len(l) + 1
        BY <1>1, <1>5
  <2> QED
      BY <1>1, <1>3, <2>2, <2>3, <2>4
<1>6. ASSUME Len(s) = 2
      PROVE  l \o s = Append(Append(l, s[1]), s[2])
  <2>1. s[1] \in S /\ s[2] \in S
        BY <1>6
  <2> DEFINE t == Append(l, s[1])
  <2>2. /\ t \in Seq(S) /\ Len(t) = Len(l) + 1
        /\ \A i \in 1 .. Len(l) + 1 : t[i] = IF i <= Len(l) THEN l[i] ELSE s[1]
        BY <1>2, <2>1
  <2> HIDE DEF t
  <2>3. /\ Append(t, s[2]) \in Seq(S) /\ Len(Append(t, s[2])) = Len(l) + 2
        /\ \A i \in 1 .. Len(l) + 2 : Append(t, s[2])[i] = IF i <= Len(l) + 1 THEN t[i] ELSE s[2]
        BY <1>2, <1>4, <2>1, <2>2
  <2>4. \A i \in 1 .. Len(l) + 2 : (l \o s)[i] = Append(t, s[2])[i]
    <3> SUFFICES ASSUME NEW i \in 1 .. Len(l) + 2
                 PROVE  (l \o s)[i] = Append(t, s[2])[i]
        OBVIOUS
    <3>1. CASE i <= Len(l)
          BY <1>1, <1>4, <1>6, <2>2, <2>3, <3>1
    <3>2. CASE i = Len(l) + 1
      <4>1. i - Len(l) = 1 /\ ~(i <= Len(l)) /\ i \in 1 .. Len(l) + 1
            BY <1>4, <3>2
      <4> QED
          BY <1>1, <1>6, <2>2, <2>3, <4>1
    <3>3. CASE i = Len(l) + 2
      <4>1. i - Len(l) = 2 /\ ~(i <= Len(l)) /\ ~(i <= Len(l) + 1)
            BY <1>4, <3>3
      <4> QED
          BY <1>1, <1>6, <2>3, <4>1
    <3>4. i <= Len(l) \/ i = Len(l) + 1 \/ i = Len(l) + 2
          BY <1>4
    <3> QED
        BY <3>1, <3>2, <3>3, <3>4
  <2>6. Len(l \o s) = Len(l) + 2
        BY <1>1, <1>6
  <2>5. l \o s = Append(t, s[2])
        BY <1>1, <1>3, <2>3, <2>4, <2>6
  <2> QED
      BY <2>5 DEF t
<1> QED
    BY <1>5, <1>6

\* What the store serves between two operations is the log on the medium.
LEMMA Mirrored ==
    ASSUME WInv, LogInv, Live, ~Busy
    PROVE  /\ Sound(ram) /\ SelectedSlot(ram) = SelectedSlot(Kept) /\ EndOf(ram) = EndOf(Kept)
           /\ Objects(ram, EndOf(Kept)) = Objects(Kept, EndOf(Kept))
           /\ Found(ram) = Found(Kept)
<1>1. Agree(EndOf(Kept)) /\ Sound(Kept)
      BY DEF LogInv
<1>2. Kept \in Image /\ ram \in Image
      BY Facts
<1>3. \A a \in Addr : a < EndOf(Kept) => ram[a] = Kept[a]
      BY <1>1 DEF Agree
<1> QED
    BY <1>1, <1>2, <1>3, SameLog

LEMMA LogBegin ==
    ASSUME WInv, LogInv, NEW deploy \in BOOLEAN, NEW objs, Begin(deploy, objs),
           IF deploy THEN objs \in Deployments ELSE \E obj \in Singles : objs = <<obj>>
    PROVE  /\ LogInv' /\ Kept' = Kept /\ answer # "busy"
           /\ \/ answer' \in {"rejected", "failed"} /\ goal' = goal
              \/ answer' = "busy" /\ \E l \in Found(Kept) : goal' = {l \o objs}
<1>1. pc = "idle" /\ ram' = ram /\ disk' = disk /\ active' = active /\ latched' = latched
      BY Planning, Zenon
<1>2. \/ pc' = "idle" /\ answer' \in {"rejected", "failed"} /\ goal' = goal
      \/ /\ pc' = "header" /\ answer' = "busy" /\ goal' = {l \o objs : l \in Found(Kept)}
         /\ Verdict(ram) = "valid"
         /\ Base' = SelectedSlot(ram) /\ Tip' = ram[SelectedSlot(ram)].head
         /\ Len(op'.jobs) = Len(objs) /\ op'.jobs[1].obj = objs[1]
         /\ Len(objs) = 2 => op'.jobs[2].obj = objs[2]
      BY Planning, Zenon
<1>3. Kept' = Kept /\ Sectors' = Sectors /\ answer # "busy" /\ ~Busy
      BY <1>1 DEF Kept, Sectors, WInv, Conduct, Busy, Writing, Closing
<1>4. pc' # "off"
      BY <1>2
<1>5. Live' <=> Live
      BY <1>1, <1>3, <1>4 DEF Live
<1>6. Sound(Kept) /\ (Live => Agree(EndOf(Kept)))
      BY <1>3 DEF LogInv
<1>7. ASSUME pc' = "idle"
      PROVE  LogInv'
  <2>1. ~Busy'
        BY <1>7 DEF Busy, Writing, Closing
  <2>2. Live' => Agree(EndOf(Kept))'
        BY <1>1, <1>3, <1>5, <1>6 DEF Agree
  <2>3. Sectors' /\ ~active' => ram' = Blank
        BY <1>1, <1>3 DEF LogInv
  <2>4. Sound(Kept)'
        BY <1>3, <1>6
  <2> QED
      BY <1>7, <2>1, <2>2, <2>3, <2>4 DEF LogInv
<1>8. ASSUME pc' = "header", goal' = {l \o objs : l \in Found(Kept)}, Verdict(ram) = "valid",
             Base' = SelectedSlot(ram), Tip' = ram[SelectedSlot(ram)].head,
             Len(op'.jobs) = Len(objs), op'.jobs[1].obj = objs[1],
             Len(objs) = 2 => op'.jobs[2].obj = objs[2]
      PROVE  LogInv' /\ \E l \in Found(Kept) : goal' = {l \o objs}
  <2> DEFINE log == Objects(Kept, EndOf(Kept))
  <2>1. Sectors => active
    <3>1. Sectors /\ ~active => ram = Blank
          BY DEF LogInv
    <3> QED
        BY <1>8, <3>1, BlankIsEmpty
  <2>2. Found(Kept) = {log} /\ Chained(Kept, EndOf(Kept)) /\ Kept \in Image
        BY <1>6, Facts, SoundLog
  <2> HIDE DEF log
  <2>3. goal' = {log \o objs} /\ log \in Found(Kept)
        BY <1>8, <2>2
  <2>4. Busy'
        BY <1>8 DEF Busy, Writing
  <2>5. ASSUME Live
        PROVE  /\ Agree(Reach)' /\ SelectedSlot(Kept)' = Base' /\ goal' = {Rest(Objects(ram, Tip))}'
    <3>1. /\ SelectedSlot(ram) = SelectedSlot(Kept) /\ EndOf(ram) = EndOf(Kept)
          /\ Objects(ram, EndOf(Kept)) = log
          BY <1>3, <2>5, Mirrored DEF log
    <3>2. Tip' = EndOf(Kept)
          BY <1>8, <3>1 DEF EndOf
    <3>3. Reach' = EndOf(Kept)
      <4>1. Reach' = Tip'
            BY <1>8, ReachThen
      <4> QED
          BY <3>2, <4>1
    <3>4. Agree(Reach)'
          BY <1>1, <1>3, <1>6, <2>5, <3>3 DEF Agree
    <3>5. Objects(ram, Tip)' = log
          BY <1>1, <3>1, <3>2
    <3>6. log \in Seq(Objs) /\ objs \in Seq(Objs) /\ Len(objs) \in {1, 2}
      <4>1. log \in Seq(Objs)
            BY <2>2, ObjectsAre DEF log
      <4> QED
          BY <4>1, AppendsOk
    <3>7. Rest(Objects(ram, Tip))' = log \o objs
      <4>1. CASE Len(objs) = 1
        <5>1. log \o objs = Append(log, op'.jobs[1].obj)
              BY <1>8, <3>6, <4>1, ConcatIs
        <5>2. Len(op'.jobs) = 1
              BY <1>8, <4>1
        <5> QED
            BY <5>1, <5>2, <3>5 DEF Rest
      <4>2. CASE Len(objs) = 2
        <5>1. log \o objs = Append(Append(log, op'.jobs[1].obj), op'.jobs[2].obj)
              BY <1>8, <3>6, <4>2, ConcatIs
        <5>2. Len(op'.jobs) = 2
              BY <1>8, <4>2
        <5> QED
            BY <5>1, <5>2, <3>5 DEF Rest
      <4> QED
          BY <3>6, <4>1, <4>2
    <3> QED
        BY <1>3, <1>8, <2>3, <3>1, <3>4, <3>5, <3>7
  <2>6. Sound(Kept)' /\ (Sectors' => active')
        BY <1>1, <1>3, <1>6, <2>1
  <2>7. LogInv'
        BY <1>5, <1>8, <2>4, <2>5, <2>6 DEF LogInv
  <2> QED
      BY <2>3, <2>7
<1> QED
    BY <1>2, <1>3, <1>7, <1>8

LEMMA LogBoot ==
    ASSUME WInv, LogInv, Boot
    PROVE  LogInv' /\ Kept' = Kept /\ answer' = answer /\ goal' = goal
<1>1. /\ pc = "off" /\ active' = Sectors /\ ram' = Kept /\ disk' = disk /\ latched' = latched
      /\ answer' = answer /\ goal' = goal
      BY DEF Boot, Mount
<1>2. Verdict(Kept) = "valid"
      BY Facts, SoundLog DEF LogInv
<1>3. pc' = "idle"
      BY <1>2 DEF Boot, Mount
<1>4. Sectors' = Sectors /\ Kept' = Kept
      BY <1>1 DEF Sectors, Kept
<1>5. ~latched /\ latched \in BOOLEAN
      BY <1>1, Facts DEF WInv, Conduct
<1>6. Live' /\ ~Busy'
      BY <1>1, <1>3, <1>4, <1>5 DEF Live, Busy, Writing, Closing
<1>7. Agree(EndOf(Kept))'
      BY <1>1, <1>4 DEF Agree
<1>8. Sound(Kept)' /\ (Sectors' => active')
      BY <1>1, <1>4 DEF LogInv
<1>9. pc' \notin {"format", "format barrier"}
      BY <1>3
<1> QED
    BY <1>1, <1>4, <1>6, <1>7, <1>8, <1>9 DEF LogInv

LEMMA LogBootLoadFails ==
    ASSUME WInv, LogInv, BootLoadFails
    PROVE  LogInv' /\ Kept' = Kept /\ answer' = answer /\ goal' = goal
<1>1. /\ Sectors /\ active' = TRUE /\ latched' = TRUE /\ pc' = "idle" /\ disk' = disk
      /\ answer' = answer /\ goal' = goal
      BY DEF BootLoadFails
<1>2. Sectors' /\ Kept' = Kept
      BY <1>1 DEF Sectors, Kept
<1>3. ~Live'
      BY <1>1, <1>2 DEF Live
<1>4. Sound(Kept)'
      BY <1>2 DEF LogInv
<1> QED
    BY <1>1, <1>2, <1>3, <1>4 DEF LogInv

LEMMA LogBootProbeFails ==
    ASSUME WInv, LogInv, BootProbeFails
    PROVE  LogInv' /\ Kept' = Kept /\ answer' = answer /\ goal' = goal
<1>1. /\ Sectors /\ pc = "off" /\ pc' = "idle" /\ ram' = ram /\ disk' = disk /\ active' = active
      /\ answer' = answer /\ goal' = goal
      BY DEF BootProbeFails
<1>2. Sectors' /\ Kept' = Kept
      BY <1>1 DEF Sectors, Kept
<1>3. ~active
      BY <1>1 DEF WInv, Conduct
<1>4. ~Live' /\ ram' = Blank
      BY <1>1, <1>2, <1>3 DEF Live, LogInv
<1>5. Sound(Kept)'
      BY <1>2 DEF LogInv
<1> QED
    BY <1>1, <1>2, <1>4, <1>5 DEF LogInv

LEMMA LogRestart ==
    ASSUME WInv, LogInv, Restart
    PROVE  LogInv' /\ Kept' = Kept /\ answer' = "none" /\ goal' = Found(Kept)
<1>1. /\ ram' = (IF Sectors THEN Blank ELSE ram) /\ disk' = disk /\ pc' = "off"
      /\ answer' = "none" /\ goal' = Found(Kept)
      BY DEF Restart
<1>2. Sectors' = Sectors /\ Kept' = Kept
      BY <1>1 DEF Sectors, Kept
<1>3. ~Live' /\ ~Busy'
      BY <1>1 DEF Live, Busy, Writing, Closing
<1>4. Sound(Kept)'
      BY <1>2 DEF LogInv
<1> QED
    BY <1>1, <1>2, <1>3, <1>4 DEF LogInv

\* Steps that leave the medium, the window and the phase alone.
LEMMA LogStays ==
    ASSUME LogInv, pc' = pc, ram' = ram, disk' = disk, active' = active, latched' = latched,
           op' = op, goal' = goal
    PROVE  LogInv' /\ Kept' = Kept
<1>1. Sectors' = Sectors /\ Kept' = Kept
      BY DEF Sectors, Kept
<1>2. (Live' <=> Live) /\ (Busy' <=> Busy)
      BY <1>1 DEF Live, Busy, Writing, Closing
<1>3. Reach' = Reach /\ Base' = Base /\ Tip' = Tip
      BY DEF Reach, Base, Tip
<1>4. Rest(Objects(ram, Tip))' = Rest(Objects(ram, Tip))
      BY <1>3 DEF Rest
<1>5. (Agree(Reach)' <=> Agree(Reach)) /\ (Agree(EndOf(Kept))' <=> Agree(EndOf(Kept)))
      BY <1>1, <1>3 DEF Agree
<1> QED
    BY <1>1, <1>2, <1>3, <1>4, <1>5 DEF LogInv

LEMMA LogInit == Gentle /\ Init => LogInv
<1> SUFFICES ASSUME Gentle, Init
             PROVE  LogInv
    OBVIOUS
<1>1. PICK image \in Images, sectors \in Builds : Off(image, sectors)
      BY DEF Init
<1>2. pc = "off"
      BY DEF Init
<1>3. image \in Image /\ Sound(image) /\ sectors \in BOOLEAN
      BY StoreAssumption DEF Gentle
<1>4. DOMAIN image # {}
      BY <1>3, Images1
<1>5. Kept = image /\ (Sectors => ram = Blank)
      BY <1>1, <1>3, <1>4 DEF Off, Kept, Sectors
<1>6. ~Live /\ ~Busy
      BY <1>2 DEF Live, Busy, Writing, Closing
<1> QED
    BY <1>2, <1>3, <1>5, <1>6 DEF LogInv

\* What one step does to the log a restart would find: it is one of the
\* abstract log, or changes nothing of it.
LogStep ==
    /\ LogInv'
    /\ \/ Found(Kept)' = Found(Kept) /\ goal' = goal /\ answer' = answer
       \/ Durable!Next

LEMMA Stutters ==
    ASSUME LogInv', Kept' = Kept \/ Found(Kept') = Found(Kept), goal' = goal, answer' = answer
    PROVE  LogStep
BY DEF LogStep

\* An append that is given up has taken place in the log or has not.
LEMMA GivesUp ==
    ASSUME WInv, LogInv', Abandon, Busy,
           Kept' = Kept \/ Found(Kept') = Found(Kept) \/ (pc = "super" /\ Found(Kept') = goal)
    PROVE  LogStep
<1>1. answer = "busy"
      BY BusyFacts
<1>2. /\ goal' = goal
      /\ answer' \in {"failed", "unknown"} \/ (answer' = "rejected" /\ pc # "super")
      BY DEF Abandon, Finish
<1>3. Found(Kept)' = Found(Kept) \/ (pc = "super" /\ Found(Kept)' = goal)
      OBVIOUS
<1>4. CASE answer' \in {"failed", "unknown"}
  <2>1. Found(Kept)' \in {Found(Kept), goal}
        BY <1>3
  <2>2. Durable!Fail
        BY <1>1, <1>2, <1>4, <2>1 DEF Durable!Fail
  <2> QED
      BY <2>2 DEF Durable!Next, LogStep
<1>5. CASE answer' = "rejected" /\ pc # "super"
  <2>1. Durable!Reject
        BY <1>2, <1>3, <1>5 DEF Durable!Reject
  <2> QED
      BY <2>1 DEF Durable!Next, LogStep
<1> QED
    BY <1>2, <1>4, <1>5

LEMMA LogInvStep == WInv /\ LogInv /\ Gentle /\ [Next]_vars => LogStep
<1> SUFFICES ASSUME WInv, LogInv, Gentle, [Next]_vars
             PROVE  LogStep
    OBVIOUS
<1>1. CASE Restart
  <2>1. LogInv' /\ Kept' = Kept /\ answer' = "none" /\ goal' = Found(Kept)
        BY <1>1, LogRestart
  <2>2. Durable!Restart
        BY <2>1 DEF Durable!Restart
  <2> QED
      BY <2>1, <2>2 DEF Durable!Next, LogStep
<1>2. CASE Boot \/ BootLoadFails \/ BootProbeFails
      BY <1>2, LogBoot, LogBootLoadFails, LogBootProbeFails, Stutters
<1>3. CASE FormatStart \/ FormatWrite \/ FormatBarrier
  <2>1. pc \notin {"format", "format barrier"} /\ ~Reformat
        BY DEF LogInv, Gentle
  <2> QED
      BY <1>3, <2>1 DEF FormatStart, FormatWrite, FormatBarrier
<1>4. CASE Query
  <2>1. /\ pc' = pc /\ ram' = ram /\ disk' = disk /\ active' = active /\ latched' = latched
        /\ op' = op /\ goal' = goal /\ answer' = answer
        BY <1>4 DEF Query, media
  <2> QED
      BY <2>1, LogStays, Stutters
<1>5. ASSUME NEW deploy \in BOOLEAN, NEW objs, Begin(deploy, objs),
             IF deploy THEN objs \in Deployments ELSE \E obj \in Singles : objs = <<obj>>
      PROVE  LogStep
  <2>1. /\ LogInv' /\ Kept' = Kept /\ answer # "busy"
        /\ \/ answer' \in {"rejected", "failed"} /\ goal' = goal
           \/ answer' = "busy" /\ \E l \in Found(Kept) : goal' = {l \o objs}
        BY <1>5, LogBegin
  <2>2. Found(Kept)' = Found(Kept)
        BY <2>1
  <2>3. CASE answer' \in {"rejected", "failed"} /\ goal' = goal
    <3>1. Durable!Reject
          BY <2>2, <2>3 DEF Durable!Reject
    <3> QED
        BY <2>1, <3>1 DEF Durable!Next, LogStep
  <2>4. CASE answer' = "busy" /\ \E l \in Found(Kept) : goal' = {l \o objs}
    <3>1. Durable!Start(objs)
          BY <2>1, <2>2, <2>4 DEF Durable!Start
    <3>2. objs \in {<<obj>> : obj \in Singles} \cup Deployments
          BY <1>5
    <3>3. Durable!Next
          BY <3>1, <3>2 DEF Durable!Next
    <3> QED
        BY <2>1, <3>3 DEF LogStep
  <2> QED
      BY <2>1, <2>3, <2>4
<1>6. CASE BeginSingle \/ BeginDeployment
      BY <1>5, <1>6 DEF BeginSingle, BeginDeployment
<1>7. CASE WriteHeader \/ WritePayload \/ WriteCommit
  <2>1. /\ LogInv' /\ Found(Kept') = Found(Kept) /\ pc \in {"header", "payload", "commit"}
        /\ Abandon \/ (answer' = answer /\ goal' = goal)
        BY <1>7, LogHeader, LogPayload, LogCommit
  <2>2. Busy
        BY <2>1 DEF Busy, Writing
  <2> QED
      BY <2>1, <2>2, GivesUp, Stutters
<1>8. CASE DataBarrier
  <2>1. /\ LogInv' /\ Kept' = Kept /\ pc = "barrier"
        /\ Abandon \/ (answer' = answer /\ goal' = goal)
        BY <1>8, LogDataBarrier
  <2>2. Busy
        BY <2>1 DEF Busy, Writing
  <2> QED
      BY <2>1, <2>2, GivesUp, Stutters
<1>9. CASE WriteSuper
  <2>1. /\ LogInv' /\ pc = "super"
        /\ \/ Live /\ Found(Kept') = goal /\ answer' = answer /\ goal' = goal
           \/ Abandon /\ (Found(Kept') = Found(Kept) \/ (Live /\ Found(Kept') = goal))
        BY <1>9, LogSuper
  <2>2. Busy
        BY <2>1 DEF Busy, Closing
  <2>3. CASE Found(Kept') = goal /\ answer' = answer /\ goal' = goal
    <3>1. answer = "busy"
          BY <2>2, BusyFacts
    <3>2. Durable!Take
          BY <2>3, <3>1 DEF Durable!Take
    <3> QED
        BY <2>1, <3>2 DEF Durable!Next, LogStep
  <2>4. CASE Abandon /\ (Found(Kept') = Found(Kept) \/ Found(Kept') = goal)
        BY <2>1, <2>2, <2>4, GivesUp
  <2> QED
      BY <2>1, <2>3, <2>4
<1>10. ASSUME LogInv', Kept' = Kept, Found(Kept) = goal, answer' \in {"ok", "committed"}, goal' = goal, Busy
       PROVE  LogStep
  <2>1. answer = "busy"
        BY <1>10, BusyFacts
  <2>2. answer' \in Durable!Success
        BY <1>10 DEF Durable!Success
  <2>3. Found(Kept)' = Found(Kept)
        BY <1>10
  <2>4. Durable!Succeed
        BY <1>10, <2>1, <2>2, <2>3 DEF Durable!Succeed
  <2> QED
      BY <1>10, <2>4 DEF Durable!Next, LogStep
<1>11. CASE SuperBarrier
  <2>1. /\ LogInv' /\ Kept' = Kept /\ pc = "super barrier"
        /\ \/ Abandon
           \/ answer' = answer /\ goal' = goal
           \/ Found(Kept) = goal /\ answer' \in {"ok", "committed"} /\ goal' = goal
        BY <1>11, LogSuperBarrier
  <2>2. Busy
        BY <2>1 DEF Busy, Closing
  <2> QED
      BY <1>10, <2>1, <2>2, GivesUp, Stutters
<1>12. CASE Verify
  <2>1. /\ LogInv' /\ Kept' = Kept /\ pc = "verify" /\ Found(Kept) = goal
        /\ answer' \in {"ok", "committed", "unknown"} /\ goal' = goal
        BY <1>12, LogVerify
  <2>2. Busy
        BY <2>1 DEF Busy, Closing
  <2>3. CASE answer' = "unknown"
    <3>1. answer = "busy" /\ Found(Kept)' = Found(Kept)
          BY <2>1, <2>2, BusyFacts
    <3>2. Durable!Fail
          BY <2>1, <2>3, <3>1 DEF Durable!Fail
    <3> QED
        BY <2>1, <3>2 DEF Durable!Next, LogStep
  <2> QED
      BY <1>10, <2>1, <2>2, <2>3
<1>13. CASE VerifyFails
  <2>1. LogInv' /\ Kept' = Kept /\ pc = "verify" /\ Abandon
        BY <1>13, LogVerifyFails
  <2>2. Busy
        BY <2>1 DEF Busy, Closing
  <2> QED
      BY <2>1, <2>2, GivesUp
<1>14. CASE UNCHANGED vars
  <2>1. /\ pc' = pc /\ ram' = ram /\ disk' = disk /\ active' = active /\ latched' = latched
        /\ op' = op /\ goal' = goal /\ answer' = answer
        BY <1>14 DEF vars
  <2> QED
      BY <2>1, LogStays, Stutters
<1> QED
    BY <1>1, <1>2, <1>3, <1>4, <1>6, <1>7, <1>8, <1>9, <1>11, <1>12, <1>13, <1>14 DEF Next

\* The medium follows the window of cold.c, in every reachable state, whatever an
\* operation, a fault or a loss of power leaves behind.
THEOREM LogInvariant ==
    ASSUME Gentle
    PROVE  Spec => []LogInv
<1>1. Init => LogInv
      BY LogInit
<1>2. WInv /\ LogInv /\ [Next]_vars => LogInv'
      BY LogInvStep DEF LogStep
<1> QED
    BY <1>1, <1>2, StoreInvariant, PTL DEF Spec

\* While a session is active and not latched, the log the store serves from
\* its window is the one a restart would find, whatever was abandoned halfway:
\* for every capacity, sector size and set of objects, on a medium that starts
\* with a log and loses nothing it has acknowledged.
THEOREM AlwaysMirrored ==
    ASSUME Gentle
    PROVE  Spec => []MirrorAgrees
<1>1. WInv /\ LogInv => MirrorAgrees
  <2> SUFFICES ASSUME WInv, LogInv, pc = "idle", active, ~latched
               PROVE  Found(ram) = Found(disk)
      BY DEF MirrorAgrees
  <2>1. Sectors /\ Kept = disk
        BY Facts DEF Kept
  <2>2. Live /\ ~Busy
        BY DEF Live, Busy, Writing, Closing
  <2> QED
      BY <2>1, <2>2, Mirrored
<1> QED
    BY <1>1, LogInvariant, StoreInvariant, PTL

\* The log of a medium that was formatted and never written.
Fresh == \A image \in Images : Found(image) = {<<>>}

\* The store implements the durable log: an append, of one object or of a
\* deployment's two, reaches the log a restart finds whole or not at all, and
\* success is only answered for one that has.
THEOREM ImplementsLog ==
    ASSUME Gentle, Fresh
    PROVE  Spec => AtomicAppends
<1>1. Init => Durable!Init
  <2> SUFFICES ASSUME Init
               PROVE  Durable!Init
      OBVIOUS
  <2>1. PICK image \in Images, sectors \in Builds : Off(image, sectors)
        BY DEF Init
  <2>2. image \in Image /\ sectors \in BOOLEAN
        BY StoreAssumption
  <2>3. DOMAIN image # {}
        BY <2>2, Images1
  <2>4. Kept = image
        BY <2>1, <2>2, <2>3 DEF Off, Kept, Sectors
  <2>5. Found(Kept) = {<<>>}
        BY <2>4 DEF Fresh
  <2>6. goal = {} /\ answer = "none"
        BY DEF Init
  <2> QED
      BY <2>5, <2>6 DEF Durable!Init
<1>2. WInv /\ LogInv /\ [Next]_vars => [Durable!Next]_(Durable!vars)
  <2> SUFFICES ASSUME WInv, LogInv, [Next]_vars
               PROVE  [Durable!Next]_(Durable!vars)
      OBVIOUS
  <2>1. LogStep
        BY LogInvStep
  <2> QED
      BY <2>1 DEF LogStep, Durable!vars
<1> QED
    BY <1>1, <1>2, LogInvariant, StoreInvariant, PTL DEF Spec, AtomicAppends, Durable!Spec

============================================================================
