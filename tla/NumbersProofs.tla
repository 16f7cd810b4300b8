---------------------------- MODULE NumbersProofs ----------------------------
(***************************************************************************)
(* The atom store and the calculations over it, for every size of the      *)
(* table and the arena, all contents and every digest, colliding ones      *)
(* included.                                                               *)
(*                                                                         *)
(* That of the store rests on the order in which a probe chain was filled: *)
(* whatever stands between an atom and the head of its chain is older than *)
(* the atom.  An abort empties the youngest slots only, so it never opens  *)
(* a chain in front of an atom that stays.  A calculation adds the stack:  *)
(* every entry's word is in use, for the number the entry should be, and   *)
(* the operators of BigNumProofs make the next number from it.             *)
(***************************************************************************)
EXTENDS BigNumProofs

Cells == 0 .. Slots - 1

Types ==
    /\ index \in [Cells -> [hash : Nat, ptr : Nat]]
    /\ data \in Seq(Contents)
    /\ top \in Nat
    /\ tx \in [live : BOOLEAN, mark : Nat, top : Nat, slots : Seq(Cells)]
    /\ DOMAIN held \subseteq Nat

\* A sequence without a zero limb on top.
Stripped(s) == s \in Seq(Nat) /\ Len(s) >= 1 /\ (Len(s) = 1 \/ s[Len(s)] # 0)

StoredOk == \A p \in DOMAIN data : Stripped(data[p]) /\ ~IsDirect(data[p])

\* The chain before place i of digest h: filled, older than p, other digests.
Before(h, i, p) ==
    \A j \in 0 .. i - 1 :
        /\ index[Probe(h, j)].ptr # 0
        /\ index[Probe(h, j)].ptr < p
        /\ index[Probe(h, j)].hash # h

Placed(s) ==
    /\ index[s].ptr \in DOMAIN data
    /\ index[s].hash = Identity(data[index[s].ptr])
    /\ \E i \in Cells : s = Probe(index[s].hash, i) /\ Before(index[s].hash, i, index[s].ptr)

IndexOk == \A s \in Cells : index[s].ptr # 0 => Placed(s)

\* The list of the open transaction is what was filled since its mark.
TxOk ==
    tx.live =>
        /\ tx.mark <= Len(data)
        /\ \A s \in Cells : index[s].ptr # 0 => (s \in Listed <=> index[s].ptr > tx.mark)

\* What is held from before the open transaction lies before its mark.
Backed(w, s) ==
    /\ index[s].ptr # 0
    /\ w = Half + index[s].hash
    /\ held[w] = Number(data[index[s].ptr])
    /\ tx.live /\ w \notin fresh => index[s].ptr <= tx.mark

HeldOk ==
    \A w \in DOMAIN held :
        \/ w < Half /\ held[w] = Number(<<w>>)
        \/ \E s \in Cells : Backed(w, s)

IInv == Types /\ StoredOk /\ IndexOk /\ TxOk /\ HeldOk

-----------------------------------------------------------------------------
(* Limb sequences and numbers.                                             *)

\* Stripping keeps the number.
LEMMA CanonicalForm ==
    ASSUME NEW l \in Contents, NEW s \in Canonical(l)
    PROVE  s \in Contents /\ Stripped(s) /\ Number(s) = Number(l)
<1>1. l \in Seq(Nat) /\ l # <<>> /\ s \in Contents /\ s \in Seq(Nat)
      BY ContentAssumption
<1>2. PICK n \in 1 .. Len(l) :
          /\ s = SubSeq(l, 1, n)
          /\ n = 1 \/ l[n] # 0
          /\ \A k \in (n + 1) .. Len(l) : l[k] = 0
      BY DEF Canonical
<1>3. Len(s) = n /\ \A i \in 1 .. n : s[i] = l[i]
      BY <1>1, <1>2
<1>4. {j \in DOMAIN s : s[j] # 0} = {j \in DOMAIN l : l[j] # 0}
      BY <1>1, <1>2, <1>3
<1>5. \A j \in {i \in DOMAIN s : s[i] # 0} : s[j] = l[j]
      BY <1>1, <1>2, <1>3
<1> QED
    BY <1>1, <1>2, <1>3, <1>4, <1>5 DEF Stripped, Number

\* A non-zero limb of one of two sequences with the same number is in the other.
LEMMA NumberLimbs ==
    ASSUME NEW a, NEW b, Number(a) = Number(b), NEW i \in DOMAIN a, a[i] # 0
    PROVE  i \in DOMAIN b /\ b[i] = a[i]
<1>1. <<i, a[i]>> \in Number(b)
      BY DEF Number
<1>2. PICK j \in DOMAIN b : <<i, a[i]>> = <<j, b[j]>>
      BY <1>1 DEF Number
<1> QED
    BY <1>2

\* A number has one stripped sequence.
LEMMA NumberUnique ==
    ASSUME NEW a, NEW b, Stripped(a), Stripped(b), Number(a) = Number(b)
    PROVE  a = b
<1> USE DEF Stripped
<1>1. \A i \in DOMAIN a : a[i] # 0 => i \in DOMAIN b /\ b[i] = a[i]
      BY NumberLimbs
<1>2. \A i \in DOMAIN b : b[i] # 0 => i \in DOMAIN a /\ a[i] = b[i]
      BY NumberLimbs
<1>3. Len(a) = Len(b)
  <2>1. Len(a) \in DOMAIN a /\ Len(b) \in DOMAIN b /\ Len(a) \in Nat /\ Len(b) \in Nat
        OBVIOUS
  <2>2. CASE Len(a) > Len(b)
        BY <1>1, <2>1, <2>2
  <2>3. CASE Len(b) > Len(a)
        BY <1>2, <2>1, <2>3
  <2> QED
      BY <2>1, <2>2, <2>3
<1>4. \A i \in 1 .. Len(a) : a[i] = b[i]
      BY <1>1, <1>2, <1>3
<1> QED
    BY <1>3, <1>4

\* A direct word is the stripped sequence of its number.
LEMMA DirectWord ==
    ASSUME NEW s, Stripped(s), IsDirect(s)
    PROVE  /\ Word(s) \in Nat /\ Word(s) < Half /\ Number(s) = Number(<<Word(s)>>)
<1>1. s \in Seq(Nat) /\ Len(s) = 1 /\ s[1] \in Nat
      BY DEF Stripped, IsDirect
<1>2. /\ <<s[1]>> \in Seq(Nat) /\ Len(<<s[1]>>) = 1
      /\ \A i \in 1 .. 1 : s[i] = <<s[1]>>[i]
      BY <1>1
<1>3. s = <<s[1]>>
      BY <1>1, <1>2
<1> QED
    BY <1>1, <1>3 DEF IsDirect, Word

LEMMA IndirectWord ==
    ASSUME NEW s \in Contents, ~IsDirect(s)
    PROVE  Identity(s) \in Nat /\ Word(s) = Half + Identity(s) /\ Word(s) \in Nat /\ Word(s) >= Half
BY StoreAssumption, ContentAssumption DEF Identity, Word

-----------------------------------------------------------------------------
(* Probing.                                                                *)

LEMMA ProbeCell == ASSUME NEW h \in Nat, NEW i \in Nat PROVE Probe(h, i) \in Cells
BY StoreAssumption DEF Probe, Cells

\* A placed atom is what its digest finds.
LEMMA PlacedFound ==
    ASSUME Types, IndexOk, NEW s \in Cells, index[s].ptr # 0
    PROVE  Finds(index[s].hash, index[s].ptr) /\ index[s].ptr \in DOMAIN data
<1>1. Placed(s)
      BY DEF IndexOk
<1>2. PICK i \in Cells : s = Probe(index[s].hash, i) /\ Before(index[s].hash, i, index[s].ptr)
      BY <1>1 DEF Placed
<1>3. index[s] = [hash |-> index[s].hash, ptr |-> index[s].ptr]
      BY DEF Types
<1> QED
    BY <1>1, <1>2, <1>3 DEF Finds, Before, Placed, Cells

\* The slot that carries a digest is not in front of another on its chain.
LEMMA NotInFront ==
    ASSUME NEW h, NEW i \in Nat, NEW k \in Nat, NEW p,
           Before(h, k, p), index[Probe(h, i)].hash = h
    PROVE  k <= i
<1> SUFFICES ASSUME i < k PROVE FALSE
    OBVIOUS
<1>1. i \in 0 .. k - 1
      OBVIOUS
<1> QED
    BY ONLY <1>1, Before(h, k, p), index[Probe(h, i)].hash = h DEF Before

\* One slot carries a digest.
LEMMA DigestOnce ==
    ASSUME Types, IndexOk, NEW s \in Cells, NEW r \in Cells,
           index[s].ptr # 0, index[r].ptr # 0, index[s].hash = index[r].hash
    PROVE  s = r
<1>0. PICK h : h = index[s].hash
      OBVIOUS
<1>1. Placed(s) /\ Placed(r)
      BY DEF IndexOk
<1>2. PICK i \in Cells : s = Probe(h, i) /\ Before(h, i, index[s].ptr)
      BY <1>0, <1>1 DEF Placed
<1>3. PICK k \in Cells : r = Probe(h, k) /\ Before(h, k, index[r].ptr)
      BY <1>0, <1>1 DEF Placed
<1>4. i \in Nat /\ k \in Nat
      BY StoreAssumption DEF Cells
<1>5. index[Probe(h, i)].hash = h /\ index[Probe(h, k)].hash = h
      BY <1>0, <1>2, <1>3
<1>6. k <= i
      BY ONLY <1>3, <1>4, <1>5, NotInFront
<1>7. i <= k
      BY ONLY <1>2, <1>4, <1>5, NotInFront
<1>8. i = k
      BY ONLY <1>4, <1>6, <1>7
<1> QED
    BY ONLY <1>2, <1>3, <1>8

-----------------------------------------------------------------------------
(* The steps.                                                              *)

LEMMA InitHolds == Init => IInv
<1> SUFFICES ASSUME Init PROVE IInv
    OBVIOUS
<1>1. Types
      BY DEF Types, Init, Vacated, Closed, Cells
<1> QED
    BY <1>1 DEF IInv, Init, StoredOk, IndexOk, TxOk, HeldOk, Vacated, Closed, Cells

LEMMA BeginHolds == IInv /\ Begin => IInv'
<1> SUFFICES ASSUME IInv, Begin PROVE IInv'
    OBVIOUS
<1>1. /\ UNCHANGED <<index, data, held>> /\ ~tx.live /\ fresh' = {}
      /\ tx'.live = TRUE /\ tx'.mark = Len(data) /\ tx'.slots = <<>>
      BY DEF Begin
<1>2. Types'
      BY <1>1 DEF IInv, Types, Begin
<1>3. \A s \in Cells : index[s].ptr # 0 => index[s].ptr \in Nat /\ index[s].ptr <= Len(data)
      BY DEF IInv, Types, IndexOk, Placed
<1>4. TxOk'
      BY <1>1, <1>3 DEF TxOk, Listed, IInv, Types
<1>5. HeldOk'
      BY <1>1, <1>3 DEF HeldOk, Backed, IInv
<1> QED
    BY <1>1, <1>2, <1>4, <1>5 DEF IInv, StoredOk, IndexOk, Placed, Before

LEMMA CommitHolds == IInv /\ Commit => IInv'
<1> SUFFICES ASSUME IInv, Commit PROVE IInv'
    OBVIOUS
<1>1. UNCHANGED <<index, data, top, held>> /\ tx' = Closed
      BY DEF Commit
<1>2. Types'
  <2>1. Closed \in [live : BOOLEAN, mark : Nat, top : Nat, slots : Seq(Cells)]
        BY DEF Closed
  <2> QED
      BY <1>1, <2>1 DEF IInv, Types
<1>3. TxOk' /\ HeldOk'
      BY <1>1 DEF TxOk, HeldOk, Backed, IInv, Closed
<1> QED
    BY <1>1, <1>2, <1>3 DEF IInv, StoredOk, IndexOk, Placed, Before

LEMMA AbortHolds == IInv /\ Abort => IInv'
<1> SUFFICES ASSUME IInv, Abort PROVE IInv'
    OBVIOUS
<1>1. /\ tx.live /\ tx' = Closed
      /\ data' = SubSeq(data, 1, tx.mark)
      /\ held' = [w \in DOMAIN held \ fresh |-> held[w]]
      BY DEF Abort
<1>2. /\ index' \in [Cells -> [hash : Nat, ptr : Nat]]
      /\ \A s \in Cells : index'[s] = IF s \in Listed THEN Vacated ELSE index[s]
      BY DEF Abort, IInv, Types, Vacated
<1>3. /\ tx.mark \in Nat /\ tx.mark <= Len(data) /\ data \in Seq(Contents)
      /\ Len(data') = tx.mark /\ data' \in Seq(Contents)
      /\ \A p \in 1 .. tx.mark : p \in DOMAIN data' /\ p \in DOMAIN data /\ data'[p] = data[p]
      BY <1>1 DEF IInv, Types, TxOk
<1>4. Types'
  <2>1. Closed \in [live : BOOLEAN, mark : Nat, top : Nat, slots : Seq(Cells)]
        BY DEF Closed
  <2>2. top' \in Nat
        BY DEF Abort, IInv, Types
  <2> QED
      BY <1>1, <1>2, <1>3, <2>1, <2>2 DEF IInv, Types
\* A slot filled before the mark keeps its place.
<1>5. ASSUME NEW s \in Cells, index[s].ptr # 0, index[s].ptr <= tx.mark
      PROVE  index'[s] = index[s] /\ index[s].ptr \in 1 .. tx.mark
  <2>1. s \notin Listed /\ index[s].ptr \in Nat
        BY <1>1, <1>5 DEF IInv, TxOk, Types
  <2> QED
      BY <1>2, <1>5, <2>1
<1>6. IndexOk'
  <2> SUFFICES ASSUME NEW s \in Cells, index'[s].ptr # 0 PROVE Placed(s)'
      BY DEF IndexOk
  <2>1. index'[s] = index[s] /\ index[s].ptr # 0 /\ s \notin Listed
        BY <1>2 DEF Vacated
  <2>2. index[s].ptr <= tx.mark /\ index[s].ptr \in Nat /\ index[s].hash \in Nat
        BY <1>1, <2>1 DEF IInv, TxOk, Types
  <2>3. Placed(s)
        BY <2>1 DEF IInv, IndexOk
  <2>4. PICK i \in Cells : s = Probe(index[s].hash, i) /\ Before(index[s].hash, i, index[s].ptr)
        BY <2>3 DEF Placed
  <2>5. ASSUME NEW j \in 0 .. i - 1
        PROVE  index'[Probe(index[s].hash, j)] = index[Probe(index[s].hash, j)]
    <3> DEFINE r == Probe(index[s].hash, j)
    <3>0. j \in Nat
          BY StoreAssumption DEF Cells
    <3>1. r \in Cells
          BY <2>2, <3>0, ProbeCell
    <3>2. index[r].ptr # 0 /\ index[r].ptr < index[s].ptr /\ index[r].ptr \in Nat
          BY <2>4, <3>1 DEF Before, IInv, Types
    <3>3. index[r].ptr <= tx.mark
          BY <1>3, <2>2, <3>2
    <3> QED
        BY <1>5, <3>1, <3>2, <3>3
  <2>6. Before(index[s].hash, i, index[s].ptr)'
        BY <2>1, <2>4, <2>5 DEF Before
  <2>7. index[s].ptr \in DOMAIN data' /\ data'[index[s].ptr] = data[index[s].ptr]
        BY <1>3, <1>5, <2>1, <2>2
  <2> QED
      BY <2>1, <2>3, <2>4, <2>6, <2>7 DEF Placed, Identity
<1>7. HeldOk'
  <2> SUFFICES ASSUME NEW w \in DOMAIN held'
               PROVE  \/ w < Half /\ held'[w] = Number(<<w>>)
                      \/ \E s \in Cells : Backed(w, s)'
      BY DEF HeldOk
  <2>1. w \in DOMAIN held /\ w \notin fresh /\ held'[w] = held[w]
        BY <1>1
  <2>2. ASSUME NEW s \in Cells, Backed(w, s) PROVE Backed(w, s)'
    <3>1. index[s].ptr # 0 /\ index[s].ptr <= tx.mark
          BY <1>1, <2>1, <2>2 DEF Backed
    <3>2. index'[s] = index[s] /\ index[s].ptr \in 1 .. tx.mark
          BY <1>5, <3>1
    <3> QED
        BY <1>1, <1>3, <2>1, <2>2, <3>2 DEF Backed, Closed
  <2>3. \/ w < Half /\ held[w] = Number(<<w>>)
        \/ \E s \in Cells : Backed(w, s)
        BY <2>1 DEF IInv, HeldOk
  <2> QED
      BY ONLY <2>1, <2>2, <2>3
<1>8. StoredOk' /\ TxOk'
      BY <1>1, <1>3 DEF IInv, StoredOk, TxOk, Closed
<1> QED
    BY <1>4, <1>6, <1>7, <1>8 DEF IInv

LEMMA MakeTypes ==
    ASSUME Types, NEW l \in Contents, NEW s \in Canonical(l), Make(l, s)
    PROVE  Types'
<1>1. s \in Contents /\ Stripped(s)
      BY CanonicalForm
<1>2. Word(s) \in Nat
      BY <1>1, DirectWord, IndirectWord
<1>3. DOMAIN held' \subseteq Nat
      BY <1>2 DEF Types, Make
<1>4. CASE UNCHANGED storeVars
      BY <1>3, <1>4 DEF Types, storeVars
<1>5. CASE ~IsDirect(s) /\ Store(s)
  <2>1. PICK slot \in DOMAIN index :
            /\ index' = [index EXCEPT ![slot] = [hash |-> Identity(s), ptr |-> Len(data) + 1]]
            /\ data' = Append(data, s)
            /\ tx' = IF tx.live THEN [tx EXCEPT !.slots = Append(tx.slots, slot)] ELSE tx
        BY <1>5 DEF Store
  <2>2. slot \in Cells /\ Identity(s) \in Nat /\ Len(data) + 1 \in Nat
        BY <1>1, <1>5, IndirectWord DEF Types
  <2>3. index' \in [Cells -> [hash : Nat, ptr : Nat]] /\ data' \in Seq(Contents)
        BY <1>1, <2>1, <2>2 DEF Types
  <2>4. tx' \in [live : BOOLEAN, mark : Nat, top : Nat, slots : Seq(Cells)]
    <3>1. tx.slots \in Seq(Cells)
          BY DEF Types
    <3>2. Append(tx.slots, slot) \in Seq(Cells)
          BY <2>2, <3>1
    <3>3. [tx EXCEPT !.slots = Append(tx.slots, slot)]
              \in [live : BOOLEAN, mark : Nat, top : Nat, slots : Seq(Cells)]
          BY <3>2 DEF Types
    <3> QED
        BY <2>1, <3>3 DEF Types
  <2>5. top' \in Nat
    <3>1. Len(s) \in Nat /\ Header \in Nat
          BY <1>1, StoreAssumption DEF Stripped
    <3>2. top' = top + Header + Len(s)
          BY <1>5 DEF Store
    <3> QED
        BY <3>1, <3>2 DEF Types
  <2> QED
      BY <1>3, <2>3, <2>4, <2>5 DEF Types
<1> QED
    BY <1>4, <1>5 DEF Make

\* The words other than the one obtained stay backed when the store is unchanged.
LEMMA MakeFound ==
    ASSUME IInv, NEW l \in Contents, NEW s \in Canonical(l), Make(l, s),
           UNCHANGED storeVars, IsDirect(s) \/ Known(s)
    PROVE  IInv'
<1>1. s \in Contents /\ Stripped(s) /\ Number(s) = Number(l)
      BY CanonicalForm
<1>2. UNCHANGED <<index, data, tx>>
      BY DEF storeVars
<1>3. /\ DOMAIN held' = DOMAIN held \cup {Word(s)}
      /\ held'[Word(s)] = Number(s)
      /\ \A w \in DOMAIN held : w # Word(s) => held'[w] = held[w]
      /\ fresh' = IF tx.live THEN fresh \cup ({Word(s)} \ DOMAIN held) ELSE fresh
      BY <1>1 DEF Make
<1>4. Types'
      BY MakeTypes DEF IInv
<1>5. StoredOk' /\ IndexOk' /\ TxOk'
  <2>1. StoredOk /\ IndexOk /\ TxOk
        BY DEF IInv
  <2>2. StoredOk' /\ TxOk'
        BY ONLY <1>2, <2>1 DEF StoredOk, TxOk, Listed
  <2>3. IndexOk'
        BY ONLY <1>2, <2>1 DEF IndexOk, Placed, Before
  <2> QED
      BY <2>2, <2>3
<1>6. ASSUME NEW w \in DOMAIN held, w # Word(s)
      PROVE  \/ w < Half /\ held'[w] = Number(<<w>>)
             \/ \E r \in Cells : Backed(w, r)'
      BY <1>2, <1>3, <1>6 DEF IInv, HeldOk, Backed
<1>7. \/ Word(s) < Half /\ held'[Word(s)] = Number(<<Word(s)>>)
      \/ \E r \in Cells : Backed(Word(s), r)'
  <2>1. CASE IsDirect(s)
        BY <1>1, <1>3, <2>1, DirectWord
  <2>2. CASE ~IsDirect(s)
    <3>1. Word(s) = Half + Identity(s) /\ Word(s) >= Half /\ Identity(s) \in Nat
          BY <1>1, <2>2, IndirectWord
    <3>2. PICK p \in DOMAIN data : Finds(Identity(s), p) /\ data[p] = s
          BY <2>2 DEF Known
    <3>3. PICK i \in Cells : index[Probe(Identity(s), i)] = [hash |-> Identity(s), ptr |-> p] /\ p # 0
          BY <3>2 DEF Finds, Cells
    <3> DEFINE r == Probe(Identity(s), i)
    <3>4. r \in Cells
          BY <3>1, ProbeCell, StoreAssumption DEF Cells
    <3>5. index[r].ptr = p /\ index[r].ptr # 0 /\ index[r].hash = Identity(s)
          BY <3>3
    <3> HIDE DEF r
    <3>6. ASSUME tx.live, Word(s) \notin fresh' PROVE index[r].ptr <= tx.mark
      <4>1. Word(s) \in DOMAIN held /\ Word(s) \notin fresh /\ ~(Word(s) < Half)
            BY <1>3, <3>1, <3>6, StoreAssumption
      <4>2. PICK q \in Cells : Backed(Word(s), q)
            BY <4>1 DEF IInv, HeldOk
      <4>3. index[q].ptr # 0 /\ index[q].hash = Identity(s) /\ index[q].ptr <= tx.mark
        <5>1. index[q].hash \in Nat /\ Word(s) = Half + index[q].hash
              BY <4>2 DEF Backed, IInv, Types
        <5>2. index[q].hash = Identity(s)
              BY <3>1, <5>1, StoreAssumption
        <5> QED
            BY <3>6, <4>1, <4>2, <5>2 DEF Backed
      <4>4. q = r
            BY <3>4, <3>5, <4>3, DigestOnce DEF IInv
      <4> QED
          BY <4>3, <4>4
    <3>7. Backed(Word(s), r)'
          BY <1>2, <1>3, <3>1, <3>2, <3>5, <3>6 DEF Backed
    <3> QED
        BY <3>4, <3>7
  <2> QED
      BY <2>1, <2>2
<1>8. HeldOk'
      BY <1>3, <1>6, <1>7 DEF HeldOk
<1> QED
    BY <1>4, <1>5, <1>8 DEF IInv

\* A new atom goes behind the chain of its digest.
LEMMA MakeStored ==
    ASSUME IInv, NEW l \in Contents, NEW s \in Canonical(l), Make(l, s),
           ~IsDirect(s), Absent(s), Store(s)
    PROVE  IInv'
<1> DEFINE h == Identity(s)
<1>0. PICK n \in Nat : n = Len(data) + 1
      BY DEF IInv, Types
<1>1. /\ s \in Contents /\ Stripped(s) /\ Number(s) = Number(l)
      /\ h \in Nat /\ Word(s) = Half + h /\ Word(s) >= Half /\ Word(s) \in Nat
      BY CanonicalForm, IndirectWord
<1>2. PICK slot \in DOMAIN index :
          /\ Vacant(h, slot)
          /\ index' = [index EXCEPT ![slot] = [hash |-> h, ptr |-> n]]
          /\ data' = Append(data, s)
          /\ tx' = IF tx.live THEN [tx EXCEPT !.slots = Append(tx.slots, slot)] ELSE tx
      BY <1>0 DEF Store
<1>3. /\ data \in Seq(Contents) /\ Len(data) \in Nat /\ slot \in Cells
      /\ index \in [Cells -> [hash : Nat, ptr : Nat]]
      BY DEF IInv, Types
<1>4. /\ index'[slot].ptr = n /\ index'[slot].hash = h /\ index[slot].ptr = 0
      /\ \A r \in Cells : r # slot => index'[r] = index[r]
      BY <1>2, <1>3 DEF Vacant
<1>5. /\ Len(data') = n /\ data'[n] = s /\ n \in DOMAIN data' /\ n # 0
      /\ \A p \in DOMAIN data : p \in DOMAIN data' /\ data'[p] = data[p] /\ p < n
      BY <1>0, <1>1, <1>2, <1>3
<1>6. /\ DOMAIN held' = DOMAIN held \cup {Word(s)}
      /\ held'[Word(s)] = Number(s)
      /\ \A w \in DOMAIN held : w # Word(s) => held'[w] = held[w]
      /\ fresh' = IF tx.live THEN fresh \cup ({Word(s)} \ DOMAIN held) ELSE fresh
      BY <1>1 DEF Make
\* No slot carries the digest yet.
<1>7. \A r \in Cells : index[r].ptr # 0 => index[r].hash # h /\ index[r].ptr \in DOMAIN data
      BY PlacedFound DEF IInv, Absent
<1>8. IndexOk'
  <2> SUFFICES ASSUME NEW r \in Cells, index'[r].ptr # 0 PROVE Placed(r)'
      BY DEF IndexOk
  <2>1. CASE r = slot
    <3>1. PICK i \in Cells :
              slot = Probe(h, i) /\ \A j \in 0 .. i - 1 : index[Probe(h, j)].ptr # 0
          BY <1>2 DEF Vacant, Cells
    <3>2. ASSUME NEW j \in 0 .. i - 1
          PROVE  /\ index'[Probe(h, j)].ptr # 0 /\ index'[Probe(h, j)].ptr < n
                 /\ index'[Probe(h, j)].hash # h
      <4>1. j \in Nat
            BY StoreAssumption DEF Cells
      <4>2. Probe(h, j) \in Cells /\ index[Probe(h, j)].ptr # 0
            BY <1>1, <3>1, <4>1, ProbeCell
      <4> QED
          BY <1>4, <1>5, <1>7, <4>2
    <3>3. Before(h, i, n)'
          BY <3>2 DEF Before
    <3> QED
        BY <1>4, <1>5, <2>1, <3>1, <3>3 DEF Placed, Identity
  <2>2. CASE r # slot
    <3>1. index'[r] = index[r] /\ Placed(r)
          BY <1>4, <2>2 DEF IInv, IndexOk
    <3>2. PICK i \in Cells : r = Probe(index[r].hash, i) /\ Before(index[r].hash, i, index[r].ptr)
          BY <3>1 DEF Placed
    <3>3. ASSUME NEW j \in 0 .. i - 1
          PROVE  index'[Probe(index[r].hash, j)] = index[Probe(index[r].hash, j)]
      <4>1. j \in Nat /\ index[r].hash \in Nat
            BY <1>3, StoreAssumption DEF Cells
      <4>2. Probe(index[r].hash, j) \in Cells /\ index[Probe(index[r].hash, j)].ptr # 0
            BY <3>2, <4>1, ProbeCell DEF Before
      <4> QED
          BY <1>4, <4>2
    <3>4. Before(index[r].hash, i, index[r].ptr)'
          BY <3>1, <3>2, <3>3 DEF Before
    <3>5. index[r].ptr \in DOMAIN data' /\ data'[index[r].ptr] = data[index[r].ptr]
          BY <1>5, <3>1 DEF Placed
    <3> QED
        BY <3>1, <3>2, <3>4, <3>5 DEF Placed, Identity
  <2> QED
      BY <2>1, <2>2
<1>9. TxOk'
  <2> SUFFICES ASSUME tx'.live
               PROVE  /\ tx'.mark <= Len(data')
                      /\ \A r \in Cells : index'[r].ptr # 0 =>
                             (r \in Listed' <=> index'[r].ptr > tx'.mark)
      BY DEF TxOk
  <2>1. /\ tx.live /\ tx'.mark = tx.mark /\ tx'.slots = Append(tx.slots, slot)
        /\ tx.slots \in Seq(Cells) /\ tx.mark \in Nat /\ tx.mark <= Len(data)
        BY <1>2 DEF IInv, Types, TxOk
  <2>2. Listed' = Listed \cup {slot}
    <3> DEFINE q == tx.slots
               m == Len(tx.slots) + 1
    <3>1. /\ DOMAIN Append(q, slot) = 1 .. m /\ Append(q, slot)[m] = slot
          /\ \A k \in 1 .. Len(q) : Append(q, slot)[k] = q[k]
          /\ DOMAIN q = 1 .. Len(q) /\ Len(q) \in Nat
          BY <1>3, <2>1
    <3>2. 1 .. m = (1 .. Len(q)) \cup {m}
          BY <3>1
    <3>3. Listed' = {Append(q, slot)[k] : k \in 1 .. m}
          BY <2>1, <3>1 DEF Listed
    <3>4. Listed = {Append(q, slot)[k] : k \in 1 .. Len(q)}
          BY <3>1 DEF Listed
    <3> QED
        BY ONLY <3>1, <3>2, <3>3, <3>4
  <2>3. \A r \in Cells : index[r].ptr # 0 => (r \in Listed <=> index[r].ptr > tx.mark)
        BY <2>1 DEF IInv, TxOk
  <2> QED
      BY <1>3, <1>4, <1>5, <2>1, <2>2, <2>3
<1>10. HeldOk'
  <2> SUFFICES ASSUME NEW w \in DOMAIN held'
               PROVE  \/ w < Half /\ held'[w] = Number(<<w>>)
                      \/ \E r \in Cells : Backed(w, r)'
      BY DEF HeldOk
  <2>0. tx'.live = tx.live /\ tx'.mark = tx.mark
        BY <1>2 DEF IInv, Types
  <2>1. CASE w # Word(s)
    <3>1. w \in DOMAIN held /\ held'[w] = held[w] /\ (w \notin fresh' => w \notin fresh)
          BY <1>6, <2>1
    <3>2. ASSUME NEW r \in Cells, Backed(w, r) PROVE Backed(w, r)'
      <4>1. r # slot /\ index'[r] = index[r] /\ index[r].ptr \in DOMAIN data
            BY <1>4, <1>7, <3>2 DEF Backed
      <4> QED
          BY <1>5, <2>0, <3>1, <3>2, <4>1 DEF Backed
    <3> QED
        BY <3>1, <3>2 DEF IInv, HeldOk
  <2>2. CASE w = Word(s)
    <3>1. ASSUME w \in DOMAIN held PROVE FALSE
      <4>0. ~(w < Half)
            BY <1>1, <2>2, StoreAssumption
      <4>1. PICK r \in Cells : Backed(w, r)
            BY <3>1, <4>0 DEF IInv, HeldOk
      <4>2. index[r].ptr # 0 /\ index[r].hash \in Nat /\ Half + h = Half + index[r].hash
            BY <1>1, <1>3, <2>2, <4>1 DEF Backed
      <4>3. index[r].hash = h
            BY <1>1, <4>2, StoreAssumption
      <4> QED
          BY <1>7, <4>2, <4>3
    <3>2. tx.live => w \in fresh'
          BY <1>6, <2>2, <3>1
    <3>3. Backed(w, slot)'
          BY <1>1, <1>4, <1>5, <1>6, <2>0, <2>2, <3>2 DEF Backed
    <3> QED
        BY <1>3, <3>3
  <2> QED
      BY <2>1, <2>2
<1>11. StoredOk'
  <2>1. \A p \in DOMAIN data' : p \in DOMAIN data \/ p = n
        BY <1>2, <1>3, <1>5
  <2> QED
      BY <1>1, <1>5, <2>1 DEF IInv, StoredOk
<1>12. Types'
      BY MakeTypes DEF IInv
<1> QED
    BY <1>8, <1>9, <1>10, <1>11, <1>12 DEF IInv

LEMMA NextHolds == IInv /\ [Next]_vars => IInv'
<1> SUFFICES ASSUME IInv, [Next]_vars PROVE IInv'
    OBVIOUS
<1>1. CASE UNCHANGED vars
  <2>1. UNCHANGED <<index, data, top, tx, held, fresh>>
        BY <1>1 DEF vars
  <2>2. Types' /\ StoredOk'
        BY <2>1 DEF IInv, Types, StoredOk
  <2>3. IndexOk' /\ TxOk'
        BY <2>1 DEF IInv, IndexOk, Placed, Before, TxOk, Listed
  <2>4. HeldOk'
        BY <2>1 DEF IInv, HeldOk, Backed
  <2> QED
      BY <2>2, <2>3, <2>4 DEF IInv
<1>2. ASSUME NEW l \in Contents, NEW s \in Canonical(l), Make(l, s) PROVE IInv'
      BY <1>2, MakeFound, MakeStored DEF Make
<1>3. ASSUME NEW s, Refuse(s) PROVE IInv'
      BY <1>1, <1>3, AbortHolds DEF Refuse
<1> QED
    BY <1>1, <1>2, <1>3, BeginHolds, CommitHolds, AbortHolds DEF Next

-----------------------------------------------------------------------------

\* The invariant makes every word stand for its number.
LEMMA WordsAreNumbers == IInv => WordsAreValues
<1> SUFFICES ASSUME IInv PROVE WordsAreValues
    OBVIOUS
<1>1. ASSUME NEW w \in DOMAIN held, NEW s \in Cells, Backed(w, s)
      PROVE  /\ w >= Half /\ w - Half = index[s].hash
             /\ index[s].ptr \in DOMAIN data
             /\ Finds(w - Half, index[s].ptr) /\ held[w] = Number(data[index[s].ptr])
  <2>1. index[s].hash \in Nat /\ w = Half + index[s].hash
        BY <1>1 DEF Backed, IInv, Types
  <2>2. w >= Half /\ w - Half = index[s].hash
        BY <2>1, StoreAssumption
  <2> QED
      BY <1>1, <2>2, PlacedFound DEF Backed, IInv
\* The stripped limbs a word stands for decide it.
<1>2. ASSUME NEW w \in DOMAIN held
      PROVE  \E a : /\ Stripped(a) /\ held[w] = Number(a)
                    /\ a \in Contents \/ IsDirect(a)
                    /\ w = Word(a)
  <2>1. CASE w < Half /\ held[w] = Number(<<w>>)
    <3>1. w \in Nat
          BY DEF IInv, Types
    <3>2. Stripped(<<w>>) /\ IsDirect(<<w>>) /\ Word(<<w>>) = w
          BY <2>1, <3>1 DEF Stripped, IsDirect, Word
    <3> QED
        BY <2>1, <3>2
  <2>2. ASSUME NEW s \in Cells, Backed(w, s)
        PROVE  \E a : /\ Stripped(a) /\ held[w] = Number(a)
                      /\ a \in Contents \/ IsDirect(a)
                      /\ w = Word(a)
    <3> DEFINE a == data[index[s].ptr]
    <3>1. index[s].ptr \in DOMAIN data /\ index[s].hash = Identity(a)
          BY <2>2 DEF IInv, IndexOk, Placed, Backed
    <3>2. Stripped(a) /\ ~IsDirect(a) /\ a \in Contents
          BY <3>1 DEF IInv, StoredOk, Types
    <3>3. w = Half + Identity(a) /\ held[w] = Number(a)
          BY <2>2, <3>1 DEF Backed
    <3>4. w = Word(a)
          BY <3>2, <3>3 DEF Word
    <3> QED
        BY <3>2, <3>3, <3>4
  <2> QED
      BY <2>1, <2>2 DEF IInv, HeldOk
<1>3. \A w, x \in DOMAIN held : held[w] = held[x] => w = x
      BY <1>2, NumberUnique
<1>4. \A w \in DOMAIN held :
         \/ w < Half /\ held[w] = Number(<<w>>)
         \/ w >= Half /\ \E p \in DOMAIN data :
                            Finds(w - Half, p) /\ held[w] = Number(data[p])
      BY <1>1 DEF IInv, HeldOk
<1> QED
    BY <1>3, <1>4 DEF WordsAreValues

\* Comparing noun words compares numbers (WordsAreValues): in every reachable
\* state each word in use leads to the number it was made for, and no number
\* has two words, whatever the digests collide on and whatever was aborted.
THEOREM WordsKeepValues == Spec => []WordsAreValues
BY WordsAreNumbers, InitHolds, NextHolds, PTL DEF Spec

-----------------------------------------------------------------------------
(* What words in use stand for.                                            *)

\* Every result an operator can have may be handed to the store.
LEMMA ContentIs ==
    ASSUME NEW l \in Limbs, Len(l) \in 1 .. 2 * MaxLimbs
    PROVE  l \in Contents
<1>1. l \in [1 .. Len(l) -> 0 .. Ones]
  <2>1. \A S : \A p \in Seq(S) : p \in [1 .. Len(p) -> S]
        OBVIOUS
  <2> QED
      BY <2>1 DEF Limbs
<1>2. [1 .. Len(l) -> 0 .. Ones] \subseteq Contents
      BY ProgramAssumption
<1> QED
    BY <1>1, <1>2

\* And only limbs are.
LEMMA ContentLimbs == \A l \in Contents : l \in Limbs /\ l # <<>>
<1>1. Contents \subseteq Limbs
      BY ProgramAssumption DEF Limbs
<1>2. \A l \in Contents : l # <<>>
      BY ContentAssumption
<1> QED
    BY <1>1, <1>2

\* A numeral is stripped.
LEMMA NumeralStripped ==
    ASSUME NEW a \in Numerals
    PROVE  Stripped(a)
<1>1. a \in Limbs /\ Len(a) >= 1 /\ (Len(a) = 1 \/ a[Len(a)] # 0)
      BY DEF Numerals
<1>2. a \in Seq(Nat)
  <2>1. a \in Seq(0 .. Ones)
        BY <1>1 DEF Limbs
  <2>2. \A S : \A T : S \subseteq T => \A p \in Seq(S) : p \in Seq(T)
        OBVIOUS
  <2>3. 0 .. Ones \subseteq Nat
        BY BaseNat
  <2> QED
      BY <2>1, <2>2, <2>3
<1> QED
    BY <1>1, <1>2 DEF Stripped

\* A digest leads to one atom.
LEMMA FindsOnce ==
    ASSUME IInv, NEW h \in Nat, NEW p, NEW q, Finds(h, p), Finds(h, q)
    PROVE  p = q
<1>1. PICK i \in 0 .. Slots - 1 : index[Probe(h, i)] = [hash |-> h, ptr |-> p] /\ p # 0
      BY DEF Finds
<1>2. PICK j \in 0 .. Slots - 1 : index[Probe(h, j)] = [hash |-> h, ptr |-> q] /\ q # 0
      BY DEF Finds
<1>3. i \in Nat /\ j \in Nat
      BY StoreAssumption
<1> DEFINE s == Probe(h, i)
           r == Probe(h, j)
<1>4. s \in Cells /\ r \in Cells
      BY <1>3, ProbeCell
<1>5. index[s] = [hash |-> h, ptr |-> p] /\ index[r] = [hash |-> h, ptr |-> q]
      BY <1>1, <1>2
<1> HIDE DEF s, r
<1>6. index[s].ptr = p /\ index[s].hash = h /\ index[r].ptr = q /\ index[r].hash = h
      BY <1>5
<1>7. Types /\ IndexOk
      BY DEF IInv
<1>8. s = r
      BY <1>1, <1>2, <1>4, <1>6, <1>7, DigestOnce
<1> QED
    BY <1>6, <1>8

\* What a word in use leads to.
LEMMA BackedFinds ==
    ASSUME IInv, NEW w \in DOMAIN held, NEW s \in Cells, Backed(w, s)
    PROVE  /\ ~(w < Half) /\ w - Half \in Nat /\ w - Half = index[s].hash
           /\ index[s].ptr \in DOMAIN data /\ Finds(w - Half, index[s].ptr)
           /\ held[w] = Number(data[index[s].ptr])
<1>1. index[s].ptr # 0 /\ w = Half + index[s].hash /\ held[w] = Number(data[index[s].ptr])
      BY DEF Backed
<1>2. index[s].hash \in Nat /\ Half \in Nat
      BY StoreAssumption DEF IInv, Types
<1>3. w - Half = index[s].hash /\ ~(w < Half)
      BY <1>1, <1>2
<1>4. Finds(index[s].hash, index[s].ptr) /\ index[s].ptr \in DOMAIN data
      BY <1>1, PlacedFound DEF IInv
<1> QED
    BY <1>1, <1>2, <1>3, <1>4

\* A word in use leads to the numeral it was made for.
LEMMA StoredIs ==
    ASSUME IInv, NEW w \in DOMAIN held
    PROVE  Stored(w) \in Numerals /\ held[w] = Number(Stored(w))
<1>1. CASE w < Half /\ held[w] = Number(<<w>>)
  <2>1. w \in 0 .. B - 1
    <3>1. w \in Nat
          BY DEF IInv, Types
    <3> QED
        BY <1>1, <3>1, ProgramAssumption, StoreAssumption, BaseNat
  <2>2. Stored(w) = <<w>>
        BY <1>1 DEF Stored
  <2>3. <<w>> \in Numerals
        BY <2>1, OneLimb
  <2> QED
      BY <1>1, <2>2, <2>3
<1>2. ASSUME NEW s \in Cells, Backed(w, s)
      PROVE  Stored(w) \in Numerals /\ held[w] = Number(Stored(w))
  <2> DEFINE h == w - Half
             q == CHOOSE p \in DOMAIN data : Finds(h, p)
             p == index[s].ptr
  <2>1. ~(w < Half) /\ h \in Nat /\ p \in DOMAIN data /\ Finds(h, p) /\ held[w] = Number(data[p])
        BY <1>2, BackedFinds
  <2>2. Stored(w) = data[q]
        BY <2>1 DEF Stored
  <2> HIDE DEF h, p
  <2>3. q \in DOMAIN data /\ Finds(h, q)
        BY <2>1
  <2>4. q = p
        BY <2>1, <2>3, FindsOnce
  <2>5. data[p] \in Contents /\ Stripped(data[p])
        BY <2>1 DEF IInv, Types, StoredOk
  <2>6. data[p] \in Numerals
        BY <2>5, ContentLimbs DEF Numerals, Stripped
  <2> QED
      BY <2>1, <2>2, <2>4, <2>6
<1> QED
    BY <1>1, <1>2 DEF IInv, HeldOk

\* Making an atom takes no word in use away from its number.
LEMMA MakeKeeps ==
    ASSUME IInv, NEW l \in Contents, NEW s \in Canonical(l), Make(l, s), NEW w \in DOMAIN held
    PROVE  w \in DOMAIN held' /\ held'[w] = held[w]
<1>1. s \in Contents /\ Stripped(s) /\ Number(s) = Number(l)
      BY CanonicalForm
<1>2. /\ DOMAIN held' = DOMAIN held \cup {Word(s)}
      /\ held'[Word(s)] = Number(s)
      /\ \A x \in DOMAIN held : x # Word(s) => held'[x] = held[x]
      BY <1>1 DEF Make
<1>3. \/ w < Half /\ held[w] = Number(<<w>>)
      \/ \E r \in Cells : Backed(w, r)
      BY DEF IInv, HeldOk
<1>4. CASE w = Word(s) /\ IsDirect(s)
  <2>1. w < Half /\ Number(s) = Number(<<w>>)
        BY <1>1, <1>4, DirectWord
  <2>2. held[w] = Number(<<w>>)
        BY <1>3, <2>1, BackedFinds
  <2> QED
      BY <1>2, <1>4, <2>1, <2>2
<1>5. CASE w = Word(s) /\ ~IsDirect(s)
  <2> DEFINE h == Identity(s)
  <2>1. h \in Nat /\ w = Half + h /\ w >= Half /\ Half \in Nat
        BY <1>1, <1>5, IndirectWord, StoreAssumption
  <2>2. ~(w < Half) /\ w - Half = h
        BY <2>1
  <2>3. PICK r \in Cells : Backed(w, r)
        BY <1>3, <2>2
  <2> DEFINE p == index[r].ptr
  <2>4. p \in DOMAIN data /\ Finds(h, p) /\ held[w] = Number(data[p])
        BY <2>2, <2>3, BackedFinds
  <2>5. Known(s)
        BY <1>5, <2>4 DEF Make, Absent
  <2>6. PICK q \in DOMAIN data : Finds(h, q) /\ data[q] = s
        BY <2>5 DEF Known
  <2> HIDE DEF h, p
  <2>7. q = p
        BY <2>1, <2>4, <2>6, FindsOnce
  <2> QED
      BY <1>2, <1>5, <2>4, <2>6, <2>7
<1>6. CASE w # Word(s)
      BY <1>2, <1>6
<1> QED
    BY <1>4, <1>5, <1>6

-----------------------------------------------------------------------------
(* The operators, on numbers.                                              *)

\* What the operators compute with.
Terms == {l \in Numerals : Len(l) <= MaxLimbs}

\* A result of an operator that should be the number n.
ResultSays(r, n) ==
    /\ r.limbs \in Limbs /\ Len(r.limbs) \in 1 .. 2 * MaxLimbs /\ r.sound \in BOOLEAN
    /\ r.sound => Value(r.limbs) = n

\* Their parts.
LEMMA TermIs ==
    ASSUME NEW a \in Terms
    PROVE  /\ a \in Numerals /\ a \in Limbs /\ a # <<>> /\ Len(a) \in Nat /\ Len(a) >= 1 /\ Len(a) <= MaxLimbs
           /\ Value(a) \in Nat /\ MaxLimbs \in Nat
<1>1. a \in Numerals /\ a \in Limbs /\ Len(a) >= 1 /\ Len(a) <= MaxLimbs
      BY DEF Terms, Numerals
<1>2. Len(a) \in Nat /\ Value(a) \in Nat
      BY <1>1, LimbIs, ValueNat
<1>3. a # <<>>
      BY <1>1
<1> QED
    BY <1>1, <1>2, <1>3, RadixIs

\* Limbs that are no part of a division say their own value.
LEMMA PlainSays ==
    ASSUME NEW l \in Limbs, Len(l) >= 1, Len(l) <= 2 * MaxLimbs
    PROVE  ResultSays(Plain(l), Value(l))
<1>1. Plain(l).limbs = l /\ Plain(l).sound = TRUE
      BY DEF Plain
<1>2. Len(l) \in 1 .. 2 * MaxLimbs
      BY LimbIs, RadixIs
<1> QED
    BY <1>1, <1>2 DEF ResultSays

\* A term of one limb is that limb.
LEMMA SingleTerm ==
    ASSUME NEW a \in Terms, Len(a) <= 1
    PROVE  a[1] \in Nat /\ Value(a) = a[1]
<1>0. Len(a) \in Nat /\ Len(a) >= 1 /\ a \in Limbs
      BY TermIs
<1> DEFINE n == Len(a)
<1>1. n = 1 /\ a \in Limbs
  <2>1. n \in Nat /\ n >= 1 /\ n <= 1
        BY <1>0
  <2> HIDE DEF n
  <2> QED
      BY <1>0, <2>1
<1>2. a[1] \in 0 .. B - 1
      BY <1>1, LimbIs
<1>3. <<a[1]>> \in Limbs /\ Len(<<a[1]>>) = 1 /\ Value(<<a[1]>>) = a[1]
      BY <1>2, OneLimb
<1>4. a = <<a[1]>>
  <2>1. <<a[1]>>[1] = a[1]
        OBVIOUS
  <2> QED
      BY <1>1, <1>3, <2>1, LimbsSame
<1> QED
    BY <1>2, <1>3, <1>4

\* The unary operators, where they do not crash.
LEMMA UnaryExact ==
    ASSUME NEW op \in Unary, NEW a \in Terms, ~Crashes(op, a, Zero)
    PROVE  ResultSays(Result1(op, a), True(op, Value(a), 0))
<1>1. /\ a \in Numerals /\ a \in Limbs /\ a # <<>> /\ Len(a) \in Nat /\ Len(a) >= 1 /\ Len(a) <= MaxLimbs
      /\ MaxLimbs \in Nat
      BY TermIs
<1>2. CASE op = "inc"
  <2>1. Inc(a) \in Limbs /\ Len(Inc(a)) \in Len(a) .. Len(a) + 1 /\ Value(Inc(a)) = Value(a) + 1
        BY <1>1, IncExact
  <2>2. Len(Inc(a)) >= 1 /\ Len(Inc(a)) <= 2 * MaxLimbs
        BY <1>1, <2>1
  <2>3. ResultSays(Plain(Inc(a)), Value(Inc(a)))
        BY <2>1, <2>2, PlainSays
  <2>4. Result1(op, a) = Plain(Inc(a)) /\ True(op, Value(a), 0) = Value(a) + 1
        BY <1>2 DEF Result1, True
  <2> QED
      BY <2>1, <2>3, <2>4
<1>3. CASE op = "dec"
  <2>0. ~IsZero(a)
        BY <1>3 DEF Crashes
  <2>1. Dec(a) \in Limbs /\ Len(Dec(a)) = Len(a) /\ Value(Dec(a)) = Value(a) - 1
        BY <1>1, <2>0, DecExact
  <2>2. Len(Dec(a)) >= 1 /\ Len(Dec(a)) <= 2 * MaxLimbs
        BY <1>1, <2>1
  <2>3. ResultSays(Plain(Dec(a)), Value(Dec(a)))
        BY <2>1, <2>2, PlainSays
  <2>4. Result1(op, a) = Plain(Dec(a)) /\ True(op, Value(a), 0) = Value(a) - 1
        BY <1>3 DEF Result1, True
  <2> QED
      BY <2>1, <2>3, <2>4
<1>4. CASE op = "bex"
  <2>0. ~(Len(a) > 1) /\ ~(a[1] \div LimbBits >= MaxLimbs)
        BY <1>4 DEF Crashes
  <2>1. a[1] \in Nat /\ Value(a) = a[1]
        BY <1>1, <2>0, SingleTerm
  <2> DEFINE k == a[1]
  <2>2. Bex(k) \in Limbs /\ Len(Bex(k)) = (k \div LimbBits) + 1 /\ Value(Bex(k)) = Two[k]
        BY <2>1, BexExact
  <2>3. k \div LimbBits \in Nat
        BY <2>1, ShiftParts
  <2>4. Result1(op, a) = Plain(Bex(k)) /\ True(op, Value(a), 0) = Two[Value(a)]
        BY <1>4 DEF Result1, True
  <2> HIDE DEF k
  <2>5. Len(Bex(k)) >= 1 /\ Len(Bex(k)) <= 2 * MaxLimbs
    <3>1. ~(k \div LimbBits >= MaxLimbs)
          BY <2>0 DEF k
    <3> DEFINE m == k \div LimbBits
    <3>2. m \in Nat /\ ~(m >= MaxLimbs) /\ Len(Bex(k)) = m + 1
          BY <2>2, <2>3, <3>1
    <3> HIDE DEF m
    <3> QED
        BY <1>1, <3>2
  <2>6. ResultSays(Plain(Bex(k)), Value(Bex(k)))
        BY <2>2, <2>5, PlainSays
  <2> QED
      BY <2>1, <2>2, <2>4, <2>6 DEF k
<1> QED
    BY <1>2, <1>3, <1>4 DEF Unary

\* A truth value, as a number.
LEMMA LoobeanSays ==
    ASSUME NEW yes \in BOOLEAN
    PROVE  ResultSays(Plain(<<Loobean(yes)>>), Loobean(yes))
<1>1. Loobean(yes) \in 0 .. B - 1
      BY BaseNat DEF Loobean
<1> DEFINE x == Loobean(yes)
<1> HIDE DEF x
<1>2. <<x>> \in Limbs /\ Len(<<x>>) = 1 /\ Value(<<x>>) = x
      BY <1>1, OneLimb DEF x
<1>3. Len(<<x>>) >= 1 /\ Len(<<x>>) <= 2 * MaxLimbs
      BY <1>2, RadixIs
<1>4. ResultSays(Plain(<<x>>), Value(<<x>>))
      BY <1>2, <1>3, PlainSays
<1> QED
    BY <1>2, <1>4 DEF x

\* Sums, differences and products.
LEMMA SumsExact ==
    ASSUME NEW op \in {"add", "sub", "mul"}, NEW a \in Terms, NEW b \in Terms, ~Crashes(op, a, b)
    PROVE  ResultSays(Result2(op, a, b), True(op, Value(a), Value(b)))
<1>1. /\ a \in Numerals /\ a \in Limbs /\ a # <<>> /\ Len(a) \in Nat /\ Len(a) >= 1 /\ Len(a) <= MaxLimbs
      /\ b \in Numerals /\ b \in Limbs /\ b # <<>> /\ Len(b) \in Nat /\ Len(b) >= 1 /\ Len(b) <= MaxLimbs
      /\ Value(a) \in Nat /\ Value(b) \in Nat /\ MaxLimbs \in Nat
      BY TermIs
<1>2. CASE op = "add"
  <2> DEFINE r == Add(a, b)
  <2>1. r \in Limbs /\ Len(r) = Larger(Len(a), Len(b)) + 1 /\ Value(r) = Value(a) + Value(b)
        BY <1>1, AddExact
  <2>2. Result2(op, a, b) = Plain(r) /\ True(op, Value(a), Value(b)) = Value(a) + Value(b)
        BY <1>2 DEF Result2, True
  <2> HIDE DEF r
  <2>3. Len(r) >= 1 /\ Len(r) <= 2 * MaxLimbs
        BY <1>1, <2>1 DEF Larger
  <2>4. ResultSays(Plain(r), Value(r))
        BY <2>1, <2>3, PlainSays
  <2> QED
      BY <2>1, <2>2, <2>4
<1>3. CASE op = "sub"
  <2> DEFINE r == Sub(a, b)
  <2>0. ~Less(a, b)
        BY <1>3 DEF Crashes
  <2>1. ~(Value(a) < Value(b))
        BY <1>1, <2>0, LessExact
  <2>2. Value(b) <= Value(a)
        BY <1>1, <2>1
  <2>3. r \in Limbs /\ Len(r) = Len(a) /\ Value(r) = Value(a) - Value(b)
        BY <1>1, <2>2, SubExact
  <2>4. Result2(op, a, b) = Plain(r) /\ True(op, Value(a), Value(b)) = Value(a) - Value(b)
        BY <1>3 DEF Result2, True
  <2> HIDE DEF r
  <2>5. Len(r) >= 1 /\ Len(r) <= 2 * MaxLimbs
        BY <1>1, <2>3
  <2>6. ResultSays(Plain(r), Value(r))
        BY <2>3, <2>5, PlainSays
  <2> QED
      BY <2>3, <2>4, <2>6
<1>4. CASE op = "mul"
  <2> DEFINE r == Mul(a, b)
  <2>1. r \in Limbs /\ Len(r) \in 1 .. Len(a) + Len(b) /\ Value(r) = Value(a) * Value(b)
        BY <1>1, MulExact
  <2>2. Result2(op, a, b) = Plain(r) /\ True(op, Value(a), Value(b)) = Value(a) * Value(b)
        BY <1>4 DEF Result2, True
  <2> HIDE DEF r
  <2>3. Len(r) >= 1 /\ Len(r) <= 2 * MaxLimbs
        BY <1>1, <2>1
  <2>4. ResultSays(Plain(r), Value(r))
        BY <2>1, <2>3, PlainSays
  <2> QED
      BY <2>1, <2>2, <2>4
<1> QED
    BY <1>2, <1>3, <1>4

\* Quotients and remainders.
LEMMA DivisionsExact ==
    ASSUME NEW op \in {"div", "mod"}, NEW a \in Terms, NEW b \in Terms, ~Crashes(op, a, b)
    PROVE  ResultSays(Result2(op, a, b), True(op, Value(a), Value(b)))
<1>1. a \in Numerals /\ Len(a) \in Nat /\ Len(a) <= MaxLimbs /\ b \in Numerals /\ MaxLimbs \in Nat
      BY TermIs
<1>2. ~IsZero(b)
      BY DEF Crashes
<1> DEFINE d == DivMod(a, b)
<1>3. DivModSays(d, a, b)
      BY <1>1, <1>2, DivModExact
<1>4. Result2(op, a, b) = Part(op, d)
      BY DEF Result2
<1> HIDE DEF d
<1>5. /\ d.q \in Limbs /\ Len(d.q) \in 1 .. 2 * MaxLimbs /\ d.r \in Limbs /\ Len(d.r) \in 1 .. 2 * MaxLimbs
      /\ d.sound \in BOOLEAN
      /\ d.sound => Value(d.q) = Value(a) \div Value(b) /\ Value(d.r) = Value(a) % Value(b)
  <2>1. Len(d.q) \in 1 .. Len(a) /\ Len(d.r) \in 1 .. Len(a)
        BY <1>3 DEF DivModSays
  <2>2. Len(d.q) \in 1 .. 2 * MaxLimbs /\ Len(d.r) \in 1 .. 2 * MaxLimbs
        BY <1>1, <2>1
  <2> QED
      BY <1>3, <2>2 DEF DivModSays
<1>6. CASE op = "div"
  <2>1. Part(op, d) = [limbs |-> d.q, sound |-> d.sound] /\ True(op, Value(a), Value(b)) = Value(a) \div Value(b)
        BY <1>6 DEF Part, True
  <2> QED
      BY <1>4, <1>5, <2>1 DEF ResultSays
<1>7. CASE op = "mod"
  <2>1. Part(op, d) = [limbs |-> d.r, sound |-> d.sound] /\ True(op, Value(a), Value(b)) = Value(a) % Value(b)
        BY <1>7 DEF Part, True
  <2> QED
      BY <1>4, <1>5, <2>1 DEF ResultSays
<1> QED
    BY <1>6, <1>7

\* Shifts.
LEMMA ShiftsExact ==
    ASSUME NEW op \in {"lsh", "rsh"}, NEW a \in Terms, NEW b \in Terms, ~Crashes(op, a, b)
    PROVE  ResultSays(Result2(op, a, b), True(op, Value(a), Value(b)))
<1>1. /\ a \in Limbs /\ a # <<>> /\ Len(a) \in Nat /\ Len(a) >= 1 /\ Len(a) <= MaxLimbs
      /\ Len(b) \in Nat /\ MaxLimbs \in Nat
      BY TermIs
<1>2. ~(Len(b) > 1)
      BY DEF Crashes
<1>3. b[1] \in Nat /\ Value(b) = b[1]
      BY <1>1, <1>2, SingleTerm
<1> DEFINE k == b[1]
<1>4. k \in Nat /\ Value(b) = k
      BY <1>3
<1>5. CASE op = "lsh"
  <2> DEFINE r == Lsh(a, k)
  <2>1. ~(LshSize(a, k) > MaxLimbs /\ k > 0)
        BY <1>5 DEF Crashes
  <2>2. Result2(op, a, b) = Plain(r) /\ True(op, Value(a), Value(b)) = Value(a) * Two[Value(b)]
        BY <1>5 DEF Result2, True
  <2> HIDE DEF k
  <2>3. /\ r \in Limbs /\ Len(r) >= 1 /\ Value(r) = Value(a) * Two[k]
        /\ Len(r) = IF k = 0 THEN Len(a) ELSE LshSize(a, k)
        BY <1>1, <1>4, LshExact
  <2> HIDE DEF r
  <2>4. Len(r) <= 2 * MaxLimbs
    <3>1. Len(r) \in Nat
          BY <2>3, LimbIs
    <3>2. CASE k = 0
          BY <1>1, <2>3, <3>2
    <3>3. CASE k # 0
      <4>1. Len(r) = LshSize(a, k) /\ k > 0
            BY <1>4, <2>3, <3>3
      <4>2. ~(Len(r) > MaxLimbs)
            BY <2>1, <4>1
      <4> QED
          BY <1>1, <3>1, <4>2
    <3> QED
        BY <3>2, <3>3
  <2>5. ResultSays(Plain(r), Value(r))
        BY <2>3, <2>4, PlainSays
  <2> QED
      BY <1>4, <2>2, <2>3, <2>5
<1>6. CASE op = "rsh"
  <2> DEFINE r == Rsh(a, k)
  <2>1. Result2(op, a, b) = Plain(r) /\ True(op, Value(a), Value(b)) = Value(a) \div Two[Value(b)]
        BY <1>6 DEF Result2, True
  <2> HIDE DEF k
  <2>2. r \in Limbs /\ Len(r) \in 1 .. Len(a) /\ Value(r) = Value(a) \div Two[k]
        BY <1>1, <1>4, RshExact
  <2> HIDE DEF r
  <2>3. Len(r) >= 1 /\ Len(r) <= 2 * MaxLimbs
        BY <1>1, <2>2
  <2>4. ResultSays(Plain(r), Value(r))
        BY <2>2, <2>3, PlainSays
  <2> QED
      BY <1>4, <2>1, <2>2, <2>4
<1> QED
    BY <1>5, <1>6

\* Bitwise operators.
LEMMA MergesExact ==
    ASSUME NEW op \in {"or", "and", "xor"}, NEW a \in Terms, NEW b \in Terms
    PROVE  ResultSays(Result2(op, a, b), True(op, Value(a), Value(b)))
<1>1. /\ a \in Limbs /\ a # <<>> /\ Len(a) <= MaxLimbs
      /\ b \in Limbs /\ b # <<>> /\ Len(b) <= MaxLimbs /\ MaxLimbs \in Nat
      BY TermIs
<1>2. ASSUME NEW r \in Limbs, Len(r) \in 1 .. MaxLimbs
      PROVE  ResultSays(Plain(r), Value(r))
  <2>1. Len(r) >= 1 /\ Len(r) <= 2 * MaxLimbs
        BY <1>1, <1>2
  <2> QED
      BY <2>1, PlainSays
<1>3. /\ LimbsOr(a, b) \in Limbs /\ Len(LimbsOr(a, b)) \in 1 .. MaxLimbs
      /\ Value(LimbsOr(a, b)) = Merge(TheOr, Value(a), Value(b))
      /\ LimbsAnd(a, b) \in Limbs /\ Len(LimbsAnd(a, b)) \in 1 .. MaxLimbs
      /\ Value(LimbsAnd(a, b)) = Merge(TheAnd, Value(a), Value(b))
      /\ LimbsXor(a, b) \in Limbs /\ Len(LimbsXor(a, b)) \in 1 .. MaxLimbs
      /\ Value(LimbsXor(a, b)) = Merge(TheXor, Value(a), Value(b))
      BY <1>1, BitwiseExact
<1>4. CASE op = "or"
  <2>1. Result2(op, a, b) = Plain(LimbsOr(a, b)) /\ True(op, Value(a), Value(b)) = Merge(TheOr, Value(a), Value(b))
        BY <1>4 DEF Result2, True
  <2> QED
      BY <1>2, <1>3, <2>1
<1>5. CASE op = "and"
  <2>1. Result2(op, a, b) = Plain(LimbsAnd(a, b)) /\ True(op, Value(a), Value(b)) = Merge(TheAnd, Value(a), Value(b))
        BY <1>5 DEF Result2, True
  <2> QED
      BY <1>2, <1>3, <2>1
<1>6. CASE op = "xor"
  <2>1. Result2(op, a, b) = Plain(LimbsXor(a, b)) /\ True(op, Value(a), Value(b)) = Merge(TheXor, Value(a), Value(b))
        BY <1>6 DEF Result2, True
  <2> QED
      BY <1>2, <1>3, <2>1
<1> QED
    BY <1>4, <1>5, <1>6

\* Comparisons.
LEMMA ComparisonsExact ==
    ASSUME NEW op \in {"lth", "lte"}, NEW a \in Terms, NEW b \in Terms
    PROVE  ResultSays(Result2(op, a, b), True(op, Value(a), Value(b)))
<1>1. a \in Numerals /\ b \in Numerals /\ Value(a) \in Nat /\ Value(b) \in Nat
      BY TermIs
<1>2. (Less(a, b) <=> Value(a) < Value(b)) /\ (Less(b, a) <=> Value(b) < Value(a))
      BY <1>1, LessExact
<1>3. CASE op = "lth"
  <2> DEFINE yes == Less(a, b)
  <2>1. Result2(op, a, b) = Plain(<<Loobean(yes)>>) /\ True(op, Value(a), Value(b)) = Loobean(Value(a) < Value(b))
        BY <1>3 DEF Result2, True
  <2>2. Loobean(Value(a) < Value(b)) = Loobean(yes) /\ yes \in BOOLEAN
        BY <1>2 DEF Loobean, Less
  <2> HIDE DEF yes
  <2>3. ResultSays(Plain(<<Loobean(yes)>>), Loobean(yes))
        BY <2>2, LoobeanSays
  <2> QED
      BY <2>1, <2>2, <2>3
<1>4. CASE op = "lte"
  <2> DEFINE yes == ~Less(b, a)
  <2>1. Result2(op, a, b) = Plain(<<Loobean(yes)>>) /\ True(op, Value(a), Value(b)) = Loobean(Value(a) <= Value(b))
        BY <1>4 DEF Result2, True
  <2>2. Loobean(Value(a) <= Value(b)) = Loobean(yes) /\ yes \in BOOLEAN
    <3>1. Value(a) <= Value(b) <=> yes
          BY <1>1, <1>2
    <3> QED
        BY <3>1 DEF Loobean
  <2> HIDE DEF yes
  <2>3. ResultSays(Plain(<<Loobean(yes)>>), Loobean(yes))
        BY <2>2, LoobeanSays
  <2> QED
      BY <2>1, <2>2, <2>3
<1> QED
    BY <1>3, <1>4

\* The binary operators, where they do not crash.
LEMMA BinaryExact ==
    ASSUME NEW op \in Binary, NEW a \in Terms, NEW b \in Terms, ~Crashes(op, a, b)
    PROVE  ResultSays(Result2(op, a, b), True(op, Value(a), Value(b)))
<1>1. op \in {"add", "sub", "mul"} \/ op \in {"div", "mod"} \/ op \in {"lsh", "rsh"}
      \/ op \in {"or", "and", "xor"} \/ op \in {"lth", "lte"}
      BY DEF Binary
<1> QED
    BY <1>1, SumsExact, DivisionsExact, ShiftsExact, MergesExact, ComparisonsExact, Zenon

-----------------------------------------------------------------------------
(* Calculations.                                                           *)

\* An entry's word is in use, for the number the entry should be.
EntrySays(e, h) ==
    /\ e.word \in DOMAIN h /\ e.sound \in BOOLEAN
    /\ e.sound => \E a \in Numerals : h[e.word] = Number(a) /\ Value(a) = e.num

\* One that may be computed with.
OperandSays(e, h) ==
    /\ e.word \in DOMAIN h /\ e.sound = TRUE
    /\ \E a \in Terms : h[e.word] = Number(a) /\ Value(a) = e.num

\* One entry of any kind, or two that may be computed with.
StackOk ==
    \/ stack = <<>>
    \/ \E e : stack = <<e>> /\ EntrySays(e, held)
    \/ \E e, f : stack = <<e, f>> /\ OperandSays(e, held) /\ OperandSays(f, held)

\* The inductive invariant.
NInv == IInv /\ StackOk

\* g leaves the words of h their numbers.
KeptBy(h, g) == \A w \in DOMAIN h : w \in DOMAIN g /\ g[w] = h[w]

\* An entry stays what it is.
LEMMA EntryKept ==
    ASSUME NEW e, NEW h, NEW g, KeptBy(h, g), EntrySays(e, h)
    PROVE  EntrySays(e, g)
BY DEF KeptBy, EntrySays

\* So does an operand.
LEMMA OperandKept ==
    ASSUME NEW e, NEW h, NEW g, KeptBy(h, g), OperandSays(e, h)
    PROVE  OperandSays(e, g)
BY DEF KeptBy, OperandSays

\* An operand is an entry.
LEMMA OperandEntry ==
    ASSUME NEW e, NEW h, OperandSays(e, h)
    PROVE  EntrySays(e, h)
BY DEF OperandSays, EntrySays, Terms

\* The atom of a sound entry.
LEMMA EntryStored ==
    ASSUME IInv, NEW e, EntrySays(e, held), e.sound
    PROVE  Stored(e.word) \in Numerals /\ Value(Stored(e.word)) = e.num /\ held[e.word] = Number(Stored(e.word))
<1>1. PICK a \in Numerals : held[e.word] = Number(a) /\ Value(a) = e.num
      BY DEF EntrySays
<1>2. Stored(e.word) \in Numerals /\ held[e.word] = Number(Stored(e.word))
      BY StoredIs DEF EntrySays
<1>3. Stored(e.word) = a
      BY <1>1, <1>2, NumeralStripped, NumberUnique
<1> QED
    BY <1>1, <1>2, <1>3

\* atom_limbs copies all of an atom that is not too long.
LEMMA AtomLimbsIs ==
    ASSUME NEW w, Stored(w) \in Numerals, Short(w)
    PROVE  AtomLimbs(w) = Stored(w) /\ AtomLimbs(w) \in Terms
<1> DEFINE l == Stored(w)
           n == Len(l)
<1>1. l \in Limbs /\ n \in Nat /\ n >= 1 /\ n <= MaxLimbs /\ MaxLimbs \in Nat
  <2>1. l \in Limbs /\ n >= 1 /\ n <= MaxLimbs
        BY DEF Numerals, Short
  <2> QED
      BY <2>1, LimbIs, RadixIs
<1>2. Smaller(n, MaxLimbs) = n
      BY <1>1 DEF Smaller
<1>3. AtomLimbs(w) = SubSeq(l, 1, n)
      BY <1>2 DEF AtomLimbs
<1>4. l \in Numerals
      OBVIOUS
<1> HIDE DEF l
<1>5. SubSeq(l, 1, n) = l
  <2>1. n \in 1 .. Len(l)
        BY <1>1
  <2>2. SubSeq(l, 1, n) \in Limbs /\ Len(SubSeq(l, 1, n)) = n /\ \A i \in 1 .. n : SubSeq(l, 1, n)[i] = l[i]
        BY <1>1, <2>1, Prefix DEF Limbs
  <2> QED
      BY <1>1, <2>2, LimbsSame
<1> QED
    BY <1>1, <1>3, <1>4, <1>5 DEF l, Terms

\* An entry that passes the test of the operators is an operand.
LEMMA UsableOperand ==
    ASSUME IInv, NEW e, EntrySays(e, held), Usable(e)
    PROVE  OperandSays(e, held)
<1>1. e.sound /\ Short(e.word) /\ e.sound = TRUE
      BY DEF Usable, EntrySays
<1>2. Stored(e.word) \in Numerals /\ Value(Stored(e.word)) = e.num /\ held[e.word] = Number(Stored(e.word))
      BY <1>1, EntryStored
<1>3. Stored(e.word) \in Terms
      BY <1>1, <1>2, AtomLimbsIs
<1> QED
    BY <1>1, <1>2, <1>3 DEF OperandSays, EntrySays

\* The limbs of an operand are its number.
LEMMA OperandLimbs ==
    ASSUME IInv, NEW e, OperandSays(e, held)
    PROVE  AtomLimbs(e.word) \in Terms /\ Value(AtomLimbs(e.word)) = e.num
<1>1. PICK a \in Terms : held[e.word] = Number(a) /\ Value(a) = e.num
      BY DEF OperandSays
<1>2. EntrySays(e, held) /\ e.sound
      BY OperandEntry DEF OperandSays
<1>3. Stored(e.word) \in Numerals /\ Value(Stored(e.word)) = e.num /\ held[e.word] = Number(Stored(e.word))
      BY <1>2, EntryStored
<1>4. a \in Numerals /\ Len(a) <= MaxLimbs
      BY DEF Terms
<1>5. Stored(e.word) = a
      BY <1>1, <1>3, <1>4, NumeralStripped, NumberUnique
<1>6. Short(e.word)
      BY <1>4, <1>5 DEF Short
<1> QED
    BY <1>3, <1>6, AtomLimbsIs

\* What a push leaves: a new entry that says the number the result should be.
Pushed(rest, r) ==
    \/ stack' = <<>>
    \/ \E e : /\ stack' = Append(rest, e) /\ KeptBy(held, held')
              /\ EntrySays(e, held')
              /\ r.sound /\ Len(r.limbs) <= MaxLimbs => OperandSays(e, held')

\* A push of a result keeps the store's invariant and every word in use.
LEMMA PushSays ==
    ASSUME IInv, NEW rest, NEW r, NEW n, ResultSays(r, n), Push(rest, r, n)
    PROVE  IInv' /\ Pushed(rest, r)
<1> DEFINE l == r.limbs
<1>1. l \in Limbs /\ Len(l) \in 1 .. 2 * MaxLimbs /\ r.sound \in BOOLEAN /\ (r.sound => Value(l) = n)
      BY DEF ResultSays
<1>2. PICK s \in Canonical(l) :
          \/ Make(l, s) /\ stack' = Append(rest, Entry(Word(s), n, r.sound))
          \/ Refuse(s) /\ stack' = <<>>
      BY DEF Push
<1> HIDE DEF l
<1>3. l \in Contents
      BY <1>1, ContentIs
<1>4. CASE Make(l, s) /\ stack' = Append(rest, Entry(Word(s), n, r.sound))
  <2> DEFINE e == Entry(Word(s), n, r.sound)
  <2>1. IInv'
    <3>1. Next
          BY <1>3, <1>4 DEF Next
    <3> QED
        BY <3>1, NextHolds
  <2>2. KeptBy(held, held')
        BY <1>3, <1>4, MakeKeeps DEF KeptBy
  <2>3. Word(s) \in DOMAIN held' /\ held'[Word(s)] = Number(s)
    <3>1. Number(s) = Number(l)
          BY <1>3, CanonicalForm
    <3> QED
        BY <1>4, <3>1 DEF Make
  <2>4. s \in Numerals /\ Value(s) = Value(l) /\ Len(s) <= Len(l)
    <3>1. l # <<>>
          BY <1>1
    <3> QED
        BY <1>1, <3>1, CanonicalExact
  <2>5. e.word = Word(s) /\ e.num = n /\ e.sound = r.sound
        BY DEF Entry
  <2> HIDE DEF e
  <2>6. EntrySays(e, held')
        BY <1>1, <2>3, <2>4, <2>5 DEF EntrySays
  <2>7. ASSUME r.sound, Len(l) <= MaxLimbs PROVE OperandSays(e, held')
    <3>1. s \in Terms
      <4>1. Len(s) \in Nat /\ Len(l) \in Nat /\ MaxLimbs \in Nat
            BY <1>1, <2>4, LimbIs, RadixIs DEF Numerals
      <4>2. Len(s) <= MaxLimbs
            BY <2>4, <2>7, <4>1
      <4> QED
          BY <2>4, <4>2 DEF Terms
    <3>2. e.sound = TRUE /\ e.num = Value(s)
          BY <1>1, <2>4, <2>5, <2>7
    <3> QED
        BY <2>3, <2>5, <3>1, <3>2 DEF OperandSays
  <2>8. stack' = Append(rest, e)
        BY <1>4 DEF e
  <2> QED
      BY <2>1, <2>2, <2>6, <2>7, <2>8 DEF Pushed, l
<1>5. CASE Refuse(s) /\ stack' = <<>>
  <2>1. Next
        BY <1>3, <1>5 DEF Next
  <2> QED
      BY <1>5, <2>1, NextHolds DEF Pushed
<1> QED
    BY <1>2, <1>4, <1>5

\* Onto an empty stack.
LEMMA PushAlone ==
    ASSUME NEW r, Pushed(<<>>, r)
    PROVE  StackOk'
<1>1. CASE stack' = <<>>
      BY <1>1 DEF StackOk
<1>2. ASSUME NEW e, stack' = Append(<<>>, e), EntrySays(e, held')
      PROVE  StackOk'
  <2>1. Append(<<>>, e) = <<e>>
        OBVIOUS
  <2> QED
      BY <1>2, <2>1 DEF StackOk
<1> QED
    BY <1>1, <1>2 DEF Pushed

\* An entry on top of one.
LEMMA PairAppended ==
    ASSUME NEW e, NEW f
    PROVE  Append(<<e>>, f) = <<e, f>>
<1> DEFINE S == {e, f}
           p == Append(<<e>>, f)
           q == <<e, f>>
<1>1. <<e>> \in Seq(S) /\ Len(<<e>>) = 1 /\ <<e>>[1] = e /\ f \in S
      OBVIOUS
<1>2. q \in Seq(S) /\ Len(q) = 2 /\ q[1] = e /\ q[2] = f
      OBVIOUS
<1>3. \A T : \A r \in Seq(T) : \A x \in T :
          /\ Append(r, x) \in Seq(T) /\ Len(Append(r, x)) = Len(r) + 1
          /\ Append(r, x)[Len(r) + 1] = x
          /\ \A i \in 1 .. Len(r) : Append(r, x)[i] = r[i]
      OBVIOUS
<1>4. p \in Seq(S) /\ Len(p) = 2 /\ p[1] = e /\ p[2] = f
      BY <1>1, <1>3
<1> HIDE DEF S, p, q
<1>5. \A i \in 1 .. 2 : p[i] = q[i]
  <2>1. \A i \in 1 .. 2 : i = 1 \/ i = 2
        OBVIOUS
  <2> QED
      BY <1>2, <1>4, <2>1
<1>6. \A T : \A r, x \in Seq(T) : Len(r) = Len(x) /\ (\A i \in 1 .. Len(r) : r[i] = x[i]) => r = x
      OBVIOUS
<1>7. p = q
      BY <1>2, <1>4, <1>5, <1>6
<1> QED
    BY <1>7 DEF p, q

\* Reading a literal.
LEMMA EnterHolds ==
    ASSUME NInv, NEW n \in Literals, Enter(n)
    PROVE  NInv'
<1> DEFINE l == FromDecimal(Digits(n))
           r == Plain(l)
<1>1. n \in Nat /\ n < Power(B)[MaxLimbs]
  <2>1. n \in 0 .. Power(B)[MaxLimbs] - 1
        BY ProgramAssumption
  <2>2. Power(B)[MaxLimbs] \in Nat
        BY RadixIs, BaseNext
  <2> QED
      BY <2>1, <2>2
<1>2. l \in Operands /\ Value(l) = n
      BY <1>1, FromDecimalExact
<1>3. Push(stack, r, n) /\ Len(stack) < 2 /\ \A k \in DOMAIN stack : Usable(stack[k])
      BY DEF Enter
<1> HIDE DEF l
<1>4. l \in Limbs /\ Len(l) \in 1 .. MaxLimbs /\ MaxLimbs \in Nat
      BY <1>2, RadixIs DEF Operands
<1>5. Len(l) >= 1 /\ Len(l) <= MaxLimbs /\ Len(l) <= 2 * MaxLimbs
      BY <1>4
<1>6. ResultSays(r, n)
      BY <1>2, <1>4, <1>5, PlainSays
<1>7. r.sound = TRUE /\ r.limbs = l
      BY DEF Plain
<1> HIDE DEF r
<1>8. IInv /\ IInv' /\ Pushed(stack, r)
      BY <1>3, <1>6, PushSays DEF NInv
<1>9. CASE stack = <<>>
      BY <1>8, <1>9, PushAlone DEF NInv
<1>10. ASSUME NEW e, stack = <<e>>, EntrySays(e, held)
       PROVE  StackOk'
  <2>1. Usable(e)
    <3>1. 1 \in DOMAIN stack /\ stack[1] = e
          BY <1>10
    <3> QED
        BY <1>3, <3>1
  <2>2. OperandSays(e, held)
        BY <1>8, <1>10, <2>1, UsableOperand
  <2>3. ASSUME NEW f, stack' = Append(stack, f), KeptBy(held, held'), OperandSays(f, held')
        PROVE  StackOk'
    <3>1. Append(<<e>>, f) = <<e, f>>
          BY PairAppended
    <3>2. OperandSays(e, held')
          BY <2>2, <2>3, OperandKept
    <3> QED
        BY <1>10, <2>3, <3>1, <3>2 DEF StackOk
  <2>4. CASE stack' = <<>>
        BY <2>4 DEF StackOk
  <2> QED
      BY <1>5, <1>7, <1>8, <2>3, <2>4 DEF Pushed
<1>11. ASSUME NEW e, NEW f, stack = <<e, f>>
       PROVE  FALSE
      BY <1>3, <1>11
<1> QED
    BY <1>8, <1>9, <1>10, <1>11 DEF NInv, StackOk

\* A crash gives the transaction up and clears the stack.
LEMMA GiveHolds ==
    ASSUME NInv, Give, stack' = <<>>
    PROVE  NInv'
<1>1. [Next]_vars
      BY DEF Give, Next
<1>2. IInv'
      BY <1>1, NextHolds DEF NInv
<1> QED
    BY <1>2 DEF NInv, StackOk

\* A unary operator.
LEMMA Compute1Holds ==
    ASSUME NInv, NEW op \in Unary, Compute1(op)
    PROVE  NInv'
<1> DEFINE a == AtomLimbs(stack[1].word)
<1>1. PICK e : stack = <<e>> /\ EntrySays(e, held)
  <2>1. Len(stack) = 1
        BY DEF Compute1
  <2>2. stack # <<>> /\ \A e, f : stack # <<e, f>>
        BY <2>1
  <2> QED
      BY <2>2 DEF NInv, StackOk
<1>2. stack[1] = e
      BY <1>1
<1>3. Usable(e)
      BY <1>2 DEF Compute1
<1>4. a \in Terms /\ Value(a) = e.num
      BY <1>1, <1>2, <1>3, UsableOperand, OperandLimbs DEF NInv
<1>5. IF Crashes(op, a, <<0>>) THEN Give /\ stack' = <<>>
      ELSE Push(<<>>, Result1(op, a), True(op, e.num, 0))
      BY <1>2 DEF Compute1
<1> HIDE DEF a
<1>6. CASE Crashes(op, a, <<0>>)
      BY <1>5, <1>6, GiveHolds
<1>7. CASE ~Crashes(op, a, <<0>>)
  <2>1. ResultSays(Result1(op, a), True(op, e.num, 0))
        BY <1>4, <1>7, UnaryExact DEF Zero
  <2>2. IInv' /\ Pushed(<<>>, Result1(op, a))
        BY <1>5, <1>7, <2>1, PushSays DEF NInv
  <2> QED
      BY <2>2, PushAlone DEF NInv
<1> QED
    BY <1>6, <1>7

\* A binary operator.
LEMMA Compute2Holds ==
    ASSUME NInv, NEW op \in Binary, Compute2(op)
    PROVE  NInv'
<1> DEFINE a == AtomLimbs(stack[1].word)
           b == AtomLimbs(stack[2].word)
<1>1. PICK e, f : stack = <<e, f>> /\ OperandSays(e, held) /\ OperandSays(f, held)
  <2>1. Len(stack) = 2
        BY DEF Compute2
  <2>2. stack # <<>> /\ \A e : stack # <<e>>
        BY <2>1
  <2> QED
      BY <2>2 DEF NInv, StackOk
<1>2. stack[1] = e /\ stack[2] = f
      BY <1>1
<1>3. a \in Terms /\ Value(a) = e.num /\ b \in Terms /\ Value(b) = f.num
      BY <1>1, <1>2, OperandLimbs DEF NInv
<1>4. IF Crashes(op, a, b) THEN Give /\ stack' = <<>>
      ELSE Push(<<>>, Result2(op, a, b), True(op, e.num, f.num))
      BY <1>2 DEF Compute2
<1> HIDE DEF a, b
<1>5. CASE Crashes(op, a, b)
      BY <1>4, <1>5, GiveHolds
<1>6. CASE ~Crashes(op, a, b)
  <2>1. ResultSays(Result2(op, a, b), True(op, e.num, f.num))
        BY <1>3, <1>6, BinaryExact
  <2>2. IInv' /\ Pushed(<<>>, Result2(op, a, b))
        BY <1>4, <1>6, <2>1, PushSays DEF NInv
  <2> QED
      BY <2>2, PushAlone DEF NInv
<1> QED
    BY <1>5, <1>6

\* The invariant holds at first.
LEMMA NInitHolds == NInit => NInv
BY InitHolds DEF NInit, NInv, StackOk

\* It is about the stack and the words only.
LEMMA StackKept ==
    ASSUME StackOk, UNCHANGED <<stack, held>>
    PROVE  StackOk'
BY DEF StackOk

\* Every step keeps it.
LEMMA NNextHolds == NInv /\ [NNext]_nVars => NInv'
<1> SUFFICES ASSUME NInv, [NNext]_nVars PROVE NInv'
    OBVIOUS
<1>1. IInv /\ StackOk
      BY DEF NInv
<1>2. CASE UNCHANGED nVars
  <2>1. UNCHANGED vars /\ UNCHANGED stack
        BY <1>2 DEF nVars
  <2>2. IInv'
        BY <1>1, <2>1, NextHolds
  <2>3. UNCHANGED <<stack, held>>
        BY <2>1 DEF vars
  <2> QED
      BY <1>1, <2>2, <2>3, StackKept DEF NInv
<1>3. CASE Forget
  <2>1. UNCHANGED vars /\ stack' = <<>>
        BY <1>3 DEF Forget
  <2>2. IInv'
        BY <1>1, <2>1, NextHolds
  <2> QED
      BY <2>1, <2>2 DEF NInv, StackOk
<1>5. CASE (Begin \/ Commit) /\ UNCHANGED stack
  <2>1. Next /\ UNCHANGED <<stack, held>>
        BY <1>5 DEF Next, Begin, Commit
  <2>2. IInv'
        BY <1>1, <2>1, NextHolds
  <2> QED
      BY <1>1, <2>1, <2>2, StackKept DEF NInv
<1>6. CASE Abort /\ stack' = <<>>
  <2>1. Next
        BY <1>6 DEF Next
  <2>2. IInv'
        BY <1>1, <2>1, NextHolds
  <2> QED
      BY <1>6, <2>2 DEF NInv, StackOk
<1> QED
    BY <1>2, <1>3, <1>5, <1>6, EnterHolds, Compute1Holds, Compute2Holds DEF NNext, Transaction

\* What it says of each entry.
LEMMA EntriesSay ==
    ASSUME NInv, NEW k \in DOMAIN stack
    PROVE  EntrySays(stack[k], held)
<1>1. CASE stack = <<>>
      BY <1>1
<1>2. ASSUME NEW e, stack = <<e>>, EntrySays(e, held)
      PROVE  EntrySays(stack[k], held)
  <2>1. k = 1
        BY <1>2
  <2> QED
      BY <1>2, <2>1
<1>3. ASSUME NEW e, NEW f, stack = <<e, f>>, OperandSays(e, held), OperandSays(f, held)
      PROVE  EntrySays(stack[k], held)
  <2>1. k = 1 \/ k = 2
        BY <1>3
  <2>2. stack[1] = e /\ stack[2] = f
        BY <1>3
  <2> QED
      BY <1>3, <2>1, <2>2, OperandEntry
<1> QED
    BY <1>1, <1>2, <1>3 DEF NInv, StackOk

\* What follows for a sound entry.
LEMMA SoundExact ==
    ASSUME NInv, NEW k \in DOMAIN stack, stack[k].sound
    PROVE  Exact(stack[k])
<1> DEFINE e == stack[k]
           l == Stored(e.word)
<1>1. IInv /\ EntrySays(e, held) /\ e.sound
      BY EntriesSay DEF NInv
<1> HIDE DEF e
<1>2. l \in Numerals /\ Value(l) = e.num /\ held[e.word] = Number(l)
      BY <1>1, EntryStored
<1>3. ASSUME Short(e.word)
      PROVE  LET m == AtomLimbs(e.word)
             IN  /\ ToDecimal(m) = Printed(e.num)
                 /\ Two[Met(m)] > e.num /\ (e.num > 0 => Two[Met(m) - 1] <= e.num)
  <2>1. AtomLimbs(e.word) = l
        BY <1>2, <1>3, AtomLimbsIs
  <2> HIDE DEF l
  <2>2. ToDecimal(l) = Printed(e.num)
        BY <1>2, ToDecimalExact
  <2>3. Two[Met(l)] > e.num /\ (e.num > 0 => Two[Met(l) - 1] <= e.num)
        BY <1>2, MetExact
  <2> QED
      BY <2>1, <2>2, <2>3
<1>4. ASSUME NEW f \in {stack[j] : j \in DOMAIN stack}, f.sound
      PROVE  e.word = f.word <=> e.num = f.num
  <2>1. EntrySays(f, held)
        BY EntriesSay
  <2> DEFINE m == Stored(f.word)
  <2>2. m \in Numerals /\ Value(m) = f.num /\ held[f.word] = Number(m)
        BY <1>1, <1>4, <2>1, EntryStored
  <2>3. e.word \in DOMAIN held /\ f.word \in DOMAIN held
        BY <1>1, <2>1 DEF EntrySays
  <2>4. e.word = f.word => e.num = f.num
        BY <1>2, <2>2
  <2> HIDE DEF l, m
  <2>5. ASSUME e.num = f.num PROVE e.word = f.word
    <3>1. l = m
          BY <1>2, <2>2, <2>5, LessExact
    <3>2. held[e.word] = held[f.word]
          BY <1>2, <2>2, <3>1
    <3>3. WordsAreValues
          BY <1>1, WordsAreNumbers
    <3> QED
        BY <2>3, <3>2, <3>3 DEF WordsAreValues
  <2> QED
      BY <2>4, <2>5
<1> QED
    BY <1>2, <1>3, <1>4 DEF Exact, e

\* Under every calculation, too, words are values (WordsAreValues of Numbers_atoms).
THEOREM CalculationsKeepWords == NSpec => []WordsAreValues
<1>1. NInv => WordsAreValues
      BY WordsAreNumbers DEF NInv
<1> QED
    BY <1>1, NInitHolds, NNextHolds, PTL DEF NSpec

\* ArithmeticExact: in every reachable state of every calculation, a sound
\* operand's atom is the number the calculation should have at that place; it
\* prints and measures as that number, and two operands have one word exactly if
\* they are one number.
THEOREM CalculationsExact == NSpec => []ArithmeticExact
<1>1. NInv => ArithmeticExact
      BY SoundExact DEF ArithmeticExact
<1> QED
    BY <1>1, NInitHolds, NNextHolds, PTL DEF NSpec
=============================================================================
