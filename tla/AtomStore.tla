------------------------------ MODULE AtomStore ------------------------------
(***************************************************************************)
(* The atom store of noun.c and the transactions over it.  An atom that    *)
(* fits 63 bits is its own noun word; a larger one is stored once, in an   *)
(* append-only arena, and its word is a 62-bit digest of its limbs.  An    *)
(* open-addressed index leads from the digest to the arena.  Nothing is    *)
(* ever removed, except by noun_tx_abort, which empties the index slots    *)
(* filled since noun_tx_begin and moves the arena back: the decoder opens  *)
(* a transaction for every frame, and the event loop closes it only when   *)
(* the event is settled, so an abort discards what a whole evaluation      *)
(* made.  Comparing two atoms compares their words and nothing else.       *)
(*                                                                         *)
(* A limb sequence is little-endian.  ptr is an ordinal of the arena, 0    *)
(* for none; room is counted in limbs.                                     *)
(***************************************************************************)
EXTENDS Naturals, Sequences

CONSTANTS Slots,     \* ATOM_INDEX_SLOTS
          Capacity,  \* room of the arena
          Header,    \* room an atom_t takes besides its limbs
          Half,      \* 2^63: words below it are direct, words above carry a digest
          Contents,  \* limb sequences a caller may hand to make_atom
          Digest     \* the 62 bits of BLAKE3 that name a limb sequence

\* The canonical limbs of a sequence: its trailing zero limbs stripped.
Canonical(l) ==
    {SubSeq(l, 1, n) : n \in {m \in 1 .. Len(l) :
        /\ m = 1 \/ l[m] # 0
        /\ \A k \in (m + 1) .. Len(l) : l[k] = 0}}

ASSUME StoreAssumption == {Slots, Half} \subseteq Nat \ {0} /\ {Capacity, Header} \subseteq Nat
ASSUME ContentAssumption ==
    /\ \A l \in Contents : l \in Seq(Nat) /\ l # <<>> /\ Canonical(l) \subseteq Contents
    /\ Digest \in [Contents -> Nat]

VARIABLES index,  \* the probe table
          data,   \* the atoms of the arena, oldest first
          top,    \* atom_data_ptr
          tx,     \* the open noun transaction
          held,   \* history: noun words in use, with the number each was made for
          fresh   \* history: the words obtained first in the open transaction

storeVars == <<index, data, top, tx>>
vars == <<index, data, top, tx, held, fresh>>

Vacated == [hash |-> 0, ptr |-> 0]
Closed == [live |-> FALSE, mark |-> 0, top |-> 0, slots |-> <<>>]

\* The number a limb sequence stands for: its non-zero limbs and their places.
Number(l) == {<<i, l[i]>> : i \in {j \in DOMAIN l : l[j] # 0}}

-----------------------------------------------------------------------------
(* Words and the index.                                                    *)

IsDirect(s) == Len(s) = 1 /\ s[1] < Half

\* A digest of zero would read as an empty slot; it is replaced by one.
Identity(s) == IF Digest[s] = 0 THEN 1 ELSE Digest[s]

Word(s) == IF IsDirect(s) THEN s[1] ELSE Half + Identity(s)

Probe(h, i) == (h + i) % Slots

\* atom_store_get: the chain is followed to the digest or to an empty slot.
Finds(h, p) ==
    \E i \in 0 .. Slots - 1 :
        /\ \A j \in 0 .. i - 1 :
              index[Probe(h, j)].ptr # 0 /\ index[Probe(h, j)].hash # h
        /\ index[Probe(h, i)] = [hash |-> h, ptr |-> p] /\ p # 0

\* The first empty slot of the chain.
Vacant(h, s) ==
    \E i \in 0 .. Slots - 1 :
        /\ \A j \in 0 .. i - 1 : index[Probe(h, j)].ptr # 0
        /\ s = Probe(h, i) /\ index[s].ptr = 0

\* atom_content_equal, of the atom the digest leads to.
Known(s) == \E p \in DOMAIN data : Finds(Identity(s), p) /\ data[p] = s

Absent(s) == ~\E p \in DOMAIN data : Finds(Identity(s), p)

-----------------------------------------------------------------------------
(* Transactions.                                                           *)

\* noun_tx_begin; a transaction inside another is refused.
Begin ==
    /\ ~tx.live
    /\ tx' = [live |-> TRUE, mark |-> Len(data), top |-> top, slots |-> <<>>]
    /\ fresh' = {}
    /\ UNCHANGED <<index, data, top, held>>

Commit ==
    /\ tx.live
    /\ tx' = Closed
    /\ fresh' = {}
    /\ UNCHANGED <<index, data, top, held>>

Listed == {tx.slots[k] : k \in DOMAIN tx.slots}

\* Mutant: the last slot on the list is not emptied.
Abort_MissesLast ==
    /\ tx.live
    /\ index' = [s \in DOMAIN index |->
                    IF \E k \in 1 .. Len(tx.slots) - 1 : s = tx.slots[k]
                    THEN Vacated ELSE index[s]]
    /\ data' = SubSeq(data, 1, tx.mark)
    /\ top' = tx.top
    /\ tx' = Closed
    /\ held' = [w \in DOMAIN held \ fresh |-> held[w]]
    /\ fresh' = {}

\* noun_tx_abort; whoever held a word obtained inside drops it.
Abort ==
    /\ tx.live
    /\ index' = [s \in DOMAIN index |-> IF s \in Listed THEN Vacated ELSE index[s]]
    /\ data' = SubSeq(data, 1, tx.mark)
    /\ top' = tx.top
    /\ tx' = Closed
    /\ held' = [w \in DOMAIN held \ fresh |-> held[w]]
    /\ fresh' = {}

-----------------------------------------------------------------------------
(* make_atom_checked, of limbs l with canonical form s.                    *)

Fits(s) == top + Header + Len(s) <= Capacity

Store(s) ==
    \E slot \in DOMAIN index :
        /\ Vacant(Identity(s), slot)
        /\ index' = [index EXCEPT ![slot] = [hash |-> Identity(s), ptr |-> Len(data) + 1]]
        /\ data' = Append(data, s)
        /\ top' = top + Header + Len(s)
        /\ tx' = IF tx.live THEN [tx EXCEPT !.slots = Append(tx.slots, slot)] ELSE tx

Make(l, s) ==
    /\ \/ IsDirect(s) /\ UNCHANGED storeVars
       \/ ~IsDirect(s) /\ Known(s) /\ UNCHANGED storeVars
       \/ ~IsDirect(s) /\ Absent(s) /\ Fits(s) /\ Store(s)
    /\ held' = [w \in DOMAIN held \cup {Word(s)} |->
                   IF w = Word(s) THEN Number(l) ELSE held[w]]
    /\ fresh' = IF tx.live THEN fresh \cup ({Word(s)} \ DOMAIN held) ELSE fresh

\* The digest names another atom, the arena or the index is full, or the hot
\* frontier is frozen (heap_noalloc, left open here).  The caller crashes or
\* returns an error, and both end an open transaction.
Refuse(s) ==
    /\ ~IsDirect(s) /\ ~Known(s)
    /\ IF tx.live THEN Abort ELSE UNCHANGED vars

-----------------------------------------------------------------------------

Init ==
    /\ index = [s \in 0 .. Slots - 1 |-> Vacated]
    /\ data = <<>> /\ top = 0
    /\ tx = Closed
    /\ held = <<>> /\ fresh = {}

Next ==
    \/ \E l \in Contents : \E s \in Canonical(l) : Make(l, s) \/ Refuse(s)
    \/ Begin \/ Commit \/ Abort

Spec == Init /\ [][Next]_vars

-----------------------------------------------------------------------------
(* Properties.                                                             *)

\* Comparing words compares numbers: every word in use leads to the number it
\* was made for, whatever was stored, refused or discarded since, and one
\* number never has two words (make_atom_checked, atom_store_get, noun_tx_abort).
WordsAreValues ==
    /\ \A w \in DOMAIN held :
          \/ w < Half /\ held[w] = Number(<<w>>)
          \/ w >= Half /\ \E p \in DOMAIN data :
                             Finds(w - Half, p) /\ held[w] = Number(data[p])
    /\ \A w, x \in DOMAIN held : held[w] = held[x] => w = x
=============================================================================
