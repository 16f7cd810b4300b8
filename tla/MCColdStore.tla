---------------------------- MODULE MCColdStore ----------------------------
(* Instances of the cold store for TLC. *)
EXTENDS ColdStore

Snap == [kind |-> "snap", val |-> "b", len |-> 2]
Entry == [kind |-> "log", val |-> "a", len |-> 1]
Pill  == [kind |-> "blob", val |-> "p", len |-> 1]
State == [kind |-> "snap", val |-> "s", len |-> 1]

MCVals == {"a", "b", "p", "s"}
MCSingles == {Snap, Entry}
EntryOnly == {Entry}
MCDeployments == {<<Pill, State>>}
FormattedOnly == {[Blank EXCEPT ![SLOT0] = FirstSuper]}
AnyFirst == FormattedOnly \cup {Blank, [Blank EXCEPT ![SLOT0] = Alien]}
=============================================================================
