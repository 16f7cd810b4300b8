-------------------------------- MODULE Wire --------------------------------
(***************************************************************************)
(* The nouns of the ingress: a sender jams and frames them, i2_rx_take     *)
(* hands what arrived to the bounded decoder.                              *)
(***************************************************************************)
EXTENDS Ingress, Cue

CONSTANT Nouns  \* what a sender jams

ASSUME NounAssumption == \A n \in Nouns : Jam(n) \in Payloads

\* The noun the loop gets, or why it gets none.
Answer == CueBounded(taken)

RECURSIVE Depth(_), Leaves(_)
Depth(n) == IF ~IsCell(n) THEN 1 ELSE 1 + LET h == Depth(n[1]) t == Depth(n[2]) IN IF h > t THEN h ELSE t
Leaves(n) == IF IsCell(n) THEN Leaves(n[1]) + Leaves(n[2]) ELSE 1

\* The noun as a tree keeps the limits of the decoder.
Fits(n) == Depth(n) <= MaxDepth /\ Leaves(n) <= MaxCells + 1 /\ 2 * Leaves(n) - 1 <= MaxNodes

\* The bounded decoder reads what arrived as the plain one does, and gives back
\* every jammed noun that keeps the limits (cue_bounded_bytes).
Faithful ==
    taken # <<>> =>
        /\ Answer.status = "ok" => Answer.noun = CuePlain(taken)
        /\ \A n \in Nouns : payload = Jam(n) /\ Fits(n) => Answer = [status |-> "ok", noun |-> n]

=============================================================================
