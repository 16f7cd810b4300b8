----------------------------- MODULE MCOperator -----------------------------
(* Operator on a small instance. *)
EXTENDS Operator, TLC

Symmetry == Permutations(Ids)

\* A client of the operator image asks for everything, that of the laboratory for
\* what a supervisor does from afar; the rest is at its console.
Supervision == {"start", "stop", "snapshot"}
BothLines == [i \in Images |-> IF i = "operator" THEN Ops ELSE Supervision]

\* Once the line of the laboratory has been used, its behaviours are followed
\* while there is no stage, a short backlog and a closed process.
Focus ==
    \/ image = "operator"
    \/ op = OpInit /\ line = NoRequest
    \/ ~stage.open /\ Len(fifo) < QCap /\ Closed
=============================================================================
