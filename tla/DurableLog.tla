----------------------------- MODULE DurableLog -----------------------------
(***************************************************************************)
(* What the cold store promises: a log of objects that survives restarts.  *)
(* An append, of one object or of the two of a deployment, reaches the log *)
(* whole and in one step, or never; it is answered with success only when  *)
(* it has.  A failed append has either outcome, and a restart changes      *)
(* nothing.  log is a set: empty before the store is formatted, the one    *)
(* log afterwards.                                                         *)
(***************************************************************************)
EXTENDS Sequences

CONSTANT Appends       \* the sequences of objects one append may carry

VARIABLES log, goal, answer

vars == <<log, goal, answer>>

Success == {"ok", "committed"}

Init == log \in {{}, {<<>>}} /\ goal = {} /\ answer = "none"

Format == log = {} /\ log' = {<<>>} /\ UNCHANGED <<goal, answer>>

Start(objs) ==
    /\ answer # "busy"
    /\ \E l \in log : goal' = {l \o objs}
    /\ answer' = "busy"
    /\ UNCHANGED log

Take == answer = "busy" /\ log' = goal /\ UNCHANGED <<goal, answer>>

Succeed == answer = "busy" /\ log = goal /\ answer' \in Success /\ UNCHANGED <<log, goal>>

\* The outcome of a failed append is settled, one way or the other, when the
\* failure is reported; a rejected one has no effect.
Fail ==
    /\ answer = "busy"
    /\ answer' \in {"failed", "unknown"}
    /\ log' \in {log, goal}
    /\ UNCHANGED goal

Reject == answer' \in {"failed", "rejected"} /\ UNCHANGED <<log, goal>>

Restart == answer' = "none" /\ goal' = log /\ UNCHANGED log

Next ==
    \/ Format
    \/ \E objs \in Appends : Start(objs)
    \/ Take
    \/ Succeed
    \/ Fail
    \/ Reject
    \/ Restart

Spec == Init /\ [][Next]_vars
=============================================================================
