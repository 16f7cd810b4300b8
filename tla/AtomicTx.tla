------------------------------ MODULE AtomicTx ------------------------------
(***************************************************************************)
(* What the I2 event loop promises: an event is either answered by one     *)
(* indivisible transaction -- the event leaves the queue, its causes and   *)
(* service completions join it, timers are set and cancelled -- or by      *)
(* nothing at all, or is dropped alone.  No candidate, slot, semispace,    *)
(* ring buffer or program counter is visible here.                         *)
(***************************************************************************)
EXTENDS Naturals, Sequences, SequencesExt, FiniteSets

CONSTANTS Tokens, NoTok, QCap, TimerMax, MaxCauses, MaxSvc

VARIABLES queue,  \* admitted events, oldest first
          timers  \* tokens of the timers that are set

aVars == <<queue, timers>>

Item(kind, t) == [kind |-> kind, tok |-> t]
Repeat(kind, n) == [i \in 1 .. n |-> Item(kind, NoTok)]
Completions(ts) == [i \in DOMAIN ts |-> Item("svc", ts[i])]

AInit == queue = <<>> /\ timers = {}

\* Ingress when there is room; refused ingress is no step.
Admit ==
    /\ Len(queue) < QCap
    /\ queue' = Append(queue, Item("ext", NoTok))
    /\ UNCHANGED timers

\* A set timer becomes a queued event, never both and never neither.
Fire(t) ==
    /\ t \in timers
    /\ Len(queue) < QCap
    /\ queue' = Append(queue, Item("timer", t))
    /\ timers' = timers \ {t}

\* The answer to the oldest event, or to an external frame when none waits:
\* its causes and completions join the queue with the change of the timers.
Commit ==
    \E causes \in 0 .. MaxCauses, requested \in SeqOf(Tokens, MaxSvc) :
        /\ queue' = (IF queue = <<>> THEN <<>> ELSE Tail(queue))
                    \o Repeat("cause", causes) \o Completions(requested)
        /\ timers' \in {set \in SUBSET Tokens : Cardinality(set) <= TimerMax}
        /\ Len(queue') <= QCap

\* A faulting event is dropped, and only that event.
Drop ==
    /\ queue # <<>>
    /\ queue' = Tail(queue)
    /\ UNCHANGED timers

\* Operator commands and structural crashes; a soft crash keeps the timers.
Clear ==
    /\ queue' \in {queue, <<>>}
    /\ timers' \in {timers, {}}

ANext == Admit \/ (\E t \in Tokens : Fire(t)) \/ Commit \/ Drop \/ Clear

ASpec == AInit /\ [][ANext]_aVars
=============================================================================
