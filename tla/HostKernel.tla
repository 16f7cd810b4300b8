----------------------------- MODULE HostKernel -----------------------------
(***************************************************************************)
(* The event loop of kernel.c: the capped FIFO, the IRQ ring, the timer    *)
(* registry and the I2 transaction that answers one event.                 *)
(*                                                                         *)
(* One pass of kernel_loop drains the ring, polls the timers, selects an   *)
(* event, slams it through the gate, preflights the product, builds the    *)
(* candidate queue and timers in the inactive semispace, publishes them    *)
(* at one point and only then performs the effects.  An identity-admitted  *)
(* package (live) peeks the FIFO head and consumes it with the outcome; a  *)
(* legacy one dequeues it at selection.                                    *)
(*                                                                         *)
(* The gate is the environment: its answer is any product.  Its tokens are *)
(* fresh or armed, as a gate that numbers its requests issues them.  The   *)
(* M7 lifecycle slot and the closed-process authority checks are absent.   *)
(***************************************************************************)
EXTENDS Naturals, Sequences, SequencesExt, FiniteSets, FiniteSetsExt

CONSTANTS Lives,       \* what runtime_identity_live() may be: the loops to explore
          Bounded,     \* kernel_run_bounded: the loop returns to the REPL
          Tokens,      \* lifecycle tokens (legacy: timer ids)
          NoTok,
          QCap,        \* EVQ_CAP
          IrqCap,      \* IRQ_RING_SIZE - 1
          TimerMax,    \* TARM_MAX = I2_MAX_TIMERS
          MaxEffects,  \* I2_MAX_EFFECTS_PER_EVENT
          MaxCauses,   \* I2_MAX_CAUSES_PER_EVENT
          MaxSvc       \* I2_MAX_PENDING_SERVICES

ASSUME ModeAssumption == Lives \subseteq BOOLEAN /\ Bounded \in BOOLEAN
ASSUME TokenAssumption == IsFiniteSet(Tokens) /\ NoTok \notin Tokens
ASSUME CapAssumption ==
    /\ {QCap, IrqCap, TimerMax} \subseteq Nat \ {0}
    /\ {MaxEffects, MaxCauses, MaxSvc} \subseteq Nat

VARIABLES
    live,     \* runtime_identity_live(), of the package installed before the loop
    evq,      \* g_evq, g_evq_n: the FIFO, oldest first
    irq,      \* codes in the IRQ ring
    arms,     \* g_tarms: the token of each slot, NoTok when inactive
    due,      \* armed tokens whose deadline has passed
    pc,       \* where core 0 is
    step,     \* timer slot polled next, or effect built / activated next
    cur,      \* the selected event's source, "none" outside a slam
    prod,     \* the gate's product while it is built and activated
    cand,     \* the candidate queue, slots and completion cells
    comps,    \* g_activation_completions: positions in evq
    outcome   \* history: what the driver did for a requested service

vars == <<live, evq, irq, arms, due, pc, step, cur, prod, cand, comps, outcome>>

Slots == 1 .. TimerMax
Effects == [op : {"set", "cancel", "svc", "bad"}, tok : Tokens]
Kinds == {"ext", "cause", "tick", "timer", "svc"}
Statuses == {"none", "ok", "fail"}
Events == [kind : Kinds, tok : Tokens \cup {NoTok}, st : Statuses]

Event(kind, t) == [kind |-> kind, tok |-> t, st |-> "none"]
External == Event("ext", NoTok)
Cause == Event("cause", NoTok)
\* make_i2_service_event_checked builds status 0, which reads as success.
Completion(t) == [kind |-> "svc", tok |-> t, st |-> "ok"]

NoProd == [fx |-> <<>>, causes |-> 0]
NoCand == [q |-> <<>>, arms |-> [s \in Slots |-> NoTok], comps |-> <<>>]

ArmedIn(a) == {a[s] : s \in Slots} \ {NoTok}
Armed == ArmedIn(arms)
Active(a) == {s \in Slots : a[s] # NoTok}
QueuedTokens == {evq[i].tok : i \in DOMAIN evq} \ {NoTok}

TypeOK ==
    /\ live \in BOOLEAN
    /\ evq \in Seq(Events) /\ Len(evq) <= QCap
    /\ irq \in 0 .. IrqCap
    /\ arms \in [Slots -> Tokens \cup {NoTok}]
    /\ due \subseteq Tokens
    /\ pc \in {"repl", "drain", "poll", "select", "slam", "build", "activate"}
    /\ step \in Nat
    /\ cur \in {"none", "fifo", "rx"}
    /\ prod \in [fx : Seq(Effects), causes : Nat]
    /\ cand \in [q : Seq(Events), arms : [Slots -> Tokens \cup {NoTok}], comps : Seq(Nat)]
    /\ comps \in Seq(Nat)
    /\ outcome \in [Tokens -> Statuses]

Init ==
    /\ live \in Lives
    /\ evq = <<>> /\ irq = 0
    /\ arms = [s \in Slots |-> NoTok] /\ due = {}
    /\ pc = "repl" /\ step = 1 /\ cur = "none"
    /\ prod = NoProd /\ cand = NoCand /\ comps = <<>>
    /\ outcome = [t \in Tokens |-> "none"]

-----------------------------------------------------------------------------
(* Queue, ring and timer primitives.                                       *)

\* Mutant: the cap is forgotten.
Enq_NoCap(q, e) == Append(q, e)

\* evq_enq: drop-newest at the cap.
Enq(q, e) == IF Len(q) < QCap THEN Append(q, e) ELSE q

\* evq_deq / evq_consume_terminal: a dequeue of an empty FIFO does nothing.
Deq(q) == IF q = <<>> THEN q ELSE Tail(q)

\* Mutant: the head is consumed by the handler and again at the loop.
ConsumeTerminal_Twice == IF cur = "fifo" THEN Deq(Deq(evq)) ELSE evq

ConsumeTerminal == IF cur = "fifo" THEN Deq(evq) ELSE evq

FirstFree(a) == Min({s \in Slots : a[s] = NoTok})
SlotOf(a, t) == CHOOSE s \in Slots : a[s] = t

\* tarm_clear, with the deadlines that go with the slots.
NoArms == arms' = [s \in Slots |-> NoTok] /\ due' = {}

-----------------------------------------------------------------------------
(* The operator at the REPL.                                               *)

AtRepl == pc = "repl"
Waits == UNCHANGED <<pc, step, cur, prod, cand, comps, outcome>>

ReplEnq == AtRepl /\ evq' = Enq(evq, External) /\ UNCHANGED <<irq, arms, due>> /\ Waits

IrqPush == AtRepl /\ irq < IrqCap /\ irq' = irq + 1 /\ UNCHANGED <<evq, arms, due>> /\ Waits

\* QCLR, IRQC and TACLR.
ReplClear ==
    /\ AtRepl
    /\ \/ evq' = <<>> /\ UNCHANGED <<irq, arms, due>>
       \/ irq' = 0 /\ UNCHANGED <<evq, arms, due>>
       \/ NoArms /\ UNCHANGED <<evq, irq>>
    /\ Waits

\* KERNEL / shrine_loop / kernel_run_bounded.
EnterLoop ==
    /\ AtRepl
    /\ pc' = "drain"
    /\ UNCHANGED <<evq, irq, arms, due, step, cur, prod, cand, comps, outcome>>

\* Time passes.  tarm_poll compares every slot with one reading of the clock.
Elapse(t) ==
    /\ pc # "poll"
    /\ t \in Armed \ due
    /\ due' = due \cup {t}
    /\ UNCHANGED <<evq, irq, arms, pc, step, cur, prod, cand, comps, outcome>>

-----------------------------------------------------------------------------
(* The loop head.                                                          *)

Drain ==
    /\ pc = "drain" /\ irq > 0
    /\ irq' = irq - 1
    /\ evq' = Enq(evq, External)
    /\ UNCHANGED <<arms, due, pc, step, cur, prod, cand, comps, outcome>>

Drained ==
    /\ pc = "drain" /\ irq = 0
    /\ pc' = "poll" /\ step' = 1
    /\ UNCHANGED <<evq, irq, arms, due, cur, prod, cand, comps, outcome>>

\* Mutant: the arm survives its own firing.
FireI2_StaysArmed(s) ==
    /\ evq' = Enq(evq, Event("timer", arms[s]))
    /\ due' = due \ {arms[s]}
    /\ UNCHANGED arms

\* Mutant: a full FIFO cancels the timer instead of delaying it.
FireI2_DropsWhenFull(s) ==
    /\ evq' = Enq(evq, Event("timer", arms[s]))
    /\ due' = due \ {arms[s]}
    /\ arms' = [arms EXCEPT ![s] = NoTok]

\* An I2 timer is one-shot: it moves into the FIFO, or stays armed when full.
FireI2(s) ==
    IF Len(evq) < QCap
    THEN /\ evq' = Append(evq, Event("timer", arms[s]))
         /\ arms' = [arms EXCEPT ![s] = NoTok]
         /\ due' = due \ {arms[s]}
    ELSE UNCHANGED <<evq, arms, due>>

\* Mutant: a legacy timer treated as one-shot.
FireLegacy_OneShot(s) ==
    /\ evq' = Enq(evq, Event("tick", arms[s]))
    /\ due' = due \ {arms[s]}
    /\ arms' = [arms EXCEPT ![s] = NoTok]

\* A legacy timer is periodic: its tick may be dropped, the arm stays.
FireLegacy(s) ==
    /\ evq' = Enq(evq, Event("tick", arms[s]))
    /\ due' = due \ {arms[s]}
    /\ UNCHANGED arms

\* One iteration of tarm_poll.
PollSlot ==
    /\ pc = "poll" /\ step \in Slots
    /\ IF arms[step] \in due
       THEN IF live THEN FireI2(step) ELSE FireLegacy(step)
       ELSE UNCHANGED <<evq, arms, due>>
    /\ step' = step + 1
    /\ UNCHANGED <<irq, pc, cur, prod, cand, comps, outcome>>

Polled ==
    /\ pc = "poll" /\ step = TimerMax + 1
    /\ pc' = "select" /\ step' = 1
    /\ UNCHANGED <<evq, irq, arms, due, cur, prod, cand, comps, outcome>>

SelectFifo ==
    /\ pc = "select" /\ evq # <<>>
    /\ evq' = IF live THEN evq ELSE Tail(evq)
    /\ cur' = "fifo" /\ pc' = "slam"
    /\ UNCHANGED <<irq, arms, due, step, prod, cand, comps, outcome>>

\* A complete frame, read only while the FIFO is empty.
SelectRx ==
    /\ pc = "select" /\ evq = <<>>
    /\ cur' = "rx" /\ pc' = "slam"
    /\ UNCHANGED <<evq, irq, arms, due, step, prod, cand, comps, outcome>>

\* The idle loop polls the timers again; it does not drain the ring.
IdlePoll ==
    /\ pc = "select" /\ evq = <<>>
    /\ pc' = "poll" /\ step' = 1
    /\ UNCHANGED <<evq, irq, arms, due, cur, prod, cand, comps, outcome>>

-----------------------------------------------------------------------------
(* Slam and preflight.                                                     *)

\* Mutant: the loop goes back to selection without polling the timers.
Restart_NoPoll == pc' = "select" /\ step' = 1 /\ cur' = "none"
                  /\ prod' = NoProd /\ cand' = NoCand /\ comps' = <<>>

Restart == pc' = "drain" /\ step' = 1 /\ cur' = "none"
           /\ prod' = NoProd /\ cand' = NoCand /\ comps' = <<>>

\* Terminal for this event: nothing is committed, the event is consumed.
Consumed ==
    /\ pc = "slam"
    /\ evq' = ConsumeTerminal
    /\ Restart
    /\ UNCHANGED <<irq, arms, due, outcome>>

SlamTimeout == Consumed  \* budget, mid-eval wall, or deadline after the slam
SlamFault == Consumed    \* %abort or a product of the wrong shape

\* crash_recover_host: SOFT! keeps the timers.
CrashRecover(soft) ==
    /\ evq' = <<>> /\ irq' = 0
    /\ IF soft THEN UNCHANGED <<arms, due>> ELSE NoArms
    /\ UNCHANGED outcome

SlamCrash ==
    /\ pc = "slam"
    /\ \E soft \in BOOLEAN : CrashRecover(soft)
    /\ Restart

\* CREC at the REPL.
ReplCrash ==
    /\ AtRepl
    /\ \E soft \in BOOLEAN : CrashRecover(soft)
    /\ UNCHANGED <<pc, step, cur, prod, cand, comps>>

Fresh == Tokens \ (Armed \cup QueuedTokens)
GateEffects ==
    [op : {"set"}, tok : Fresh \cup Armed] \cup [op : {"cancel"}, tok : Tokens]
    \cup [op : {"svc"}, tok : Fresh] \cup [op : {"bad"}, tok : Fresh]

Products ==
    [fx : SeqOf(GateEffects, MaxEffects + 1), causes : 0 .. MaxCauses + 1]

Count(fx, op, n) == Cardinality({i \in 1 .. n : fx[i].op = op})

\* Mutant: the timers are counted over the whole product, not up to the effect.
PreflightOk_Totals(p, fromQueue) ==
    LET fx == p.fx
        armed(n) == Cardinality(Active(arms)) - Count(fx, "cancel", n) + Count(fx, "set", n)
    IN  /\ Len(fx) <= MaxEffects
        /\ \A i, j \in DOMAIN fx : fx[i].tok = fx[j].tok => i = j
        /\ \A i \in DOMAIN fx :
              /\ fx[i].op # "bad"
              /\ fx[i].op = "set" => fx[i].tok \notin Armed /\ armed(Len(fx)) <= TimerMax
              /\ fx[i].op = "cancel" => fx[i].tok \in Armed
        /\ Count(fx, "svc", Len(fx)) <= MaxSvc
        /\ p.causes <= MaxCauses
        /\ fromQueue => evq # <<>>
        /\ Len(evq) - (IF fromQueue THEN 1 ELSE 0)
             + p.causes + Count(fx, "svc", Len(fx)) <= QCap

\* i2_preflight_effects.
PreflightOk(p, fromQueue) ==
    LET fx == p.fx
        armed(n) == Cardinality(Active(arms)) - Count(fx, "cancel", n) + Count(fx, "set", n)
    IN  /\ Len(fx) <= MaxEffects
        /\ \A i, j \in DOMAIN fx : fx[i].tok = fx[j].tok => i = j
        /\ \A i \in DOMAIN fx :
              /\ fx[i].op # "bad"
              /\ fx[i].op = "set" => fx[i].tok \notin Armed /\ armed(i) <= TimerMax
              /\ fx[i].op = "cancel" => fx[i].tok \in Armed
        /\ Count(fx, "svc", Len(fx)) <= MaxSvc
        /\ p.causes <= MaxCauses
        /\ fromQueue => evq # <<>>
        /\ Len(evq) - (IF fromQueue THEN 1 ELSE 0)
             + p.causes + Count(fx, "svc", Len(fx)) <= QCap

\* Preflight refused the product: nothing changes and the head is retained.
SlamRefused ==
    /\ pc = "slam"
    /\ ~ \A p \in Products : PreflightOk(p, cur = "fifo")
    /\ Restart
    /\ UNCHANGED <<evq, irq, arms, due, outcome>>

\* Mutant: the causes are put in front of the waiting events.
SlamCommit_CausesFirst ==
    /\ pc = "slam"
    /\ \E p \in Products :
          /\ PreflightOk(p, cur = "fifo")
          /\ prod' = p
          /\ cand' = [q |-> [i \in 1 .. p.causes |-> Cause]
                            \o (IF cur = "fifo" THEN Tail(evq) ELSE evq),
                      arms |-> arms, comps |-> <<>>]
    /\ pc' = "build" /\ step' = 1
    /\ UNCHANGED <<evq, irq, arms, due, cur, comps, outcome>>

\* %commit accepted: persist_compact copies the remaining queue and appends
\* the causes; the effects follow one by one.
SlamCommit ==
    /\ pc = "slam"
    /\ \E p \in Products :
          /\ PreflightOk(p, cur = "fifo")
          /\ prod' = p
          /\ cand' = [q |-> (IF cur = "fifo" THEN Tail(evq) ELSE evq)
                            \o [i \in 1 .. p.causes |-> Cause],
                      arms |-> arms, comps |-> <<>>]
    /\ pc' = "build" /\ step' = 1
    /\ UNCHANGED <<evq, irq, arms, due, cur, comps, outcome>>

-----------------------------------------------------------------------------
(* Building and publishing the candidate.                                  *)

BuildSet(t) ==
    /\ Active(cand.arms) # Slots
    /\ cand' = [cand EXCEPT !.arms[FirstFree(cand.arms)] = t]

BuildCancel(t) ==
    /\ t \in ArmedIn(cand.arms)
    /\ cand' = [cand EXCEPT !.arms[SlotOf(cand.arms, t)] = NoTok]

BuildCompletion(t) ==
    /\ Len(cand.comps) < MaxSvc /\ Len(cand.q) < QCap
    /\ cand' = [cand EXCEPT !.q = Append(@, Completion(t)),
                            !.comps = Append(@, Len(cand.q) + 1)]

BuildEffect ==
    /\ pc = "build" /\ step <= Len(prod.fx)
    /\ LET fx == prod.fx[step]
       IN  \/ fx.op = "set" /\ BuildSet(fx.tok)
           \/ fx.op = "cancel" /\ BuildCancel(fx.tok)
           \/ fx.op = "svc" /\ BuildCompletion(fx.tok)
    /\ step' = step + 1
    /\ UNCHANGED <<evq, irq, arms, due, pc, cur, prod, comps, outcome>>

\* Mutant: the candidate timers are live before publication.
BuildFault_LeaksTimers ==
    /\ pc = "build"
    /\ Restart
    /\ arms' = cand.arms /\ due' = due \cap ArmedIn(cand.arms)
    /\ UNCHANGED <<evq, irq, outcome>>

\* An allocation fails before publication: the candidate is abandoned.
BuildFault ==
    /\ pc = "build"
    /\ Restart
    /\ UNCHANGED <<evq, irq, arms, due, outcome>>

Publish ==
    /\ pc = "build" /\ step = Len(prod.fx) + 1
    /\ evq' = cand.q /\ arms' = cand.arms /\ comps' = cand.comps
    /\ due' = due \cap ArmedIn(cand.arms)
    /\ pc' = "activate" /\ step' = 1 /\ cur' = "none" /\ cand' = NoCand
    /\ outcome' = [t \in Tokens |-> IF \E i \in DOMAIN prod.fx : prod.fx[i] = [op |-> "svc", tok |-> t]
                                    THEN "none" ELSE outcome[t]]
    /\ UNCHANGED <<irq, prod>>

-----------------------------------------------------------------------------
(* Activation: the driver runs after publication and completes in place.   *)

\* Mutant: every effect takes the next completion, not only a service.
ActivateEffect_CountsAll ==
    /\ pc = "activate" /\ step <= Len(prod.fx)
    /\ LET fx == prod.fx[step]
           k == step
       IN  IF fx.op = "svc"
           THEN \E st \in {"ok", "fail"} :
                  /\ evq' = IF k <= Len(comps) THEN [evq EXCEPT ![comps[k]].st = st] ELSE evq
                  /\ outcome' = [outcome EXCEPT ![fx.tok] = st]
           ELSE UNCHANGED <<evq, outcome>>
    /\ step' = step + 1
    /\ UNCHANGED <<irq, arms, due, pc, cur, prod, cand, comps>>

\* dispatch_i2_activate, one effect of the list.
ActivateEffect ==
    /\ pc = "activate" /\ step <= Len(prod.fx)
    /\ LET fx == prod.fx[step]
           k == Count(prod.fx, "svc", step)
       IN  IF fx.op = "svc"
           THEN \E st \in {"ok", "fail"} :
                  /\ evq' = IF k <= Len(comps) THEN [evq EXCEPT ![comps[k]].st = st] ELSE evq
                  /\ outcome' = [outcome EXCEPT ![fx.tok] = st]
           ELSE UNCHANGED <<evq, outcome>>
    /\ step' = step + 1
    /\ UNCHANGED <<irq, arms, due, pc, cur, prod, cand, comps>>

Activated ==
    /\ pc = "activate" /\ step = Len(prod.fx) + 1
    /\ pc' \in IF Bounded THEN {"drain", "repl"} ELSE {"drain"}
    /\ step' = 1 /\ prod' = NoProd /\ comps' = <<>>
    /\ UNCHANGED <<evq, irq, arms, due, cur, cand, outcome>>

-----------------------------------------------------------------------------
(* The legacy Shrine product [effects [gate causes]]: no preflight; the    *)
(* event is already out of the FIFO.                                       *)

\* persist_compact fails when the causes do not fit: the event is lost.
LegacyRefused ==
    /\ ~live /\ pc = "slam"
    /\ Restart
    /\ UNCHANGED <<evq, irq, arms, due, outcome>>

\* dispatch_effects after the promotion: %tset, %tcan, %irq or other.
LegacyEffect(q) ==
    \/ evq' = q /\ UNCHANGED <<arms, due>>
    \/ evq' = Enq(q, External) /\ UNCHANGED <<arms, due>>
    \/ \E t \in Tokens :
          /\ evq' = q /\ due' = due \ {t}
          /\ \/ t \in Armed /\ arms' = [arms EXCEPT ![SlotOf(arms, t)] = NoTok]
             \/ t \in Armed /\ UNCHANGED arms
             \/ t \notin Armed /\ Active(arms) # Slots
                /\ arms' = [arms EXCEPT ![FirstFree(arms)] = t]

LegacyCommit ==
    /\ ~live /\ pc = "slam"
    /\ \E causes \in 0 .. MaxCauses :
          /\ Len(evq) + causes <= QCap
          /\ LegacyEffect(evq \o [i \in 1 .. causes |-> Cause])
    /\ Restart
    /\ UNCHANGED <<irq, outcome>>

-----------------------------------------------------------------------------
Loop ==
    \/ Drain \/ Drained \/ PollSlot \/ Polled
    \/ SelectFifo \/ SelectRx \/ IdlePoll
    \/ SlamTimeout \/ SlamFault \/ SlamCrash \/ SlamRefused \/ SlamCommit
    \/ BuildEffect \/ BuildFault \/ Publish \/ ActivateEffect \/ Activated
    \/ LegacyRefused \/ LegacyCommit

Operator == ReplEnq \/ IrqPush \/ ReplClear \/ ReplCrash \/ EnterLoop

Next == UNCHANGED live /\ (Loop \/ Operator \/ \E t \in Tokens : Elapse(t))

Spec == Init /\ [][Next]_vars

\* Core 0 keeps executing the loop; nothing preempts it.
FairSpec == Spec /\ WF_vars(Loop /\ UNCHANGED live)

-----------------------------------------------------------------------------
(* Properties.                                                             *)

Shape(q) == [i \in DOMAIN q |-> [kind |-> q[i].kind, tok |-> q[i].tok]]

\* A lifecycle token is in one place at most: one timer slot or one queued
\* event, through firing, cancellation, aborted builds and crashes.  A timer
\* that fires twice, or that fires and stays armed, breaks it.
OnceEach ==
    live =>
    /\ \A s1, s2 \in Slots : arms[s1] # NoTok /\ arms[s1] = arms[s2] => s1 = s2
    /\ \A i, j \in DOMAIN evq : evq[i].tok # NoTok /\ evq[i].tok = evq[j].tok => i = j
    /\ Armed \cap QueuedTokens = {}

\* Preflight decides on counters what the builder then does on slots and a
\* queue: an accepted product never finds the registry or the FIFO full, nor
\* a cancelled timer missing ("preflight/timer candidate divergence").
PreflightCovers ==
    pc = "build" /\ step <= Len(prod.fx) =>
        LET fx == prod.fx[step]
        IN  CASE fx.op = "set" -> Active(cand.arms) # Slots
              [] fx.op = "cancel" -> fx.tok \in ArmedIn(cand.arms)
              [] fx.op = "svc" -> Len(cand.comps) < MaxSvc /\ Len(cand.q) < QCap
              [] OTHER -> FALSE

\* A completion is queued before its driver runs and reads as a success until
\* then; by the time any event can be selected it tells what the driver did.
CompletionsTruthful ==
    pc # "activate" =>
        \A i \in DOMAIN evq : evq[i].kind = "svc" => evq[i].st = outcome[evq[i].tok]

\* The events behind the one being served.
Waiting ==
    IF evq # <<>> /\ cur = "fifo"
    THEN Tail(evq) ELSE evq

\* Serving an event of an identity-admitted package drops, reorders or
\* overwrites none of the events waiting behind it, whatever becomes of it
\* ("queue retained on timeout"); only a crash or the operator empties the
\* FIFO.  The legacy loop, which has dequeued the event already, does drop
\* the next one on a timeout (kernel.c:2401).
WaitingKept ==
    [][\/ ~live \/ SlamCrash \/ pc = "repl"
       \/ \E kept \in {Waiting, evq} : IsPrefix(Shape(kept), Shape(evq'))]_vars

\* An armed timer leaves the registry only as a queued event, by a committed
\* cancel (legacy: by %tcan), or by a hard crash or the operator: not with a
\* fault, a refusal, an aborted build or a full FIFO.
TimersKept ==
    [][\A t \in Armed \ ArmedIn(arms') :
        \/ live /\ evq' = Append(evq, Event("timer", t))
        \/ pc = "build" /\ pc' = "activate" /\ [op |-> "cancel", tok |-> t] \in Range(prod.fx)
        \/ LegacyCommit \/ SlamCrash \/ pc = "repl"]_vars

\* A due timer fires or finds the FIFO full, even while the head is refused
\* and retried for ever.
DueTimersFire ==
    \A t \in Tokens :
        pc # "repl" /\ t \in Armed \cap due
            ~> t \notin Armed \/ Len(evq) = QCap \/ pc = "repl"

\* As long as events keep being consumed, no queued event is passed over for
\* ever: causes and completions never overtake it.
Consumes == cur = "fifo" /\ (SlamTimeout \/ SlamFault \/ Publish)
NoStarvation ==
    []<><<Consumes>>_vars =>
        \A t \in Tokens : t \in QueuedTokens ~> t \notin QueuedTokens

\* The I2 loop implements the atomic transactions; the legacy loop promises none.
Tx == INSTANCE AtomicTx WITH
    queue <- IF live THEN Shape(evq) ELSE <<>>, timers <- IF live THEN Armed ELSE {}
AtomicTransactions == Tx!ASpec
=============================================================================
