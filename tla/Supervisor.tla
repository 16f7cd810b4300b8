----------------------------- MODULE Supervisor -----------------------------
(***************************************************************************)
(* The resource manager of m7_supervisor.c and the scheduler that runs it: *)
(* a one-entry mailbox, the boundary after every terminal transaction, the *)
(* nested lifecycle plan of START and STOP, forced stop, and the staging   *)
(* and activation of a package.                                            *)
(*                                                                         *)
(* The nested kernel_loop of a plan is not a second program counter:       *)
(* plan.on says that the innermost loop is the nested one, and the code    *)
(* above it waits at the boundary.                                         *)
(***************************************************************************)
EXTENDS Naturals, Sequences, FiniteSets

CONSTANTS
    Pkgs,        \* packages that can be admitted
    ClosedPkgs,  \* those with the closed process profile
    MaxInc,      \* UINT64_MAX
    QCap,        \* EVQ_CAP
    Chunks       \* chunks of a staged package

ASSUME SupervisorAssumption ==
    /\ ClosedPkgs \subseteq Pkgs
    /\ MaxInc \in Nat \ {0} /\ QCap \in Nat \ {0} /\ Chunks \in Nat \ {0}

MaxTxs == 3     \* M7_LIFECYCLE_MAX_TRANSACTIONS
MaxFan == 2     \* causes one event may have
Fan == 0 .. MaxFan

VARIABLES
    m7,       \* g_m7: mode, incarnation, mailbox, status, safe
    durable,  \* ~ durability_unknown
    stage,    \* the staged package
    live,     \* the header of g_kernel, and the identity
    fifo,     \* g_evq: where each event comes from
    timers,   \* the number of armed timers
    out,      \* the output bank as its driver reports it
    plan,     \* g_m7_lifecycle_*
    debt,     \* history: causes of the plan made and not yet served
    started,  \* history: the incarnation whose lifecycle was last completed
    pc, back  \* control of core 0, and where the boundary returns to

svars == <<m7, durable, stage, live, fifo, timers, out, plan, debt, started, pc, back>>

Commands == {"query", "start", "stop", "other", "bad"}
\* An aggregate, a queryable part, an object the formula refuses whatever the
\* command, bytes that receipt refuses.
Objects == {"app", "part", "wrong", "raw"}

Modes == {"idle", "running", "stopping", "stopped"}
\* Events: a cause of the running plan, a cause of another event, a timer,
\* an inert filler of the laboratory word M7QFILL.
Sources == {"life", "cause", "timer", "fill"}

NoStage == [open |-> FALSE, sealed |-> FALSE, want |-> CHOOSE p \in Pkgs : TRUE,
            got |-> 0, good |-> TRUE]
NoPlan == [on |-> FALSE, stop |-> FALSE, slot |-> FALSE, drop |-> FALSE,
           root |-> FALSE, draining |-> FALSE, txs |-> 0]

\* m7_initial_state, with the incarnation the caller gives it.
Initial(inc) ==
    [mode |-> "idle", inc |-> inc, qi |-> TRUE, pending |-> FALSE,
     cmd |-> "other", obj |-> "raw", safe |-> TRUE]

SupInit(pkgs) ==
    /\ live \in [pkg : pkgs, inc : {1}] /\ started = 0
    /\ m7 = Initial(1) /\ durable = TRUE /\ stage = NoStage
    /\ fifo = <<>> /\ timers = 0
    /\ out = [low |-> TRUE, inhibited |-> FALSE, fatal |-> FALSE]
    /\ plan = NoPlan /\ debt = 0
    /\ pc = "head" /\ back = "head"

Closed == live.pkg \in ClosedPkgs

-----------------------------------------------------------------------------
(* The output bank, as far as its callers can tell.                        *)

\* digital_out_force_safe: the latch is set whatever the backend answers.
SafeFrom(bank, ok) ==
    [low |-> ok \/ bank.low, inhibited |-> TRUE, fatal |-> bank.fatal \/ ~ok]
Safe(ok) == SafeFrom(out, ok)

\* digital_out_prepare_clean_pill; a failed configuration writes nothing.
Prepared(ok) ==
    IF ok THEN [low |-> TRUE, inhibited |-> FALSE, fatal |-> FALSE]
          ELSE [out EXCEPT !.inhibited = TRUE, !.fatal = TRUE]

\* An activated output command of a transaction; the licence it needs in
\* front of an inhibited bank is the subject of DigitalOut.
Driven == IF out.fatal THEN {out, Safe(TRUE), Safe(FALSE)}
          ELSE {out, [low |-> FALSE, inhibited |-> FALSE, fatal |-> FALSE], Safe(TRUE), Safe(FALSE)}

-----------------------------------------------------------------------------
(* The mailbox and the manager formula.                                    *)

Receivable(cmd, obj) == obj # "raw" /\ m7.qi /\ ~m7.pending /\ cmd # "bad"

\* m7_manager_request: receipt is not yet the request.
Receive(cmd, obj) ==
    /\ m7' = IF Receivable(cmd, obj)
             THEN [m7 EXCEPT !.pending = TRUE, !.cmd = cmd, !.obj = obj]
             ELSE m7
    /\ UNCHANGED <<durable, stage, live, fifo, timers, out, plan, debt, started>>

\* The mailbox keeps its content, which nobody reads before the next request.
Finished(m) == [m EXCEPT !.cmd = "other", !.obj = "raw"]

ManagerInit(qi) ==
    /\ m7' = Finished([m7 EXCEPT !.qi = qi, !.pending = FALSE])
    /\ UNCHANGED <<durable, stage, live, fifo, timers, out, plan, debt, started, pc, back>>

\* The decision table that manager_formula builds as a Nock formula.
Permitted ==
    \/ m7.cmd = "query" /\ m7.obj = "part"
    \/ m7.cmd = "start" /\ m7.obj = "app" /\ m7.mode \in {"idle", "stopped"}
    \/ m7.cmd = "stop" /\ m7.obj = "app" /\ m7.mode = "running"

-----------------------------------------------------------------------------
(* The boundary.                                                           *)

\* m7_scheduler_boundary returns the status; the loop ignores it.
Return(rdy) ==
    /\ pc' = IF back # "reply" THEN back ELSE IF rdy THEN "confirmed" ELSE "denied"
    /\ back' = "head"

Undelivered_KeepsTimers(m, safe) ==
    /\ m7' = Finished([m EXCEPT !.mode = "stopped", !.safe = safe])
    /\ fifo' = <<>> /\ UNCHANGED timers
    /\ plan' = NoPlan /\ debt' = 0
    /\ Return(FALSE)
    /\ UNCHANGED <<durable, stage, live, started>>

\* The lifecycle failed or was not delivered: everything is retired, the
\* incarnation stays.
Undelivered(m, safe) ==
    /\ m7' = Finished([m EXCEPT !.mode = "stopped", !.safe = safe])
    /\ fifo' = <<>> /\ timers' = 0
    /\ plan' = NoPlan /\ debt' = 0
    /\ Return(FALSE)
    /\ UNCHANGED <<durable, stage, live, started>>

\* m7_deliver_restart and kernel_m7_execute_lifecycle.
BeginPlan(stop, m, q) ==
    /\ m7' = m
    /\ plan' = [NoPlan EXCEPT !.on = TRUE, !.stop = stop, !.slot = TRUE, !.drop = stop]
    /\ fifo' = IF stop THEN <<>> ELSE q
    /\ debt' = 0
    /\ pc' = "select"
    /\ UNCHANGED <<durable, stage, live, timers, started, back>>

StartFenced_Never == FALSE

\* After an activation whose durability is unknown nothing starts.
StartFenced == ~durable

\* m7_scheduler_boundary up to the lifecycle.
Boundary ==
    /\ pc = "boundary"
    /\ LET m == [m7 EXCEPT !.pending = FALSE, !.obj = "raw"]
           Answer(rdy) == /\ m7' = Finished(m) /\ Return(rdy)
                          /\ UNCHANGED <<durable, stage, live, fifo, timers, out, plan, debt, started>>
       IN  \/ /\ ~m7.pending /\ Return(TRUE)
              /\ UNCHANGED <<m7, durable, stage, live, fifo, timers, out, plan, debt, started>>
           \/ m7.pending /\ ~Permitted /\ Answer(FALSE)
           \/ /\ m7.pending /\ Permitted /\ m7.cmd = "query"
              /\ \E rdy \in BOOLEAN : Answer(rdy)
           \/ m7.pending /\ Permitted /\ m7.cmd = "start" /\ StartFenced /\ Answer(FALSE)
           \/ /\ m7.pending /\ Permitted /\ m7.cmd = "start" /\ ~StartFenced
              /\ \/ ~Closed /\ UNCHANGED out /\ BeginPlan(FALSE, m, fifo)
                 \/ /\ Closed
                    /\ \E ok \in BOOLEAN :
                       \/ out' = Prepared(TRUE) /\ ok /\ BeginPlan(FALSE, m, fifo)
                       \/ \E safe \in BOOLEAN :   \* one of the two services is not prepared
                             out' = SafeFrom(Prepared(ok), safe) /\ Undelivered(m, safe)
           \/ /\ m7.pending /\ Permitted /\ m7.cmd = "stop" /\ UNCHANGED out
              /\ BeginPlan(TRUE, [m EXCEPT !.mode = "stopping"], fifo)

\* m7_advance_incarnation: the next epoch, or an allocation failed, or there
\* is no next one.
Advance(ok) ==
    IF ok THEN m7.inc < MaxInc /\ live' = [live EXCEPT !.inc = m7.inc + 1]
          ELSE UNCHANGED live

\* m7_scheduler_boundary after the nested loop returned; it reads
\* g_m7.pending_command again.
DeliverFails ==
    /\ pc = "undelivered"
    /\ \E ok \in BOOLEAN : out' = Safe(ok) /\ Undelivered(m7, ok)

DeliverStart ==
    /\ pc = "delivered" /\ m7.cmd # "stop"
    /\ m7' = Finished([m7 EXCEPT !.mode = "running", !.safe = FALSE])
    /\ started' = live.inc
    /\ plan' = NoPlan
    /\ Return(TRUE)
    /\ UNCHANGED <<durable, stage, live, fifo, timers, out, debt>>

StopConfirmed_LowIsEnough(safe, adv) == safe

\* Safe-low, and an incarnation to go on with.
StopConfirmed(safe, adv) == safe /\ adv

\* A stop whose advance fails leaves the mode at STOPPING.
DeliverStop ==
    /\ pc = "delivered" /\ m7.cmd = "stop"
    /\ \E safe, adv \in BOOLEAN :
          /\ out' = Safe(safe)
          /\ Advance(adv)
          /\ m7' = Finished([m7 EXCEPT !.mode = IF adv THEN "stopped" ELSE @,
                                       !.inc = IF adv THEN @ + 1 ELSE @, !.safe = safe])
          /\ Return(StopConfirmed(safe, adv))
    /\ fifo' = <<>> /\ timers' = 0
    /\ plan' = NoPlan
    /\ UNCHANGED <<durable, stage, debt, started>>

-----------------------------------------------------------------------------
(* The scheduler: one event, one terminal transaction.                     *)

\* kernel_m7_transaction_terminal: the nested loop ends, goes on, or the
\* outer loop runs the boundary.  q is the FIFO the transaction left.
Retire(q, fail) ==
    /\ plan' = [NoPlan EXCEPT !.stop = plan.stop]
    /\ fifo' = q
    /\ pc' = IF fail THEN "undelivered" ELSE "delivered"

\* The third transaction has committed and there is more to serve.
Overrun(txs, q) == txs >= MaxTxs /\ q # <<>>

Terminal(committed, q) ==
    IF ~plan.on
    THEN /\ fifo' = q /\ pc' = "boundary" /\ UNCHANGED plan
         /\ back' = IF committed THEN "head" ELSE "select"
    ELSE LET txs == plan.txs + 1
         IN  /\ CASE ~committed -> Retire(q, TRUE)
                  [] committed /\ Overrun(txs, q) -> Retire(<<>>, TRUE)
                  [] committed /\ q = <<>> -> Retire(q, FALSE)
                  [] OTHER ->
                       /\ fifo' = q /\ pc' = "select"
                       /\ plan' = [plan EXCEPT !.txs = txs, !.root = TRUE, !.slot = FALSE,
                                               !.draining = TRUE, !.drop = FALSE]
             /\ UNCHANGED back

Promoted_Omitting(rest, n) ==
    (IF plan.on /\ plan.stop THEN <<>> ELSE rest)
        \o [i \in 1 .. n |-> IF plan.on THEN "life" ELSE "cause"]

\* persist_compact: the queue behind the event, then its causes.
Promoted(rest, n) ==
    (IF plan.on /\ plan.drop THEN <<>> ELSE rest)
        \o [i \in 1 .. n |-> IF plan.on THEN "life" ELSE "cause"]

\* A product commits: n causes, a timer, an output.
Commits(rest, own, n, arms, bank) ==
    /\ Len(Promoted(rest, n)) <= QCap
    /\ Terminal(TRUE, Promoted(rest, n))
    /\ timers' = IF timers = 0 THEN arms ELSE timers
    /\ out' = bank
    /\ debt' = IF plan.on THEN debt + n - own ELSE debt

\* It does not: consumed (abort, malformed, deadline) or retained (preflight,
\* promotion).  A crash clears the queue and, as the policy says, the timers.
EventFails(rest, all) ==
    /\ UNCHANGED debt
    /\ \/ Terminal(FALSE, rest) /\ UNCHANGED <<timers, out>>
       \/ Terminal(FALSE, all) /\ UNCHANGED <<timers, out>>
       \/ /\ \E ok \in BOOLEAN : out' = Safe(ok)
          /\ timers' \in {0, timers}
          /\ Terminal(FALSE, <<>>)

Fixed == UNCHANGED <<m7, durable, stage, live, started>>

\* The event is the lifecycle slot's.
Slot == pc = "select" /\ plan.slot
SlotCommits(n, arms, bank) == Slot /\ Commits(fifo, 0, n, arms, bank) /\ Fixed
SlotFails == Slot /\ EventFails(fifo, fifo) /\ Fixed

\* evq_peek: the filler events are no I2 events, a gate refuses them.
Queued == pc = "select" /\ ~plan.slot /\ fifo # <<>>
QueueCommits(n, arms, bank) ==
    /\ Queued /\ Head(fifo) # "fill"
    /\ Commits(Tail(fifo), IF Head(fifo) = "life" THEN 1 ELSE 0, n, arms, bank)
    /\ Fixed
QueueFails == Queued /\ EventFails(Tail(fifo), fifo) /\ Fixed

Idle == pc = "select" /\ ~plan.slot /\ fifo = <<>>

\* The idle loop goes round with nothing to do.
IdlePass == Idle /\ UNCHANGED svars

\* m7_external_event_allowed: fenced unless RUNNING, and always when closed.
Admitted == ~Closed /\ m7.mode = "running"
ExternalCommits(n, arms, bank) == Idle /\ Admitted /\ Commits(fifo, 0, n, arms, bank) /\ Fixed
ExternalFails ==
    /\ Idle
    /\ \/ Admitted /\ EventFails(fifo, fifo)
       \/ ~Admitted /\ Terminal(FALSE, fifo) /\ UNCHANGED <<timers, out, debt>>
    /\ Fixed

ServeSlot == SlotFails \/ \E n \in Fan, arms \in {0, 1}, bank \in Driven : SlotCommits(n, arms, bank)
ServeQueue == QueueFails \/ \E n \in Fan, arms \in {0, 1}, bank \in Driven : QueueCommits(n, arms, bank)
ServeExternal ==
    ExternalFails \/ \E n \in Fan, arms \in {0, 1}, bank \in Driven : ExternalCommits(n, arms, bank)

\* tarm_poll: not while a plan drains.
TimerFires ==
    /\ pc \in {"head", "select"} /\ ~plan.on
    /\ timers = 1 /\ Len(fifo) < QCap
    /\ timers' = 0 /\ fifo' = Append(fifo, "timer")
    /\ UNCHANGED <<m7, durable, stage, live, out, plan, debt, started, pc, back>>

-----------------------------------------------------------------------------
(* Vendor operations: forced stop, reset, deployment.  r is what they      *)
(* return.                                                                 *)

ForceStop(ok, adv) ==
    /\ out' = Safe(ok)
    /\ Advance(adv)
    /\ m7' = Finished([m7 EXCEPT !.pending = FALSE, !.mode = "stopped", !.safe = ok,
                                 !.inc = IF adv THEN @ + 1 ELSE @])
    /\ fifo' = <<>> /\ timers' = 0
    /\ UNCHANGED <<durable, stage, plan, debt, started, pc, back>>

Reset_KeepsTimers(ok, adv) ==
    /\ out' = Safe(ok)
    /\ Advance(adv)
    /\ m7' = Finished([m7 EXCEPT !.pending = FALSE, !.safe = ok,
                                 !.inc = IF adv THEN @ + 1 ELSE @,
                                 !.mode = IF ok /\ adv THEN "idle" ELSE "stopped"])
    /\ fifo' = <<>> /\ UNCHANGED timers
    /\ UNCHANGED <<durable, stage, plan, debt, started, pc, back>>

\* m7_reset: m7_force_stop, and IDLE only if all of it succeeded.
Reset(ok, adv) ==
    /\ out' = Safe(ok)
    /\ Advance(adv)
    /\ m7' = Finished([m7 EXCEPT !.pending = FALSE, !.safe = ok,
                                 !.inc = IF adv THEN @ + 1 ELSE @,
                                 !.mode = IF ok /\ adv THEN "idle" ELSE "stopped"])
    /\ fifo' = <<>> /\ timers' = 0
    /\ UNCHANGED <<durable, stage, plan, debt, started, pc, back>>

Quiescent == m7.mode \in {"idle", "stopped"}

DeployBegin(p, r) ==
    /\ r = CASE ~durable -> "unknown" [] durable /\ stage.open -> "busy" [] OTHER -> "ok"
    /\ stage' = IF r = "ok" THEN [NoStage EXCEPT !.open = TRUE, !.want = p] ELSE stage
    /\ UNCHANGED <<m7, durable, live, fifo, timers, out, plan, debt, started>>

\* The bytes may not be those the digest was computed from.
DeployChunk(good, r) ==
    /\ r = CASE ~stage.open \/ stage.sealed -> "busy"
             [] stage.open /\ ~stage.sealed /\ stage.got = Chunks -> "offset"
             [] OTHER -> "ok"
    /\ stage' = IF r = "ok" THEN [stage EXCEPT !.got = @ + 1, !.good = @ /\ good] ELSE stage
    /\ UNCHANGED <<m7, durable, live, fifo, timers, out, plan, debt, started>>

DeploySeal(r) ==
    LET early == ~stage.open \/ stage.sealed \/ stage.got # Chunks \/ m7.pending
    IN  /\ \/ early /\ r = "offset" /\ UNCHANGED <<stage, m7, out>>
           \/ ~early /\ ~Quiescent /\ r = "state" /\ UNCHANGED <<stage, m7, out>>
           \/ /\ ~early /\ Quiescent
              /\ \E ok, valid \in BOOLEAN :
                /\ out' = Safe(ok)
                /\ m7' = [m7 EXCEPT !.safe = ok]
                /\ r = CASE ~ok -> "media" [] ok /\ ~stage.good -> "digest"
                         [] ok /\ stage.good /\ ~valid -> "candidate" [] OTHER -> "ok"
                /\ stage' = [stage EXCEPT !.sealed = (r = "ok")]
        /\ UNCHANGED <<durable, live, fifo, timers, plan, debt, started>>

\* Everything fallible before the cold selection; the publication is a run
\* of assignments.
Publish(p, known) ==
    /\ out' = Safe(TRUE)
    /\ live' = [pkg |-> p, inc |-> m7.inc + 1]
    /\ m7' = Initial(m7.inc + 1)
    /\ fifo' = <<>> /\ timers' = 0
    /\ stage' = NoStage
    /\ durable' = known

DigestMatches_Trusting == TRUE
DigestMatches == stage.good

DeployActivate(r) ==
    LET fit == durable /\ stage.open /\ stage.sealed /\ ~m7.pending /\ Quiescent
        Refuse(why, ok, safe) ==
            /\ r = why /\ out' = Safe(ok) /\ m7' = [m7 EXCEPT !.safe = safe]
            /\ UNCHANGED <<durable, live, fifo, timers, stage>>
    IN  /\ \/ ~durable /\ r = "unknown" /\ UNCHANGED <<m7, durable, live, fifo, timers, stage, out>>
           \/ durable /\ ~fit /\ r = "state" /\ UNCHANGED <<m7, durable, live, fifo, timers, stage, out>>
           \/ fit /\
                 \/ Refuse("media", FALSE, FALSE)
                 \/ ~DigestMatches /\ Refuse("digest", TRUE, TRUE)
                 \/ DigestMatches /\ Refuse("candidate", TRUE, TRUE)
                 \/ DigestMatches /\ m7.inc = MaxInc /\ Refuse("storage", TRUE, TRUE)
                 \/ /\ DigestMatches /\ m7.inc < MaxInc
                    /\ \/ \E ok \in BOOLEAN : Refuse("storage", ok, FALSE)
                       \/ Refuse("media", TRUE, TRUE)
                       \/ r = "ok" /\ Publish(stage.want, TRUE)
                       \/ r = "unknown" /\ Publish(stage.want, FALSE)
        /\ UNCHANGED <<plan, debt, started>>

DeployAbort ==
    /\ stage' = NoStage
    /\ UNCHANGED <<m7, durable, live, fifo, timers, out, plan, debt, started>>

\* A checkpoint load of a ready supervisor reads its package into the stage
\* window before it validates anything.
Clobber ==
    /\ stage.open /\ stage.got > 0
    /\ stage' = [stage EXCEPT !.good = FALSE]
    /\ UNCHANGED <<m7, durable, live, fifo, timers, out, plan, debt, started, pc, back>>

\* M7QFILL.
Fill ==
    /\ fifo' = fifo \o [i \in 1 .. QCap - Len(fifo) |-> "fill"]
    /\ UNCHANGED <<m7, durable, stage, live, timers, out, plan, debt, started, pc, back>>

-----------------------------------------------------------------------------
(* Properties.                                                             *)

\* Type invariant: every variable has its shape, the FIFO its capacity, and
\* a plan no more transactions than M7_LIFECYCLE_MAX_TRANSACTIONS allows.
SupTypeOK ==
    /\ m7 \in [mode : Modes, inc : 1 .. MaxInc, qi : BOOLEAN, pending : BOOLEAN,
               cmd : Commands, obj : Objects, safe : BOOLEAN]
    /\ durable \in BOOLEAN
    /\ stage \in [open : BOOLEAN, sealed : BOOLEAN, want : Pkgs, got : 0 .. Chunks, good : BOOLEAN]
    /\ live \in [pkg : Pkgs, inc : 1 .. MaxInc]
    /\ fifo \in Seq(Sources) /\ Len(fifo) <= QCap
    /\ timers \in {0, 1}
    /\ out \in [low : BOOLEAN, inhibited : BOOLEAN, fatal : BOOLEAN]
    /\ plan \in [on : BOOLEAN, stop : BOOLEAN, slot : BOOLEAN, drop : BOOLEAN,
                 root : BOOLEAN, draining : BOOLEAN, txs : 0 .. MaxTxs - 1]
    /\ debt \in 0 .. MaxTxs * MaxFan
    /\ started \in 0 .. MaxInc
    /\ pc \in {"head", "select", "boundary", "undelivered", "delivered", "confirmed", "denied"}
    /\ back \in {"head", "select", "reply"}

\* What runs was started: the mode is RUNNING only in the epoch (package and
\* incarnation) whose COLD or WARM lifecycle was the last to complete, and
\* never over an activation whose durability is unknown.  Deployments,
\* resets, forced stops and failed lifecycles come in between.
RunningWasStarted == m7.mode = "running" => durable /\ started = live.inc

\* A lifecycle is reported delivered only when every cause of its root and of
\* its receivers has been served, also behind a backlog, and the command the
\* boundary reads again afterwards is the one whose plan has run.
CausesServed == pc = "delivered" => debt = 0 /\ plan.stop = (m7.cmd = "stop")

\* Outside RUNNING and outside a plan nothing of the application is left: no
\* timer, no event but the inert fillers, and the bank is low or known broken.
StoppedIsQuiet ==
    m7.mode # "running" /\ ~plan.on /\ pc \in {"head", "select", "confirmed", "denied"} =>
        /\ timers = 0
        /\ \A i \in DOMAIN fifo : fifo[i] = "fill"
        /\ out.low \/ out.fatal

\* The incarnation in the gate and the one in g_m7 move together, by one, and
\* no event, timer or output licence of an epoch is alive in the next one.
EpochClean ==
    [][live' # live =>
          /\ live'.inc = live.inc + 1 /\ m7'.inc = live'.inc
          /\ fifo' = <<>> /\ timers' = 0
          /\ out'.inhibited /\ m7'.mode # "running"]_svars

\* A package becomes live only by activating the stage that declared it, with
\* the bytes it declared, whatever wrote into the stage window since its seal.
InstalledAsDeclared ==
    [][live'.pkg # live.pkg \/ (live' # live /\ stage.open /\ ~stage'.open) =>
          /\ stage.open /\ stage.sealed /\ stage.good /\ ~stage'.open
          /\ live'.pkg = stage.want]_svars

=============================================================================
