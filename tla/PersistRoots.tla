---------------------------- MODULE PersistRoots ----------------------------
(***************************************************************************)
(* The persistent roots of the kernel and the two halves of the persistent *)
(* semispace they point into (noun.c, kernel.c, m7_supervisor.c).          *)
(*                                                                         *)
(* A publication builds every new root in the inactive half and makes that *)
(* half active.  The previous half stays readable until the next build     *)
(* starts, which overwrites it.  A root nobody copies is therefore still   *)
(* readable one build later and is lost with the second, even when that    *)
(* second build is aborted.  The module keeps, for every global root and   *)
(* for the local variable `slam' of every kernel_loop on the C stack, the  *)
(* half its cells live in, and follows every operation that flips, aborts, *)
(* copies, clears or replaces roots.  Cell contents are abstracted away.   *)
(***************************************************************************)
EXTENDS Naturals, Sequences

CONSTANTS Profiles,      \* "legacy" (no identity), "i2", "m7" (supervised)
          SwapProfiles,  \* profiles under which the operator uses STAGE / HSWAP
          MaxTxs         \* M7_LIFECYCLE_MAX_TRANSACTIONS

ASSUME ProfilesAssumption == Profiles \subseteq {"legacy", "i2", "m7"}
ASSUME SwapAssumption == SwapProfiles \subseteq Profiles
ASSUME MaxTxsAssumption == MaxTxs \in Nat \ {0}

Halves == {"A", "B"}
Other(h) == IF h = "A" THEN "B" ELSE "A"

\* "none": the root is NOUN_ZERO.  "lost": its cells have been overwritten.
Places == Halves \cup {"none", "lost"}

RootNames == {"gate", "queue", "timers", "slam", "formula", "staged"}

NoPlan == [cmd |-> "none", txs |-> 0]
Plans == {NoPlan} \cup [cmd : {"start", "stop"}, txs : 0 .. MaxTxs]

VARIABLES
    profile,  \* the class of the booted package; never changes
    sel,      \* persist_sel: the active half
    root,     \* where each global root lives
    frames,   \* where the local `slam' of each kernel_loop activation lives
    at,       \* control: REPL/pump, loop head, end of a transaction, or
              \* between a STOP plan and its incarnation advance
    hstat,    \* g_hstat
    mode,     \* g_m7.mode
    mail,     \* the M7 mailbox: the pending management command
    plan      \* the closed lifecycle plan being executed

vars == <<profile, sel, root, frames, at, hstat, mode, mail, plan>>

TypeOK ==
    /\ profile \in Profiles
    /\ sel \in Halves
    /\ root \in [RootNames -> Places]
    /\ frames \in Seq(Places)
    /\ at \in {"repl", "head", "terminal", "advance"}
    /\ hstat \in {"idle", "staged", "pending"}
    /\ mode \in {"idle", "running", "stopping", "stopped"}
    /\ mail \in {"none", "start", "stop"}
    /\ plan \in Plans

-----------------------------------------------------------------------------
(* Semispace transactions.                                                 *)

\* heap_persist_begin_tx flips to the inactive half; what lived there goes.
Overwritten(p) == IF p = Other(sel) THEN "lost" ELSE p

\* A root copied by noun_copy_checked inside the transaction.
Copied(p) == IF p = sel THEN Other(sel)
             ELSE IF p = "none" THEN "none" ELSE "lost"

\* The roots after a committed build: `copied' are forwarded, `fresh' are
\* given by the caller, the others keep pointing where they did.
Published(copied, fresh) ==
    [r \in RootNames |->
        IF r \in DOMAIN fresh THEN fresh[r]
        ELSE IF r \in copied THEN Copied(root[r])
        ELSE Overwritten(root[r])]

\* A list rebuilt in the new half: old entries copied, new ones appended,
\* possibly ending up empty.
Rebuilt(p) == {"none", IF p \in {"none", sel} THEN Other(sel) ELSE "lost"}

AgedFrames == [i \in DOMAIN frames |-> Overwritten(frames[i])]

\* begin_tx ... abort_tx: the active half and every root value are restored,
\* the inactive half is not.
AbortedBuild(fresh) ==
    /\ root' = Published({}, fresh)
    /\ frames' = AgedFrames
    /\ UNCHANGED sel

Install(copied, fresh) ==
    /\ root' = Published(copied, fresh)
    /\ frames' = AgedFrames
    /\ sel' = Other(sel)

Cleared(names) == [r \in RootNames |-> IF r \in names THEN "none" ELSE root[r]]

-----------------------------------------------------------------------------
Init ==
    /\ profile \in Profiles
    /\ sel \in Halves
    /\ root = [r \in RootNames |->
                 CASE r \in {"gate", "slam"} -> sel
                   [] r = "formula" -> IF profile = "m7" THEN sel ELSE "none"
                   [] OTHER -> "none"]
    /\ frames = <<>>
    /\ at = "repl"
    /\ hstat = "idle"
    /\ mode = "idle"
    /\ mail = "none"
    /\ plan = NoPlan

Top == Len(frames)
Caller == IF Top = 0 THEN "repl" ELSE "head"
AtRepl == at = "repl" /\ plan = NoPlan

\* swap_apply_if_ready runs before anything else at the loop head.
SwapDue == hstat = "pending" /\ root["queue"] = "none"
InLoop == at = "head" /\ Top > 0 /\ ~SwapDue
Ordinary == InLoop /\ plan = NoPlan
InPlan == InLoop /\ plan # NoPlan

\* kernel_loop latches g_slam_formula in a local, building it when missing.
EnterLoop ==
    /\ AtRepl
    /\ LET slam == IF root["slam"] = "none" THEN sel ELSE root["slam"]
       IN /\ root' = [root EXCEPT !["slam"] = slam]
          /\ frames' = <<slam>>
    /\ at' = "head"
    /\ UNCHANGED <<profile, sel, hstat, mode, mail, plan>>

\* max_commits reached (kernel_run_bounded).
LeaveLoop ==
    /\ at = "head" /\ Top = 1 /\ plan = NoPlan
    /\ frames' = <<>>
    /\ at' = "repl"
    /\ UNCHANGED <<profile, sel, root, hstat, mode, mail, plan>>

\* The outer loop samples the mailbox after every terminal transaction.
Sampled == IF profile = "m7" /\ Top = 1 THEN "terminal" ELSE "head"

-----------------------------------------------------------------------------
(* Application transactions.                                               *)

\* The publication of persist_compact with the given rebuilt queue and
\* timers: gate and slam formula are new, the manager formula is copied.
Compact(queue, timers) ==
    /\ root' = Published({"formula"},
                   [gate |-> Other(sel), slam |-> Other(sel),
                    queue |-> queue, timers |-> timers])
    /\ sel' = Other(sel)

\* Mutant: slam_out is not written.
CompactFrames_Stale == AgedFrames

\* slam_out refreshes the local of the loop that ran the transaction.
CompactFrames == [AgedFrames EXCEPT ![Top] = Other(sel)]

Commit ==
    /\ Ordinary
    /\ \E queue \in Rebuilt(root["queue"]), timers \in Rebuilt(root["timers"]) :
           Compact(queue, timers)
    /\ frames' = CompactFrames
    /\ at' = Sampled
    /\ UNCHANGED <<profile, hstat, mode, mail, plan>>

\* Candidate allocation failed, by return value or by a crash that
\* g_i2_preparing turns into a plain abort.
CompactFail ==
    /\ Ordinary
    /\ AbortedBuild(<<>>)
    /\ at' = Sampled
    /\ UNCHANGED <<profile, hstat, mode, mail, plan>>

\* Arvo grammar: the new gate is copied into the active half, no flip.
ArvoCommit ==
    /\ Ordinary /\ profile = "legacy"
    /\ root' = [root EXCEPT !["gate"] = sel]
    /\ UNCHANGED <<profile, sel, frames, at, hstat, mode, mail, plan>>

\* %abort, budget, deadline, bad result, preflight or fence refusal: at most
\* the head of the queue goes.
Reject ==
    /\ Ordinary
    /\ \E queue \in {root["queue"], "none"} :
           root' = [root EXCEPT !["queue"] = queue]
    /\ at' = Sampled
    /\ UNCHANGED <<profile, sel, frames, hstat, mode, mail, plan>>

\* crash_recover_host; a soft crash keeps the timers.
Crash ==
    /\ Ordinary
    /\ \E kept \in BOOLEAN :
           root' = Cleared(IF kept THEN {"queue"} ELSE {"queue", "timers"})
    /\ at' = Sampled
    /\ UNCHANGED <<profile, sel, frames, hstat, mode, mail, plan>>

\* evq_enq copies the event into the active half; a due timer links the
\* cell reserved beside it, or is stale and disarmed.
Enqueue ==
    /\ AtRepl \/ Ordinary
    /\ \/ /\ root["queue"] = "none"
          /\ root' = [root EXCEPT !["queue"] = sel]
       \/ /\ root["timers"] # "none"
          /\ \E timers \in {root["timers"], "none"}, stale \in BOOLEAN :
                root' = [root EXCEPT
                    !["queue"] = IF @ = "none" /\ ~stale THEN root["timers"]
                                 ELSE @,
                    !["timers"] = timers]
    /\ UNCHANGED <<profile, sel, frames, at, hstat, mode, mail, plan>>

-----------------------------------------------------------------------------
(* The M7 supervisor boundary and its closed lifecycle plan, which runs in *)
(* a nested kernel_loop.                                                   *)

Request(cmd) ==
    /\ AtRepl /\ profile = "m7" /\ mail = "none"
    /\ mail' = cmd
    /\ UNCHANGED <<profile, sel, root, frames, at, hstat, mode, plan>>

NoMail ==
    /\ at = "terminal" /\ mail = "none"
    /\ at' = "head"
    /\ UNCHANGED <<profile, sel, root, frames, hstat, mode, mail, plan>>

\* The boundary runs at the end of a transaction of the outer loop, or from
\* the operator or the REPL.
AtBoundary == mail # "none" /\ (at = "terminal" \/ AtRepl)

\* Undecodable object, a status other than RDY, or an unknown durability.
BoundaryRefused ==
    /\ AtBoundary
    /\ mail' = "none"
    /\ at' = Caller
    /\ UNCHANGED <<profile, sel, root, frames, hstat, mode, plan>>

Deliverable == \/ mail = "start" /\ mode \in {"idle", "stopped"}
               \/ mail = "stop" /\ mode = "running"

\* START on closed process I/O whose banks cannot be prepared.
PrepareFails ==
    /\ AtBoundary /\ mail = "start" /\ Deliverable
    /\ root' = Cleared({"queue", "timers"})
    /\ mode' = "stopped"
    /\ mail' = "none"
    /\ at' = Caller
    /\ UNCHANGED <<profile, sel, frames, hstat, plan>>

LifecycleBegin ==
    /\ AtBoundary /\ Deliverable
    /\ LET slam == IF root["slam"] = "none" THEN sel ELSE root["slam"]
       IN /\ root' = [root EXCEPT !["slam"] = slam,
                          !["queue"] = IF mail = "stop" THEN "none" ELSE @]
          /\ frames' = Append(frames, slam)
    /\ plan' = [cmd |-> mail, txs |-> 0]
    /\ mode' = IF mail = "stop" THEN "stopping" ELSE mode
    /\ mail' = "none"
    /\ at' = "head"
    /\ UNCHANGED <<profile, sel, hstat>>

\* The nested loop returned to the boundary.
Return(fs) == frames' = SubSeq(fs, 1, Top - 1)
Returned == IF Top = 1 THEN "repl" ELSE "head"

\* The queue a lifecycle transaction copies: the root of a STOP retires the
\* FIFO instead.
PlanQueue == IF plan.cmd = "stop" /\ plan.txs = 0 THEN "none"
             ELSE root["queue"]

\* A lifecycle transaction committed and left causes to drain.
PlanDrain ==
    /\ InPlan /\ plan.txs + 1 < MaxTxs
    /\ \E queue \in Rebuilt(PlanQueue) \ {"none"},
          timers \in Rebuilt(root["timers"]) : Compact(queue, timers)
    /\ frames' = CompactFrames
    /\ plan' = [plan EXCEPT !.txs = @ + 1]
    /\ UNCHANGED <<profile, at, hstat, mode, mail>>

\* Causes left after the last allowed transaction: the plan has failed.
PlanOverrun ==
    /\ InPlan /\ plan.txs + 1 >= MaxTxs
    /\ Compact("none", "none")
    /\ Return(AgedFrames)
    /\ plan' = NoPlan
    /\ mode' = "stopped"
    /\ at' = Returned
    /\ UNCHANGED <<profile, hstat, mail>>

PlanStarted ==
    /\ InPlan /\ plan.cmd = "start"
    /\ \E timers \in Rebuilt(root["timers"]) : Compact("none", timers)
    /\ Return(AgedFrames)
    /\ plan' = NoPlan
    /\ mode' = "running"
    /\ at' = Returned
    /\ UNCHANGED <<profile, hstat, mail>>

\* STOP delivered: queue and timers are cleared, the advance follows.
PlanStopped ==
    /\ InPlan /\ plan.cmd = "stop"
    /\ Compact("none", "none")
    /\ Return(AgedFrames)
    /\ plan' = NoPlan
    /\ at' = "advance"
    /\ UNCHANGED <<profile, hstat, mode, mail>>

\* Any other terminal outcome of a lifecycle transaction ends the plan.
PlanFail ==
    /\ InPlan
    /\ \/ /\ root' = Cleared({"queue", "timers"})
          /\ Return(frames)
       \/ /\ root' = Published({}, [queue |-> "none", timers |-> "none"])
          /\ Return(AgedFrames)
    /\ plan' = NoPlan
    /\ mode' = "stopped"
    /\ at' = Returned
    /\ UNCHANGED <<profile, sel, hstat, mail>>

\* Mutant: the manager formula stays behind.
AdvanceRoots_GateOnly == {"gate"}

\* m7_advance_incarnation: gate and manager formula are copied, no other
\* root is.  Its failure leaves the mode at STOPPING.
AdvanceRoots == {"gate", "formula"}

StopAdvance ==
    /\ at = "advance"
    /\ \/ Install(AdvanceRoots, <<>>) /\ mode' = "stopped"
       \/ AbortedBuild(<<>>) /\ UNCHANGED mode
    /\ at' = Caller
    /\ UNCHANGED <<profile, hstat, mail, plan>>

\* m7_force_stop, and m7_reset which goes on to IDLE.
ForceStop ==
    /\ AtRepl /\ profile = "m7"
    /\ LET cleared == [queue |-> "none", timers |-> "none"]
       IN \/ Install(AdvanceRoots, cleared) /\ mode' \in {"stopped", "idle"}
          \/ AbortedBuild(cleared) /\ mode' = "stopped"
    /\ mail' = "none"
    /\ UNCHANGED <<profile, at, hstat, plan>>

-----------------------------------------------------------------------------
(* Installations: deployment, checkpoint, clean PILL, legacy gate.         *)

NewGate == [gate |-> Other(sel), slam |-> Other(sel),
            queue |-> "none", timers |-> "none"]
NewM7 == [formula |-> IF profile = "m7" THEN Other(sel) ELSE "none"]

Fresh(f, g) == [r \in DOMAIN f \cup DOMAIN g |->
                  IF r \in DOMAIN f THEN f[r] ELSE g[r]]

DeployActivate ==
    /\ AtRepl /\ profile = "m7" /\ mail = "none"
    /\ mode \in {"idle", "stopped"}
    /\ \/ Install({}, Fresh(NewGate, NewM7)) /\ mode' = "idle"
       \/ AbortedBuild(<<>>) /\ UNCHANGED mode
    /\ UNCHANGED <<profile, at, hstat, mail, plan>>

\* checkpoint_install and checkpoint_install_m7_candidate
CheckpointInstall ==
    /\ AtRepl
    /\ \/ /\ \E queue, timers \in {"none", Other(sel)} :
                Install({"formula"}, Fresh([queue |-> queue, timers |-> timers],
                                           NewGate))
          /\ IF profile = "m7" THEN mode' \in {"idle", "running", "stopped"}
             ELSE UNCHANGED mode
          /\ mail' = "none"
       \/ AbortedBuild(<<>>) /\ UNCHANGED <<mode, mail>>
    /\ UNCHANGED <<profile, at, hstat, plan>>

CleanInstall ==
    /\ AtRepl
    /\ \/ /\ Install({}, Fresh(NewGate, NewM7))
          /\ mode' = "idle"
          /\ mail' = "none"
       \/ AbortedBuild(<<>>) /\ UNCHANGED <<mode, mail>>
    /\ UNCHANGED <<profile, at, hstat, plan>>

ShrineGateSet ==
    /\ AtRepl /\ profile = "legacy"
    /\ root' = [root EXCEPT !["gate"] = sel, !["slam"] = "none"]
    /\ UNCHANGED <<profile, sel, frames, at, hstat, mode, mail, plan>>

-----------------------------------------------------------------------------
(* Hot swap (swap_stage ... swap_request).                                 *)

\* The staged noun was built at the REPL, in the active half.
SwapStage ==
    /\ AtRepl /\ profile \in SwapProfiles
    /\ root' = [root EXCEPT !["staged"] = sel]
    /\ hstat' = "staged"
    /\ UNCHANGED <<profile, sel, frames, at, mode, mail, plan>>

SwapCancel ==
    /\ AtRepl
    /\ root' = [root EXCEPT !["staged"] = "none"]
    /\ hstat' = "idle"
    /\ UNCHANGED <<profile, sel, frames, at, mode, mail, plan>>

SwapRequest ==
    /\ AtRepl /\ hstat = "staged"
    /\ hstat' = "pending"
    /\ UNCHANGED <<profile, sel, root, frames, at, mode, mail, plan>>

\* At the loop head, or at once from the REPL (HSWAP, SAPPLY).
SwapApply ==
    /\ SwapDue
    /\ AtRepl \/ at = "head"
    /\ root' = [root EXCEPT !["gate"] = root["staged"]]
    /\ hstat' = "idle"
    /\ UNCHANGED <<profile, sel, frames, at, mode, mail, plan>>

-----------------------------------------------------------------------------
Next ==
    \/ EnterLoop \/ LeaveLoop
    \/ Commit \/ CompactFail \/ ArvoCommit \/ Reject \/ Crash \/ Enqueue
    \/ \E cmd \in {"start", "stop"} : Request(cmd)
    \/ NoMail \/ BoundaryRefused \/ PrepareFails \/ LifecycleBegin
    \/ PlanDrain \/ PlanOverrun \/ PlanStarted \/ PlanStopped \/ PlanFail
    \/ StopAdvance \/ ForceStop
    \/ DeployActivate \/ CheckpointInstall \/ CleanInstall \/ ShrineGateSet
    \/ SwapStage \/ SwapCancel \/ SwapRequest \/ SwapApply

Spec == Init /\ [][Next]_vars

-----------------------------------------------------------------------------
(* Properties.                                                             *)

\* The gate, the FIFO, the timer tokens and the manager formula live in the
\* active half whenever anyone could read them, across every interleaving of
\* commits, failed builds, supervisor plans and installations.  A hot-swapped
\* gate is the exception: see StagedReadable.
RootsCurrent ==
    /\ \A r \in {"queue", "timers", "formula"} : root[r] \in {"none", sel}
    /\ profile \notin SwapProfiles => root["gate"] = sel

\* Outside the supervised profile the slam formula, global and latched by
\* the running loop, is current too.
SlamCurrent ==
    profile # "m7" => /\ root["slam"] \in {"none", sel}
                      /\ \A i \in DOMAIN frames : frames[i] = sel

\* The slam formula a loop evaluates next, or a new loop would latch, has not
\* been overwritten (kernel.c:1133 makes it a persistent root,
\* HOST-CONTRACT.md says it is rebuilt after every compaction).
SlamReadable ==
    /\ at = "repl" => root["slam"] # "lost"
    /\ at = "head" /\ Top > 0 => frames[Top] # "lost"

\* A staged kernel is still there when it is installed.
StagedReadable == hstat # "idle" => root["staged"] # "lost"

=============================================================================
