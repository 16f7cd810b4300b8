----------------------------- MODULE Checkpoint -----------------------------
(***************************************************************************)
(* Checkpoint, power cycle and boot around the resource manager: what a    *)
(* save accepts, what the cold store then selects, what a restart makes of *)
(* it (m7_boot_snapshot, kernel_boot), and the laboratory words that       *)
(* install a package or load a snapshot into a running machine.            *)
(*                                                                         *)
(* A gate is reduced to its package, its header's incarnation, and for a   *)
(* closed process to the state of its service instances (svc).  CKAUTO! is *)
(* a save that may follow every commit; it sees the queue and the timers   *)
(* the transaction has published, before the lifecycle plan ends.          *)
(***************************************************************************)
EXTENDS Supervisor

CONSTANTS
    RolePkgs,  \* programs with the three roles of a closed process
    None       \* the cold store selects no snapshot

ASSUME CheckpointAssumption ==
    ClosedPkgs \subseteq RolePkgs /\ RolePkgs \subseteq Pkgs /\ None \notin Pkgs

VARIABLES
    host,   \* who drives core 0
    base,   \* the package at PILL_BASE
    active, \* g_m7.active_pill: the package the live gate came from, if kept
    svc,    \* the service instances in the gate of a closed process
    tokens, \* history: incarnations that own an armed or queued token
    snap    \* the snapshot the cold store selects

cvars == <<host, base, active, svc, tokens, snap>>
checkpointVars == <<svars, cvars>>

\* A console without a live gate, with one, kernel_loop for ever.  The pump of
\* the operator image does what a console with a live gate may do.
Hosts == {"bare", "repl", "loop"}
\* As the package has them; initialised with nothing pending; a scan pending.
Services == {"fresh", "ready", "scan"}
Policies == {"pill", "snap else pill", "snap"}
\* A snapshot names the package by its bytes (blob) and holds its gate (pkg,
\* header).  Of the queue it keeps the length here: whose cause an event was
\* is forgotten with the plan.  started is history.
Snapshots ==
    [blob : Pkgs, pkg : Pkgs, inc : 1 .. MaxInc, header : 1 .. MaxInc, mode : Modes,
     qi : BOOLEAN, queued : 0 .. QCap, timers : {0, 1}, tokens : SUBSET (1 .. MaxInc),
     svc : Services, started : BOOLEAN]

CheckpointInit ==
    /\ host = "bare" /\ base \in Pkgs /\ SupInit({base})
    /\ active = None /\ svc = "fresh" /\ tokens = {} /\ snap = None

-----------------------------------------------------------------------------
(* Saving.                                                                 *)

\* Nothing queued and nothing pending, and exactly the timer of the scan if the
\* process runs.
ScanQuiescent(mode, n, t, s) ==
    /\ n = 0 /\ mode # "stopping"
    /\ t = IF mode = "running" THEN 1 ELSE 0
    /\ s = IF mode = "running" THEN "ready" ELSE "fresh"

\* m7_capture_active_pill: a package installed from PILL_BASE is stored with
\* the first save.
Blob == IF active = None THEN base ELSE active

Owners(q, t) == IF q = <<>> /\ t = 0 THEN {} ELSE tokens \cup {live.inc}
Tracked == tokens' = Owners(fifo', timers')

\* m7_snapshot_build.
Capture(q, t, s) ==
    [blob |-> Blob, pkg |-> live.pkg, inc |-> m7.inc, header |-> live.inc, mode |-> m7.mode,
     qi |-> m7.qi, queued |-> Len(q), timers |-> t, tokens |-> Owners(q, t), svc |-> s,
     started |-> started = live.inc]

\* What m7_deploy_activate commits beside the package.
Deployed(p) ==
    [blob |-> p, pkg |-> p, inc |-> m7.inc + 1, header |-> m7.inc + 1, mode |-> "idle",
     qi |-> TRUE, queued |-> 0, timers |-> 0, tokens |-> {}, svc |-> "fresh", started |-> FALSE]

MaySave == durable /\ ~m7.pending /\ ~stage.open

CaptureGuard_Drained(q, t, s) == Closed => q = <<>>

\* m8_checkpoint_quiescent.
CaptureGuard(q, t, s) == Closed => ScanQuiescent(m7.mode, Len(q), t, s)

\* m7_checkpoint_save of a transaction that left q, t, s and bank; a closed
\* process is made safe before its roots are copied.  A failed append may
\* have reached the medium.
SaveAfter(q, t, s, bank) ==
    \/ out' = bank /\ active' \in {active, Blob} /\ UNCHANGED snap    \* refused, or not due
    \/ /\ MaySave /\ CaptureGuard(q, t, s)
       /\ \E ok \in BOOLEAN :
             /\ out' = IF Closed THEN SafeFrom(bank, ok) ELSE bank
             /\ active' = Blob
             /\ snap' \in {snap} \cup (IF ok THEN {Capture(q, t, s)} ELSE {})

\* CKPT!, or a snapshot request of an operator.
Save ==
    /\ host = "repl" /\ pc = "head"
    /\ SaveAfter(fifo, timers, svc, out)
    /\ UNCHANGED <<m7, durable, stage, live, fifo, timers, plan, debt, started, pc, back,
                   host, base, svc, tokens>>

-----------------------------------------------------------------------------
(* The loop, saving after a commit.                                        *)

Rest == IF Queued THEN Tail(fifo) ELSE fifo

Serve ==
    /\ Slot \/ Queued \/ (Idle /\ Admitted)
    /\ svc' \in IF Closed THEN Services ELSE {svc}
    /\ \E n \in Fan, arms \in {0, 1}, bank \in Driven :
          /\ SaveAfter(Promoted(Rest, n), IF timers = 0 THEN arms ELSE timers, svc', bank)
          /\ SlotCommits(n, arms, out') \/ QueueCommits(n, arms, out') \/ ExternalCommits(n, arms, out')
    /\ Tracked /\ UNCHANGED <<host, base>>

CheckpointScheduler ==
    \/ /\ \/ Boundary \/ DeliverFails \/ DeliverStart \/ DeliverStop
          \/ SlotFails \/ QueueFails \/ ExternalFails \/ IdlePass \/ TimerFires
       /\ Tracked /\ UNCHANGED <<host, base, active, svc, snap>>
    \/ Serve

-----------------------------------------------------------------------------
(* Installations.                                                          *)

\* m7_init_clean leaves no package of its own.
KeptPackage == None

\* install_clean_pill, with a fresh supervisor.
InstallPill ==
    /\ live' = [pkg |-> base, inc |-> 1] /\ started' = 0
    /\ m7' = Initial(1) /\ durable' = TRUE /\ stage' = NoStage /\ active' = KeptPackage
    /\ fifo' = <<>> /\ timers' = 0 /\ svc' = "fresh" /\ tokens' = {}
    /\ out' = [low |-> TRUE, inhibited |-> FALSE, fatal |-> FALSE]
    /\ plan' = NoPlan /\ debt' = 0 /\ pc' = "head" /\ back' = "head"

\* The roles of a closed process in the program: a program without them is
\* refused, whatever its capability profile.
HasRoles(p) == p \in RolePkgs

\* m7_bind_snapshot_instances.
Bound_Unchecked(s) == TRUE
Bound(s) == HasRoles(s.pkg)

\* runtime_identity_validate_gate_header against the incarnation of the record.
HeaderTrue(s) == s.header = s.inc

\* checkpoint_validate_m7_roots: every token is of the incarnation restored.
RootsValid(s) == s.tokens \subseteq {s.inc}

\* m8_saved_checkpoint_quiescent.
SavedQuiescent(s) == ScanQuiescent(s.mode, s.queued, s.timers, s.svc)

\* Every condition of m7_boot_snapshot that depends on the snapshot.
Restorable(s) ==
    /\ s.mode # "stopping" /\ HeaderTrue(s)
    /\ s.blob = s.pkg
    /\ Bound(s)
    /\ RootsValid(s)
    /\ s.pkg \in ClosedPkgs => SavedQuiescent(s)

\* A closed process gets a fresh timer, the others those they had.
Resumed(s) == IF s.pkg \in ClosedPkgs THEN IF s.mode = "running" THEN 1 ELSE 0 ELSE s.timers

RestoredMode_AsLive(s) == m7.mode
RestoredMode(s) == s.mode

\* m7_boot_snapshot up to its publication; of the supervisor the stage and
\* the durability of the last activation are not part of a snapshot.
Restore(s) ==
    /\ s # None /\ Restorable(s)
    /\ live' = [pkg |-> s.pkg, inc |-> s.inc] /\ started' = (IF s.started THEN s.inc ELSE 0) /\ active' = s.blob
    /\ m7' = [m7 EXCEPT !.mode = RestoredMode(s), !.inc = s.inc, !.qi = s.qi, !.pending = FALSE,
                        !.cmd = "other", !.obj = "raw", !.safe = TRUE]
    /\ fifo' = [i \in 1 .. s.queued |-> "cause"] /\ timers' = Resumed(s)
    /\ tokens' = s.tokens
    /\ svc' = IF s.pkg \in ClosedPkgs /\ s.mode = "running" THEN "ready" ELSE "fresh"
    /\ out' = [low |-> TRUE, inhibited |-> TRUE, fatal |-> FALSE]
    /\ plan' = NoPlan /\ debt' = 0 /\ pc' = "head" /\ back' = "head"
    /\ UNCHANGED <<durable, stage>>

\* Nothing is installed; the bank may have been made safe, or its driver
\* have failed.  The overwritten package window is in Operator (Clobber).
Refused ==
    /\ \/ UNCHANGED <<out, m7>>
       \/ \E ok \in BOOLEAN :
             /\ out' \in {Safe(ok), Prepared(FALSE)}
             /\ m7' \in {m7, [m7 EXCEPT !.safe = ok]}
    /\ UNCHANGED <<durable, stage, live, fifo, timers, plan, debt, started, pc, back, active, svc, tokens>>

\* CKLOAD of a ready supervisor.
Load ==
    /\ host = "repl" /\ pc = "head"
    /\ Restore(snap) \/ Refused
    /\ UNCHANGED <<host, base, snap>>

\* kernel_prepare_pill.
PreparePill ==
    /\ host \in {"bare", "repl"} /\ pc = "head"
    /\ \/ InstallPill /\ host' = "repl"
       \/ Refused /\ UNCHANGED host
    /\ UNCHANGED <<base, snap>>

-----------------------------------------------------------------------------
(* Power and boot.                                                         *)

\* The machine loses its memory at any moment, and may come back with another
\* package at PILL_BASE.  main makes the bank safe before anything else.
PowerCycle ==
    /\ \E ok \in BOOLEAN :
          out' = [low |-> TRUE, inhibited |-> TRUE, fatal |-> ~ok]
    /\ base' \in Pkgs /\ live' = [pkg |-> base', inc |-> 1] /\ started' = 0
    /\ m7' = Initial(1) /\ durable' = TRUE /\ stage' = NoStage
    /\ active' = None
    /\ fifo' = <<>> /\ timers' = 0 /\ svc' = "fresh" /\ tokens' = {}
    /\ plan' = NoPlan /\ debt' = 0 /\ pc' = "head" /\ back' = "head"
    /\ host' = "bare" /\ UNCHANGED snap

\* kernel_boot with an M7 package at PILL_BASE tries the snapshot whatever the
\* policy; allocation, decoding and drivers may fail under either source.
Boot ==
    /\ host \in {"bare", "repl"} /\ pc = "head"
    /\ \/ Restore(snap) /\ host' = "loop"
       \/ \E policy \in Policies : policy # "snap" /\ InstallPill /\ host' = "loop"
       \/ Refused /\ UNCHANGED host
    /\ UNCHANGED <<base, snap>>

-----------------------------------------------------------------------------
(* What the console and the requests of an operator do between events.     *)

Managed == host = "repl" /\ pc = "head"

Command ==
    /\ Managed /\ UNCHANGED <<host, base, active, svc, snap>>
    /\ \/ \E c \in {"start", "stop"} : Receive(c, "app") /\ UNCHANGED <<pc, back>>
       \/ /\ pc' = "boundary" /\ back' = "head" /\ m7.pending
          /\ UNCHANGED <<m7, durable, stage, live, fifo, timers, out, plan, debt, started>>
       \/ \E ok, adv \in BOOLEAN : ForceStop(ok, adv) \/ Reset(ok, adv)
    /\ Tracked

\* A package is staged, sealed and activated; Operator has the steps.
Deploy ==
    /\ Managed /\ durable /\ ~m7.pending /\ Quiescent /\ m7.inc < MaxInc
    /\ \E p \in Pkgs, known \in BOOLEAN :
          /\ Publish(p, known)
          /\ active' = p
          /\ snap' \in IF known THEN {Deployed(p)} ELSE {snap, Deployed(p), None}
    /\ svc' = "fresh" /\ Tracked
    /\ UNCHANGED <<plan, debt, started, pc, back, host, base>>

\* The pump, or the word that runs the loop for one commit; kernel_loop.
Round ==
    /\ host \in {"repl", "loop"} /\ pc = "head"
    /\ pc' = "select"
    /\ UNCHANGED <<m7, durable, stage, live, fifo, timers, out, plan, debt, started, back, cvars>>

CheckpointNext ==
    \/ CheckpointScheduler \/ Save \/ Load \/ PreparePill \/ PowerCycle \/ Boot \/ Command \/ Deploy \/ Round

CheckpointSpec == CheckpointInit /\ [][CheckpointNext]_checkpointVars

-----------------------------------------------------------------------------
(* Properties.                                                             *)

\* The values the variables range over.
CheckpointTypeOK ==
    /\ SupTypeOK
    /\ host \in Hosts /\ base \in Pkgs /\ active \in Pkgs \cup {None} /\ svc \in Services
    /\ tokens \subseteq 1 .. MaxInc
    /\ snap \in Snapshots \cup {None}

\* What a save or an activation committed for a closed process, also in the
\* middle of a plan, of a scan or of a stage, passes every check of the
\* restart, so that a restart falls back on the package for a fault only.
SavedRestores == snap # None /\ snap.pkg \in ClosedPkgs => Restorable(snap)

\* Across restarts, loads and deployments: the mode is RUNNING only over an
\* epoch whose lifecycle has completed, before or after the restart.
RunsWhatStarted == m7.mode = "running" => started = live.inc

=============================================================================
