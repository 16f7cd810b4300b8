# Trinitite: TLA+ models and proofs

Trinitite is a bare-metal Forth and Nock system for the Raspberry Pi 4. Its C
kernel (`src/src/*.c`) runs an event loop that slams each event through a Nock
gate, promotes the product transactionally, drives a three-channel output bank,
supervises a fixed IEC 61499 application (the "M7" resource manager), and keeps
checkpoints in a two-superblock cold store. This directory holds the models of
that kernel, the TLC configurations that check them and the proofs about them.

Run, from this directory:

    tlc -workers 2 -config HostKernel_i2.cfg MCHostKernel
    tlapm PersistRootsProofs.tla        # any of the eight *Proofs modules

## 1. Inventory

| Part | Source | State | Operations | Hard parts |
|---|---|---|---|---|
| Event loop | `kernel.c` 2337-2845 | program counter of core 0, `g_kernel`, budgets, deadline | select, slam, preflight, promote, activate, terminal outcomes, `longjmp` recoveries | every outcome must leave queue, timers and gate in one of two states |
| FIFO, IRQ ring, timers | `kernel.c` 230-646, 670-870, 1246-1286 | `g_evq` (256), ring (63), `g_tarms` (16) | enqueue, peek / dequeue, drain, set, cancel, fire | capped, drop-newest for ingress, retry for I2 timers; tokens must not be duplicated |
| Promotion | `kernel.c` 976-1194, `noun.c` | two persistent halves, roots | build in the idle half, publish, abort | roots that are not forwarded are lost a build later |
| Services and effects | `kernel.c` 1403-2089 | completion cells | preflight, activate | completions are queued before the driver runs |
| Output bank | `digital_out.c`, two backends | level, shadow, inhibit / reconcile / fatal / freshness latches | prepare, restore, force safe, apply | partial writes, failing clears, stale commands |
| Input snapshot | `digital_in.c` | prepared flag | prepare, read once | a failed read makes the outputs safe |
| M7 supervisor | `m7_supervisor.c` | mode, mailbox, incarnation, formula, stage | request, boundary, START / STOP plan, force stop, reset, deploy, query, checkpoint | nested loop inside the boundary of a loop |
| Hot swap | `kernel.c` 2116-2168 | staged gate, `g_hstat` | stage, request, cancel, apply | the staged noun waits across promotions |
| Closed process (M8) | `i2_closed_process.c`, `kernel.c` | roles, gate pending tokens | authority checks at every hop | an old token at any of five places |
| Checkpoint, boot | `kernel.c` 3233-5172 | candidate views | capture, validate, install, fall back | install must be all or nothing |
| Cold store | `cold.c` | two superblocks, object log | append, select, save, load, deploy | torn writes |
| Cold media | `cold_media.c`, fake, SD, `cold_nv.c` | sector cache, reset latch | write, read, barrier, mount | read-modify-write of shared sectors, deadlines |
| Ingress | `i2_ingress.c` | byte automaton | poll, take | resynchronisation, byte budget |
| Operator channel | `i2_operator.c` | authority, sequence | dispatch of supervised commands | management concurrent with the pump |
| Admission | `i2_admission_policy.c`, `runtime_identity.c` | identity | validation predicates | |
| Decoding | `bounded_cue.c`, `jam.c` | none across calls | jam, cue, bounded cue | limits that must not change a result |
| Atom store | `noun.c` 360-640 | probe index, arena, open transaction | intern, look up, begin, commit, abort | an abort under the chains of older atoms |
| Big numbers | `bignum.c` | none across calls | arithmetic, shifts, decimal text | carries, borrows, quotient estimates |
| Evaluator | `nock.c`, `ska.c` | none across events | | sequential |
| Statistics, trace, network, UART, Forth, boot assembly | | | | I/O |

How they meet. Core 0 runs Forth; the words `KERNEL`, `SHRINE` and the operator
pump enter `kernel_loop`. The loop calls the timers, the promotion, the drivers
and, after every terminal transaction, the supervisor boundary, which may run a
nested `kernel_loop` for a lifecycle plan. Fatal conditions return with
`longjmp` to the `setjmp` of the innermost loop. Nothing preempts core 0, so the
interleavings are: the order of ingress, time, transaction outcomes, failures
of allocations and drivers, operator commands between runs, and nesting.

What makes each part correct is listed with the runs below; everything this
code makes hard to test is under `hazards` in `PROJECT.json`, at its line.

How far each part is modelled:

| Part | Modules | Status |
|---|---|---|
| Event loop, FIFO, timers, services | `HostKernel`, `AtomicTx`, `HostKernelProofs` | modelled but for the closed-process authority checks |
| Promotion and roots | `PersistRoots`, `PersistRootsProofs` | modelled |
| Output bank | `DigitalOut`, `DriverProofs` | modelled |
| M7 supervisor | `Supervisor`, `SupervisorProofs` | modelled |
| Operator channel | `Operator`, `SupervisedProofs` | modelled |
| Checkpoint, boot | `Checkpoint`, `SupervisedProofs` | supervised packages only |
| Cold store, cold media | `ColdImage`, `ColdStore`, `DurableLog`, `ColdStoreProofs` | modelled; SD protocol left out |
| Ingress, decoding | `Ingress`, `Wire`, `Cue`, `DriverProofs` | modelled; identity-keyed jam left out |
| Atom store, big numbers | `AtomStore`, `BigNum`, `Numbers`, `BigNumProofs`, `NumbersProofs` | modelled |
| Hot swap | `PersistRoots` | its effect on the roots |
| Closed process, inputs | `DigitalOut`, `Checkpoint` | licences and quiescence only |
| Admission | `Checkpoint` | two verdicts only |
| Evaluator | `Numbers` | arithmetic jets only |

## 2. What is modelled

### PersistRoots: who points into which half

`noun.c` keeps two halves of persistent cells. A build writes the inactive half
and commits by making it active; the old half stays readable until the *next*
build begins. A root that a build does not forward is thus readable for a while
and then overwritten, even by a build that is aborted. `PersistRoots` records
the half of each global root (`g_kernel`, FIFO, timer tokens, `g_slam_formula`,
the manager formula, the staged kernel) and of the local `slam` of every active
`kernel_loop` (`frames`; a second frame is the nested loop of a lifecycle plan).

| Model | Code |
|---|---|
| `Published`, `Install`, `AbortedBuild` | `heap_persist_begin_tx` / `commit_tx` / `abort_tx` with what the caller copies |
| `Commit`, `CompactFail`, `Reject`, `Crash`, `ArvoCommit`, `Enqueue` | the outcomes of a loop pass |
| `Request`, `AtBoundary`, `LifecycleBegin`, `Plan*`, `StopAdvance`, `ForceStop` | mailbox, `m7_scheduler_boundary`, the nested plan, `m7_advance_incarnation` |
| `DeployActivate`, `CheckpointInstall`, `CleanInstall`, `ShrineGateSet` | installations |
| `Swap*` | hot swap |

`SwapProfiles` says under which profiles the operator uses hot swap; a swapped
gate is exempt from `RootsCurrent`, because it may have waited too long.

Assumptions: the class of the package (legacy, I2, supervised) does not change
within a behaviour; a crash inside the manager formula is not modelled;
`shrine_gate_set` is used with legacy packages.

### HostKernel: one event, one transaction

Every step of a loop pass is an action: draining one ring entry, polling one
timer slot, selection, the slam's outcome, each effect of the candidate, the
publication, each activated effect. `live`, chosen at the start from `Lives`,
selects the two disciplines of the code: identity-admitted packages peek the
head and consume it with the outcome, legacy ones dequeue at selection. The gate is the environment and answers with
*any* product, well formed or not, within one effect and one cause of the
limits; the preflight, not the model, keeps bad ones out. One assumption: its
new tokens are fresh, as a gate that numbers its requests issues them.
`outcome` is a history variable: what the driver did for the last request.

`AtomicTx` is the promise: a queue and a set of timers changed by whole
transactions. `HostKernel` implements it under `queue <- Shape(evq)`,
`timers <- Armed`: every candidate step is a stutter, `Publish` is the
transaction. The legacy loop makes no such promise; of it `TimersKept` and the
caps are checked.

Not in this module: the lifecycle slot and the plan that drains the FIFO
(Supervisor), the closed-process authority checks, hot swap (PersistRoots) and
checkpoints (Checkpoint). The output bank's reaction to a crash is in DigitalOut.

### DigitalOut: the bank

`level` is the pins, `shadow` what the host believes. A command writes in two
steps, the clear of the bank and the set, because what is energized between
them is what matters. Each backend operation may fail, and then changes
nothing. `closed` is whether the installed package has the closed-process
profile; installations and deployments may change it, where the code orders
them against the bank's preparation. `licence` is a history variable: whether a sample was accepted or a
clean preparation made since the bank was last made safe.

### ColdImage, ColdStore, DurableLog: the cold store

`ColdImage` is what the bytes mean: objects with a header, a commit word and a
payload, two superblocks, what the walk of `super_validate` accepts, and
`select_super`. It has no state. The walk is stated by what it finds rather than
as a recursion: every header unit before the head is that of a valid object,
every unit belongs to one of these objects, and their generations are 2, 3, ...
in the order of their addresses (`Chained`). A digest is modelled by what it
tells apart: a header names the payload it was made for, and a damaged unit
(`Junk`) agrees with nothing.

`ColdStore` is `cold.c` over `cold_media.c`. One step is one phase of an append:
header, payload, commit word, data barrier (with the validation a deployment
adds), superblock, barrier, readback. A restart may fall between any two.
`ram` is the window at `COLD_BASE`, `disk` the sectors; the RAM build has no
`disk` and keeps its window over a warm restart.

| Model | Code |
|---|---|
| `MediaWrite` | `cold_media_write`: sector by sector, read-modify-write, deadline, latch |
| `PhaseWrite`, `Cuts` | `cold_write_phase`, and the window cut short by `cold_fault_set` |
| `Boot`, `BootLoadFails`, `BootProbeFails` | `cold_init`, `cold_media_load_window`, `initialize` |
| `Format*` | `cold_format`, by the boot of a blank medium or the operator |
| `Begin*`, `Write*`, `DataBarrier`, `SuperBarrier`, `Verify*` | `append_obj`, `append_obj_unselected`, `cold_store_deployment`, `deployment_media_read_verify` |
| `Query` | `select_super` as called by the readers |

`Faults` is the set of things the medium may do in a run; the names follow the
fake backend. A sector write that was acknowledged is on the medium, unless
`flip` is in the set: the code makes no claim about power cuts behind the
controller, and neither does the model. After a probe failure the store lives in
the window only; formatting it then gives a volatile store, as in the RAM build.

`DurableLog` is the promise: one log, changed by whole appends, with success
answered only for what is in it. `ColdStore` implements it under
`log <- Found(Kept)`, the log a restart would find. `goal` is a history variable,
the log the append in progress is to produce.

Not modelled: a window cut short by `cold_fault_set` while a medium is active
(`cold.c:119-138`, a test hook; on media the cuts are those of the medium), the
semihost copy of the window, read-only media, the second
`cold_init` of a session (it finds the window loaded), the decoding of nouns,
the SD command protocol.

### Supervisor and Operator: managing a running application

`Supervisor` is `m7_supervisor.c` with the part of the loop it drives: a mailbox
of one request, the boundary after every terminal transaction, the manager
formula's decision, the lifecycle plan (fence, root event, receivers, at most
three transactions, a drain), the incarnation's advance, forced stop, reset, and
the staging, sealing and activation of a package. The nested `kernel_loop` of a
plan is no second program counter: `plan.on` says that the innermost loop is the
nested one. `back` is where the boundary returns to. An event is reduced to
where it comes from, because the properties ask whose it is: `life` (a cause of
the running plan), `cause`, `timer`, `fill` (the filler of `M7QFILL`).

`Operator` puts `i2_operator.c` on top: request identifiers, the reply that is
kept for a retransmission, the one reply in transmission and the one behind it,
the lease of a stage. `image` selects the laboratory image with its console
words or the operator image whose pump owns the line. The line is heard between
two events: in the operator image by the pump (`shrine_loop`), in the laboratory
by the idle loop of a run (`kernel.c:2462-2479`), to which the answer of a START or
STOP returns. Nobody hears it inside a lifecycle plan, because a plan is never
idle (`Drains`, section 4). `Asks` says what the client of each image asks for.

A request is executed first; its reply is built afterwards, and may fail
(`Executed`): `finish` then keeps nothing and sends nothing, and the channel has
forgotten the request. `ran` counts the executions of the client's request from
the first that was answered, and `AtMostOnce` promises nothing before that (limit
17).

Design decisions. The many result codes of a call are reduced to what a caller
branches on (`ok` or a class of failure), those of a START or STOP to confirmed
or denied. What a request asks for matters when it is dispatched, so that it is
chosen with each transmission. The content of the mailbox is forgotten once it
is served or dropped: nobody reads it before the next request. The operator image
admits closed packages only, as its catalog does. The IRQ ring, the ordinary
transactions' inside and the crash of the manager formula are not in these
modules.

| Model | Code |
|---|---|
| `Receive`, `ManagerInit` | `m7_manager_request_bytes`, `m7_store_request`, `m7_manager_init` |
| `Permitted` | the decision table `manager_formula` builds |
| `Boundary`, `BeginPlan`, `DeliverFails`, `DeliverStart`, `DeliverStop` | `m7_scheduler_boundary`, `kernel_m7_execute_lifecycle` |
| `Terminal`, `Overrun`, `Retire` | `kernel_m7_transaction_terminal` |
| `ServeSlot`, `ServeQueue`, `ServeExternal`, `TimerFires`, `IdlePass` | the selection of `kernel_loop` |
| `ForceStop`, `Reset`, `Advance` | `m7_force_stop`, `m7_reset`, `m7_advance_incarnation` |
| `Deploy*`, `Publish`, `Clobber` | `m7_deploy_*`, `kernel_m7_publish_prepared`, a checkpoint load into the stage window |
| `Op*`, `Repeat`, `Refuse`, `Sent`, `Stalled`, `ExpireLease` | `i2_operator_handle`, `dispatch`, `i2_operator_poll`, `expire_lease` |
| `Executed`, `Finish` | `finish`, `encode_result_frame`, and a dispatch that returns 0 |
| `Polling`, `Listening` | the idle loop of `kernel_loop`, `shrine_loop` |
| `Transmit`, `NextRequest`, `Stranger` | a client of the channel (external) |

### Checkpoint: what a restart finds

`Checkpoint` extends the supervisor with the saves (`CKPT!`, `CKAUTO!` after
every commit, the commit of a deployment), loads, clean installations, power
cycles and `kernel_boot`. A gate is its package, the incarnation in its header
and, for a closed process, the state of its service instances. A failed append
may have reached the medium, which is what ColdStore shows of it. A deployment
is one step here; its steps are in Operator. `PILL_BASE` changes only while the
machine is off. `RolePkgs` are the programs with the three roles of a closed
process, which `m7_bind_snapshot_instances` asks of every package.

### Ingress, Wire and Cue: frames

`Cue` is the serialisation over bits: `Jam`, the plain cue, and the bounded cue
with its limits (depth, nodes, cells, back references, cache, atom bytes, work).
It has no state and runs in TLC only (recursion). `Ingress` is the byte automaton of
`i2_ingress.c` with its two deadlines, a UART FIFO, and a sender behind a line
that loses, damages, adds or delays bytes, at most `MaxFaults` times. The header
fields are one symbol each and the digest is the payload it stands for; a magic
of two bytes is enough for a false beginning, since the scan keeps a candidate
for the second one. The sender (external) transmits again after a silence longer
than the byte deadline. `Wire` gives what the automaton took to the decoder.

### AtomStore, BigNum, Numbers: atoms

`AtomStore` is the interning store of `noun.c`: `make_atom_checked`,
`atom_store_get` and the transactions the decoder opens for a frame and the event
loop closes with the event. An abort empties the index slots the transaction
filled and moves the arena back, while chains of older atoms run through the
same index. `held` is history: which words are in use, and for which number.
Room is counted in limbs, a pointer is an ordinal; a new atom may always be
refused, which stands for a frozen frontier (`heap_noalloc`). The overflow of the
slot list (`noun.c:554`) cannot happen: it is as long as the index.

`BigNum` has the algorithms of `bignum.c` on limb sequences, each carry chain a
recursive function; `Numbers` is a calculation over both: literals are read,
operators run on a stack of two, results are interned, and a crash or a refusal
aborts an open transaction. Each entry carries the number it should be. The
signed products of `bn_div` overflow (section 5), which is undefined in C;
the model wraps, as an unoptimised build does. `sound` remembers whether a
division met such an overflow or an estimate outside its precondition:
`ArithmeticExact` speaks of everything else. Operands of more than `MaxLimbs`
limbs are not computed with: `atom_limbs` cuts them, as `bignum.h` says.

## 3. Runs

| Run | What it shows | States |
|---|---|---|
| `roots` | all roots current under all profiles, hot swap in one of them | 942 |
| `slam` | a root that can be lost (section 5) | |
| `tx` | transaction safety and refinement of `AtomicTx`; registry and bounds of the legacy loop | 998 052 |
| `tx_live` | due timers fire, queued events are reached | 6 713 |
| `dout` | output bank under both profiles and across packages | 4 774 |
| `cold_log` | the cold store is a durable log; window and medium agree | 75 811 |
| `cold_damage` | committed deployments survive silent damage; fail closed | 706 427 |
| `mgmt` | epochs do not mix, a stop is quiet, answers are true, an answered request is not executed again | 4 239 392 |
| `ckpt` | what was saved is restored, what resumes was running | 1 493 405 |
| `wire` | what is accepted is what was framed, and is decoded as the plain cue does; a whole frame is heard, and in the end a sender that goes on | 635 241 |
| `atoms` | words are values across refusals and aborts; arithmetic is exact where no division overflowed | 225 560 |
| `division` | a quotient that is wrong (section 5) | |

Bounds. `PersistRoots` needs none: its state is finite, with the code's own
limit of three lifecycle transactions. `HostKernel` uses a FIFO of 3, a ring of
1, two timer slots, three tokens: enough for a full FIFO with a due timer, for
a head with two events behind it, for both slots taken when a third timer is
set, and for a completion next to a timer event. The code accepts one effect
per event (`I2_MAX_EFFECTS_PER_EVENT`); the run allows two, so that the list
handling the code has (effects counted in order, the index of a completion) is
exercised. Tokens are symmetric in the safety run. `DigitalOut` counts
incarnations up to 3, enough for a stale sample of an earlier incarnation to
meet a later one. The cold store's data area has 8 units in `cold_log`: room for
a log entry, a deployment and one more entry, or for a deployment that no longer
fits by one unit; a sector holds two units, so that an object of three shares
its last sector with the next one. `cold_damage` has 5 units and sectors of
three, where the two objects of a deployment share a sector. `cold_log` starts
from a formatted medium, because the interruption of the very first format is
the subject of `cold_damage`, which also starts from a blank and from an
unsupported one; its format may be damaged but not fail to read (limit 15
below). The damage a medium can do to neighbours is kept out of `cold_log`: with
it the store is not a durable log, and does not claim to be.

`mgmt` has one package of each profile, two incarnations (an epoch to leave and
one to enter; the second is also the maximum, where an advance must fail), a FIFO
of two (a backlog, or the two causes of one event), one chunk, and three
identifiers, of which the channel remembers one and the client uses another. The
fan of an event (two causes) and the three transactions of a plan are the code's
own. The client of the operator image asks for everything, that of the laboratory for
START, STOP and SNAPSHOT: the rest is at the console beside it. The states of two
people at work are many, so that `Focus` limits the laboratory: until its line has been
used everything is followed, afterwards only what happens without a stage, with at
most one event queued and a closed process live. What lies beyond is covered by the
theorems, which hold for every client of every image. `ckpt` keeps a queue of one: of the queue a save asks only whether it is
empty. `wire` has bytes of four bits, payloads of up to six bytes, FIFO of one,
and three faults, enough for a frame that is cut, a false beginning and a lost
answer in one behaviour; the payloads hold the magic, half of it, or a whole
header, and nouns within and beyond the limits of the bounded cue. `atoms`
has limbs of two bits and operands of three limbs, with products of six, three
slots, an arena three atoms may fill, and a digest that gives two
literals one name; the radix of decimal text is 3, since a limb has to hold it,
and three digits are printed, of numbers with up to four.
The literals reach every path of the division.

Fairness. `HostKernel` has weak fairness on `Loop`, the disjunction of the steps
of core 0: nothing preempts core 0 and every step of the loop is followed by
another. No step is assumed to succeed, no event to arrive, no time to pass.
`NoStarvation` is conditional: a head whose product the preflight refuses for
ever is retried for ever, by design (`kernel.c` 845-848), and blocks the FIFO;
`DueTimersFire` holds even then. `Ingress` has weak fairness on the steps of the
poll (`Feed`, `Check`, `Take`), which the loop calls for ever, on the clock, and
on a sender that does not give up; the faults are finitely many and nothing is
assumed of when they happen.

Deadlock is checked in every run: none of the systems may stop.

## 4. Proofs

Every theorem holds for every value of the constants, under the named
assumptions of the modules.

`PersistRootsProofs`: `TypeCorrect` (no run repeats it), `RootsAlwaysCurrent`, `SlamAlwaysCurrent`.
The invariant is `TypeOK /\ RootsCurrent /\ SlamCurrent /\ Control`. `Control` is
what makes it inductive: between a STOP plan and its incarnation advance FIFO
and registry are empty (the advance does not forward them, and would lose them
otherwise), hot swap is idle where unused, and only the supervised profile
nests loops. The lemmas `PublishedRoots`, `Compacted`, `CleanRoots` state what
one publication does to every root.

`DriverProofs`, for the bank: type correctness, `ShadowAlwaysTrue`, `InhibitedAlwaysLow`,
`AlwaysBreakBeforeMake`, `AlwaysLicensed`, `FatalAlwaysLow`, for any set of
channels and number of incarnations. The invariant adds what holds inside a
write (between clear and set the bank is configured, healthy and low) and that
whatever could let a command through has been licensed.

`DriverProofs`, for the ingress: `FramesDelivered` and `FramesHeard`, for every
magic whose first byte is not repeated, set of payloads and noise, size of the
UART, deadlines and number of faults. `Heard` is the invariant of a transmission
in progress: what the automaton holds after each number of its symbols
(`NextHeard` takes it one symbol on, `FirstHeard` starts it behind any false
beginning). A frame can be accepted with symbols of others in it only if the
stored bytes have the digest on the line, and the only digest there is the
payload's (`OneDigest`; noise is single bytes): this is where the digest being
injective is used.

`HostKernelProofs`: `TypeCorrect`, with the caps (FIFO, ring, candidate) for
every size of them, and `TokensOnce` (`OnceEach`) for every set of tokens, every
number of slots and every length of product. The invariant speaks of three
places: live queue and slots, candidate queue and slots, and the effects still
to be built (`Pending`), whose tokens are in neither of the candidate's. Preflight
establishes the last part when the slam commits, each built effect hands one
token over, and publication exchanges the pairs. The `Once...` lemmas say what
one queue or slot operation does to a pair.

The second half of `HostKernelProofs` has five theorems about one event.
`PreflightSuffices` (`PreflightCovers`) and `TimersStayArmed`, `WaitingStays` rest
on `BuildInv`, a description of the candidate after any number of effects: its
queue is the rest of the FIFO, the causes, and one completion for each service so
far (`QueueBuilt`); its slots are as many as preflight counted, and whatever is
still to be cancelled is armed (`SlotsBuilt`). `PreflightCovers` itself says this
of the next effect only and is not inductive. `CompletionsTellTheTruth` needs
`AnswerInv`: a queued completion is the only one of its token, the cell remembered
for a service is its completion, and the completions that may still be wrong are
those of the services ahead. `Implements` (`AtomicTransactions`) is the
refinement of `AtomicTx`: each step of an identity-admitted loop is a stutter, an
admission, a firing, a drop, a clearing or one whole transaction (`TxStutter` to
`TxNext`); it needs `ServedInv`, that the event that is served is still the head,
and `OnceEach`. `LeastExists` (a set of numbers has a least one, from the
well-founded order of finite sets) gives the free slot the builder picks.

`SupervisorProofs` holds no theorem of its own: one lemma for each step of the
resource manager, cited by `SupervisedProofs`. `SInv` has the types, the agreement of
the two copies of the incarnation (`Epoch`), what a running plan stands for
(`PlanOk`), and `DebtOk`, the count that `CausesServed` needs: the causes a plan
owes are exactly the queued events marked as its own, so that a drained queue
owes nothing. `RunOk`, `RunDurable` and `Quiet` carry `RunningWasStarted` and
`StoppedIsQuiet` through the boundary; `Quiet` also speaks of the program points
between a plan and its retirement, where the property does not.

`SupervisedProofs`, for the operator channel: type correctness and all eight properties of `mgmt`
(`AlwaysStarted`, `AlwaysServed`, `AlwaysQuiet`, `AlwaysAtMostOnce`,
`AlwaysLeased`, `AlwaysEpochClean`, `AlwaysInstalledAsDeclared`, `AlwaysDone`),
for every set of packages, identifiers and images, whatever their clients ask for, and
any FIFO, last incarnation and number of chunks. `AtMostOnce` becomes inductive with
`Once` (a request that was answered is the one the channel answered last) and
`LineOk` (a stranger has no identifier but that one); a reply that could not be
built leaves the count at zero (`ExecutedHolds`). `Drains` says that a plan without
its slot has something queued, so that an idle loop is in no plan and a request
finds the manager between two plans (`Between`); `DoneMeansDone` with `ReplyOk`: while a
request is worked on the line holds it, nothing is in transmission, and the
manager's command is the one it asks for. Assumed of the constants: there is an
identifier, and clients ask for operations there are (`RequestAssumption`).

`SupervisedProofs`, for the checkpoint: type correctness (`CheckpointTypes`),
`AlwaysRestores` (`SavedRestores`), `AlwaysResumes` (`RunsWhatStarted`) and
`AlwaysRestQuiet` (`StoppedIsQuiet`), for every set of packages, epoch and queue. The
invariant adds to `SInv` that the live gate came from the package a save would
store with it (`Origin`), that no other incarnation owns a token (`Owned`), and
what is true of the snapshot on the medium (`SnapOk`), whichever save wrote it.
`AlwaysRestQuiet` has a hypothesis, `RolePkgs = ClosedPkgs`, which is also the instance
`ckpt` checks. Without it the property is false of the model: an open package
that has the three roles of a closed process can be saved in the middle of its
lifecycle with a timer armed, and is restored with it although it does not run.

`ColdStoreProofs`: all six properties of `cold_log` and `cold_damage`, for every
capacity and sector size and every set of objects. `TypeCorrect`,
`AlwaysSelectedTrue` and `AlwaysFailClosed` hold for every first image of the
medium, readable or not, and every set of faults; `AlwaysCommittedRemounts`,
`AlwaysMirrored` and `ImplementsLog` have hypotheses, named below. The
invariant `WInv` is about the window: while an append runs, the superblock it
starts from is valid, what has been appended so far is a chain (`ChainBuilt`),
the object in progress is there as far as it has been written (`ObjectBuilt`),
and the superblock to write is the one that describes the chain once the remaining jobs are done. The lemmas
it rests on say what an append does to an image: a chain is decided by the units
before its head (`SameChain`), one more object extends it (`ExtendChain`), the
superblock `append_obj` computes describes the extended chain (`ExtendSuper`),
and of two chains of one image the longer has more objects (`OrderedChains`).
From the last one follows that both superblocks of one image never tie with
different contents (`NeverDivergent`): the divergence check of `select_super`
(`cold.c:313`) is a second line of defence that no image of the model reaches.

`AlwaysCommittedRemounts` needs more, since it relates the window and the medium.
The invariant `Follows` says that in an active session that is not latched a
superblock on the medium is the one the window has in the same slot, and that
what the append has written so far is on the medium as it is in the window or was
lost on the way: an acknowledged write may still have lost a unit (`flip`), so it
cannot say that the two are equal. What a deployment adds is the readback: from a
readback that validated follows that nothing below the new head was lost
(`NothingLost`), then that a restart selects the new superblock
(`VerifiedRemounts`). The hypothesis, `SafeFormat`, excludes the operator's format
on a medium on which a write can fail without latching the session (`late`,
`read`): limit 15 below is what happens otherwise. `cold_damage` checks an
instance that satisfies it.

`AlwaysMirrored` (`MirrorAgrees`) and `ImplementsLog` (the refinement of
`DurableLog`) are about a medium that loses nothing. The invariant `LogInv` says
that every superblock of what a restart would find is valid (`Sound`), that
window and medium are equal up to where the append in progress has come, or below
the end of the log between two appends, which slot a restart selects in which
phase, and that the log it finds with the objects still to append is the goal of
the abstract append. A sound image has one log (`SoundLog`); it survives whatever
happens above its end and in the slot that is not selected (`SameLog`), in
particular a phase of a write that is cut off (`CutShort`, `LogPhase`), and it
changes in one step only, when the newer superblock lands (`NewLog`, `LogSuper`).
That step is the abstract commit; the barriers and the readback after it only
decide what is answered, and an append given up before or after it is abandoned
in the abstract log too (`GivesUp`). The hypotheses, all true of the instance
`cold_log` checks:

- `Gentle`: no torn sector and no acknowledged unit lost (`torn`, `flip`), no
  operator's format, and only valid superblocks in the first image. A torn sector
  can take the old log with it (limit 13), a format can leave the window apart
  from the medium (limit 15), and an invalid superblock left from earlier could
  become valid again in one of window and medium only. Every other fault is
  allowed: writes rejected, failed late or with an unknown outcome, failed
  barriers, probes, loads and readbacks, and a loss of power at any unit.
- `Fresh`, for the refinement: the first image has the empty log `DurableLog`
  starts from.

`NumbersProofs`, for the atom store: `WordsKeepValues`, for every digest (colliding ones
included), size of index and arena, and set of limb sequences. The invariant
says in what order a chain was filled: whatever stands between an atom and the
head of its chain is older than the atom (`Before`), and the list of an open
transaction is exactly what is younger than its mark (`TxOk`). An abort empties
the youngest slots only, so it never opens a chain in front of an atom that
stays; that is why emptying slots, which is wrong for open addressing in general,
is right here. `DigestOnce` makes words unique, `NumberUnique` makes canonical
limbs unique.

`BigNumProofs`: every operation of `bignum.c` is exact, for every limb width,
radix and operands of any length; the code's 64 bits, 10 and 64 limbs are one
instance. The reference is `Value`, the number limbs stand for, and the integers:
`AddExact`, `SubExact`, `MulExact`, `LshExact` ... say that the value of the
result is the sum, difference, product ... of the values. Of operands of at most
`MaxLimbs` limbs every result is one of at most twice as many (`UnaryExact`, `BinaryExact`).

An operation is a chain: a function over the places of the operands, defined from
place to place (a carry, a borrow, a remainder, the rest of a dividend). `ChainUp`
and `ChainDown` say that such a chain exists and is what the definition chooses;
then a proof states what the chain is worth at place i (for addition: the result
so far, and the carry in front of it, make the sum of both operands so far) and
goes over the places. The library's induction theorems take an operator, which the
provers cannot instantiate. `Least`, `InductUp` and `InductDown` take a set
instead, and follow from the well-founded order of the naturals, so that the step
is a statement about the members of `{i \in ... : ...}`. The other obstacle is
multiplication of unknowns: each identity a step needs is an operator of its own
(`HornerSum`, ...), proved once for all integers by rewriting.

Division has four layers. `DivLimbExact` is the restoring division of two limbs by
one, a bit at a time. `RefinedExact` is Knuth's theorem on the estimate: with the
divisor's top bit set and the leading limbs in order, it is the digit or one more
after the loop of D3, which runs twice at most. `TakeOffExact` is one place: the
signed borrows take the product off, the sign of the last says whether the
estimate was one too large, and adding back once is enough. `KnuthExact` and
`DivModExact` put places and the shifts of D1 and D8 together. The last three have
a hypothesis, `sound`, which is what finding 2 is about: no estimate met a leading
limb equal to the divisor's, and no signed product overflowed. The model computes
`sound` from the operands; without it the theorem is false, as `division` shows.
What the theorems add to the finding is that nothing else is wrong in the division:
estimate, correction, borrow and add-back are right wherever that does not happen.

`NumbersProofs`, for the calculations: `CalculationsExact` (`ArithmeticExact`) and
`CalculationsKeepWords` (`WordsAreValues`). `NInv` adds to the invariant of the
store that the word of every entry is in use, and that a sound entry's number is
what the store keeps for that word; an abort therefore has to drop the stack.
What an operator makes of two entries is the number it should be by the theorems
above (`UnaryExact`, `BinaryExact`), its canonical form is found or made, and
equal numbers get one word (`WordsAreNumbers`). Assumed of the constants
(`ProgramAssumption`): a direct atom is a limb (2^63 <= 2^64), the store takes
every sequence of up to `2 * MaxLimbs` limbs, as long as a product can be, and a
program writes literals of at most `MaxLimbs` limbs. `NumberAssumption` has a
radix that a limb can hold and limbs of two bits or more.

Model-checked only:

- liveness (`DueTimersFire`, `NoStarvation`, `HeardInTheEnd`): the prover has no
  fairness and no ENABLED;
- `Faithful` of `Wire`, that the decoder of a frame gives what the plain cue
  gives: `Cue` is recursive over bits and nouns.

## 5. Findings

1. `slam`: `m7_advance_incarnation` forwards gate and manager formula but not
   `g_slam_formula`; two advances without a promotion between lose it. For the
   same reason a START or STOP delivered at a running loop's boundary (a nested
   plan, for STOP also an advance) leaves the loop's local `slam` behind.
2. `division`: `bn_div` and `bn_mod` are wrong for divisors of two or more limbs.
   `divmod_knuth` forms `qhat * v[i]` as a signed 128-bit product
   (`bignum.c:439`), which overflows once the estimate is large, since the
   divisor was shifted until its top bit was set; and when the top limb of the
   running remainder equals the divisor's, `divlu64` is used outside its
   precondition, which the comment at `bignum.c:421` takes for impossible. With
   two-bit limbs, 56 mod 15 is 10. The compiled C shows the same on 64-bit limbs,
   with and without optimisation, for random operands. `ROADMAP.md:168` promises
   the floor and the remainder.

Limits the models show or were built around, which no run reports because the
repository states nothing against them, or because they repeat a finding:

1. A legacy package's loop dequeues at selection and calls the consume helper
   again on a timeout, a bad result or `%abort`: the next queued event disappears
   (`kernel.c:2401`, `2447`). `ROADMAP.md:600` has the queue retained.
2. `g_staged_kernel` is forwarded by no promotion; a swap that waits for the FIFO
   to empty installs overwritten cells after the second one.
3. A save or deployment of a package without the closed roles is stored and
   acknowledged, but every restart refuses it (`m7_supervisor.c:1518`).
   `SavedRestores` is stated of closed packages for that reason.
4. A save inside a STOP plan stores the mode STOPPING, which a boot refuses
   (`m7_supervisor.c:1611`), for packages the capture does not stop.
5. Under the boot policy that asks for the pill only, an M7 package still tries
   its snapshot first (`kernel_boot`; `HOST-CONTRACT.md:245`).
6. `KPREP` clears DURABILITY_UNKNOWN, and a `CKLOAD` may restore RUNNING while it
   is set (`HOST-CONTRACT.md:427`).
7. The cached roles of a closed process are not refreshed by a restore or a
   clean installation.
8. After the restore of a RUNNING snapshot the status says inhibited; a save of a
   running closed process makes the bank safe.
9. `kernel_pill_load` without a package clears the runtime identity while the
   live gate stays.
10. The operator pump enters the loop for one event, and the loop returns after a
    commit only: if that event fails, nobody reads the line (`kernel.c:2463`).
    No liveness of requests is stated.
11. The depth limit of the bounded cue is one of the encoding: a tree shared
    through back references may be deeper.
12. The ingress is polled between events: a host that is busy longer than the
    byte deadline rejects the frame it is receiving.
13. A torn sector can bring back a log older than the old one (`cold.c:308`): the
    first object of a deployment shares a sector with the last retained one, the
    newer superblock then fails validation. `cold.h:43` has the old pair, the new
    one or none.
14. Operands beyond 64 limbs are cut by most operators (`bignum.h:103`), while
    `bn_inc` and `bn_dec` copy all limbs into arrays of that size.
15. A format whose write fails to read leaves the window formatted and the medium
    as it was; a deployment is then answered COMMITTED, and the next boot selects
    the old superblock, whose generation is higher. `Reformat` is FALSE in
    `cold_log` for that reason, and `cold_damage` has no read failures.
16. `bn_to_decimal` keeps 512 digits (`bignum.h:47`) and operands have up to 1 234:
    of a longer number the low 512 digits are printed, with no sign of the rest.
    `Printed` says so.
17. A request whose reply cannot be built (a cell, an atom of the reply or its
    jam cannot be had, `i2_operator.c:262-290`, `354-357`) has taken effect, is not
    answered and not remembered; retransmitted, it is executed again. Where a
    second execution is refused (BEGIN, ACTIVATE), the client is told of a failure.
18. A pass sets the recovery point of a fatal evaluation at its top
    (`kernel.c:2352`). A START or STOP handled in the idle loop runs a nested
    `kernel_loop` in the middle of a pass, which leaves its own behind; the event
    taken next in that pass then runs with the recovery point of a loop that has
    returned. So does the manager formula of a request the pump handles. What a crash
    does there is undefined; the models take the ordinary recovery.

## 6. Plan

1. `ScanCycle`: the closed process, composing the loop, the bank and the gate's
   pending tokens; authority checks at timer, queue, preflight and activation.
2. The generic checkpoint of packages without a supervisor; the composition of
   `Checkpoint` with `ColdStore` instead of its abstraction.
3. A weaker `DurableLog` for media that tear sectors (limit 13), whose log may fall
   back to an earlier end, and the proof that the store implements that.

## 7. Not modelled

The Nock interpreter and the SKA analysis (`nock.c`, `ska.c`): sequential, without
state across events; the loop models their outcomes. The admission predicates
(`i2_admission_policy.c`, `runtime_identity.c`): long conjunctions over constant
nouns, whose verdict is a guard of the modules here. The SD command protocol,
UART, GPIO registers, network stub, statistics, trace, BLAKE3, boot assembly and
the Forth interpreter: I/O and computation below the level of these models; the
Forth words that call into the kernel appear as the operator's actions.
The closed-process token checks are in the plan above.
