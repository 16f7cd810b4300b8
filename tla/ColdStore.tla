----------------------------- MODULE ColdStore -----------------------------
(***************************************************************************)
(* The cold store of cold.c over the sector medium of cold_media.c.        *)
(*                                                                         *)
(* cold.c appends objects behind the head of a log in a RAM window and     *)
(* mirrors every phase to the medium first: header without its commit      *)
(* word, payload, commit word, barrier, then the superblock into the slot  *)
(* that is not selected, and a barrier again.  A deployment appends two    *)
(* objects under one superblock and reads everything back.  A boot loads   *)
(* the window from the medium and selects the newer valid superblock.      *)
(*                                                                         *)
(* One step is one phase, so that a restart can fall between any two; a    *)
(* phase that is cut short is one of the outcomes of MediaWrite.  A write  *)
(* the medium acknowledged is taken to be there after a restart: the code  *)
(* claims nothing about power cuts behind the controller.                  *)
(***************************************************************************)
EXTENDS ColdImage

CONSTANTS Builds,       \* {TRUE}: built with sector media, {FALSE}: COLD_MEDIA=ram
          Singles,      \* objects append_obj may be called with
          Deployments,  \* <<pill blob, supervisor snapshot>> pairs
          Images,       \* what the medium may hold at the first boot
          Faults,       \* faults of the medium, below
          Reformat      \* the operator may run CFMT

\* "late"    a deadline passes before a sector or a barrier: no mutation
\* "read"    the read half of a read-modify-write fails: no mutation
\* "reject"  the controller refuses the write before submission
\* "unknown" submitted, and the sector has the old or the new content
\* "torn"    submitted, and any unit of the sector may be lost
\* "flip"    acknowledged, and a unit of a sector is lost all the same
\* "barrier" the barrier fails at the controller
\* "load"    a read of the boot load fails
\* "verify"  a read of the deployment's readback fails
\* "probe"   the medium is absent or has no valid descriptor
\* "cut"     cold_fault_set: the window itself is written short
FaultNames == {"late", "read", "reject", "unknown", "torn", "flip", "barrier",
               "load", "verify", "probe", "cut"}

ASSUME StoreAssumption ==
    /\ Builds \subseteq BOOLEAN /\ Reformat \in BOOLEAN
    /\ Faults \subseteq FaultNames
    /\ Images \subseteq Image /\ Singles \subseteq Objs
    /\ Deployments \subseteq {d \in Objs \X Objs : d[1].kind = "blob" /\ d[2].kind = "snap"}

VARIABLES
    ram,       \* the COLD_BASE window
    disk,      \* the sectors of the medium; without one the empty function
    active,    \* g_active
    latched,   \* g_reset_required
    selected,  \* g_selected_generation, g_selected_data_head
    last,      \* g_last_result
    pc,        \* the next phase of the operation in progress
    op,        \* that operation: objects to append, superblock to write
    answer,    \* what the last operation returned
    goal       \* history: the log the last append was to produce

media == <<disk, active, latched>>
vars  == <<ram, disk, active, latched, selected, last, pc, op, answer, goal>>

NoOp == [deploy |-> FALSE, jobs |-> <<>>, super |-> FirstSuper, slot |-> SLOT0,
         auto |-> FALSE]

\* The build has a medium; a restart finds again what is on it.
Sectors == DOMAIN disk # {}
Kept == IF Sectors THEN disk ELSE ram

Over(c, image) == [a \in Addr |-> IF a \in DOMAIN c THEN c[a] ELSE image[a]]
Lost(image, S) == [a \in Addr |-> IF a \in S THEN Junk ELSE image[a]]
Part(c, S)     == [a \in DOMAIN c \cap S |-> c[a]]

\* A write of c cut short: whole up to some address, and there perhaps lost.
Cuts(c) ==
    UNION {{Over(Part(c, Addr \cap (SLOT0 .. (a - 1))), ram),
            Lost(Over(Part(c, Addr \cap (SLOT0 .. (a - 1))), ram), {a}),
            Over(Part(c, Addr \cap (SLOT0 .. a)), ram)} : a \in DOMAIN c}

-----------------------------------------------------------------------------
Touched(c)   == {SectorOf(a) : a \in DOMAIN c}
Sooner(c, s) == {t \in Touched(c) : t < s}
UnitsOf(s)   == {a \in Addr : SectorOf(a) = s}
Partial(c, s) == s < DATA0 \/ ~(UnitsOf(s) \subseteq DOMAIN c)

\* The medium with the sectors S of a write of c done.
Upto(c, S) == Over(Part(c, {a \in Addr : SectorOf(a) \in S}), disk)

Done(d)      == [disk |-> d, ok |-> TRUE, latched |-> FALSE]
Failed(d, l) == [disk |-> d, ok |-> FALSE, latched |-> l]

FailAt(c, s) ==
    LET before == Upto(c, Sooner(c, s))
        after  == Upto(c, Sooner(c, s) \cup {s})
    IN  (IF "late" \in Faults \/ ("read" \in Faults /\ Partial(c, s))
         THEN {Failed(before, FALSE)} ELSE {})
        \cup (IF "reject" \in Faults THEN {Failed(before, TRUE)} ELSE {})
        \cup (IF "unknown" \in Faults THEN {Failed(d, TRUE) : d \in {before, after}} ELSE {})
        \cup (IF "torn" \in Faults
              THEN {Failed(Lost(before, L), TRUE) : L \in SUBSET UnitsOf(s)}
                   \cup {Failed(Lost(after, L), TRUE) : L \in SUBSET UnitsOf(s)}
              ELSE {})

Acknowledged(c) ==
    {Upto(c, Touched(c))}
    \cup (IF "flip" \in Faults
          THEN {Lost(Upto(c, Touched(c)), {a}) : a \in UNION {UnitsOf(s) : s \in Touched(c)}}
          ELSE {})

\* cold_media_write of the contents c, sector by sector.  An outcome has the
\* medium it leaves, whether it was acknowledged and the latch.
MediaWrite(c) ==
    IF latched THEN {Failed(disk, TRUE)}
    ELSE {Done(d) : d \in Acknowledged(c)} \cup UNION {FailAt(c, s) : s \in Touched(c)}

\* Mutant: the window is written ahead of the medium.
PhaseWrite_Ahead(onDisk, inRam) ==
    {[disk |-> o.disk, ok |-> o.ok, latched |-> o.latched, ram |-> Over(inRam, ram)] :
        o \in IF active THEN MediaWrite(onDisk)
                        ELSE {[disk |-> disk, ok |-> TRUE, latched |-> latched]}}

\* cold_write_phase: the window follows an acknowledged write only; without
\* active media the window is the store.  The commit word is patched into the
\* header that is there, so the two contents may differ.
PhaseWrite(onDisk, inRam) ==
    IF active
    THEN {[disk |-> o.disk, ok |-> o.ok, latched |-> o.latched,
           ram |-> IF o.ok THEN Over(inRam, ram) ELSE ram] : o \in MediaWrite(onDisk)}
    ELSE {[disk |-> disk, ok |-> TRUE, latched |-> latched, ram |-> Over(inRam, ram)]}
         \cup (IF "cut" \in Faults
               THEN {[disk |-> disk, ok |-> FALSE, latched |-> latched, ram |-> r] :
                        r \in Cuts(inRam)}
               ELSE {})

\* cold_media_barrier changes no content.
BarrierOutcomes ==
    IF ~active THEN {[ok |-> TRUE, latched |-> latched]}
    ELSE IF latched THEN {[ok |-> FALSE, latched |-> TRUE]}
    ELSE {[ok |-> TRUE, latched |-> FALSE]}
         \cup (IF "barrier" \in Faults THEN {[ok |-> FALSE, latched |-> TRUE]} ELSE {})
         \cup (IF "late" \in Faults THEN {[ok |-> FALSE, latched |-> FALSE]} ELSE {})

-----------------------------------------------------------------------------
\* select_super on the window, with the globals it leaves.
Selects(image) ==
    LET v == Verdict(image)
    IN  /\ last' = v
        /\ selected' =
              CASE v = "valid" -> LET s == image[SelectedSlot(image)]
                                  IN  [gen |-> s.gen, head |-> s.head]
                []  v = "empty" \/ Divergent(image) -> [gen |-> 0, head |-> 0]
                []  OTHER -> selected

Finish(result) ==
    /\ pc' = "idle" /\ op' = NoOp
    /\ answer' = result
    /\ UNCHANGED goal

\* A failed phase.  Once a deployment has touched active media its outcome is
\* unknown; a superblock that was submitted is never guessed about.  "fault"
\* stands for the results a failed phase or readback leaves.
Abandon ==
    /\ last' = "fault"
    /\ UNCHANGED selected
    /\ Finish(IF ~op.deploy THEN "failed"
              ELSE IF active \/ pc \in {"super", "super barrier", "verify"}
                   THEN "unknown" ELSE "rejected")

\* The window the next boot starts from: DRAM is lost with the medium to load
\* it from, the RAM build keeps its window over a warm restart.
Off(image, sectors) ==
    /\ ram = IF sectors THEN Blank ELSE image
    /\ disk = IF sectors THEN image ELSE <<>>

Init ==
    /\ \E image \in Images, sectors \in Builds : Off(image, sectors)
    /\ active = FALSE /\ latched = FALSE
    /\ selected = [gen |-> 0, head |-> 0] /\ last = "empty"
    /\ pc = "off" /\ op = NoOp
    /\ answer = "none" /\ goal = {}

Restart ==
    /\ pc # "off"
    /\ ram' = IF Sectors THEN Blank ELSE ram
    /\ UNCHANGED disk
    /\ active' = FALSE /\ latched' = FALSE
    /\ selected' = [gen |-> 0, head |-> 0] /\ last' = "empty"
    /\ pc' = "off" /\ op' = NoOp
    /\ answer' = "none" /\ goal' = Found(Kept)

-----------------------------------------------------------------------------
\* Mutant: whatever cannot be selected is formatted.
Mount_FormatsAny(image) ==
    /\ ram' = image
    /\ Selects(image)
    /\ UNCHANGED <<disk, latched, answer, goal>>
    /\ IF Verdict(image) # "valid"
       THEN pc' = "format" /\ op' = [NoOp EXCEPT !.auto = TRUE]
       ELSE pc' = "idle" /\ op' = NoOp

\* cold_init: load the window, select, and format an exactly blank image.
Mount(image) ==
    /\ ram' = image
    /\ Selects(image)
    /\ UNCHANGED <<disk, latched, answer, goal>>
    /\ IF Verdict(image) = "empty"
       THEN pc' = "format" /\ op' = [NoOp EXCEPT !.auto = TRUE]
       ELSE pc' = "idle" /\ op' = NoOp

Boot == pc = "off" /\ active' = Sectors /\ Mount(Kept)

\* The load stops at a sector: the window has what was read before it, the
\* session is latched, and main goes on.
BootLoadFails ==
    /\ pc = "off" /\ Sectors /\ "load" \in Faults
    /\ \E s \in {SectorOf(a) : a \in Addr} :
          ram' = Over(Part(disk, {a \in Addr : SectorOf(a) < s}), ram)
    /\ active' = TRUE /\ latched' = TRUE
    /\ selected' = [gen |-> 0, head |-> 0] /\ last' = "corrupt"
    /\ pc' = "idle"
    /\ UNCHANGED <<disk, op, answer, goal>>

BootProbeFails ==
    /\ pc = "off" /\ Sectors /\ "probe" \in Faults
    /\ selected' = [gen |-> 0, head |-> 0] /\ last' = "absent"
    /\ pc' = "idle"
    /\ UNCHANGED <<ram, disk, active, latched, op, answer, goal>>

\* cold_format clears the superblocks in the window before the medium is
\* asked.
FormatStart ==
    /\ Reformat /\ pc = "idle"
    /\ pc' = "format" /\ op' = NoOp /\ answer' = "none"
    /\ UNCHANGED <<ram, media, selected, last, goal>>

Formatted ==
    /\ selected' = [gen |-> 1, head |-> DATA0]
    /\ last' = IF op.auto THEN "empty" ELSE "valid"
    /\ pc' = "idle" /\ op' = NoOp

FormatFails ==
    /\ selected' = [gen |-> 0, head |-> 0] /\ last' = "fault"
    /\ pc' = "idle" /\ op' = NoOp

FormatWrite ==
    LET c == [slot \in Slots |-> IF slot = SLOT0 THEN FirstSuper ELSE Zero]
    IN  /\ pc = "format"
        /\ ram' = Over(c, ram)
        /\ UNCHANGED <<active, answer, goal>>
        /\ IF active
           THEN \E o \in MediaWrite(c) :
                   /\ disk' = o.disk /\ latched' = o.latched
                   /\ IF o.ok THEN /\ pc' = "format barrier"
                                   /\ UNCHANGED <<selected, last, op>>
                      ELSE FormatFails
           ELSE Formatted /\ UNCHANGED <<disk, latched>>

FormatBarrier ==
    /\ pc = "format barrier"
    /\ \E o \in BarrierOutcomes :
          /\ latched' = o.latched
          /\ IF o.ok THEN Formatted ELSE FormatFails
    /\ UNCHANGED <<ram, disk, active, answer, goal>>

-----------------------------------------------------------------------------
\* append_obj and cold_store_deployment up to their first write: select what
\* to append to, plan every extent, and choose the other slot.
Planned(old, objs) ==
    [i \in DOMAIN objs |->
        [obj |-> objs[i], gen |-> old.gen + i,
         off |-> IF i = 1 THEN old.head ELSE old.head + Extent(objs[1])]]

\* Mutant: the last unit is counted twice.
Fits_OffByOne(job) == job.off + Extent(job.obj) <= Cap + 2

Fits(job) == job.off + Extent(job.obj) <= Cap + 1

\* Mutant: the selected superblock is overwritten in place.
OtherSlot_Same(slot) == slot

OtherSlot(slot) == IF slot = SLOT0 THEN SLOT1 ELSE SLOT0

\* The superblock that will select them, one (append_obj) or two.
Superblock(old, jobs) ==
    LET and(s, j) == Selecting(s, j.obj, j.gen, j.off)
        first == and(old, jobs[1])
    IN  IF Len(jobs) = 1 THEN first ELSE and(first, jobs[2])

Begin(deploy, objs) ==
    LET old  == ram[SelectedSlot(ram)]
        jobs == Planned(old, objs)
        tip  == Last(jobs)
        next == Superblock(old, jobs)
        refusal == IF deploy THEN "rejected" ELSE "failed"
    IN  /\ pc = "idle"
        /\ UNCHANGED <<ram, media>>
        /\ IF Verdict(ram) # "valid"
           THEN Selects(ram) /\ Finish(refusal)
           ELSE IF ~Fits(tip)
           THEN /\ last' = "length"
                /\ selected' = [gen |-> old.gen, head |-> old.head]
                /\ Finish(refusal)
           ELSE /\ Selects(ram)
                /\ pc' = "header" /\ answer' = "busy"
                /\ goal' = {l \o objs : l \in Found(Kept)}
                /\ op' = [NoOp EXCEPT !.deploy = deploy, !.jobs = jobs, !.super = next,
                                      !.slot = OtherSlot(SelectedSlot(ram))]

\* cold_load, cold_log_len, cold_log_at and cold_snap_decode select again.
Query ==
    /\ pc = "idle"
    /\ Selects(ram)
    /\ UNCHANGED <<ram, media, pc, op, answer, goal>>

BeginSingle == \E obj \in Singles : Begin(FALSE, <<obj>>)
BeginDeployment == \E d \in Deployments : Begin(TRUE, d)

Phase(at, onDisk, inRam, next) ==
    /\ pc = at
    /\ UNCHANGED active
    /\ \E o \in PhaseWrite(onDisk, inRam) :
          /\ ram' = o.ram /\ disk' = o.disk /\ latched' = o.latched
          /\ IF o.ok THEN pc' = next /\ UNCHANGED <<selected, last, op, answer, goal>>
             ELSE Abandon

WriteHeader ==
    LET j == Head(op.jobs)
        c == [a \in {j.off} |-> Header(j.obj, j.gen, FALSE)]
    IN  Phase("header", c, c, "payload")

WritePayload ==
    LET j == Head(op.jobs)
        c == [a \in (j.off + 1) .. (j.off + j.obj.len) |-> Payload(j.obj, a - j.off)]
    IN  Phase("payload", c, c, "commit")

WriteCommit ==
    LET committed(h) == IF h.is = "head" THEN [h EXCEPT !.commit = TRUE] ELSE h
        c(image) == [a \in {Head(op.jobs).off} |-> committed(image[a])]
    IN  Phase("commit", c(disk), c(ram), "barrier")

\* A deployment also validates each object in the window before it goes on.
DataBarrier ==
    LET j == Head(op.jobs)
    IN  /\ pc = "barrier"
        /\ UNCHANGED <<ram, disk, active>>
        /\ \E o \in BarrierOutcomes :
              /\ latched' = o.latched
              /\ IF o.ok /\ (op.deploy => ObjectOk(ram, j.off + Extent(j.obj), j.off, j.gen))
                 THEN /\ op' = [op EXCEPT !.jobs = Tail(@)]
                      /\ pc' = IF Len(op.jobs) > 1 THEN "header" ELSE "super"
                      /\ UNCHANGED <<selected, last, answer, goal>>
                 ELSE Abandon

WriteSuper ==
    LET c == [a \in {op.slot} |-> op.super]
    IN  Phase("super", c, c, "super barrier")

\* Mutant: the reported generation is left behind.
Accept_Stale ==
    /\ last' = "valid" /\ UNCHANGED selected
    /\ Finish(IF op.deploy THEN "committed" ELSE "ok")

Accept ==
    /\ selected' = [gen |-> op.super.gen, head |-> op.super.head]
    /\ last' = "valid"
    /\ Finish(IF op.deploy THEN "committed" ELSE "ok")

SuperBarrier ==
    /\ pc = "super barrier"
    /\ UNCHANGED <<ram, disk, active>>
    /\ \E o \in BarrierOutcomes :
          /\ latched' = o.latched
          /\ IF ~o.ok THEN Abandon
             ELSE IF op.deploy /\ active
             THEN pc' = "verify" /\ UNCHANGED <<selected, last, op, answer, goal>>
             ELSE Accept

\* deployment_media_read_verify: the chain and the selecting superblock are
\* read back over the window and validated there.
ReadBack(S) == Over(Part(disk, S), ram)

\* Mutant: reading back without an error is enough.
Verify_NoCheck ==
    /\ pc = "verify" /\ ~latched
    /\ ram' = ReadBack((DATA0 .. (op.super.head - 1)) \cup {op.slot})
    /\ UNCHANGED media
    /\ Accept

Verify ==
    LET chain == DATA0 .. (op.super.head - 1)
    IN  /\ pc = "verify" /\ ~latched
        /\ ram' = ReadBack(chain \cup {op.slot})
        /\ UNCHANGED media
        /\ IF SuperOk(ram', op.slot) /\ ram'[op.slot] = op.super
           THEN Accept
           ELSE last' = "corrupt" /\ UNCHANGED selected /\ Finish("unknown")

VerifyFails ==
    LET chain == DATA0 .. (op.super.head - 1)
    IN  /\ pc = "verify" /\ ("verify" \in Faults \/ latched)
        /\ \E a \in chain \cup {Cap + PerSector} :
              ram' = ReadBack({b \in chain : SectorOf(b) < SectorOf(a)})
        /\ latched' = TRUE
        /\ Abandon
        /\ UNCHANGED <<disk, active>>

Next ==
    \/ Restart
    \/ Boot \/ BootLoadFails \/ BootProbeFails
    \/ FormatStart \/ FormatWrite \/ FormatBarrier
    \/ Query
    \/ BeginSingle \/ BeginDeployment
    \/ WriteHeader \/ WritePayload \/ WriteCommit \/ DataBarrier
    \/ WriteSuper \/ SuperBarrier \/ Verify \/ VerifyFails

Spec == Init /\ [][Next]_vars

-----------------------------------------------------------------------------
PcNames == {"off", "idle", "format", "format barrier", "header", "payload", "commit",
            "barrier", "super", "super barrier", "verify"}

\* The variables stay in their ranges, and a superblock is only planned
\* inside the data area.
TypeOK ==
    /\ ram \in Image /\ disk \in Image \cup {<<>>}
    /\ active \in BOOLEAN /\ latched \in BOOLEAN
    /\ selected.gen \in 0 .. Cap + 1 /\ selected.head \in 0 .. Cap + 1
    /\ last \in {"valid", "empty", "absent", "corrupt", "unsupported", "fault", "length"}
    /\ pc \in PcNames
    /\ op.super.head \in DATA0 .. Cap + 1 /\ op.slot \in Slots
    /\ answer \in {"none", "busy", "ok", "committed", "failed", "rejected", "unknown"}

\* Between operations the generation and the head the store reports with a
\* valid result are those of the superblock a reader of the window selects
\* (cold_selected_generation, cold_data_head and the counters fed from them).
SelectedTrue ==
    pc = "idle" /\ last = "valid" =>
        /\ Verdict(ram) = "valid"
        /\ selected.gen = ram[SelectedSlot(ram)].gen
        /\ selected.head = ram[SelectedSlot(ram)].head

\* While the session is not latched, what the running store serves from its
\* window is what a restart would find on the medium, even after appends
\* that were abandoned halfway.
MirrorAgrees ==
    pc = "idle" /\ active /\ ~latched => Found(ram) = Found(disk)

\* A deployment is answered committed only when a restart finds the log the
\* window has, with the new pair at its end (cold_store_deployment, whose
\* callers publish the new package on that answer).
CommittedRemounts ==
    answer = "committed" /\ active =>
        /\ Found(disk) = Found(ram)
        /\ \E l \in Found(disk), pair \in Deployments : IsSuffix(pair, l)

\* A medium that is neither blank nor has a selectable superblock is left as
\* it is once the running store has no log of it either, whatever is asked
\* (cold_init and append_obj fail closed), but for the operator's own format.
FailClosed ==
    [][Sectors /\ Verdict(disk) \in {"corrupt", "unsupported"} /\ Found(ram) = {}
          => disk' = disk \/ (pc = "format" /\ ~op.auto)]_disk

\* The store implements a durable log: what a restart would find changes in
\* one step, from the log as it was to that log with all objects of one
\* append, and success is answered for nothing less.
Durable == INSTANCE DurableLog WITH
    log <- Found(Kept),
    Appends <- {<<obj>> : obj \in Singles} \cup Deployments

AtomicAppends == Durable!Spec
=============================================================================
