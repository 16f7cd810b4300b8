----------------------------- MODULE DigitalOut -----------------------------
(***************************************************************************)
(* The fixed output bank (digital_out.c): the physical level behind the    *)
(* write-only backend, the shadow the host believes in, and the inhibit,   *)
(* reconcile, fatal and freshness latches that decide whether an accepted  *)
(* command may energize a channel.                                         *)
(*                                                                         *)
(* Every backend operation may fail and then changes nothing.  A write is  *)
(* one clear of the whole bank and one set, each a step, because what is   *)
(* energized between them matters.  Callers are the event loop (commands,  *)
(* samples, crash recovery), the supervisor (STOP, START, deployment) and  *)
(* the installations (boot, clean PILL, checkpoint).                       *)
(***************************************************************************)
EXTENDS Naturals

CONSTANTS Channels,  \* P1, P2, ALARM
          Stray,     \* a bit outside the bank, in a malformed command
          MaxInc     \* bound on the incarnations of a behaviour

ASSUME StrayAssumption == Stray \notin Channels
ASSUME MaxIncAssumption == MaxInc \in Nat

VARIABLES
    level,       \* channels physically high
    shadow,      \* g_shadow
    configured, inhibited, reconcile, fatal,
    closed,      \* closed_process_io_authorized(), of the installed package
    sample,      \* g_m8_input_freshness: its incarnation, 0 when not armed
    inc,         \* m7_incarnation()
    phase,       \* where digital_out_apply is in a write
    desired,     \* the bank it writes
    licence      \* history: what has licensed energizing since the last safe

vars == <<level, shadow, configured, inhibited, reconcile, fatal, closed, sample, inc, phase, desired,
          licence>>
latches == <<configured, inhibited, reconcile, fatal, sample>>

Banks == SUBSET Channels
Requests == SUBSET (Channels \cup {Stray})
Idle == phase = "idle"

TypeOK ==
    /\ level \in Banks /\ shadow \in Banks
    /\ configured \in BOOLEAN /\ inhibited \in BOOLEAN
    /\ reconcile \in BOOLEAN /\ fatal \in BOOLEAN /\ closed \in BOOLEAN
    /\ sample \in Nat /\ inc \in Nat \ {0}
    /\ phase \in {"idle", "clear", "set"} /\ desired \in Banks
    /\ licence \in {"none", "clean", "sampled"}

\* Firmware leaves the pins anyhow; main() calls digital_out_boot_safe first.
Init ==
    /\ level \in Banks /\ shadow = {}
    /\ configured = FALSE /\ inhibited = TRUE /\ reconcile = FALSE /\ fatal = FALSE
    /\ closed = FALSE /\ sample = 0 /\ inc = 1 /\ phase = "idle" /\ desired = {} /\ licence = "none"

-----------------------------------------------------------------------------
(* Safe-low and preparation.                                               *)

\* configure_and_clear; its three outcomes.
ConfigureFails ==
    /\ configured' = FALSE /\ inhibited' = TRUE /\ fatal' = TRUE
    /\ UNCHANGED <<level, shadow, reconcile, sample>>

ClearFails ==
    /\ configured' = TRUE /\ inhibited' = TRUE /\ fatal' = TRUE
    /\ UNCHANGED <<level, shadow, reconcile, sample>>

\* Mutant: the shadow keeps the last command.
Cleared_KeepsShadow(inhibit) ==
    /\ level' = {} /\ UNCHANGED shadow
    /\ configured' = TRUE /\ inhibited' = inhibit /\ reconcile' = FALSE /\ fatal' = FALSE
    /\ sample' = 0

Cleared(inhibit) ==
    /\ level' = {} /\ shadow' = {}
    /\ configured' = TRUE /\ inhibited' = inhibit /\ reconcile' = FALSE /\ fatal' = FALSE
    /\ sample' = 0

\* digital_out_boot_safe, digital_out_restore_safe.  A checkpoint is installed
\* only after it succeeds, and decides which profile is live.
RestoreSafe ==
    /\ Idle
    /\ \/ (ConfigureFails \/ ClearFails) /\ UNCHANGED closed
       \/ Cleared(TRUE) /\ closed' \in BOOLEAN
    /\ licence' = "none"
    /\ UNCHANGED <<inc, phase, desired>>

\* digital_out_prepare_clean_pill: a clean PILL, or START of a closed process.
PrepareClean ==
    /\ Idle
    /\ \/ (ConfigureFails \/ ClearFails) /\ licence' = "none" /\ UNCHANGED closed
       \/ Cleared(FALSE) /\ licence' = "clean" /\ closed' \in BOOLEAN
    /\ UNCHANGED <<inc, phase, desired>>

\* Mutant: the latches that license a command survive.
ForceSafeLatches_KeepsSample(ok) ==
    /\ IF ok THEN level' = {} /\ shadow' = {} ELSE UNCHANGED <<level, shadow>>
    /\ inhibited' = TRUE
    /\ UNCHANGED <<reconcile, sample>>

\* digital_out_force_safe but for its fatal latch.
ForceSafeLatches(ok) ==
    /\ IF ok THEN level' = {} /\ shadow' = {} ELSE UNCHANGED <<level, shadow>>
    /\ inhibited' = TRUE /\ reconcile' = FALSE
    /\ sample' = 0

\* Mutant: a failed clear is not latched.
ForceSafeWith_NotLatched(ok) ==
    /\ ForceSafeLatches(ok)
    /\ licence' = "none"
    /\ UNCHANGED <<fatal, configured, phase, desired>>

ForceSafeWith(ok) ==
    /\ ForceSafeLatches(ok)
    /\ fatal' = (fatal \/ ~ok)
    /\ licence' = "none"
    /\ UNCHANGED <<configured, phase, desired>>

\* Crash recovery, a failed input snapshot, PILL refusal; a gate replacement
\* and the load of a legacy PILL also clear the identity, whatever the result.
ForceSafe ==
    /\ Idle
    /\ \E ok \in BOOLEAN : ForceSafeWith(ok)
    /\ closed' \in {closed, FALSE}
    /\ UNCHANGED inc

\* STOP, force stop and reset make the bank safe, then advance the
\* incarnation, whether or not the clear succeeded; a deployment does only
\* when it has, and may change the profile.
Advance ==
    /\ Idle /\ inc < MaxInc
    /\ \E ok \in BOOLEAN :
          /\ ForceSafeWith(ok)
          /\ closed' \in IF ok THEN BOOLEAN ELSE {closed}
    /\ inc' = inc + 1

-----------------------------------------------------------------------------
(* Samples.                                                                *)

Arm == reconcile' = (reconcile \/ (inhibited /\ ~fatal))

\* digital_out_note_legacy_external_sample, after a committed framed event.
ExternalSample ==
    /\ ~closed /\ Idle
    /\ Arm
    /\ licence' = IF licence = "none" THEN "sampled" ELSE licence
    /\ UNCHANGED <<level, shadow, configured, inhibited, fatal, closed, sample, inc, phase, desired>>

\* digital_out_arm_closed_sample, after a successful input snapshot.
ClosedSample ==
    /\ closed /\ Idle
    /\ Arm
    /\ sample' = inc
    /\ licence' = "sampled"
    /\ UNCHANGED <<level, shadow, configured, inhibited, fatal, closed, inc, phase, desired>>

-----------------------------------------------------------------------------
(* Commands.                                                               *)

\* digital_out_apply_direct: the freshness descriptor must be armed and of
\* the command's incarnation (activation admits only current tokens); it is
\* consumed whatever the write does.
Fresh == closed => sample = inc

\* Mutant: the fatal latch is not looked at.
Accepted_IgnoresFatal == configured /\ (inhibited => reconcile)

Accepted == configured /\ ~fatal /\ (inhibited => reconcile)

\* Neither configured nor healthy: the command only makes the bank safe.
ApplyUnsafe ==
    /\ Idle /\ Fresh /\ (~configured \/ fatal)
    /\ \E ok \in BOOLEAN : ForceSafeWith(ok)
    /\ UNCHANGED <<closed, inc>>

\* Inhibited and not reconciled: refused.
ApplyRefused ==
    /\ Idle /\ Fresh
    /\ configured /\ ~fatal /\ inhibited /\ ~reconcile
    /\ sample' = IF closed THEN 0 ELSE sample
    /\ UNCHANGED <<level, shadow, configured, inhibited, reconcile, fatal, closed, inc, phase,
                   desired, licence>>

\* Mutant: the range of the bank is not checked.
Apply_AnyBank(bank) ==
    /\ Idle /\ Fresh /\ Accepted
    /\ sample' = IF closed THEN 0 ELSE sample
    /\ IF inhibited THEN inhibited' = FALSE /\ reconcile' = FALSE ELSE UNCHANGED <<inhibited, reconcile>>
    /\ desired' = bank
    /\ phase' = IF bank = shadow THEN "idle" ELSE "clear"
    /\ UNCHANGED <<level, shadow, configured, fatal, closed, inc, licence>>

\* Enabled; an identical bank is a no-op, another one is written.  A malformed
\* bank is refused before anything is looked at.
Apply(bank) ==
    /\ Idle /\ Fresh /\ Accepted /\ bank \in Banks
    /\ sample' = IF closed THEN 0 ELSE sample
    /\ IF inhibited THEN inhibited' = FALSE /\ reconcile' = FALSE ELSE UNCHANGED <<inhibited, reconcile>>
    /\ desired' = bank
    /\ phase' = IF bank = shadow THEN "idle" ELSE "clear"
    /\ UNCHANGED <<level, shadow, configured, fatal, closed, inc, licence>>

\* The fail label: force_safe, then latched fatal whatever it returned.
ApplyFails ==
    /\ phase = "clear" \/ (phase = "set" /\ desired # {})
    /\ \E ok \in BOOLEAN : ForceSafeLatches(ok)
    /\ fatal' = TRUE
    /\ phase' = "idle" /\ licence' = "none"
    /\ UNCHANGED <<configured, closed, inc, desired>>

\* Mutant: only the channels that go low are cleared.
WriteClear_Partial ==
    /\ phase = "clear"
    /\ level' = level \cap desired
    /\ phase' = "set"
    /\ UNCHANGED <<shadow, closed, inc, desired, licence, latches>>

\* The whole bank goes low before any channel goes high.
WriteClear ==
    /\ phase = "clear"
    /\ level' = {}
    /\ phase' = "set"
    /\ UNCHANGED <<shadow, closed, inc, desired, licence, latches>>

WriteSet ==
    /\ phase = "set"
    /\ level' = level \cup desired
    /\ shadow' = desired
    /\ phase' = "idle"
    /\ UNCHANGED <<closed, inc, desired, licence, latches>>

-----------------------------------------------------------------------------
Next ==
    \/ RestoreSafe \/ PrepareClean \/ ForceSafe \/ Advance
    \/ ExternalSample \/ ClosedSample
    \/ ApplyUnsafe \/ ApplyRefused \/ (\E bank \in Requests : Apply(bank))
    \/ ApplyFails \/ WriteClear \/ WriteSet

Spec == Init /\ [][Next]_vars

-----------------------------------------------------------------------------
(* Properties.                                                             *)

\* Between commands the shadow is the truth about a configured, healthy bank,
\* through partial writes, failed clears and recoveries: the no-op on an
\* identical shadow (digital_out.c:162) is sound only then.
ShadowTrue == Idle /\ configured /\ ~fatal => shadow = level

\* An inhibited healthy bank is physically low.
InhibitedLow == configured /\ inhibited /\ ~fatal => level = {}

\* Channels go high only from an all-low bank: a transfer from one pump to
\* the other never passes through both.
BreakBeforeMake == [][level' \subseteq level \/ level = {}]_vars

\* A bank with a failed operation is never energized before a successful
\* preparation, which leaves it low.
FatalStaysLow ==
    [][fatal => level' \subseteq level /\ (fatal' \/ level' = {})]_vars

\* After a crash, a restore, a STOP or a failure nothing is energized until a
\* sample has been accepted since, or a clean preparation has been made: work
\* restored or left in the queue cannot (HOST-CONTRACT.md, M6).
EnergizedWithLicence ==
    [][level' \subseteq level \/ licence # "none"]_vars
=============================================================================
