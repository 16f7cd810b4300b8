------------------------- MODULE PersistRootsProofs -------------------------
(***************************************************************************)
(* Proofs about PersistRoots, for every set of profiles, with and without  *)
(* hot swap, and for every bound on a lifecycle plan.                      *)
(***************************************************************************)
EXTENDS PersistRoots, TLAPS

\* What the control state says about the roots: between a STOP plan and its
\* advance the FIFO and the registry are empty, hot swap is idle when it is
\* not used, and only the supervised profile nests loops.
Control ==
    /\ at = "advance" => root["queue"] = "none" /\ root["timers"] = "none"
    /\ profile \notin SwapProfiles => hstat = "idle"
    /\ at = "repl" => frames = <<>>
    /\ at \in {"head", "terminal"} => frames # <<>>
    /\ profile # "m7" => /\ mail = "none" /\ plan = NoPlan
                         /\ at \in {"repl", "head"}
                         /\ Len(frames) <= 1

IInv == TypeOK /\ RootsCurrent /\ SlamCurrent /\ Control

-----------------------------------------------------------------------------
\* A publication yields a well-typed root function: what the caller gives is
\* what the root becomes, a forwarded current root moves to the new half and
\* any other root not in the overwritten half stays where it is.
LEMMA PublishedRoots ==
    ASSUME TypeOK, NEW copied \in SUBSET RootNames, NEW fresh,
           DOMAIN fresh \subseteq RootNames,
           \A r \in DOMAIN fresh : fresh[r] \in Places
    PROVE  LET new == Published(copied, fresh) IN
           /\ new \in [RootNames -> Places]
           /\ \A r \in DOMAIN fresh : new[r] = fresh[r]
           /\ \A r \in copied \ DOMAIN fresh :
                 /\ root[r] = "none" => new[r] = "none"
                 /\ root[r] = sel => new[r] = Other(sel)
           /\ \A r \in RootNames \ (copied \cup DOMAIN fresh) :
                 root[r] # Other(sel) => new[r] = root[r]
BY DEF TypeOK, Published, Copied, Overwritten, Other, Halves, Places

\* The same for a build that gives no root of its own.
LEMMA PublishedNothing ==
    ASSUME TypeOK, NEW copied \in SUBSET RootNames
    PROVE  LET new == Published(copied, <<>>) IN
           /\ new \in [RootNames -> Places]
           /\ \A r \in copied :
                 /\ root[r] = "none" => new[r] = "none"
                 /\ root[r] = sel => new[r] = Other(sel)
           /\ \A r \in RootNames \ copied :
                 root[r] # Other(sel) => new[r] = root[r]
<1>1. \A r \in RootNames : r \notin DOMAIN <<>>
  BY DEF RootNames
<1>2. QED
  BY <1>1 DEF TypeOK, Published, Copied, Overwritten, Other, Halves, Places

\* The latched formulas after a build: each stays, or is lost if it lived in
\* the overwritten half.
LEMMA Aging ==
    ASSUME TypeOK
    PROVE  /\ AgedFrames \in Seq(Places)
           /\ Len(AgedFrames) = Len(frames)
           /\ \A i \in 1 .. Len(frames) :
                 frames[i] # Other(sel) => AgedFrames[i] = frames[i]
BY DEF TypeOK, AgedFrames, Overwritten, Places, Halves, Other

\* Without a running loop there is no latched formula to age.
LEMMA NoFrames ==
    ASSUME TypeOK, frames = <<>>
    PROVE  AgedFrames = <<>> /\ AgedFrames \in Seq(Places)
BY DEF AgedFrames

\* There are two halves, and neither is a mark for a missing root.
LEMMA OtherHalf ==
    ASSUME sel \in Halves
    PROVE  Other(sel) \in Halves /\ Other(sel) # sel /\ Other(Other(sel)) = sel
           /\ Other(sel) # "none" /\ Other(sel) # "lost"
           /\ sel # "none" /\ sel # "lost"
BY DEF Other, Halves

\* What a published compaction makes of the roots.
LEMMA Compacted ==
    ASSUME TypeOK, RootsCurrent, NEW queue \in Places, NEW timers \in Places,
           Compact(queue, timers)
    PROVE  /\ root' \in [RootNames -> Places] /\ sel' = Other(sel)
           /\ root'["gate"] = Other(sel) /\ root'["slam"] = Other(sel)
           /\ root'["queue"] = queue /\ root'["timers"] = timers
           /\ root'["formula"] \in {"none", Other(sel)}
<1> DEFINE fresh == [gate |-> Other(sel), slam |-> Other(sel),
                     queue |-> queue, timers |-> timers]
<1>1. /\ DOMAIN fresh \subseteq RootNames
      /\ \A r \in DOMAIN fresh : fresh[r] \in Places
  BY OtherHalf DEF RootNames, Places, TypeOK
<1>2. root' = Published({"formula"}, fresh) /\ sel' = Other(sel)
  BY DEF Compact
<1>3. QED
  BY <1>1, <1>2, PublishedRoots DEF RootNames, RootsCurrent

\* Leaving a loop drops its frame and only its frame.
LEMMA Popped ==
    ASSUME TypeOK, frames # <<>>,
           NEW fs \in {frames, AgedFrames}, Return(fs)
    PROVE  /\ frames' \in Seq(Places)
           /\ Top = 1 => frames' = <<>>
           /\ Top # 1 => frames' # <<>>
<1>1. fs \in Seq(Places) /\ Len(fs) = Top /\ Top \in Nat \ {0}
  BY Aging DEF TypeOK, Top
<1>2. QED
  BY <1>1 DEF Return

\* A clean installation or a deployment leaves only current roots.
LEMMA CleanRoots ==
    ASSUME TypeOK, frames = <<>>, Install({}, Fresh(NewGate, NewM7))
    PROVE  /\ root' \in [RootNames -> Places] /\ sel' = Other(sel)
           /\ root'["gate"] = sel' /\ root'["slam"] = sel'
           /\ root'["queue"] = "none" /\ root'["timers"] = "none"
           /\ root'["formula"] \in {"none", sel'}
           /\ frames' = <<>>
<1> DEFINE fresh == Fresh(NewGate, NewM7)
<1>1. /\ DOMAIN fresh = {"gate", "slam", "queue", "timers", "formula"}
      /\ fresh["gate"] = Other(sel) /\ fresh["slam"] = Other(sel)
      /\ fresh["queue"] = "none" /\ fresh["timers"] = "none"
      /\ fresh["formula"] \in {"none", Other(sel)}
  BY DEF Fresh, NewGate, NewM7
<1> DEFINE copied == {}
<1>2. root' = Published(copied, fresh) /\ sel' = Other(sel)
      /\ copied \in SUBSET RootNames
  BY DEF Install
<1> HIDE DEF fresh, copied
<1>3. frames' = <<>>
  BY NoFrames DEF Install
<1>4. /\ DOMAIN fresh \subseteq RootNames
      /\ \A r \in DOMAIN fresh : fresh[r] \in Places
  BY <1>1, OtherHalf DEF RootNames, Places, TypeOK
<1>5. /\ root' \in [RootNames -> Places]
      /\ \A r \in DOMAIN fresh : root'[r] = fresh[r]
  BY <1>2, <1>4, PublishedRoots
<1>6. QED
  BY <1>1, <1>2, <1>3, <1>5

\* A build aborted while no loop runs only costs roots in the other half.
LEMMA AbortedAtRepl ==
    ASSUME TypeOK, frames = <<>>, AbortedBuild(<<>>)
    PROVE  /\ root' \in [RootNames -> Places] /\ sel' = sel /\ frames' = <<>>
           /\ \A r \in RootNames : root[r] # Other(sel) => root'[r] = root[r]
BY PublishedNothing, Aging DEF AbortedBuild

\* The inductive invariant holds after boot.
LEMMA InitIInv == Init => IInv
BY DEF Init, IInv, TypeOK, RootsCurrent, SlamCurrent, Control, Halves, Places,
       RootNames, Plans, NoPlan

-----------------------------------------------------------------------------
\* Every action keeps the inductive invariant.
LEMMA NextIInv == IInv /\ [Next]_vars => IInv'
<1> SUFFICES ASSUME IInv, [Next]_vars PROVE IInv'
  OBVIOUS
<1> USE DEF IInv
<1>h. /\ sel \in Halves /\ Other(sel) \in Halves /\ Other(sel) # sel
      /\ Halves \subseteq Places /\ {"none", "lost"} \subseteq Places
      /\ Halves \cap {"none", "lost"} = {}
  BY OtherHalf DEF TypeOK, Places, Halves
<1>1. CASE EnterLoop
  <2> DEFINE slam == IF root["slam"] = "none" THEN sel ELSE root["slam"]
  <2>1. /\ root' = [root EXCEPT !["slam"] = slam] /\ frames' = <<slam>>
        /\ slam \in Places
    BY <1>h, <1>1 DEF EnterLoop, TypeOK, RootNames
  <2>2. /\ root' \in [RootNames -> Places] /\ root'["slam"] = slam
        /\ \A r \in RootNames \ {"slam"} : root'[r] = root[r]
    BY <2>1 DEF TypeOK, RootNames
  <2>3. /\ frames' \in Seq(Places) /\ Len(frames') = 1 /\ frames' # <<>>
        /\ DOMAIN frames' = {1} /\ frames'[1] = slam
    BY <2>1
  <2>4. slam = sel \/ slam = root["slam"]
    OBVIOUS
  <2> HIDE DEF slam
  <2>5. TypeOK'
    BY <1>1, <2>2, <2>3 DEF EnterLoop, TypeOK
  <2>6. QED
    BY <1>h, <1>1, <2>2, <2>3, <2>4, <2>5
       DEF EnterLoop, AtRepl, RootsCurrent, SlamCurrent, Control, RootNames
<1>2. CASE LeaveLoop
  BY <1>h, <1>2 DEF TypeOK, RootsCurrent, SlamCurrent, Control,
     LeaveLoop, Top
<1>3. CASE Commit
  <2> PICK queue \in Rebuilt(root["queue"]), timers \in Rebuilt(root["timers"]) :
           Compact(queue, timers)
    BY <1>3 DEF Commit
  <2>1. queue \in {"none", Other(sel)} /\ timers \in {"none", Other(sel)}
    BY <1>h DEF Rebuilt, RootsCurrent
  <2>2. /\ root' \in [RootNames -> Places] /\ sel' = Other(sel)
        /\ root'["gate"] = Other(sel) /\ root'["slam"] = Other(sel)
        /\ root'["queue"] = queue /\ root'["timers"] = timers
        /\ root'["formula"] \in {"none", Other(sel)}
    BY <1>h, <2>1, Compacted
  <2>3. frames # <<>> /\ frames' = [AgedFrames EXCEPT ![Len(frames)] = Other(sel)]
    BY <1>3 DEF Commit, CompactFrames, Top, Ordinary, InLoop, Control
  <2>4. /\ frames' \in Seq(Places) /\ Len(frames') = Len(frames)
        /\ frames' # <<>>
        /\ Len(frames) <= 1 => \A i \in DOMAIN frames' : frames'[i] = Other(sel)
    BY <1>h, <2>3, Aging DEF TypeOK
  <2>5. TypeOK'
    BY <1>h, <1>3, <2>2, <2>4 DEF TypeOK, Commit, Sampled
  <2>6. QED
    BY <1>h, <1>3, <2>1, <2>2, <2>4, <2>5
       DEF Commit, Ordinary, InLoop, Sampled, RootsCurrent, SlamCurrent, Control
<1>4. CASE CompactFail
  <2>1. /\ root' \in [RootNames -> Places]
        /\ \A r \in RootNames : root[r] # Other(sel) => root'[r] = root[r]
    BY <1>4, PublishedNothing DEF CompactFail, AbortedBuild
  <2>2. /\ frames' \in Seq(Places) /\ Len(frames') = Len(frames)
        /\ \A i \in 1 .. Len(frames) :
              frames[i] # Other(sel) => frames'[i] = frames[i]
    BY <1>4, Aging DEF CompactFail, AbortedBuild
  <2>3. TypeOK'
    BY <1>h, <1>4, <2>1, <2>2 DEF TypeOK, CompactFail, AbortedBuild, Sampled
  <2>4. QED
    BY <1>h, <1>4, <2>1, <2>2, <2>3
       DEF CompactFail, AbortedBuild, Ordinary, InLoop, Sampled, Top, TypeOK,
           RootsCurrent, SlamCurrent, Control, RootNames
<1>5. CASE ArvoCommit
  BY <1>h, <1>5 DEF TypeOK, RootsCurrent, SlamCurrent, Control,
     ArvoCommit, Ordinary, InLoop, RootNames
<1>6. CASE Reject
  BY <1>h, <1>6 DEF TypeOK, RootsCurrent, SlamCurrent, Control,
     Reject, Ordinary, InLoop, Sampled, Top, RootNames
<1>7. CASE Crash
  BY <1>h, <1>7 DEF TypeOK, RootsCurrent, SlamCurrent, Control,
     Crash, Ordinary, InLoop, Sampled, Top, Cleared, RootNames
<1>8. CASE Enqueue
  BY <1>h, <1>8 DEF TypeOK, RootsCurrent, SlamCurrent, Control,
     Enqueue, AtRepl, Ordinary, InLoop, RootNames
<1>9. CASE \E cmd \in {"start", "stop"} : Request(cmd)
  BY <1>h, <1>9 DEF TypeOK, RootsCurrent, SlamCurrent, Control,
     Request, AtRepl
<1>10. CASE NoMail
  BY <1>h, <1>10 DEF TypeOK, RootsCurrent, SlamCurrent, Control,
     NoMail
<1>11. CASE BoundaryRefused
  BY <1>h, <1>11 DEF TypeOK, RootsCurrent, SlamCurrent, Control,
     BoundaryRefused, AtBoundary, AtRepl, Caller, Top
<1>12. CASE PrepareFails
  BY <1>h, <1>12 DEF TypeOK, RootsCurrent, SlamCurrent, Control,
     PrepareFails, AtBoundary, AtRepl, Caller, Top, Cleared, RootNames
<1>13. CASE LifecycleBegin
  <2>1. [cmd |-> mail, txs |-> 0] \in Plans /\ profile = "m7"
    BY <1>13, MaxTxsAssumption
       DEF LifecycleBegin, Deliverable, Plans, Control, TypeOK
  <2>2. TypeOK'
    BY <1>h, <1>13, <2>1 DEF LifecycleBegin, TypeOK, RootNames
  <2>3. QED
    BY <1>h, <1>13, <2>1, <2>2 DEF LifecycleBegin, TypeOK, RootsCurrent,
       SlamCurrent, Control, RootNames
<1>14. CASE PlanDrain
  <2> PICK queue \in Rebuilt(PlanQueue) \ {"none"},
           timers \in Rebuilt(root["timers"]) : Compact(queue, timers)
    BY <1>14 DEF PlanDrain
  <2>1. queue = Other(sel) /\ timers \in {"none", Other(sel)}
    BY <1>h DEF Rebuilt, RootsCurrent, PlanQueue
  <2>2. profile = "m7" /\ frames # <<>>
    BY <1>14 DEF PlanDrain, InPlan, InLoop, Control
  <2>3. frames' \in Seq(Places) /\ frames' # <<>>
    BY <1>14, <1>h, <2>2, Aging DEF PlanDrain, CompactFrames, Top, TypeOK
  <2>4. plan' \in Plans
    BY <1>14, MaxTxsAssumption DEF PlanDrain, InPlan, TypeOK, Plans
  <2>5. QED
    BY <1>h, <1>14, <2>1, <2>2, <2>3, <2>4, Compacted
       DEF PlanDrain, InPlan, InLoop, TypeOK, RootsCurrent, SlamCurrent, Control
<1>15. CASE PlanOverrun
  <2>1. profile = "m7" /\ frames # <<>>
    BY <1>15 DEF PlanOverrun, InPlan, InLoop, Control
  <2>2. frames' \in Seq(Places) /\ (Top # 1 => frames' # <<>>)
        /\ (Top = 1 => frames' = <<>>)
    BY <1>15, <1>h, <2>1, Popped DEF PlanOverrun, Return
  <2>3. QED
    BY <1>h, <1>15, <2>1, <2>2, Compacted
       DEF PlanOverrun, Returned, Plans, TypeOK, RootsCurrent, SlamCurrent, Control
<1>16. CASE PlanStarted
  <2> PICK timers \in Rebuilt(root["timers"]) : Compact("none", timers)
    BY <1>16 DEF PlanStarted
  <2>1. timers \in {"none", Other(sel)}
    BY <1>h DEF Rebuilt, RootsCurrent
  <2>2. profile = "m7" /\ frames # <<>>
    BY <1>16 DEF PlanStarted, InPlan, InLoop, Control
  <2>3. frames' \in Seq(Places) /\ (Top # 1 => frames' # <<>>)
        /\ (Top = 1 => frames' = <<>>)
    BY <1>16, <1>h, <2>2, Popped DEF PlanStarted, Return
  <2>4. QED
    BY <1>h, <1>16, <2>1, <2>2, <2>3, Compacted
       DEF PlanStarted, Returned, Plans, TypeOK, RootsCurrent, SlamCurrent, Control
<1>17. CASE PlanStopped
  <2>1. profile = "m7" /\ frames # <<>>
    BY <1>17 DEF PlanStopped, InPlan, InLoop, Control
  <2>2. frames' \in Seq(Places)
    BY <1>17, <1>h, <2>1, Popped DEF PlanStopped, Return
  <2>3. QED
    BY <1>h, <1>17, <2>1, <2>2, Compacted
       DEF PlanStopped, Plans, TypeOK, RootsCurrent, SlamCurrent, Control
<1>18. CASE PlanFail
  <2>1. profile = "m7" /\ frames # <<>>
    BY <1>18 DEF PlanFail, InPlan, InLoop, Control
  <2>2. frames' \in Seq(Places) /\ (Top # 1 => frames' # <<>>)
        /\ (Top = 1 => frames' = <<>>)
    BY <1>18, <1>h, <2>1, Popped DEF PlanFail, Return
  <2>3. /\ root' \in [RootNames -> Places]
        /\ root'["queue"] = "none" /\ root'["timers"] = "none"
        /\ \A r \in {"gate", "formula"} :
              root[r] # Other(sel) => root'[r] = root[r]
    <3>1. CASE root' = Cleared({"queue", "timers"})
      BY <1>h, <3>1 DEF Cleared, TypeOK, RootNames
    <3>2. CASE root' = Published({}, [queue |-> "none", timers |-> "none"])
      BY <1>h, <3>2, PublishedRoots DEF RootNames
    <3>3. QED
      BY <1>18, <3>1, <3>2 DEF PlanFail
  <2>4. QED
    BY <1>h, <1>18, <2>1, <2>2, <2>3
       DEF PlanFail, Returned, Plans, TypeOK, RootsCurrent, SlamCurrent, Control
<1>19. CASE StopAdvance
  <2>1. profile = "m7" /\ root["queue"] = "none" /\ root["timers"] = "none"
    BY <1>19 DEF StopAdvance, Control
  <2>2. frames' \in Seq(Places) /\ Len(frames') = Len(frames)
    BY <1>19, Aging DEF StopAdvance, Install, AbortedBuild
  <2>3. CASE Install(AdvanceRoots, <<>>) /\ mode' = "stopped"
    BY <1>h, <1>19, <2>1, <2>2, <2>3, PublishedNothing
       DEF StopAdvance, Install, AdvanceRoots, Caller, Top, RootNames, TypeOK,
           RootsCurrent, SlamCurrent, Control
  <2>4. CASE AbortedBuild(<<>>) /\ UNCHANGED mode
    BY <1>h, <1>19, <2>1, <2>2, <2>4, PublishedNothing
       DEF StopAdvance, AbortedBuild, Caller, Top, RootNames, TypeOK,
           RootsCurrent, SlamCurrent, Control
  <2>5. QED
    BY <1>19, <2>3, <2>4 DEF StopAdvance
<1>20. CASE ForceStop
  <2> DEFINE cleared == [queue |-> "none", timers |-> "none"]
  <2>1. profile = "m7" /\ at = "repl" /\ frames = <<>>
    BY <1>20 DEF ForceStop, AtRepl, Control
  <2>2. frames' \in Seq(Places) /\ frames' = <<>>
    BY <1>20, <2>1, NoFrames DEF ForceStop, Install, AbortedBuild
  <2>3. DOMAIN cleared \subseteq RootNames /\ \A r \in DOMAIN cleared : cleared[r] \in Places
    BY <1>h DEF RootNames
  <2>4. CASE Install(AdvanceRoots, cleared) /\ mode' \in {"stopped", "idle"}
    <3>1. /\ root' \in [RootNames -> Places] /\ sel' = Other(sel)
          /\ root'["queue"] = "none" /\ root'["timers"] = "none"
          /\ root["gate"] = sel => root'["gate"] = Other(sel)
          /\ root'["formula"] \in {"none", Other(sel)}
      BY <2>3, <2>4, PublishedRoots
         DEF Install, AdvanceRoots, RootNames, RootsCurrent
    <3>2. QED
      BY <1>h, <1>20, <2>1, <2>2, <2>4, <3>1
         DEF ForceStop, TypeOK, RootsCurrent, SlamCurrent, Control
  <2>5. CASE AbortedBuild(cleared) /\ mode' = "stopped"
    <3>1. /\ root' \in [RootNames -> Places] /\ sel' = sel
          /\ root'["queue"] = "none" /\ root'["timers"] = "none"
          /\ \A r \in {"gate", "formula"} :
                root[r] # Other(sel) => root'[r] = root[r]
      BY <2>3, <2>5, PublishedRoots DEF AbortedBuild, RootNames
    <3>2. QED
      BY <1>h, <1>20, <2>1, <2>2, <2>5, <3>1
         DEF ForceStop, TypeOK, RootsCurrent, SlamCurrent, Control
  <2>6. QED
    BY <1>20, <2>4, <2>5 DEF ForceStop
<1>21. CASE DeployActivate
  <2>1. profile = "m7" /\ at = "repl" /\ frames = <<>>
    BY <1>21 DEF DeployActivate, AtRepl, Control
  <2>2. CASE Install({}, Fresh(NewGate, NewM7)) /\ mode' = "idle"
    BY <1>h, <1>21, <2>1, <2>2, CleanRoots
       DEF DeployActivate, TypeOK, RootsCurrent, SlamCurrent, Control
  <2>3. CASE AbortedBuild(<<>>) /\ UNCHANGED mode
    <3>1. /\ root' \in [RootNames -> Places] /\ sel' = sel /\ frames' = <<>>
          /\ \A r \in RootNames : root[r] # Other(sel) => root'[r] = root[r]
      BY <2>1, <2>3, AbortedAtRepl
    <3>2. TypeOK'
      BY <1>h, <1>21, <2>1, <2>3, <3>1 DEF DeployActivate, TypeOK
    <3>3. RootsCurrent' /\ SlamCurrent'
      BY <1>h, <1>21, <2>1, <2>3, <3>1 DEF DeployActivate, RootsCurrent, SlamCurrent, RootNames
    <3>4. Control'
      BY <1>h, <1>21, <2>1, <2>3, <3>1 DEF DeployActivate, Control
    <3>5. QED
      BY <3>2, <3>3, <3>4
  <2>4. QED
    BY <1>21, <2>2, <2>3 DEF DeployActivate
<1>22. CASE CheckpointInstall
  <2>1. at = "repl" /\ frames = <<>> /\ plan = NoPlan
    BY <1>22 DEF CheckpointInstall, AtRepl, Control
  <2>2. ASSUME NEW queue \in {"none", Other(sel)}, NEW timers \in {"none", Other(sel)},
               Install({"formula"}, Fresh([queue |-> queue, timers |-> timers],
                                          NewGate))
        PROVE  /\ root' \in [RootNames -> Places] /\ sel' = Other(sel)
               /\ root'["gate"] = sel' /\ root'["slam"] = sel'
               /\ root'["queue"] \in {"none", sel'}
               /\ root'["timers"] \in {"none", sel'}
               /\ root'["formula"] \in {"none", sel'}
               /\ frames' = <<>>
    <3> DEFINE fresh == Fresh([queue |-> queue, timers |-> timers], NewGate)
    <3>1. /\ DOMAIN fresh = {"gate", "slam", "queue", "timers"}
          /\ fresh["gate"] = Other(sel) /\ fresh["slam"] = Other(sel)
          /\ fresh["queue"] = queue /\ fresh["timers"] = timers
      BY DEF Fresh, NewGate
    <3>2. root' = Published({"formula"}, fresh) /\ sel' = Other(sel)
      BY <2>2 DEF Install
    <3> HIDE DEF fresh
    <3>3. frames' = <<>>
      BY <2>1, <2>2, NoFrames DEF Install
    <3>4. /\ {"formula"} \in SUBSET RootNames /\ DOMAIN fresh \subseteq RootNames
          /\ \A r \in DOMAIN fresh : fresh[r] \in Places
      BY <1>h, <3>1 DEF RootNames
    <3>5. /\ root' \in [RootNames -> Places]
          /\ \A r \in DOMAIN fresh : root'[r] = fresh[r]
          /\ root["formula"] = "none" => root'["formula"] = "none"
          /\ root["formula"] = sel => root'["formula"] = Other(sel)
      BY <3>1, <3>2, <3>4, PublishedRoots
    <3>6. QED
      BY <1>h, <3>1, <3>2, <3>3, <3>5 DEF RootsCurrent
  <2>3. CASE AbortedBuild(<<>>) /\ UNCHANGED <<mode, mail>>
    <3>1. /\ root' \in [RootNames -> Places] /\ sel' = sel /\ frames' = <<>>
          /\ \A r \in RootNames : root[r] # Other(sel) => root'[r] = root[r]
      BY <2>1, <2>3, AbortedAtRepl
    <3>2. TypeOK'
      BY <1>h, <1>22, <2>1, <2>3, <3>1 DEF CheckpointInstall, TypeOK
    <3>3. RootsCurrent' /\ SlamCurrent'
      BY <1>h, <1>22, <2>1, <2>3, <3>1 DEF CheckpointInstall, RootsCurrent, SlamCurrent, RootNames
    <3>4. Control'
      BY <1>h, <1>22, <2>1, <2>3, <3>1 DEF CheckpointInstall, Control
    <3>5. QED
      BY <3>2, <3>3, <3>4
  <2>4. CASE /\ \E queue, timers \in {"none", Other(sel)} :
                   Install({"formula"}, Fresh([queue |-> queue, timers |-> timers],
                                              NewGate))
             /\ IF profile = "m7" THEN mode' \in {"idle", "running", "stopped"}
                ELSE UNCHANGED mode
             /\ mail' = "none"
    <3>1. /\ root' \in [RootNames -> Places] /\ sel' = Other(sel)
          /\ root'["gate"] = sel' /\ root'["slam"] = sel'
          /\ root'["queue"] \in {"none", sel'}
          /\ root'["timers"] \in {"none", sel'}
          /\ root'["formula"] \in {"none", sel'}
          /\ frames' = <<>>
      BY <2>2, <2>4
    <3>2. TypeOK'
      BY <1>h, <1>22, <2>4, <3>1 DEF CheckpointInstall, TypeOK
    <3>3. QED
      BY <1>h, <1>22, <2>1, <2>4, <3>1, <3>2
         DEF CheckpointInstall, RootsCurrent, SlamCurrent, Control
  <2>5. QED
    BY <1>22, <2>3, <2>4 DEF CheckpointInstall
<1>23. CASE CleanInstall
  <2>1. at = "repl" /\ frames = <<>> /\ plan = NoPlan
    BY <1>23 DEF CleanInstall, AtRepl, Control
  <2>2. CASE /\ Install({}, Fresh(NewGate, NewM7))
             /\ mode' = "idle"
             /\ mail' = "none"
    <3>1. TypeOK'
      BY <1>h, <1>23, <2>1, <2>2, CleanRoots DEF CleanInstall, TypeOK
    <3>2. QED
      BY <1>h, <1>23, <2>1, <2>2, <3>1, CleanRoots
         DEF CleanInstall, RootsCurrent, SlamCurrent, Control
  <2>3. CASE AbortedBuild(<<>>) /\ UNCHANGED <<mode, mail>>
    <3>1. /\ root' \in [RootNames -> Places] /\ sel' = sel /\ frames' = <<>>
          /\ \A r \in RootNames : root[r] # Other(sel) => root'[r] = root[r]
      BY <2>1, <2>3, AbortedAtRepl
    <3>2. TypeOK'
      BY <1>h, <1>23, <2>1, <2>3, <3>1 DEF CleanInstall, TypeOK
    <3>3. RootsCurrent' /\ SlamCurrent'
      BY <1>h, <1>23, <2>1, <2>3, <3>1 DEF CleanInstall, RootsCurrent, SlamCurrent, RootNames
    <3>4. Control'
      BY <1>h, <1>23, <2>1, <2>3, <3>1 DEF CleanInstall, Control
    <3>5. QED
      BY <3>2, <3>3, <3>4
  <2>4. QED
    BY <1>23, <2>2, <2>3 DEF CleanInstall
<1>24. CASE ShrineGateSet
  BY <1>h, <1>24 DEF TypeOK, RootsCurrent, SlamCurrent, Control,
     ShrineGateSet, AtRepl, RootNames
<1>25. CASE SwapStage
  BY <1>h, <1>25 DEF TypeOK, RootsCurrent, SlamCurrent, Control,
     SwapStage, AtRepl, RootNames
<1>26. CASE SwapCancel
  BY <1>h, <1>26 DEF TypeOK, RootsCurrent, SlamCurrent, Control,
     SwapCancel, AtRepl, RootNames
<1>27. CASE SwapRequest
  BY <1>h, <1>27 DEF TypeOK, RootsCurrent, SlamCurrent, Control,
     SwapRequest, AtRepl
<1>28. CASE SwapApply
  BY <1>h, <1>28 DEF TypeOK, RootsCurrent, SlamCurrent, Control,
     SwapApply, SwapDue, AtRepl, RootNames
<1>29. CASE UNCHANGED vars
  BY <1>29 DEF vars, TypeOK, RootsCurrent, SlamCurrent, Control, Top, Plans
<1>30. QED
  BY <1>1, <1>2, <1>3, <1>4, <1>5, <1>6, <1>7, <1>8, <1>9, <1>10, <1>11,
     <1>12, <1>13, <1>14, <1>15, <1>16, <1>17, <1>18, <1>19, <1>20, <1>21,
     <1>22, <1>23, <1>24, <1>25, <1>26, <1>27, <1>28, <1>29 DEF Next

-----------------------------------------------------------------------------
\* Type correctness of the roots model.
THEOREM TypeCorrect == Spec => []TypeOK
<1>1. IInv => TypeOK
  BY DEF IInv
<1>2. QED
  BY InitIInv, NextIInv, <1>1, PTL DEF Spec

\* No interleaving of commits, failed builds, lifecycle plans and
\* installations leaves the gate, the FIFO, the timer tokens or the manager
\* formula outside the active half.
THEOREM RootsAlwaysCurrent == Spec => []RootsCurrent
<1>1. IInv => RootsCurrent
  BY DEF IInv
<1>2. QED
  BY InitIInv, NextIInv, <1>1, PTL DEF Spec

\* Without the supervisor, the slam formula never goes stale.
THEOREM SlamAlwaysCurrent == Spec => []SlamCurrent
<1>1. IInv => SlamCurrent
  BY DEF IInv
<1>2. QED
  BY InitIInv, NextIInv, <1>1, PTL DEF Spec
=============================================================================
