-------------------------- MODULE SupervisorProofs --------------------------
(***************************************************************************)
(* What every step of the resource manager preserves, for every set of     *)
(* packages, every queue capacity and every last incarnation.  Operator    *)
(* and Checkpoint put these steps into programs; their proofs cite the     *)
(* lemmas of this module, one for each action.                             *)
(*                                                                         *)
(* The heart of SInv is a count: the causes a plan owes (debt) are the     *)
(* events of the queue that are marked as its own.                         *)
(***************************************************************************)
EXTENDS Supervisor, FiniteSetTheorems, TLAPS

\* The places of q that hold a cause of the running plan, and their number.
Life(q) == {i \in DOMAIN q : q[i] = "life"}
Owed(q) == Cardinality(Life(q))

\* The gate and g_m7 are in the same epoch.
Epoch == m7.inc = live.inc

\* A plan runs inside the nested loop, its slot before its first commit, and
\* it is the plan of the command that the boundary reads again.
PlanOk ==
    /\ plan.on => pc = "select"
    /\ plan.slot => plan.on /\ plan.txs = 0
    /\ plan.drop => plan.slot
    /\ plan.on \/ pc = "delivered" =>
          plan.stop = (m7.cmd = "stop") /\ (~plan.stop => durable)

\* What the plan owes is in the queue, and a delivered plan has emptied it.
DebtOk ==
    /\ pc # "undelivered" => debt = Owed(fifo)
    /\ ~plan.on /\ pc # "undelivered" => debt = 0
    /\ plan.on => debt <= MaxFan * plan.txs
    /\ pc = "delivered" => fifo = <<>>

\* What runs was started.
RunOk == m7.mode = "running" => started = live.inc

\* The shapes of the variables that are records.
Managers == [mode : Modes, inc : 1 .. MaxInc, qi : BOOLEAN, pending : BOOLEAN,
             cmd : Commands, obj : Objects, safe : BOOLEAN]
Stages == [open : BOOLEAN, sealed : BOOLEAN, want : Pkgs, got : 0 .. Chunks, good : BOOLEAN]
Gates == [pkg : Pkgs, inc : 1 .. MaxInc]
Banks == [low : BOOLEAN, inhibited : BOOLEAN, fatal : BOOLEAN]
Plans == [on : BOOLEAN, stop : BOOLEAN, slot : BOOLEAN, drop : BOOLEAN,
          root : BOOLEAN, draining : BOOLEAN, txs : 0 .. MaxTxs - 1]

SInv == SupTypeOK /\ Epoch /\ PlanOk /\ DebtOk /\ RunOk

-----------------------------------------------------------------------------
(* Queues and what they owe.                                               *)

\* The bounds are numbers, and 1 is an incarnation.
LEMMA Bounds ==
    /\ MaxInc \in Nat /\ MaxInc > 0 /\ QCap \in Nat /\ QCap > 0 /\ Chunks \in Nat /\ Chunks > 0
    /\ 1 \in 1 .. MaxInc
BY SupervisorAssumption

\* What a queue owes is a number.
LEMMA OwedType ==
    ASSUME NEW q \in Seq(Sources)
    PROVE  IsFiniteSet(Life(q)) /\ Owed(q) \in Nat
<1>1. IsFiniteSet(1 .. Len(q))
      BY FS_Interval
<1>2. Life(q) \in SUBSET (1 .. Len(q))
      BY DEF Life
<1>3. IsFiniteSet(Life(q))
      BY <1>1, <1>2, FS_Subset
<1> QED
    BY <1>3, FS_CardinalityType DEF Owed

\* A queue owes nothing exactly if none of its events is the plan's.
LEMMA OwedNothing ==
    ASSUME NEW q \in Seq(Sources)
    PROVE  Owed(q) = 0 <=> \A i \in DOMAIN q : q[i] # "life"
<1>1. Owed(q) = 0 <=> Life(q) = {}
      BY OwedType, FS_EmptySet DEF Owed
<1> QED
    BY <1>1 DEF Life

\* The empty queue owes nothing.
LEMMA OwedEmpty == Owed(<<>>) = 0
<1>1. Life(<<>>) = {}
      BY DEF Life
<1> QED
    BY <1>1, FS_EmptySet DEF Owed

\* Serving the head pays what the head was.
LEMMA OwedTail ==
    ASSUME NEW q \in Seq(Sources), q # <<>>
    PROVE  /\ Tail(q) \in Seq(Sources) /\ Len(Tail(q)) = Len(q) - 1
           /\ Head(q) \in Sources
           /\ Owed(Tail(q)) = Owed(q) - (IF Head(q) = "life" THEN 1 ELSE 0)
<1>1. /\ Tail(q) \in Seq(Sources) /\ Len(Tail(q)) = Len(q) - 1
      /\ Head(q) \in Sources /\ Len(q) \in Nat /\ Len(q) > 0
      OBVIOUS
<1>2. \A i \in 1 .. Len(q) - 1 : Tail(q)[i] = q[i + 1]
      OBVIOUS
<1>3. Life(q) \ {1} = {i + 1 : i \in Life(Tail(q))}
  <2>1. \A i \in Life(Tail(q)) : i + 1 \in Life(q) \ {1}
        BY <1>1, <1>2 DEF Life
  <2>2. \A j \in Life(q) \ {1} : j - 1 \in Life(Tail(q)) /\ j = (j - 1) + 1
        BY <1>1, <1>2 DEF Life
  <2> QED
      BY <2>1, <2>2
<1>4. ExistsBijection(Life(Tail(q)), Life(q) \ {1})
  <2> DEFINE f == [i \in Life(Tail(q)) |-> i + 1]
  <2>1. Life(Tail(q)) \subseteq Nat
        BY <1>1 DEF Life
  <2>2. f \in [Life(Tail(q)) -> Life(q) \ {1}]
        BY <1>3
  <2>3. \A a, b \in Life(Tail(q)) : f[a] = f[b] => a = b
        BY <2>1
  <2>4. \A t \in Life(q) \ {1} : \E i \in Life(Tail(q)) : f[i] = t
    <3>1. \A t \in Life(q) \ {1} : \E i \in Life(Tail(q)) : i + 1 = t
          BY ONLY <1>3
    <3> QED
        BY <3>1
  <2>5. f \in Bijection(Life(Tail(q)), Life(q) \ {1})
        BY <2>2, <2>3, <2>4 DEF Bijection, Injection, Surjection, IsInjective
  <2> QED
      BY <2>5 DEF ExistsBijection
<1>5. Owed(Tail(q)) = Cardinality(Life(q) \ {1})
      BY <1>1, <1>4, OwedType, FS_Bijection DEF Owed
<1>6. 1 \in Life(q) <=> Head(q) = "life"
      BY <1>1 DEF Life
<1>7. Cardinality(Life(q) \ {1}) = IF 1 \in Life(q) THEN Owed(q) - 1 ELSE Owed(q)
      BY OwedType, FS_RemoveElement DEF Owed
<1>8. Owed(q) \in Nat
      BY OwedType
<1> QED
    BY <1>1, <1>5, <1>6, <1>7, <1>8

\* Equal events behind a queue owe what they are.
LEMMA OwedJoined ==
    ASSUME NEW q \in Seq(Sources), NEW e \in Seq(Sources), NEW s \in Sources,
           \A i \in 1 .. Len(e) : e[i] = s
    PROVE  /\ q \o e \in Seq(Sources) /\ Len(q \o e) = Len(q) + Len(e)
           /\ Owed(q \o e) = IF s = "life" THEN Owed(q) + Len(e) ELSE Owed(q)
<1>1. PICK r : r = q \o e
      OBVIOUS
<1> DEFINE T == (Len(q) + 1) .. (Len(q) + Len(e))
<1>2. /\ r \in Seq(Sources) /\ Len(r) = Len(q) + Len(e)
      /\ Len(q) \in Nat /\ Len(e) \in Nat
      /\ \A i \in 1 .. Len(q) : r[i] = q[i]
      /\ \A i \in T : r[i] = s
      BY <1>1
<1>3. CASE s = "life"
  <2>1. Life(r) = Life(q) \cup T
    <3>1. \A i \in 1 .. Len(r) : i \in Life(r) <=> i \in Life(q) \/ i \in T
          BY <1>2, <1>3 DEF Life
    <3>2. Life(r) \subseteq 1 .. Len(r) /\ Life(q) \subseteq 1 .. Len(r) /\ T \subseteq 1 .. Len(r)
          BY <1>2 DEF Life
    <3> QED
        BY <3>1, <3>2
  <2>2. Life(q) \cap T = {}
        BY <1>2 DEF Life
  <2>3. IsFiniteSet(T) /\ Cardinality(T) = Len(e)
    <3> DEFINE a == Len(q) + 1
               b == Len(q) + Len(e)
    <3>1. a \in Int /\ b \in Int /\ (IF a > b THEN 0 ELSE b - a + 1) = Len(e)
          BY <1>2
    <3>2. IsFiniteSet(a .. b) /\ Cardinality(a .. b) = IF a > b THEN 0 ELSE b - a + 1
          BY <3>1, FS_Interval
    <3> QED
        BY <3>1, <3>2
  <2>4. Cardinality(Life(q) \cup T) = Owed(q) + Len(e) - Cardinality(Life(q) \cap T)
        BY <2>3, OwedType, FS_Union DEF Owed
  <2>5. Owed(q) \in Nat /\ Cardinality({}) = 0
        BY OwedType, FS_EmptySet
  <2>6. Owed(r) = Owed(q) + Len(e)
    <3>1. Owed(r) = Cardinality(Life(q) \cup T)
          BY <2>1 DEF Owed
    <3>2. Cardinality(Life(q) \cap T) = 0
          BY <2>2, <2>5
    <3> HIDE DEF T
    <3> QED
        BY <1>2, <3>1, <3>2, <2>4, <2>5
  <2> QED
      BY <1>1, <1>2, <1>3, <2>6
<1>4. CASE s # "life"
  <2>1. \A i \in 1 .. Len(r) : i \in Life(r) <=> i \in Life(q)
        BY <1>2, <1>4 DEF Life
  <2>2. Life(r) \subseteq 1 .. Len(r) /\ Life(q) \subseteq 1 .. Len(r)
        BY <1>2 DEF Life
  <2>3. Life(r) = Life(q)
        BY <2>1, <2>2
  <2>4. Owed(r) = Owed(q)
        BY <2>3 DEF Owed
  <2> QED
      BY <1>1, <1>2, <1>4, <2>4
<1> QED
    BY <1>3, <1>4

\* n equal events are a queue.
LEMMA EqualEvents ==
    ASSUME NEW n \in Nat, NEW s \in Sources
    PROVE  /\ [i \in 1 .. n |-> s] \in Seq(Sources)
           /\ Len([i \in 1 .. n |-> s]) = n
           /\ \A i \in 1 .. n : [j \in 1 .. n |-> s][i] = s
OBVIOUS

\* n equal events behind a queue.
LEMMA OwedBehind ==
    ASSUME NEW q \in Seq(Sources), NEW n \in Nat, NEW s \in Sources
    PROVE  /\ q \o [i \in 1 .. n |-> s] \in Seq(Sources)
           /\ Len(q \o [i \in 1 .. n |-> s]) = Len(q) + n
           /\ Owed(q \o [i \in 1 .. n |-> s]) = IF s = "life" THEN Owed(q) + n ELSE Owed(q)
<1>1. PICK e : e = [i \in 1 .. n |-> s]
      OBVIOUS
<1>2. e \in Seq(Sources) /\ Len(e) = n /\ \A i \in 1 .. Len(e) : e[i] = s
      BY <1>1, EqualEvents
<1>3. /\ q \o e \in Seq(Sources) /\ Len(q \o e) = Len(q) + n
      /\ Owed(q \o e) = IF s = "life" THEN Owed(q) + n ELSE Owed(q)
      BY <1>2, OwedJoined
<1> QED
    BY <1>1, <1>3

-----------------------------------------------------------------------------
(* Steps between two plans.                                                *)

\* Without a plan nothing is owed.
LEMMA NothingOwed ==
    ASSUME SInv, ~plan.on, pc # "undelivered"
    PROVE  debt = 0 /\ Owed(fifo) = 0 /\ ~plan.slot /\ ~plan.drop
BY DEF SInv, PlanOk, DebtOk

\* A step that leaves no plan and no debt preserves what is said of them.
LEMMA Settled ==
    ASSUME pc' \notin {"delivered", "undelivered"}, debt' = 0, Owed(fifo') = 0,
           ~plan'.on, ~plan'.slot, ~plan'.drop
    PROVE  PlanOk' /\ DebtOk'
<1>1. PlanOk'
      BY DEF PlanOk
<1>2. DebtOk'
      BY DEF DebtOk, Owed, Life
<1> QED
    BY <1>1, <1>2

\* The type invariant by the names of its shapes, in a state and after it.
LEMMA TypeParts ==
    SupTypeOK <=>
        /\ m7 \in Managers /\ durable \in BOOLEAN /\ stage \in Stages /\ live \in Gates
        /\ fifo \in Seq(Sources) /\ Len(fifo) <= QCap
        /\ timers \in {0, 1} /\ out \in Banks /\ plan \in Plans
        /\ debt \in 0 .. MaxTxs * MaxFan /\ started \in 0 .. MaxInc
        /\ pc \in {"head", "select", "boundary", "undelivered", "delivered", "confirmed", "denied"}
        /\ back \in {"head", "select", "reply"}
BY DEF SupTypeOK, Managers, Stages, Gates, Banks, Plans

\* The same of the next state.
LEMMA TypePartsNext ==
    SupTypeOK' <=>
        /\ m7' \in Managers /\ durable' \in BOOLEAN /\ stage' \in Stages /\ live' \in Gates
        /\ fifo' \in Seq(Sources) /\ Len(fifo') <= QCap
        /\ timers' \in {0, 1} /\ out' \in Banks /\ plan' \in Plans
        /\ debt' \in 0 .. MaxTxs * MaxFan /\ started' \in 0 .. MaxInc
        /\ pc' \in {"head", "select", "boundary", "undelivered", "delivered", "confirmed", "denied"}
        /\ back' \in {"head", "select", "reply"}
BY DEF SupTypeOK, Managers, Stages, Gates, Banks, Plans

\* An empty queue is within every capacity.
LEMMA EmptyFits == <<>> \in Seq(Sources) /\ Len(<<>>) <= QCap
BY SupervisorAssumption

\* The plan of a supervisor that has none.
LEMMA NoPlanFields ==
    /\ NoPlan \in Plans
    /\ ~NoPlan.on /\ ~NoPlan.slot /\ ~NoPlan.drop /\ ~NoPlan.stop /\ NoPlan.txs = 0
BY DEF NoPlan, Plans, MaxTxs

\* The mailbox entry is dropped, the rest of the manager stays.
LEMMA FinishedType ==
    ASSUME NEW m \in Managers
    PROVE  /\ Finished(m) \in Managers
           /\ Finished(m).mode = m.mode /\ Finished(m).inc = m.inc /\ Finished(m).qi = m.qi
           /\ Finished(m).pending = m.pending /\ Finished(m).safe = m.safe
BY DEF Finished, Commands, Objects, Managers

\* The bank after it was made safe or prepared.
LEMMA SafeType ==
    ASSUME NEW ok \in BOOLEAN, out \in Banks
    PROVE  /\ Safe(ok) \in Banks /\ Prepared(ok) \in Banks
           /\ Safe(ok).inhibited /\ (Safe(ok).low \/ Safe(ok).fatal) /\ (ok => Safe(ok).low)
           /\ \A s \in BOOLEAN :
                 /\ SafeFrom(Prepared(ok), s) \in Banks
                 /\ SafeFrom(Prepared(ok), s).low \/ SafeFrom(Prepared(ok), s).fatal
BY DEF Safe, SafeFrom, Prepared, Banks

\* The boundary returns to its caller.
LEMMA ReturnType ==
    ASSUME SupTypeOK, NEW rdy \in BOOLEAN, Return(rdy)
    PROVE  pc' \in {"head", "select", "confirmed", "denied"} /\ back' = "head"
BY TypeParts DEF Return

\* A failed plan leaves a stopped supervisor with nothing queued or armed.
LEMMA UndeliveredKeeps ==
    ASSUME SInv, NEW m \in Managers, m.inc = m7.inc, NEW safe \in BOOLEAN,
           Undelivered(m, safe), out' \in Banks
    PROVE  SInv'
<1>1. [m EXCEPT !.mode = "stopped", !.safe = safe] \in Managers
      BY DEF Managers, Modes
<1>2. m7' \in Managers /\ m7'.mode = "stopped" /\ m7'.inc = m7.inc
      BY <1>1, FinishedType DEF Undelivered, Managers
<1>3. pc' \in {"head", "select", "confirmed", "denied"} /\ back' = "head"
      BY ReturnType DEF Undelivered, SInv
<1>4. SupTypeOK'
      BY <1>2, <1>3, NoPlanFields, EmptyFits, TypeParts, TypePartsNext
      DEF Undelivered, SInv, MaxTxs, MaxFan
<1>5. Epoch' /\ RunOk'
      BY <1>2 DEF Undelivered, SInv, Epoch, RunOk
<1>6. PlanOk' /\ DebtOk'
  <2>1. ~plan'.on /\ ~plan'.slot /\ ~plan'.drop /\ debt' = 0
        BY NoPlanFields DEF Undelivered
  <2>2. Owed(fifo') = 0
        BY OwedEmpty DEF Undelivered
  <2> QED
      BY ONLY <1>3, <2>1, <2>2, Settled
<1> QED
    BY <1>4, <1>5, <1>6 DEF SInv

\* A plan begins: it owes nothing yet, and START runs over a known activation.
LEMMA BeginPlanKeeps ==
    ASSUME SInv, NEW stop \in BOOLEAN, NEW m \in Managers, m.inc = m7.inc,
           stop <=> m.cmd = "stop", ~stop => durable /\ Owed(fifo) = 0,
           m.mode = "running" => started = live.inc,
           BeginPlan(stop, m, fifo), out' \in Banks
    PROVE  SInv'
<1>1. /\ plan' \in Plans /\ plan'.on /\ plan'.stop = stop /\ plan'.slot /\ plan'.txs = 0
      /\ plan'.drop = stop
  <2>1. plan' = [on |-> TRUE, stop |-> stop, slot |-> TRUE, drop |-> stop,
                 root |-> FALSE, draining |-> FALSE, txs |-> 0]
        BY DEF BeginPlan, NoPlan
  <2> QED
      BY <2>1 DEF Plans, MaxTxs
<1>2. fifo' \in Seq(Sources) /\ Len(fifo') <= QCap /\ Owed(fifo') = 0
      BY OwedEmpty, EmptyFits, TypeParts DEF BeginPlan, SInv
<1>3. SupTypeOK'
      BY <1>1, <1>2, TypeParts, TypePartsNext DEF BeginPlan, SInv, MaxTxs, MaxFan
<1>4. Epoch' /\ RunOk'
      BY DEF BeginPlan, SInv, Epoch, RunOk
<1>5. PlanOk'
      BY <1>1 DEF BeginPlan, PlanOk
<1>6. DebtOk'
  <2>1. debt' = 0 /\ debt' = Owed(fifo)' /\ pc' = "select" /\ debt' <= MaxFan * plan'.txs
        BY <1>1, <1>2 DEF BeginPlan, Owed, Life, MaxFan
  <2> QED
      BY <2>1 DEF DebtOk
<1> QED
    BY <1>3, <1>4, <1>5, <1>6 DEF SInv

\* The boundary answers, begins a plan, or retires the lifecycle at once.
LEMMA BoundaryCases ==
    ASSUME Boundary
    PROVE  LET m == [m7 EXCEPT !.pending = FALSE, !.obj = "raw"]
           IN  \/ \E rdy \in BOOLEAN :
                     /\ Return(rdy) /\ m7' \in {m7, Finished(m)}
                     /\ UNCHANGED <<durable, stage, live, fifo, timers, out, plan, debt, started>>
               \/ BeginPlan(FALSE, m, fifo) /\ m7.cmd = "start" /\ durable /\ out' \in {out, Prepared(TRUE)}
               \/ BeginPlan(TRUE, [m EXCEPT !.mode = "stopping"], fifo) /\ m7.cmd = "stop" /\ out' = out
               \/ \E ok \in BOOLEAN, safe \in BOOLEAN :
                     out' = SafeFrom(Prepared(ok), safe) /\ Undelivered(m, safe)
BY DEF Boundary, StartFenced

\* The boundary: every answer, the lifecycle it begins, the one it refuses.
LEMMA BoundaryKeeps ==
    ASSUME SInv, Boundary
    PROVE  SInv'
<1> DEFINE m == [m7 EXCEPT !.pending = FALSE, !.obj = "raw"]
<1>1. /\ m7 \in Managers /\ m \in Managers /\ m.mode = m7.mode /\ m.inc = m7.inc /\ m.cmd = m7.cmd
      /\ out \in Banks /\ pc = "boundary"
      BY TypeParts DEF Boundary, SInv, Managers, Objects
<1>2. ~plan.on /\ debt = 0 /\ Owed(fifo) = 0 /\ ~plan.slot /\ ~plan.drop
      BY <1>1, NothingOwed DEF SInv, PlanOk
<1>3. ASSUME NEW rdy \in BOOLEAN, Return(rdy), m7' \in {m7, Finished(m)},
             UNCHANGED <<durable, stage, live, fifo, timers, out, plan, debt, started>>
      PROVE  SInv'
  <2>1. m7' \in Managers /\ m7'.mode = m7.mode /\ m7'.inc = m7.inc
        BY <1>1, <1>3, FinishedType
  <2>2. pc' \in {"head", "select", "confirmed", "denied"} /\ back' = "head"
        BY <1>3, ReturnType DEF SInv
  <2>3. SupTypeOK'
        BY <1>3, <2>1, <2>2, TypeParts, TypePartsNext DEF SInv
  <2>4. Epoch' /\ RunOk'
        BY <1>3, <2>1 DEF SInv, Epoch, RunOk
  <2>5. PlanOk' /\ DebtOk'
        BY <1>2, <1>3, <2>2, Settled
  <2> QED
      BY <2>3, <2>4, <2>5 DEF SInv
<1>4. ASSUME BeginPlan(FALSE, m, fifo), m7.cmd = "start", durable, out' \in Banks
      PROVE  SInv'
  <2>1. m.mode = "running" => started = live.inc
        BY <1>1 DEF SInv, RunOk
  <2> HIDE DEF m
  <2> QED
      BY <1>1, <1>2, <1>4, <2>1, BeginPlanKeeps
<1>5. ASSUME BeginPlan(TRUE, [m EXCEPT !.mode = "stopping"], fifo), m7.cmd = "stop", out' = out
      PROVE  SInv'
  <2>1. PICK n : n = [m EXCEPT !.mode = "stopping"]
        OBVIOUS
  <2>2. n \in Managers /\ n.inc = m7.inc /\ n.cmd = "stop" /\ n.mode = "stopping"
        BY <1>1, <1>5, <2>1 DEF Managers, Modes
  <2> QED
      BY <1>1, <1>5, <2>1, <2>2, BeginPlanKeeps
<1>6. ASSUME NEW ok \in BOOLEAN, NEW safe \in BOOLEAN,
             out' = SafeFrom(Prepared(ok), safe), Undelivered(m, safe)
      PROVE  SInv'
  <2>1. out' \in Banks
        BY <1>1, <1>6, SafeType
  <2> HIDE DEF m
  <2> QED
      BY <1>1, <1>6, <2>1, UndeliveredKeeps
<1>7. Prepared(TRUE) \in Banks
      BY <1>1, SafeType
<1>8. \/ \E rdy \in BOOLEAN :
            /\ Return(rdy) /\ m7' \in {m7, Finished(m)}
            /\ UNCHANGED <<durable, stage, live, fifo, timers, out, plan, debt, started>>
      \/ BeginPlan(FALSE, m, fifo) /\ m7.cmd = "start" /\ durable /\ out' \in {out, Prepared(TRUE)}
      \/ BeginPlan(TRUE, [m EXCEPT !.mode = "stopping"], fifo) /\ m7.cmd = "stop" /\ out' = out
      \/ \E ok \in BOOLEAN, safe \in BOOLEAN :
            out' = SafeFrom(Prepared(ok), safe) /\ Undelivered(m, safe)
      BY BoundaryCases
<1> HIDE DEF m
<1> QED
    BY <1>1, <1>3, <1>4, <1>5, <1>6, <1>7, <1>8

\* The lifecycle was not delivered.
LEMMA DeliverFailsKeeps ==
    ASSUME SInv, DeliverFails
    PROVE  SInv'
<1>1. m7 \in Managers /\ out \in Banks
      BY TypeParts DEF SInv
<1>2. PICK ok \in BOOLEAN : out' = Safe(ok) /\ Undelivered(m7, ok)
      BY DEF DeliverFails
<1>3. out' \in Banks
      BY <1>1, <1>2, SafeType
<1> QED
    BY <1>1, <1>2, <1>3, UndeliveredKeeps

\* A delivered START: what runs now is what was started.
LEMMA DeliverStartKeeps ==
    ASSUME SInv, DeliverStart
    PROVE  SInv' /\ durable'
<1>1. /\ m7 \in Managers /\ pc = "delivered" /\ ~plan.on /\ debt = 0 /\ Owed(fifo) = 0
      /\ durable
      BY TypeParts DEF DeliverStart, SInv, PlanOk, DebtOk
<1>2. PICK n : n = [m7 EXCEPT !.mode = "running", !.safe = FALSE]
      OBVIOUS
<1>3. n \in Managers /\ n.inc = m7.inc /\ m7' = Finished(n)
      BY <1>1, <1>2 DEF Managers, Modes, DeliverStart
<1>4. m7' \in Managers /\ m7'.inc = m7.inc
      BY <1>3, FinishedType
<1>5. pc' \in {"head", "select", "confirmed", "denied"} /\ back' = "head"
      BY ReturnType DEF DeliverStart, SInv
<1>6. live.inc \in 0 .. MaxInc
      BY TypeParts DEF SInv, Gates
<1>7. SupTypeOK'
      BY <1>4, <1>5, <1>6, NoPlanFields, TypeParts, TypePartsNext DEF DeliverStart, SInv
<1>8. Epoch' /\ RunOk' /\ durable'
      BY <1>1, <1>4 DEF DeliverStart, SInv, Epoch, RunOk
<1>9. PlanOk' /\ DebtOk'
  <2>1. ~plan'.on /\ ~plan'.slot /\ ~plan'.drop /\ debt' = 0 /\ Owed(fifo') = 0
        BY <1>1, NoPlanFields DEF DeliverStart
  <2> QED
      BY ONLY <1>5, <2>1, Settled
<1> QED
    BY <1>7, <1>8, <1>9 DEF SInv

\* The next incarnation, or the same one.
LEMMA AdvanceType ==
    ASSUME SInv, NEW adv \in BOOLEAN, Advance(adv)
    PROVE  /\ live' \in Gates /\ live'.pkg = live.pkg
           /\ (IF adv THEN m7.inc + 1 ELSE m7.inc) \in 1 .. MaxInc
           /\ live'.inc = IF adv THEN m7.inc + 1 ELSE m7.inc
<1>1. live \in Gates /\ m7.inc \in 1 .. MaxInc /\ MaxInc \in Nat /\ live.inc = m7.inc
      BY TypeParts, Bounds DEF SInv, Managers, Epoch
<1> QED
    BY <1>1 DEF Advance, Gates

\* What a stop, forced or not, makes of the manager.
LEMMA StoppedType ==
    ASSUME SInv, NEW adv \in BOOLEAN, Advance(adv), NEW mode \in Modes, NEW ok \in BOOLEAN,
           NEW pending \in BOOLEAN,
           m7' = Finished([m7 EXCEPT !.pending = pending, !.safe = ok, !.mode = mode,
                                     !.inc = IF adv THEN @ + 1 ELSE @])
    PROVE  /\ m7' \in Managers /\ m7'.mode = mode /\ m7'.inc = live'.inc /\ live' \in Gates
           /\ m7'.pending = pending
<1>1. PICK n : n = [m7 EXCEPT !.pending = pending, !.safe = ok, !.mode = mode,
                              !.inc = IF adv THEN @ + 1 ELSE @]
      OBVIOUS
<1>2. m7 \in Managers
      BY TypeParts DEF SInv
<1>3. n \in Managers /\ n.mode = mode /\ n.inc = (IF adv THEN m7.inc + 1 ELSE m7.inc)
      /\ n.pending = pending
      BY <1>1, <1>2, AdvanceType DEF Managers
<1>4. m7' = Finished(n)
      BY <1>1
<1> QED
    BY <1>3, <1>4, FinishedType, AdvanceType

\* A delivered STOP, confirmed or not.
LEMMA DeliverStopKeeps ==
    ASSUME SInv, DeliverStop
    PROVE  /\ SInv'
           /\ m7'.mode \in {"stopped", m7.mode} /\ UNCHANGED durable
           /\ fifo' = <<>> /\ timers' = 0 /\ (out'.low \/ out'.fatal)
<1>1. /\ m7 \in Managers /\ out \in Banks /\ m7.mode \in Modes /\ m7.pending \in BOOLEAN
      /\ debt = 0
      BY TypeParts DEF SInv, Managers, DeliverStop, DebtOk, PlanOk
<1>2. PICK safe \in BOOLEAN, adv \in BOOLEAN :
          /\ out' = Safe(safe)
          /\ Advance(adv)
          /\ m7' = Finished([m7 EXCEPT !.mode = IF adv THEN "stopped" ELSE @,
                                       !.inc = IF adv THEN @ + 1 ELSE @, !.safe = safe])
          /\ Return(StopConfirmed(safe, adv))
      BY DEF DeliverStop
<1>3. PICK mode : mode = IF adv THEN "stopped" ELSE m7.mode
      OBVIOUS
<1>4. m7' = Finished([m7 EXCEPT !.pending = m7.pending, !.safe = safe, !.mode = mode,
                                !.inc = IF adv THEN @ + 1 ELSE @])
      BY <1>1, <1>2, <1>3 DEF Managers
<1>5. mode \in Modes
      BY <1>1, <1>3 DEF Modes
<1>6. m7' \in Managers /\ m7'.mode = mode /\ m7'.inc = live'.inc /\ live' \in Gates
      BY <1>1, <1>2, <1>4, <1>5, StoppedType
<1>7. pc' \in {"head", "select", "confirmed", "denied"} /\ back' = "head"
      BY <1>2, ReturnType DEF SInv, StopConfirmed
<1>8. out' \in Banks /\ (out'.low \/ out'.fatal)
      BY <1>1, <1>2, SafeType
<1>9. SupTypeOK'
      BY <1>6, <1>7, <1>8, NoPlanFields, EmptyFits, TypeParts, TypePartsNext DEF DeliverStop, SInv
<1>10. Epoch'
      BY <1>6 DEF Epoch
<1>11. RunOk'
      BY <1>2, <1>3, <1>6 DEF DeliverStop, SInv, RunOk, Advance
<1>12. PlanOk' /\ DebtOk'
  <2>1. ~plan'.on /\ ~plan'.slot /\ ~plan'.drop /\ debt' = 0 /\ Owed(fifo') = 0
        BY <1>1, NoPlanFields, OwedEmpty DEF DeliverStop
  <2> QED
      BY ONLY <1>7, <2>1, Settled
<1>13. SInv'
       BY <1>9, <1>10, <1>11, <1>12 DEF SInv
<1> QED
    BY <1>3, <1>6, <1>8, <1>13 DEF DeliverStop

-----------------------------------------------------------------------------
(* Transactions.                                                           *)

\* What a driven output leaves of the bank.
LEMMA DrivenType ==
    ASSUME out \in Banks
    PROVE  Driven \subseteq Banks
<1>1. Safe(TRUE) \in Banks /\ Safe(FALSE) \in Banks
      BY SafeType
<1>2. [low |-> FALSE, inhibited |-> FALSE, fatal |-> FALSE] \in Banks
      BY DEF Banks
<1> QED
    BY <1>1, <1>2 DEF Driven

\* What a queue position is to a transaction: the event served, own of the
\* plan, and the rest of the queue behind it.
Serving(rest, own) ==
    /\ pc = "select" /\ rest \in Seq(Sources) /\ Len(rest) <= QCap
    /\ own \in {0, 1} /\ Owed(rest) = Owed(fifo) - own
    /\ plan.slot => own = 0

\* The two positions: in front of the queue (the slot, an external event),
\* and its head.
LEMMA ServingFront ==
    ASSUME SInv, pc = "select"
    PROVE  Serving(fifo, 0)
<1>1. fifo \in Seq(Sources) /\ Len(fifo) <= QCap
      BY TypeParts DEF SInv
<1>2. Owed(fifo) \in Nat
      BY <1>1, OwedType
<1> QED
    BY <1>1, <1>2 DEF Serving

\* ... and its head.
LEMMA ServingHead ==
    ASSUME SInv, pc = "select", ~plan.slot, fifo # <<>>
    PROVE  Serving(Tail(fifo), IF Head(fifo) = "life" THEN 1 ELSE 0)
<1>1. fifo \in Seq(Sources) /\ Len(fifo) <= QCap /\ QCap \in Nat
      BY TypeParts, Bounds DEF SInv
<1>2. /\ Tail(fifo) \in Seq(Sources) /\ Len(Tail(fifo)) = Len(fifo) - 1
      /\ Owed(Tail(fifo)) = Owed(fifo) - (IF Head(fifo) = "life" THEN 1 ELSE 0)
      BY <1>1, OwedTail
<1>3. Len(Tail(fifo)) <= QCap
      BY <1>1, <1>2
<1> QED
    BY <1>2, <1>3 DEF Serving

\* The promoted queue owes what the plan owed, with the causes that came and
\* without the one that was served.
LEMMA PromotedOwes ==
    ASSUME SInv, NEW rest, NEW own, Serving(rest, own), NEW n \in Fan
    PROVE  /\ Promoted(rest, n) \in Seq(Sources)
           /\ Owed(Promoted(rest, n)) = IF plan.on THEN debt + n - own ELSE 0
           /\ ~plan.on => debt = 0
<1>1. /\ rest \in Seq(Sources) /\ own \in {0, 1} /\ Owed(rest) = Owed(fifo) - own
      /\ debt = Owed(fifo) /\ n \in Nat /\ Owed(fifo) \in Nat /\ Owed(rest) \in Nat
      BY OwedType, TypeParts DEF Serving, SInv, DebtOk, Fan, MaxFan
<1>2. PICK front : front = IF plan.on /\ plan.drop THEN <<>> ELSE rest
      OBVIOUS
<1>3. PICK s : s = IF plan.on THEN "life" ELSE "cause"
      OBVIOUS
<1>4. front \in Seq(Sources) /\ s \in Sources
      BY <1>1, <1>2, <1>3 DEF Sources
<1>5. Promoted(rest, n) = front \o [i \in 1 .. n |-> s]
      BY <1>2, <1>3 DEF Promoted
<1>6. /\ Promoted(rest, n) \in Seq(Sources)
      /\ Owed(Promoted(rest, n)) = IF s = "life" THEN Owed(front) + n ELSE Owed(front)
  <2>1. /\ front \o [i \in 1 .. n |-> s] \in Seq(Sources)
        /\ Owed(front \o [i \in 1 .. n |-> s])
              = IF s = "life" THEN Owed(front) + n ELSE Owed(front)
        BY <1>1, <1>4, OwedBehind
  <2> QED
      BY <1>5, <2>1
<1>7. ~plan.on => debt = 0
      BY DEF SInv, DebtOk, Serving
<1>8. plan.on => Owed(front) = debt - own
  <2>1. CASE plan.on /\ plan.drop
    <3>1. plan.slot /\ plan.txs = 0 /\ own = 0
          BY <2>1 DEF SInv, PlanOk, Serving
    <3>2. debt <= MaxFan * 0
          BY <2>1, <3>1 DEF SInv, DebtOk
    <3>3. debt = 0
          BY <1>1, <3>2 DEF MaxFan
    <3> QED
        BY <1>2, <2>1, <3>1, <3>3, OwedEmpty
  <2>2. CASE ~(plan.on /\ plan.drop)
        BY <1>1, <1>2, <2>2
  <2> QED
      BY <2>1, <2>2
<1>9. ~plan.on => Owed(front) = 0
      BY <1>1, <1>2, <1>7
<1>10. CASE plan.on
       BY <1>1, <1>3, <1>6, <1>8, <1>10
<1>11. CASE ~plan.on
       BY <1>3, <1>6, <1>7, <1>9, <1>11
<1> QED
    BY <1>10, <1>11

\* The fields of the plan after a terminal transaction of its own.
LEMMA PlanNext ==
    ASSUME plan \in Plans, NEW txs \in 0 .. MaxTxs - 1
    PROVE  /\ [plan EXCEPT !.txs = txs, !.root = TRUE, !.slot = FALSE,
                           !.draining = TRUE, !.drop = FALSE] \in Plans
           /\ [NoPlan EXCEPT !.stop = plan.stop] \in Plans
<1>1. plan.stop \in BOOLEAN /\ 0 \in 0 .. MaxTxs - 1
      BY DEF Plans, MaxTxs
<1>2. ASSUME NEW p \in Plans, NEW stop \in BOOLEAN
      PROVE  [p EXCEPT !.stop = stop] \in Plans
      BY <1>2 DEF Plans
<1>3. [NoPlan EXCEPT !.stop = plan.stop] \in Plans
      BY <1>1, <1>2, NoPlanFields
<1>4. [plan EXCEPT !.txs = txs, !.root = TRUE, !.slot = FALSE,
                   !.draining = TRUE, !.drop = FALSE] \in Plans
      BY DEF Plans
<1> QED
    BY <1>3, <1>4

\* A committed transaction: outside a plan the boundary is next; inside, the
\* plan is delivered, overrun, or has served one more.
LEMMA CommitsKeeps ==
    ASSUME SInv, NEW rest, NEW own, Serving(rest, own), NEW n \in Fan, NEW arms \in {0, 1},
           NEW bank \in Banks, Commits(rest, own, n, arms, bank), Fixed
    PROVE  SInv'
<1>1. PICK q : q = Promoted(rest, n)
      OBVIOUS
<1>2. PICK owed : owed = IF plan.on THEN debt + n - own ELSE debt
      OBVIOUS
<1>3. /\ q \in Seq(Sources) /\ Owed(q) = owed /\ Len(q) <= QCap /\ (~plan.on => owed = 0)
      /\ debt' = owed /\ owed \in Nat
      BY <1>1, <1>2, PromotedOwes, OwedType DEF Commits
<1>4. Terminal(TRUE, q)
      BY <1>1 DEF Commits
<1>5. /\ timers' \in {0, 1} /\ out' \in Banks
      /\ m7' = m7 /\ durable' = durable /\ stage' = stage /\ live' = live /\ started' = started
      BY TypeParts DEF Commits, Fixed, SInv
<1>6. pc = "select" /\ plan \in Plans /\ n \in 0 .. 2 /\ own \in {0, 1} /\ debt \in Nat
      BY TypeParts DEF Serving, SInv, Fan, MaxFan, MaxTxs
<1>7. plan.on => owed <= MaxFan * (plan.txs + 1) /\ plan.txs \in 0 .. 2
  <2>1. plan.on => debt <= 2 * plan.txs /\ plan.txs \in 0 .. 2
        BY <1>6 DEF SInv, DebtOk, MaxFan, Plans, MaxTxs
  <2> QED
      BY <1>2, <1>6, <2>1 DEF MaxFan
<1>8. owed \in 0 .. MaxTxs * MaxFan
      BY <1>3, <1>7 DEF MaxTxs, MaxFan
<1>9. Epoch' /\ RunOk'
      BY <1>5 DEF SInv, Epoch, RunOk
<1>10. CASE ~plan.on
  <2>1. fifo' = q /\ pc' = "boundary" /\ plan' = plan /\ back' \in {"head", "select"}
        BY <1>4, <1>10 DEF Terminal
  <2>2. SupTypeOK'
        BY <1>3, <1>5, <1>8, <2>1, TypeParts, TypePartsNext DEF SInv
  <2>3. ~plan.slot /\ ~plan.drop
        BY <1>10 DEF SInv, PlanOk
  <2>4. PlanOk' /\ DebtOk'
        BY <1>3, <1>10, <2>1, <2>3, Settled
  <2> QED
      BY <1>9, <2>2, <2>4 DEF SInv
<1>11. CASE plan.on /\ Overrun(plan.txs + 1, q)
  <2>1. /\ plan' = [NoPlan EXCEPT !.stop = plan.stop] /\ fifo' = <<>>
        /\ pc' = "undelivered" /\ back' = back
        BY <1>4, <1>11 DEF Terminal, Retire, Overrun
  <2>2. SupTypeOK'
        BY <1>3, <1>5, <1>6, <1>8, <2>1, PlanNext, EmptyFits, TypeParts, TypePartsNext DEF SInv, MaxTxs
  <2>3. ~plan'.on /\ ~plan'.slot /\ ~plan'.drop
        BY <2>1 DEF NoPlan
  <2>4. PlanOk' /\ DebtOk'
        BY <2>1, <2>3 DEF PlanOk, DebtOk
  <2> QED
      BY <1>9, <2>2, <2>4 DEF SInv
<1>12. CASE plan.on /\ ~Overrun(plan.txs + 1, q) /\ q = <<>>
  <2>1. /\ plan' = [NoPlan EXCEPT !.stop = plan.stop] /\ fifo' = <<>>
        /\ pc' = "delivered" /\ back' = back
        BY <1>4, <1>12 DEF Terminal, Retire
  <2>2. SupTypeOK'
        BY <1>3, <1>5, <1>6, <1>8, <2>1, PlanNext, EmptyFits, TypeParts, TypePartsNext DEF SInv, MaxTxs
  <2>3. ~plan'.on /\ ~plan'.slot /\ ~plan'.drop /\ plan'.stop = plan.stop
        BY <2>1 DEF NoPlan
  <2>4. PlanOk'
        BY <1>5, <1>12, <2>1, <2>3 DEF SInv, PlanOk
  <2>5. debt' = 0 /\ debt' = Owed(fifo)'
        BY <1>3, <1>12, <2>1, OwedEmpty DEF Owed, Life
  <2>6. DebtOk'
        BY <2>1, <2>3, <2>5 DEF DebtOk
  <2> QED
      BY <1>9, <2>2, <2>4, <2>6 DEF SInv
<1>13. CASE plan.on /\ ~Overrun(plan.txs + 1, q) /\ q # <<>>
  <2>1. /\ fifo' = q /\ pc' = "select" /\ back' = back
        /\ plan' = [plan EXCEPT !.txs = plan.txs + 1, !.root = TRUE, !.slot = FALSE,
                                !.draining = TRUE, !.drop = FALSE]
        BY <1>4, <1>13 DEF Terminal
  <2>2. plan.txs + 1 \in 0 .. MaxTxs - 1
        BY <1>7, <1>13 DEF Overrun, MaxTxs
  <2>3. SupTypeOK'
        BY <1>3, <1>5, <1>6, <1>8, <2>1, <2>2, PlanNext, TypeParts, TypePartsNext DEF SInv
  <2>4. /\ plan'.on /\ ~plan'.slot /\ ~plan'.drop /\ plan'.stop = plan.stop
        /\ plan'.txs = plan.txs + 1
        BY <1>6, <1>13, <2>1 DEF Plans
  <2>5. PlanOk'
        BY <1>5, <1>13, <2>1, <2>4 DEF SInv, PlanOk
  <2>6. debt' = Owed(fifo)' /\ debt' <= MaxFan * plan'.txs
        BY <1>3, <1>7, <1>13, <2>1, <2>4 DEF Owed, Life
  <2>7. DebtOk'
        BY <2>1, <2>4, <2>6 DEF DebtOk
  <2> QED
      BY <1>9, <2>3, <2>5, <2>7 DEF SInv
<1> QED
    BY <1>10, <1>11, <1>12, <1>13

\* A failed transaction: outside a plan the boundary is next; a plan is not
\* delivered.
LEMMA FailsKeeps ==
    ASSUME SInv, pc = "select", NEW q \in Seq(Sources), Len(q) <= QCap,
           ~plan.on => Owed(q) = 0,
           Terminal(FALSE, q), timers' \in {0, 1}, out' \in Banks, UNCHANGED debt, Fixed
    PROVE  SInv'
<1>1. /\ m7' = m7 /\ durable' = durable /\ stage' = stage /\ live' = live /\ started' = started
      /\ plan \in Plans /\ debt \in 0 .. MaxTxs * MaxFan
      BY TypeParts DEF Fixed, SInv
<1>2. Epoch' /\ RunOk'
      BY <1>1 DEF SInv, Epoch, RunOk
<1>3. CASE ~plan.on
  <2>1. fifo' = q /\ pc' = "boundary" /\ plan' = plan /\ back' \in {"head", "select"}
        BY <1>3 DEF Terminal
  <2>2. SupTypeOK'
        BY <1>1, <2>1, TypeParts, TypePartsNext DEF SInv
  <2>3. ~plan.slot /\ ~plan.drop /\ debt = 0
        BY <1>3, NothingOwed
  <2>4. PlanOk' /\ DebtOk'
        BY <1>3, <2>1, <2>3, Settled
  <2> QED
      BY <1>2, <2>2, <2>4 DEF SInv
<1>4. CASE plan.on
  <2>1. /\ plan' = [NoPlan EXCEPT !.stop = plan.stop] /\ fifo' = q
        /\ pc' = "undelivered" /\ back' = back
        BY <1>4 DEF Terminal, Retire
  <2>2. 0 \in 0 .. MaxTxs - 1
        BY DEF MaxTxs
  <2>3. SupTypeOK'
        BY <1>1, <2>1, <2>2, PlanNext, TypeParts, TypePartsNext DEF SInv
  <2>4. ~plan'.on /\ ~plan'.slot /\ ~plan'.drop
        BY <2>1 DEF NoPlan
  <2>5. PlanOk' /\ DebtOk'
        BY <2>1, <2>4 DEF PlanOk, DebtOk
  <2> QED
      BY <1>2, <2>3, <2>5 DEF SInv
<1> QED
    BY <1>3, <1>4

\* The event that fails is consumed, retained, or goes with the whole queue.
LEMMA EventFailsKeeps ==
    ASSUME SInv, NEW rest, NEW own, Serving(rest, own), EventFails(rest, fifo), Fixed
    PROVE  SInv'
<1>1. /\ fifo \in Seq(Sources) /\ Len(fifo) <= QCap /\ timers \in {0, 1} /\ out \in Banks
      /\ rest \in Seq(Sources) /\ Len(rest) <= QCap /\ pc = "select"
      BY TypeParts DEF SInv, Serving
<1>2. ~plan.on => Owed(fifo) = 0 /\ Owed(rest) = 0 /\ Owed(<<>>) = 0
  <2>1. ~plan.on => Owed(fifo) = 0
        BY <1>1, NothingOwed
  <2>2. Owed(rest) \in Nat /\ Owed(rest) = Owed(fifo) - own /\ own \in {0, 1}
        BY <1>1, OwedType DEF Serving
  <2> QED
      BY <2>1, <2>2, OwedEmpty
<1>3. PICK q \in {rest, fifo, <<>>} :
          Terminal(FALSE, q) /\ timers' \in {0, timers}
          /\ (out' = out \/ \E ok \in BOOLEAN : out' = Safe(ok)) /\ UNCHANGED debt
      BY DEF EventFails
<1>4. timers' \in {0, 1} /\ out' \in Banks
      BY <1>1, <1>3, SafeType
<1>5. q \in Seq(Sources) /\ Len(q) <= QCap /\ (~plan.on => Owed(q) = 0)
      BY <1>1, <1>2, <1>3, EmptyFits
<1> QED
    BY <1>1, <1>3, <1>4, <1>5, FailsKeeps

\* The three places an event may come from.
LEMMA ServeSlotKeeps ==
    ASSUME SInv, ServeSlot
    PROVE  SInv'
<1>1. pc = "select" /\ Serving(fifo, 0) /\ out \in Banks
      BY ServingFront, TypeParts DEF ServeSlot, SlotFails, SlotCommits, Slot, SInv
<1>2. CASE SlotFails
      BY <1>1, <1>2, EventFailsKeeps DEF SlotFails
<1>3. ASSUME NEW n \in Fan, NEW arms \in {0, 1}, NEW bank \in Driven, SlotCommits(n, arms, bank)
      PROVE  SInv'
      BY <1>1, <1>3, DrivenType, CommitsKeeps DEF SlotCommits
<1> QED
    BY <1>2, <1>3 DEF ServeSlot

\* The head of the queue.
LEMMA ServeQueueKeeps ==
    ASSUME SInv, ServeQueue
    PROVE  SInv'
<1>1. PICK own : own = IF Head(fifo) = "life" THEN 1 ELSE 0
      OBVIOUS
<1>2. pc = "select" /\ Serving(Tail(fifo), own) /\ out \in Banks
      BY <1>1, ServingHead, TypeParts DEF ServeQueue, QueueFails, QueueCommits, Queued, SInv
<1>3. CASE QueueFails
      BY <1>2, <1>3, EventFailsKeeps DEF QueueFails
<1>4. ASSUME NEW n \in Fan, NEW arms \in {0, 1}, NEW bank \in Driven, QueueCommits(n, arms, bank)
      PROVE  SInv'
      BY <1>1, <1>2, <1>4, DrivenType, CommitsKeeps DEF QueueCommits
<1> QED
    BY <1>3, <1>4 DEF ServeQueue

\* An external event, admitted or not.
LEMMA ServeExternalKeeps ==
    ASSUME SInv, ServeExternal
    PROVE  SInv'
<1>1. /\ pc = "select" /\ Serving(fifo, 0) /\ out \in Banks /\ timers \in {0, 1}
      /\ fifo \in Seq(Sources) /\ Len(fifo) <= QCap
      BY ServingFront, TypeParts DEF ServeExternal, ExternalFails, ExternalCommits, Idle, SInv
<1>2. CASE EventFails(fifo, fifo) /\ Fixed
      BY <1>1, <1>2, EventFailsKeeps
<1>3. CASE Terminal(FALSE, fifo) /\ UNCHANGED <<timers, out, debt>> /\ Fixed
  <2>1. ~plan.on => Owed(fifo) = 0
        BY <1>1, NothingOwed
  <2> QED
      BY <1>1, <1>3, <2>1, FailsKeeps
<1>4. ASSUME NEW n \in Fan, NEW arms \in {0, 1}, NEW bank \in Driven, ExternalCommits(n, arms, bank)
      PROVE  SInv'
      BY <1>1, <1>4, DrivenType, CommitsKeeps DEF ExternalCommits
<1> QED
    BY <1>2, <1>3, <1>4 DEF ServeExternal, ExternalFails

\* A timer becomes an event, which is nobody's cause.
LEMMA TimerFiresKeeps ==
    ASSUME SInv, TimerFires
    PROVE  SInv'
<1>1. /\ fifo \in Seq(Sources) /\ Len(fifo) < QCap /\ ~plan.on /\ pc \in {"head", "select"}
      /\ QCap \in Nat
      BY TypeParts, Bounds DEF TimerFires, SInv
<1>2. ~plan.slot /\ ~plan.drop /\ debt = 0 /\ Owed(fifo) = 0
      BY <1>1, NothingOwed
<1>3. PICK e : e = <<"timer">>
      OBVIOUS
<1>4. e \in Seq(Sources) /\ Len(e) = 1 /\ \A i \in 1 .. Len(e) : e[i] = "timer"
      BY <1>3 DEF Sources
<1>5. "timer" \in Sources
      BY DEF Sources
<1>6. fifo \o e \in Seq(Sources) /\ Len(fifo \o e) = Len(fifo) + 1 /\ Owed(fifo \o e) = 0
      BY <1>1, <1>2, <1>4, <1>5, OwedJoined
<1>7. fifo' = fifo \o e
      BY <1>1, <1>3 DEF TimerFires
<1>8. SupTypeOK'
      BY <1>1, <1>6, <1>7, TypeParts, TypePartsNext DEF TimerFires, SInv
<1>9. Epoch' /\ RunOk'
      BY DEF TimerFires, SInv, Epoch, RunOk
<1>10. PlanOk' /\ DebtOk'
       BY <1>1, <1>2, <1>6, <1>7, Settled DEF TimerFires
<1> QED
    BY <1>8, <1>9, <1>10 DEF SInv

\* A step that changes nothing here but the stage.
LEMMA StageOnlyKeeps ==
    ASSUME SInv, stage' \in Stages,
           UNCHANGED <<m7, durable, live, fifo, timers, out, plan, debt, started, pc, back>>
    PROVE  SInv'
<1>1. SupTypeOK'
      BY TypeParts, TypePartsNext DEF SInv
<1>2. Epoch' /\ RunOk'
      BY DEF SInv, Epoch, RunOk
<1>3. PlanOk' /\ DebtOk'
      BY DEF SInv, PlanOk, DebtOk, Owed, Life
<1> QED
    BY <1>1, <1>2, <1>3 DEF SInv

\* A step that changes nothing.
LEMMA StutterKeeps ==
    ASSUME SInv, UNCHANGED svars
    PROVE  SInv'
BY StageOnlyKeeps, TypeParts DEF SInv, svars

\* A caller moves the control between two steps, with no plan in progress.
LEMMA ControlKeeps ==
    ASSUME SInv, ~plan.on, pc # "undelivered",
           pc' \in {"head", "select", "boundary"}, back' \in {"head", "select", "reply"},
           UNCHANGED <<m7, durable, stage, live, fifo, timers, out, plan, debt, started>>
    PROVE  SInv'
<1>1. SupTypeOK'
      BY TypeParts, TypePartsNext DEF SInv
<1>2. Epoch' /\ RunOk'
      BY DEF SInv, Epoch, RunOk
<1>3. PlanOk' /\ DebtOk'
      BY NothingOwed, Settled
<1> QED
    BY <1>1, <1>2, <1>3 DEF SInv

-----------------------------------------------------------------------------
(* Vendor operations, between two runs of a loop or in its idle loop.      *)

\* Where they are called: no plan is in progress there.
Between == pc = "head" \/ (pc = "select" /\ ~plan.on)

\* And what the caller makes of the control.
AtHead ==
    /\ Between /\ pc' \in {"head", "select", "boundary"}
    /\ back' \in {"head", "select", "reply"}

\* Whatever is done there leaves plan and debt as they were.
LEMMA HeadKeeps ==
    ASSUME SInv, AtHead, UNCHANGED <<plan, debt, started>>,
           m7' \in Managers, durable' \in BOOLEAN, stage' \in Stages, live' \in Gates,
           fifo' \in Seq(Sources), Len(fifo') <= QCap, Owed(fifo') = 0,
           timers' \in {0, 1}, out' \in Banks,
           m7'.inc = live'.inc, m7'.mode = "running" => m7.mode = "running" /\ live' = live
    PROVE  SInv'
<1>1. ~plan.on /\ ~plan.slot /\ ~plan.drop /\ debt = 0
      BY NothingOwed DEF AtHead, Between, SInv, PlanOk
<1>2. SupTypeOK'
      BY TypeParts, TypePartsNext DEF AtHead, SInv
<1>3. Epoch' /\ RunOk'
      BY DEF SInv, Epoch, RunOk
<1>4. pc' \notin {"delivered", "undelivered"}
      BY DEF AtHead
<1>5. PlanOk' /\ DebtOk'
      BY <1>1, <1>4, Settled
<1> QED
    BY <1>2, <1>3, <1>5 DEF SInv

\* What holds there.
LEMMA HeadState ==
    ASSUME SInv, Between
    PROVE  /\ m7 \in Managers /\ durable \in BOOLEAN /\ stage \in Stages /\ live \in Gates
           /\ fifo \in Seq(Sources) /\ Len(fifo) <= QCap /\ Owed(fifo) = 0 /\ ~plan.on
           /\ timers \in {0, 1} /\ out \in Banks /\ m7.inc = live.inc
BY TypeParts, NothingOwed DEF Between, SInv, Epoch, PlanOk

\* The mailbox.
LEMMA ReceiveKeeps ==
    ASSUME SInv, AtHead, NEW cmd \in Commands, NEW obj \in Objects, Receive(cmd, obj)
    PROVE  SInv' /\ m7'.mode = m7.mode
<1>1. m7' \in Managers /\ m7'.mode = m7.mode /\ m7'.inc = m7.inc
      BY HeadState DEF AtHead, Receive, Managers
<1>2. SInv'
      BY <1>1, HeadState, HeadKeeps DEF AtHead, Receive
<1> QED
    BY <1>1, <1>2

\* m7_manager_init.
LEMMA ManagerInitKeeps ==
    ASSUME SInv, pc = "head", NEW qi \in BOOLEAN, ManagerInit(qi)
    PROVE  SInv' /\ m7'.mode = m7.mode
<1>1. PICK n : n = [m7 EXCEPT !.qi = qi, !.pending = FALSE]
      OBVIOUS
<1>2. n \in Managers /\ n.mode = m7.mode /\ n.inc = m7.inc
      BY <1>1, HeadState DEF Between, Managers
<1>3. m7' \in Managers /\ m7'.mode = m7.mode /\ m7'.inc = m7.inc
      BY <1>1, <1>2, FinishedType DEF ManagerInit
<1>4. AtHead
      BY TypeParts DEF Between, AtHead, ManagerInit, SInv
<1>5. SInv'
      BY <1>3, <1>4, HeadState, HeadKeeps DEF Between, ManagerInit
<1> QED
    BY <1>3, <1>5

\* m7_force_stop and m7_reset.
LEMMA ForcedKeeps ==
    ASSUME SInv, pc = "head", NEW ok \in BOOLEAN, NEW adv \in BOOLEAN,
           ForceStop(ok, adv) \/ Reset(ok, adv)
    PROVE  /\ SInv' /\ m7'.mode # "running"
           /\ fifo' = <<>> /\ timers' = 0 /\ (out'.low \/ out'.fatal)
<1>1. PICK mode : mode \in {"idle", "stopped"} /\
          m7' = Finished([m7 EXCEPT !.pending = FALSE, !.safe = ok, !.mode = mode,
                                    !.inc = IF adv THEN @ + 1 ELSE @])
  <2>1. m7 \in Managers
        BY HeadState DEF Between
  <2>2. CASE ForceStop(ok, adv)
        BY <2>1, <2>2 DEF ForceStop, Managers
  <2>3. CASE Reset(ok, adv)
        BY <2>1, <2>3 DEF Reset, Managers
  <2> QED
      BY <2>2, <2>3
<1>2. /\ Advance(adv) /\ out' = Safe(ok) /\ fifo' = <<>> /\ timers' = 0
      /\ UNCHANGED <<durable, stage, plan, debt, started, pc, back>>
      BY DEF ForceStop, Reset
<1>3. m7' \in Managers /\ m7'.mode = mode /\ m7'.inc = live'.inc /\ live' \in Gates
      BY <1>1, <1>2, StoppedType DEF Modes
<1>4. out' \in Banks /\ (out'.low \/ out'.fatal)
      BY <1>2, HeadState, SafeType DEF Between
<1>5. AtHead
      BY <1>2, TypeParts DEF Between, AtHead, SInv
<1>6. SInv'
      BY <1>1, <1>2, <1>3, <1>4, <1>5, HeadState, EmptyFits, OwedEmpty, HeadKeeps DEF Between
<1> QED
    BY <1>1, <1>2, <1>3, <1>4, <1>6

\* The laboratory word that fills the queue, with nobody's causes.
LEMMA FillKeeps ==
    ASSUME SInv, pc = "head", Fill
    PROVE  /\ SInv'
           /\ (\A i \in DOMAIN fifo : fifo[i] = "fill") => \A i \in DOMAIN fifo' : fifo'[i] = "fill"
<1>1. /\ fifo \in Seq(Sources) /\ Len(fifo) <= QCap /\ Owed(fifo) = 0
      /\ QCap \in Nat /\ "fill" \in Sources
      BY HeadState, Bounds DEF Between, Sources
<1>2. PICK n \in Nat : n = QCap - Len(fifo)
      BY <1>1
<1>3. PICK e : e = [i \in 1 .. n |-> "fill"]
      OBVIOUS
<1>4. e \in Seq(Sources) /\ Len(e) = n /\ \A i \in 1 .. Len(e) : e[i] = "fill"
      BY <1>1, <1>3, EqualEvents
<1>5. fifo' = fifo \o e
      BY <1>2, <1>3 DEF Fill
<1>6. fifo' \in Seq(Sources) /\ Len(fifo') = QCap /\ Owed(fifo') = 0
      BY <1>1, <1>2, <1>4, <1>5, OwedJoined
<1>7. AtHead /\ m7' = m7 /\ live' = live
      BY TypeParts DEF Between, AtHead, Fill, SInv
<1>8. SInv'
      BY <1>1, <1>6, <1>7, HeadState, HeadKeeps DEF Between, Fill
<1>9. (\A i \in DOMAIN fifo : fifo[i] = "fill") => \A i \in DOMAIN fifo' : fifo'[i] = "fill"
      BY <1>1, <1>4, <1>5
<1> QED
    BY <1>8, <1>9

\* The stage of a supervisor that has none.
LEMMA NoStageType ==
    ASSUME live \in Gates
    PROVE  NoStage \in Stages /\ ~NoStage.open /\ NoStage.good /\ NoStage.got = 0
<1>1. (CHOOSE p \in Pkgs : TRUE) \in Pkgs
      BY DEF Gates
<1> QED
    BY <1>1, Bounds DEF NoStage, Stages

\* Steps that only work on the stage.
LEMMA StageKeeps ==
    ASSUME SInv, AtHead, stage' \in Stages,
           UNCHANGED <<m7, durable, live, fifo, timers, out, plan, debt, started>>
    PROVE  SInv'
BY HeadState, HeadKeeps DEF AtHead

\* m7_deploy_begin.
LEMMA DeployBeginKeeps ==
    ASSUME SInv, AtHead, NEW p \in Pkgs, NEW r, DeployBegin(p, r)
    PROVE  SInv'
<1>1. [NoStage EXCEPT !.open = TRUE, !.want = p] \in Stages /\ stage \in Stages
      BY HeadState, NoStageType DEF AtHead, Stages
<1> QED
    BY <1>1, StageKeeps DEF DeployBegin

\* m7_deploy_chunk.
LEMMA DeployChunkKeeps ==
    ASSUME SInv, AtHead, NEW good \in BOOLEAN, NEW r, DeployChunk(good, r)
    PROVE  SInv'
<1>1. stage \in Stages /\ Chunks \in Nat
      BY HeadState, Bounds DEF AtHead
<1>2. r = "ok" => stage.got # Chunks
      BY DEF DeployChunk
<1>3. PICK more \in BOOLEAN : more = (stage.good /\ good)
      BY <1>1 DEF Stages
<1>4. /\ r = "ok" => stage' = [stage EXCEPT !.got = @ + 1, !.good = more]
      /\ r # "ok" => stage' = stage
      BY <1>3 DEF DeployChunk
<1>5. [stage EXCEPT !.got = @ + 1, !.good = more] \in Stages \/ stage.got = Chunks
  <2>1. stage.got \in 0 .. Chunks
        BY <1>1 DEF Stages
  <2>2. stage.got # Chunks => stage.got + 1 \in 0 .. Chunks
        BY <1>1, <2>1
  <2>3. ASSUME NEW g \in 0 .. Chunks
        PROVE  [stage EXCEPT !.got = g, !.good = more] \in Stages
        BY <1>1 DEF Stages
  <2> QED
      BY <2>2, <2>3
<1>6. stage' \in Stages
      BY <1>1, <1>2, <1>4, <1>5
<1> QED
    BY <1>6, StageKeeps DEF DeployChunk

\* m7_deploy_abort.
LEMMA DeployAbortKeeps ==
    ASSUME SInv, AtHead, DeployAbort
    PROVE  SInv'
<1>1. stage' \in Stages
      BY HeadState, NoStageType DEF AtHead, DeployAbort
<1> QED
    BY <1>1, StageKeeps DEF DeployAbort

\* A refused load that has overwritten the package window.
LEMMA ClobberKeeps ==
    ASSUME SInv, pc = "head", Clobber
    PROVE  SInv'
<1>1. stage' \in Stages /\ AtHead
      BY HeadState, TypeParts DEF Between, AtHead, Clobber, Stages, SInv
<1> QED
    BY <1>1, StageKeeps DEF Clobber

\* A seal makes the bank safe once it has looked at the state.
LEMMA DeploySealKeeps ==
    ASSUME SInv, AtHead, NEW r, DeploySeal(r)
    PROVE  SInv' /\ m7'.mode = m7.mode /\ (out' = out \/ out'.low \/ out'.fatal)
<1>1. m7 \in Managers /\ stage \in Stages /\ out \in Banks
      BY HeadState DEF AtHead
<1>2. \A ok \in BOOLEAN : [m7 EXCEPT !.safe = ok] \in Managers
                          /\ [m7 EXCEPT !.safe = ok].mode = m7.mode
                          /\ [m7 EXCEPT !.safe = ok].inc = m7.inc
      BY <1>1 DEF Managers
<1>3. [stage EXCEPT !.sealed = (r = "ok")] \in Stages
  <2>1. PICK s \in BOOLEAN : s = (r = "ok")
        OBVIOUS
  <2>2. [stage EXCEPT !.sealed = s] \in Stages
        BY <1>1 DEF Stages
  <2> QED
      BY <2>1, <2>2
<1>4. \A ok \in BOOLEAN : Safe(ok) \in Banks /\ (Safe(ok).low \/ Safe(ok).fatal)
      BY <1>1, SafeType
<1>5. \/ UNCHANGED <<stage, m7, out>>
      \/ \E ok \in BOOLEAN : /\ out' = Safe(ok) /\ m7' = [m7 EXCEPT !.safe = ok]
                             /\ stage' = [stage EXCEPT !.sealed = (r = "ok")]
      BY DEF DeploySeal
<1>6. /\ m7' \in Managers /\ m7'.mode = m7.mode /\ m7'.inc = m7.inc
      /\ stage' \in Stages /\ out' \in Banks
      /\ out' = out \/ out'.low \/ out'.fatal
      BY <1>1, <1>2, <1>3, <1>4, <1>5
<1>7. SInv'
      BY <1>6, HeadState, HeadKeeps DEF DeploySeal, AtHead
<1> QED
    BY <1>6, <1>7

\* What a publication installs.
LEMMA PublishType ==
    ASSUME SInv, Between, m7.inc < MaxInc, NEW p \in Pkgs, NEW known \in BOOLEAN,
           Publish(p, known)
    PROVE  /\ m7' \in Managers /\ durable' \in BOOLEAN /\ stage' \in Stages /\ live' \in Gates
           /\ fifo' = <<>> /\ timers' = 0 /\ out' \in Banks
           /\ m7'.inc = live'.inc /\ m7'.mode = "idle" /\ live'.inc = live.inc + 1 /\ live'.pkg = p
           /\ out'.low /\ out'.inhibited /\ ~stage'.open
<1>1. m7 \in Managers /\ live \in Gates /\ out \in Banks /\ m7.inc = live.inc /\ MaxInc \in Nat
      BY HeadState, Bounds
<1>2. Safe(TRUE) \in Banks /\ Safe(TRUE).low /\ Safe(TRUE).inhibited
      BY <1>1, SafeType
<1>3. m7.inc + 1 \in 1 .. MaxInc
      BY <1>1 DEF Managers
<1>4. Initial(m7.inc + 1) \in Managers /\ [pkg |-> p, inc |-> m7.inc + 1] \in Gates
      BY <1>3 DEF Initial, Managers, Gates, Modes, Commands, Objects
<1>5. NoStage \in Stages /\ ~NoStage.open
      BY <1>1, NoStageType
<1> QED
    BY <1>1, <1>2, <1>4, <1>5 DEF Publish, Initial

\* An activation publishes what the sealed stage declared, or changes nothing
\* but the bank.
LEMMA DeployActivateKeeps ==
    ASSUME SInv, AtHead, NEW r, DeployActivate(r)
    PROVE  /\ SInv'
           /\ m7'.mode = "running" => m7.mode = "running" /\ UNCHANGED durable
           /\ \/ m7'.mode = m7.mode /\ UNCHANGED <<live, fifo, timers, stage, durable>>
              \/ /\ fifo' = <<>> /\ timers' = 0 /\ m7'.mode = "idle"
                 /\ stage.open /\ stage.sealed /\ stage.good /\ ~stage'.open
                 /\ live'.pkg = stage.want /\ live'.inc = live.inc + 1 /\ out'.inhibited
           /\ out' = out \/ out'.low \/ out'.fatal
           /\ r = "ok" => live'.pkg = stage.want /\ durable' /\ out'.inhibited /\ ~stage'.open
<1>1. /\ m7 \in Managers /\ stage \in Stages /\ out \in Banks /\ live \in Gates
      /\ fifo \in Seq(Sources) /\ Len(fifo) <= QCap /\ timers \in {0, 1} /\ durable \in BOOLEAN
      /\ Owed(fifo) = 0 /\ m7.inc = live.inc /\ Between /\ stage.want \in Pkgs
      BY HeadState DEF AtHead, Stages
<1>2. \A ok \in BOOLEAN : [m7 EXCEPT !.safe = ok] \in Managers
                          /\ [m7 EXCEPT !.safe = ok].mode = m7.mode
                          /\ [m7 EXCEPT !.safe = ok].inc = m7.inc
      BY <1>1 DEF Managers
<1>3. \A ok \in BOOLEAN : Safe(ok) \in Banks /\ (Safe(ok).low \/ Safe(ok).fatal)
      BY <1>1, SafeType
<1>4. UNCHANGED <<plan, debt, started>>
      BY DEF DeployActivate
<1>5. CASE UNCHANGED <<m7, durable, live, fifo, timers, stage, out>> /\ r # "ok"
      BY <1>1, <1>4, <1>5, HeadKeeps
<1>6. ASSUME NEW ok \in BOOLEAN, NEW safe \in BOOLEAN, r # "ok",
             out' = Safe(ok), m7' = [m7 EXCEPT !.safe = safe],
             UNCHANGED <<durable, live, fifo, timers, stage>>
      PROVE  /\ SInv' /\ m7'.mode = m7.mode
             /\ out' = out \/ out'.low \/ out'.fatal
      BY <1>1, <1>2, <1>3, <1>4, <1>6, HeadKeeps
<1>7. ASSUME NEW known \in BOOLEAN, m7.inc < MaxInc, Publish(stage.want, known)
      PROVE  /\ SInv' /\ fifo' = <<>> /\ timers' = 0 /\ m7'.mode = "idle"
             /\ ~stage'.open /\ live'.pkg = stage.want /\ live'.inc = live.inc + 1
             /\ out'.low /\ out'.inhibited /\ durable' = known
  <2>1. /\ m7' \in Managers /\ durable' \in BOOLEAN /\ stage' \in Stages /\ live' \in Gates
        /\ fifo' = <<>> /\ timers' = 0 /\ out' \in Banks
        /\ m7'.inc = live'.inc /\ m7'.mode = "idle" /\ live'.inc = live.inc + 1
        /\ live'.pkg = stage.want /\ out'.low /\ out'.inhibited /\ ~stage'.open
        BY <1>1, <1>7, PublishType
  <2>2. SInv'
        BY <1>4, <2>1, EmptyFits, OwedEmpty, HeadKeeps
  <2>3. durable' = known
        BY <1>7 DEF Publish
  <2> QED
      BY <2>1, <2>2, <2>3
<1>8. \/ UNCHANGED <<m7, durable, live, fifo, timers, stage, out>> /\ r # "ok"
      \/ \E ok \in BOOLEAN, safe \in BOOLEAN :
            /\ r # "ok" /\ out' = Safe(ok) /\ m7' = [m7 EXCEPT !.safe = safe]
            /\ UNCHANGED <<durable, live, fifo, timers, stage>>
      \/ \E known \in BOOLEAN :
            /\ stage.open /\ stage.sealed /\ stage.good /\ m7.inc < MaxInc
            /\ Publish(stage.want, known) /\ (r = "ok" => known)
  <2> DEFINE Fit == durable /\ stage.open /\ stage.sealed /\ ~m7.pending /\ Quiescent
             Refusal(why, ok, safe) ==
                /\ r = why /\ out' = Safe(ok) /\ m7' = [m7 EXCEPT !.safe = safe]
                /\ UNCHANGED <<durable, live, fifo, timers, stage>>
  <2>1. \/ r \in {"unknown", "state"} /\ UNCHANGED <<m7, durable, live, fifo, timers, stage, out>>
        \/ \E ok \in BOOLEAN, safe \in BOOLEAN, why \in {"media", "digest", "candidate", "storage"} :
              Refusal(why, ok, safe)
        \/ Fit /\ DigestMatches /\ m7.inc < MaxInc /\ r = "ok" /\ Publish(stage.want, TRUE)
        \/ Fit /\ DigestMatches /\ m7.inc < MaxInc /\ r = "unknown" /\ Publish(stage.want, FALSE)
        BY DEF DeployActivate
  <2> QED
      BY <2>1 DEF DigestMatches
<1> QED
    BY <1>1, <1>5, <1>6, <1>7, <1>8

-----------------------------------------------------------------------------
(* What a stopped resource may hold, and what a running one needs.         *)

\* Nothing runs over an activation whose durability is unknown.
RunDurable == m7.mode = "running" => durable

\* Nothing but filler is queued.
Inert == \A i \in DOMAIN fifo : fifo[i] = "fill"

\* StoppedIsQuiet, at the boundary too.
Quiet ==
    m7.mode # "running" /\ ~plan.on /\ pc \notin {"delivered", "undelivered"} =>
        timers = 0 /\ Inert /\ (out.low \/ out.fatal)

\* The empty queue, and what is left of an inert one.
LEMMA InertEmpty == fifo' = <<>> => Inert'
BY DEF Inert

\* Behind filler there is filler.
LEMMA InertTail ==
    ASSUME fifo \in Seq(Sources), Inert, fifo # <<>>
    PROVE  Head(fifo) = "fill" /\ \A i \in DOMAIN Tail(fifo) : Tail(fifo)[i] = "fill"
<1>1. Len(fifo) > 0 /\ Len(Tail(fifo)) = Len(fifo) - 1 /\ Tail(fifo) \in Seq(Sources)
      BY OwedTail
<1>2. \A i \in 1 .. Len(fifo) - 1 : Tail(fifo)[i] = fifo[i + 1]
      OBVIOUS
<1> QED
    BY <1>1, <1>2 DEF Inert

\* The steps of a plan are between two boundaries, and keep the mode.
LEMMA BoundaryQuiet ==
    ASSUME SInv, Quiet, Boundary
    PROVE  (RunDurable => RunDurable') /\ Quiet'
<1> DEFINE m == [m7 EXCEPT !.pending = FALSE, !.obj = "raw"]
<1>1. /\ m7 \in Managers /\ out \in Banks /\ m \in Managers /\ m.mode = m7.mode
      /\ pc = "boundary" /\ ~plan.on
      BY TypeParts DEF Boundary, SInv, PlanOk, Managers, Objects
<1>2. ASSUME NEW rdy \in BOOLEAN, m7' \in {m7, Finished(m)},
             UNCHANGED <<durable, stage, live, fifo, timers, out, plan, debt, started>>
      PROVE  (RunDurable => RunDurable') /\ Quiet'
  <2>1. m7'.mode = m7.mode
        BY <1>1, <1>2, FinishedType
  <2> QED
      BY <1>1, <1>2, <2>1 DEF RunDurable, Quiet, Inert
<1>3. ASSUME NEW stop \in BOOLEAN, NEW n, BeginPlan(stop, n, fifo),
             n.mode = "running" => m7.mode = "running"
      PROVE  (RunDurable => RunDurable') /\ Quiet'
  <2>1. plan'.on
        BY <1>3 DEF BeginPlan, NoPlan
  <2> QED
      BY <1>3, <2>1 DEF BeginPlan, RunDurable, Quiet
<1>4. ASSUME NEW ok \in BOOLEAN, NEW safe \in BOOLEAN,
             out' = SafeFrom(Prepared(ok), safe), Undelivered(m, safe)
      PROVE  (RunDurable => RunDurable') /\ Quiet'
  <2>1. out'.low \/ out'.fatal
        BY <1>1, <1>4, SafeType
  <2>2. m7'.mode = "stopped"
    <3>1. [m EXCEPT !.mode = "stopped", !.safe = safe] \in Managers
          BY <1>1 DEF Managers, Modes
    <3> QED
        BY <1>1, <1>4, <3>1, FinishedType DEF Undelivered, Managers
  <2> QED
      BY <1>4, <2>1, <2>2, InertEmpty DEF Undelivered, RunDurable, Quiet
<1>5. [m EXCEPT !.mode = "stopping"].mode = "stopping"
      BY <1>1 DEF Managers
<1>6. \/ m7' \in {m7, Finished(m)} /\ UNCHANGED <<durable, stage, live, fifo, timers, out, plan, debt, started>>
      \/ BeginPlan(FALSE, m, fifo)
      \/ BeginPlan(TRUE, [m EXCEPT !.mode = "stopping"], fifo)
      \/ \E ok \in BOOLEAN, safe \in BOOLEAN :
            out' = SafeFrom(Prepared(ok), safe) /\ Undelivered(m, safe)
      BY BoundaryCases
<1> HIDE DEF m
<1> QED
    BY <1>1, <1>2, <1>3, <1>4, <1>5, <1>6

\* A delivered lifecycle runs over a known activation; a stop, or a failure, leaves silence.
LEMMA DeliverQuiet ==
    ASSUME SInv, Quiet, DeliverFails \/ DeliverStart \/ DeliverStop
    PROVE  (RunDurable => RunDurable') /\ Quiet'
<1>1. CASE DeliverFails
  <2>1. m7 \in Managers /\ out \in Banks
        BY TypeParts DEF SInv
  <2>2. PICK ok \in BOOLEAN : out' = Safe(ok) /\ Undelivered(m7, ok)
        BY <1>1 DEF DeliverFails
  <2>3. out'.low \/ out'.fatal
        BY <2>1, <2>2, SafeType
  <2>4. m7'.mode = "stopped"
    <3>1. [m7 EXCEPT !.mode = "stopped", !.safe = ok] \in Managers
          BY <2>1 DEF Managers, Modes
    <3> QED
        BY <2>1, <2>2, <3>1, FinishedType DEF Undelivered, Managers
  <2> QED
      BY <2>2, <2>3, <2>4, InertEmpty DEF Undelivered, RunDurable, Quiet
<1>2. CASE DeliverStart
  <2>1. m7 \in Managers /\ [m7 EXCEPT !.mode = "running", !.safe = FALSE] \in Managers
        BY TypeParts DEF SInv, Managers, Modes
  <2>2. m7'.mode = "running"
        BY <1>2, <2>1, FinishedType DEF DeliverStart, Managers
  <2> QED
      BY <1>2, <2>2, DeliverStartKeeps DEF RunDurable, Quiet
<1>3. CASE DeliverStop
      BY <1>3, DeliverStopKeeps, InertEmpty DEF RunDurable, Quiet
<1> QED
    BY <1>1, <1>2, <1>3

\* A terminal transaction of a plan leaves the plan, or one of its two ends.
LEMMA PlanTerminal ==
    ASSUME plan \in Plans, NEW committed \in BOOLEAN, NEW q, Terminal(committed, q), plan.on
    PROVE  plan'.on \/ pc' \in {"delivered", "undelivered"}
<1>1. CASE pc' \in {"delivered", "undelivered"}
      BY <1>1
<1>2. CASE pc' \notin {"delivered", "undelivered"}
  <2>1. /\ plan' = [plan EXCEPT !.txs = plan.txs + 1, !.root = TRUE, !.slot = FALSE,
                                !.draining = TRUE, !.drop = FALSE]
        BY <1>2 DEF Terminal, Retire
  <2> QED
      BY <2>1 DEF Plans
<1> QED
    BY <1>1, <1>2

\* Transactions: of a plan, of a running resource, or of a stopped one, whose
\* queue has nothing a gate accepts.
LEMMA PlanTxQuiet ==
    ASSUME SInv, NEW committed \in BOOLEAN, NEW q, Terminal(committed, q), Fixed,
           plan.on \/ m7.mode = "running"
    PROVE  (RunDurable => RunDurable') /\ Quiet'
<1>1. plan \in Plans /\ m7' = m7 /\ durable' = durable
      BY TypeParts DEF SInv, Fixed
<1>2. CASE plan.on
  <2>1. plan'.on \/ pc' \in {"delivered", "undelivered"}
        BY <1>1, <1>2, PlanTerminal
  <2> QED
      BY <1>1, <2>1 DEF RunDurable, Quiet
<1>3. CASE m7.mode = "running"
      BY <1>1, <1>3 DEF RunDurable, Quiet
<1> QED
    BY <1>2, <1>3

\* A failed transaction adds nothing to what was quiet.
LEMMA FailQuiet ==
    ASSUME SInv, Quiet, pc = "select", NEW rest, EventFails(rest, fifo), Fixed,
           Inert => \A i \in DOMAIN rest : rest[i] = "fill"
    PROVE  (RunDurable => RunDurable') /\ Quiet'
<1>1. PICK q \in {rest, fifo, <<>>} :
          Terminal(FALSE, q) /\ timers' \in {0, timers}
          /\ (out' = out \/ \E ok \in BOOLEAN : out' = Safe(ok))
      BY DEF EventFails
<1>2. CASE plan.on \/ m7.mode = "running"
      BY <1>1, <1>2, PlanTxQuiet
<1>3. CASE ~plan.on /\ m7.mode # "running"
  <2>1. timers = 0 /\ Inert /\ (out.low \/ out.fatal)
        BY <1>3 DEF Quiet
  <2>2. fifo' = q /\ plan' = plan /\ m7' = m7 /\ durable' = durable
        BY <1>1, <1>3 DEF Terminal, Fixed
  <2>3. Inert'
        BY <1>1, <2>1, <2>2 DEF Inert
  <2>4. out \in Banks
        BY TypeParts DEF SInv
  <2>5. timers' = 0 /\ (out'.low \/ out'.fatal)
        BY <1>1, <2>1, <2>4, SafeType
  <2> QED
      BY <2>2, <2>3, <2>5 DEF RunDurable, Quiet
<1> QED
    BY <1>2, <1>3

\* Whatever is served.
LEMMA ServeQuiet ==
    ASSUME SInv, Quiet, ServeSlot \/ ServeQueue \/ ServeExternal
    PROVE  (RunDurable => RunDurable') /\ Quiet'
<1>1. pc = "select" /\ fifo \in Seq(Sources) /\ (plan.slot => plan.on)
      BY TypeParts DEF ServeSlot, ServeQueue, ServeExternal, SlotFails, SlotCommits, Slot,
         QueueFails, QueueCommits, Queued, ExternalFails, ExternalCommits, Idle, SInv, PlanOk
<1>2. CASE SlotFails \/ \E n \in Fan, arms \in {0, 1}, bank \in Driven : SlotCommits(n, arms, bank)
  <2>1. plan.on /\ Fixed
        BY <1>1, <1>2 DEF SlotFails, SlotCommits, Slot
  <2>2. \E c \in BOOLEAN : \E q : Terminal(c, q)
        BY <1>2 DEF SlotFails, SlotCommits, EventFails, Commits
  <2> QED
      BY <2>1, <2>2, PlanTxQuiet
<1>3. CASE QueueFails
  <2>1. Inert => \A i \in DOMAIN Tail(fifo) : Tail(fifo)[i] = "fill"
        BY <1>1, <1>3, InertTail DEF QueueFails, Queued
  <2> QED
      BY <1>1, <1>3, <2>1, FailQuiet DEF QueueFails
<1>4. CASE \E n \in Fan, arms \in {0, 1}, bank \in Driven : QueueCommits(n, arms, bank)
  <2>1. Fixed /\ fifo # <<>> /\ Head(fifo) # "fill"
        BY <1>4 DEF QueueCommits, Queued
  <2>2. plan.on \/ m7.mode = "running"
        BY <1>1, <2>1, InertTail DEF Quiet
  <2>3. \E q : Terminal(TRUE, q)
        BY <1>4 DEF QueueCommits, Commits
  <2> QED
      BY <2>1, <2>2, <2>3, PlanTxQuiet
<1>5. CASE ExternalFails
  <2>1. CASE EventFails(fifo, fifo)
        BY <1>1, <1>5, <2>1, FailQuiet DEF ExternalFails, Inert
  <2>2. CASE Terminal(FALSE, fifo) /\ UNCHANGED <<timers, out, debt>>
    <3>1. CASE plan.on
          BY <1>5, <2>2, <3>1, PlanTxQuiet DEF ExternalFails
    <3>2. CASE ~plan.on
          BY <1>1, <1>5, <2>2, <3>2 DEF ExternalFails, Terminal, Fixed, RunDurable, Quiet, Inert
    <3> QED
        BY <3>1, <3>2
  <2> QED
      BY <1>5, <2>1, <2>2 DEF ExternalFails
<1>6. CASE \E n \in Fan, arms \in {0, 1}, bank \in Driven : ExternalCommits(n, arms, bank)
  <2>1. Fixed /\ m7.mode = "running" /\ \E q : Terminal(TRUE, q)
        BY <1>6 DEF ExternalCommits, Admitted, Commits
  <2> QED
      BY <2>1, PlanTxQuiet
<1> QED
    BY <1>2, <1>3, <1>4, <1>5, <1>6 DEF ServeSlot, ServeQueue, ServeExternal

\* Only a running resource has a timer to fire.
LEMMA TimerQuiet ==
    ASSUME SInv, Quiet, TimerFires
    PROVE  (RunDurable => RunDurable') /\ Quiet'
<1>1. m7.mode = "running" /\ m7' = m7 /\ durable' = durable
      BY DEF TimerFires, Quiet
<1> QED
    BY <1>1 DEF RunDurable, Quiet

\* At the head of a loop: what keeps the mode keeps timers and queue, what
\* stops the resource empties them.
LEMMA HeadQuiet ==
    ASSUME SInv, Quiet, Between,
           m7'.mode = "running" => m7.mode = "running" /\ UNCHANGED durable,
           plan' = plan,
           \/ m7'.mode = m7.mode /\ timers' = timers /\ (Inert => Inert')
           \/ timers' = 0 /\ Inert',
           out' = out \/ out'.low \/ out'.fatal,
           m7.mode = "running" => m7'.mode = "running" \/ out'.low \/ out'.fatal
    PROVE  (RunDurable => RunDurable') /\ Quiet'
<1>1. ~plan.on /\ pc \notin {"delivered", "undelivered"}
      BY DEF Between, SInv, PlanOk
<1>2. RunDurable => RunDurable'
      BY DEF RunDurable
<1>3. Quiet'
      BY <1>1 DEF Quiet
<1> QED
    BY <1>2, <1>3

\* An activation publishes a resource that is idle and quiet.
LEMMA ActivateQuiet ==
    ASSUME SInv, Quiet, AtHead, NEW r, DeployActivate(r)
    PROVE  (RunDurable => RunDurable') /\ Quiet'
<1>1. /\ m7'.mode = "running" => m7.mode = "running" /\ UNCHANGED durable
      /\ \/ m7'.mode = m7.mode /\ UNCHANGED <<live, fifo, timers, stage, durable>>
         \/ fifo' = <<>> /\ timers' = 0 /\ m7'.mode = "idle" /\ out'.inhibited
      /\ out' = out \/ out'.low \/ out'.fatal
      BY DeployActivateKeeps
<1>2. Between /\ plan' = plan
      BY DEF AtHead, DeployActivate
<1>3. CASE m7'.mode = m7.mode /\ UNCHANGED <<fifo, timers, durable>>
  <2>1. Inert => Inert'
        BY <1>3 DEF Inert
  <2> QED
      BY <1>1, <1>2, <1>3, <2>1, HeadQuiet
<1>4. CASE fifo' = <<>> /\ timers' = 0 /\ m7'.mode = "idle"
  <2>1. Inert'
        BY <1>4, InertEmpty
  <2>2. m7.mode = "running" => out'.low \/ out'.fatal
        BY <1>2, <1>4 DEF AtHead, DeployActivate, Quiescent
  <2> QED
      BY <1>1, <1>2, <1>4, <2>1, <2>2, HeadQuiet
<1> QED
    BY <1>1, <1>3, <1>4

=============================================================================
