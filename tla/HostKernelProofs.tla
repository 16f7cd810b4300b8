-------------------------- MODULE HostKernelProofs --------------------------
(***************************************************************************)
(* Proofs about the event loop, for every set of tokens and every bound.   *)
(*                                                                         *)
(* The type invariant holds the caps of the code: FIFO, ring and candidate *)
(* stay within their bounds.  OnceEach is the deeper one: it needs to know *)
(* of a candidate in progress that the effects still to be built bring     *)
(* tokens that are nowhere yet (Pending).                                  *)
(***************************************************************************)
EXTENDS HostKernel, FiniteSetTheorems, TLAPS

\* What the candidate needs to be published, and the builder to index it.
CandBound == step >= 1 /\ (pc = "build" => Len(cand.q) <= QCap)

TypeInv == TypeOK /\ CandBound

-----------------------------------------------------------------------------
(* Queues, slots and products.                                             *)

\* The caps are numbers.
LEMMA Caps ==
    /\ QCap \in Nat /\ QCap > 0 /\ IrqCap \in Nat /\ TimerMax \in Nat /\ TimerMax > 0
    /\ MaxEffects \in Nat /\ MaxCauses \in Nat /\ MaxSvc \in Nat
BY CapAssumption

\* Plain events carry no token and are events.
LEMMA PlainEvents ==
    /\ External \in Events /\ Cause \in Events
    /\ \A t \in Tokens : Event("timer", t) \in Events /\ Event("tick", t) \in Events
                         /\ Completion(t) \in Events
BY DEF External, Cause, Event, Completion, Events, Kinds, Statuses

\* evq_enq keeps a queue a queue, within the cap.
LEMMA EnqType ==
    ASSUME NEW q \in Seq(Events), Len(q) <= QCap, NEW e \in Events
    PROVE  Enq(q, e) \in Seq(Events) /\ Len(Enq(q, e)) <= QCap
BY CapAssumption DEF Enq

\* evq_consume_terminal keeps a queue a queue, and no longer.
LEMMA DeqType ==
    ASSUME NEW q \in Seq(Events)
    PROVE  Deq(q) \in Seq(Events) /\ Len(Deq(q)) <= Len(q)
BY DEF Deq

\* The number of effects of one operation is a number.
LEMMA CountType ==
    ASSUME NEW fx, NEW op, NEW n \in Nat
    PROVE  Count(fx, op, n) \in Nat
<1> DEFINE S == {i \in 1 .. n : fx[i].op = op}
<1>1. IsFiniteSet(1 .. n)
      BY FS_Interval
<1>2. S \in SUBSET (1 .. n)
      OBVIOUS
<1>3. IsFiniteSet(S)
      BY <1>1, <1>2, FS_Subset
<1> QED
    BY <1>3, FS_CardinalityType DEF Count

\* A product of the gate is a bounded list of effects and a number of causes.
LEMMA ProductType ==
    ASSUME TypeOK, NEW p \in Products
    PROVE  p.fx \in Seq(Effects) /\ p.causes \in Nat /\ p \in [fx : Seq(Effects), causes : Nat]
<1>1. GateEffects \subseteq Effects
      BY DEF GateEffects, Effects, Fresh, Armed, ArmedIn, TypeOK
<1>2. SeqOf(GateEffects, MaxEffects + 1) \subseteq Seq(Effects)
      BY <1>1, CapAssumption DEF SeqOf
<1> QED
    BY <1>2, CapAssumption DEF Products

\* The causes are a list of events.
LEMMA CausesType ==
    ASSUME NEW n \in Nat
    PROVE  /\ [i \in 1 .. n |-> Cause] \in Seq(Events)
           /\ Len([i \in 1 .. n |-> Cause]) = n
BY PlainEvents

-----------------------------------------------------------------------------
(* Type correctness.                                                       *)

\* What an outcome leaves when the loop starts again.
LEMMA RestartTypes == ASSUME Restart PROVE
    /\ pc' = "drain" /\ step' = 1 /\ cur' = "none"
    /\ prod' \in [fx : Seq(Effects), causes : Nat]
    /\ cand' \in [q : Seq(Events), arms : [Slots -> Tokens \cup {NoTok}], comps : Seq(Nat)]
    /\ comps' \in Seq(Nat)
BY DEF Restart, NoProd, NoCand

\* The system starts with empty queues.
LEMMA InitTypes == Init => TypeInv
<1> SUFFICES ASSUME Init PROVE TypeInv
    OBVIOUS
<1>1. evq \in Seq(Events) /\ Len(evq) <= QCap /\ irq \in 0 .. IrqCap
      BY CapAssumption DEF Init
<1>2. prod \in [fx : Seq(Effects), causes : Nat]
      BY DEF Init, NoProd
<1>3. cand \in [q : Seq(Events), arms : [Slots -> Tokens \cup {NoTok}], comps : Seq(Nat)]
      BY DEF Init, NoCand
<1> QED
    BY <1>1, <1>2, <1>3, ModeAssumption DEF Init, TypeInv, TypeOK, CandBound, Statuses

\* Writing one element of a slot map, wherever it is, keeps it a slot map.
LEMMA ExceptTypes ==
    ASSUME NEW a \in [Slots -> Tokens \cup {NoTok}], NEW s, NEW t \in Tokens \cup {NoTok}
    PROVE  [a EXCEPT ![s] = t] \in [Slots -> Tokens \cup {NoTok}]
OBVIOUS

\* Writing the status of one event keeps the queue and its length.
LEMMA AnswerTypes ==
    ASSUME NEW q \in Seq(Events), NEW i, NEW st \in {"ok", "fail"}
    PROVE  /\ [q EXCEPT ![i].st = st] \in Seq(Events)
           /\ Len([q EXCEPT ![i].st = st]) = Len(q)
<1> DEFINE r == [q EXCEPT ![i].st = st]
<1>1. Len(q) \in Nat /\ DOMAIN q = 1 .. Len(q) /\ DOMAIN r = 1 .. Len(q)
      OBVIOUS
<1>2. ASSUME NEW j \in 1 .. Len(q) PROVE r[j] \in Events
  <2>1. q[j] \in Events
        OBVIOUS
  <2>2. r[j] = q[j] \/ r[j] = [q[j] EXCEPT !.st = st]
        OBVIOUS
  <2> QED
      BY <2>1, <2>2 DEF Events, Statuses
<1>3. r = [j \in 1 .. Len(q) |-> r[j]]
      OBVIOUS
<1> HIDE DEF r
<1>4. r \in [1 .. Len(q) -> Events]
      BY <1>2, <1>3
<1>5. r \in Seq(Events) /\ Len(r) = Len(q)
      BY <1>1, <1>4
<1> QED
    BY <1>5 DEF r

\* The effect a builder or an activation is at.
LEMMA StepInFx ==
    ASSUME NEW p \in [fx : Seq(Effects), causes : Nat], NEW n \in Nat, n >= 1, n <= Len(p.fx)
    PROVE  n \in 1 .. Len(p.fx) /\ p.fx[n] \in Effects /\ p.fx[n].tok \in Tokens
<1>1. p.fx \in Seq(Effects) /\ n \in 1 .. Len(p.fx)
      OBVIOUS
<1>2. p.fx[n] \in Effects
      BY <1>1
<1> QED
    BY <1>1, <1>2 DEF Effects

\* An effect counts itself.
LEMMA CountsItself ==
    ASSUME NEW fx, NEW op, NEW n \in Nat, n >= 1, fx[n].op = op
    PROVE  Count(fx, op, n) \in Nat /\ Count(fx, op, n) >= 1
<1> DEFINE S == {i \in 1 .. n : fx[i].op = op}
<1>1. IsFiniteSet(1 .. n)
      BY FS_Interval
<1>2. S \in SUBSET (1 .. n) /\ n \in S
      OBVIOUS
<1>3. IsFiniteSet(S)
      BY <1>1, <1>2, FS_Subset
<1>4. Cardinality(S) \in Nat /\ Cardinality(S) # 0
      BY <1>2, <1>3, FS_CardinalityType, FS_EmptySet
<1> QED
    BY <1>4 DEF Count

\* The operator's actions and the clock.
LEMMA OperatorTypes ==
    ASSUME TypeInv, UNCHANGED live, Operator \/ \E t \in Tokens : Elapse(t)
    PROVE  TypeInv'
<1> USE Caps DEF TypeInv, TypeOK, CandBound, AtRepl, Waits
<1>1. CASE ReplEnq
      BY <1>1, EnqType, PlainEvents DEF ReplEnq
<1>2. CASE IrqPush
      BY <1>2 DEF IrqPush
<1>3. CASE ReplClear
  <2>1. CASE evq' = <<>> /\ UNCHANGED <<irq, arms, due>>
        BY <1>3, <2>1 DEF ReplClear
  <2>2. CASE irq' = 0 /\ UNCHANGED <<evq, arms, due>>
        BY <1>3, <2>2 DEF ReplClear
  <2>3. CASE NoArms /\ UNCHANGED <<evq, irq>>
        BY <1>3, <2>3 DEF ReplClear, NoArms
  <2> QED
      BY <1>3, <2>1, <2>2, <2>3 DEF ReplClear
<1>4. CASE ReplCrash
      BY <1>4 DEF ReplCrash, CrashRecover, NoArms
<1>5. CASE EnterLoop
      BY <1>5 DEF EnterLoop
<1>6. ASSUME NEW t \in Tokens, Elapse(t) PROVE TypeInv'
      BY <1>6 DEF Elapse
<1> QED
    BY <1>1, <1>2, <1>3, <1>4, <1>5, <1>6 DEF Operator

\* Draining, polling and selecting.
LEMMA HeadTypes ==
    ASSUME TypeInv, UNCHANGED live, Drain \/ Drained \/ PollSlot \/ Polled \/ SelectFifo \/ SelectRx \/ IdlePoll
    PROVE  TypeInv'
<1> USE Caps DEF TypeInv, TypeOK, CandBound
<1>1. CASE Drain
  <2>1. Enq(evq, External) \in Seq(Events) /\ Len(Enq(evq, External)) <= QCap
        BY EnqType, PlainEvents
  <2>2. irq' \in 0 .. IrqCap
        BY <1>1 DEF Drain
  <2> QED
      BY <1>1, <2>1, <2>2 DEF Drain
<1>2. CASE Drained
      BY <1>2 DEF Drained
<1>3. CASE PollSlot
  <2>1. step \in Slots /\ step' \in Nat
        BY <1>3 DEF PollSlot, Slots
  <2>2. /\ evq' \in Seq(Events) /\ Len(evq') <= QCap
        /\ arms' \in [Slots -> Tokens \cup {NoTok}] /\ due' \subseteq Tokens
    <3>1. CASE arms[step] \in due /\ live
      <4>1. Event("timer", arms[step]) \in Events
            BY <3>1, PlainEvents
      <4>2. FireI2(step)
            BY <1>3, <3>1 DEF PollSlot
      <4>3. CASE Len(evq) < QCap
        <5>1. /\ evq' = Append(evq, Event("timer", arms[step])) /\ due' = due \ {arms[step]}
              /\ arms' = [arms EXCEPT ![step] = NoTok]
              BY <4>2, <4>3 DEF FireI2
        <5>2. arms' \in [Slots -> Tokens \cup {NoTok}]
              BY <5>1
        <5> QED
            BY <4>1, <4>3, <5>1, <5>2
      <4>4. CASE ~(Len(evq) < QCap)
            BY <4>2, <4>4 DEF FireI2
      <4> QED
          BY <4>3, <4>4
    <3>2. CASE arms[step] \in due /\ ~live
      <4>1. Event("tick", arms[step]) \in Events
            BY <3>2, PlainEvents
      <4>2. evq' = Enq(evq, Event("tick", arms[step])) /\ due' = due \ {arms[step]} /\ arms' = arms
            BY <1>3, <3>2 DEF PollSlot, FireLegacy
      <4> QED
          BY <4>1, <4>2, EnqType
    <3>3. CASE arms[step] \notin due
          BY <1>3, <3>3 DEF PollSlot
    <3> QED
        BY <3>1, <3>2, <3>3
  <2> QED
      BY <1>3, <2>1, <2>2 DEF PollSlot
<1>4. CASE Polled
      BY <1>4 DEF Polled
<1>5. CASE SelectFifo
      BY <1>5 DEF SelectFifo
<1>6. CASE SelectRx
      BY <1>6 DEF SelectRx
<1>7. CASE IdlePoll
      BY <1>7 DEF IdlePoll
<1> QED
    BY <1>1, <1>2, <1>3, <1>4, <1>5, <1>6, <1>7

\* Every outcome of a slam.
LEMMA SlamTypes ==
    ASSUME TypeInv, UNCHANGED live,
           SlamTimeout \/ SlamFault \/ SlamCrash \/ SlamRefused \/ SlamCommit
    PROVE  TypeInv'
<1> USE Caps DEF TypeInv, TypeOK, CandBound
<1>1. CASE SlamTimeout \/ SlamFault
  <2>1. Deq(evq) \in Seq(Events) /\ Len(Deq(evq)) <= QCap
        BY DeqType
  <2>2. Restart /\ evq' \in {evq, Deq(evq)} /\ UNCHANGED <<irq, arms, due, outcome>>
        BY <1>1 DEF SlamTimeout, SlamFault, Consumed, ConsumeTerminal
  <2>3. evq' \in Seq(Events) /\ Len(evq') <= QCap
        BY <2>1, <2>2
  <2> QED
      BY <2>2, <2>3, RestartTypes
<1>2. CASE SlamCrash
      BY <1>2, RestartTypes DEF SlamCrash, CrashRecover, NoArms
<1>3. CASE SlamRefused
      BY <1>3, RestartTypes DEF SlamRefused
<1>4. CASE SlamCommit
  <2>1. PICK p \in Products :
            /\ PreflightOk(p, cur = "fifo")
            /\ prod' = p
            /\ cand' = [q |-> (IF cur = "fifo" THEN Tail(evq) ELSE evq)
                                \o [i \in 1 .. p.causes |-> Cause],
                        arms |-> arms, comps |-> <<>>]
        BY <1>4 DEF SlamCommit
  <2> DEFINE causes == [i \in 1 .. p.causes |-> Cause]
             rest == IF cur = "fifo" THEN Tail(evq) ELSE evq
  <2>2. p.causes \in Nat /\ p \in [fx : Seq(Effects), causes : Nat] /\ Len(p.fx) \in Nat
        BY ProductType
  <2>3. causes \in Seq(Events) /\ Len(causes) = p.causes
        BY <2>2, CausesType
  <2>4. cur = "fifo" => evq # <<>>
        BY <2>1 DEF PreflightOk
  <2>5. rest \in Seq(Events) /\ Len(rest) = Len(evq) - (IF cur = "fifo" THEN 1 ELSE 0)
        BY <2>4
  <2>6. Count(p.fx, "svc", Len(p.fx)) \in Nat
        BY <2>2, CountType
  <2>7. Len(evq) - (IF cur = "fifo" THEN 1 ELSE 0)
            + p.causes + Count(p.fx, "svc", Len(p.fx)) <= QCap
        BY <2>1 DEF PreflightOk
  <2>8. rest \o causes \in Seq(Events) /\ Len(rest \o causes) <= QCap
        BY <2>2, <2>3, <2>5, <2>6, <2>7
  <2>9. /\ cand' \in [q : Seq(Events), arms : [Slots -> Tokens \cup {NoTok}], comps : Seq(Nat)]
        /\ Len(cand'.q) <= QCap
    <3>1. cand' = [q |-> rest \o causes, arms |-> arms, comps |-> <<>>]
          BY <2>1
    <3>2. arms \in [Slots -> Tokens \cup {NoTok}] /\ <<>> \in Seq(Nat)
          OBVIOUS
    <3>3. cand'.q = rest \o causes
          BY <3>1
    <3> HIDE DEF rest, causes
    <3> QED
        BY <2>8, <3>1, <3>2, <3>3
  <2>10. /\ pc' = "build" /\ step' = 1
         /\ UNCHANGED <<live, evq, irq, arms, due, cur, comps, outcome>>
         BY <1>4 DEF SlamCommit
  <2>11. prod' \in [fx : Seq(Effects), causes : Nat]
         BY <2>1, <2>2
  <2> HIDE DEF causes, rest
  <2> QED
      BY ONLY TypeInv, <2>9, <2>10, <2>11 DEF TypeInv, TypeOK, CandBound, Statuses
<1> QED
    BY <1>1, <1>2, <1>3, <1>4

\* Building, publishing and activating a candidate.
LEMMA CandidateTypes ==
    ASSUME TypeInv, UNCHANGED live,
           BuildEffect \/ BuildFault \/ Publish \/ ActivateEffect \/ Activated
    PROVE  TypeInv'
<1> USE Caps DEF TypeInv, TypeOK, CandBound
<1>1. CASE BuildEffect
  <2> DEFINE Slotted == [Slots -> Tokens \cup {NoTok}]
             Cands == [q : Seq(Events), arms : Slotted, comps : Seq(Nat)]
             t == prod.fx[step].tok
  <2>0. /\ step \in Nat /\ cand \in Cands /\ Len(cand.q) <= QCap
        /\ cand.q \in Seq(Events) /\ cand.arms \in Slotted /\ cand.comps \in Seq(Nat)
        /\ Len(cand.q) \in Nat
        BY <1>1 DEF BuildEffect
  <2>1. step \in 1 .. Len(prod.fx) /\ prod.fx[step] \in Effects /\ t \in Tokens
        BY <1>1, StepInFx DEF BuildEffect
  <2>2. cand' \in Cands /\ Len(cand'.q) <= QCap
    <3>1. CASE BuildSet(t)
      <4>1. [cand.arms EXCEPT ![FirstFree(cand.arms)] = t] \in Slotted
            BY <2>0, <2>1, ExceptTypes
      <4>2. cand' = [cand EXCEPT !.arms = [cand.arms EXCEPT ![FirstFree(cand.arms)] = t]]
            BY <3>1 DEF BuildSet
      <4> HIDE DEF Slotted
      <4> QED
          BY <2>0, <4>1, <4>2
    <3>2. CASE BuildCancel(t)
      <4>1. [cand.arms EXCEPT ![SlotOf(cand.arms, t)] = NoTok] \in Slotted
            BY <2>0, ExceptTypes
      <4>2. cand' = [cand EXCEPT !.arms = [cand.arms EXCEPT ![SlotOf(cand.arms, t)] = NoTok]]
            BY <3>2 DEF BuildCancel
      <4> HIDE DEF Slotted
      <4> QED
          BY <2>0, <4>1, <4>2
    <3>3. CASE BuildCompletion(t)
      <4>1. Completion(t) \in Events
            BY <2>1, PlainEvents
      <4>2. /\ Append(cand.q, Completion(t)) \in Seq(Events)
            /\ Len(Append(cand.q, Completion(t))) = Len(cand.q) + 1
            /\ Append(cand.comps, Len(cand.q) + 1) \in Seq(Nat)
            BY <2>0, <4>1
      <4>3. /\ cand' = [cand EXCEPT !.q = Append(cand.q, Completion(t)),
                                    !.comps = Append(cand.comps, Len(cand.q) + 1)]
            /\ Len(cand.q) < QCap
            BY <3>3 DEF BuildCompletion
      <4>4. Len(cand.q) + 1 <= QCap
            BY <2>0, <4>3
      <4> HIDE DEF Slotted
      <4> QED
          BY <2>0, <4>2, <4>3, <4>4
    <3> QED
        BY <1>1, <3>1, <3>2, <3>3 DEF BuildEffect
  <2>3. step + 1 \in Nat
        BY <2>0
  <2> QED
      BY <1>1, <2>2, <2>3 DEF BuildEffect
<1>2. CASE BuildFault
  <2>1. Restart /\ UNCHANGED <<evq, irq, arms, due, outcome>>
        BY <1>2 DEF BuildFault
  <2> QED
      BY <2>1, RestartTypes
<1>3. CASE Publish
  <2>1. /\ evq' \in Seq(Events) /\ Len(evq') <= QCap
        /\ arms' \in [Slots -> Tokens \cup {NoTok}]
        /\ comps' \in Seq(Nat) /\ due' \subseteq Tokens
        BY <1>3 DEF Publish
  <2>2. outcome' \in [Tokens -> Statuses]
        BY <1>3 DEF Publish, Statuses
  <2>3. cand' \in [q : Seq(Events), arms : [Slots -> Tokens \cup {NoTok}], comps : Seq(Nat)]
        /\ Len(cand'.q) <= QCap
        BY <1>3 DEF Publish, NoCand
  <2> QED
      BY <1>3, <2>1, <2>2, <2>3 DEF Publish
<1>4. CASE ActivateEffect
  <2>1. step \in Nat /\ step + 1 \in Nat
        OBVIOUS
  <2>2. evq' \in Seq(Events) /\ Len(evq') <= QCap /\ outcome' \in [Tokens -> Statuses]
    <3>1. CASE prod.fx[step].op = "svc"
      <4>1. PICK st \in {"ok", "fail"} :
                /\ evq' = evq \/ \E i \in Nat : evq' = [evq EXCEPT ![i].st = st]
                /\ outcome' = [outcome EXCEPT ![prod.fx[step].tok] = st]
        <5> DEFINE k == comps[Count(prod.fx, "svc", step)]
        <5>1. Count(prod.fx, "svc", step) \in Nat /\ Count(prod.fx, "svc", step) >= 1
              BY <1>4, <3>1, CountsItself DEF ActivateEffect
        <5>2. Count(prod.fx, "svc", step) <= Len(comps) => k \in Nat
              BY <5>1
        <5>3. PICK st \in {"ok", "fail"} :
                  /\ evq' = IF Count(prod.fx, "svc", step) <= Len(comps)
                            THEN [evq EXCEPT ![k].st = st] ELSE evq
                  /\ outcome' = [outcome EXCEPT ![prod.fx[step].tok] = st]
              BY <1>4, <3>1 DEF ActivateEffect
        <5> HIDE DEF k
        <5> QED
            BY <5>2, <5>3
      <4>2. outcome' \in [Tokens -> Statuses]
            BY <4>1 DEF Statuses
      <4>3. evq' \in Seq(Events) /\ Len(evq') = Len(evq)
        <5>1. CASE evq' = evq
              BY <5>1
        <5>2. ASSUME NEW i \in Nat, evq' = [evq EXCEPT ![i].st = st]
              PROVE  evq' \in Seq(Events) /\ Len(evq') = Len(evq)
          <6>1. evq \in Seq(Events)
                OBVIOUS
          <6> QED
              BY <5>2, <6>1, AnswerTypes
        <5> QED
            BY <4>1, <5>1, <5>2
      <4> QED
          BY <4>2, <4>3
    <3>2. CASE prod.fx[step].op # "svc"
          BY <1>4, <3>2 DEF ActivateEffect
    <3> QED
        BY <3>1, <3>2
  <2> QED
    <3>1. /\ pc' = "activate" /\ step' = step + 1
          /\ UNCHANGED <<irq, arms, due, cur, prod, cand, comps>>
          BY <1>4 DEF ActivateEffect
    <3> QED
        BY <2>1, <2>2, <3>1
<1>5. CASE Activated
  <2>1. pc' \in {"drain", "repl"} /\ prod' = NoProd /\ comps' = <<>> /\ step' = 1
        BY <1>5 DEF Activated
  <2>2. prod' \in [fx : Seq(Effects), causes : Nat] /\ comps' \in Seq(Nat)
        BY <2>1 DEF NoProd
  <2> QED
      BY <1>5, <2>1, <2>2 DEF Activated
<1> QED
    BY <1>1, <1>2, <1>3, <1>4, <1>5

\* A legacy product is applied to the live queue and the live slots.
LEMMA LegacyTypes ==
    ASSUME TypeInv, UNCHANGED live, LegacyRefused \/ LegacyCommit
    PROVE  TypeInv'
<1> USE Caps DEF TypeInv, TypeOK, CandBound
<1>1. CASE LegacyRefused
      BY <1>1, RestartTypes DEF LegacyRefused
<1>2. CASE LegacyCommit
  <2>1. PICK n \in 0 .. MaxCauses :
            Len(evq) + n <= QCap /\ LegacyEffect(evq \o [i \in 1 .. n |-> Cause])
        BY <1>2 DEF LegacyCommit
  <2> DEFINE q == evq \o [i \in 1 .. n |-> Cause]
  <2>2. n \in Nat
        OBVIOUS
  <2>3. q \in Seq(Events) /\ Len(q) <= QCap
    <3>1. /\ [i \in 1 .. n |-> Cause] \in Seq(Events)
          /\ Len([i \in 1 .. n |-> Cause]) = n
          BY <2>2, CausesType
    <3> QED
        BY <2>1, <2>2, <3>1
  <2>4. Enq(q, External) \in Seq(Events) /\ Len(Enq(q, External)) <= QCap
        BY <2>3, EnqType, PlainEvents
  <2> HIDE DEF q
  <2>5. /\ evq' \in Seq(Events) /\ Len(evq') <= QCap
        /\ arms' \in [Slots -> Tokens \cup {NoTok}] /\ due' \subseteq Tokens
    <3>0. LegacyEffect(q)
          BY <2>1 DEF q
    <3>1. CASE evq' = q /\ UNCHANGED <<arms, due>>
          BY <2>3, <3>1
    <3>2. CASE evq' = Enq(q, External) /\ UNCHANGED <<arms, due>>
          BY <2>4, <3>2
    <3>3. ASSUME NEW t \in Tokens, evq' = q, due' = due \ {t},
                 \/ arms' = [arms EXCEPT ![SlotOf(arms, t)] = NoTok]
                 \/ UNCHANGED arms
                 \/ arms' = [arms EXCEPT ![FirstFree(arms)] = t]
          PROVE  /\ evq' \in Seq(Events) /\ Len(evq') <= QCap
                 /\ arms' \in [Slots -> Tokens \cup {NoTok}] /\ due' \subseteq Tokens
      <4>1. arms \in [Slots -> Tokens \cup {NoTok}] /\ due \subseteq Tokens
            OBVIOUS
      <4>2. arms' \in [Slots -> Tokens \cup {NoTok}]
            BY ONLY <3>3, <4>1, ExceptTypes
      <4> QED
          BY ONLY <2>3, <3>3, <4>1, <4>2
    <3> QED
        BY <3>0, <3>1, <3>2, <3>3 DEF LegacyEffect
  <2> QED
      BY <1>2, <2>5, RestartTypes DEF LegacyCommit
<1> QED
    BY <1>1, <1>2

\* Every step keeps the types.
LEMMA NextTypes == TypeInv /\ [Next]_vars => TypeInv'
<1> SUFFICES ASSUME TypeInv, [Next]_vars PROVE TypeInv'
    OBVIOUS
<1>1. CASE UNCHANGED vars
      BY <1>1 DEF TypeInv, TypeOK, CandBound, vars
<1> QED
    BY <1>1, OperatorTypes, HeadTypes, SlamTypes, CandidateTypes, LegacyTypes DEF Next, Loop

\* Type correctness (TypeOK) of every reachable state, for every value of the
\* caps and every token set: in particular the FIFO never outgrows EVQ_CAP
\* although preflight, builder and ring each test the room on their own.
THEOREM TypeCorrect == Spec => []TypeOK
<1>1. TypeInv => TypeOK
      BY DEF TypeInv
<1> QED
    BY <1>1, InitTypes, NextTypes, PTL DEF Spec

-----------------------------------------------------------------------------
(* Tokens are in one place.                                                *)

\* A queue and a slot map that hold each token at most once between them.
OnceIn(q, a) ==
    /\ \A s1, s2 \in Slots : a[s1] # NoTok /\ a[s1] = a[s2] => s1 = s2
    /\ \A i, j \in DOMAIN q : q[i].tok # NoTok /\ q[i].tok = q[j].tok => i = j
    /\ \A s \in Slots, i \in DOMAIN q : a[s] # NoTok => a[s] # q[i].tok

\* A token that neither of them holds.
Nowhere(q, a, t) ==
    /\ \A s \in Slots : a[s] # t
    /\ \A i \in DOMAIN q : q[i].tok # t

SlotMaps == [Slots -> Tokens \cup {NoTok}]

\* The effects still to be built, whose tokens have no place yet.
Pending ==
    /\ \A i, j \in DOMAIN prod.fx : prod.fx[i].tok = prod.fx[j].tok => i = j
    /\ \A k \in DOMAIN prod.fx :
          k >= step /\ prod.fx[k].op \in {"set", "svc"} =>
              Nowhere(cand.q, cand.arms, prod.fx[k].tok)

OnceInv ==
    live => /\ OnceIn(evq, arms)
            /\ pc = "build" => OnceIn(cand.q, cand.arms) /\ Pending

\* One more event, without a token or with a token that has no place yet.
LEMMA OnceAppend ==
    ASSUME NEW q \in Seq(Events), NEW a \in SlotMaps, NEW e \in Events, OnceIn(q, a),
           e.tok = NoTok \/ Nowhere(q, a, e.tok)
    PROVE  OnceIn(Append(q, e), a)
<1> DEFINE r == Append(q, e)
<1>1. /\ DOMAIN q = 1 .. Len(q) /\ DOMAIN r = 1 .. (Len(q) + 1) /\ Len(q) \in Nat
      /\ r[Len(q) + 1] = e /\ \A i \in 1 .. Len(q) : r[i] = q[i]
      OBVIOUS
<1> HIDE DEF r
<1>2. \A i, j \in DOMAIN r : r[i].tok # NoTok /\ r[i].tok = r[j].tok => i = j
      BY <1>1 DEF OnceIn, Nowhere
<1>3. \A s \in Slots, i \in DOMAIN r : a[s] # NoTok => a[s] # r[i].tok
      BY <1>1 DEF OnceIn, Nowhere
<1> QED
    BY <1>2, <1>3 DEF OnceIn, r

\* evq_enq of an event without a token.
LEMMA OnceEnq ==
    ASSUME NEW q \in Seq(Events), NEW a \in SlotMaps, OnceIn(q, a)
    PROVE  OnceIn(Enq(q, External), a)
<1>1. External \in Events /\ External.tok = NoTok
      BY PlainEvents DEF External, Event
<1> QED
    BY <1>1, OnceAppend DEF Enq

\* The head goes.
LEMMA OnceTail ==
    ASSUME NEW q \in Seq(Events), NEW a, OnceIn(q, a), q # <<>>
    PROVE  OnceIn(Tail(q), a) /\ \A t : Nowhere(q, a, t) => Nowhere(Tail(q), a, t)
<1> DEFINE r == Tail(q)
<1>1. /\ DOMAIN q = 1 .. Len(q) /\ DOMAIN r = 1 .. (Len(q) - 1) /\ Len(q) \in Nat
      /\ \A i \in 1 .. (Len(q) - 1) : r[i] = q[i + 1]
      OBVIOUS
<1> HIDE DEF r
<1>2. \A i \in DOMAIN r : i + 1 \in DOMAIN q /\ r[i] = q[i + 1] /\ i \in Nat
      BY <1>1
<1>3. \A i, j \in DOMAIN r : r[i].tok # NoTok /\ r[i].tok = r[j].tok => i = j
  <2> SUFFICES ASSUME NEW i \in DOMAIN r, NEW j \in DOMAIN r,
                      r[i].tok # NoTok, r[i].tok = r[j].tok
               PROVE  i = j
      OBVIOUS
  <2>1. i + 1 = j + 1
        BY <1>2 DEF OnceIn
  <2> QED
      BY <1>2, <2>1
<1>4. \A s \in Slots, i \in DOMAIN r : a[s] # NoTok => a[s] # r[i].tok
      BY <1>2 DEF OnceIn
<1>5. \A t : Nowhere(q, a, t) => Nowhere(r, a, t)
      BY <1>2 DEF Nowhere
<1> QED
    BY <1>3, <1>4, <1>5 DEF OnceIn, r

\* Causes carry no token.
LEMMA OnceCauses ==
    ASSUME NEW q \in Seq(Events), NEW a, NEW n \in Nat, OnceIn(q, a)
    PROVE  /\ OnceIn(q \o [i \in 1 .. n |-> Cause], a)
           /\ \A t \in Tokens : Nowhere(q, a, t) => Nowhere(q \o [i \in 1 .. n |-> Cause], a, t)
<1> DEFINE c == [i \in 1 .. n |-> Cause]
           r == q \o c
<1>1. c \in Seq(Events) /\ Len(c) = n /\ Cause.tok = NoTok
      BY CausesType DEF Cause, Event
<1>2. \A i \in 1 .. n : c[i] = Cause
      OBVIOUS
<1> HIDE DEF c
<1>3. /\ DOMAIN q = 1 .. Len(q) /\ DOMAIN r = 1 .. (Len(q) + n) /\ Len(q) \in Nat
      /\ \A i \in 1 .. Len(q) : r[i] = q[i]
      /\ \A i \in (Len(q) + 1) .. (Len(q) + n) : r[i] = c[i - Len(q)]
      BY <1>1
<1> HIDE DEF r
<1>4. \A i \in DOMAIN r : (i \in DOMAIN q /\ r[i] = q[i]) \/ r[i].tok = NoTok
      BY <1>1, <1>2, <1>3
<1>5. OnceIn(r, a)
      BY <1>4 DEF OnceIn
<1>6. \A t \in Tokens : Nowhere(q, a, t) => Nowhere(r, a, t)
      BY <1>4, TokenAssumption DEF Nowhere
<1> QED
    BY <1>5, <1>6 DEF r, c

\* Slots are emptied.
LEMMA OnceFewer ==
    ASSUME NEW q, NEW a, NEW b, OnceIn(q, a), \A s \in Slots : b[s] \in {a[s], NoTok}
    PROVE  OnceIn(q, b) /\ \A t \in Tokens : Nowhere(q, a, t) => Nowhere(q, b, t)
BY TokenAssumption DEF OnceIn, Nowhere

\* A slot takes a token that has no place yet.
LEMMA OnceSet ==
    ASSUME NEW q, NEW a \in SlotMaps, NEW s, NEW t \in Tokens, OnceIn(q, a), Nowhere(q, a, t)
    PROVE  OnceIn(q, [a EXCEPT ![s] = t])
BY TokenAssumption DEF OnceIn, Nowhere, SlotMaps

\* A timer moves from its slot to the end of the queue.
LEMMA OnceFire ==
    ASSUME NEW q \in Seq(Events), NEW a \in SlotMaps, NEW s \in Slots, a[s] \in Tokens,
           OnceIn(q, a)
    PROVE  OnceIn(Append(q, Event("timer", a[s])), [a EXCEPT ![s] = NoTok])
<1> DEFINE b == [a EXCEPT ![s] = NoTok]
           e == Event("timer", a[s])
<1>1. b \in SlotMaps /\ \A x \in Slots : b[x] = IF x = s THEN NoTok ELSE a[x]
      BY DEF SlotMaps
<1>2. e \in Events /\ e.tok = a[s]
      BY PlainEvents DEF Event
<1> HIDE DEF b, e
<1>3. OnceIn(q, b)
      BY <1>1, OnceFewer
<1>4. Nowhere(q, b, a[s])
      BY <1>1, TokenAssumption DEF Nowhere, OnceIn
<1>5. OnceIn(Append(q, e), b)
      BY <1>1, <1>2, <1>3, <1>4, OnceAppend
<1> QED
    BY <1>5 DEF b, e

\* A status is written into an event.
LEMMA OnceAnswer ==
    ASSUME NEW q \in Seq(Events), NEW a, NEW i, NEW st, OnceIn(q, a)
    PROVE  OnceIn([q EXCEPT ![i].st = st], a)
<1> DEFINE r == [q EXCEPT ![i].st = st]
<1>1. DOMAIN r = DOMAIN q
      OBVIOUS
<1>2. ASSUME NEW j \in DOMAIN q PROVE r[j].tok = q[j].tok
  <2>1. q[j] \in Events
        OBVIOUS
  <2>2. r[j] = q[j] \/ r[j] = [q[j] EXCEPT !.st = st]
        OBVIOUS
  <2> QED
      BY <2>1, <2>2 DEF Events
<1> HIDE DEF r
<1>3. OnceIn(r, a)
      BY <1>1, <1>2 DEF OnceIn
<1> QED
    BY <1>3 DEF r

\* The queue and the slots of a state.
LEMMA LiveTypes ==
    ASSUME TypeInv
    PROVE  /\ evq \in Seq(Events) /\ arms \in SlotMaps
           /\ cand.q \in Seq(Events) /\ cand.arms \in SlotMaps
           /\ prod \in [fx : Seq(Effects), causes : Nat] /\ step \in Nat /\ step >= 1
BY DEF TypeInv, TypeOK, CandBound, SlotMaps

\* A step of the loop head, or of the operator.
LEMMA OnceHead ==
    ASSUME TypeInv, OnceInv, live,
           UNCHANGED live,
           \/ Operator \/ \E t \in Tokens : Elapse(t)
           \/ Drain \/ Drained \/ PollSlot \/ Polled \/ SelectFifo \/ SelectRx \/ IdlePoll
    PROVE  OnceInv'
<1>0. /\ evq \in Seq(Events) /\ arms \in SlotMaps
      /\ OnceIn(evq, arms)
      BY LiveTypes DEF OnceInv
<1>1. CASE UNCHANGED <<evq, arms, step, prod, cand, pc>>
      BY <1>1 DEF OnceInv, Pending
<1>2. CASE pc' # "build" /\ UNCHANGED <<evq, arms>>
      BY <1>0, <1>2 DEF OnceInv
<1>3. CASE pc' # "build" /\ evq' = Enq(evq, External) /\ UNCHANGED arms
      BY <1>0, <1>3, OnceEnq DEF OnceInv
<1>4. CASE pc' # "build" /\ evq' = <<>> /\ UNCHANGED arms
  <2>1. OnceIn(<<>>, arms)
        BY <1>0 DEF OnceIn
  <2> QED
      BY <1>4, <2>1 DEF OnceInv
<1>5. CASE pc' # "build" /\ evq' \in {evq, <<>>} /\ arms' = [s \in Slots |-> NoTok]
  <2>1. OnceIn(evq, arms') /\ OnceIn(<<>>, arms')
        BY <1>0, <1>5 DEF OnceIn
  <2> QED
      BY <1>5, <2>1 DEF OnceInv
<1>6. CASE PollSlot
  <2>1. CASE arms[step] \in due /\ Len(evq) < QCap
    <3>1. /\ evq' = Append(evq, Event("timer", arms[step]))
          /\ arms' = [arms EXCEPT ![step] = NoTok]
          /\ pc' = "poll" /\ step \in Slots
          BY <1>6, <2>1 DEF PollSlot, FireI2
    <3>2. arms[step] \in Tokens
          BY <2>1 DEF TypeInv, TypeOK
    <3>3. OnceIn(evq', arms')
          BY <1>0, <3>1, <3>2, OnceFire
    <3> QED
        BY <3>1, <3>3 DEF OnceInv
  <2>2. CASE ~(arms[step] \in due /\ Len(evq) < QCap)
        BY <1>2, <1>6, <2>2 DEF PollSlot, FireI2
  <2> QED
      BY <2>1, <2>2
<1>7. CASE Operator
  <2>1. CASE ReplEnq
        BY <1>3, <2>1 DEF ReplEnq, AtRepl, Waits
  <2>2. CASE IrqPush
        BY <1>2, <2>2 DEF IrqPush, AtRepl, Waits
  <2>3. CASE ReplClear
        BY <1>2, <1>4, <1>5, <2>3 DEF ReplClear, AtRepl, Waits, NoArms
  <2>4. CASE ReplCrash
        BY <1>4, <1>5, <2>4 DEF ReplCrash, CrashRecover, AtRepl, NoArms
  <2>5. CASE EnterLoop
        BY <1>2, <2>5 DEF EnterLoop
  <2> QED
      BY <1>7, <2>1, <2>2, <2>3, <2>4, <2>5 DEF Operator
<1>8. CASE \E t \in Tokens : Elapse(t)
      BY <1>1, <1>8 DEF Elapse
<1>9. CASE Drain
      BY <1>3, <1>9 DEF Drain
<1>10. CASE Drained \/ Polled \/ SelectFifo \/ SelectRx \/ IdlePoll
       BY <1>2, <1>10 DEF Drained, Polled, SelectFifo, SelectRx, IdlePoll
<1> QED
    BY <1>6, <1>7, <1>8, <1>9, <1>10

\* A slam that commits starts a candidate, and every token it will place is
\* fresh: the ones to arm by preflight, the services by the gate.
LEMMA OnceCommit ==
    ASSUME TypeInv, OnceInv, live, UNCHANGED live, SlamCommit
    PROVE  OnceInv'
<1>0. /\ evq \in Seq(Events) /\ arms \in SlotMaps
      /\ OnceIn(evq, arms)
      BY LiveTypes DEF OnceInv
<1>1. PICK p \in Products :
          /\ PreflightOk(p, cur = "fifo")
          /\ prod' = p
          /\ cand' = [q |-> (IF cur = "fifo" THEN Tail(evq) ELSE evq)
                              \o [i \in 1 .. p.causes |-> Cause],
                      arms |-> arms, comps |-> <<>>]
      BY DEF SlamCommit
<1> DEFINE rest == IF cur = "fifo" THEN Tail(evq) ELSE evq
           q == rest \o [i \in 1 .. p.causes |-> Cause]
<1>2. p.causes \in Nat /\ p.fx \in Seq(Effects)
      BY ProductType DEF TypeInv
<1>3. cur = "fifo" => evq # <<>>
      BY <1>1 DEF PreflightOk
<1>4. /\ rest \in Seq(Events) /\ OnceIn(rest, arms)
      /\ \A t : Nowhere(evq, arms, t) => Nowhere(rest, arms, t)
      BY <1>0, <1>3, OnceTail
<1> HIDE DEF rest
<1>5. /\ OnceIn(q, arms)
      /\ \A t \in Tokens : Nowhere(rest, arms, t) => Nowhere(q, arms, t)
      BY <1>2, <1>4, OnceCauses
<1>6. /\ cand'.q = q /\ cand'.arms = arms /\ prod' = p
      /\ evq' = evq /\ arms' = arms
      BY <1>1 DEF SlamCommit, rest
<1> HIDE DEF q
<1>7. ASSUME NEW k \in DOMAIN p.fx, p.fx[k].op \in {"set", "svc"}
      PROVE  Nowhere(q, arms, p.fx[k].tok)
  <2>1. p.fx[k] \in GateEffects
        BY <1>1, <1>2 DEF Products, SeqOf
  <2>2. p.fx[k].op = "set" => p.fx[k].tok \notin Armed
        BY <1>1 DEF PreflightOk
  <2>3. p.fx[k].tok \in Fresh
        BY <1>7, <2>1, <2>2 DEF GateEffects
  <2>4. p.fx[k].tok \in Tokens /\ Nowhere(evq, arms, p.fx[k].tok)
        BY <2>3, TokenAssumption DEF Fresh, Armed, ArmedIn, QueuedTokens, Nowhere
  <2> QED
      BY <1>4, <1>5, <2>4
<1>8. \A i, j \in DOMAIN p.fx : p.fx[i].tok = p.fx[j].tok => i = j
      BY <1>1 DEF PreflightOk
<1>9. Pending'
      BY <1>6, <1>7, <1>8 DEF Pending
<1> QED
    BY <1>0, <1>5, <1>6, <1>9 DEF OnceInv

\* One effect is built: its token takes its place, the later ones wait.
LEMMA OnceBuild ==
    ASSUME TypeInv, OnceInv, live, UNCHANGED live, BuildEffect
    PROVE  OnceInv'
<1> DEFINE t == prod.fx[step].tok
<1>0. /\ OnceIn(evq, arms) /\ OnceIn(cand.q, cand.arms) /\ Pending
      /\ cand.q \in Seq(Events) /\ cand.arms \in SlotMaps
      /\ step \in DOMAIN prod.fx /\ t \in Tokens /\ step \in Nat
      /\ DOMAIN prod.fx \subseteq Nat
      BY LiveTypes, StepInFx DEF OnceInv, BuildEffect
<1>1. /\ pc' = "build" /\ step' = step + 1
      /\ evq' = evq /\ arms' = arms /\ prod' = prod
      BY DEF BuildEffect
<1>2. prod.fx[step].op \in {"set", "svc"} => Nowhere(cand.q, cand.arms, t)
      BY <1>0 DEF Pending
<1>3. ASSUME NEW k \in DOMAIN prod.fx, k >= step + 1, prod.fx[k].op \in {"set", "svc"}
      PROVE  /\ Nowhere(cand.q, cand.arms, prod.fx[k].tok)
             /\ prod.fx[k].tok # t /\ prod.fx[k].tok \in Tokens
  <2>1. k \in Nat /\ k >= step /\ k # step
        BY <1>0, <1>3
  <2>2. prod.fx[k] \in Effects
        BY LiveTypes
  <2> QED
      BY <1>0, <1>3, <2>1, <2>2 DEF Pending, Effects
<1>4. SUFFICES /\ OnceIn(cand'.q, cand'.arms)
               /\ \A u \in Tokens : u # t /\ Nowhere(cand.q, cand.arms, u)
                                        => Nowhere(cand'.q, cand'.arms, u)
      BY <1>0, <1>1, <1>3 DEF OnceInv, Pending
<1> HIDE DEF t
<1>5. CASE prod.fx[step].op = "set" /\ BuildSet(t)
  <2>1. /\ cand'.q = cand.q
        /\ cand'.arms = [cand.arms EXCEPT ![FirstFree(cand.arms)] = t]
        BY <1>5, LiveTypes DEF BuildSet, TypeInv, TypeOK
  <2>2. Nowhere(cand.q, cand.arms, t)
        BY <1>2, <1>5
  <2>3. OnceIn(cand.q, [cand.arms EXCEPT ![FirstFree(cand.arms)] = t])
        BY <1>0, <2>2, OnceSet
  <2>4. OnceIn(cand'.q, cand'.arms)
        BY <2>1, <2>3
  <2>5. \A s \in Slots : cand'.arms[s] \in {cand.arms[s], t}
        BY <1>0, <2>1 DEF SlotMaps
  <2> QED
      BY <2>1, <2>4, <2>5 DEF Nowhere
<1>6. CASE prod.fx[step].op = "cancel" /\ BuildCancel(t)
  <2>1. /\ cand'.q = cand.q
        /\ cand'.arms = [cand.arms EXCEPT ![SlotOf(cand.arms, t)] = NoTok]
        BY <1>6, LiveTypes DEF BuildCancel, TypeInv, TypeOK
  <2>2. \A s \in Slots : cand'.arms[s] \in {cand.arms[s], NoTok}
        BY <1>0, <2>1 DEF SlotMaps
  <2> QED
      BY <1>0, <2>1, <2>2, OnceFewer
<1>7. CASE prod.fx[step].op = "svc" /\ BuildCompletion(t)
  <2>1. cand'.q = Append(cand.q, Completion(t)) /\ cand'.arms = cand.arms
        BY <1>7, LiveTypes DEF BuildCompletion, TypeInv, TypeOK
  <2>2. Completion(t) \in Events /\ Completion(t).tok = t
        BY <1>0, PlainEvents DEF Completion
  <2>3. OnceIn(cand'.q, cand'.arms)
        BY <1>0, <1>2, <1>7, <2>1, <2>2, OnceAppend
  <2>4. \A i \in DOMAIN Append(cand.q, Completion(t)) :
            \/ i \in DOMAIN cand.q /\ Append(cand.q, Completion(t))[i] = cand.q[i]
            \/ Append(cand.q, Completion(t))[i].tok = t
        BY <1>0, <2>2
  <2> QED
      BY <2>1, <2>3, <2>4 DEF Nowhere
<1> QED
    BY <1>5, <1>6, <1>7 DEF BuildEffect, t

\* Every other outcome of a slam, and what follows a publication.
LEMMA OnceRest ==
    ASSUME TypeInv, OnceInv, live, UNCHANGED live,
           \/ SlamTimeout \/ SlamFault \/ SlamCrash \/ SlamRefused
           \/ BuildFault \/ Publish \/ ActivateEffect \/ Activated
    PROVE  OnceInv'
<1>0. evq \in Seq(Events) /\ arms \in SlotMaps /\ OnceIn(evq, arms)
      BY LiveTypes DEF OnceInv
<1>1. CASE pc' # "build" /\ UNCHANGED <<evq, arms>>
      BY <1>0, <1>1 DEF OnceInv
<1>2. CASE SlamTimeout \/ SlamFault
  <2>1. pc' = "drain" /\ arms' = arms /\ evq' \in {evq, Deq(evq)}
        BY <1>2 DEF SlamTimeout, SlamFault, Consumed, ConsumeTerminal, Restart
  <2>2. OnceIn(Deq(evq), arms)
        BY <1>0, OnceTail DEF Deq
  <2> QED
      BY <1>0, <2>1, <2>2 DEF OnceInv
<1>3. CASE SlamCrash
  <2>1. /\ pc' = "drain" /\ evq' = <<>>
        /\ arms' = arms \/ arms' = [s \in Slots |-> NoTok]
        BY <1>3 DEF SlamCrash, CrashRecover, NoArms, Restart
  <2>2. OnceIn(<<>>, arms) /\ OnceIn(<<>>, [s \in Slots |-> NoTok])
        BY <1>0 DEF OnceIn
  <2> QED
      BY <2>1, <2>2 DEF OnceInv
<1>4. CASE SlamRefused \/ BuildFault
      BY <1>1, <1>4 DEF SlamRefused, BuildFault, Restart
<1>5. CASE Publish
  <2>1. pc' = "activate" /\ evq' = cand.q /\ arms' = cand.arms /\ pc = "build"
        BY <1>5 DEF Publish
  <2> QED
      BY <2>1 DEF OnceInv
<1>6. CASE ActivateEffect
  <2>1. pc' = "activate" /\ arms' = arms
        BY <1>6 DEF ActivateEffect
  <2>2. CASE evq' = evq
        BY <1>0, <2>1, <2>2 DEF OnceInv
  <2>3. CASE prod.fx[step].op = "svc" /\ Count(prod.fx, "svc", step) <= Len(comps)
    <3> DEFINE k == comps[Count(prod.fx, "svc", step)]
    <3>1. PICK st \in {"ok", "fail"} : evq' = [evq EXCEPT ![k].st = st]
          BY <1>6, <2>3 DEF ActivateEffect
    <3> HIDE DEF k
    <3>2. OnceIn(evq', arms)
          BY <1>0, <3>1, OnceAnswer
    <3> QED
        BY <2>1, <3>2 DEF OnceInv
  <2> QED
      BY <1>6, <2>2, <2>3 DEF ActivateEffect
<1>7. CASE Activated
      BY <1>1, <1>7 DEF Activated
<1> QED
    BY <1>2, <1>3, <1>4, <1>5, <1>6, <1>7

\* A lifecycle token is in one timer slot or in one queued event at most
\* (OnceEach), through firing, cancellation, aborted builds and crashes, for
\* every number of slots, queue length and product size.
THEOREM TokensOnce == Spec => []OnceEach
<1>1. Init => OnceInv
      BY DEF Init, OnceInv, OnceIn
<1>2. TypeInv /\ OnceInv /\ [Next]_vars => OnceInv'
  <2> SUFFICES ASSUME TypeInv, OnceInv, [Next]_vars PROVE OnceInv'
      OBVIOUS
  <2>1. CASE UNCHANGED vars
        BY <2>1 DEF OnceInv, Pending, vars
  <2>2. CASE ~live /\ Next
        BY <2>2 DEF OnceInv, Next
  <2>3. CASE live /\ Next
        BY <2>3, OnceHead, OnceCommit, OnceBuild, OnceRest DEF Next, Loop, LegacyRefused, LegacyCommit
  <2> QED
      BY <2>1, <2>2, <2>3
<1>3. TypeInv /\ OnceInv => OnceEach
  <2> SUFFICES ASSUME TypeInv, OnceInv, live PROVE OnceEach
      BY DEF OnceEach
  <2>1. OnceIn(evq, arms)
        BY DEF OnceInv
  <2> QED
      BY <2>1 DEF OnceEach, OnceIn, Armed, ArmedIn, QueuedTokens
<1>4. Spec => []TypeInv
      BY InitTypes, NextTypes, PTL DEF Spec
<1> QED
    BY <1>1, <1>2, <1>3, <1>4, PTL DEF Spec

-----------------------------------------------------------------------------
(***************************************************************************)
(* The transaction of the event loop: what the preflight counted the       *)
(* builder finds, what is published is the rest of the queue with the      *)
(* causes and the completions behind it, a completion tells what its       *)
(* driver did, and the loop of an identity-admitted package implements the *)
(* atomic transactions of AtomicTx.  Everything rests on one description   *)
(* of the candidate while it is built (QueueBuilt, SlotsBuilt).            *)
(***************************************************************************)

-----------------------------------------------------------------------------
(* Numbers, counts and slots.                                              *)

\* A set of numbers that is not empty has a least one: FirstFree is a slot.
\* The intervals below its members are ordered as they are, and that order
\* is well founded.
LEMMA LeastExists ==
    ASSUME NEW S, S \subseteq Nat, S # {}
    PROVE  Min(S) \in S
<1> DEFINE R == StrictSubsetOrdering(Nat)
           F == FiniteSubsetsOf(Nat)
           T == {1 .. x : x \in S}
<1>1. IsWellFoundedOn(R, F)
  BY FS_StrictSubsetOrderingWellFounded
<1>2. T \subseteq F /\ T # {}
  <2>1. \A x \in S : 1 .. x \in F
    BY FS_Interval DEF FiniteSubsetsOf
  <2> QED
    BY <2>1
<1>3. \A a, b \in F : a \subseteq b /\ a # b => <<a, b>> \in R
  BY DEF StrictSubsetOrdering, FiniteSubsetsOf
<1> HIDE DEF R, F
<1>4. \E a \in T : \A b \in T : ~ (<<b, a>> \in R)
  <2> HIDE DEF T
  <2> QED
    BY <1>1, <1>2, WFMin
<1>5. PICK x \in S : \A y \in S : ~ (<<1 .. y, 1 .. x>> \in R)
  BY <1>4
<1>6. \A y \in S : x <= y
  <2> SUFFICES ASSUME NEW y \in S, y < x
               PROVE  FALSE
    OBVIOUS
  <2>1. x \in Nat /\ y \in Nat
    OBVIOUS
  <2>2. 1 .. y \subseteq 1 .. x /\ x \in 1 .. x /\ x \notin 1 .. y
    BY <2>1
  <2>3. 1 .. y \in F /\ 1 .. x \in F
    BY <1>2
  <2> QED
    BY <1>3, <1>5, <2>2, <2>3
<1> QED
  BY <1>6 DEF Min

\* The effects of one kind among the first n.
Chosen(fx, op, n) == {i \in 1 .. n : fx[i].op = op}

\* They are finitely many.
LEMMA ChosenFinite ==
    ASSUME NEW fx, NEW op, NEW n \in Nat
    PROVE  IsFiniteSet(Chosen(fx, op, n)) /\ Count(fx, op, n) = Cardinality(Chosen(fx, op, n))
<1>1. IsFiniteSet(1 .. n)
  BY FS_Interval
<1>2. Chosen(fx, op, n) \in SUBSET (1 .. n)
  BY DEF Chosen
<1> QED
  BY <1>1, <1>2, FS_Subset DEF Count, Chosen

\* No effect, none of any kind.
LEMMA CountNone ==
    ASSUME NEW fx, NEW op
    PROVE  Count(fx, op, 0) = 0
<1>1. Chosen(fx, op, 0) = {}
  BY DEF Chosen
<1> QED
  BY <1>1, ChosenFinite, FS_EmptySet

\* One more effect.
LEMMA CountStep ==
    ASSUME NEW fx, NEW op, NEW n \in Nat, n >= 1
    PROVE  /\ n - 1 \in Nat /\ Count(fx, op, n - 1) \in Nat
           /\ Count(fx, op, n) = Count(fx, op, n - 1) + (IF fx[n].op = op THEN 1 ELSE 0)
<1> DEFINE S == Chosen(fx, op, n - 1)
<1>1. n - 1 \in Nat
  OBVIOUS
<1>2. IsFiniteSet(S) /\ Count(fx, op, n - 1) = Cardinality(S)
  BY <1>1, ChosenFinite
<1>3. Count(fx, op, n - 1) \in Nat
  BY <1>1, CountType
<1>4. Count(fx, op, n) = Cardinality(Chosen(fx, op, n))
  BY ChosenFinite
<1>5. CASE fx[n].op = op
  <2>1. Chosen(fx, op, n) = S \cup {n} /\ n \notin S
    BY <1>5 DEF Chosen
  <2> HIDE DEF S
  <2>2. Cardinality(S \cup {n}) = Cardinality(S) + 1
    BY <1>2, <2>1, FS_AddElement
  <2> QED
    BY <1>1, <1>2, <1>3, <1>4, <1>5, <2>1, <2>2
<1>6. CASE fx[n].op # op
  <2>1. Chosen(fx, op, n) = S
    BY <1>6 DEF Chosen
  <2> QED
    BY <1>1, <1>2, <1>3, <1>4, <1>6, <2>1
<1> QED
  BY <1>5, <1>6

\* Of more effects there are not fewer of a kind.
LEMMA CountMonotone ==
    ASSUME NEW fx, NEW op, NEW n \in Nat, NEW k \in Nat, k <= n
    PROVE  Count(fx, op, k) <= Count(fx, op, n)
<1>1. Chosen(fx, op, k) \in SUBSET Chosen(fx, op, n)
  BY DEF Chosen
<1> QED
  BY <1>1, ChosenFinite, FS_Subset

\* The slots are TimerMax.
LEMMA SlotsFinite == IsFiniteSet(Slots) /\ Cardinality(Slots) = TimerMax
BY FS_Interval, Caps DEF Slots

\* As many slots are active as there are, or one is free.
LEMMA ActiveFinite ==
    ASSUME NEW a
    PROVE  /\ IsFiniteSet(Active(a)) /\ Cardinality(Active(a)) \in Nat
           /\ Cardinality(Active(a)) < TimerMax => Active(a) # Slots
<1>1. Active(a) \in SUBSET Slots
  BY DEF Active
<1>2. IsFiniteSet(Active(a))
  BY <1>1, SlotsFinite, FS_Subset
<1> QED
  BY <1>2, SlotsFinite, FS_CardinalityType, Caps

\* The first free slot is free.
LEMMA FirstFreeIsFree ==
    ASSUME NEW a, Active(a) # Slots
    PROVE  FirstFree(a) \in Slots /\ a[FirstFree(a)] = NoTok
<1> DEFINE S == {s \in Slots : a[s] = NoTok}
<1>1. S # {} /\ S \subseteq Nat
  BY Caps DEF Active, Slots
<1>2. Min(S) \in S
  BY <1>1, LeastExists
<1> QED
  BY <1>2 DEF FirstFree

\* A timer is set: one slot more is active, and nothing else changes.
LEMMA SetSlot ==
    ASSUME NEW a \in SlotMaps, NEW t \in Tokens, Active(a) # Slots
    PROVE  LET b == [a EXCEPT ![FirstFree(a)] = t]
           IN  /\ Cardinality(Active(b)) = Cardinality(Active(a)) + 1
               /\ ArmedIn(b) = ArmedIn(a) \cup {t}
<1> DEFINE f == FirstFree(a)
           b == [a EXCEPT ![f] = t]
<1>1. f \in Slots /\ a[f] = NoTok
  BY FirstFreeIsFree
<1> HIDE DEF f
<1>2. t # NoTok /\ b \in SlotMaps /\ \A s \in Slots : b[s] = IF s = f THEN t ELSE a[s]
  BY <1>1, TokenAssumption DEF SlotMaps
<1> HIDE DEF b
<1>3. Active(b) = Active(a) \cup {f} /\ f \notin Active(a)
  BY <1>1, <1>2 DEF Active
<1>4. Cardinality(Active(b)) = Cardinality(Active(a)) + 1
  BY <1>3, ActiveFinite, FS_AddElement
<1>5. ArmedIn(b) = ArmedIn(a) \cup {t}
  <2>1. ASSUME NEW u PROVE u \in ArmedIn(b) <=> u \in ArmedIn(a) \cup {t}
    <3>1. CASE u = t
      BY <1>1, <1>2, <3>1 DEF ArmedIn
    <3>2. CASE u # t
      BY <1>1, <1>2, <3>2 DEF ArmedIn
    <3> QED
      BY <3>1, <3>2
  <2> QED
    BY <2>1
<1> QED
  BY <1>4, <1>5 DEF b, f

\* A timer is cancelled: one slot less is active, and only its token goes.
LEMMA ClearSlot ==
    ASSUME NEW a \in SlotMaps, NEW t \in ArmedIn(a)
    PROVE  LET b == [a EXCEPT ![SlotOf(a, t)] = NoTok]
           IN  /\ Cardinality(Active(b)) = Cardinality(Active(a)) - 1
               /\ ArmedIn(b) \subseteq ArmedIn(a) /\ ArmedIn(a) \ ArmedIn(b) \subseteq {t}
<1> DEFINE f == SlotOf(a, t)
           b == [a EXCEPT ![f] = NoTok]
<1>1. f \in Slots /\ a[f] = t /\ t # NoTok
  BY DEF SlotOf, ArmedIn
<1> HIDE DEF f
<1>2. b \in SlotMaps /\ \A s \in Slots : b[s] = IF s = f THEN NoTok ELSE a[s]
  BY <1>1 DEF SlotMaps
<1> HIDE DEF b
<1>3. Active(b) = Active(a) \ {f} /\ f \in Active(a)
  BY <1>1, <1>2 DEF Active
<1>4. Cardinality(Active(b)) = Cardinality(Active(a)) - 1
  BY <1>3, ActiveFinite, FS_RemoveElement
<1>5. ArmedIn(b) \subseteq ArmedIn(a)
  BY <1>2 DEF ArmedIn
<1>6. ArmedIn(a) \ ArmedIn(b) \subseteq {t}
  BY <1>1, <1>2 DEF ArmedIn
<1> QED
  BY <1>4, <1>5, <1>6 DEF b, f

-----------------------------------------------------------------------------
(* The candidate while it is built.                                        *)

\* The queue behind the event, and how long it is with the causes.
Rest == IF cur = "fifo" THEN Tail(evq) ELSE evq
Answers == Len(Rest) + prod.causes

\* The candidate queue: the rest, the causes, one completion for each service
\* requested so far.
QueueBuilt ==
    /\ Len(cand.comps) = Count(prod.fx, "svc", step - 1)
    /\ Len(cand.q) = Answers + Len(cand.comps)
    /\ \A i \in 1 .. Len(Rest) : cand.q[i] = Rest[i]
    /\ \A i \in Len(Rest) + 1 .. Answers : cand.q[i] = Cause
    /\ \A i \in Answers + 1 .. Len(cand.q) : cand.q[i].kind = "svc" /\ cand.q[i].tok \in Tokens

\* The candidate slots: as many are active as preflight counted, what is still
\* to be cancelled is armed, and a timer is gone only with its cancel.
SlotsBuilt ==
    /\ Cardinality(Active(cand.arms))
          = Cardinality(Active(arms)) - Count(prod.fx, "cancel", step - 1)
                                      + Count(prod.fx, "set", step - 1)
    /\ \A k \in DOMAIN prod.fx :
          k >= step /\ prod.fx[k].op = "cancel" => prod.fx[k].tok \in ArmedIn(cand.arms)
    /\ \A t \in Armed : \/ t \in ArmedIn(cand.arms)
                        \/ \E k \in DOMAIN prod.fx : prod.fx[k] = [op |-> "cancel", tok |-> t]

\* A product that is built has passed the preflight of this queue and these
\* timers, which nothing has changed since.
BuildInv ==
    pc = "build" =>
        /\ PreflightOk(prod, cur = "fifo") /\ prod.causes \in 0 .. MaxCauses
        /\ step <= Len(prod.fx) + 1
        /\ QueueBuilt /\ SlotsBuilt

\* The event that is served is the head of the queue, of a live package.
ServedInv == live /\ pc \in {"slam", "build"} => (cur = "fifo" <=> evq # <<>>)

\* The rest of the queue and the causes have a length.
LEMMA RestType ==
    ASSUME TypeInv, cur = "fifo" => evq # <<>>, prod.causes \in Nat
    PROVE  /\ Rest \in Seq(Events) /\ Len(Rest) \in Nat /\ Answers \in Nat
           /\ Len(Rest) = Len(evq) - (IF cur = "fifo" THEN 1 ELSE 0) /\ Answers = Len(Rest) + prod.causes
<1>1. evq \in Seq(Events)
  BY LiveTypes
<1>2. Rest \in Seq(Events) /\ Len(Rest) = Len(evq) - (IF cur = "fifo" THEN 1 ELSE 0)
  BY <1>1 DEF Rest
<1> QED
  BY <1>2 DEF Answers

\* Where the elements of two joined sequences are.
LEMMA Joined ==
    ASSUME NEW S, NEW q \in Seq(S), NEW r \in Seq(S)
    PROVE  /\ q \o r \in Seq(S) /\ Len(q \o r) = Len(q) + Len(r)
           /\ Len(q) \in Nat /\ Len(r) \in Nat
           /\ \A i \in 1 .. Len(q) : (q \o r)[i] = q[i]
           /\ \A i \in Len(q) + 1 .. Len(q) + Len(r) :
                 i - Len(q) \in 1 .. Len(r) /\ (q \o r)[i] = r[i - Len(q)]
OBVIOUS

LEMMA JoinedAt ==
    ASSUME NEW q \in Seq(Events), NEW r \in Seq(Events)
    PROVE  /\ q \o r \in Seq(Events) /\ Len(q \o r) = Len(q) + Len(r)
           /\ Len(q) \in Nat /\ Len(r) \in Nat
           /\ \A i \in 1 .. Len(q) : (q \o r)[i] = q[i]
           /\ \A i \in Len(q) + 1 .. Len(q) + Len(r) :
                 i - Len(q) \in 1 .. Len(r) /\ (q \o r)[i] = r[i - Len(q)]
BY Joined

\* A product that passed starts a candidate that is the rest and the causes.
LEMMA CommitBuilds ==
    ASSUME TypeInv, SlamCommit
    PROVE  BuildInv'
<1>1. PICK p \in Products :
         /\ PreflightOk(p, cur = "fifo")
         /\ prod' = p
         /\ cand' = [q |-> (IF cur = "fifo" THEN Tail(evq) ELSE evq)
                            \o [i \in 1 .. p.causes |-> Cause],
                     arms |-> arms, comps |-> <<>>]
  BY DEF SlamCommit
<1>2. /\ pc' = "build" /\ step' = 1
      /\ UNCHANGED <<evq, irq, arms, due, cur, comps, outcome>>
  BY DEF SlamCommit
<1>3. p.fx \in Seq(Effects) /\ p.causes \in Nat
  BY ProductType DEF TypeInv
<1>4. cur = "fifo" => evq # <<>>
  BY <1>1 DEF PreflightOk
<1>5. p.causes \in 0 .. MaxCauses
  BY <1>1, <1>3, Caps DEF PreflightOk
<1>6. PreflightOk(p, cur = "fifo")'
  BY <1>1, <1>2 DEF PreflightOk, Armed
<1> DEFINE causes == [i \in 1 .. p.causes |-> Cause]
<1>7. Rest \in Seq(Events) /\ Len(Rest) \in Nat
  BY <1>4, LiveTypes DEF Rest
<1>8. cand'.q = Rest \o causes /\ cand'.arms = arms /\ cand'.comps = <<>> /\ Rest' = Rest
  BY <1>1, <1>2 DEF Rest
<1>9. causes \in Seq(Events) /\ Len(causes) = p.causes /\ \A i \in 1 .. p.causes : causes[i] = Cause
  BY <1>3, CausesType
<1>10. Answers' = Len(Rest) + p.causes
  BY <1>1, <1>8 DEF Answers
<1> HIDE DEF causes
<1>11. QueueBuilt'
  <2>1. Len(cand'.comps) = Count(p.fx, "svc", step' - 1)
    BY <1>2, <1>8, CountNone
  <2>2. Len(cand'.q) = Answers' + Len(cand'.comps)
    BY <1>3, <1>7, <1>8, <1>9, <1>10
  <2>3. /\ \A i \in 1 .. Len(Rest) : cand'.q[i] = Rest[i]
        /\ \A i \in Len(Rest) + 1 .. Answers' : cand'.q[i] = Cause
        /\ Answers' = Len(cand'.q)
    BY <1>3, <1>7, <1>8, <1>9, <1>10, JoinedAt
  <2>4. Answers' + 1 .. Len(cand'.q) = {}
    BY <1>3, <1>7, <1>10, <2>3
  <2> QED
    BY <1>1, <1>8, <2>1, <2>2, <2>3, <2>4 DEF QueueBuilt
<1>12. SlotsBuilt'
  <2>1. /\ Count(p.fx, "cancel", step' - 1) = 0 /\ Count(p.fx, "set", step' - 1) = 0
        /\ Cardinality(Active(arms)) \in Nat
    BY <1>2, CountNone, ActiveFinite
  <2>2. \A k \in DOMAIN p.fx : p.fx[k].op = "cancel" => p.fx[k].tok \in ArmedIn(arms)
    BY <1>1 DEF PreflightOk, Armed
  <2> QED
    BY <1>1, <1>2, <1>8, <2>1, <2>2 DEF SlotsBuilt, Armed
<1> QED
  BY <1>1, <1>2, <1>3, <1>5, <1>6, <1>11, <1>12 DEF BuildInv

\* What holds when an effect is built.
LEMMA BuildState ==
    ASSUME TypeInv, BuildInv, BuildEffect
    PROVE  /\ step \in Nat /\ step >= 1 /\ step - 1 \in Nat /\ step \in DOMAIN prod.fx
           /\ DOMAIN prod.fx = 1 .. Len(prod.fx) /\ Len(prod.fx) \in Nat
           /\ prod.fx[step] \in Effects /\ prod.fx[step].tok \in Tokens
           /\ cand.q \in Seq(Events) /\ cand.arms \in SlotMaps /\ cand.comps \in Seq(Nat)
           /\ prod.causes \in Nat /\ (cur = "fifo" => evq # <<>>)
           /\ pc = "build" /\ QueueBuilt /\ SlotsBuilt /\ PreflightOk(prod, cur = "fifo")
           /\ pc' = "build" /\ step' = step + 1 /\ step' - 1 = step
           /\ UNCHANGED <<evq, arms, cur, prod>> /\ Rest' = Rest /\ Answers' = Answers
<1>1. /\ step \in Nat /\ step >= 1 /\ cand.q \in Seq(Events) /\ cand.arms \in SlotMaps
      /\ prod \in [fx : Seq(Effects), causes : Nat]
  BY LiveTypes
<1>2. pc = "build" /\ step <= Len(prod.fx)
  BY DEF BuildEffect
<1>3. step \in 1 .. Len(prod.fx) /\ prod.fx[step] \in Effects /\ prod.fx[step].tok \in Tokens
  BY <1>1, <1>2, StepInFx
<1>4. cand.comps \in Seq(Nat)
  BY DEF TypeInv, TypeOK
<1>5. QueueBuilt /\ SlotsBuilt /\ PreflightOk(prod, cur = "fifo")
  BY <1>2 DEF BuildInv
<1>6. cur = "fifo" => evq # <<>>
  BY <1>5 DEF PreflightOk
<1>7. pc' = "build" /\ step' = step + 1 /\ UNCHANGED <<evq, arms, cur, prod>>
  BY <1>2 DEF BuildEffect
<1>8. Rest' = Rest /\ Answers' = Answers
  BY <1>7 DEF Rest, Answers
<1> QED
  BY <1>1, <1>2, <1>3, <1>4, <1>5, <1>6, <1>7, <1>8

\* What one effect does to the candidate.
LEMMA BuildCases ==
    ASSUME TypeInv, BuildEffect
    PROVE  LET fx == prod.fx[step]
           IN  \/ /\ fx.op = "set" /\ Active(cand.arms) # Slots
                  /\ cand'.arms = [cand.arms EXCEPT ![FirstFree(cand.arms)] = fx.tok]
                  /\ cand'.q = cand.q /\ cand'.comps = cand.comps
               \/ /\ fx.op = "cancel" /\ fx.tok \in ArmedIn(cand.arms)
                  /\ cand'.arms = [cand.arms EXCEPT ![SlotOf(cand.arms, fx.tok)] = NoTok]
                  /\ cand'.q = cand.q /\ cand'.comps = cand.comps
               \/ /\ fx.op = "svc" /\ cand'.arms = cand.arms
                  /\ cand'.q = Append(cand.q, Completion(fx.tok))
                  /\ cand'.comps = Append(cand.comps, Len(cand.q) + 1)
<1> DEFINE fx == prod.fx[step]
<1>1. cand \in [q : Seq(Events), arms : [Slots -> Tokens \cup {NoTok}], comps : Seq(Nat)]
  BY DEF TypeInv, TypeOK
<1>2. \/ fx.op = "set" /\ BuildSet(fx.tok)
      \/ fx.op = "cancel" /\ BuildCancel(fx.tok)
      \/ fx.op = "svc" /\ BuildCompletion(fx.tok)
  BY DEF BuildEffect
<1> HIDE DEF fx
<1>3. CASE fx.op = "set" /\ BuildSet(fx.tok)
  BY <1>1, <1>3 DEF BuildSet, fx
<1>4. CASE fx.op = "cancel" /\ BuildCancel(fx.tok)
  BY <1>1, <1>4 DEF BuildCancel, fx
<1>5. CASE fx.op = "svc" /\ BuildCompletion(fx.tok)
  BY <1>1, <1>5 DEF BuildCompletion, fx
<1> QED
  BY <1>2, <1>3, <1>4, <1>5

\* A timer effect leaves the candidate queue alone, a service appends its
\* completion.
LEMMA BuildQueue ==
    ASSUME TypeInv, BuildInv, BuildEffect
    PROVE  QueueBuilt'
<1> DEFINE fx == prod.fx[step]
<1>1. /\ step \in Nat /\ step >= 1 /\ step' - 1 = step /\ prod' = prod
      /\ cand.q \in Seq(Events) /\ cand.comps \in Seq(Nat) /\ fx.tok \in Tokens
      /\ prod.causes \in Nat /\ (cur = "fifo" => evq # <<>>)
      /\ QueueBuilt /\ Rest' = Rest /\ Answers' = Answers
  BY BuildState
<1>2. /\ Count(prod.fx, "svc", step - 1) \in Nat
      /\ Count(prod.fx, "svc", step) = Count(prod.fx, "svc", step - 1) + (IF fx.op = "svc" THEN 1 ELSE 0)
  BY <1>1, CountStep
<1>3. /\ Rest \in Seq(Events) /\ Len(Rest) \in Nat /\ Answers \in Nat /\ Len(Rest) <= Answers
  BY <1>1, RestType
<1>4. CASE fx.op # "svc" /\ cand'.q = cand.q /\ cand'.comps = cand.comps
  <2>1. Count(prod'.fx, "svc", step' - 1) = Count(prod.fx, "svc", step - 1)
    BY <1>1, <1>2, <1>4
  <2> QED
    BY <1>1, <1>4, <2>1 DEF QueueBuilt
<1>5. CASE /\ fx.op = "svc"
           /\ cand'.q = Append(cand.q, Completion(fx.tok))
           /\ cand'.comps = Append(cand.comps, Len(cand.q) + 1)
  <2>1. Completion(fx.tok).kind = "svc" /\ Completion(fx.tok).tok = fx.tok
    BY DEF Completion
  <2>2. /\ Len(cand'.q) = Len(cand.q) + 1 /\ Len(cand.q) \in Nat
        /\ \A i \in 1 .. Len(cand.q) : cand'.q[i] = cand.q[i]
        /\ cand'.q[Len(cand.q) + 1] = Completion(fx.tok)
    BY <1>1, <1>5
  <2>3. Len(cand'.comps) = Len(cand.comps) + 1 /\ Len(cand.comps) \in Nat
    BY <1>1, <1>5
  <2> HIDE DEF fx
  <2>4. Len(cand'.comps) = Count(prod'.fx, "svc", step' - 1)
    BY <1>1, <1>2, <1>5, <2>3 DEF QueueBuilt
  <2>5. Len(cand'.q) = Answers + Len(cand'.comps) /\ Len(cand.q) = Answers + Len(cand.comps)
    BY <1>1, <1>3, <2>2, <2>3 DEF QueueBuilt
  <2>6. /\ \A i \in 1 .. Len(Rest) : cand.q[i] = Rest[i]
        /\ \A i \in Len(Rest) + 1 .. Answers : cand.q[i] = Cause
    BY <1>1 DEF QueueBuilt
  <2>7. /\ \A i \in 1 .. Len(Rest) : cand'.q[i] = Rest[i]
        /\ \A i \in Len(Rest) + 1 .. Answers : cand'.q[i] = Cause
    <3>1. Answers <= Len(cand.q)
      BY <1>3, <2>3, <2>5
    <3> QED
      BY <1>3, <2>2, <2>6, <3>1
  <2>8. \A i \in Answers + 1 .. Len(cand'.q) : cand'.q[i].kind = "svc" /\ cand'.q[i].tok \in Tokens
    <3> SUFFICES ASSUME NEW i \in Answers + 1 .. Len(cand'.q)
                 PROVE  cand'.q[i].kind = "svc" /\ cand'.q[i].tok \in Tokens
      OBVIOUS
    <3>1. CASE i = Len(cand.q) + 1
      BY <1>1, <2>1, <2>2, <3>1
    <3>2. CASE i # Len(cand.q) + 1
      <4>1. i \in Answers + 1 .. Len(cand.q) /\ i \in 1 .. Len(cand.q)
        BY <1>3, <2>2, <3>2
      <4> QED
        BY <1>1, <2>2, <4>1 DEF QueueBuilt
    <3> QED
      BY <3>1, <3>2
  <2> QED
    BY <1>1, <2>4, <2>5, <2>7, <2>8 DEF QueueBuilt
<1> QED
  BY <1>4, <1>5, BuildCases

\* A set takes a free slot, a cancel frees the one of its timer, and both
\* leave what the later effects need.
LEMMA BuildSlots ==
    ASSUME TypeInv, BuildInv, BuildEffect
    PROVE  SlotsBuilt'
<1> DEFINE fx == prod.fx
           t == fx[step].tok
           A(a) == Cardinality(Active(a))
<1>1. /\ step \in Nat /\ step >= 1 /\ step' = step + 1 /\ step' - 1 = step /\ prod' = prod /\ arms' = arms
      /\ cand.arms \in SlotMaps /\ t \in Tokens /\ fx[step] \in Effects /\ step \in DOMAIN fx
      /\ DOMAIN fx = 1 .. Len(fx) /\ Len(fx) \in Nat
      /\ SlotsBuilt /\ PreflightOk(prod, cur = "fifo")
  BY BuildState
<1>2. \A op \in {"set", "cancel"} :
         /\ Count(fx, op, step - 1) \in Nat
         /\ Count(fx, op, step) = Count(fx, op, step - 1) + (IF fx[step].op = op THEN 1 ELSE 0)
  <2>1. step \in Nat /\ step >= 1
    BY <1>1
  <2> HIDE DEF fx
  <2> QED
    BY <2>1, CountStep
<1>3. A(arms) \in Nat /\ A(cand.arms) \in Nat
  BY ActiveFinite
<1>4. /\ A(cand.arms) = A(arms) - Count(fx, "cancel", step - 1) + Count(fx, "set", step - 1)
      /\ \A k \in DOMAIN fx : k >= step /\ fx[k].op = "cancel" => fx[k].tok \in ArmedIn(cand.arms)
      /\ \A u \in Armed : \/ u \in ArmedIn(cand.arms)
                          \/ \E k \in DOMAIN fx : fx[k] = [op |-> "cancel", tok |-> u]
  BY <1>1 DEF SlotsBuilt
<1>5. \A k \in DOMAIN fx : fx[k].tok = t => k = step
  BY <1>1 DEF PreflightOk
<1>6. Armed' = Armed
  BY <1>1 DEF Armed
<1> HIDE DEF t
<1>7. SUFFICES
        /\ A(cand'.arms) = A(arms) - Count(fx, "cancel", step) + Count(fx, "set", step)
        /\ \A k \in DOMAIN fx : k >= step + 1 /\ fx[k].op = "cancel" => fx[k].tok \in ArmedIn(cand'.arms)
        /\ \A u \in Armed : \/ u \in ArmedIn(cand'.arms)
                            \/ \E k \in DOMAIN fx : fx[k] = [op |-> "cancel", tok |-> u]
  BY <1>1, <1>6 DEF SlotsBuilt
<1> HIDE DEF A, fx
<1>8. CASE /\ fx[step].op = "set" /\ Active(cand.arms) # Slots
           /\ cand'.arms = [cand.arms EXCEPT ![FirstFree(cand.arms)] = t]
  <2>1. A(cand'.arms) = A(cand.arms) + 1 /\ ArmedIn(cand'.arms) = ArmedIn(cand.arms) \cup {t}
    BY <1>1, <1>8, SetSlot DEF t, A, fx
  <2>2. A(cand'.arms) = A(arms) - Count(fx, "cancel", step) + Count(fx, "set", step)
    BY <1>2, <1>3, <1>4, <1>8, <2>1
  <2>3. \A k \in DOMAIN fx : k >= step + 1 => k >= step
    BY <1>1
  <2> QED
    BY <1>4, <2>1, <2>2, <2>3
<1>9. CASE /\ fx[step].op = "cancel" /\ t \in ArmedIn(cand.arms)
           /\ cand'.arms = [cand.arms EXCEPT ![SlotOf(cand.arms, t)] = NoTok]
  <2>1. /\ A(cand'.arms) = A(cand.arms) - 1
        /\ ArmedIn(cand.arms) \ ArmedIn(cand'.arms) \subseteq {t}
    BY <1>1, <1>9, ClearSlot DEF A
  <2>2. A(cand'.arms) = A(arms) - Count(fx, "cancel", step) + Count(fx, "set", step)
    BY <1>2, <1>3, <1>4, <1>9, <2>1
  <2>3. \A k \in DOMAIN fx : k >= step + 1 => k >= step /\ k # step
    BY <1>1
  <2>4. fx[step] = [op |-> "cancel", tok |-> t]
    BY <1>1, <1>9 DEF Effects, t, fx
  <2> QED
    BY <1>1, <1>4, <1>5, <2>1, <2>2, <2>3, <2>4
<1>10. CASE fx[step].op = "svc" /\ cand'.arms = cand.arms
  <2>1. A(cand'.arms) = A(arms) - Count(fx, "cancel", step) + Count(fx, "set", step)
    BY <1>2, <1>3, <1>4, <1>10
  <2>2. \A k \in DOMAIN fx : k >= step + 1 => k >= step
    BY <1>1
  <2> QED
    BY <1>4, <1>10, <2>1, <2>2
<1> QED
  BY <1>8, <1>9, <1>10, BuildCases DEF t, fx

\* The candidate stays what it is through every effect.
LEMMA BuildKeeps ==
    ASSUME TypeInv, BuildInv, BuildEffect
    PROVE  BuildInv'
<1>1. /\ step \in Nat /\ step \in 1 .. Len(prod.fx) /\ step' = step + 1 /\ Len(prod.fx) \in Nat
      /\ prod' = prod /\ cur' = cur /\ evq' = evq /\ arms' = arms /\ pc = "build" /\ pc' = "build"
  BY BuildState
<1>2. PreflightOk(prod, cur = "fifo") /\ prod.causes \in 0 .. MaxCauses
  BY <1>1 DEF BuildInv
<1>3. PreflightOk(prod, cur = "fifo")'
  BY <1>1, <1>2 DEF PreflightOk, Armed
<1>4. step' <= Len(prod'.fx) + 1
  BY <1>1
<1> QED
  BY <1>1, <1>2, <1>3, <1>4, BuildQueue, BuildSlots DEF BuildInv

\* Whatever the preflight let pass, the builder has room for.
LEMMA BuildCovered ==
    ASSUME TypeInv, BuildInv
    PROVE  PreflightCovers
<1> DEFINE fx == prod.fx
<1> SUFFICES ASSUME pc = "build", step <= Len(prod.fx)
             PROVE  CASE fx[step].op = "set" -> Active(cand.arms) # Slots
                      [] fx[step].op = "cancel" -> fx[step].tok \in ArmedIn(cand.arms)
                      [] fx[step].op = "svc" -> Len(cand.comps) < MaxSvc /\ Len(cand.q) < QCap
                      [] OTHER -> FALSE
  BY DEF PreflightCovers
<1>1. /\ step \in Nat /\ step >= 1 /\ prod \in [fx : Seq(Effects), causes : Nat] /\ evq \in Seq(Events)
      /\ prod.causes \in Nat
  BY LiveTypes
<1>2. step \in 1 .. Len(fx) /\ Len(fx) \in Nat /\ fx[step] \in Effects /\ DOMAIN fx = 1 .. Len(fx)
  BY <1>1, StepInFx
<1>3. /\ PreflightOk(prod, cur = "fifo") /\ QueueBuilt /\ SlotsBuilt
  BY DEF BuildInv
<1>4. \A op \in {"set", "cancel", "svc"} :
         /\ Count(fx, op, step - 1) \in Nat
         /\ Count(fx, op, step) = Count(fx, op, step - 1) + (IF fx[step].op = op THEN 1 ELSE 0)
         /\ Count(fx, op, step) <= Count(fx, op, Len(fx)) /\ Count(fx, op, Len(fx)) \in Nat
  BY <1>1, <1>2, CountStep, CountMonotone, CountType
<1> HIDE DEF fx
<1>5. fx[step].op \in {"set", "cancel", "svc"}
  BY <1>2, <1>3 DEF PreflightOk, Effects, fx
<1>6. CASE fx[step].op = "set"
  <2>1. Cardinality(Active(arms)) - Count(fx, "cancel", step) + Count(fx, "set", step) <= TimerMax
    BY <1>2, <1>3, <1>6 DEF PreflightOk, fx
  <2>2. Cardinality(Active(cand.arms))
           = Cardinality(Active(arms)) - Count(fx, "cancel", step - 1) + Count(fx, "set", step - 1)
    BY <1>3 DEF SlotsBuilt, fx
  <2>3. Cardinality(Active(arms)) \in Nat /\ Cardinality(Active(cand.arms)) \in Nat
    BY ActiveFinite
  <2>4. Cardinality(Active(cand.arms)) < TimerMax
    BY <1>4, <1>6, <2>1, <2>2, <2>3, Caps
  <2> QED
    BY <1>6, <2>4, ActiveFinite
<1>7. CASE fx[step].op = "cancel"
  <2>1. fx[step].tok \in ArmedIn(cand.arms)
    BY <1>1, <1>2, <1>3, <1>7 DEF SlotsBuilt, fx
  <2> QED
    BY <1>7, <2>1
<1>8. CASE fx[step].op = "svc"
  <2>1. /\ Count(fx, "svc", Len(fx)) <= MaxSvc
        /\ Len(evq) - (IF cur = "fifo" THEN 1 ELSE 0) + prod.causes + Count(fx, "svc", Len(fx)) <= QCap
        /\ cur = "fifo" => evq # <<>>
    BY <1>3 DEF PreflightOk, fx
  <2>2. Len(cand.comps) = Count(fx, "svc", step - 1) /\ Len(cand.q) = Answers + Len(cand.comps)
    BY <1>3 DEF QueueBuilt, fx
  <2>3. /\ Answers = Len(Rest) + prod.causes /\ Len(Rest) \in Nat
        /\ Len(Rest) = Len(evq) - (IF cur = "fifo" THEN 1 ELSE 0)
    BY <1>1, <2>1, RestType
  <2>4. Count(fx, "svc", step - 1) + 1 <= Count(fx, "svc", Len(fx))
    BY <1>4, <1>8
  <2>5. /\ Count(fx, "svc", step - 1) \in Nat /\ Count(fx, "svc", Len(fx)) \in Nat
        /\ Len(evq) \in Nat
    BY <1>1, <1>4
  <2>6. Len(cand.comps) < MaxSvc
    BY <2>1, <2>2, <2>4, <2>5, Caps
  <2>7. Len(Rest) + prod.causes + Count(fx, "svc", Len(fx)) <= QCap
    BY <2>1, <2>3
  <2>8. Len(cand.q) = Len(Rest) + prod.causes + Count(fx, "svc", step - 1)
    BY <2>2, <2>3
  <2>9. Len(cand.q) < QCap
    <3>1. ASSUME NEW a \in Nat, NEW b \in Nat, NEW m \in Nat, NEW n \in Nat, m + 1 <= n, a + b + n <= QCap
          PROVE  a + b + m < QCap
      BY <3>1, Caps
    <3>2. Len(Rest) \in Nat /\ prod.causes \in Nat
      BY <1>1, <2>3
    <3>3. Len(Rest) + prod.causes + Count(fx, "svc", step - 1) < QCap
      BY ONLY <2>4, <2>5, <2>7, <3>1, <3>2
    <3> QED
      BY ONLY <2>8, <3>3
  <2> QED
    BY <1>8, <2>6, <2>9
<1> QED
  BY <1>5, <1>6, <1>7, <1>8

\* A candidate is what a commit started and effects extended; any other step
\* leaves it alone, or is not within a build.
LEMMA BuildSteps ==
    ASSUME [Next]_vars, pc' = "build"
    PROVE  \/ SlamCommit \/ BuildEffect
           \/ UNCHANGED <<evq, arms, pc, step, cur, prod, cand, outcome, comps, live>>
<1>1. CASE UNCHANGED vars
  BY <1>1 DEF vars
<1>2. CASE UNCHANGED live /\ Loop
  BY <1>2 DEF Loop, Drain, Drained, PollSlot, Polled, SelectFifo, SelectRx, IdlePoll, SlamTimeout,
              SlamFault, Consumed, SlamCrash, SlamRefused, BuildFault, Publish, ActivateEffect,
              Activated, LegacyRefused, LegacyCommit, Restart
<1>3. CASE Operator
  BY <1>3 DEF Operator, ReplEnq, IrqPush, ReplClear, ReplCrash, EnterLoop, Waits, AtRepl
<1>4. CASE UNCHANGED live /\ \E t \in Tokens : Elapse(t)
  BY <1>4 DEF Elapse
<1> QED
  BY <1>1, <1>2, <1>3, <1>4 DEF Next

\* BuildInv is inductive.
LEMMA BuildInductive == TypeInv /\ BuildInv /\ [Next]_vars => BuildInv'
<1> SUFFICES ASSUME TypeInv, BuildInv, [Next]_vars, pc' = "build"
             PROVE  BuildInv'
  BY DEF BuildInv
<1>1. CASE SlamCommit
  BY <1>1, CommitBuilds
<1>2. CASE BuildEffect
  BY <1>2, BuildKeeps
<1>3. CASE UNCHANGED <<evq, arms, pc, step, cur, prod, cand, outcome, comps, live>>
  <2>1. /\ Rest' = Rest /\ Answers' = Answers /\ Armed' = Armed
        /\ PreflightOk(prod, cur = "fifo")' = PreflightOk(prod, cur = "fifo")
    BY <1>3 DEF Rest, Answers, Armed, PreflightOk
  <2> QED
    BY <1>3, <2>1 DEF BuildInv, QueueBuilt, SlotsBuilt
<1> QED
  BY <1>1, <1>2, <1>3, BuildSteps

\* BuildInv, of every execution.
LEMMA Built == Spec => [](TypeInv /\ BuildInv)
<1>1. Init => BuildInv
  BY DEF Init, BuildInv
<1> QED
  BY <1>1, InitTypes, NextTypes, BuildInductive, PTL DEF Spec

\* An accepted product never finds the registry or the FIFO full, nor a
\* cancelled timer missing (PreflightCovers): the divergence the builder
\* refuses ("preflight/timer candidate divergence") cannot happen, whatever
\* the caps, the product and the order of its effects.
THEOREM PreflightSuffices == Spec => []PreflightCovers
<1>1. TypeInv /\ BuildInv => PreflightCovers
  BY BuildCovered
<1> QED
  BY <1>1, Built, PTL

-----------------------------------------------------------------------------
(* Timers and the waiting events.                                          *)

\* An armed timer leaves the registry only as a queued event, by a committed
\* cancel, or by a crash or the operator (TimersKept): not with a fault, a
\* refusal, an aborted build or a full FIFO.
THEOREM TimersStayArmed == Spec => TimersKept
<1> DEFINE Gone(t) ==
        \/ live /\ evq' = Append(evq, Event("timer", t))
        \/ pc = "build" /\ pc' = "activate" /\ [op |-> "cancel", tok |-> t] \in Range(prod.fx)
        \/ LegacyCommit \/ SlamCrash \/ pc = "repl"
<1>1. ASSUME TypeInv, BuildInv, Next, NEW t \in Armed \ ArmedIn(arms')
      PROVE  Gone(t)
  <2>1. arms' # arms
    BY <1>1 DEF Armed
  <2>2. CASE PollSlot
    <3>1. live /\ evq' = Append(evq, Event("timer", arms[step])) /\ arms' = [arms EXCEPT ![step] = NoTok]
      BY <2>1, <2>2 DEF PollSlot, FireI2, FireLegacy
    <3>2. arms \in SlotMaps
      BY <1>1, LiveTypes
    <3>3. \A s \in Slots : s # step => arms'[s] = arms[s]
      BY <3>1, <3>2 DEF SlotMaps
    <3>4. t = arms[step]
      BY <1>1, <3>3 DEF Armed, ArmedIn
    <3> QED
      BY <3>1, <3>4
  <2>3. CASE Publish
    <3>1. pc = "build" /\ pc' = "activate" /\ arms' = cand.arms
      BY <2>3 DEF Publish
    <3>2. SlotsBuilt
      BY <1>1, <3>1 DEF BuildInv
    <3>3. \E k \in DOMAIN prod.fx : prod.fx[k] = [op |-> "cancel", tok |-> t]
      BY <1>1, <3>1, <3>2 DEF SlotsBuilt
    <3> QED
      BY <3>1, <3>3 DEF Range
  <2>4. CASE LegacyCommit \/ SlamCrash
    BY <2>4
  <2>5. CASE Operator
    BY <2>5 DEF Operator, ReplEnq, IrqPush, ReplClear, ReplCrash, EnterLoop, AtRepl
  <2> QED
    BY <1>1, <2>1, <2>2, <2>3, <2>4, <2>5
       DEF Next, Loop, Elapse, Drain, Drained, Polled, SelectFifo, SelectRx, IdlePoll, SlamTimeout,
           SlamFault, Consumed, SlamRefused, SlamCommit, BuildEffect, BuildFault,
           ActivateEffect, Activated, LegacyRefused
<1>2. TypeInv /\ BuildInv /\ [Next]_vars => [\A t \in Armed \ ArmedIn(arms') : Gone(t)]_vars
  BY <1>1
<1> QED
  BY <1>2, Built, PTL DEF Spec, TimersKept

\* A queue that another one starts with, but for the outcomes of services.
LEMMA PrefixOfShape ==
    ASSUME NEW q \in Seq(Events), NEW r \in Seq(Events), Len(q) <= Len(r),
           \A i \in 1 .. Len(q) : r[i].kind = q[i].kind /\ r[i].tok = q[i].tok
    PROVE  IsPrefix(Shape(q), Shape(r))
<1>1. Len(q) \in Nat /\ DOMAIN q = 1 .. Len(q) /\ Len(r) \in Nat /\ DOMAIN r = 1 .. Len(r)
  OBVIOUS
<1> DEFINE Item(e) == [kind |-> e.kind, tok |-> e.tok]
<1>2. Shape(q) = [i \in 1 .. Len(q) |-> Item(q[i])] /\ Shape(r) = [i \in 1 .. Len(r) |-> Item(r[i])]
  BY <1>1 DEF Shape
<1>3. Len(Shape(q)) = Len(q) /\ Len(Shape(r)) = Len(r)
  BY <1>1, <1>2
<1>4. \A i \in 1 .. Len(q) : Item(r[i]) = Item(q[i])
  OBVIOUS
<1> HIDE DEF Item
<1>5. \A i \in 1 .. Len(q) : Shape(r)[i] = Shape(q)[i]
  BY <1>1, <1>2, <1>4
<1> DEFINE s == Shape(q)
           t == Shape(r)
<1> HIDE DEF s, t
<1>6. SubSeq(s, 1, Len(q)) = SubSeq(t, 1, Len(q))
  BY <1>1, <1>5 DEF s, t
<1> QED
  BY <1>3, <1>6 DEF IsPrefix, s, t

\* A queue starts with itself, and with itself when an event joins it.
LEMMA PrefixGrows ==
    ASSUME NEW q \in Seq(Events), NEW e \in Events
    PROVE  /\ IsPrefix(Shape(q), Shape(q)) /\ IsPrefix(Shape(q), Shape(Append(q, e)))
           /\ IsPrefix(Shape(q), Shape(Enq(q, e)))
<1>1. Append(q, e) \in Seq(Events) /\ Len(q) <= Len(Append(q, e)) /\ Len(q) <= Len(q)
  OBVIOUS
<1>2. \A i \in 1 .. Len(q) : Append(q, e)[i] = q[i]
  OBVIOUS
<1>3. IsPrefix(Shape(q), Shape(q)) /\ IsPrefix(Shape(q), Shape(Append(q, e)))
  BY <1>1, <1>2, PrefixOfShape
<1> QED
  BY <1>3 DEF Enq

\* Serving an event drops, reorders or overwrites none of those behind it
\* (WaitingKept), whatever becomes of it, for every queue and every product.
THEOREM WaitingStays == Spec => WaitingKept
<1> DEFINE Kept == \/ ~live \/ SlamCrash \/ pc = "repl"
                   \/ \E kept \in {Waiting, evq} : IsPrefix(Shape(kept), Shape(evq'))
<1>1. ASSUME TypeInv, BuildInv, Next
      PROVE  Kept
  <2>1. evq \in Seq(Events) /\ External \in Events
    BY <1>1, LiveTypes, PlainEvents
  <2>2. CASE evq' = evq
    BY <2>1, <2>2, PrefixGrows
  <2>3. CASE evq' = Waiting
    <3>1. Waiting \in Seq(Events)
      BY <2>1 DEF Waiting
    <3> QED
      BY <2>1, <2>3, <3>1, PrefixGrows
  <2>4. CASE evq' = Enq(evq, External)
    BY <2>1, <2>4, PrefixGrows
  <2>5. CASE live /\ PollSlot
    <3>1. CASE evq' = Append(evq, Event("timer", arms[step])) /\ arms[step] \in due
      <4>1. Event("timer", arms[step]) \in Events
        BY <1>1, <3>1, PlainEvents DEF TypeInv, TypeOK
      <4> QED
        BY <2>1, <3>1, <4>1, PrefixGrows
    <3> QED
      BY <2>2, <2>5, <3>1 DEF PollSlot, FireI2
  <2>6. CASE Consumed
    BY <2>2, <2>3, <2>6 DEF Consumed, ConsumeTerminal, Deq, Waiting
  <2>7. CASE Publish
    <3>1. pc = "build" /\ evq' = cand.q
      BY <2>7 DEF Publish
    <3>2. QueueBuilt /\ (cur = "fifo" => evq # <<>>) /\ prod.causes \in Nat
      BY <1>1, <3>1, LiveTypes DEF BuildInv, PreflightOk
    <3>3. /\ Rest \in Seq(Events) /\ Len(Rest) \in Nat /\ Answers = Len(Rest) + prod.causes
          /\ cand.q \in Seq(Events) /\ Rest = Waiting
      BY <1>1, <3>2, RestType, LiveTypes DEF Rest, Waiting
    <3>4. Len(cand.comps) \in Nat
      BY <1>1 DEF TypeInv, TypeOK
    <3>5. Len(Rest) <= Len(cand.q)
      BY <3>2, <3>3, <3>4 DEF QueueBuilt
    <3>6. \A i \in 1 .. Len(Rest) : cand.q[i] = Rest[i]
      BY <3>2 DEF QueueBuilt
    <3> QED
      BY <3>1, <3>3, <3>5, <3>6, PrefixOfShape
  <2>8. CASE ActivateEffect
    <3>1. CASE Count(prod.fx, "svc", step) <= Len(comps) /\ prod.fx[step].op = "svc"
      <4> DEFINE k == comps[Count(prod.fx, "svc", step)]
      <4>1. PICK st \in {"ok", "fail"} : evq' = [evq EXCEPT ![k].st = st]
        BY <2>8, <3>1 DEF ActivateEffect
      <4> HIDE DEF k
      <4>2. evq' \in Seq(Events) /\ Len(evq') = Len(evq) /\ Len(evq) \in Nat
        <5>1. \A i : /\ [evq EXCEPT ![i].st = st] \in Seq(Events)
                     /\ Len([evq EXCEPT ![i].st = st]) = Len(evq)
          BY ONLY <2>1, AnswerTypes
        <5>2. Len(evq) \in Nat
          BY <2>1
        <5> QED
          BY ONLY <4>1, <5>1, <5>2
      <4>3. \A i \in 1 .. Len(evq) : evq[i] \in Events /\ evq'[i] \in {evq[i], [evq[i] EXCEPT !.st = st]}
        <5>1. DOMAIN evq = 1 .. Len(evq) /\ \A i \in 1 .. Len(evq) : evq[i] \in Events
          BY <2>1
        <5>2. \A i \in DOMAIN evq : evq'[i] = IF i = k THEN [evq[i] EXCEPT !.st = st] ELSE evq[i]
          BY <4>1
        <5> QED
          BY <5>1, <5>2
      <4>4. \A i \in 1 .. Len(evq) : evq'[i].kind = evq[i].kind /\ evq'[i].tok = evq[i].tok
        BY <4>3 DEF Events
      <4> QED
        BY <2>1, <4>2, <4>4, PrefixOfShape
    <3> QED
      BY <2>2, <2>8, <3>1 DEF ActivateEffect
  <2>9. CASE Operator
    BY <2>9 DEF Operator, ReplEnq, IrqPush, ReplClear, ReplCrash, EnterLoop, AtRepl
  <2>10. CASE Drain
    BY <2>4, <2>10 DEF Drain
  <2>11. CASE live /\ SelectFifo
    BY <2>2, <2>11 DEF SelectFifo
  <2> QED
    BY <1>1, <2>2, <2>5, <2>6, <2>7, <2>8, <2>9, <2>10, <2>11
       DEF Next, Loop, Elapse, Drained, Polled, SelectRx, IdlePoll, SlamTimeout,
           SlamFault, SlamRefused, SlamCommit, BuildEffect, BuildFault, Activated,
           LegacyRefused, LegacyCommit
<1>2. TypeInv /\ BuildInv /\ [Next]_vars => [Kept]_vars
  BY <1>1
<1> QED
  BY <1>2, Built, PTL DEF Spec, WaitingKept

-----------------------------------------------------------------------------
(* Completions.                                                            *)

\* One queued completion at most for a token: its cell is found by the token.
SvcOnce(q) ==
    \A i, j \in DOMAIN q :
        q[i].kind = "svc" =>
            /\ q[i].tok \in Tokens
            /\ q[j].kind = "svc" /\ q[j].tok = q[i].tok => j = i

\* A completion tells the outcome o of its service.
Told(e, o) == e.kind = "svc" => e.st = o[e.tok]
AllTold(q, o) == \A i \in DOMAIN q : Told(q[i], o)

\* Effect k requests service t, and its cell is where the builder put it.
Asked(k, t) == prod.fx[k] = [op |-> "svc", tok |-> t]
CellOf(q, cells, k) ==
    LET n == Count(prod.fx, "svc", k)
    IN  /\ n \in DOMAIN cells /\ cells[n] \in DOMAIN q
        /\ q[cells[n]].kind = "svc" /\ q[cells[n]].tok = prod.fx[k].tok

\* While it is built: the services behind the step have their cells, those
\* ahead have none, and only the former wait for their outcome.
AnswersBuilt ==
    /\ SvcOnce(cand.q)
    /\ \A k \in DOMAIN prod.fx : prod.fx[k].op = "svc" =>
          IF k < step THEN CellOf(cand.q, cand.comps, k)
                      ELSE \A i \in DOMAIN cand.q : cand.q[i].kind = "svc" => cand.q[i].tok # prod.fx[k].tok
    /\ \A i \in DOMAIN cand.q : Told(cand.q[i], outcome) \/ \E k \in 1 .. step - 1 : Asked(k, cand.q[i].tok)

\* While it is activated: only the services ahead wait for their outcome.
AnswersAwaited ==
    /\ step <= Len(prod.fx) + 1
    /\ \A i, j \in DOMAIN prod.fx : prod.fx[i].tok = prod.fx[j].tok => i = j
    /\ \A k \in DOMAIN prod.fx : prod.fx[k].op = "svc" => CellOf(evq, comps, k)
    /\ \A i \in DOMAIN evq : Told(evq[i], outcome) \/ \E k \in step .. Len(prod.fx) : Asked(k, evq[i].tok)

AnswerInv ==
    /\ SvcOnce(evq)
    /\ pc # "activate" => AllTold(evq, outcome)
    /\ pc = "build" => AnswersBuilt
    /\ pc = "activate" => AnswersAwaited

\* A queue stays truthful when its head leaves, and when an event that is no
\* completion joins it.
LEMMA ToldAppend ==
    ASSUME NEW q \in Seq(Events), NEW o, SvcOnce(q), AllTold(q, o), NEW e \in Events, e.kind # "svc"
    PROVE  SvcOnce(Append(q, e)) /\ AllTold(Append(q, e), o)
<1> DEFINE r == Append(q, e)
<1>1. \A i \in DOMAIN r : (i \in DOMAIN q /\ r[i] = q[i]) \/ r[i] = e
  OBVIOUS
<1> HIDE DEF r
<1>2. SvcOnce(r) /\ AllTold(r, o)
  BY <1>1 DEF SvcOnce, AllTold, Told
<1> QED
  BY <1>2 DEF r

LEMMA ToldEnq ==
    ASSUME NEW q \in Seq(Events), NEW o, SvcOnce(q), AllTold(q, o)
    PROVE  SvcOnce(Enq(q, External)) /\ AllTold(Enq(q, External), o)
<1>1. External \in Events /\ External.kind # "svc"
  BY PlainEvents DEF External, Event
<1> QED
  BY <1>1, ToldAppend DEF Enq

LEMMA ToldTail ==
    ASSUME NEW q \in Seq(Events), NEW o, SvcOnce(q), AllTold(q, o), q # <<>>
    PROVE  SvcOnce(Tail(q)) /\ AllTold(Tail(q), o)
<1> DEFINE r == Tail(q)
<1>1. \A i \in DOMAIN r : i + 1 \in DOMAIN q /\ r[i] = q[i + 1] /\ i \in Nat
  OBVIOUS
<1> HIDE DEF r
<1>2. \A i, j \in DOMAIN r : i + 1 = j + 1 => i = j
  BY <1>1
<1>3. SvcOnce(r)
  BY <1>1, <1>2 DEF SvcOnce
<1>4. AllTold(r, o)
  BY <1>1 DEF AllTold, Told
<1> QED
  BY <1>3, <1>4 DEF r

LEMMA ToldCauses ==
    ASSUME NEW q \in Seq(Events), NEW o, SvcOnce(q), AllTold(q, o), NEW n \in Nat
    PROVE  LET r == q \o [i \in 1 .. n |-> Cause]
           IN  /\ SvcOnce(r) /\ AllTold(r, o) /\ r \in Seq(Events)
               /\ \A i \in DOMAIN r : r[i].kind = "svc" => i \in DOMAIN q /\ r[i] = q[i]
<1> DEFINE c == [i \in 1 .. n |-> Cause]
           r == q \o c
<1>1. c \in Seq(Events) /\ Len(c) = n /\ \A i \in 1 .. n : c[i] = Cause
  BY CausesType
<1>2. Cause.kind # "svc"
  BY DEF Cause, Event
<1> HIDE DEF c
<1>3. /\ r \in Seq(Events) /\ Len(r) = Len(q) + n /\ Len(q) \in Nat
      /\ \A i \in 1 .. Len(q) : r[i] = q[i]
      /\ \A i \in Len(q) + 1 .. Len(q) + n : r[i] = Cause
  <2>1. /\ r \in Seq(Events) /\ Len(r) = Len(q) + Len(c) /\ Len(q) \in Nat
        /\ \A i \in 1 .. Len(q) : r[i] = q[i]
        /\ \A i \in Len(q) + 1 .. Len(q) + Len(c) : i - Len(q) \in 1 .. Len(c) /\ r[i] = c[i - Len(q)]
    BY <1>1, JoinedAt
  <2> HIDE DEF r
  <2> QED
    BY <1>1, <2>1
<1>4. DOMAIN r = 1 .. Len(r) /\ DOMAIN q = 1 .. Len(q)
  BY <1>3
<1> HIDE DEF r
<1>5. \A i \in DOMAIN r : r[i].kind = "svc" => i \in DOMAIN q /\ r[i] = q[i]
  BY <1>2, <1>3, <1>4
<1>6. SvcOnce(r) /\ AllTold(r, o)
  BY <1>5 DEF SvcOnce, AllTold, Told
<1> QED
  BY <1>3, <1>5, <1>6 DEF r, c

\* Every effect of a product is one the gate can ask for.
LEMMA GateAnswers == \A p \in Products : \A k \in DOMAIN p.fx : p.fx[k] \in GateEffects
BY DEF Products, SeqOf

\* The services a commit requests are new to the queue.
LEMMA CommitAnswers ==
    ASSUME TypeInv, AnswerInv, SlamCommit
    PROVE  AnswerInv'
<1>1. PICK p \in Products :
         /\ PreflightOk(p, cur = "fifo")
         /\ prod' = p
         /\ cand' = [q |-> (IF cur = "fifo" THEN Tail(evq) ELSE evq)
                            \o [i \in 1 .. p.causes |-> Cause],
                     arms |-> arms, comps |-> <<>>]
  BY DEF SlamCommit
<1>2. pc = "slam" /\ pc' = "build" /\ step' = 1 /\ UNCHANGED <<evq, outcome>>
  BY DEF SlamCommit
<1>3. p.fx \in Seq(Effects) /\ p.causes \in Nat /\ evq \in Seq(Events)
  BY ProductType, LiveTypes DEF TypeInv
<1>4. SvcOnce(evq) /\ AllTold(evq, outcome)
  BY <1>2 DEF AnswerInv
<1> DEFINE rest == IF cur = "fifo" THEN Tail(evq) ELSE evq
           q == rest \o [i \in 1 .. p.causes |-> Cause]
<1>5. cur = "fifo" => evq # <<>>
  BY <1>1 DEF PreflightOk
<1>6. /\ rest \in Seq(Events) /\ SvcOnce(rest) /\ AllTold(rest, outcome)
      /\ \A i \in DOMAIN rest : \E j \in DOMAIN evq : rest[i] = evq[j]
  <2>1. CASE cur = "fifo"
    BY <1>3, <1>4, <1>5, <2>1, ToldTail
  <2>2. CASE cur # "fifo"
    BY <1>3, <1>4, <2>2
  <2> QED
    BY <2>1, <2>2
<1>7. cand'.q = q
  BY <1>1
<1> HIDE DEF rest
<1>8. /\ SvcOnce(q) /\ AllTold(q, outcome)
      /\ \A i \in DOMAIN q : q[i].kind = "svc" => i \in DOMAIN rest /\ q[i] = rest[i]
  BY <1>3, <1>6, ToldCauses
<1> HIDE DEF q
<1>9. ASSUME NEW k \in DOMAIN p.fx, p.fx[k].op = "svc", NEW i \in DOMAIN q, q[i].kind = "svc"
      PROVE  q[i].tok # p.fx[k].tok
  <2>1. p.fx[k] \in GateEffects
    BY <1>9, GateAnswers
  <2>2. p.fx[k].tok \in Fresh
    BY <1>9, <2>1 DEF GateEffects
  <2>3. PICK j \in DOMAIN evq : q[i] = evq[j]
    BY <1>6, <1>8, <1>9
  <2> QED
    BY <2>2, <2>3, TokenAssumption DEF Fresh, QueuedTokens
<1>10. \A k \in DOMAIN p.fx : ~ (k < 1)
  BY <1>3
<1>11. AnswersBuilt'
  BY <1>1, <1>2, <1>7, <1>8, <1>9, <1>10 DEF AnswersBuilt, AllTold
<1> QED
  BY <1>2, <1>4, <1>11 DEF AnswerInv

\* Counts of services are the positions of the cells.
LEMMA CellNumbers ==
    ASSUME NEW fx \in Seq(Effects), NEW k \in DOMAIN fx, fx[k].op = "svc", NEW n \in Nat, k <= n
    PROVE  /\ Count(fx, "svc", k) \in Nat /\ Count(fx, "svc", k) >= 1
           /\ Count(fx, "svc", k) <= Count(fx, "svc", n) /\ Count(fx, "svc", n) \in Nat
<1>1. k \in Nat /\ k >= 1
  OBVIOUS
<1> QED
  BY <1>1, CountsItself, CountMonotone, CountType

\* Where the events of a queue are that one more has joined.
LEMMA AppendAt ==
    ASSUME NEW q \in Seq(Events), NEW e \in Events
    PROVE  LET r == Append(q, e)
               n == Len(q) + 1
           IN  /\ \A i \in DOMAIN r : (i \in DOMAIN q /\ r[i] = q[i]) \/ (i = n /\ r[i] = e)
               /\ n \in DOMAIN r /\ r[n] = e
<1> DEFINE r == Append(q, e)
           n == Len(q) + 1
<1>1. DOMAIN r = 1 .. n /\ DOMAIN q = 1 .. Len(q) /\ Len(q) \in Nat
  OBVIOUS
<1>2. (\A i \in DOMAIN q : r[i] = q[i]) /\ r[n] = e
  OBVIOUS
<1>3. \A i \in 1 .. n : i \in 1 .. Len(q) \/ i = n
  BY <1>1
<1>4. n \in 1 .. n
  BY <1>1
<1> HIDE DEF r, n
<1>5. /\ \A i \in DOMAIN r : (i \in DOMAIN q /\ r[i] = q[i]) \/ (i = n /\ r[i] = e)
      /\ n \in DOMAIN r /\ r[n] = e
  BY <1>1, <1>2, <1>3, <1>4
<1> QED
  BY <1>5 DEF r, n

\* A cell stays a cell when the queue and the cells grow behind it.
LEMMA CellGrows ==
    ASSUME NEW q \in Seq(Events), NEW cells \in Seq(Nat), NEW k, CellOf(q, cells, k),
           NEW e, NEW n
    PROVE  CellOf(Append(q, e), Append(cells, n), k)
<1> DEFINE c == Count(prod.fx, "svc", k)
           r == Append(q, e)
           d == Append(cells, n)
<1>1. /\ c \in DOMAIN cells /\ cells[c] \in DOMAIN q
      /\ q[cells[c]].kind = "svc" /\ q[cells[c]].tok = prod.fx[k].tok
  BY DEF CellOf
<1> HIDE DEF c
<1>2. c \in DOMAIN d /\ d[c] = cells[c]
  BY <1>1
<1>3. \A i \in DOMAIN q : i \in DOMAIN r /\ r[i] = q[i]
  OBVIOUS
<1> HIDE DEF r, d
<1>4. d[c] \in DOMAIN r /\ r[d[c]] = q[cells[c]]
  BY <1>1, <1>2, <1>3
<1> QED
  BY <1>1, <1>2, <1>4 DEF CellOf, c, d, r

\* A service takes the cell at the end of the queue, and waits for its outcome.
LEMMA BuildAnswers ==
    ASSUME TypeInv, BuildInv, AnswerInv, BuildEffect
    PROVE  AnswerInv'
<1> DEFINE fx == prod.fx
           t == fx[step].tok
<1>1. /\ step \in Nat /\ step >= 1 /\ step \in DOMAIN fx /\ fx[step] \in Effects /\ t \in Tokens
      /\ cand.q \in Seq(Events) /\ cand.comps \in Seq(Nat) /\ prod' = prod
      /\ pc = "build" /\ pc' = "build" /\ step' = step + 1 /\ step' - 1 = step
      /\ DOMAIN fx = 1 .. Len(fx) /\ Len(fx) \in Nat
  BY BuildState
<1>2. fx \in Seq(Effects) /\ \A i, j \in DOMAIN fx : fx[i].tok = fx[j].tok => i = j
  BY <1>1, LiveTypes DEF BuildInv, PreflightOk
<1>3. UNCHANGED <<evq, outcome>>
  BY DEF BuildEffect
<1>4. SvcOnce(evq) /\ AllTold(evq, outcome) /\ AnswersBuilt
  BY <1>1 DEF AnswerInv
<1>5. \A k \in DOMAIN fx : k < step + 1 => k < step \/ k = step
  BY <1>1
<1>6. \A k \in 1 .. step - 1 : k \in 1 .. step
  BY <1>1
<1>7. \A k \in DOMAIN fx : ~ (k < step + 1) => ~ (k < step) /\ k # step
  BY <1>1
<1> HIDE DEF fx, t
<1>8. AnswersBuilt'
  <2>1. CASE fx[step].op # "svc" /\ cand'.q = cand.q /\ cand'.comps = cand.comps
    <3>1. ASSUME NEW k \in DOMAIN fx, fx[k].op = "svc"
          PROVE  IF k < step + 1 THEN CellOf(cand.q, cand.comps, k)
                 ELSE \A i \in DOMAIN cand.q : cand.q[i].kind = "svc" => cand.q[i].tok # fx[k].tok
      <4>1. k # step
        BY <2>1, <3>1
      <4>2. k < step + 1 <=> k < step
        BY <1>5, <1>7, <4>1
      <4>3. IF k < step THEN CellOf(cand.q, cand.comps, k)
            ELSE \A i \in DOMAIN cand.q : cand.q[i].kind = "svc" => cand.q[i].tok # fx[k].tok
        BY <1>4, <3>1 DEF AnswersBuilt, fx
      <4> QED
        BY <4>2, <4>3
    <3>2. \A i \in DOMAIN cand.q :
             Told(cand.q[i], outcome) \/ \E k \in 1 .. step : Asked(k, cand.q[i].tok)
      BY <1>4, <1>6 DEF AnswersBuilt
    <3>3. /\ \A k : CellOf(cand.q, cand.comps, k)' <=> CellOf(cand.q, cand.comps, k)
          /\ \A k, u : Asked(k, u)' <=> Asked(k, u)
      BY <1>1, <2>1 DEF CellOf, Asked
    <3>4. SvcOnce(cand.q)
      BY <1>4 DEF AnswersBuilt
    <3> QED
      BY <1>1, <1>3, <2>1, <3>1, <3>2, <3>3, <3>4 DEF AnswersBuilt, fx
  <2>2. CASE /\ fx[step].op = "svc" /\ cand'.q = Append(cand.q, Completion(t))
             /\ cand'.comps = Append(cand.comps, Len(cand.q) + 1)
    <3> DEFINE q == cand'.q
               n == Len(cand.q) + 1
    <3>1. /\ Completion(t).kind = "svc" /\ Completion(t).tok = t
      BY DEF Completion
    <3>2. /\ \A i \in DOMAIN q : (i \in DOMAIN cand.q /\ q[i] = cand.q[i]) \/ (i = n /\ q[i] = Completion(t))
          /\ n \in DOMAIN q /\ q[n] = Completion(t)
      <4>1. Completion(t) \in Events
        BY <1>1, PlainEvents
      <4>2. q = Append(cand.q, Completion(t))
        BY <2>2
      <4> HIDE DEF q, n
      <4> QED
        BY ONLY <1>1, <4>1, <4>2, AppendAt DEF n
    <3> HIDE DEF q, n
    <3>3. \A i \in DOMAIN cand.q : cand.q[i].kind = "svc" => cand.q[i].tok # t
      <4>1. ~ (step < step)
        BY <1>1
      <4> QED
        BY <1>1, <1>4, <2>2, <4>1 DEF AnswersBuilt, fx, t
    <3>4. SvcOnce(q)
      <4>1. SvcOnce(cand.q)
        BY <1>4 DEF AnswersBuilt
      <4> QED
        BY <1>1, <3>1, <3>2, <3>3, <4>1 DEF SvcOnce
    <3>5. ASSUME NEW k \in DOMAIN fx, fx[k].op = "svc", k < step + 1
          PROVE  CellOf(q, cand'.comps, k)
      <4>1. CASE k < step
        <5>1. CellOf(cand.q, cand.comps, k)
          BY <1>4, <3>5, <4>1 DEF AnswersBuilt, fx
        <5> QED
          BY <1>1, <2>2, <5>1, CellGrows DEF q
      <4>2. CASE k = step
        <5>1. Len(cand.comps) = Count(fx, "svc", step - 1)
          BY <1>1 DEF BuildInv, QueueBuilt, fx
        <5>2. Count(fx, "svc", step) = Count(fx, "svc", step - 1) + 1
          BY <1>1, <2>2, CountStep
        <5>3. DOMAIN cand'.comps = 1 .. Len(cand.comps) + 1 /\ cand'.comps[Len(cand.comps) + 1] = n
              /\ Len(cand.comps) \in Nat
          BY <1>1, <2>2 DEF n
        <5>4. Count(fx, "svc", step) \in DOMAIN cand'.comps /\ cand'.comps[Count(fx, "svc", step)] = n
          BY <5>1, <5>2, <5>3
        <5> QED
          BY <3>1, <3>2, <4>2, <5>4 DEF CellOf, fx, t
      <4> QED
        BY <1>5, <3>5, <4>1, <4>2
    <3>6. ASSUME NEW k \in DOMAIN fx, fx[k].op = "svc", ~ (k < step + 1),
                 NEW i \in DOMAIN q, q[i].kind = "svc"
          PROVE  q[i].tok # fx[k].tok
      <4>1. CASE i \in DOMAIN cand.q /\ q[i] = cand.q[i]
        BY <1>4, <1>7, <3>6, <4>1 DEF AnswersBuilt, fx
      <4>2. CASE q[i] = Completion(t)
        BY <1>1, <1>2, <1>7, <3>1, <3>6, <4>2 DEF t
      <4> QED
        BY <3>2, <3>6, <4>1, <4>2
    <3>7. ASSUME NEW i \in DOMAIN q
          PROVE  Told(q[i], outcome) \/ \E k \in 1 .. step : Asked(k, q[i].tok)
      <4>1. CASE i \in DOMAIN cand.q /\ q[i] = cand.q[i]
        BY <1>4, <1>6, <4>1 DEF AnswersBuilt
      <4>2. CASE q[i] = Completion(t)
        <5>1. fx[step] = [op |-> "svc", tok |-> t]
          BY <1>1, <2>2 DEF Effects, t
        <5> QED
          BY <1>1, <3>1, <4>2, <5>1 DEF Asked, fx
      <4> QED
        BY <3>2, <4>1, <4>2
    <3>8. \A k : CellOf(cand.q, cand.comps, k)' <=> CellOf(q, cand'.comps, k)
      BY <1>1 DEF CellOf, q
    <3>9. \A k, u : Asked(k, u)' <=> Asked(k, u)
      BY <1>1 DEF Asked
    <3> QED
      BY <1>1, <1>3, <3>4, <3>5, <3>6, <3>7, <3>8, <3>9 DEF AnswersBuilt, fx, q
  <2> QED
    BY <2>1, <2>2, BuildCases DEF fx, t
<1> QED
  BY <1>1, <1>3, <1>4, <1>8 DEF AnswerInv

\* What is published waits for the outcomes the product asks for, no other.
LEMMA PublishAnswers ==
    ASSUME TypeInv, BuildInv, AnswerInv, Publish
    PROVE  AnswerInv'
<1> DEFINE fx == prod.fx
<1>1. /\ pc = "build" /\ pc' = "activate" /\ step = Len(fx) + 1 /\ step' = 1 /\ prod' = prod
      /\ evq' = cand.q /\ comps' = cand.comps
      /\ outcome' = [t \in Tokens |-> IF \E k \in DOMAIN fx : Asked(k, t) THEN "none" ELSE outcome[t]]
  BY DEF Publish, Asked
<1>2. AnswersBuilt
  BY <1>1 DEF AnswerInv
<1>3. fx \in Seq(Effects) /\ DOMAIN fx = 1 .. Len(fx) /\ Len(fx) \in Nat
  BY LiveTypes
<1>4. \A i, j \in DOMAIN fx : fx[i].tok = fx[j].tok => i = j
  BY <1>1 DEF BuildInv, PreflightOk
<1>5. \A k \in DOMAIN fx : k < step
  BY <1>1, <1>3
<1>6. step - 1 = Len(fx) /\ 1 <= Len(fx) + 1
  BY <1>1, <1>3
<1> HIDE DEF fx
<1>7. \A k \in DOMAIN fx : fx[k].op = "svc" => CellOf(cand.q, cand.comps, k)
  BY <1>2, <1>5 DEF AnswersBuilt, fx
<1>8. ASSUME NEW i \in DOMAIN cand.q
      PROVE  Told(cand.q[i], outcome') \/ \E k \in DOMAIN fx : Asked(k, cand.q[i].tok)
  <2>1. Told(cand.q[i], outcome) \/ \E k \in DOMAIN fx : Asked(k, cand.q[i].tok)
    BY <1>2, <1>3, <1>6 DEF AnswersBuilt
  <2>2. cand.q[i].kind = "svc" => cand.q[i].tok \in Tokens
    BY <1>2 DEF AnswersBuilt, SvcOnce
  <2> QED
    BY <1>1, <2>1, <2>2 DEF Told
<1>9. SvcOnce(evq')
  BY <1>1, <1>2 DEF AnswersBuilt
<1>10. (\A k : CellOf(evq, comps, k)' <=> CellOf(cand.q, cand.comps, k)) /\ \A k, t : Asked(k, t)' <=> Asked(k, t)
  BY <1>1 DEF CellOf, Asked
<1>11. AnswersAwaited'
  BY <1>1, <1>3, <1>4, <1>6, <1>7, <1>8, <1>10 DEF AnswersAwaited, fx
<1> QED
  BY <1>1, <1>9, <1>11 DEF AnswerInv

\* The driver's outcome is written into the cell of its service, the only
\* event of that token.
LEMMA ActivateAnswers ==
    ASSUME TypeInv, AnswerInv, ActivateEffect
    PROVE  AnswerInv'
<1> DEFINE fx == prod.fx
           t == fx[step].tok
           c == comps[Count(fx, "svc", step)]
<1>1. /\ pc = "activate" /\ pc' = "activate" /\ step <= Len(fx) /\ step' = step + 1
      /\ UNCHANGED <<prod, comps>>
  BY DEF ActivateEffect
<1>2. /\ step \in 1 .. Len(fx) /\ fx[step] \in Effects /\ t \in Tokens /\ step \in DOMAIN fx
      /\ Len(fx) \in Nat /\ step \in Nat /\ DOMAIN fx = 1 .. Len(fx)
  BY <1>1, LiveTypes, StepInFx
<1>3. AnswersAwaited /\ SvcOnce(evq)
  BY <1>1 DEF AnswerInv
<1>4. evq \in Seq(Events) /\ comps \in Seq(Nat) /\ outcome \in [Tokens -> Statuses]
  BY DEF TypeInv, TypeOK
<1>5. step + 1 <= Len(fx) + 1 /\ \A k \in step .. Len(fx) : k # step => k \in step + 1 .. Len(fx)
  BY <1>2
<1> HIDE DEF fx, t
<1>6. (\A k : CellOf(evq, comps, k)' <=> CellOf(evq', comps, k)) /\ \A k, u : Asked(k, u)' <=> Asked(k, u)
  BY <1>1 DEF CellOf, Asked
<1>7. CASE fx[step].op # "svc"
  <2>1. UNCHANGED <<evq, outcome>>
    BY <1>7 DEF ActivateEffect, fx
  <2>2. \A u : ~ Asked(step, u)
    BY <1>7 DEF Asked, fx
  <2>3. \A i \in DOMAIN evq :
           Told(evq[i], outcome) \/ \E k \in step + 1 .. Len(fx) : Asked(k, evq[i].tok)
    BY <1>3, <1>5, <2>2 DEF AnswersAwaited, fx
  <2>4. AnswersAwaited'
    BY <1>1, <1>3, <1>5, <1>6, <2>1, <2>3 DEF AnswersAwaited, fx
  <2> QED
    BY <1>1, <1>3, <2>1, <2>4 DEF AnswerInv
<1>8. CASE fx[step].op = "svc"
  <2>1. /\ Count(fx, "svc", step) \in DOMAIN comps /\ c \in DOMAIN evq
        /\ evq[c].kind = "svc" /\ evq[c].tok = t
    BY <1>2, <1>3, <1>8 DEF AnswersAwaited, CellOf, fx, t
  <2>2. Count(fx, "svc", step) <= Len(comps)
    BY <1>4, <2>1
  <2>3. PICK st \in {"ok", "fail"} : /\ evq' = [evq EXCEPT ![c].st = st]
                                     /\ outcome' = [outcome EXCEPT ![t] = st]
    BY <1>8, <2>2 DEF ActivateEffect, fx, t
  <2> HIDE DEF c
  <2>4. /\ DOMAIN evq' = DOMAIN evq
        /\ \A i \in DOMAIN evq : evq'[i] = IF i = c THEN [evq[i] EXCEPT !.st = st] ELSE evq[i]
    BY <2>3
  <2>5. \A i \in DOMAIN evq : evq[i] \in Events
    BY <1>4
  <2>6. /\ \A i \in DOMAIN evq : evq'[i].kind = evq[i].kind /\ evq'[i].tok = evq[i].tok
        /\ evq'[c].st = st
    BY <2>1, <2>4, <2>5 DEF Events
  <2>7. SvcOnce(evq')
    BY <1>3, <2>4, <2>6 DEF SvcOnce
  <2>8. \A k \in DOMAIN fx : fx[k].op = "svc" => CellOf(evq', comps, k)
    BY <1>3, <2>4, <2>6 DEF AnswersAwaited, CellOf, fx
  <2>9. ASSUME NEW i \in DOMAIN evq
        PROVE  Told(evq'[i], outcome') \/ \E k \in step + 1 .. Len(fx) : Asked(k, evq'[i].tok)
    <3>1. CASE i = c
      BY <1>2, <1>4, <2>1, <2>3, <2>6, <3>1 DEF Told
    <3>2. CASE i # c /\ evq[i].kind = "svc"
      <4>1. evq'[i] = evq[i] /\ evq[i].tok # t /\ evq[i].tok \in Tokens
        BY <1>3, <2>1, <2>4, <3>2 DEF SvcOnce
      <4>2. outcome'[evq[i].tok] = outcome[evq[i].tok]
        BY <1>4, <2>3, <4>1
      <4>3. ~ Asked(step, evq[i].tok)
        BY <4>1 DEF Asked, fx, t
      <4>4. Told(evq[i], outcome) \/ \E k \in step .. Len(fx) : Asked(k, evq[i].tok)
        BY <1>3 DEF AnswersAwaited, fx
      <4> QED
        BY <1>5, <4>1, <4>2, <4>3, <4>4 DEF Told
    <3>3. CASE evq[i].kind # "svc"
      BY <2>6, <3>3 DEF Told
    <3> QED
      BY <3>1, <3>2, <3>3
  <2>10. AnswersAwaited'
    BY <1>1, <1>3, <1>5, <1>6, <2>4, <2>8, <2>9 DEF AnswersAwaited, fx
  <2> QED
    BY <1>1, <2>7, <2>10 DEF AnswerInv
<1> QED
  BY <1>7, <1>8

\* When every effect is activated, nothing waits.
LEMMA ActivatedAnswers ==
    ASSUME TypeInv, AnswerInv, Activated
    PROVE  AnswerInv'
<1>1. /\ pc = "activate" /\ step = Len(prod.fx) + 1 /\ pc' \in {"drain", "repl"} /\ UNCHANGED <<evq, outcome>>
  BY DEF Activated
<1>2. Len(prod.fx) \in Nat
  BY LiveTypes
<1>3. step .. Len(prod.fx) = {}
  BY <1>1, <1>2
<1>4. SvcOnce(evq) /\ AllTold(evq, outcome)
  BY <1>1, <1>3 DEF AnswerInv, AnswersAwaited, AllTold
<1> QED
  BY <1>1, <1>4 DEF AnswerInv

\* Outside of a transaction completions leave with their event, or all.
LEMMA PlainAnswers ==
    ASSUME TypeInv, AnswerInv, pc # "activate", pc' \notin {"build", "activate"}, outcome' = outcome,
           \/ evq' \in {evq, <<>>, Deq(evq), Enq(evq, External)}
           \/ \E t \in Tokens : evq' = Append(evq, Event("timer", t)) \/ evq' = Enq(evq, Event("tick", t))
           \/ \E n \in Nat : LET q == evq \o [i \in 1 .. n |-> Cause] IN evq' \in {q, Enq(q, External)}
    PROVE  AnswerInv'
<1>1. evq \in Seq(Events) /\ SvcOnce(evq) /\ AllTold(evq, outcome)
  BY LiveTypes DEF AnswerInv
<1>2. SUFFICES SvcOnce(evq') /\ AllTold(evq', outcome)
  BY DEF AnswerInv
<1>3. CASE evq' \in {evq, <<>>, Deq(evq), Enq(evq, External)}
  <2>1. SvcOnce(<<>>) /\ AllTold(<<>>, outcome)
    BY DEF SvcOnce, AllTold
  <2>2. evq # <<>> => SvcOnce(Tail(evq)) /\ AllTold(Tail(evq), outcome)
    BY <1>1, ToldTail
  <2>3. SvcOnce(Enq(evq, External)) /\ AllTold(Enq(evq, External), outcome)
    BY <1>1, ToldEnq
  <2> QED
    BY <1>1, <1>3, <2>1, <2>2, <2>3 DEF Deq
<1>4. CASE \E t \in Tokens : evq' = Append(evq, Event("timer", t)) \/ evq' = Enq(evq, Event("tick", t))
  <2>1. PICK t \in Tokens : evq' = Append(evq, Event("timer", t)) \/ evq' = Enq(evq, Event("tick", t))
    BY <1>4
  <2>2. \A e \in {Event("timer", t), Event("tick", t)} :
           SvcOnce(Append(evq, e)) /\ AllTold(Append(evq, e), outcome)
    <3>1. /\ Event("timer", t) \in Events /\ Event("tick", t) \in Events
          /\ Event("timer", t).kind # "svc" /\ Event("tick", t).kind # "svc"
      BY PlainEvents DEF Event
    <3>2. \A e \in Events : e.kind # "svc" =>
             SvcOnce(Append(evq, e)) /\ AllTold(Append(evq, e), outcome)
      BY <1>1, ToldAppend
    <3> QED
      BY ONLY <3>1, <3>2
  <2> QED
    BY <1>1, <2>1, <2>2 DEF Enq
<1>5. CASE \E n \in Nat : LET q == evq \o [i \in 1 .. n |-> Cause] IN evq' \in {q, Enq(q, External)}
  <2>1. PICK n \in Nat : LET q == evq \o [i \in 1 .. n |-> Cause] IN evq' \in {q, Enq(q, External)}
    BY <1>5
  <2> DEFINE q == evq \o [i \in 1 .. n |-> Cause]
  <2>2. evq' \in {q, Enq(q, External)}
    BY <2>1
  <2>3. q \in Seq(Events) /\ SvcOnce(q) /\ AllTold(q, outcome)
    BY <1>1, ToldCauses
  <2> HIDE DEF q
  <2>4. SvcOnce(Enq(q, External)) /\ AllTold(Enq(q, External), outcome)
    BY <2>3, ToldEnq
  <2> QED
    BY <2>2, <2>3, <2>4
<1> QED
  BY <1>3, <1>4, <1>5

\* AnswerInv is inductive.
LEMMA AnswerInductive == TypeInv /\ BuildInv /\ AnswerInv /\ [Next]_vars => AnswerInv'
<1> SUFFICES ASSUME TypeInv, BuildInv, AnswerInv, [Next]_vars
             PROVE  AnswerInv'
  OBVIOUS
<1>1. CASE SlamCommit \/ BuildEffect \/ Publish \/ ActivateEffect \/ Activated
  BY <1>1, CommitAnswers, BuildAnswers, PublishAnswers, ActivateAnswers, ActivatedAnswers
<1>2. CASE UNCHANGED <<evq, outcome, pc, step, prod, cand, comps>>
  BY <1>2 DEF AnswerInv, AllTold, AnswersBuilt, AnswersAwaited, CellOf, Asked
<1>3. CASE /\ pc # "activate" /\ pc' \notin {"build", "activate"} /\ outcome' = outcome
           /\ evq' \in {evq, <<>>, Deq(evq), Enq(evq, External)}
  BY <1>3, PlainAnswers
<1>4. CASE UNCHANGED vars \/ \E t \in Tokens : Elapse(t)
  BY <1>2, <1>4 DEF vars, Elapse
<1>5. CASE Operator
  BY <1>3, <1>5 DEF Operator, ReplEnq, IrqPush, ReplClear, ReplCrash, CrashRecover, EnterLoop, Waits, AtRepl
<1>6. CASE Drain \/ Drained \/ Polled \/ SelectRx \/ IdlePoll
  BY <1>3, <1>6 DEF Drain, Drained, Polled, SelectRx, IdlePoll
<1>7. CASE PollSlot
  <2>1. pc = "poll" /\ pc' = "poll" /\ outcome' = outcome
    BY <1>7 DEF PollSlot
  <2>2. CASE evq' = evq
    BY <1>3, <2>1, <2>2
  <2>3. CASE evq' # evq
    <3>1. arms[step] \in Tokens
      BY <1>7, <2>3 DEF PollSlot, TypeInv, TypeOK
    <3>2. evq' = Append(evq, Event("timer", arms[step])) \/ evq' = Enq(evq, Event("tick", arms[step]))
      BY <1>7, <2>3 DEF PollSlot, FireI2, FireLegacy
    <3> QED
      BY <2>1, <3>1, <3>2, PlainAnswers
  <2> QED
    BY <2>2, <2>3
<1>8. CASE SelectFifo
  BY <1>3, <1>8 DEF SelectFifo, Deq
<1>9. CASE SlamTimeout \/ SlamFault \/ SlamRefused \/ BuildFault \/ LegacyRefused
  BY <1>3, <1>9 DEF SlamTimeout, SlamFault, Consumed, ConsumeTerminal, SlamRefused, BuildFault,
                    LegacyRefused, Restart
<1>10. CASE SlamCrash
  BY <1>3, <1>10 DEF SlamCrash, CrashRecover, Restart
<1>11. CASE LegacyCommit
  <2>1. pc = "slam" /\ pc' = "drain" /\ outcome' = outcome
    BY <1>11 DEF LegacyCommit, Restart
  <2>2. PICK n \in 0 .. MaxCauses : LegacyEffect(evq \o [i \in 1 .. n |-> Cause])
    BY <1>11 DEF LegacyCommit
  <2>3. n \in Nat
    BY Caps
  <2>4. LET q == evq \o [i \in 1 .. n |-> Cause] IN evq' \in {q, Enq(q, External)}
    BY <2>2 DEF LegacyEffect
  <2> QED
    BY <2>1, <2>3, <2>4, PlainAnswers
<1> QED
  BY <1>1, <1>4, <1>5, <1>6, <1>7, <1>8, <1>9, <1>10, <1>11 DEF Next, Loop

\* A completion is queued before its driver runs and reads as a success until
\* then; by the time any event can be selected it tells what the driver did
\* (CompletionsTruthful), however the services and the timers of a product
\* are mixed and whatever waits in the queue.
THEOREM CompletionsTellTheTruth == Spec => []CompletionsTruthful
<1>1. Init => AnswerInv
  BY DEF Init, AnswerInv, SvcOnce, AllTold
<1>2. AnswerInv => CompletionsTruthful
  BY DEF AnswerInv, AllTold, Told, CompletionsTruthful
<1> QED
  BY <1>1, <1>2, Built, AnswerInductive, PTL DEF Spec

-----------------------------------------------------------------------------
(* The loop of an identity-admitted package implements AtomicTx.           *)

\* The event served is the head of the FIFO, or came when it was empty.
LEMMA ServedInductive == TypeInv /\ ServedInv /\ [Next]_vars => ServedInv'
<1> SUFFICES ASSUME ServedInv, [Next]_vars, live', pc' \in {"slam", "build"}
             PROVE  cur' = "fifo" <=> evq' # <<>>
  BY DEF ServedInv
<1>1. CASE UNCHANGED vars \/ \E t \in Tokens : Elapse(t)
  BY <1>1 DEF ServedInv, vars, Elapse, Next
<1>2. CASE Operator
  BY <1>2 DEF Operator, ReplEnq, IrqPush, ReplClear, ReplCrash, EnterLoop, Waits, AtRepl
<1>3. CASE UNCHANGED live /\ Loop
  BY <1>3 DEF ServedInv, Loop, Drain, Drained, PollSlot, Polled, SelectFifo, SelectRx, IdlePoll, SlamTimeout,
              SlamFault, Consumed, SlamCrash, SlamRefused, SlamCommit, BuildEffect, BuildFault, Publish,
              ActivateEffect, Activated, LegacyRefused, LegacyCommit, Restart
<1> QED
  BY <1>1, <1>2, <1>3 DEF Next

\* An item of the abstract queue.
Items == [kind : Kinds, tok : Tokens \cup {NoTok}]
ItemOf(e) == [kind |-> e.kind, tok |-> e.tok]

\* The abstract queue has an item for each event.
LEMMA ShapeAt ==
    ASSUME NEW q \in Seq(Events)
    PROVE  /\ Shape(q) \in Seq(Items) /\ Len(Shape(q)) = Len(q) /\ DOMAIN Shape(q) = 1 .. Len(q)
           /\ Len(q) \in Nat /\ \A i \in 1 .. Len(q) : Shape(q)[i] = ItemOf(q[i])
<1>1. Len(q) \in Nat /\ DOMAIN q = 1 .. Len(q) /\ \A i \in 1 .. Len(q) : q[i] \in Events
  OBVIOUS
<1>2. \A e \in Events : ItemOf(e) \in Items
  BY DEF Events, Items, ItemOf
<1>3. Shape(q) = [i \in 1 .. Len(q) |-> ItemOf(q[i])]
  BY <1>1 DEF Shape, ItemOf
<1>4. \A i \in 1 .. Len(q) : ItemOf(q[i]) \in Items
  BY <1>1, <1>2
<1> QED
  BY <1>1, <1>3, <1>4

\* Queues of the same items are the same.
LEMMA SameItems ==
    ASSUME NEW S, NEW s \in Seq(S), NEW t \in Seq(S), Len(s) = Len(t),
           \A i \in 1 .. Len(s) : s[i] = t[i]
    PROVE  s = t
OBVIOUS

\* An event joins the queue, the head leaves it.
LEMMA ShapeSteps ==
    ASSUME NEW q \in Seq(Events), NEW e \in Events
    PROVE  /\ Shape(Append(q, e)) = Append(Shape(q), ItemOf(e))
           /\ Shape(<<>>) = <<>> /\ (Shape(q) = <<>> <=> q = <<>>)
           /\ q # <<>> => Shape(Tail(q)) = Tail(Shape(q))
<1>1. /\ Shape(q) \in Seq(Items) /\ Len(Shape(q)) = Len(q) /\ Len(q) \in Nat
      /\ \A i \in 1 .. Len(q) : Shape(q)[i] = ItemOf(q[i])
  BY ShapeAt
<1>2. ItemOf(e) \in Items
  BY DEF Events, Items, ItemOf
<1>3. Shape(<<>>) = <<>>
  BY DEF Shape
<1>4. Shape(q) = <<>> <=> q = <<>>
  BY <1>1, <1>3
<1>5. Shape(Append(q, e)) = Append(Shape(q), ItemOf(e))
  <2> DEFINE r == Append(q, e)
             s == Append(Shape(q), ItemOf(e))
  <2>1. r \in Seq(Events) /\ Len(r) = Len(q) + 1 /\ (\A i \in 1 .. Len(q) : r[i] = q[i]) /\ r[Len(q) + 1] = e
    BY <1>1
  <2>2. /\ s \in Seq(Items) /\ Len(s) = Len(q) + 1 /\ (\A i \in 1 .. Len(q) : s[i] = Shape(q)[i])
        /\ s[Len(q) + 1] = ItemOf(e)
    BY <1>1, <1>2
  <2> HIDE DEF r, s
  <2>3. /\ Shape(r) \in Seq(Items) /\ Len(Shape(r)) = Len(r)
        /\ \A i \in 1 .. Len(r) : Shape(r)[i] = ItemOf(r[i])
    BY <2>1, ShapeAt
  <2>4. ASSUME NEW i \in 1 .. Len(r) PROVE Shape(r)[i] = s[i]
    <3>1. i \in 1 .. Len(q) \/ i = Len(q) + 1
      BY <1>1, <2>1
    <3> QED
      BY <1>1, <2>1, <2>2, <2>3, <3>1
  <2>5. Shape(r) = s
    BY <2>1, <2>2, <2>3, <2>4, SameItems
  <2> QED
    BY <2>5 DEF r, s
<1>6. ASSUME q # <<>> PROVE Shape(Tail(q)) = Tail(Shape(q))
  <2> DEFINE r == Tail(q)
             s == Tail(Shape(q))
  <2>1. /\ r \in Seq(Events) /\ Len(r) = Len(q) - 1 /\ \A i \in 1 .. Len(r) : r[i] = q[i + 1] /\ i + 1 \in 1 .. Len(q)
    BY <1>1, <1>6
  <2>2. /\ s \in Seq(Items) /\ Len(s) = Len(q) - 1 /\ \A i \in 1 .. Len(s) : s[i] = Shape(q)[i + 1]
    BY <1>1, <1>4, <1>6
  <2> HIDE DEF r, s
  <2>3. /\ Shape(r) \in Seq(Items) /\ Len(Shape(r)) = Len(r)
        /\ \A i \in 1 .. Len(r) : Shape(r)[i] = ItemOf(r[i])
    BY <2>1, ShapeAt
  <2>4. \A i \in 1 .. Len(r) : Shape(r)[i] = s[i]
    BY <1>1, <2>1, <2>2, <2>3
  <2>5. Shape(r) = s
    BY <2>1, <2>2, <2>3, <2>4, SameItems
  <2> QED
    BY <2>5 DEF r, s
<1> QED
  BY <1>3, <1>4, <1>5, <1>6

\* No more timers are set than there are slots.
LEMMA ArmedFinite ==
    ASSUME NEW a \in SlotMaps
    PROVE  ArmedIn(a) \in SUBSET Tokens /\ Cardinality(ArmedIn(a)) <= TimerMax
<1> DEFINE T == {a[s] : s \in Slots}
<1>1. a \in [Slots -> T] /\ \A t \in T : \E s \in Slots : a[s] = t
  BY DEF SlotMaps
<1>2. a \in Surjection(Slots, T)
  BY <1>1 DEF Surjection
<1>3. IsFiniteSet(T) /\ Cardinality(T) <= Cardinality(Slots) /\ Cardinality(T) \in Nat
  BY <1>2, SlotsFinite, FS_Surjection, FS_CardinalityType
<1>4. ArmedIn(a) \in SUBSET T /\ ArmedIn(a) \in SUBSET Tokens
  BY DEF ArmedIn, SlotMaps
<1> HIDE DEF T
<1>5. Cardinality(ArmedIn(a)) <= Cardinality(T) /\ Cardinality(ArmedIn(a)) \in Nat
  BY <1>3, <1>4, FS_Subset, FS_CardinalityType
<1> QED
  BY <1>3, <1>4, <1>5, SlotsFinite, Caps

\* A step that changes neither the items nor the set timers.
LEMMA TxStutter ==
    ASSUME live' = live, live => Shape(evq') = Shape(evq) /\ Armed' = Armed
    PROVE  UNCHANGED Tx!aVars
BY DEF Tx!aVars

\* Ingress: admitted, or refused at the cap.
LEMMA TxAdmit ==
    ASSUME TypeInv, live, live' = live, evq' = Enq(evq, External), arms' = arms
    PROVE  [Tx!ANext]_(Tx!aVars)
<1>1. evq \in Seq(Events) /\ External \in Events /\ Armed' = Armed
  BY LiveTypes, PlainEvents DEF Armed
<1>2. Len(Shape(evq)) = Len(evq)
  BY <1>1, ShapeAt
<1>3. Shape(Append(evq, External)) = Append(Shape(evq), ItemOf(External))
  BY <1>1, ShapeSteps
<1>4. ItemOf(External) = Tx!Item("ext", NoTok)
  BY DEF ItemOf, External, Event, Tx!Item
<1>5. CASE Len(evq) < QCap
  <2>1. Tx!Admit
    BY <1>1, <1>2, <1>3, <1>4, <1>5 DEF Tx!Admit, Enq
  <2> QED
    BY <2>1 DEF Tx!ANext
<1>6. CASE ~ (Len(evq) < QCap)
  BY <1>1, <1>6, TxStutter DEF Enq
<1> QED
  BY <1>5, <1>6

\* A poll of a slot: the due timer becomes an event, or nothing happens.
LEMMA TxFire ==
    ASSUME TypeInv, OnceEach, live, live' = live, PollSlot
    PROVE  [Tx!ANext]_(Tx!aVars)
<1>1. CASE UNCHANGED <<evq, arms>>
  BY <1>1, TxStutter DEF Armed
<1>2. CASE arms[step] \in due /\ Len(evq) < QCap
  <2> DEFINE t == arms[step]
  <2>1. /\ step \in Slots /\ evq' = Append(evq, Event("timer", t)) /\ arms' = [arms EXCEPT ![step] = NoTok]
    BY <1>2 DEF PollSlot, FireI2
  <2>2. evq \in Seq(Events) /\ arms \in SlotMaps /\ t \in Tokens /\ t # NoTok
    BY <1>2, LiveTypes, TokenAssumption DEF TypeInv, TypeOK
  <2> HIDE DEF t
  <2>3. Event("timer", t) \in Events /\ ItemOf(Event("timer", t)) = Tx!Item("timer", t)
    BY <2>2, PlainEvents DEF ItemOf, Event, Tx!Item
  <2>4. Shape(evq') = Append(Shape(evq), Tx!Item("timer", t)) /\ Len(Shape(evq)) < QCap
    BY <1>2, <2>1, <2>2, <2>3, ShapeSteps, ShapeAt
  <2>5. \A s \in Slots : arms'[s] = IF s = step THEN NoTok ELSE arms[s]
    BY <2>1, <2>2 DEF SlotMaps
  <2>6. \A s \in Slots : arms[s] = t => s = step
    BY <2>1, <2>2 DEF OnceEach, t
  <2>7. t \in Armed /\ Armed' = Armed \ {t}
    <3>1. t \in Armed
      BY <2>1, <2>2 DEF Armed, ArmedIn, t
    <3>2. ASSUME NEW u PROVE u \in Armed' <=> u \in Armed \ {t}
      BY <2>1, <2>2, <2>5, <2>6 DEF Armed, ArmedIn, t
    <3> QED
      BY <3>1, <3>2
  <2>8. Tx!Fire(t)
    BY <2>4, <2>7 DEF Tx!Fire
  <2> QED
    BY <2>2, <2>8 DEF Tx!ANext
<1> QED
  BY <1>1, <1>2 DEF PollSlot, FireI2

\* A slam that ends without a product consumes its event, and only that.
LEMMA TxDrop ==
    ASSUME TypeInv, ServedInv, live, live' = live, Consumed
    PROVE  [Tx!ANext]_(Tx!aVars)
<1>1. pc = "slam" /\ evq' = ConsumeTerminal /\ Armed' = Armed
  BY DEF Consumed, Armed
<1>2. evq \in Seq(Events) /\ (cur = "fifo" <=> evq # <<>>)
  BY <1>1, LiveTypes DEF ServedInv
<1>3. CASE cur = "fifo"
  <2>1. Shape(evq) # <<>> /\ Shape(evq') = Tail(Shape(evq))
    BY <1>1, <1>2, <1>3, PlainEvents, ShapeSteps DEF ConsumeTerminal, Deq
  <2>2. Tx!Drop
    BY <1>1, <2>1 DEF Tx!Drop
  <2> QED
    BY <2>2 DEF Tx!ANext
<1>4. CASE cur # "fifo"
  BY <1>1, <1>4, TxStutter DEF ConsumeTerminal
<1> QED
  BY <1>3, <1>4

\* The operator and a structural crash empty the queue, the registry or both.
LEMMA TxClear ==
    ASSUME live, live' = live, evq' \in {evq, <<>>}, arms' = arms \/ NoArms
    PROVE  [Tx!ANext]_(Tx!aVars)
<1>1. Shape(<<>>) = <<>>
  BY DEF Shape
<1>2. Armed' \in {Armed, {}}
  BY DEF Armed, ArmedIn, NoArms
<1>3. Tx!Clear
  BY <1>1, <1>2 DEF Tx!Clear
<1> QED
  BY <1>3 DEF Tx!ANext

\* The instance's copies of the library's operators are the library's.
LEMMA SameOperators ==
    /\ \A S : Tx!Cardinality(S) = Cardinality(S)
    /\ \A S, n : Tx!SeqOf(S, n) = SeqOf(S, n)
<1>1. \A S : Tx!Cardinality(S) = Cardinality(S)
  BY DEF Tx!Cardinality, Cardinality
<1>2. \A S, n : Tx!SeqOf(S, n) = SeqOf(S, n)
  BY DEF Tx!SeqOf, SeqOf
<1> QED
  BY <1>1, <1>2

\* A publication is one atomic transaction: the head leaves, the causes and
\* the requested completions join, the timers change.
LEMMA TxCommit ==
    ASSUME TypeInv, BuildInv, ServedInv, live, live' = live, Publish
    PROVE  [Tx!ANext]_(Tx!aVars)
<1> DEFINE n == prod.causes
           m == Len(cand.comps)
           r == Len(Rest)
           ts == [i \in 1 .. m |-> cand.q[Answers + i].tok]
           s == Shape(Rest)
           c == Tx!Repeat("cause", n)
           d == Tx!Completions(ts)
<1>1. /\ pc = "build" /\ step = Len(prod.fx) + 1 /\ evq' = cand.q /\ arms' = cand.arms
  BY DEF Publish
<1>2. /\ PreflightOk(prod, cur = "fifo") /\ n \in 0 .. MaxCauses /\ QueueBuilt
      /\ (cur = "fifo" <=> evq # <<>>)
  BY <1>1 DEF BuildInv, ServedInv
<1>3. /\ evq \in Seq(Events) /\ cand.q \in Seq(Events) /\ cand.arms \in SlotMaps /\ Len(prod.fx) \in Nat
      /\ Len(cand.q) <= QCap
  <2>1. prod.fx \in Seq(Effects)
    BY LiveTypes
  <2>2. Len(prod.fx) \in Nat
    BY <2>1
  <2>3. Len(cand.q) <= QCap
    BY <1>1 DEF TypeInv, CandBound
  <2> QED
    BY <2>2, <2>3, LiveTypes
<1>4. n \in Nat
  BY <1>2
<1>5. Rest \in Seq(Events) /\ r \in Nat /\ Answers = r + n
  BY <1>2, <1>4, RestType
<1>6. m = Count(prod.fx, "svc", Len(prod.fx)) /\ m \in 0 .. MaxSvc
  <2>1. step - 1 = Len(prod.fx) /\ Count(prod.fx, "svc", Len(prod.fx)) \in Nat
    BY <1>1, <1>3, CountType
  <2>2. m = Count(prod.fx, "svc", Len(prod.fx)) /\ Count(prod.fx, "svc", Len(prod.fx)) <= MaxSvc
    BY <1>2, <2>1 DEF QueueBuilt, PreflightOk
  <2> QED
    BY <2>1, <2>2, Caps
<1>7. m \in Nat /\ Len(cand.q) = r + n + m
  BY <1>2, <1>5, <1>6, Caps DEF QueueBuilt
<1>8. \A i \in 1 .. m : Answers + i \in Answers + 1 .. Len(cand.q)
  BY <1>4, <1>5, <1>7
<1>9. ts \in [1 .. m -> Tokens] /\ ts \in SeqOf(Tokens, MaxSvc)
  <2>1. \A i \in 1 .. m : cand.q[Answers + i].tok \in Tokens
    BY <1>2, <1>8 DEF QueueBuilt
  <2>2. ts \in [1 .. m -> Tokens]
    BY <2>1
  <2> QED
    BY <1>6, <2>2 DEF SeqOf
<1>10. s \in Seq(Items) /\ Len(s) = r /\ \A i \in 1 .. r : s[i] = ItemOf(Rest[i])
  BY <1>5, ShapeAt
<1>11. Tx!Item("cause", NoTok) \in Items /\ \A t \in Tokens : Tx!Item("svc", t) \in Items
  BY DEF Tx!Item, Items, Kinds
<1>12. c \in Seq(Items) /\ Len(c) = n /\ \A i \in 1 .. n : c[i] = Tx!Item("cause", NoTok)
  <2>1. c = [i \in 1 .. n |-> Tx!Item("cause", NoTok)]
    BY DEF Tx!Repeat
  <2> QED
    BY <1>4, <1>11, <2>1
<1>13. d \in Seq(Items) /\ Len(d) = m /\ \A i \in 1 .. m : d[i] = Tx!Item("svc", cand.q[Answers + i].tok)
  <2>1. DOMAIN ts = 1 .. m /\ \A i \in 1 .. m : ts[i] \in Tokens /\ ts[i] = cand.q[Answers + i].tok
    BY <1>9
  <2>2. d = [i \in 1 .. m |-> Tx!Item("svc", ts[i])]
    BY <2>1 DEF Tx!Completions
  <2> HIDE DEF ts
  <2>3. \A i \in 1 .. m : Tx!Item("svc", ts[i]) \in Items
    BY <1>11, <2>1
  <2> HIDE DEF d, m
  <2> QED
    BY <1>7, <2>1, <2>2, <2>3
<1> HIDE DEF s, c, d, ts
<1>14. Shape(cand.q) = (s \o c) \o d
  <2>1. /\ s \o c \in Seq(Items) /\ Len(s \o c) = r + n
        /\ \A i \in 1 .. r : (s \o c)[i] = s[i]
        /\ \A i \in r + 1 .. r + n : i - r \in 1 .. n /\ (s \o c)[i] = c[i - r]
    BY <1>10, <1>12, Joined
  <2>2. /\ (s \o c) \o d \in Seq(Items) /\ Len((s \o c) \o d) = r + n + m
        /\ \A i \in 1 .. r + n : ((s \o c) \o d)[i] = (s \o c)[i]
        /\ \A i \in r + n + 1 .. r + n + m : i - (r + n) \in 1 .. m /\ ((s \o c) \o d)[i] = d[i - (r + n)]
    BY <1>13, <2>1, Joined
  <2>3. /\ Shape(cand.q) \in Seq(Items) /\ Len(Shape(cand.q)) = r + n + m
        /\ \A i \in 1 .. r + n + m : Shape(cand.q)[i] = ItemOf(cand.q[i])
    BY <1>3, <1>7, ShapeAt
  <2>4. ASSUME NEW i \in 1 .. r + n + m
        PROVE  Shape(cand.q)[i] = ((s \o c) \o d)[i]
    <3> HIDE DEF r, n, m
    <3>0. i \in 1 .. r \/ i \in r + 1 .. r + n \/ i \in r + n + 1 .. r + n + m
      BY <1>4, <1>5, <1>7
    <3>1. CASE i \in 1 .. r
      <4>1. cand.q[i] = Rest[i] /\ i \in 1 .. r + n
        BY <1>2, <1>4, <1>5, <3>1 DEF QueueBuilt, r
      <4> QED
        BY <1>10, <2>1, <2>2, <2>3, <3>1, <4>1
    <3>2. CASE i \in r + 1 .. r + n
      <4>1. cand.q[i] = Cause
        BY <1>2, <1>5, <3>2 DEF QueueBuilt, r
      <4>2. ItemOf(Cause) = Tx!Item("cause", NoTok)
        BY DEF ItemOf, Cause, Event, Tx!Item
      <4>3. i \in 1 .. r + n
        BY <1>4, <1>5, <3>2
      <4> QED
        BY <1>12, <2>1, <2>2, <2>3, <3>2, <4>1, <4>2, <4>3
    <3>3. CASE i \in r + n + 1 .. r + n + m
      <4>1. cand.q[i].kind = "svc"
        BY <1>2, <1>5, <1>7, <3>3 DEF QueueBuilt
      <4>2. ItemOf(cand.q[i]) = Tx!Item("svc", cand.q[i].tok)
        BY <4>1 DEF ItemOf, Tx!Item
      <4>3. Answers + (i - (r + n)) = i
        BY <1>4, <1>5, <3>3
      <4>4. i - (r + n) \in 1 .. m
        BY <2>2, <3>3
      <4>5. d[i - (r + n)] = Tx!Item("svc", cand.q[i].tok)
        BY <1>13, <4>3, <4>4
      <4> QED
        BY <2>2, <2>3, <3>3, <4>2, <4>5
    <3> QED
      BY <3>0, <3>1, <3>2, <3>3
  <2> HIDE DEF r, n, m
  <2> QED
    BY <2>2, <2>3, <2>4, SameItems
<1>15. s = IF Shape(evq) = <<>> THEN <<>> ELSE Tail(Shape(evq))
  BY <1>2, <1>3, PlainEvents, ShapeSteps DEF Rest, s
<1>16. Armed' \in SUBSET Tokens /\ Cardinality(Armed') <= TimerMax
  BY <1>1, <1>3, ArmedFinite DEF Armed
<1>17. Len(Shape(evq')) <= QCap
  BY <1>1, <1>3, ShapeAt
<1>18. Tx!Commit
  <2> HIDE DEF n, m
  <2>1. /\ Shape(evq') = (IF Shape(evq) = <<>> THEN <<>> ELSE Tail(Shape(evq)))
                            \o Tx!Repeat("cause", n) \o Tx!Completions(ts)
    BY <1>1, <1>14, <1>15 DEF c, d
  <2> QED
    BY <1>2, <1>9, <1>16, <1>17, <2>1, SameOperators DEF Tx!Commit, n
<1> QED
  BY <1>18 DEF Tx!ANext

\* An outcome is written into an event, and its item stays what it is.
LEMMA TxActivate ==
    ASSUME TypeInv, live' = live, ActivateEffect
    PROVE  [Tx!ANext]_(Tx!aVars)
<1>1. evq \in Seq(Events) /\ Armed' = Armed
  BY LiveTypes DEF ActivateEffect, Armed
<1>2. CASE evq' = evq
  BY <1>1, <1>2, TxStutter
<1>3. CASE Count(prod.fx, "svc", step) <= Len(comps) /\ prod.fx[step].op = "svc"
  <2> DEFINE k == comps[Count(prod.fx, "svc", step)]
  <2>1. PICK st \in {"ok", "fail"} : evq' = [evq EXCEPT ![k].st = st]
    BY <1>3 DEF ActivateEffect
  <2> HIDE DEF k
  <2>2. /\ DOMAIN evq' = DOMAIN evq
        /\ \A i \in DOMAIN evq : evq'[i] = IF i = k THEN [evq[i] EXCEPT !.st = st] ELSE evq[i]
    BY <2>1
  <2>3. \A i \in DOMAIN evq : evq[i] \in Events
    BY <1>1
  <2>4. \A i \in DOMAIN evq : evq'[i].kind = evq[i].kind /\ evq'[i].tok = evq[i].tok
    BY <2>2, <2>3 DEF Events
  <2>5. Shape(evq') = Shape(evq)
    BY <2>2, <2>4 DEF Shape
  <2> QED
    BY <1>1, <2>5, TxStutter
<1> QED
  BY <1>2, <1>3 DEF ActivateEffect

\* Every step of the loop is a step of AtomicTx, or none.
LEMMA TxNext ==
    ASSUME TypeInv, BuildInv, ServedInv, OnceEach, [Next]_vars
    PROVE  [Tx!ANext]_(Tx!aVars)
<1>1. live' = live
  BY DEF Next, vars
<1>2. CASE ~ live
  BY <1>1, <1>2, TxStutter
<1>3. CASE live /\ UNCHANGED <<evq, arms>>
  BY <1>1, <1>3, TxStutter DEF Armed
<1>4. CASE live /\ Operator
  <2>1. CASE ReplEnq
    BY <1>1, <1>4, <2>1, TxAdmit DEF ReplEnq
  <2>2. CASE IrqPush \/ EnterLoop
    BY <1>3, <1>4, <2>2 DEF IrqPush, EnterLoop
  <2>3. CASE ReplClear \/ ReplCrash
    BY <1>1, <1>4, <2>3, TxClear DEF ReplClear, ReplCrash, CrashRecover
  <2> QED
    BY <1>4, <2>1, <2>2, <2>3 DEF Operator
<1>5. CASE live /\ Loop
  <2>1. CASE Drain
    BY <1>1, <1>5, <2>1, TxAdmit DEF Drain
  <2>2. CASE PollSlot
    BY <1>1, <1>5, <2>2, TxFire
  <2>3. CASE SlamTimeout \/ SlamFault
    BY <1>1, <1>5, <2>3, TxDrop DEF SlamTimeout, SlamFault
  <2>4. CASE SlamCrash
    BY <1>1, <1>5, <2>4, TxClear DEF SlamCrash, CrashRecover
  <2>5. CASE Publish
    BY <1>1, <1>5, <2>5, TxCommit
  <2>6. CASE ActivateEffect
    BY <1>1, <2>6, TxActivate
  <2> QED
    BY <1>3, <1>5, <2>1, <2>2, <2>3, <2>4, <2>5, <2>6
       DEF Loop, Drained, Polled, SelectFifo, SelectRx, IdlePoll, SlamRefused, SlamCommit,
           BuildEffect, BuildFault, Activated, LegacyRefused, LegacyCommit
<1> QED
  BY <1>2, <1>3, <1>4, <1>5 DEF Next, vars, Elapse

\* The I2 loop implements the atomic transactions (AtomicTransactions): what
\* the queue and the timers show from outside is one indivisible answer to
\* each event, for every queue length, registry size and product.
THEOREM Implements == Spec => AtomicTransactions
<1>1. Init => Tx!AInit
  <2> SUFFICES ASSUME Init PROVE Tx!AInit
    OBVIOUS
  <2>1. Shape(evq) = <<>>
    BY DEF Init, Shape
  <2>2. Armed = {}
    BY DEF Init, Armed, ArmedIn
  <2> QED
    BY <2>1, <2>2 DEF Tx!AInit
<1>2. Init => ServedInv
  BY DEF Init, ServedInv
<1>3. TypeInv /\ BuildInv /\ ServedInv /\ OnceEach /\ [Next]_vars => [Tx!ANext]_(Tx!aVars)
  BY TxNext
<1> QED
  BY <1>1, <1>2, <1>3, Built, ServedInductive, TokensOnce, PTL DEF Spec, AtomicTransactions, Tx!ASpec

=============================================================================
