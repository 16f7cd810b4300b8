-------------------------- MODULE SupervisedProofs --------------------------
(***************************************************************************)
(* Proofs about the two programs over the resource manager, for every set  *)
(* of packages, identifiers and images and every bound.  The manager's     *)
(* part of every step is proved in SupervisorProofs.                       *)
(*                                                                         *)
(* First the operator channel: what a request is worth while the boundary  *)
(* and the plan run inside it (ReplyOk): the line still holds it, nothing  *)
(* is in transmission, and the command the manager works on is the one it  *)
(* asks for.  Then the checkpoint: what a save writes, a restart accepts,  *)
(* and a restart over it runs what was started.                            *)
(***************************************************************************)
EXTENDS Operator, Checkpoint, SupervisorProofs

-----------------------------------------------------------------------------
(* The operator channel.                                                   *)

Channels == [active : BOOLEAN, last : Ids \cup {NoId}, tx : Replies, pend : Replies,
             lease : {"none", "running", "due"}, cond : Conditions]
Requests == [id : Ids \cup {NoId}, op : Ops, alien : BOOLEAN]

\* A stranger only has the identifier of the last request, the client its own.
LineOk ==
    /\ line.alien => line.id = op.last
    /\ line # NoRequest /\ ~line.alien => line.id = cl

\* The boundary works for a request.
Engaged == back = "reply" \/ pc \in {"confirmed", "denied"}

\* The request it works for, and what its confirmation stands for.
ReplyOk ==
    /\ back = "reply" => pc = "boundary" \/ plan.on \/ pc \in {"delivered", "undelivered"}
    /\ Engaged =>
          /\ line # NoRequest /\ ~line.alien /\ line.id # op.last /\ ~Sending
          /\ line.op \in {"start", "stop"}
    /\ back = "reply" /\ pc # "undelivered" => m7.cmd = line.op
    /\ back = "reply" /\ pc = "boundary" => m7.pending
    /\ pc = "confirmed" /\ line.op = "start" => m7.mode = "running" /\ started = live.inc
    /\ pc = "confirmed" /\ line.op = "stop" =>
          m7.mode = "stopped" /\ out.low /\ out.inhibited /\ fifo = <<>> /\ timers = 0

\* A request that was answered is the last one the channel answered.
Once == ran \in {0, 1} /\ (ran = 1 => op.last = cl)

\* What waits behind a transmission is never the news that something was done.
PendingOk == op.pend # "done"

OwnTypes ==
    /\ image \in Images /\ op \in Channels /\ line \in Requests /\ cl \in Ids

ChannelInv == OwnTypes /\ LineOk /\ ReplyOk /\ Once /\ PendingOk /\ StageLeased

OInv == SInv /\ RunDurable /\ Quiet /\ ChannelInv

\* A plan is never idle, so that no request is heard inside one.
Drains == plan.on /\ ~plan.slot => fifo # <<>>

-----------------------------------------------------------------------------
(* The initial states.                                                     *)

\* The invariant holds in every image as it starts.
LEMMA InitHolds == Init => OInv /\ Drains
<1> SUFFICES ASSUME Init PROVE OInv /\ Drains
    OBVIOUS
<1>1. /\ m7 = Initial(1) /\ durable = TRUE /\ stage = NoStage /\ fifo = <<>> /\ timers = 0
      /\ live.inc = 1 /\ live \in Gates /\ started = 0 /\ plan = NoPlan /\ debt = 0
      /\ out = [low |-> TRUE, inhibited |-> FALSE, fatal |-> FALSE] /\ pc = "head" /\ back = "head"
      BY Bounds, SupervisorAssumption DEF Init, SupInit, Gates
<1>2. Initial(1) \in Managers /\ Initial(1).mode = "idle" /\ Initial(1).inc = 1
      BY Bounds DEF Initial, Managers, Modes, Commands, Objects
<1>3. SupTypeOK
      BY <1>1, <1>2, Bounds, NoStageType, NoPlanFields, EmptyFits, TypeParts
      DEF MaxTxs, MaxFan, Banks
<1>4. Epoch /\ RunOk /\ PlanOk /\ DebtOk
      BY <1>1, <1>2, NoPlanFields, OwedEmpty DEF Epoch, RunOk, PlanOk, DebtOk, MaxFan
<1>5. RunDurable /\ Quiet
      BY <1>1, <1>2 DEF RunDurable, Quiet, Inert
<1>6. OwnTypes
  <2>1. cl \in Ids
        BY RequestAssumption DEF Init
  <2> QED
      BY <2>1 DEF Init, OwnTypes, OpInit, NoRequest, Channels, Requests, Replies, Conditions, Ops
<1>7. LineOk /\ Once /\ PendingOk
      BY DEF Init, LineOk, Once, PendingOk, OpInit, NoRequest
<1>8. ReplyOk
      BY <1>1 DEF ReplyOk, Engaged
<1>9. StageLeased
      BY <1>1, NoStageType DEF Init, StageLeased, OpInit
<1>10. Drains
      BY <1>1, NoPlanFields DEF Drains
<1> QED
    BY <1>3, <1>4, <1>5, <1>6, <1>7, <1>8, <1>9, <1>10 DEF OInv, SInv, ChannelInv

-----------------------------------------------------------------------------
(* The scheduler under the channel.                                        *)

\* It leaves the channel's own state alone.
LEMMA OwnKeeps ==
    ASSUME ChannelInv, UNCHANGED ovars, stage' = stage
    PROVE  OwnTypes' /\ LineOk' /\ Once' /\ PendingOk' /\ StageLeased'
BY DEF ChannelInv, ovars, OwnTypes, LineOk, Once, PendingOk, StageLeased

\* The boundary returned: to a loop, or with the answer of a request.
LEMMA ReturnReply ==
    ASSUME SInv, ReplyOk, UNCHANGED ovars, NEW rdy \in BOOLEAN, Return(rdy),
           pc \in {"boundary", "delivered", "undelivered"},
           back = "reply" /\ rdy /\ line.op = "start" => m7'.mode = "running" /\ started' = live'.inc,
           back = "reply" /\ rdy /\ line.op = "stop" =>
              m7'.mode = "stopped" /\ out'.low /\ out'.inhibited /\ fifo' = <<>> /\ timers' = 0
    PROVE  ReplyOk'
<1>1. /\ back' = "head" /\ (back # "reply" => pc' \in {"head", "select"})
      /\ pc' = "confirmed" => back = "reply" /\ rdy
      BY TypeParts DEF SInv, Return
<1>2. Engaged' => Engaged
      BY <1>1 DEF Engaged
<1>3. op' = op /\ line' = line
      BY DEF ovars
<1> QED
    BY <1>1, <1>2, <1>3 DEF ReplyOk, Sending

\* The boundary of a request: denied, or its plan begins.
LEMMA BoundaryReply ==
    ASSUME SInv, ReplyOk, UNCHANGED ovars, Boundary
    PROVE  ReplyOk' /\ stage' = stage
<1> DEFINE m == [m7 EXCEPT !.pending = FALSE, !.obj = "raw"]
           Begun == \E stop \in BOOLEAN, n \in {m, [m EXCEPT !.mode = "stopping"]} :
                       BeginPlan(stop, n, fifo)
<1>1. pc = "boundary" /\ m7 \in Managers /\ m.cmd = m7.cmd /\ op' = op /\ line' = line
      BY TypeParts DEF Boundary, SInv, Managers, ovars
<1>2. CASE back = "reply" /\ ~Begun
  <2>1. m7.pending /\ m7.cmd \in {"start", "stop"}
        BY <1>1, <1>2 DEF ReplyOk, Engaged
  <2>2. Return(FALSE) /\ stage' = stage
        BY <1>2, <2>1 DEF Boundary, Undelivered
  <2> QED
      BY <1>1, <2>2, ReturnReply
<1>3. CASE Begun
  <2>1. PICK stop \in BOOLEAN, n \in {m, [m EXCEPT !.mode = "stopping"]} : BeginPlan(stop, n, fifo)
        BY <1>3
  <2>2. n.cmd = m7.cmd
        BY <1>1 DEF Managers
  <2>3. m7'.cmd = m7.cmd /\ plan'.on /\ pc' = "select" /\ back' = back /\ stage' = stage
        BY <2>1, <2>2 DEF BeginPlan, NoPlan
  <2>4. Engaged' => Engaged
        BY <2>3 DEF Engaged
  <2> QED
      BY <1>1, <2>3, <2>4 DEF ReplyOk, Sending
<1>4. CASE back # "reply" /\ ~Begun
  <2>1. stage' = stage /\ \E rdy \in BOOLEAN : Return(rdy)
        BY <1>4, BoundaryCases DEF Undelivered
  <2> QED
      BY <1>1, <1>4, <2>1, ReturnReply
<1> QED
    BY <1>2, <1>3, <1>4

\* The lifecycle of a request: confirmed only as what it was.
LEMMA DeliverReply ==
    ASSUME SInv, ReplyOk, UNCHANGED ovars, DeliverFails \/ DeliverStart \/ DeliverStop
    PROVE  ReplyOk' /\ stage' = stage
<1>1. CASE DeliverFails
      BY <1>1, ReturnReply DEF DeliverFails, Undelivered
<1>2. CASE DeliverStart
  <2>1. m7 \in Managers /\ [m7 EXCEPT !.mode = "running", !.safe = FALSE] \in Managers
        BY TypeParts DEF SInv, Managers, Modes
  <2>2. m7'.mode = "running"
        BY <1>2, <2>1, FinishedType DEF DeliverStart, Managers
  <2>3. back = "reply" => line.op # "stop"
        BY <1>2 DEF DeliverStart, ReplyOk
  <2> QED
      BY <1>2, <2>2, <2>3, ReturnReply DEF DeliverStart
<1>3. CASE DeliverStop
  <2>1. PICK safe \in BOOLEAN, adv \in BOOLEAN :
           /\ out' = Safe(safe)
           /\ Advance(adv)
           /\ m7' = Finished([m7 EXCEPT !.mode = IF adv THEN "stopped" ELSE @,
                                        !.inc = IF adv THEN @ + 1 ELSE @, !.safe = safe])
           /\ Return(safe /\ adv)
        BY <1>3 DEF DeliverStop, StopConfirmed
  <2>2. back = "reply" => line.op # "start"
        BY <1>3 DEF DeliverStop, ReplyOk
  <2>3. safe => out'.low /\ out'.inhibited
        BY <2>1, TypeParts, SafeType DEF SInv
  <2>4. adv => m7'.mode = "stopped"
    <3>1. m7 \in Managers
          BY TypeParts DEF SInv
    <3> QED
        BY <2>1, <3>1 DEF Finished, Managers
  <2>5. fifo' = <<>> /\ timers' = 0 /\ stage' = stage /\ pc = "delivered"
        BY <1>3 DEF DeliverStop
  <2>6. PICK rdy \in BOOLEAN : rdy = (safe /\ adv)
        OBVIOUS
  <2>7. Return(rdy)
        BY <2>1, <2>6
  <2> QED
      BY <2>2, <2>3, <2>4, <2>5, <2>6, <2>7, ReturnReply
<1> QED
    BY <1>1, <1>2, <1>3

\* A transaction: its plan goes on working for the request.
LEMMA TerminalReply ==
    ASSUME SInv, ReplyOk, UNCHANGED ovars, pc = "select", Fixed,
           NEW committed \in BOOLEAN, NEW q, Terminal(committed, q)
    PROVE  ReplyOk'
<1>1. op' = op /\ line' = line /\ m7' = m7 /\ plan \in Plans
      BY TypeParts DEF ovars, Fixed, SInv
<1>2. CASE plan.on
  <2>1. plan'.on \/ pc' \in {"delivered", "undelivered"}
        BY <1>1, <1>2, PlanTerminal
  <2>2. back' = back /\ pc' \in {"select", "delivered", "undelivered"}
        BY <1>2 DEF Terminal, Retire
  <2>3. Engaged' => Engaged
        BY <2>2 DEF Engaged
  <2> QED
      BY <1>1, <2>1, <2>2, <2>3 DEF ReplyOk, Sending
<1>3. CASE ~plan.on
  <2>1. pc' = "boundary" /\ back' \in {"head", "select"}
        BY <1>3 DEF Terminal
  <2> QED
      BY <2>1 DEF ReplyOk, Engaged
<1> QED
    BY <1>2, <1>3

\* Every transaction ends in a terminal step.
LEMMA ServeReply ==
    ASSUME SInv, ReplyOk, UNCHANGED ovars, ServeSlot \/ ServeQueue \/ ServeExternal
    PROVE  ReplyOk' /\ stage' = stage
<1>1. pc = "select" /\ Fixed /\ \E c \in BOOLEAN : \E q : Terminal(c, q)
      BY DEF ServeSlot, ServeQueue, ServeExternal, SlotFails, SlotCommits, Slot,
         QueueFails, QueueCommits, Queued, ExternalFails, ExternalCommits, Idle, EventFails, Commits
<1> QED
    BY <1>1, TerminalReply DEF Fixed

\* The scheduler preserves the invariant.
LEMMA SchedulerHolds ==
    ASSUME OInv, Scheduler
    PROVE  OInv'
<1>1. SInv /\ RunDurable /\ Quiet /\ ChannelInv /\ ReplyOk /\ UNCHANGED ovars
      BY DEF OInv, ChannelInv, Scheduler
<1>2. CASE Boundary
      BY <1>1, <1>2, BoundaryKeeps, BoundaryQuiet, BoundaryReply, OwnKeeps DEF OInv, ChannelInv
<1>3. CASE DeliverFails \/ DeliverStart \/ DeliverStop
      BY <1>1, <1>3, DeliverFailsKeeps, DeliverStartKeeps, DeliverStopKeeps, DeliverQuiet,
         DeliverReply, OwnKeeps DEF OInv, ChannelInv
<1>4. CASE ServeSlot \/ ServeQueue \/ ServeExternal
      BY <1>1, <1>4, ServeSlotKeeps, ServeQueueKeeps, ServeExternalKeeps, ServeQuiet,
         ServeReply, OwnKeeps DEF OInv, ChannelInv
<1>5. CASE TimerFires
  <2>1. ReplyOk' /\ stage' = stage
        BY <1>1, <1>5 DEF TimerFires, ovars, ReplyOk, Engaged, Sending
  <2> QED
      BY <1>1, <1>5, <2>1, TimerFiresKeeps, TimerQuiet, OwnKeeps DEF OInv, ChannelInv
<1>6. CASE IdlePass
  <2>1. ReplyOk' /\ stage' = stage /\ UNCHANGED svars
        BY <1>1, <1>6 DEF IdlePass, svars, ovars, ReplyOk, Engaged, Sending
  <2>2. RunDurable' /\ Quiet'
        BY <1>1, <2>1 DEF svars, RunDurable, Quiet, Inert
  <2> QED
      BY <1>1, <2>1, <2>2, StutterKeeps, OwnKeeps DEF OInv, ChannelInv
<1> QED
    BY <1>2, <1>3, <1>4, <1>5, <1>6 DEF Scheduler

-----------------------------------------------------------------------------
(* Requests.                                                               *)

\* enqueue_or_send only touches the transmitter, and a reply that waits
\* behind another is not "done" unless it was asked to wait.
LEMMA EnqueueType ==
    ASSUME NEW o \in Channels, NEW reply \in Replies
    PROVE  /\ Enqueue(o, reply) \in Channels
           /\ Enqueue(o, reply).last = o.last /\ Enqueue(o, reply).lease = o.lease
           /\ Enqueue(o, reply).cond = o.cond
           /\ o.pend # "done" /\ (reply = "done" => ~Sending) => Enqueue(o, reply).pend # "done"
           /\ Enqueue(o, reply).tx = IF Sending THEN o.tx ELSE reply
<1>1. CASE ~Sending
      BY <1>1 DEF Enqueue, Channels
<1>2. CASE Sending /\ o.pend = "none"
      BY <1>2 DEF Enqueue, Channels
<1>3. CASE Sending /\ o.pend # "none"
      BY <1>3 DEF Enqueue
<1> QED
    BY <1>1, <1>2, <1>3

\* finish: the reply of a request.
LEMMA FinishType ==
    ASSUME NEW o \in Channels, NEW req \in Requests, NEW res
    PROVE  /\ Finish(o, req, res) \in Channels
           /\ Finish(o, req, res).last = req.id /\ Finish(o, req, res).lease = o.lease
           /\ Finish(o, req, res).cond = o.cond
           /\ o.pend # "done" /\ ~Sending => Finish(o, req, res).pend # "done"
           /\ ~Sending => Finish(o, req, res).tx = IF res = "done" THEN "done" ELSE "result"
<1>1. PICK p : p = [o EXCEPT !.last = req.id]
      OBVIOUS
<1>2. PICK reply \in Replies : reply = IF res = "done" THEN "done" ELSE "result"
      BY DEF Replies
<1>3. /\ p \in Channels /\ p.last = req.id /\ p.lease = o.lease /\ p.cond = o.cond
      /\ p.pend = o.pend /\ p.tx = o.tx
      BY <1>1 DEF Channels, Requests
<1>4. Finish(o, req, res) = Enqueue(p, reply)
      BY <1>1, <1>2 DEF Finish
<1> QED
    BY <1>2, <1>3, <1>4, EnqueueType

\* Outside the boundary and the plan no request is in progress.
LEMMA NotEngaged ==
    ASSUME SInv, ReplyOk, Between \/ pc \in {"confirmed", "denied"}
    PROVE  back # "reply"
BY DEF Between, ReplyOk, SInv, PlanOk

\* Requests are heard between runs, or when the loop is idle, never in a plan.
LEMMA HeardBetween ==
    ASSUME Drains, Listening
    PROVE  Between
BY DEF Drains, Listening, Idle, Between

\* A request that is dispatched: its identifier is the client's, it is new,
\* and nothing is in transmission.
LEMMA Dispatched ==
    ASSUME ChannelInv, Drains, NEW names, Dispatching(names)
    PROVE  /\ line # NoRequest /\ ~line.alien /\ line.id = cl /\ line.id # op.last
           /\ ~Sending /\ Between /\ ran = 0
<1>1. line # NoRequest /\ ~line.alien /\ line.id # op.last /\ ~Sending /\ Between
  <2>1. line # NoRequest /\ line.id # op.last /\ ~Sending /\ Between
        BY HeardBetween DEF Dispatching, Listening, Again, Conflict, Busy
  <2>2. line.alien => line.id = op.last
        BY DEF ChannelInv, LineOk
  <2> QED
      BY <2>1, <2>2
<1>2. line.id = cl
      BY <1>1 DEF ChannelInv, LineOk
<1> QED
    BY <1>1, <1>2 DEF ChannelInv, Once

\* A request was dispatched and may have been answered; o is the channel with
\* the lease and the condition the operation left.
LEMMA ExecutedHolds ==
    ASSUME NEW o \in Channels, o.pend # "done", o.tx = op.tx, line \in Requests,
           ~Sending, line.id = cl, ran = 0, NEW res, Executed(o, line, res)
    PROVE  /\ op' \in Channels /\ op'.lease = o.lease /\ op'.cond = o.cond /\ op'.pend # "done"
           /\ op'.tx = "done" => res = "done"
           /\ line' = NoRequest /\ image' = image /\ cl' = cl
           /\ ran' \in {0, 1} /\ (ran' = 1 => op'.last = cl')
<1>1. /\ line' = NoRequest /\ image' = image /\ cl' = cl
      /\ \/ op' = Finish(o, line, res) /\ ran' = 1
         \/ op' = o /\ ran' = 0
      BY DEF Executed
<1>2. CASE op' = Finish(o, line, res) /\ ran' = 1
      BY <1>1, <1>2, FinishType
<1>3. CASE op' = o /\ ran' = 0
      BY <1>1, <1>3 DEF Sending
<1> QED
    BY <1>1, <1>2, <1>3

\* The request of a dispatch that returned.
LEMMA AnswerHolds ==
    ASSUME SInv, ChannelInv, Drains, NEW names, Dispatching(names), NEW o \in Channels,
           o.pend = op.pend, o.tx = op.tx, NEW res, Answer(o, line, res),
           image = "operator" =>
              /\ stage'.open => o.lease # "none"
              /\ o.cond \in {"staging", "sealed"} => stage'.open
              /\ o.cond = "over" => ~stage'.open
              /\ o.cond = "sealed" => stage'.sealed
    PROVE  ChannelInv' /\ (op'.tx = "done" => res = "done")
<1>1. /\ line # NoRequest /\ ~line.alien /\ line.id = cl /\ line.id # op.last
      /\ ~Sending /\ Between /\ ran = 0 /\ line \in Requests /\ op \in Channels
      BY Dispatched DEF ChannelInv, OwnTypes
<1>2. Executed(o, line, res) /\ UNCHANGED <<pc, back>>
      BY DEF Answer
<1>3. /\ op' \in Channels /\ op'.lease = o.lease /\ op'.cond = o.cond
      /\ op'.pend # "done" /\ (op'.tx = "done" => res = "done")
      /\ line' = NoRequest /\ image' = image /\ cl' = cl
      /\ ran' \in {0, 1} /\ (ran' = 1 => op'.last = cl')
      BY <1>1, <1>2, ExecutedHolds DEF ChannelInv, PendingOk
<1>4. OwnTypes'
      BY <1>3 DEF ChannelInv, OwnTypes, NoRequest, Requests, Ops
<1>5. LineOk' /\ PendingOk' /\ Once'
      BY <1>3 DEF LineOk, PendingOk, Once, NoRequest
<1>6. back # "reply"
      BY <1>1, NotEngaged DEF ChannelInv
<1>7. ReplyOk'
      BY <1>1, <1>2, <1>6 DEF Between, ReplyOk, Engaged
<1>8. StageLeased'
      BY <1>3 DEF StageLeased
<1> QED
    BY <1>3, <1>4, <1>5, <1>7, <1>8 DEF ChannelInv

\* The channels the operations leave.
LEMMA ChannelTypes ==
    ASSUME op \in Channels
    PROVE  /\ \A c \in Conditions : [op EXCEPT !.cond = c] \in Channels
           /\ \A c \in Conditions : Touched([op EXCEPT !.cond = c]) \in Channels
           /\ \A c \in Conditions : [op EXCEPT !.cond = c, !.lease = "none"] \in Channels
           /\ \A c \in Conditions : /\ [op EXCEPT !.cond = c].pend = op.pend /\ [op EXCEPT !.cond = c].tx = op.tx
                                    /\ [op EXCEPT !.cond = c].cond = c
                                    /\ [op EXCEPT !.cond = c].lease = op.lease
                                    /\ Touched([op EXCEPT !.cond = c]).pend = op.pend
                                    /\ Touched([op EXCEPT !.cond = c]).tx = op.tx
                                    /\ Touched([op EXCEPT !.cond = c]).cond = c
                                    /\ Touched([op EXCEPT !.cond = c]).lease = "running"
                                    /\ [op EXCEPT !.cond = c, !.lease = "none"].pend = op.pend
                                    /\ [op EXCEPT !.cond = c, !.lease = "none"].tx = op.tx
                                    /\ [op EXCEPT !.cond = c, !.lease = "none"].cond = c
           /\ [op EXCEPT !.active = TRUE] \in Channels
           /\ [op EXCEPT !.active = TRUE].pend = op.pend /\ [op EXCEPT !.active = TRUE].tx = op.tx
           /\ [op EXCEPT !.active = TRUE].cond = op.cond /\ [op EXCEPT !.active = TRUE].lease = op.lease
           /\ [op EXCEPT !.active = TRUE].last = op.last
<1>1. \A c \in Conditions : /\ [op EXCEPT !.cond = c] \in Channels
                            /\ [op EXCEPT !.cond = c].pend = op.pend /\ [op EXCEPT !.cond = c].tx = op.tx
                            /\ [op EXCEPT !.cond = c].cond = c
                            /\ [op EXCEPT !.cond = c].lease = op.lease
      BY DEF Channels
<1>2. \A o \in Channels : /\ Touched(o) \in Channels /\ Touched(o).pend = o.pend /\ Touched(o).tx = o.tx
                          /\ Touched(o).cond = o.cond /\ Touched(o).lease = "running"
      BY DEF Channels, Touched
<1>3. \A c \in Conditions : /\ [op EXCEPT !.cond = c, !.lease = "none"] \in Channels
                            /\ [op EXCEPT !.cond = c, !.lease = "none"].pend = op.pend
                            /\ [op EXCEPT !.cond = c, !.lease = "none"].tx = op.tx
                            /\ [op EXCEPT !.cond = c, !.lease = "none"].cond = c
      BY DEF Channels
<1>4. /\ [op EXCEPT !.active = TRUE] \in Channels
      /\ [op EXCEPT !.active = TRUE].pend = op.pend /\ [op EXCEPT !.active = TRUE].tx = op.tx
      /\ [op EXCEPT !.active = TRUE].cond = op.cond /\ [op EXCEPT !.active = TRUE].lease = op.lease
      /\ [op EXCEPT !.active = TRUE].last = op.last
      BY DEF Channels
<1>5. \A c \in Conditions : /\ Touched([op EXCEPT !.cond = c]) \in Channels
                            /\ Touched([op EXCEPT !.cond = c]).pend = op.pend
                            /\ Touched([op EXCEPT !.cond = c]).tx = op.tx
                            /\ Touched([op EXCEPT !.cond = c]).cond = c
                            /\ Touched([op EXCEPT !.cond = c]).lease = "running"
      BY <1>1, <1>2
<1> QED
    BY ONLY <1>1, <1>3, <1>4, <1>5

\* The manager did nothing.
LEMMA ManagerStutters ==
    ASSUME SInv, RunDurable, Quiet, UNCHANGED svars
    PROVE  SInv' /\ RunDurable' /\ Quiet'
<1>1. SInv'
      BY StutterKeeps
<1>2. RunDurable' /\ Quiet'
      BY DEF svars, RunDurable, Quiet, Inert
<1> QED
    BY <1>1, <1>2

\* An operation of the manager only worked on the stage.
LEMMA StageQuiet ==
    ASSUME RunDurable, Quiet,
           UNCHANGED <<m7, durable, fifo, timers, out, plan, pc>>
    PROVE  RunDurable' /\ Quiet'
BY DEF RunDurable, Quiet, Inert

\* What a request finds.
LEMMA RequestState ==
    ASSUME OInv, Drains, NEW names, Dispatching(names)
    PROVE  /\ SInv /\ RunDurable /\ Quiet /\ ChannelInv /\ op \in Channels /\ stage \in Stages
           /\ Between /\ line.op \in names /\ ~plan.on /\ back \in {"head", "select", "reply"}
           /\ image = "operator" =>
                 /\ stage.open => op.lease # "none"
                 /\ op.cond \in {"staging", "sealed"} => stage.open
                 /\ op.cond = "over" => ~stage.open
                 /\ op.cond = "sealed" => stage.sealed
<1>1. SInv /\ RunDurable /\ Quiet /\ ChannelInv /\ op \in Channels /\ StageLeased
      BY DEF OInv, ChannelInv, OwnTypes
<1>2. Between /\ line.op \in names
      BY HeardBetween DEF Dispatching
<1>3. stage \in Stages /\ ~plan.on /\ back \in {"head", "select", "reply"}
      BY <1>1, <1>2, HeadState, TypeParts DEF SInv
<1> QED
    BY <1>1, <1>2, <1>3 DEF StageLeased

\* STATUS.
LEMMA OpStatusHolds ==
    ASSUME OInv, Drains, OpStatus
    PROVE  OInv'
<1> DEFINE N == {"status"}
<1>1. Dispatching(N)
      BY DEF OpStatus
<1>2. /\ SInv /\ RunDurable /\ Quiet /\ ChannelInv /\ op \in Channels
      /\ image = "operator" =>
                 /\ stage.open => op.lease # "none"
                 /\ op.cond \in {"staging", "sealed"} => stage.open
                 /\ op.cond = "over" => ~stage.open
                 /\ op.cond = "sealed" => stage.sealed
      BY <1>1, RequestState
<1>3. stage' = stage /\ UNCHANGED svars /\ Answer(op, line, "done")
      BY DEF OpStatus, Answer, svars
<1>4. ChannelInv'
      BY <1>1, <1>2, <1>3, AnswerHolds
<1> QED
    BY <1>2, <1>3, <1>4, ManagerStutters DEF OInv

\* SNAPSHOT: the bank of a closed process is made safe, running or not.
LEMMA OpSnapshotHolds ==
    ASSUME OInv, Drains, OpSnapshot
    PROVE  OInv' /\ (op'.tx = "done" => durable' /\ ~stage'.open)
<1> DEFINE N == {"snapshot"}
<1>1. Dispatching(N)
      BY DEF OpSnapshot
<1>2. /\ SInv /\ RunDurable /\ Quiet /\ ChannelInv /\ op \in Channels /\ Between
      /\ ~plan.on /\ back \in {"head", "select", "reply"}
      /\ image = "operator" =>
                 /\ stage.open => op.lease # "none"
                 /\ op.cond \in {"staging", "sealed"} => stage.open
                 /\ op.cond = "over" => ~stage.open
                 /\ op.cond = "sealed" => stage.sealed
      BY <1>1, RequestState
<1>3. PICK res : /\ Answer(op, line, res)
                 /\ out' = out \/ \E ok \in BOOLEAN : out' = Safe(ok)
                 /\ res = "done" => durable /\ ~stage.open
      BY DEF OpSnapshot
<1>4. UNCHANGED <<m7, durable, stage, live, fifo, timers, plan, debt, started, pc, back>>
      BY <1>3 DEF OpSnapshot, Answer
<1>5. out \in Banks
      BY <1>2, HeadState
<1>6. out' \in Banks /\ (out' = out \/ out'.low \/ out'.fatal)
      BY <1>3, <1>5, SafeType
<1>7. AtHead
      BY <1>2, <1>4 DEF AtHead, Between
<1>8. SInv'
      BY <1>2, <1>4, <1>6, <1>7, HeadState, HeadKeeps
<1>9. Inert => Inert'
      BY <1>4 DEF Inert
<1>10. RunDurable' /\ Quiet'
       BY <1>2, <1>4, <1>6, <1>9, HeadQuiet
<1>11. ChannelInv' /\ (op'.tx = "done" => res = "done")
       BY <1>1, <1>2, <1>3, <1>4, AnswerHolds
<1> QED
    BY <1>3, <1>4, <1>8, <1>10, <1>11 DEF OInv

\* A request that is rejected at once.
LEMMA RejectedHolds ==
    ASSUME OInv, Drains, NEW names, Dispatching(names), Answer(op, line, "rejected"),
           UNCHANGED <<m7, durable, stage, live, fifo, timers, out, plan, debt, started>>
    PROVE  OInv' /\ op'.tx # "done"
<1>1. /\ SInv /\ RunDurable /\ Quiet /\ ChannelInv /\ op \in Channels
      /\ image = "operator" =>
                 /\ stage.open => op.lease # "none"
                 /\ op.cond \in {"staging", "sealed"} => stage.open
                 /\ op.cond = "over" => ~stage.open
                 /\ op.cond = "sealed" => stage.sealed
      BY RequestState
<1>2. stage' = stage /\ UNCHANGED svars
      BY DEF Answer, svars
<1>3. ChannelInv' /\ (op'.tx = "done" => "rejected" = "done")
      BY <1>1, <1>2, AnswerHolds
<1> QED
    BY <1>1, <1>2, <1>3, ManagerStutters DEF OInv

\* BEGIN.
LEMMA OpBeginHolds ==
    ASSUME OInv, Drains, OpBegin
    PROVE  OInv' /\ (op'.tx = "done" => stage'.open /\ m7'.mode # "running")
<1> DEFINE N == {"begin"}
           o == Touched([op EXCEPT !.cond = "staging"])
<1>1. Dispatching(N)
      BY DEF OpBegin
<1>2. /\ SInv /\ RunDurable /\ Quiet /\ ChannelInv /\ op \in Channels /\ Between
      /\ stage \in Stages /\ back \in {"head", "select", "reply"}
      /\ image = "operator" =>
                 /\ stage.open => op.lease # "none"
                 /\ op.cond \in {"staging", "sealed"} => stage.open
                 /\ op.cond = "over" => ~stage.open
                 /\ op.cond = "sealed" => stage.sealed
      BY <1>1, RequestState
<1>3. CASE Answer(op, line, "rejected")
           /\ UNCHANGED <<m7, durable, stage, live, fifo, timers, out, plan, debt, started>>
      BY <1>1, <1>3, RejectedHolds
<1>4. ASSUME NEW p \in Pkgs, NEW r \in {"ok", "unknown", "busy"}, DeployBegin(p, r), Quiescent,
             IF r = "ok" THEN Answer(o, line, "done") ELSE Answer(op, line, "failed")
      PROVE  OInv' /\ (op'.tx = "done" => stage'.open /\ m7'.mode # "running")
  <2>1. UNCHANGED <<pc, back>>
        BY <1>4 DEF Answer
  <2>2. AtHead
        BY <1>2, <2>1 DEF AtHead, Between
  <2>3. SInv'
        BY <1>2, <1>4, <2>2, DeployBeginKeeps
  <2>4. RunDurable' /\ Quiet'
        BY <1>2, <1>4, <2>1, StageQuiet DEF DeployBegin
  <2>5. m7'.mode # "running"
        BY <1>4 DEF DeployBegin, Quiescent
  <2>6. CASE r = "ok"
    <3>1. o \in Channels /\ o.pend = op.pend /\ o.tx = op.tx /\ o.cond = "staging" /\ o.lease = "running"
          BY <1>2, ChannelTypes DEF Conditions
    <3>2. stage'.open
          BY <1>2, <1>4, <2>6, HeadState, NoStageType DEF DeployBegin, Stages
    <3>3. Answer(o, line, "done")
          BY <1>4, <2>6
    <3> HIDE DEF o
    <3>4. ChannelInv'
          BY <1>1, <1>2, <3>1, <3>2, <3>3, AnswerHolds
    <3> QED
        BY <2>3, <2>4, <2>5, <3>2, <3>4 DEF OInv
  <2>7. CASE r # "ok"
    <3>1. stage' = stage /\ Answer(op, line, "failed")
          BY <1>4, <2>7 DEF DeployBegin
    <3>2. ChannelInv' /\ (op'.tx = "done" => "failed" = "done")
          BY <1>1, <1>2, <3>1, AnswerHolds
    <3> QED
        BY <2>3, <2>4, <3>2 DEF OInv
  <2> QED
      BY <2>6, <2>7
<1> HIDE DEF o
<1> QED
    BY <1>3, <1>4 DEF OpBegin, o

\* CHUNK.
LEMMA OpChunkHolds ==
    ASSUME OInv, Drains, OpChunk
    PROVE  OInv'
<1> DEFINE N == {"chunk"}
           o == Touched([op EXCEPT !.cond = "staging"])
           f == [op EXCEPT !.cond = "other"]
<1>1. Dispatching(N)
      BY DEF OpChunk
<1>2. /\ SInv /\ RunDurable /\ Quiet /\ ChannelInv /\ op \in Channels /\ Between
      /\ stage \in Stages /\ back \in {"head", "select", "reply"}
      /\ image = "operator" => (stage.open => op.lease # "none")
      BY <1>1, RequestState
<1>3. CASE Answer(op, line, "rejected")
           /\ UNCHANGED <<m7, durable, stage, live, fifo, timers, out, plan, debt, started>>
      BY <1>1, <1>3, RejectedHolds
<1>4. ASSUME NEW good \in BOOLEAN, NEW r \in {"ok", "busy", "offset"}, DeployChunk(good, r), stage.open,
             IF r = "ok" THEN Answer(o, line, "done") ELSE Answer(f, line, "failed")
      PROVE  OInv'
  <2>1. UNCHANGED <<pc, back>>
        BY <1>4 DEF Answer
  <2>2. AtHead
        BY <1>2, <2>1 DEF AtHead, Between
  <2>3. SInv'
        BY <1>2, <1>4, <2>2, DeployChunkKeeps
  <2>4. RunDurable' /\ Quiet'
        BY <1>2, <1>4, <2>1, StageQuiet DEF DeployChunk
  <2>5. stage'.open = stage.open
        BY <1>2, <1>4 DEF DeployChunk, Stages
  <2>6. CASE r = "ok"
    <3>1. o \in Channels /\ o.pend = op.pend /\ o.tx = op.tx /\ o.cond = "staging" /\ o.lease = "running"
          BY <1>2, ChannelTypes DEF Conditions
    <3>2. Answer(o, line, "done")
          BY <1>4, <2>6
    <3> HIDE DEF o
    <3>3. ChannelInv'
          BY <1>1, <1>2, <1>4, <2>5, <3>1, <3>2, AnswerHolds
    <3> QED
        BY <2>3, <2>4, <3>3 DEF OInv
  <2>7. CASE r # "ok"
    <3>1. f \in Channels /\ f.pend = op.pend /\ f.tx = op.tx /\ f.cond = "other" /\ f.lease = op.lease
          BY <1>2, ChannelTypes DEF Conditions
    <3>2. Answer(f, line, "failed")
          BY <1>4, <2>7
    <3> HIDE DEF f
    <3>3. ChannelInv'
          BY <1>1, <1>2, <2>5, <3>1, <3>2, AnswerHolds
    <3> QED
        BY <2>3, <2>4, <3>3 DEF OInv
  <2> QED
      BY <2>6, <2>7
<1> HIDE DEF o, f
<1> QED
    BY <1>3, <1>4 DEF OpChunk, o, f

\* SEAL.
LEMMA OpSealHolds ==
    ASSUME OInv, Drains, OpSeal
    PROVE  OInv'
<1> DEFINE N == {"seal"}
           o == Touched([op EXCEPT !.cond = "sealed"])
           f == [op EXCEPT !.cond = "other"]
<1>1. Dispatching(N)
      BY DEF OpSeal
<1>2. /\ SInv /\ RunDurable /\ Quiet /\ ChannelInv /\ op \in Channels /\ Between
      /\ stage \in Stages /\ back \in {"head", "select", "reply"}
      /\ image = "operator" => (stage.open => op.lease # "none")
      BY <1>1, RequestState
<1>3. PICK r \in {"ok", "offset", "state", "media", "digest", "candidate"} :
         /\ DeploySeal(r)
         /\ IF r = "ok" THEN Answer(o, line, "done") ELSE Answer(f, line, "failed")
      BY DEF OpSeal
<1>4. UNCHANGED <<pc, back>>
      BY <1>3 DEF Answer
<1>5. AtHead
      BY <1>2, <1>4 DEF AtHead, Between
<1>6. SInv' /\ m7'.mode = m7.mode /\ (out' = out \/ out'.low \/ out'.fatal)
      BY <1>2, <1>3, <1>5, DeploySealKeeps
<1>7. UNCHANGED <<durable, live, fifo, timers, plan, debt, started>>
      BY <1>3 DEF DeploySeal
<1>8. Inert => Inert'
      BY <1>7 DEF Inert
<1>9. RunDurable' /\ Quiet'
      BY <1>2, <1>6, <1>7, <1>8, HeadQuiet
<1>10. CASE r = "ok"
  <2>1. stage.open /\ stage' = [stage EXCEPT !.sealed = TRUE]
        BY <1>3, <1>10 DEF DeploySeal
  <2>2. stage'.open /\ stage'.sealed
        BY <1>2, <2>1 DEF Stages
  <2>3. o \in Channels /\ o.pend = op.pend /\ o.tx = op.tx /\ o.cond = "sealed" /\ o.lease = "running"
        BY <1>2, ChannelTypes DEF Conditions
  <2>4. Answer(o, line, "done")
        BY <1>3, <1>10
  <2> HIDE DEF o
  <2>5. ChannelInv'
        BY <1>1, <1>2, <2>2, <2>3, <2>4, AnswerHolds
  <2> QED
      BY <1>6, <1>9, <2>5 DEF OInv
<1>11. CASE r # "ok"
  <2>1. stage' = stage \/ stage' = [stage EXCEPT !.sealed = FALSE]
        BY <1>3, <1>11 DEF DeploySeal
  <2>2. stage'.open = stage.open
        BY <1>2, <2>1 DEF Stages
  <2>3. f \in Channels /\ f.pend = op.pend /\ f.tx = op.tx /\ f.cond = "other" /\ f.lease = op.lease
        BY <1>2, ChannelTypes DEF Conditions
  <2>4. Answer(f, line, "failed")
        BY <1>3, <1>11
  <2> HIDE DEF f
  <2>5. ChannelInv'
        BY <1>1, <1>2, <2>2, <2>3, <2>4, AnswerHolds
  <2> QED
      BY <1>6, <1>9, <2>5 DEF OInv
<1> QED
    BY <1>10, <1>11

\* ACTIVATE.
LEMMA OpActivateHolds ==
    ASSUME OInv, Drains, OpActivate
    PROVE  OInv' /\ (op'.tx = "done" => live'.pkg = stage.want /\ durable' /\ out'.inhibited)
<1> DEFINE N == {"activate"}
           o == [op EXCEPT !.cond = "over", !.lease = "none"]
           f == [op EXCEPT !.cond = "other"]
<1>1. Dispatching(N)
      BY DEF OpActivate
<1>2. /\ SInv /\ RunDurable /\ Quiet /\ ChannelInv /\ op \in Channels /\ Between
      /\ stage \in Stages /\ back \in {"head", "select", "reply"}
      /\ image = "operator" => (stage.open => op.lease # "none")
      BY <1>1, RequestState
<1>3. PICK r : /\ DeployActivate(r)
               /\ IF r = "ok" THEN Answer(o, line, "done") ELSE Answer(f, line, "failed")
      BY DEF OpActivate
<1>4. UNCHANGED <<pc, back>>
      BY <1>3 DEF Answer
<1>5. AtHead
      BY <1>2, <1>4 DEF AtHead, Between
<1>6. /\ SInv'
      /\ m7'.mode = "running" => m7.mode = "running" /\ UNCHANGED durable
      /\ \/ m7'.mode = m7.mode /\ UNCHANGED <<live, fifo, timers, stage, durable>>
         \/ fifo' = <<>> /\ timers' = 0 /\ m7'.mode = "idle" /\ ~stage'.open /\ out'.inhibited
      /\ out' = out \/ out'.low \/ out'.fatal
      /\ r = "ok" => live'.pkg = stage.want /\ durable' /\ out'.inhibited /\ ~stage'.open
      BY <1>2, <1>3, <1>5, DeployActivateKeeps
<1>7. UNCHANGED <<plan, debt, started>>
      BY <1>3 DEF DeployActivate
<1>8. RunDurable' /\ Quiet'
      BY <1>2, <1>3, <1>5, <1>7, ActivateQuiet
<1>9. CASE r = "ok"
  <2>1. o \in Channels /\ o.pend = op.pend /\ o.tx = op.tx /\ o.cond = "over"
        BY <1>2, ChannelTypes DEF Conditions
  <2>2. Answer(o, line, "done") /\ ~stage'.open
        BY <1>3, <1>6, <1>9
  <2> HIDE DEF o
  <2>3. ChannelInv'
        BY <1>1, <1>2, <2>1, <2>2, AnswerHolds
  <2> QED
      BY <1>6, <1>8, <1>9, <2>3 DEF OInv
<1>10. CASE r # "ok"
  <2>1. f \in Channels /\ f.pend = op.pend /\ f.tx = op.tx /\ f.cond = "other" /\ f.lease = op.lease
        BY <1>2, ChannelTypes DEF Conditions
  <2>2. Answer(f, line, "failed") /\ (stage'.open => stage.open)
        BY <1>3, <1>6, <1>10
  <2> HIDE DEF f
  <2>3. ChannelInv' /\ (op'.tx = "done" => "failed" = "done")
        BY <1>1, <1>2, <2>1, <2>2, AnswerHolds
  <2> QED
      BY <1>6, <1>8, <2>3 DEF OInv
<1> QED
    BY <1>9, <1>10

\* CANCEL.
LEMMA OpCancelHolds ==
    ASSUME OInv, Drains, OpCancel
    PROVE  OInv' /\ (op'.tx = "done" => ~stage'.open)
<1> DEFINE N == {"cancel"}
           o == [op EXCEPT !.cond = "over", !.lease = "none"]
<1>1. Dispatching(N)
      BY DEF OpCancel
<1>2. /\ SInv /\ RunDurable /\ Quiet /\ ChannelInv /\ op \in Channels /\ Between
      /\ back \in {"head", "select", "reply"}
      BY <1>1, RequestState
<1>3. CASE ~stage.open
      BY <1>1, <1>3, RejectedHolds DEF OpCancel
<1>4. CASE stage.open
  <2>1. DeployAbort /\ Answer(o, line, "done")
        BY <1>4 DEF OpCancel
  <2>2. UNCHANGED <<pc, back>>
        BY <2>1 DEF Answer
  <2>3. AtHead
        BY <1>2, <2>2 DEF AtHead, Between
  <2>4. SInv'
        BY <1>2, <2>1, <2>3, DeployAbortKeeps
  <2>5. RunDurable' /\ Quiet'
        BY <1>2, <2>1, <2>2, StageQuiet DEF DeployAbort
  <2>6. ~stage'.open
        BY <1>2, <2>1, HeadState, NoStageType DEF DeployAbort
  <2>7. o \in Channels /\ o.pend = op.pend /\ o.tx = op.tx /\ o.cond = "over"
        BY <1>2, ChannelTypes DEF Conditions
  <2> HIDE DEF o
  <2>8. ChannelInv'
        BY <1>1, <1>2, <2>1, <2>6, <2>7, AnswerHolds
  <2> QED
      BY <2>4, <2>5, <2>6, <2>8 DEF OInv
<1> QED
    BY <1>3, <1>4

\* START and STOP: refused at once, or the boundary begins to work for them.
LEMMA OpManageHolds ==
    ASSUME OInv, Drains, OpManage
    PROVE  OInv' /\ (op'.tx = "done" => op.tx = "done")
<1> DEFINE N == {"start", "stop"}
           o == [op EXCEPT !.active = TRUE]
<1>1. Dispatching(N)
      BY DEF OpManage
<1>2. /\ SInv /\ RunDurable /\ Quiet /\ ChannelInv /\ op \in Channels /\ Between
      /\ line.op \in {"start", "stop"} /\ back \in {"head", "select", "reply"}
      /\ image = "operator" =>
                 /\ stage.open => op.lease # "none"
                 /\ op.cond \in {"staging", "sealed"} => stage.open
                 /\ op.cond = "over" => ~stage.open
                 /\ op.cond = "sealed" => stage.sealed
      BY <1>1, RequestState
<1>3. Receive(line.op, "app") /\ line.op \in Commands /\ "app" \in Objects
      BY <1>2 DEF OpManage, Commands, Objects
<1>4. /\ o \in Channels /\ o.pend = op.pend /\ o.tx = op.tx /\ o.cond = op.cond
      /\ o.lease = op.lease /\ o.last = op.last
      BY <1>2, ChannelTypes
<1>5. ASSUME AtHead, plan' = plan
      PROVE  SInv' /\ RunDurable' /\ Quiet'
  <2>1. SInv' /\ m7'.mode = m7.mode
        BY <1>2, <1>3, <1>5, ReceiveKeeps
  <2>2. /\ UNCHANGED <<durable, timers, fifo, out>>
        BY <1>3 DEF Receive
  <2>3. Inert => Inert'
        BY <2>2 DEF Inert
  <2> QED
      BY <1>2, <1>5, <2>1, <2>2, <2>3, HeadQuiet
<1>6. stage' = stage /\ plan' = plan
      BY <1>3 DEF Receive
<1>7. CASE Receivable(line.op, "app")
  <2>1. /\ pc' = "boundary" /\ back' = "reply" /\ op' = o
        /\ UNCHANGED <<image, line, cl, ran>>
        BY <1>7 DEF OpManage
  <2>2. AtHead
        BY <1>2, <2>1 DEF AtHead, Between
  <2>3. m7'.cmd = line.op /\ m7'.pending
    <3>1. m7 \in Managers
          BY <1>2, HeadState
    <3> QED
        BY <1>3, <1>7, <3>1 DEF Receive, Managers
  <2>4. line # NoRequest /\ ~line.alien /\ line.id # op.last /\ ~Sending
        BY <1>1, <1>2, Dispatched
  <2> HIDE DEF o
  <2>5. ReplyOk'
        BY <1>2, <1>4, <2>1, <2>3, <2>4 DEF ReplyOk, Engaged, Sending
  <2>6. OwnTypes' /\ LineOk' /\ Once' /\ PendingOk' /\ StageLeased'
        BY <1>2, <1>4, <1>6, <2>1 DEF ChannelInv, OwnTypes, LineOk, Once, PendingOk, StageLeased
  <2> QED
      BY <1>4, <1>5, <1>6, <2>1, <2>2, <2>5, <2>6 DEF OInv, ChannelInv
<1>8. CASE ~Receivable(line.op, "app")
  <2>1. Answer(o, line, "failed")
        BY <1>8 DEF OpManage
  <2>2. AtHead
        BY <1>2, <2>1 DEF AtHead, Between, Answer
  <2> HIDE DEF o
  <2>3. ChannelInv' /\ (op'.tx = "done" => "failed" = "done")
        BY <1>1, <1>2, <1>4, <1>6, <2>1, AnswerHolds
  <2> QED
      BY <1>5, <1>6, <2>2, <2>3 DEF OInv
<1> QED
    BY <1>7, <1>8

\* The answer of a START or STOP whose boundary has returned.
LEMMA OpManagedHolds ==
    ASSUME OInv, OpManaged
    PROVE  /\ OInv'
           /\ op'.tx = "done" =>
                 \/ line.op = "start" /\ m7'.mode = "running" /\ started' = live'.inc
                 \/ line.op = "stop" /\ m7'.mode = "stopped" /\ out'.low /\ out'.inhibited
                    /\ fifo' = <<>> /\ timers' = 0
<1>1. /\ SInv /\ RunDurable /\ Quiet /\ ChannelInv /\ ReplyOk /\ op \in Channels /\ line \in Requests
      /\ pc \in {"confirmed", "denied"} /\ pc' \in {"head", "select"} /\ back' = back
      /\ UNCHANGED <<m7, durable, stage, live, fifo, timers, out, plan, debt, started, image, cl>>
  <2>1. pc' \in {"head", "select"}
        BY DEF OpManaged
  <2> QED
      BY <2>1 DEF OInv, ChannelInv, OwnTypes, OpManaged, Executed
<1>2. /\ line # NoRequest /\ ~line.alien /\ line.id # op.last /\ ~Sending
      /\ line.op \in {"start", "stop"} /\ back # "reply"
      BY <1>1, NotEngaged DEF ReplyOk, Engaged
<1>3. PICK res : res = IF pc = "confirmed" THEN "done" ELSE "failed"
      OBVIOUS
<1>4. Executed(op, line, res)
      BY <1>3 DEF OpManaged
<1>5. line.id = cl /\ ran = 0
      BY <1>1, <1>2 DEF ChannelInv, LineOk, Once
<1>6. /\ op' \in Channels /\ op'.lease = op.lease /\ op'.cond = op.cond /\ op'.pend # "done"
      /\ op'.tx = "done" => res = "done"
      /\ line' = NoRequest /\ cl' = cl /\ ran' \in {0, 1} /\ (ran' = 1 => op'.last = cl')
      BY <1>1, <1>2, <1>4, <1>5, ExecutedHolds DEF ChannelInv, PendingOk
<1>7. OwnTypes'
      BY <1>1, <1>6 DEF ChannelInv, OwnTypes, NoRequest, Requests, Ops
<1>8. LineOk' /\ PendingOk' /\ Once'
      BY <1>6 DEF LineOk, PendingOk, Once, NoRequest
<1>9. StageLeased'
      BY <1>1, <1>6 DEF ChannelInv, StageLeased
<1>10. ReplyOk'
       BY <1>1, <1>2 DEF ReplyOk, Engaged
<1>11. SInv'
  <2>1. ~plan.on /\ back' \in {"head", "select", "reply"}
        BY <1>1, TypeParts DEF SInv, PlanOk
  <2> QED
      BY <1>1, <2>1, ControlKeeps
<1>12. RunDurable' /\ Quiet'
       BY <1>1 DEF RunDurable, Quiet, Inert
<1>13. op'.tx = "done" => pc = "confirmed"
       BY <1>3, <1>6
<1>14. OInv'
       BY <1>7, <1>8, <1>9, <1>10, <1>11, <1>12 DEF OInv, ChannelInv
<1>15. pc = "confirmed" /\ line.op = "start" => m7'.mode = "running" /\ started' = live'.inc
       BY <1>1 DEF ReplyOk
<1>16. pc = "confirmed" /\ line.op = "stop" =>
          m7'.mode = "stopped" /\ out'.low /\ out'.inhibited /\ fifo' = <<>> /\ timers' = 0
       BY <1>1 DEF ReplyOk
<1> QED
    BY <1>2, <1>13, <1>14, <1>15, <1>16

\* Steps of the channel, the clock and the client that the manager does not see.
LEMMA ChannelStep ==
    ASSUME OInv, UNCHANGED svars, OwnTypes', LineOk', Once', PendingOk', StageLeased', ReplyOk'
    PROVE  OInv'
BY ManagerStutters DEF OInv, ChannelInv

\* A request that is not dispatched.
LEMMA RepeatHolds ==
    ASSUME OInv, Drains, Repeat \/ Refuse
    PROVE  OInv' /\ (op'.tx = "done" => op.tx = "done")
<1>1. /\ SInv /\ ChannelInv /\ ReplyOk /\ op \in Channels /\ Between /\ UNCHANGED svars
      /\ line' = NoRequest /\ UNCHANGED <<image, cl, ran>> /\ op.pend # "done"
      BY HeardBetween DEF OInv, ChannelInv, OwnTypes, Repeat, Refuse, PendingOk
<1>2. PICK reply \in {"result", "refusal"} : op' = op \/ op' = Enqueue(op, reply)
      BY DEF Repeat, Refuse
<1>3. /\ op' \in Channels /\ op'.last = op.last /\ op'.lease = op.lease /\ op'.cond = op.cond
      /\ op'.pend # "done" /\ (op'.tx = "done" => op.tx = "done")
  <2>1. reply \in Replies /\ reply # "done"
        BY <1>2 DEF Replies
  <2> QED
      BY <1>1, <1>2, <2>1, EnqueueType
<1>4. OwnTypes' /\ LineOk' /\ Once' /\ PendingOk' /\ StageLeased'
      BY <1>1, <1>3 DEF ChannelInv, OwnTypes, LineOk, Once, PendingOk, StageLeased,
         NoRequest, Requests, Ops, svars
<1>5. back # "reply"
      BY <1>1, NotEngaged
<1>6. ReplyOk'
      BY <1>1, <1>5 DEF Between, ReplyOk, Engaged, svars
<1> QED
    BY <1>1, <1>3, <1>4, <1>6, ChannelStep

\* The transmitter and the lease move.
LEMMA TransmitterHolds ==
    ASSUME OInv, Sent \/ Stalled \/ LeaseTick
    PROVE  OInv' /\ (op'.tx = "done" => op.tx = "done")
<1>1. /\ SInv /\ ChannelInv /\ ReplyOk /\ op \in Channels /\ UNCHANGED svars
      /\ UNCHANGED <<image, line, cl, ran>> /\ op.pend # "done"
      BY DEF OInv, ChannelInv, OwnTypes, Sent, Stalled, LeaseTick, PendingOk
<1>2. CASE Sent
  <2>1. PICK act \in BOOLEAN : act = (op.pend # "none")
        OBVIOUS
  <2>2. op' = [op EXCEPT !.tx = op.pend, !.pend = "none", !.active = act]
        BY <1>2, <2>1 DEF Sent
  <2>3. /\ op' \in Channels /\ op'.last = op.last /\ op'.lease = op.lease /\ op'.cond = op.cond
        /\ op'.pend = "none" /\ op'.tx = op.pend
        BY <1>1, <2>2 DEF Channels, Replies
  <2>4. OwnTypes' /\ LineOk' /\ Once' /\ PendingOk' /\ StageLeased'
        BY <1>1, <2>3 DEF ChannelInv, OwnTypes, LineOk, Once, PendingOk, StageLeased, svars
  <2>5. Sending
        BY <1>2 DEF Sent
  <2>6. ReplyOk'
        BY <1>1, <2>5 DEF ReplyOk, Engaged, svars
  <2> QED
      BY <1>1, <2>3, <2>4, <2>6, ChannelStep
<1>3. CASE Stalled
  <2>1. op' = [op EXCEPT !.tx = "none", !.pend = "none", !.active = FALSE] /\ Sending
        BY <1>3 DEF Stalled
  <2>2. /\ op' \in Channels /\ op'.last = op.last /\ op'.lease = op.lease /\ op'.cond = op.cond
        /\ op'.pend = "none" /\ op'.tx = "none"
        BY <1>1, <2>1 DEF Channels, Replies
  <2>3. OwnTypes' /\ LineOk' /\ Once' /\ PendingOk' /\ StageLeased'
        BY <1>1, <2>2 DEF ChannelInv, OwnTypes, LineOk, Once, PendingOk, StageLeased, svars
  <2>4. ReplyOk'
        BY <1>1, <2>1 DEF ReplyOk, Engaged, svars
  <2> QED
      BY <1>1, <2>2, <2>3, <2>4, ChannelStep
<1>4. CASE LeaseTick
  <2>1. op' = [op EXCEPT !.lease = "due"] /\ op.lease = "running"
        BY <1>4 DEF LeaseTick
  <2>2. /\ op' \in Channels /\ op'.last = op.last /\ op'.lease = "due" /\ op'.cond = op.cond
        /\ op'.pend = op.pend /\ op'.tx = op.tx
        BY <1>1, <2>1 DEF Channels
  <2>3. OwnTypes' /\ LineOk' /\ Once' /\ PendingOk' /\ StageLeased'
        BY <1>1, <2>2 DEF ChannelInv, OwnTypes, LineOk, Once, PendingOk, StageLeased, svars
  <2>4. ReplyOk'
        BY <1>1, <2>2 DEF ReplyOk, Engaged, Sending, svars
  <2> QED
      BY <1>1, <2>2, <2>3, <2>4, ChannelStep
<1> QED
    BY <1>2, <1>3, <1>4

\* The lease runs out: the stage goes with it.
LEMMA ExpireHolds ==
    ASSUME OInv, ExpireLease
    PROVE  OInv' /\ (op'.tx = "done" => op.tx = "done")
<1>1. /\ SInv /\ RunDurable /\ Quiet /\ ChannelInv /\ ReplyOk /\ op \in Channels
      /\ UNCHANGED <<pc, back, image, line, cl, ran>> /\ DeployAbort
      BY DEF OInv, ChannelInv, OwnTypes, ExpireLease
<1>2. stage' \in Stages /\ ~stage'.open
      BY <1>1, NoStageType, TypeParts DEF SInv, DeployAbort
<1>3. SInv'
      BY <1>1, <1>2, StageOnlyKeeps DEF DeployAbort
<1>4. RunDurable' /\ Quiet'
      BY <1>1, StageQuiet DEF DeployAbort
<1>5. /\ op' \in Channels /\ op'.last = op.last /\ op'.pend = op.pend /\ op'.tx = op.tx
      /\ op'.cond = "over"
      BY <1>1 DEF ExpireLease, Channels, Conditions
<1>6. OwnTypes' /\ LineOk' /\ Once' /\ PendingOk' /\ StageLeased'
      BY <1>1, <1>2, <1>5 DEF ChannelInv, OwnTypes, LineOk, Once, PendingOk, StageLeased
<1>7. ReplyOk'
      BY <1>1, <1>5 DEF DeployAbort, ReplyOk, Engaged, Sending
<1> QED
    BY <1>3, <1>4, <1>5, <1>6, <1>7 DEF OInv, ChannelInv

\* The line: the client transmits or goes on, a stranger interferes.
LEMMA LineHolds ==
    ASSUME OInv, Transmit \/ NextRequest \/ Stranger
    PROVE  OInv' /\ op' = op
<1>1. /\ SInv /\ ChannelInv /\ ReplyOk /\ op \in Channels /\ UNCHANGED svars
      /\ UNCHANGED <<image, op>> /\ line = NoRequest
      BY DEF OInv, ChannelInv, OwnTypes, Transmit, NextRequest, Stranger
<1>2. ~Engaged
      BY <1>1 DEF ReplyOk
<1>3. ReplyOk'
      BY <1>1, <1>2 DEF ReplyOk, Engaged, svars
<1>4. PendingOk' /\ StageLeased'
      BY <1>1 DEF ChannelInv, PendingOk, StageLeased, svars
<1>5. CASE Transmit
  <2>1. Asks[image] \subseteq Ops
        BY RequestAssumption DEF OInv, ChannelInv, OwnTypes
  <2>2. OwnTypes' /\ LineOk' /\ Once'
        BY <1>1, <1>5, <2>1 DEF Transmit, ChannelInv, OwnTypes, Requests, LineOk, Once
  <2> QED
      BY <1>1, <1>3, <1>4, <2>2, ChannelStep
<1>6. CASE NextRequest
  <2>1. OwnTypes' /\ LineOk' /\ Once'
        BY <1>1, <1>6 DEF NextRequest, ChannelInv, OwnTypes, LineOk, Once
  <2> QED
      BY <1>1, <1>3, <1>4, <2>1, ChannelStep
<1>7. CASE Stranger
  <2>1. OwnTypes' /\ LineOk' /\ Once'
        BY <1>1, <1>7 DEF Stranger, ChannelInv, OwnTypes, Requests, Channels, Ops, LineOk, Once
  <2> QED
      BY <1>1, <1>3, <1>4, <2>1, ChannelStep
<1> QED
    BY <1>1, <1>5, <1>6, <1>7

\* The pump, or the word that runs the loop.
LEMMA RunHolds ==
    ASSUME OInv, RunBounded
    PROVE  OInv' /\ op' = op
<1>1. /\ SInv /\ RunDurable /\ Quiet /\ ChannelInv /\ ReplyOk /\ UNCHANGED ovars
      /\ pc = "head" /\ pc' = "select" /\ back' = back /\ back \in {"head", "select", "reply"}
      /\ UNCHANGED <<m7, durable, stage, live, fifo, timers, out, plan, debt, started>>
      BY TypeParts DEF OInv, ChannelInv, RunBounded, SInv
<1>2. ~plan.on /\ back # "reply"
      BY <1>1, NotEngaged DEF Between, SInv, PlanOk
<1>3. SInv'
      BY <1>1, <1>2, ControlKeeps
<1>4. RunDurable' /\ Quiet'
      BY <1>1 DEF RunDurable, Quiet, Inert
<1>5. ReplyOk'
      BY <1>1, <1>2 DEF ReplyOk, Engaged
<1>6. OwnTypes' /\ LineOk' /\ Once' /\ PendingOk' /\ StageLeased'
      BY <1>1, OwnKeeps
<1> QED
    BY <1>1, <1>3, <1>4, <1>5, <1>6 DEF OInv, ChannelInv, ovars

\* The console of the laboratory image.
LEMMA ConsoleHolds ==
    ASSUME OInv, Console
    PROVE  OInv' /\ op' = op
<1>1. /\ SInv /\ RunDurable /\ Quiet /\ ChannelInv /\ ReplyOk /\ UNCHANGED ovars
      /\ pc = "head" /\ Between /\ back \in {"head", "select", "reply"} /\ image = "lab"
      BY TypeParts DEF Between, OInv, ChannelInv, Console, SInv
<1>2. ~plan.on /\ back # "reply"
      BY <1>1, NotEngaged DEF Between, SInv, PlanOk
<1>3. ASSUME SInv', RunDurable', Quiet', pc' \in {"head", "boundary"}, back' \in {back, "head"}
      PROVE  OInv' /\ op' = op
  <2>1. OwnTypes' /\ LineOk' /\ Once' /\ PendingOk' /\ StageLeased' /\ op' = op
        BY <1>1 DEF ChannelInv, ovars, OwnTypes, LineOk, Once, PendingOk, StageLeased
  <2>2. ReplyOk'
        BY <1>2, <1>3 DEF ReplyOk, Engaged
  <2> QED
      BY <1>3, <2>1, <2>2 DEF OInv, ChannelInv
<1>4. ASSUME pc' = pc, back' = back
      PROVE  AtHead
      BY <1>1, <1>4 DEF AtHead
<1>5. CASE \E c \in Commands, o \in Objects : Receive(c, o) /\ UNCHANGED <<pc, back>>
  <2>1. SInv' /\ m7'.mode = m7.mode
        BY <1>1, <1>4, <1>5, ReceiveKeeps
  <2>2. UNCHANGED <<durable, timers, fifo, out, plan>>
        BY <1>5 DEF Receive
  <2>3. Inert => Inert'
        BY <2>2 DEF Inert
  <2>4. RunDurable' /\ Quiet'
        BY <1>1, <2>1, <2>2, <2>3, HeadQuiet
  <2> QED
      BY <1>1, <1>3, <1>5, <2>1, <2>4
<1>6. CASE \E qi \in BOOLEAN : ManagerInit(qi)
  <2>1. SInv' /\ m7'.mode = m7.mode
        BY <1>1, <1>6, ManagerInitKeeps
  <2>2. UNCHANGED <<durable, timers, fifo, out, plan, pc, back>>
        BY <1>6 DEF ManagerInit
  <2>3. Inert => Inert'
        BY <2>2 DEF Inert
  <2>4. RunDurable' /\ Quiet'
        BY <1>1, <2>1, <2>2, <2>3, HeadQuiet
  <2> QED
      BY <1>1, <1>3, <2>1, <2>2, <2>4
<1>7. CASE /\ pc' = "boundary" /\ back' = "head"
           /\ UNCHANGED <<m7, durable, stage, live, fifo, timers, out, plan, debt, started>>
  <2>1. SInv'
        BY <1>1, <1>2, <1>7, ControlKeeps
  <2>2. RunDurable' /\ Quiet'
        BY <1>1, <1>7 DEF RunDurable, Quiet, Inert
  <2> QED
      BY <1>3, <1>7, <2>1, <2>2
<1>8. CASE \E ok, adv \in BOOLEAN : ForceStop(ok, adv) \/ Reset(ok, adv)
  <2>1. /\ SInv' /\ m7'.mode # "running" /\ fifo' = <<>> /\ timers' = 0
        /\ (out'.low \/ out'.fatal)
        BY <1>1, <1>8, ForcedKeeps
  <2>2. UNCHANGED <<plan, pc, back>>
        BY <1>8 DEF ForceStop, Reset
  <2>3. RunDurable' /\ Quiet'
        BY <1>1, <2>1, <2>2, InertEmpty, HeadQuiet
  <2> QED
      BY <1>1, <1>3, <2>1, <2>2, <2>3
<1>9. CASE Fill
  <2>1. SInv' /\ (Inert => Inert')
        BY <1>1, <1>9, FillKeeps DEF Inert
  <2>2. UNCHANGED <<m7, durable, timers, out, plan, pc, back>>
        BY <1>9 DEF Fill
  <2>3. RunDurable' /\ Quiet'
        BY <1>1, <2>1, <2>2, HeadQuiet
  <2> QED
      BY <1>1, <1>3, <2>1, <2>2, <2>3
<1>10. CASE Clobber
  <2>1. SInv'
        BY <1>1, <1>10, ClobberKeeps
  <2>2. RunDurable' /\ Quiet'
        BY <1>1, <1>10, StageQuiet DEF Clobber
  <2> QED
      BY <1>1, <1>3, <1>10, <2>1, <2>2 DEF Clobber
<1>11. CASE /\ \/ \E p \in Pkgs, r \in {"ok", "unknown", "busy"} : DeployBegin(p, r)
               \/ \E good \in BOOLEAN, r \in {"ok", "busy", "offset"} : DeployChunk(good, r)
               \/ DeployAbort
            /\ UNCHANGED <<pc, back>>
  <2>1. SInv'
        BY <1>1, <1>4, <1>11, DeployBeginKeeps, DeployChunkKeeps, DeployAbortKeeps
  <2>2. UNCHANGED <<m7, durable, fifo, timers, out, plan, pc, back>>
        BY <1>11 DEF DeployBegin, DeployChunk, DeployAbort
  <2>3. RunDurable' /\ Quiet'
        BY <1>1, <2>2, StageQuiet
  <2> QED
      BY <1>1, <1>3, <2>1, <2>2, <2>3
<1>12. CASE \E r \in {"ok", "offset", "state", "media", "digest", "candidate"} :
               DeploySeal(r) /\ UNCHANGED <<pc, back>>
  <2>1. SInv' /\ m7'.mode = m7.mode /\ (out' = out \/ out'.low \/ out'.fatal)
        BY <1>1, <1>4, <1>12, DeploySealKeeps
  <2>2. UNCHANGED <<durable, timers, fifo, plan>>
        BY <1>12 DEF DeploySeal
  <2>3. Inert => Inert'
        BY <2>2 DEF Inert
  <2>4. RunDurable' /\ Quiet'
        BY <1>1, <2>1, <2>2, <2>3, HeadQuiet
  <2> QED
      BY <1>1, <1>3, <1>12, <2>1, <2>4
<1>13. CASE \E r \in {"ok", "unknown", "state", "media", "digest", "candidate", "storage"} :
               DeployActivate(r) /\ UNCHANGED <<pc, back>>
  <2>1. PICK r : DeployActivate(r) /\ UNCHANGED <<pc, back>>
        BY <1>13
  <2>2. AtHead
        BY <1>4, <2>1
  <2>3. SInv'
        BY <1>1, <2>1, <2>2, DeployActivateKeeps
  <2>4. RunDurable' /\ Quiet'
        BY <1>1, <2>1, <2>2, ActivateQuiet
  <2> QED
      BY <1>1, <1>3, <2>1, <2>3, <2>4
<1> QED
    BY <1>5, <1>6, <1>7, <1>8, <1>9, <1>10, <1>11, <1>12, <1>13 DEF Console

-----------------------------------------------------------------------------
(* Invariance.                                                             *)

\* A step that changes nothing.
LEMMA StutterHolds ==
    ASSUME OInv, UNCHANGED vars
    PROVE  OInv'
<1>1. UNCHANGED svars /\ UNCHANGED ovars /\ stage' = stage
      BY DEF vars, svars
<1>2. ReplyOk'
      BY <1>1 DEF OInv, ChannelInv, svars, ovars, ReplyOk, Engaged, Sending
<1> QED
    BY <1>1, <1>2, OwnKeeps, ChannelStep DEF OInv

\* A plan is never idle: it begins with its slot, goes on only while the queue
\* is not empty, and nothing but the scheduler touches the queue meanwhile.
LEMMA DrainsStep ==
    ASSUME OInv, Drains, [Next]_vars
    PROVE  Drains'
<1>1. SInv
      BY DEF OInv
<1>2. CASE Boundary
  <2>1. (plan' = plan /\ fifo' = fifo) \/ plan' = NoPlan \/ plan'.slot
        BY <1>2 DEF Boundary, Undelivered, BeginPlan, NoPlan
  <2> QED
      BY <2>1, NoPlanFields DEF Drains
<1>3. CASE DeliverFails \/ DeliverStart \/ DeliverStop
      BY <1>3, NoPlanFields DEF DeliverFails, Undelivered, DeliverStart, DeliverStop, Drains
<1>4. ASSUME NEW committed \in BOOLEAN, NEW q, Terminal(committed, q)
      PROVE  Drains'
  <2>1. CASE ~plan.on
        BY <1>4, <2>1 DEF Terminal, Drains
  <2>2. CASE plan.on /\ plan'.on
        BY <1>4, <2>2, NoPlanFields DEF Terminal, Retire, NoPlan, Drains
  <2> QED
      BY <2>1, <2>2 DEF Drains
<1>5. CASE ServeSlot \/ ServeQueue \/ ServeExternal
  <2>1. \E c \in BOOLEAN : \E q : Terminal(c, q)
        BY <1>5 DEF ServeSlot, ServeQueue, ServeExternal, SlotFails, SlotCommits,
           QueueFails, QueueCommits, ExternalFails, ExternalCommits, EventFails, Commits
  <2> QED
      BY <1>4, <2>1
<1>6. CASE TimerFires \/ IdlePass
      BY <1>6 DEF TimerFires, IdlePass, svars, Drains
<1>7. CASE Handle
  <2>1. CASE OpActivate
    <3>1. Between
          BY <2>1, HeardBetween DEF OpActivate, Dispatching
    <3>2. ~plan.on /\ plan' = plan
          BY <1>1, <2>1, <3>1, HeadState DEF OpActivate, DeployActivate
    <3> QED
        BY <3>2 DEF Drains
  <2>2. CASE ~OpActivate
    <3>1. UNCHANGED <<plan, fifo>>
          BY <1>7, <2>2 DEF Handle, Repeat, Refuse, svars, OpStatus, OpSnapshot, OpManage, Receive,
             OpManaged, OpBegin, DeployBegin, OpChunk, DeployChunk, OpSeal, DeploySeal,
             OpCancel, DeployAbort
    <3> QED
        BY <3>1 DEF Drains
  <2> QED
      BY <2>1, <2>2
<1>8. CASE Console
  <2>1. ~plan.on
        BY <1>1, <1>8, HeadState DEF Between, Console
  <2>2. plan' = plan
        BY <1>8 DEF Console, Receive, ManagerInit, ForceStop, Reset, Fill, Clobber,
           DeployBegin, DeployChunk, DeploySeal, DeployActivate, DeployAbort
  <2> QED
      BY <2>1, <2>2 DEF Drains
<1>9. CASE RunBounded \/ Sent \/ ExpireLease \/ Stalled \/ LeaseTick
           \/ Transmit \/ NextRequest \/ Stranger \/ UNCHANGED vars
      BY <1>9 DEF RunBounded, Sent, ExpireLease, DeployAbort, Stalled, LeaseTick,
         Transmit, NextRequest, Stranger, svars, vars, Drains
<1> QED
    BY <1>2, <1>3, <1>5, <1>6, <1>7, <1>8, <1>9 DEF Next, Target, Scheduler

\* Every step preserves the invariant.
LEMMA NextHolds == OInv /\ Drains /\ [Next]_vars => OInv' /\ Drains'
<1> SUFFICES ASSUME OInv, Drains, [Next]_vars PROVE OInv'
    BY DrainsStep
<1>1. CASE Target
      BY <1>1, SchedulerHolds, RepeatHolds, OpStatusHolds, OpSnapshotHolds, OpManageHolds, OpManagedHolds,
         OpBeginHolds, OpChunkHolds, OpSealHolds, OpActivateHolds, OpCancelHolds,
         RunHolds, TransmitterHolds, ExpireHolds DEF Target, Handle
<1>2. CASE Console
      BY <1>2, ConsoleHolds
<1>3. CASE Stalled \/ LeaseTick
      BY <1>3, TransmitterHolds
<1>4. CASE Transmit \/ NextRequest \/ Stranger
      BY <1>4, LineHolds
<1>5. CASE UNCHANGED vars
      BY <1>5, StutterHolds
<1> QED
    BY <1>1, <1>2, <1>3, <1>4, <1>5 DEF Next

\* The inductive invariant holds.
THEOREM Invariant == Spec => [](OInv /\ Drains)
<1>1. Init => OInv /\ Drains
      BY InitHolds
<1>2. OInv /\ Drains /\ [Next]_vars => OInv' /\ Drains'
      BY NextHolds
<1> QED
    BY <1>1, <1>2, PTL DEF Spec

\* Type correctness of the manager and of the channel: FIFO within EVQ_CAP, a
\* plan within its transactions, an incarnation that never wraps.
THEOREM TypeCorrect == Spec => []TypeOK
<1>1. OInv => TypeOK
      BY DEF OInv, SInv, ChannelInv, OwnTypes, Once, TypeOK, Channels, Requests
<1> QED
    BY <1>1, Invariant, PTL

\* RunningWasStarted, for every instance.
THEOREM AlwaysStarted == Spec => []RunningWasStarted
<1>1. OInv => RunningWasStarted
      BY DEF OInv, SInv, RunOk, RunDurable, RunningWasStarted
<1> QED
    BY <1>1, Invariant, PTL

\* CausesServed: a delivered lifecycle owes nothing, whatever the backlog.
THEOREM AlwaysServed == Spec => []CausesServed
<1>1. OInv => CausesServed
      BY DEF OInv, SInv, PlanOk, DebtOk, CausesServed
<1> QED
    BY <1>1, Invariant, PTL

\* StoppedIsQuiet: outside RUNNING nothing of the application is left.
THEOREM AlwaysQuiet == Spec => []StoppedIsQuiet
<1>1. OInv => StoppedIsQuiet
      BY DEF OInv, Quiet, Inert, StoppedIsQuiet
<1> QED
    BY <1>1, Invariant, PTL

\* AtMostOnce: a request that was answered once is never executed again,
\* however often it is transmitted.
THEOREM AlwaysAtMostOnce == Spec => []AtMostOnce
<1>1. OInv => AtMostOnce
      BY DEF OInv, ChannelInv, Once, AtMostOnce
<1> QED
    BY <1>1, Invariant, PTL

\* StageLeased: an open stage of the operator image always has a lease.
THEOREM AlwaysLeased == Spec => []StageLeased
<1>1. OInv => StageLeased
      BY DEF OInv, ChannelInv
<1> QED
    BY <1>1, Invariant, PTL

-----------------------------------------------------------------------------
(* Action properties.                                                      *)

\* The three ways to a new epoch: a stop that was delivered or forced, and an
\* activation.
LEMMA EpochEnds ==
    ASSUME OInv, Drains, Next
    PROVE  \/ UNCHANGED live
           \/ DeliverStop
           \/ pc = "head" /\ \E ok, adv \in BOOLEAN : ForceStop(ok, adv) \/ Reset(ok, adv)
           \/ AtHead /\ \E r : DeployActivate(r)
<1>1. back \in {"head", "select", "reply"}
      BY TypeParts DEF OInv, SInv
<1>2. CASE Scheduler
      BY <1>2 DEF Scheduler, Boundary, BeginPlan, Undelivered, DeliverFails, DeliverStart,
         ServeSlot, ServeQueue, ServeExternal, SlotFails, SlotCommits, QueueFails, QueueCommits,
         ExternalFails, ExternalCommits, Fixed, IdlePass, svars, TimerFires
<1>3. CASE OpActivate
  <2>1. PICK r : DeployActivate(r) /\ UNCHANGED <<pc, back>>
        BY <1>3 DEF OpActivate, Answer
  <2>2. AtHead
        BY <1>1, <1>3, <2>1, HeardBetween DEF AtHead, Between, OpActivate, Dispatching
  <2> QED
      BY <2>1, <2>2
<1>4. CASE OpStatus \/ OpSnapshot \/ OpManage \/ OpManaged \/ OpBegin \/ OpChunk \/ OpSeal \/ OpCancel
      BY <1>4 DEF OpStatus, OpSnapshot, OpManage, Receive, OpManaged, OpBegin, DeployBegin, OpChunk, DeployChunk,
         OpSeal, DeploySeal, OpCancel, DeployAbort
<1>5. CASE Repeat \/ Refuse \/ RunBounded \/ Sent \/ Stalled \/ LeaseTick \/ ExpireLease
           \/ Transmit \/ NextRequest \/ Stranger
      BY <1>5 DEF Repeat, Refuse, RunBounded, Sent, Stalled, LeaseTick, ExpireLease, DeployAbort,
         Transmit, NextRequest, Stranger, svars
<1>6. CASE Console
  <2>1. pc = "head"
        BY <1>6 DEF Console
  <2>2. CASE \E ok, adv \in BOOLEAN : ForceStop(ok, adv) \/ Reset(ok, adv)
        BY <2>1, <2>2
  <2>3. CASE \E r : DeployActivate(r) /\ UNCHANGED <<pc, back>>
        BY <1>1, <2>1, <2>3 DEF AtHead, Between
  <2>4. CASE ~(\E ok, adv \in BOOLEAN : ForceStop(ok, adv) \/ Reset(ok, adv))
             /\ ~(\E r : DeployActivate(r) /\ UNCHANGED <<pc, back>>)
        BY <1>6, <2>4 DEF Console, Receive, ManagerInit, Fill, Clobber, DeployBegin, DeployChunk,
           DeploySeal, DeployAbort
  <2> QED
      BY <2>2, <2>3, <2>4
<1> QED
    BY <1>2, <1>3, <1>4, <1>5, <1>6 DEF Next, Target, Handle

\* The next epoch is the next incarnation, with nothing of the last one.
LEMMA EpochStep ==
    ASSUME OInv, Drains, Next, live' # live
    PROVE  /\ live'.inc = live.inc + 1 /\ m7'.inc = live'.inc
           /\ fifo' = <<>> /\ timers' = 0
           /\ out'.inhibited /\ m7'.mode # "running"
<1>1. SInv /\ SInv' /\ m7'.inc = live'.inc /\ m7.inc = live.inc /\ live \in Gates /\ m7 \in Managers
      /\ out \in Banks
      BY NextHolds, TypeParts DEF OInv, SInv, Epoch
<1>2. CASE DeliverStop
  <2>1. PICK safe \in BOOLEAN, adv \in BOOLEAN :
           /\ out' = Safe(safe) /\ Advance(adv)
           /\ m7' = Finished([m7 EXCEPT !.mode = IF adv THEN "stopped" ELSE @,
                                        !.inc = IF adv THEN @ + 1 ELSE @, !.safe = safe])
        BY <1>2 DEF DeliverStop
  <2>2. adv
        BY <2>1 DEF Advance
  <2>3. live'.inc = live.inc + 1
        BY <1>1, <2>1, <2>2, AdvanceType
  <2>4. m7'.mode = "stopped"
        BY <1>1, <2>1, <2>2 DEF Finished, Managers
  <2>5. out'.inhibited
        BY <1>1, <2>1, SafeType
  <2> QED
      BY <1>1, <1>2, <2>3, <2>4, <2>5 DEF DeliverStop
<1>3. CASE pc = "head" /\ \E ok, adv \in BOOLEAN : ForceStop(ok, adv) \/ Reset(ok, adv)
  <2>1. PICK ok \in BOOLEAN, adv \in BOOLEAN : ForceStop(ok, adv) \/ Reset(ok, adv)
        BY <1>3
  <2>2. out' = Safe(ok) /\ Advance(adv)
        BY <2>1 DEF ForceStop, Reset
  <2>3. adv
        BY <2>2 DEF Advance
  <2>4. live'.inc = live.inc + 1
        BY <1>1, <2>2, <2>3, AdvanceType
  <2>5. out'.inhibited
        BY <1>1, <2>2, SafeType
  <2>6. m7'.mode # "running" /\ fifo' = <<>> /\ timers' = 0
        BY <1>1, <1>3, <2>1, ForcedKeeps
  <2> QED
      BY <1>1, <2>4, <2>5, <2>6
<1>4. CASE AtHead /\ \E r : DeployActivate(r)
  <2>1. PICK r : DeployActivate(r)
        BY <1>4
  <2>2. \/ UNCHANGED live
        \/ /\ fifo' = <<>> /\ timers' = 0 /\ m7'.mode = "idle"
           /\ live'.inc = live.inc + 1 /\ out'.inhibited
        BY <1>1, <1>4, <2>1, DeployActivateKeeps
  <2> QED
      BY <1>1, <2>2
<1> QED
    BY <1>2, <1>3, <1>4, EpochEnds

\* EpochClean: nothing of an epoch is alive in the next one.
THEOREM AlwaysEpochClean == Spec => EpochClean
<1>1. OInv /\ Drains /\ [Next]_vars =>
         [live' # live =>
             /\ live'.inc = live.inc + 1 /\ m7'.inc = live'.inc
             /\ fifo' = <<>> /\ timers' = 0
             /\ out'.inhibited /\ m7'.mode # "running"]_svars
      BY EpochStep DEF vars
<1> QED
    BY <1>1, Invariant, PTL DEF Spec, EpochClean

\* Packages only change with an activation.
LEMMA InstalledStep ==
    ASSUME OInv, Drains, Next, live'.pkg # live.pkg \/ (live' # live /\ stage.open /\ ~stage'.open)
    PROVE  stage.open /\ stage.sealed /\ stage.good /\ ~stage'.open /\ live'.pkg = stage.want
<1>1. SInv /\ live \in Gates
      BY TypeParts DEF OInv, SInv
<1>2. CASE DeliverStop
  <2>1. UNCHANGED stage /\ \E adv \in BOOLEAN : Advance(adv)
        BY <1>2 DEF DeliverStop
  <2>2. live'.pkg = live.pkg
        BY <1>1, <2>1, AdvanceType
  <2> QED
      BY <2>1, <2>2
<1>3. CASE \E ok, adv \in BOOLEAN : ForceStop(ok, adv) \/ Reset(ok, adv)
  <2>1. UNCHANGED stage /\ \E adv \in BOOLEAN : Advance(adv)
        BY <1>3 DEF ForceStop, Reset
  <2>2. live'.pkg = live.pkg
        BY <1>1, <2>1, AdvanceType
  <2> QED
      BY <2>1, <2>2
<1>4. CASE AtHead /\ \E r : DeployActivate(r)
  <2>1. PICK r : DeployActivate(r)
        BY <1>4
  <2>2. \/ UNCHANGED live
        \/ /\ stage.open /\ stage.sealed /\ stage.good /\ ~stage'.open
           /\ live'.pkg = stage.want
        BY <1>1, <1>4, <2>1, DeployActivateKeeps
  <2> QED
      BY <2>2
<1> QED
    BY <1>2, <1>3, <1>4, EpochEnds

\* InstalledAsDeclared: what becomes live is what the sealed stage declared.
THEOREM AlwaysInstalledAsDeclared == Spec => InstalledAsDeclared
<1>1. OInv /\ Drains /\ [Next]_vars =>
         [live'.pkg # live.pkg \/ (live' # live /\ stage.open /\ ~stage'.open) =>
             /\ stage.open /\ stage.sealed /\ stage.good /\ ~stage'.open
             /\ live'.pkg = stage.want]_svars
      BY InstalledStep DEF vars
<1> QED
    BY <1>1, Invariant, PTL DEF Spec, InstalledAsDeclared

\* A request that reports "done" has done what it was asked for.
LEMMA DoneStep ==
    ASSUME OInv, Drains, Next, op'.tx = "done", op.tx # "done"
    PROVE  CASE line.op = "start" -> m7'.mode = "running" /\ started' = live'.inc
             [] line.op = "stop" -> /\ m7'.mode = "stopped" /\ out'.low /\ out'.inhibited
                                    /\ fifo' = <<>> /\ timers' = 0
             [] line.op = "activate" -> live'.pkg = stage.want /\ durable' /\ out'.inhibited
             [] line.op = "snapshot" -> durable' /\ ~stage'.open
             [] line.op = "begin" -> stage'.open /\ m7'.mode # "running"
             [] line.op = "cancel" -> ~stage'.open
             [] OTHER -> TRUE
<1>1. ~(Scheduler \/ RunBounded \/ Sent \/ Stalled \/ LeaseTick \/ ExpireLease \/ Repeat \/ Refuse
        \/ OpManage \/ Console \/ Transmit \/ NextRequest \/ Stranger)
  <2>1. Scheduler => op' = op
        BY DEF Scheduler, ovars
  <2> QED
      BY <2>1, RunHolds, TransmitterHolds, ExpireHolds, RepeatHolds, OpManageHolds, ConsoleHolds, LineHolds
<1>2. CASE OpManaged
      BY <1>2, OpManagedHolds
<1>3. CASE OpStatus \/ OpSnapshot
  <2>1. line.op = "status" \/ (line.op = "snapshot" /\ durable' /\ ~stage'.open)
        BY <1>3, OpSnapshotHolds DEF OpStatus, OpSnapshot, Dispatching
  <2> QED
      BY <2>1
<1>4. CASE OpBegin
  <2>1. line.op = "begin"
        BY <1>4 DEF OpBegin, Dispatching
  <2> QED
      BY <1>4, <2>1, OpBeginHolds
<1>5. CASE OpChunk \/ OpSeal
  <2>1. line.op \in {"chunk", "seal"}
        BY <1>5 DEF OpChunk, OpSeal, Dispatching
  <2> QED
      BY <2>1
<1>6. CASE OpActivate
  <2>1. line.op = "activate"
        BY <1>6 DEF OpActivate, Dispatching
  <2> QED
      BY <1>6, <2>1, OpActivateHolds
<1>7. CASE OpCancel
  <2>1. line.op = "cancel"
        BY <1>7 DEF OpCancel, Dispatching
  <2> QED
      BY <1>7, <2>1, OpCancelHolds
<1> QED
    BY <1>1, <1>2, <1>3, <1>4, <1>5, <1>6, <1>7 DEF Next, Target, Handle

\* DoneMeansDone, for every request and every instance.
THEOREM AlwaysDone == Spec => DoneMeansDone
<1>1. OInv /\ Drains /\ [Next]_vars =>
         [op'.tx = "done" /\ op.tx # "done" =>
             CASE line.op = "start" -> m7'.mode = "running" /\ started' = live'.inc
               [] line.op = "stop" -> /\ m7'.mode = "stopped" /\ out'.low /\ out'.inhibited
                                      /\ fifo' = <<>> /\ timers' = 0
               [] line.op = "activate" -> live'.pkg = stage.want /\ durable' /\ out'.inhibited
               [] line.op = "snapshot" -> durable' /\ ~stage'.open
               [] line.op = "begin" -> stage'.open /\ m7'.mode # "running"
               [] line.op = "cancel" -> ~stage'.open
               [] OTHER -> TRUE]_vars
      BY DoneStep
<1> QED
    BY <1>1, Invariant, PTL DEF Spec, DoneMeansDone

-----------------------------------------------------------------------------
(* Checkpoint and restart.                                                 *)

\* The live gate came from the package a save would store with it.
Origin == Blob = live.pkg

\* No token of another epoch is armed or queued.
Owned == tokens \subseteq {live.inc}

\* What was saved running had been started, and a saved closed process
\* passes the checks of a restart.
SnapOk ==
    snap # None =>
        /\ snap.mode = "running" => snap.started
        /\ snap.pkg \in ClosedPkgs => Restorable(snap)

\* The values of the variables of this module.
Own ==
    /\ host \in Hosts /\ base \in Pkgs /\ active \in Pkgs \cup {None} /\ svc \in Services
    /\ snap \in Snapshots \cup {None}

CInv == SInv /\ Own /\ Origin /\ Owned /\ SnapOk

-----------------------------------------------------------------------------
(* Snapshots.                                                              *)

\* The shape of a snapshot, field by field.
LEMMA SnapshotParts ==
    ASSUME NEW s \in Snapshots
    PROVE  /\ s.blob \in Pkgs /\ s.pkg \in Pkgs /\ s.inc \in 1 .. MaxInc /\ s.header \in 1 .. MaxInc
           /\ s.mode \in Modes /\ s.qi \in BOOLEAN /\ s.queued \in 0 .. QCap /\ s.timers \in {0, 1}
           /\ s.tokens \in SUBSET (1 .. MaxInc) /\ s.svc \in Services /\ s.started \in BOOLEAN
BY DEF Snapshots

\* The part of the invariant that is about the selected snapshot, of one.
Sound(s) ==
    /\ s \in Snapshots
    /\ s.mode = "running" => s.started
    /\ s.pkg \in ClosedPkgs => Restorable(s)

\* What a capture takes out of a sound state is sound: the queue has its
\* bound, the mode is running over a started epoch, the header is the
\* record's, and the guard of a closed process is the one of its restart.
LEMMA CaptureSound ==
    ASSUME CInv, NEW q \in Seq(Sources), Len(q) <= QCap, NEW t \in {0, 1}, NEW s \in Services,
           CaptureGuard(q, t, s)
    PROVE  Sound(Capture(q, t, s))
<1> DEFINE c == Capture(q, t, s)
<1>1. /\ m7 \in Managers /\ live \in Gates /\ started \in 0 .. MaxInc
      /\ m7.inc = live.inc /\ (m7.mode = "running" => started = live.inc)
      /\ Blob = live.pkg /\ tokens \subseteq {live.inc}
  BY TypeParts DEF CInv, SInv, Epoch, RunOk, Origin, Owned
<1>2. /\ m7.mode \in Modes /\ m7.inc \in 1 .. MaxInc /\ m7.qi \in BOOLEAN
      /\ live.pkg \in Pkgs /\ live.inc \in 1 .. MaxInc
  BY <1>1 DEF Managers, Gates
<1>3. Len(q) \in 0 .. QCap
  BY Bounds
<1>4. Owners(q, t) \subseteq {live.inc}
  BY <1>1 DEF Owners
<1>5. /\ c.blob = live.pkg /\ c.pkg = live.pkg /\ c.inc = m7.inc /\ c.header = live.inc
      /\ c.mode = m7.mode /\ c.qi = m7.qi /\ c.queued = Len(q) /\ c.timers = t
      /\ c.tokens = Owners(q, t) /\ c.svc = s /\ c.started = (started = live.inc)
  BY <1>1 DEF Capture
<1>6. c \in Snapshots
  <2>1. Owners(q, t) \in SUBSET (1 .. MaxInc) /\ (started = live.inc) \in BOOLEAN
    BY <1>2, <1>4
  <2> QED
    BY <1>1, <1>2, <1>3, <2>1 DEF Capture, Snapshots
<1>7. c.mode = "running" => c.started
  BY <1>1, <1>5
<1>8. c.pkg \in ClosedPkgs => Restorable(c)
  <2> SUFFICES ASSUME c.pkg \in ClosedPkgs
               PROVE  Restorable(c)
    OBVIOUS
  <2>1. ScanQuiescent(m7.mode, Len(q), t, s)
    BY <1>5 DEF CaptureGuard, Closed
  <2>2. c.mode # "stopping"
    BY <1>5, <2>1 DEF ScanQuiescent
  <2>3. Bound(c) /\ c.blob = c.pkg /\ HeaderTrue(c) /\ RootsValid(c)
    BY <1>1, <1>4, <1>5, CheckpointAssumption DEF Bound, HasRoles, HeaderTrue, RootsValid
  <2>4. SavedQuiescent(c)
    BY <1>5, <2>1 DEF SavedQuiescent
  <2> QED
    BY <2>2, <2>3, <2>4 DEF Restorable
<1> QED
  BY <1>6, <1>7, <1>8 DEF Sound

\* What an activation commits beside its package is sound.
LEMMA DeployedSound ==
    ASSUME SInv, NEW p \in Pkgs, m7.inc < MaxInc
    PROVE  Sound(Deployed(p))
<1> DEFINE d == Deployed(p)
<1>1. m7.inc + 1 \in 1 .. MaxInc
  BY TypeParts, Bounds DEF SInv, Managers
<1>2. d \in Snapshots
  BY <1>1, Bounds DEF Deployed, Snapshots, Modes, Services
<1>3. /\ d.blob = p /\ d.pkg = p /\ d.inc = d.header /\ d.mode = "idle" /\ d.queued = 0
      /\ d.timers = 0 /\ d.tokens = {} /\ d.svc = "fresh"
  BY DEF Deployed
<1>4. d.pkg \in ClosedPkgs => Restorable(d)
  BY <1>3, CheckpointAssumption
     DEF Restorable, HeaderTrue, Bound, HasRoles, RootsValid, SavedQuiescent, ScanQuiescent
<1> QED
  BY <1>2, <1>3, <1>4 DEF Sound

\* The selected snapshot is a sound one or there is none.
LEMMA SnapSound ==
    ASSUME CInv
    PROVE  snap = None \/ Sound(snap)
BY DEF CInv, Own, SnapOk, Sound

\* The same of the next state.
LEMMA SnapSoundNext ==
    ASSUME snap' = None \/ Sound(snap')
    PROVE  snap' \in Snapshots \cup {None} /\ SnapOk'
BY DEF SnapOk, Sound, Restorable, HeaderTrue, Bound, HasRoles, RootsValid, SavedQuiescent, ScanQuiescent

\* An attempt to save leaves a sound snapshot selected, keeps the origin of
\* the gate and leaves a bank.
LEMMA SaveAfterKeeps ==
    ASSUME CInv, NEW q \in Seq(Sources), Len(q) <= QCap, NEW t \in {0, 1}, NEW s \in Services,
           NEW bank \in Banks, SaveAfter(q, t, s, bank)
    PROVE  /\ snap' = None \/ Sound(snap')
           /\ active' \in Pkgs \cup {None} /\ active' \in {active, Blob}
           /\ out' \in Banks
<1>1. active \in Pkgs \cup {None} /\ base \in Pkgs
  BY DEF CInv, Own
<1>2. Blob \in Pkgs \cup {None}
  BY <1>1 DEF Blob
<1>3. \A ok \in BOOLEAN : SafeFrom(bank, ok) \in Banks
  BY DEF SafeFrom, Banks
<1>4. CASE out' = bank /\ active' \in {active, Blob} /\ UNCHANGED snap
  BY <1>1, <1>2, <1>4, SnapSound
<1>5. CASE /\ CaptureGuard(q, t, s)
           /\ \E ok \in BOOLEAN :
                 /\ out' = IF Closed THEN SafeFrom(bank, ok) ELSE bank
                 /\ active' = Blob
                 /\ snap' \in {snap} \cup (IF ok THEN {Capture(q, t, s)} ELSE {})
  <2>1. Sound(Capture(q, t, s))
    BY <1>5, CaptureSound
  <2> HIDE DEF Sound
  <2>2. snap' \in {snap, Capture(q, t, s)}
    BY <1>5
  <2> QED
    BY <1>1, <1>2, <1>3, <1>5, <2>1, <2>2, SnapSound
<1> QED
  BY <1>4, <1>5 DEF SaveAfter

-----------------------------------------------------------------------------
(* The epoch's tokens and the gate's package.                              *)

\* A step that is tracked and changes the epoch only with nothing left.
LEMMA TrackedOwned ==
    ASSUME CInv, Tracked, live' = live \/ (fifo' = <<>> /\ timers' = 0)
    PROVE  Owned'
BY DEF CInv, Owned, Tracked, Owners

\* The origin depends on the package of the gate, not on its incarnation.
LEMMA OriginKept ==
    ASSUME CInv, live'.pkg = live.pkg, active' \in {active, Blob}, base' = base
    PROVE  Origin'
<1>1. Blob = live.pkg /\ live.pkg \in Pkgs /\ base \in Pkgs
  BY TypeParts DEF CInv, SInv, Own, Origin, Gates
<1>2. live.pkg # None
  BY <1>1, CheckpointAssumption
<1> QED
  BY <1>1, <1>2 DEF Origin, Blob

\* A tracked step that leaves the variables of this module alone.
LEMMA SchedulerKeeps ==
    ASSUME CInv, SInv', live'.pkg = live.pkg, live' = live \/ (fifo' = <<>> /\ timers' = 0),
           Tracked, host' \in Hosts, UNCHANGED <<base, active, svc, snap>>
    PROVE  CInv'
<1>1. Origin' /\ Owned'
  BY OriginKept, TrackedOwned
<1>2. Own'
  BY DEF CInv, Own
<1>3. SnapOk'
  BY SnapSound, SnapSoundNext
<1> QED
  BY <1>1, <1>2, <1>3 DEF CInv

-----------------------------------------------------------------------------
(* The steps.                                                              *)

\* What a scheduler step makes of the epoch.
LEMMA SchedulerEpoch ==
    ASSUME SInv,
           \/ Boundary \/ DeliverFails \/ DeliverStart \/ DeliverStop
           \/ SlotFails \/ QueueFails \/ ExternalFails \/ IdlePass \/ TimerFires
    PROVE  SInv' /\ live'.pkg = live.pkg /\ (live' = live \/ (fifo' = <<>> /\ timers' = 0))
<1>1. CASE Boundary
  <2>1. live' = live
    BY <1>1, BoundaryCases DEF BeginPlan, Undelivered
  <2> QED
    BY <1>1, <2>1, BoundaryKeeps
<1>2. CASE DeliverFails
  BY <1>2, DeliverFailsKeeps DEF DeliverFails, Undelivered
<1>3. CASE DeliverStart
  BY <1>3, DeliverStartKeeps DEF DeliverStart
<1>4. CASE DeliverStop
  <2>1. SInv' /\ fifo' = <<>> /\ timers' = 0
    BY <1>4, DeliverStopKeeps
  <2>2. \E adv \in BOOLEAN : Advance(adv)
    BY <1>4 DEF DeliverStop
  <2>3. live'.pkg = live.pkg
    BY <2>2, AdvanceType
  <2> QED
    BY <2>1, <2>3
<1>5. CASE SlotFails \/ QueueFails \/ ExternalFails
  <2>1. live' = live
    BY <1>5 DEF SlotFails, QueueFails, ExternalFails, Fixed
  <2>2. SInv'
    BY <1>5, ServeSlotKeeps, ServeQueueKeeps, ServeExternalKeeps DEF ServeSlot, ServeQueue, ServeExternal
  <2> QED
    BY <2>1, <2>2
<1>6. CASE IdlePass
  BY <1>6, StutterKeeps DEF IdlePass, svars
<1>7. CASE TimerFires
  BY <1>7, TimerFiresKeeps DEF TimerFires
<1> QED
  BY <1>1, <1>2, <1>3, <1>4, <1>5, <1>6, <1>7

\* A commit that may save: the bank it leaves is the output's, or made safe.
LEMMA ServeKeeps ==
    ASSUME CInv, Serve
    PROVE  CInv'
<1>1. /\ SInv /\ out \in Banks /\ svc \in Services /\ fifo \in Seq(Sources) /\ Len(fifo) <= QCap
      /\ timers \in {0, 1} /\ host \in Hosts /\ base \in Pkgs
  BY TypeParts DEF CInv, SInv, Own
<1>2. svc' \in Services
  BY <1>1 DEF Serve
<1>3. PICK n \in Fan, arms \in {0, 1}, bank \in Driven :
         /\ SaveAfter(Promoted(Rest, n), IF timers = 0 THEN arms ELSE timers, svc', bank)
         /\ SlotCommits(n, arms, out') \/ QueueCommits(n, arms, out') \/ ExternalCommits(n, arms, out')
  BY DEF Serve
<1>4. bank \in Banks
  BY <1>1, DrivenType
<1>5. pc = "select" /\ Fixed
  BY <1>3 DEF SlotCommits, QueueCommits, ExternalCommits, Slot, Queued, Idle
<1>6. PICK own : Serving(Rest, own) /\ Commits(Rest, own, n, arms, out')
  <2>1. CASE SlotCommits(n, arms, out') \/ ExternalCommits(n, arms, out')
    <3>1. Rest = fifo /\ Commits(fifo, 0, n, arms, out')
      BY <2>1 DEF Rest, Queued, SlotCommits, ExternalCommits, Slot, Idle
    <3> QED
      BY <1>1, <1>5, <3>1, ServingFront
  <2>2. CASE QueueCommits(n, arms, out')
    <3>1. /\ Queued /\ Rest = Tail(fifo)
          /\ Commits(Tail(fifo), IF Head(fifo) = "life" THEN 1 ELSE 0, n, arms, out')
      BY <2>2 DEF Rest, QueueCommits
    <3>2. ~plan.slot /\ fifo # <<>>
      BY <3>1 DEF Queued
    <3> QED
      BY <1>1, <1>5, <3>1, <3>2, ServingHead
  <2> QED
    BY <1>3, <2>1, <2>2
<1>7. Promoted(Rest, n) \in Seq(Sources) /\ Len(Promoted(Rest, n)) <= QCap
  BY <1>1, <1>6, PromotedOwes DEF Commits
<1>8. /\ snap' = None \/ Sound(snap')
      /\ active' \in Pkgs \cup {None} /\ active' \in {active, Blob}
      /\ out' \in Banks
  <2> DEFINE q == Promoted(Rest, n)
             t == IF timers = 0 THEN arms ELSE timers
  <2>1. t \in {0, 1} /\ q \in Seq(Sources) /\ Len(q) <= QCap /\ SaveAfter(q, t, svc', bank)
    BY <1>1, <1>3, <1>7
  <2> HIDE DEF q, t
  <2> QED
    BY <1>2, <1>4, <2>1, SaveAfterKeeps
<1>9. SInv'
  BY <1>1, <1>5, <1>6, <1>8, CommitsKeeps
<1>10. Tracked /\ UNCHANGED <<host, base>> /\ live' = live
  BY <1>5 DEF Serve, Fixed
<1>11. Origin' /\ Owned'
  BY <1>8, <1>10, OriginKept, TrackedOwned
<1>12. Own' /\ SnapOk'
  BY <1>1, <1>2, <1>8, <1>10, SnapSoundNext DEF Own
<1> QED
  BY <1>9, <1>11, <1>12 DEF CInv

\* A save between two events.
LEMMA SaveKeeps ==
    ASSUME CInv, Save
    PROVE  CInv'
<1>1. SInv /\ svc \in Services /\ pc = "head" /\ host \in Hosts /\ base \in Pkgs
  BY DEF CInv, Own, Save
<1>2. /\ out \in Banks /\ fifo \in Seq(Sources) /\ Len(fifo) <= QCap /\ Owed(fifo) = 0
      /\ timers \in {0, 1} /\ m7 \in Managers /\ durable \in BOOLEAN /\ stage \in Stages
      /\ live \in Gates /\ m7.inc = live.inc
  BY <1>1, HeadState DEF Between
<1>3. /\ SaveAfter(fifo, timers, svc, out)
      /\ UNCHANGED <<m7, durable, stage, live, fifo, timers, plan, debt, started, pc, back>>
      /\ UNCHANGED <<host, base, svc, tokens>>
  BY DEF Save
<1>4. /\ snap' = None \/ Sound(snap')
      /\ active' \in Pkgs \cup {None} /\ active' \in {active, Blob}
      /\ out' \in Banks
  BY <1>1, <1>2, <1>3, SaveAfterKeeps
<1>5. AtHead
  BY <1>1, <1>3, TypeParts DEF AtHead, Between, SInv
<1>6. SInv'
  BY <1>1, <1>2, <1>3, <1>4, <1>5, HeadKeeps
<1>7. Origin' /\ Owned'
  BY <1>3, <1>4, OriginKept DEF CInv, Owned
<1>8. Own' /\ SnapOk'
  BY <1>1, <1>3, <1>4, SnapSoundNext DEF Own
<1> QED
  BY <1>6, <1>7, <1>8 DEF CInv

\* A fresh installation.
LEMMA InstallKeeps ==
    ASSUME CInv, InstallPill, host' \in Hosts, UNCHANGED <<base, snap>>
    PROVE  CInv'
<1>1. SupTypeOK /\ live \in Gates /\ base \in Pkgs
  BY TypeParts DEF CInv, SInv, Own
<1>2. /\ live' = [pkg |-> base, inc |-> 1] /\ started' = 0
      /\ m7' = Initial(1) /\ durable' = TRUE /\ stage' = NoStage /\ active' = None
      /\ fifo' = <<>> /\ timers' = 0 /\ svc' = "fresh" /\ tokens' = {}
      /\ out' = [low |-> TRUE, inhibited |-> FALSE, fatal |-> FALSE]
      /\ plan' = NoPlan /\ debt' = 0 /\ pc' = "head" /\ back' = "head"
  BY DEF InstallPill, KeptPackage
<1>3. Initial(1) \in Managers /\ Initial(1).inc = 1 /\ Initial(1).mode = "idle"
  BY Bounds DEF Initial, Managers, Modes, Commands, Objects
<1>4. live' \in Gates /\ live'.inc = 1 /\ live'.pkg = base
  BY <1>1, <1>2, Bounds DEF Gates
<1>5. SInv'
  <2>1. out' \in Banks /\ started' \in 0 .. MaxInc /\ debt' \in 0 .. MaxTxs * MaxFan
    BY <1>2, Bounds DEF Banks, MaxTxs, MaxFan
  <2>2. SupTypeOK'
    <3>1. stage' \in Stages
      BY <1>1, <1>2, NoStageType
    <3> QED
      BY <1>2, <1>3, <1>4, <2>1, <3>1, EmptyFits, NoPlanFields, TypePartsNext
  <2>3. PlanOk' /\ DebtOk'
    BY <1>2, NoPlanFields, OwedEmpty, Settled
  <2> QED
    BY <1>2, <1>3, <1>4, <2>2, <2>3 DEF SInv, Epoch, RunOk
<1>6. Origin' /\ Owned'
  BY <1>2, <1>4 DEF Origin, Owned, Blob
<1>7. Own'
  BY <1>1, <1>2 DEF CInv, Own, Services
<1>8. SnapOk'
  BY SnapSound, SnapSoundNext
<1> QED
  BY <1>5, <1>6, <1>7, <1>8 DEF CInv

\* A restore: the epoch, the mode and the tokens are the record's, and what
\* it says was running had been started.
LEMMA RestoreKeeps ==
    ASSUME CInv, Restore(snap), host' \in Hosts, UNCHANGED <<base, snap>>
    PROVE  CInv'
<1>1. SInv /\ m7 \in Managers /\ base \in Pkgs /\ durable \in BOOLEAN /\ stage \in Stages
  BY TypeParts DEF CInv, SInv, Own
<1>2. snap # None /\ snap \in Snapshots /\ (snap.mode = "running" => snap.started)
  BY SnapSound DEF Restore, Sound
<1>3. /\ snap.blob \in Pkgs /\ snap.pkg \in Pkgs /\ snap.inc \in 1 .. MaxInc
      /\ snap.mode \in Modes /\ snap.qi \in BOOLEAN /\ snap.queued \in 0 .. QCap /\ snap.timers \in {0, 1}
      /\ snap.started \in BOOLEAN
  BY <1>2, SnapshotParts
<1>4. snap.blob = snap.pkg /\ snap.tokens \subseteq {snap.inc}
  BY DEF Restore, Restorable, RootsValid
<1>5. /\ live' = [pkg |-> snap.pkg, inc |-> snap.inc]
      /\ started' = (IF snap.started THEN snap.inc ELSE 0) /\ active' = snap.blob
      /\ m7' = [m7 EXCEPT !.mode = snap.mode, !.inc = snap.inc, !.qi = snap.qi, !.pending = FALSE,
                          !.cmd = "other", !.obj = "raw", !.safe = TRUE]
      /\ fifo' = [i \in 1 .. snap.queued |-> "cause"] /\ timers' = Resumed(snap)
      /\ tokens' = snap.tokens
      /\ svc' = IF snap.pkg \in ClosedPkgs /\ snap.mode = "running" THEN "ready" ELSE "fresh"
      /\ out' = [low |-> TRUE, inhibited |-> TRUE, fatal |-> FALSE]
      /\ plan' = NoPlan /\ debt' = 0 /\ pc' = "head" /\ back' = "head"
      /\ UNCHANGED <<durable, stage>>
  BY DEF Restore, RestoredMode
<1>6. m7' \in Managers /\ m7'.inc = snap.inc /\ m7'.mode = snap.mode
  BY <1>1, <1>3, <1>5 DEF Managers, Commands, Objects
<1>7. live' \in Gates /\ live'.inc = snap.inc /\ live'.pkg = snap.pkg
  BY <1>3, <1>5 DEF Gates
<1>8. fifo' \in Seq(Sources) /\ Len(fifo') <= QCap /\ Owed(fifo') = 0
  <2>1. snap.queued \in Nat /\ "cause" \in Sources /\ snap.queued <= QCap
    BY <1>3, Bounds DEF Sources
  <2>2. fifo' \in Seq(Sources) /\ Len(fifo') = snap.queued /\ (\A i \in 1 .. snap.queued : fifo'[i] = "cause")
    BY <1>5, <2>1, EqualEvents
  <2> QED
    BY <2>1, <2>2, OwedNothing
<1>9. SupTypeOK'
  <2>1. out' \in Banks /\ debt' \in 0 .. MaxTxs * MaxFan
    BY <1>5 DEF Banks, MaxTxs, MaxFan
  <2>2. started' \in 0 .. MaxInc
    BY <1>3, <1>5, Bounds
  <2>3. timers' \in {0, 1}
    BY <1>3, <1>5 DEF Resumed
  <2>4. plan' \in Plans /\ pc' = "head" /\ back' = "head" /\ durable' \in BOOLEAN /\ stage' \in Stages
    BY <1>1, <1>5, NoPlanFields
  <2> QED
    BY <1>6, <1>7, <1>8, <2>1, <2>2, <2>3, <2>4, TypePartsNext
<1>10. PlanOk' /\ DebtOk'
  BY <1>5, <1>8, NoPlanFields, Settled
<1>11. RunOk' /\ Epoch'
  BY <1>2, <1>5, <1>6, <1>7 DEF RunOk, Epoch
<1>12. Origin' /\ Owned'
  BY <1>3, <1>4, <1>5, <1>7, CheckpointAssumption DEF Origin, Owned, Blob
<1>13. Own'
  BY <1>1, <1>2, <1>3, <1>5 DEF Own, Services
<1>14. SnapOk'
  BY SnapSound, SnapSoundNext
<1> QED
  BY <1>9, <1>10, <1>11, <1>12, <1>13, <1>14 DEF CInv, SInv

\* A refused installation may leave the bank safe.
LEMMA RefusedKeeps ==
    ASSUME CInv, Refused, pc = "head", host' \in Hosts, UNCHANGED <<base, snap>>
    PROVE  CInv'
<1>1. SInv /\ out \in Banks /\ m7 \in Managers
  BY TypeParts DEF CInv, SInv
<1>2. UNCHANGED <<durable, stage, live, fifo, timers, plan, debt, started, pc, back, active, svc, tokens>>
  BY DEF Refused
<1>3. m7' \in Managers /\ m7'.inc = m7.inc /\ m7'.mode = m7.mode /\ out' \in Banks
  <2>1. CASE UNCHANGED <<out, m7>>
    BY <1>1, <2>1
  <2>2. ASSUME NEW ok \in BOOLEAN, out' \in {Safe(ok), Prepared(FALSE)},
               m7' \in {m7, [m7 EXCEPT !.safe = ok]}
        PROVE  m7' \in Managers /\ m7'.inc = m7.inc /\ m7'.mode = m7.mode /\ out' \in Banks
    <3>1. out' \in Banks
      BY <1>1, <2>2, SafeType
    <3> QED
      BY <1>1, <2>2, <3>1 DEF Managers
  <2> QED
    BY <2>1, <2>2 DEF Refused
<1>4. AtHead
  BY <1>1, <1>2, TypeParts DEF AtHead, Between, SInv
<1>5. SInv'
  BY <1>1, <1>2, <1>3, <1>4, HeadState, HeadKeeps DEF Between
<1>6. Origin' /\ Owned' /\ Own'
  BY <1>2 DEF CInv, Origin, Owned, Own, Blob
<1>7. SnapOk'
  BY SnapSound, SnapSoundNext
<1> QED
  BY <1>5, <1>6, <1>7 DEF CInv

\* The machine loses everything but the selected snapshot.
LEMMA PowerKeeps ==
    ASSUME CInv, PowerCycle
    PROVE  CInv'
<1>1. SupTypeOK /\ live \in Gates
  BY TypeParts DEF CInv, SInv
<1>2. /\ base' \in Pkgs /\ live' = [pkg |-> base', inc |-> 1] /\ started' = 0
      /\ m7' = Initial(1) /\ durable' = TRUE /\ stage' = NoStage
      /\ active' = None
      /\ fifo' = <<>> /\ timers' = 0 /\ svc' = "fresh" /\ tokens' = {}
      /\ plan' = NoPlan /\ debt' = 0 /\ pc' = "head" /\ back' = "head"
      /\ host' = "bare" /\ UNCHANGED snap
  BY DEF PowerCycle
<1>3. Initial(1) \in Managers /\ Initial(1).inc = 1 /\ Initial(1).mode = "idle"
  BY Bounds DEF Initial, Managers, Modes, Commands, Objects
<1>4. live' \in Gates /\ live'.inc = 1 /\ live'.pkg = base'
  BY <1>2, Bounds DEF Gates
<1>5. SInv'
  <2>1. out' \in Banks
    BY DEF PowerCycle, Banks
  <2>2. started' \in 0 .. MaxInc /\ debt' \in 0 .. MaxTxs * MaxFan
    BY <1>2, Bounds DEF MaxTxs, MaxFan
  <2>3. stage' \in Stages
    BY <1>1, <1>2, NoStageType
  <2>4. SupTypeOK'
    BY <1>2, <1>3, <1>4, <2>1, <2>2, <2>3, EmptyFits, NoPlanFields, TypePartsNext
  <2>5. PlanOk' /\ DebtOk'
    BY <1>2, NoPlanFields, OwedEmpty, Settled
  <2> QED
    BY <1>2, <1>3, <1>4, <2>4, <2>5 DEF SInv, Epoch, RunOk
<1>6. Origin' /\ Owned'
  BY <1>2, <1>4 DEF Origin, Owned, Blob
<1>7. Own'
  BY <1>2 DEF CInv, Own, Services, Hosts
<1>8. SnapOk'
  BY <1>2, SnapSound, SnapSoundNext
<1> QED
  BY <1>5, <1>6, <1>7, <1>8 DEF CInv

\* Commands between two events.
LEMMA CommandKeeps ==
    ASSUME CInv, Command
    PROVE  CInv'
<1>1. SInv /\ pc = "head" /\ host \in Hosts /\ back \in {"head", "select", "reply"}
  BY TypeParts DEF CInv, SInv, Own, Command, Managed
<1>2. Tracked /\ UNCHANGED <<host, base, active, svc, snap>>
  BY DEF Command
<1>3. CASE \E c \in {"start", "stop"} : Receive(c, "app") /\ UNCHANGED <<pc, back>>
  <2>1. PICK c \in {"start", "stop"} : Receive(c, "app") /\ UNCHANGED <<pc, back>>
    BY <1>3
  <2>2. c \in Commands /\ "app" \in Objects /\ AtHead
    BY <1>1, <2>1 DEF Commands, Objects, AtHead, Between
  <2>3. SInv' /\ live' = live
    BY <1>1, <2>1, <2>2, ReceiveKeeps DEF Receive
  <2> QED
    BY <1>1, <1>2, <2>3, SchedulerKeeps
<1>4. CASE /\ pc' = "boundary" /\ back' = "head" /\ m7.pending
           /\ UNCHANGED <<m7, durable, stage, live, fifo, timers, out, plan, debt, started>>
  <2>1. SInv' /\ live' = live
    BY <1>1, <1>4, HeadState, ControlKeeps DEF Between
  <2> QED
    BY <1>1, <1>2, <2>1, SchedulerKeeps
<1>5. CASE \E ok, adv \in BOOLEAN : ForceStop(ok, adv) \/ Reset(ok, adv)
  <2>1. PICK ok \in BOOLEAN, adv \in BOOLEAN : ForceStop(ok, adv) \/ Reset(ok, adv)
    BY <1>5
  <2>2. SInv' /\ fifo' = <<>> /\ timers' = 0
    BY <1>1, <2>1, ForcedKeeps
  <2>3. Advance(adv)
    BY <2>1 DEF ForceStop, Reset
  <2>4. live'.pkg = live.pkg
    BY <1>1, <2>3, AdvanceType
  <2> QED
    BY <1>1, <1>2, <2>2, <2>4, SchedulerKeeps
<1> QED
  BY <1>3, <1>4, <1>5 DEF Command

\* An activation: the package it installs is the one it stores, and a closed
\* one is stored as its restart wants it.
LEMMA DeployKeeps ==
    ASSUME CInv, Deploy
    PROVE  CInv'
<1>1. SInv /\ pc = "head" /\ host \in Hosts /\ base \in Pkgs /\ m7.inc < MaxInc
  BY DEF CInv, Own, Deploy, Managed
<1>2. PICK p \in Pkgs, known \in BOOLEAN :
         /\ Publish(p, known)
         /\ active' = p
         /\ snap' \in IF known THEN {Deployed(p)} ELSE {snap, Deployed(p), None}
  BY DEF Deploy
<1>3. svc' = "fresh" /\ Tracked /\ UNCHANGED <<plan, debt, started, pc, back, host, base>>
  BY DEF Deploy
<1>4. /\ m7' \in Managers /\ durable' \in BOOLEAN /\ stage' \in Stages /\ live' \in Gates
      /\ fifo' = <<>> /\ timers' = 0 /\ out' \in Banks
      /\ m7'.inc = live'.inc /\ m7'.mode = "idle" /\ live'.pkg = p
  BY <1>1, <1>2, PublishType DEF Between
<1>5. AtHead
  BY <1>1, <1>3, TypeParts DEF AtHead, Between, SInv
<1>6. SInv'
  <2>1. timers' \in {0, 1} /\ m7'.mode # "running"
    BY <1>4
  <2> QED
    BY <1>1, <1>3, <1>4, <1>5, <2>1, EmptyFits, OwedEmpty, HeadKeeps
<1>7. Origin'
  BY <1>2, <1>4, CheckpointAssumption DEF Origin, Blob
<1>8. Owned'
  BY <1>3, <1>4, TrackedOwned
<1>9. snap' = None \/ Sound(snap')
  <2>1. Sound(Deployed(p))
    BY <1>1, DeployedSound
  <2> HIDE DEF Sound
  <2> QED
    BY <1>2, <2>1, SnapSound
<1>10. Own' /\ SnapOk'
  BY <1>1, <1>2, <1>3, <1>9, SnapSoundNext DEF Own, Services
<1> QED
  BY <1>6, <1>7, <1>8, <1>10 DEF CInv

\* The loop is entered.
LEMMA RoundKeeps ==
    ASSUME CInv, Round
    PROVE  CInv'
<1>1. SInv /\ pc = "head" /\ back \in {"head", "select", "reply"}
  BY TypeParts DEF CInv, SInv, Round
<1>2. /\ pc' = "select"
      /\ UNCHANGED <<m7, durable, stage, live, fifo, timers, out, plan, debt, started, back>>
      /\ UNCHANGED <<host, base, active, svc, tokens, snap>>
  BY DEF Round, cvars
<1>3. SInv'
  BY <1>1, <1>2, HeadState, ControlKeeps DEF Between
<1>4. Origin' /\ Owned' /\ Own'
  BY <1>2 DEF CInv, Origin, Owned, Own, Blob
<1>5. SnapOk'
  BY <1>2, SnapSound, SnapSoundNext
<1> QED
  BY <1>3, <1>4, <1>5 DEF CInv

-----------------------------------------------------------------------------
(* The theorems.                                                           *)

\* The start: no snapshot is selected, and nothing has been done.
LEMMA InitKeeps ==
    ASSUME CheckpointInit
    PROVE  CInv
<1>1. host = "bare" /\ base \in Pkgs /\ active = None /\ svc = "fresh" /\ tokens = {} /\ snap = None
  BY DEF CheckpointInit
<1>2. live \in Gates /\ live.pkg = base /\ live.inc = 1
  BY <1>1, Bounds DEF CheckpointInit, SupInit, Gates
<1>3. /\ m7 = Initial(1) /\ durable = TRUE /\ stage = NoStage /\ fifo = <<>> /\ timers = 0
      /\ plan = NoPlan /\ debt = 0 /\ pc = "head" /\ back = "head" /\ started = 0
  BY DEF CheckpointInit, SupInit
<1>4. Initial(1) \in Managers /\ Initial(1).inc = 1 /\ Initial(1).mode = "idle"
  BY Bounds DEF Initial, Managers, Modes, Commands, Objects
<1>5. SInv
  <2>1. out \in Banks
    BY DEF CheckpointInit, SupInit, Banks
  <2>2. started \in 0 .. MaxInc /\ debt \in 0 .. MaxTxs * MaxFan
    BY <1>3, Bounds DEF MaxTxs, MaxFan
  <2>3. SupTypeOK
    BY <1>2, <1>3, <1>4, <2>1, <2>2, EmptyFits, NoPlanFields, NoStageType, TypeParts
  <2>4. PlanOk /\ DebtOk
    BY <1>3, NoPlanFields, OwedEmpty DEF PlanOk, DebtOk
  <2> QED
    BY <1>2, <1>3, <1>4, <2>3, <2>4 DEF SInv, Epoch, RunOk
<1> QED
  BY <1>1, <1>2, <1>5 DEF CInv, Own, Origin, Owned, SnapOk, Blob, Hosts, Services

\* Every step preserves the invariant.
LEMMA NextKeeps ==
    ASSUME CInv, [CheckpointNext]_checkpointVars
    PROVE  CInv'
<1>1. CASE CheckpointScheduler
  <2>1. CASE Serve
    BY <2>1, ServeKeeps
  <2>2. CASE /\ \/ Boundary \/ DeliverFails \/ DeliverStart \/ DeliverStop
                \/ SlotFails \/ QueueFails \/ ExternalFails \/ IdlePass \/ TimerFires
             /\ Tracked /\ UNCHANGED <<host, base, active, svc, snap>>
    <3>1. SInv' /\ live'.pkg = live.pkg /\ (live' = live \/ (fifo' = <<>> /\ timers' = 0))
      BY <2>2, SchedulerEpoch DEF CInv
    <3>2. host' \in Hosts
      BY <2>2 DEF CInv, Own
    <3> QED
      BY <2>2, <3>1, <3>2, SchedulerKeeps
  <2> QED
    BY <1>1, <2>1, <2>2 DEF CheckpointScheduler
<1>2. CASE Save
  BY <1>2, SaveKeeps
<1>3. CASE Load
  <2>1. pc = "head" /\ host' \in Hosts /\ UNCHANGED <<base, snap>>
    BY <1>3 DEF CInv, Own, Load
  <2> QED
    BY <1>3, <2>1, RestoreKeeps, RefusedKeeps DEF Load
<1>4. CASE PreparePill
  <2>1. pc = "head" /\ host' \in Hosts /\ UNCHANGED <<base, snap>>
    BY <1>4 DEF CInv, Own, PreparePill, Hosts
  <2> QED
    BY <1>4, <2>1, InstallKeeps, RefusedKeeps DEF PreparePill
<1>5. CASE PowerCycle
  BY <1>5, PowerKeeps
<1>6. CASE Boot
  <2>1. pc = "head" /\ host' \in Hosts /\ UNCHANGED <<base, snap>>
    BY <1>6 DEF CInv, Own, Boot, Hosts
  <2> QED
    BY <1>6, <2>1, RestoreKeeps, InstallKeeps, RefusedKeeps DEF Boot
<1>7. CASE Command
  BY <1>7, CommandKeeps
<1>8. CASE Deploy
  BY <1>8, DeployKeeps
<1>9. CASE Round
  BY <1>9, RoundKeeps
<1>10. CASE UNCHANGED checkpointVars
  <2>1. UNCHANGED svars /\ UNCHANGED <<host, base, active, svc, tokens, snap>>
    BY <1>10 DEF checkpointVars, cvars
  <2>2. SInv' /\ live' = live
    BY <2>1, StutterKeeps DEF CInv, svars
  <2> QED
    BY <2>1, <2>2, SnapSound, SnapSoundNext DEF CInv, Own, Origin, Owned, Blob
<1> QED
  BY <1>1, <1>2, <1>3, <1>4, <1>5, <1>6, <1>7, <1>8, <1>9, <1>10 DEF CheckpointNext

\* The inductive invariant holds in every state of the machine.
THEOREM CheckpointInvariant == CheckpointSpec => []CInv
BY InitKeeps, NextKeeps, PTL DEF CheckpointSpec

\* Every variable keeps its values, the snapshot's bounds included.
THEOREM CheckpointTypes == CheckpointSpec => []CheckpointTypeOK
<1>1. CInv => CheckpointTypeOK
  <2>1. ASSUME CInv
        PROVE  tokens \subseteq 1 .. MaxInc
    <3>1. live.inc \in 1 .. MaxInc
      BY <2>1, TypeParts DEF CInv, SInv, Gates
    <3> QED
      BY <2>1, <3>1 DEF CInv, Owned
  <2> QED
    BY <2>1 DEF CInv, SInv, Own, CheckpointTypeOK
<1> QED
  BY <1>1, CheckpointInvariant, PTL

\* Whatever was saved or activated for a closed process, at any commit of any
\* plan, with any of the packages, is accepted by the restart.
THEOREM AlwaysRestores == CheckpointSpec => []SavedRestores
<1>1. CInv => SavedRestores
  BY DEF CInv, SnapOk, SavedRestores
<1> QED
  BY <1>1, CheckpointInvariant, PTL

\* Across any number of saves, restarts, loads and deployments, RUNNING is
\* the mode of an epoch whose lifecycle completed.
THEOREM AlwaysResumes == CheckpointSpec => []RunsWhatStarted
<1>1. CInv => RunsWhatStarted
  BY DEF CInv, SInv, RunOk, RunsWhatStarted
<1> QED
  BY <1>1, CheckpointInvariant, PTL

-----------------------------------------------------------------------------
(* What is stopped is quiet, also after a restart.  A snapshot of an open  *)
(* program may have been taken in the middle of its lifecycle, with events *)
(* and timers and the mode of before: where a program with the three roles *)
(* is always a closed process, no such snapshot is restored.               *)

\* A commit is of a plan or of a running resource.
LEMMA ServeIsQuiet ==
    ASSUME CInv, Quiet, Serve
    PROVE  Quiet'
<1>1. SInv /\ fifo \in Seq(Sources) /\ (plan.slot => plan.on)
  BY TypeParts DEF CInv, SInv, PlanOk
<1>2. PICK n \in Fan, arms \in {0, 1} :
         SlotCommits(n, arms, out') \/ QueueCommits(n, arms, out') \/ ExternalCommits(n, arms, out')
  BY DEF Serve
<1>3. Fixed /\ \E q : Terminal(TRUE, q)
  BY <1>2 DEF SlotCommits, QueueCommits, ExternalCommits, Commits
<1>4. plan.on \/ m7.mode = "running"
  <2>1. CASE SlotCommits(n, arms, out')
    BY <1>1, <2>1 DEF SlotCommits, Slot
  <2>2. CASE QueueCommits(n, arms, out')
    <3>1. pc = "select" /\ fifo # <<>> /\ Head(fifo) # "fill"
      BY <2>2 DEF QueueCommits, Queued
    <3> QED
      BY <1>1, <3>1, InertTail DEF Quiet
  <2>3. CASE ExternalCommits(n, arms, out')
    BY <2>3 DEF ExternalCommits, Admitted
  <2> QED
    BY <1>2, <2>1, <2>2, <2>3
<1> QED
  BY <1>1, <1>3, <1>4, PlanTxQuiet

\* A restored closed process that does not run has nothing queued or armed.
LEMMA RestoreIsQuiet ==
    ASSUME RolePkgs = ClosedPkgs, CInv, Restore(snap)
    PROVE  Quiet'
<1>1. snap \in Snapshots /\ m7 \in Managers
  BY SnapSound, TypeParts DEF Restore, Sound, CInv, SInv
<1>2. snap.pkg \in ClosedPkgs /\ ScanQuiescent(snap.mode, snap.queued, snap.timers, snap.svc)
  BY DEF Restore, Restorable, Bound, HasRoles, SavedQuiescent
<1>3. m7'.mode = snap.mode
  BY <1>1 DEF Restore, RestoredMode, Managers
<1>4. timers' = IF snap.mode = "running" THEN 1 ELSE 0
  BY <1>2 DEF Restore, Resumed
<1>5. fifo' = <<>>
  <2>1. snap.queued = 0
    BY <1>2 DEF ScanQuiescent
  <2>2. fifo' = [i \in 1 .. 0 |-> "cause"]
    BY <2>1 DEF Restore
  <2> QED
    BY <2>2
<1>6. out'.low
  BY DEF Restore
<1> QED
  BY <1>3, <1>4, <1>5, <1>6, InertEmpty DEF Quiet

\* A fresh installation is idle, with nothing queued or armed.
LEMMA InstallIsQuiet ==
    ASSUME InstallPill
    PROVE  Quiet'
<1>1. fifo' = <<>> /\ timers' = 0 /\ out'.low
  BY DEF InstallPill
<1> QED
  BY <1>1, InertEmpty DEF Quiet

\* A refused one changes the bank at most, to safe.
LEMMA RefusedIsQuiet ==
    ASSUME CInv, Quiet, Refused
    PROVE  Quiet'
<1>1. SInv /\ m7 \in Managers /\ out \in Banks
  BY TypeParts DEF CInv, SInv
<1>2. UNCHANGED <<fifo, timers, plan, pc>>
  BY DEF Refused
<1>3. m7'.mode = m7.mode
  BY <1>1 DEF Refused, Managers
<1>4. out' = out \/ out'.low \/ out'.fatal
  <2>1. Prepared(FALSE).fatal
    BY <1>1 DEF Prepared, Banks
  <2> QED
    BY <1>1, <2>1, SafeType DEF Refused
<1> QED
  BY <1>2, <1>3, <1>4 DEF Quiet, Inert

\* A save changes the bank at most, to safe.
LEMMA SaveIsQuiet ==
    ASSUME CInv, Quiet, Save
    PROVE  Quiet'
<1>1. SaveAfter(fifo, timers, svc, out) /\ UNCHANGED <<m7, fifo, timers, plan, pc>>
  BY DEF Save
<1>2. out \in Banks
  BY TypeParts DEF CInv, SInv
<1>3. out' = out \/ \E ok \in BOOLEAN : out' = Safe(ok)
  BY <1>1 DEF SaveAfter, Safe
<1>4. out' = out \/ out'.low \/ out'.fatal
  BY <1>2, <1>3, SafeType
<1> QED
  BY <1>1, <1>4 DEF Quiet, Inert

\* Commands keep the mode, or stop with everything emptied.
LEMMA CommandIsQuiet ==
    ASSUME CInv, Quiet, Command
    PROVE  Quiet'
<1>1. SInv /\ pc = "head" /\ back \in {"head", "select", "reply"} /\ m7 \in Managers
  BY TypeParts DEF CInv, SInv, Command, Managed
<1>2. CASE \E c \in {"start", "stop"} : Receive(c, "app") /\ UNCHANGED <<pc, back>>
  <2>1. m7'.mode = m7.mode /\ UNCHANGED <<fifo, timers, out, plan, pc>>
    BY <1>1, <1>2 DEF Receive, Managers
  <2> QED
    BY <2>1 DEF Quiet, Inert
<1>3. CASE /\ pc' = "boundary"
           /\ UNCHANGED <<m7, durable, stage, live, fifo, timers, out, plan, debt, started>>
  BY <1>1, <1>3 DEF Quiet, Inert
<1>4. CASE \E ok, adv \in BOOLEAN : ForceStop(ok, adv) \/ Reset(ok, adv)
  <2>1. fifo' = <<>> /\ timers' = 0 /\ (out'.low \/ out'.fatal)
    BY <1>1, <1>4, ForcedKeeps
  <2> QED
    BY <2>1, InertEmpty DEF Quiet
<1> QED
  BY <1>2, <1>3, <1>4 DEF Command

\* Every step keeps it.
LEMMA NextIsQuiet ==
    ASSUME RolePkgs = ClosedPkgs, CInv, Quiet, [CheckpointNext]_checkpointVars
    PROVE  Quiet'
<1>1. CASE CheckpointScheduler
  <2>1. CASE Serve
    BY <2>1, ServeIsQuiet
  <2>2. CASE Boundary \/ DeliverFails \/ DeliverStart \/ DeliverStop
    BY <2>2, BoundaryQuiet, DeliverQuiet DEF CInv
  <2>3. CASE SlotFails \/ QueueFails \/ ExternalFails
    BY <2>3, ServeQuiet DEF CInv, ServeSlot, ServeQueue, ServeExternal
  <2>4. CASE IdlePass
    BY <2>4 DEF IdlePass, svars, Quiet, Inert
  <2>5. CASE TimerFires
    BY <2>5, TimerQuiet DEF CInv
  <2> QED
    BY <1>1, <2>1, <2>2, <2>3, <2>4, <2>5 DEF CheckpointScheduler
<1>2. CASE Save
  BY <1>2, SaveIsQuiet
<1>3. CASE Load \/ PreparePill \/ Boot
  BY <1>3, RestoreIsQuiet, InstallIsQuiet, RefusedIsQuiet DEF Load, PreparePill, Boot
<1>4. CASE PowerCycle
  <2>1. fifo' = <<>> /\ timers' = 0 /\ out'.low
    BY <1>4 DEF PowerCycle
  <2> QED
    BY <2>1, InertEmpty DEF Quiet
<1>5. CASE Command
  BY <1>5, CommandIsQuiet
<1>6. CASE Deploy
  <2>1. fifo' = <<>> /\ timers' = 0 /\ out' = Safe(TRUE) /\ out \in Banks
    BY <1>6, TypeParts DEF Deploy, Publish, CInv, SInv
  <2> QED
    BY <2>1, SafeType, InertEmpty DEF Quiet
<1>7. CASE Round
  BY <1>7 DEF Round, Quiet, Inert
<1>8. CASE UNCHANGED checkpointVars
  BY <1>8 DEF checkpointVars, svars, Quiet, Inert
<1> QED
  BY <1>1, <1>2, <1>3, <1>4, <1>5, <1>6, <1>7, <1>8 DEF CheckpointNext

\* Where a program with the three roles is a closed process, no restart, load
\* or deployment leaves a timer, an event or a driven output of a resource
\* that does not run.
THEOREM AlwaysRestQuiet ==
    ASSUME RolePkgs = ClosedPkgs
    PROVE  CheckpointSpec => []StoppedIsQuiet
<1>1. CheckpointInit => Quiet
  BY DEF CheckpointInit, SupInit, Quiet, Inert
<1>2. CInv /\ Quiet /\ [CheckpointNext]_checkpointVars => CInv' /\ Quiet'
  BY NextKeeps, NextIsQuiet
<1>3. Quiet => StoppedIsQuiet
  BY DEF Quiet, Inert, StoppedIsQuiet
<1> QED
  BY <1>1, <1>2, <1>3, InitKeeps, PTL DEF CheckpointSpec
=============================================================================
