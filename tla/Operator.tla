------------------------------ MODULE Operator ------------------------------
(***************************************************************************)
(* The supervisory operator channel of i2_operator.c over the resource     *)
(* manager, in the two images that are built from this code: the           *)
(* laboratory image with its console, which hears the line in the idle     *)
(* loop of a run, and the operator image, whose pump owns the line and     *)
(* hears it between two runs of one event (shrine_loop).                   *)
(*                                                                         *)
(* The client retransmits its request when it likes and goes on with a new *)
(* identifier once the line is clear, answered or not.  A stranger may use *)
(* the identifier of the last request with another content.                *)
(*                                                                         *)
(* A request is executed first and its reply built afterwards, from the    *)
(* same heap.  A request whose reply cannot be built has taken effect and  *)
(* leaves no trace in the channel: retransmitted, it is executed again.    *)
(***************************************************************************)
EXTENDS Supervisor

CONSTANTS
    Ids,      \* request identifiers
    NoId,     \* last_id = 0
    Images,   \* {"lab", "operator"}
    Asks,     \* what the client of each image asks for; {}: there is no client
    Clobbers  \* does the laboratory load checkpoints while a package is staged

VARIABLES
    image,    \* the build
    op,       \* g_op
    line,     \* a request on its way to the target
    cl,       \* the identifier of the client's request
    ran       \* history: dispatches of the client's request, from the one that was answered on

ovars == <<image, op, line, cl, ran>>
vars == <<svars, ovars>>

Ops == {"status", "start", "stop", "snapshot", "begin", "chunk", "seal", "activate", "cancel"}

ASSUME RequestAssumption == Ids # {} /\ Asks \in [Images -> SUBSET Ops]

\* What a frame to the client carries: "done" or another result of a request,
\* the kept result again, or a refusal ("busy", "conflict") that is not kept.
Replies == {"none", "done", "result", "refusal"}
\* install_condition: over is committed, cancelled or a lease that ran out,
\* other is idle, failed or of unknown durability.
Conditions == {"staging", "sealed", "over", "other"}

\* alien: the identifier was used with another content.
NoRequest == [id |-> NoId, op |-> "status", alien |-> FALSE]

\* i2_operator_init.
OpInit == [active |-> FALSE, last |-> NoId,
           tx |-> "none", pend |-> "none", lease |-> "none", cond |-> "other"]

Init ==
    /\ image \in Images
    /\ SupInit(IF image = "operator" THEN ClosedPkgs ELSE Pkgs)
    /\ op = OpInit /\ line = NoRequest /\ ran = 0
    /\ cl = CHOOSE i \in Ids : TRUE

-----------------------------------------------------------------------------
(* Transmission.                                                           *)

Sending == op.tx # "none"

\* Where i2_operator_poll is called: the idle loop of both images, and the pump.
Polling == Idle \/ (image = "operator" /\ pc = "head")

\* enqueue_or_send: one reply in transmission, one behind it, the rest is dropped.
Enqueue(o, reply) ==
    CASE ~Sending -> [o EXCEPT !.tx = reply, !.active = TRUE]
      [] Sending /\ o.pend = "none" -> [o EXCEPT !.pend = reply]
      [] OTHER -> o

\* finish with a reply: it is kept for a retransmitted request.
Finish(o, req, res) ==
    Enqueue([o EXCEPT !.last = req.id], IF res = "done" THEN "done" ELSE "result")

\* The request was dispatched.  Without a reply, because a cell, an atom or
\* the jam of it cannot be had, nothing is kept and nothing is sent.
Executed(o, req, res) ==
    /\ \E built \in BOOLEAN :
          /\ op' = IF built THEN Finish(o, req, res) ELSE o
          /\ ran' = IF req.id = cl /\ (built \/ ran > 0) THEN ran + 1 ELSE ran
    /\ line' = NoRequest
    /\ UNCHANGED <<image, cl>>

\* i2_operator_poll, a whole reply at a time.
Sent ==
    /\ Sending /\ Polling
    /\ op' = [op EXCEPT !.tx = op.pend, !.pend = "none", !.active = op.pend # "none"]
    /\ UNCHANGED <<svars, image, line, cl, ran>>

\* The transmitter has not moved for OP_TX_STALL_TICKS_SEC.
Stalled ==
    /\ Sending /\ Polling
    /\ op' = [op EXCEPT !.tx = "none", !.pend = "none", !.active = FALSE]
    /\ UNCHANGED <<svars, image, line, cl, ran>>

-----------------------------------------------------------------------------
(* The lease on an open stage.                                             *)

Touched_Never(o) == o
Touched(o) == [o EXCEPT !.lease = "running"]
Overdue == stage.open /\ op.lease = "due"

LeaseTick ==
    /\ op.lease = "running"
    /\ op' = [op EXCEPT !.lease = "due"]
    /\ UNCHANGED <<svars, image, line, cl, ran>>

\* expire_lease: first thing in a poll and in a request.
ExpireLease ==
    /\ Overdue /\ Polling
    /\ DeployAbort
    /\ op' = [op EXCEPT !.cond = "over", !.lease = "none"]
    /\ UNCHANGED <<pc, back, image, line, cl, ran>>

-----------------------------------------------------------------------------
(* Requests.                                                               *)

\* The pump reads the line, after a poll, and in the laboratory the idle loop
\* does; the idle loop of the operator image only polls.
Listening ==
    /\ ~Overdue /\ line # NoRequest
    /\ IF image = "operator" THEN pc = "head" ELSE Idle

Answer(o, req, res) == Executed(o, req, res) /\ UNCHANGED <<pc, back>>

Again_WhenSent == line.id = op.last /\ ~line.alien /\ ~Sending

\* i2_operator_handle without a dispatch: the last request again, its
\* identifier with another content, or a busy channel.
Again == line.id = op.last /\ ~line.alien
Conflict == line.id = op.last /\ line.alien
Busy == line.id # op.last /\ (op.active \/ Sending)

Repeat ==
    /\ Listening /\ Again
    /\ op' = IF Sending THEN op ELSE Enqueue(op, "result")
    /\ line' = NoRequest
    /\ UNCHANGED <<svars, image, cl, ran>>

\* send_uncached; a refusal that cannot be built is not sent.
Refuse ==
    /\ Listening /\ (Conflict \/ Busy)
    /\ op' \in {op, Enqueue(op, "refusal")}
    /\ line' = NoRequest
    /\ UNCHANGED <<svars, image, cl, ran>>

Dispatching(names) == Listening /\ ~Again /\ ~Conflict /\ ~Busy /\ line.op \in names

OpStatus ==
    /\ Dispatching({"status"})
    /\ Answer(op, line, "done")
    /\ UNCHANGED <<m7, durable, stage, live, fifo, timers, out, plan, debt, started>>

\* m7_checkpoint_save refuses with an unknown pair, a request or a stage, and
\* makes the bank of a closed process safe before it copies the roots.
OpSnapshot ==
    /\ Dispatching({"snapshot"})
    /\ \/ UNCHANGED out /\ Answer(op, line, "failed")
       \/ /\ durable /\ ~m7.pending /\ ~stage.open
          /\ \E ok \in BOOLEAN, res \in {"done", "failed"} :
                /\ res = "done" => ok
                /\ out' = IF Closed THEN Safe(ok) ELSE out
                /\ Answer(op, line, res)
    /\ UNCHANGED <<m7, durable, stage, live, fifo, timers, plan, debt, started>>

\* START and STOP run the boundary, and the nested plan, inside the request.
OpManage ==
    /\ Dispatching({"start", "stop"})
    /\ Receive(line.op, "app")
    /\ IF Receivable(line.op, "app")
       THEN /\ pc' = "boundary" /\ back' = "reply"
            /\ op' = [op EXCEPT !.active = TRUE]
            /\ UNCHANGED <<image, line, cl, ran>>
       ELSE Answer([op EXCEPT !.active = TRUE], line, "failed")

OpManaged ==
    /\ pc \in {"confirmed", "denied"}
    /\ Executed(op, line, IF pc = "confirmed" THEN "done" ELSE "failed")
    /\ pc' = IF image = "operator" THEN "head" ELSE "select"
    /\ UNCHANGED <<m7, durable, stage, live, fifo, timers, out, plan, debt, started, back>>

Inhibited == out.inhibited \/ m7.safe

OpBegin ==
    /\ Dispatching({"begin"})
    /\ \/ /\ Quiescent /\ Inhibited /\ ~stage.open
          /\ \E p \in Pkgs, r \in {"ok", "unknown", "busy"} :
                /\ DeployBegin(p, r)
                /\ IF r = "ok" THEN Answer(Touched([op EXCEPT !.cond = "staging"]), line, "done")
                               ELSE Answer(op, line, "failed")
       \/ /\ Answer(op, line, "rejected")     \* the state, or a bound of the payload
          /\ UNCHANGED <<m7, durable, stage, live, fifo, timers, out, plan, debt, started>>

OpChunk ==
    /\ Dispatching({"chunk"})
    /\ \/ /\ stage.open
          /\ \E good \in BOOLEAN, r \in {"ok", "busy", "offset"} :
                /\ DeployChunk(good, r)
                /\ IF r = "ok" THEN Answer(Touched([op EXCEPT !.cond = "staging"]), line, "done")
                               ELSE Answer([op EXCEPT !.cond = "other"], line, "failed")
       \/ /\ Answer(op, line, "rejected")     \* no such stage, offset or length
          /\ UNCHANGED <<m7, durable, stage, live, fifo, timers, out, plan, debt, started>>

OpSeal ==
    /\ Dispatching({"seal"})
    /\ \E r \in {"ok", "offset", "state", "media", "digest", "candidate"} :
          /\ DeploySeal(r)
          /\ image = "operator" /\ r = "ok" => stage.want \in ClosedPkgs   \* its catalog
          /\ IF r = "ok" THEN Answer(Touched([op EXCEPT !.cond = "sealed"]), line, "done")
                         ELSE Answer([op EXCEPT !.cond = "other"], line, "failed")

OpActivate ==
    /\ Dispatching({"activate"})
    /\ \E r \in {"ok", "unknown", "state", "media", "digest", "candidate", "storage"} :
          /\ DeployActivate(r)
          /\ IF r = "ok" THEN Answer([op EXCEPT !.cond = "over", !.lease = "none"], line, "done")
                         ELSE Answer([op EXCEPT !.cond = "other"], line, "failed")

OpCancel ==
    /\ Dispatching({"cancel"})
    /\ IF stage.open
       THEN DeployAbort /\ Answer([op EXCEPT !.cond = "over", !.lease = "none"], line, "done")
       ELSE /\ Answer(op, line, "rejected")
            /\ UNCHANGED <<m7, durable, stage, live, fifo, timers, out, plan, debt, started>>

-----------------------------------------------------------------------------
(* The two images.                                                         *)

\* shrine_loop of the operator image, or the word that runs the loop.
RunBounded ==
    /\ pc = "head" /\ (image = "operator" => fifo # <<>>)
    /\ pc' = "select"
    /\ UNCHANGED <<m7, durable, stage, live, fifo, timers, out, plan, debt, started, back, ovars>>

Console ==
    /\ image = "lab" /\ pc = "head" /\ UNCHANGED ovars
    /\ \/ \E c \in Commands, o \in Objects : Receive(c, o) /\ UNCHANGED <<pc, back>>
       \/ \E qi \in BOOLEAN : ManagerInit(qi)
       \/ /\ pc' = "boundary" /\ back' = "head"
          /\ UNCHANGED <<m7, durable, stage, live, fifo, timers, out, plan, debt, started>>
       \/ \E ok, adv \in BOOLEAN : ForceStop(ok, adv) \/ Reset(ok, adv)
       \/ Fill
       \/ Clobbers /\ Clobber
       \/ /\ \/ \E p \in Pkgs, r \in {"ok", "unknown", "busy"} : DeployBegin(p, r)
             \/ \E good \in BOOLEAN, r \in {"ok", "busy", "offset"} : DeployChunk(good, r)
             \/ \E r \in {"ok", "offset", "state", "media", "digest", "candidate"} : DeploySeal(r)
             \/ \E r \in {"ok", "unknown", "state", "media", "digest", "candidate", "storage"} : DeployActivate(r)
             \/ DeployAbort
          /\ UNCHANGED <<pc, back>>

Scheduler ==
    /\ UNCHANGED ovars
    /\ \/ Boundary \/ DeliverFails \/ DeliverStart \/ DeliverStop
       \/ ServeSlot \/ ServeQueue \/ IdlePass
       \/ (image = "lab" => pc = "select") /\ TimerFires
       \/ image = "lab" /\ ServeExternal

Handle ==
    \/ Repeat \/ Refuse \/ OpStatus \/ OpSnapshot \/ OpManage \/ OpManaged
    \/ OpBegin \/ OpChunk \/ OpSeal \/ OpActivate \/ OpCancel

Target == Scheduler \/ Handle \/ RunBounded \/ Sent \/ ExpireLease

\* What a request asks for matters when it is dispatched, so that it is chosen
\* with each transmission.  The client (re)transmits, or goes on with an identifier nobody remembers.
Remembered == {op.last, cl}
Transmit ==
    /\ line = NoRequest
    /\ \E o \in Asks[image] : line' = [id |-> cl, op |-> o, alien |-> FALSE]
    /\ UNCHANGED <<svars, image, op, cl, ran>>
NextRequest ==
    /\ Asks[image] # {} /\ line = NoRequest
    /\ cl' \in Ids \ Remembered
    /\ ran' = 0
    /\ UNCHANGED <<svars, image, op, line>>

Stranger ==
    /\ line = NoRequest /\ op.last # NoId
    /\ line' = [id |-> op.last, op |-> "status", alien |-> TRUE]
    /\ UNCHANGED <<svars, image, op, cl, ran>>

Next == Target \/ Console \/ Stalled \/ LeaseTick \/ Transmit \/ NextRequest \/ Stranger

Spec == Init /\ [][Next]_vars

-----------------------------------------------------------------------------
(* Properties.                                                             *)

\* The values the variables range over.
TypeOK ==
    /\ SupTypeOK
    /\ image \in Images
    /\ op \in [active : BOOLEAN, last : Ids \cup {NoId},
               tx : Replies, pend : Replies, lease : {"none", "running", "due"}, cond : Conditions]
    /\ line \in [id : Ids \cup {NoId}, op : Ops, alien : BOOLEAN]
    /\ cl \in Ids
    /\ ran \in 0 .. 2

\* A request whose reply was built once is never executed again, however often
\* it is transmitted, while the reply is in transmission, after it was dropped
\* from the transmitter, and whatever is refused in between; it is the last one
\* answered until the client goes on.
AtMostOnce == ran <= 1 /\ (ran = 1 /\ pc = "head" => op.last = cl)

\* "done" is said of what has been done: a START runs the live epoch, a STOP
\* leaves a stopped resource with nothing queued, nothing armed and the bank
\* low, an activation has made the staged package live in an inhibited bank.
DoneMeansDone ==
    [][op'.tx = "done" /\ op.tx # "done" =>
          CASE line.op = "start" -> m7'.mode = "running" /\ started' = live'.inc
            [] line.op = "stop" -> /\ m7'.mode = "stopped" /\ out'.low /\ out'.inhibited
                                   /\ fifo' = <<>> /\ timers' = 0
            [] line.op = "activate" -> live'.pkg = stage.want /\ durable' /\ out'.inhibited
            [] line.op = "snapshot" -> durable' /\ ~stage'.open
            [] line.op = "begin" -> stage'.open /\ m7'.mode # "running"
            [] line.op = "cancel" -> ~stage'.open
            [] OTHER -> TRUE]_vars

\* In the operator image the stage belongs to the channel: its lease runs
\* while it is open, and the published condition agrees with it.
StageLeased ==
    image = "operator" =>
        /\ stage.open => op.lease # "none"
        /\ op.cond \in {"staging", "sealed"} => stage.open
        /\ op.cond = "over" => ~stage.open
        /\ op.cond = "sealed" => stage.sealed

=============================================================================
