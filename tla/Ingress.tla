------------------------------ MODULE Ingress ------------------------------
(***************************************************************************)
(* The framed ingress (i2_ingress.c): a byte automaton that finds frames   *)
(* on a line that loses, corrupts, adds and delays bytes, checks them, and *)
(* hands their payloads to the decoder.                                    *)
(*                                                                         *)
(* Each header field is one symbol; the digest is the payload it was taken *)
(* from.  Time is counted from the clock the deadlines are read against.   *)
(* The sender and the UART are external: a sender transmits a frame again  *)
(* and again, as a rule after a silence longer than the byte deadline.     *)
(***************************************************************************)
EXTENDS Naturals, Sequences

CONSTANTS
    Magic,           \* g_magic; its first byte is not repeated
    Version, Size,   \* what the header must say
    MaxPayload,      \* I2_FRAME_MAX_PAYLOAD
    ByteTicks, FrameTicks,   \* interbyte_ticks, total_ticks
    Payloads,        \* what a sender may frame
    Noise,           \* what a damaged byte may read as
    MaxFaults,       \* bound: faults of the line, the sender or the host
    FifoCap          \* bytes the UART holds

ASSUME IngressAssumption ==
    /\ Magic \in Seq(Nat) /\ Magic # <<>> /\ \A i \in 2 .. Len(Magic) : Magic[i] # Magic[1]
    /\ {ByteTicks, FrameTicks} \subseteq Nat \ {0} /\ ByteTicks < FrameTicks
    /\ FifoCap \in Nat \ {0} /\ MaxFaults \in Nat /\ MaxPayload \in Nat
    /\ \A w \in Payloads : w \in Seq(Nat) /\ Len(w) \in 1 .. MaxPayload
    /\ \A x \in Noise : x = <<x[1]>>

VARIABLES
    rx,       \* g_rx: state, magic_have, what was stored since, the two deadlines
    taken,    \* the bytes i2_rx_take last gave to the decoder, if any
    payload,  \* what the sender transmits
    pos,      \* the next symbol of the frame it sends
    quiet,    \* ticks since its last byte
    fifo,     \* the UART: symbols with their place in the frame, 0 for others
    faults,   \* how many more may happen
    whole     \* history: symbols of one transmission heard so far, without
              \* a flaw, since its first was heard in the scan

rxVars == <<rx, taken, payload, pos, quiet, fifo, faults, whole>>

Byte(b) == <<b>>
Digest(bytes) == <<"digest">> \o bytes
HeaderLen == 4

\* i2_frame_encode.
Frame(bytes) ==
    [i \in 1 .. Len(Magic) |-> Byte(Magic[i])]
        \o <<Byte(Version), Byte(Size), Byte(Len(bytes)), Digest(bytes)>>
        \o [i \in 1 .. Len(bytes) |-> Byte(bytes[i])]

\* reset_scan.
Scanning == [state |-> "scan", magic |-> 0, head |-> <<>>, body |-> <<>>, byte |-> 0, frame |-> 0]

RxInit ==
    /\ rx = Scanning
    /\ taken = <<>>
    /\ payload \in Payloads
    /\ pos = 1 /\ quiet = 0 /\ fifo = <<>> /\ faults = MaxFaults /\ whole = 0

-----------------------------------------------------------------------------
(* The receiver.                                                           *)

Expired_Never(r) == FALSE

\* i2_rx_check_timeout: a frame has begun and one of its deadlines is past.
Expired(r) ==
    /\ r.state \in {"header", "payload"} \/ (r.state = "scan" /\ r.magic > 0)
    /\ r.byte = 0 \/ r.frame = 0

Checked(r) == IF Expired(r) THEN Scanning ELSE r

Mismatch_Forgets(r, s) == Scanning

\* What does not continue the magic may begin it.
Mismatch(r, s) ==
    IF s = Byte(Magic[1])
    THEN [Scanning EXCEPT !.magic = 1, !.byte = ByteTicks, !.frame = FrameTicks]
    ELSE Scanning

\* The magic has the byte deadline of its first byte.
Scan(r, s) ==
    IF s # Byte(Magic[r.magic + 1]) THEN Mismatch(r, s)
    ELSE [r EXCEPT !.magic = @ + 1,
                   !.byte = IF r.magic = 0 THEN ByteTicks ELSE @,
                   !.frame = IF r.magic = 0 THEN FrameTicks ELSE @,
                   !.state = IF r.magic + 1 = Len(Magic) THEN "header" ELSE @]

\* Version, header size and length, once the header is complete.
HeaderOk(head) ==
    /\ head[1] = Byte(Version) /\ head[2] = Byte(Size)
    /\ \E n \in 1 .. MaxPayload : head[3] = Byte(n)

Header(r, s) ==
    LET head == Append(r.head, s)
    IN  IF Len(head) < HeaderLen THEN [r EXCEPT !.head = head, !.byte = ByteTicks]
        ELSE IF HeaderOk(head) THEN [r EXCEPT !.head = head, !.state = "payload", !.byte = ByteTicks]
        ELSE Scanning

Intact_Assumed(head, body) == TRUE
Intact(head, body) == head[4] = Digest([i \in 1 .. Len(body) |-> body[i][1]])

Payload(r, s) ==
    LET body == Append(r.body, s)
    IN  IF Byte(Len(body)) # r.head[3] THEN [r EXCEPT !.body = body, !.byte = ByteTicks]
        ELSE IF Intact(r.head, body) THEN [r EXCEPT !.body = body, !.state = "ready", !.byte = 0, !.frame = 0]
        ELSE Scanning

\* i2_rx_feed_byte.
Fed(r, s) ==
    LET c == Checked(r)
    IN  CASE c.state = "scan" -> Scan(c, s)
          [] c.state = "header" -> Header(c, s)
          [] c.state = "payload" -> Payload(c, s)
          [] c.state = "ready" -> c

\* i2_rx_poll, one byte of its budget.
Feed ==
    /\ rx.state # "ready" /\ fifo # <<>>
    /\ rx' = Fed(rx, Head(fifo)[1])
    /\ fifo' = Tail(fifo)
    /\ LET at == Head(fifo)[2]
       IN  whole' = CASE at = 1 -> IF Checked(rx).state = "scan" THEN 1 ELSE 0
                      [] at > 1 -> IF at = whole + 1 /\ ~Expired(rx) THEN at ELSE 0
                      [] OTHER -> 0
    /\ UNCHANGED <<taken, payload, pos, quiet, faults>>

\* i2_rx_poll without a byte.
Check ==
    /\ Expired(rx) /\ fifo = <<>>
    /\ rx' = Checked(rx) /\ whole' = 0
    /\ UNCHANGED <<taken, payload, pos, quiet, fifo, faults>>

\* i2_rx_take: a noun or a reject; the automaton starts again either
\* way.
Take ==
    /\ rx.state = "ready"
    /\ taken' = [i \in 1 .. Len(rx.body) |-> rx.body[i][1]]
    /\ rx' = Scanning /\ whole' = 0
    /\ UNCHANGED <<payload, pos, quiet, fifo, faults>>

-----------------------------------------------------------------------------
(* The sender, the line and the clock.                                     *)

Sending == pos <= Len(Frame(payload))
Room == Len(fifo) < FifoCap
Line == UNCHANGED <<rx, taken, payload, whole>>
Fault == faults > 0 /\ faults' = faults - 1
Again == pos' = 1 /\ quiet' = 0

Send ==
    /\ Sending /\ Room
    /\ fifo' = Append(fifo, <<Frame(payload)[pos], pos>>) /\ pos' = pos + 1
    /\ Line /\ UNCHANGED <<quiet, faults>>

\* After a silence the sender transmits again.
Restart == ~Sending /\ quiet = ByteTicks /\ Again /\ Line /\ UNCHANGED <<fifo, faults>>

\* A byte is lost, on the line or to an overrun; reads as another; a byte that
\* nobody sent; a transmission without the silence.
Flaw ==
    /\ Fault /\ Line
    /\ \/ Sending /\ pos' = pos + 1 /\ UNCHANGED <<fifo, quiet>>
       \/ /\ Sending /\ Room /\ pos' = pos + 1 /\ UNCHANGED quiet
          /\ \E x \in Noise : x # Frame(payload)[pos] /\ fifo' = Append(fifo, <<x, 0>>)
       \/ Room /\ (\E x \in Noise : fifo' = Append(fifo, <<x, 0>>)) /\ UNCHANGED <<pos, quiet>>
       \/ ~Sending /\ Again /\ UNCHANGED fifo

Less(n) == IF n > 0 THEN n - 1 ELSE 0
Clock == rx' = [rx EXCEPT !.byte = Less(@), !.frame = Less(@)] /\ UNCHANGED <<taken, payload, whole, pos, fifo>>

\* Time passes in a silence; bytes take none, unless the sender pauses or the
\* host does not look, which are faults.
Tick ==
    /\ ~Sending /\ fifo = <<>> /\ quiet < ByteTicks
    /\ quiet' = quiet + 1 /\ Clock /\ UNCHANGED faults
Pause ==
    /\ Sending \/ fifo # <<>>
    /\ Fault /\ Clock /\ UNCHANGED quiet

RxNext == Feed \/ Check \/ Take \/ Send \/ Restart \/ Flaw \/ Tick \/ Pause

\* The loop polls for ever, and a sender that got no answer goes on.
Fairness == WF_rxVars(Feed) /\ WF_rxVars(Check) /\ WF_rxVars(Take) /\ WF_rxVars(Send) /\ WF_rxVars(Restart) /\ WF_rxVars(Tick)
RxSpec == RxInit /\ [][RxNext]_rxVars
FairSpec == RxSpec /\ Fairness

-----------------------------------------------------------------------------
(* Properties.                                                             *)

\* What the decoder gets is what the sender framed, whatever the line did to
\* the frames before, between and in it (i2_rx_feed_byte).
Delivered == taken # <<>> => taken = payload

\* A frame that arrives whole and in time, and begins while the receiver looks
\* for one, is heard, whatever false beginnings came right before it.
FrameHeard == whole = Len(Frame(payload)) => rx.state = "ready"

\* A sender that goes on is heard in the end: no leftover of a damaged frame
\* holds the receiver, also if another frame seems to begin in the payload.
HeardInTheEnd == <>(taken = payload)

=============================================================================
