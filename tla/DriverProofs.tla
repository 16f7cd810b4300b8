---------------------------- MODULE DriverProofs ----------------------------
(***************************************************************************)
(* Proofs about the two drivers at the edge of the kernel: the output bank *)
(* (digital_out.c) and the framed ingress (i2_ingress.c), for every value  *)
(* of their constants.  The drivers share nothing.                         *)
(*                                                                         *)
(* The bank: none of its properties is inductive alone.  A write passes    *)
(* through two steps in which shadow and level disagree; IInv says how far *)
(* a write in progress has come, and that only an enabled healthy bank is  *)
(* written.                                                                *)
(*                                                                         *)
(* The ingress: Heard says what the automaton holds after each number of   *)
(* symbols of a frame, Shape what it holds in each of its states.  Only    *)
(* the payload's digest can be on the line, so a receiver that has         *)
(* compared one holds the payload.                                         *)
(***************************************************************************)
EXTENDS DigitalOut, Ingress, SequenceTheorems, TLAPS

\* A write in progress: before the clear nothing has changed, after it the
\* whole bank is low; the bank is enabled, healthy and licensed throughout.
WriteInv ==
    /\ ~Idle => configured /\ ~fatal /\ ~inhibited
    /\ phase = "clear" => shadow = level
    /\ phase = "set" => level = {}

\* The type invariant in two parts: numbers, and the rest.
CounterTypes == sample \in Nat /\ inc \in Nat \ {0}
BankTypes ==
    /\ level \in Banks /\ shadow \in Banks /\ desired \in Banks
    /\ configured \in BOOLEAN /\ inhibited \in BOOLEAN
    /\ reconcile \in BOOLEAN /\ fatal \in BOOLEAN /\ closed \in BOOLEAN
    /\ phase \in {"idle", "clear", "set"}
    /\ licence \in {"none", "clean", "sampled"}

\* Whatever could let a command through has been licensed.
LicenceInv ==
    configured /\ ~fatal /\ (~inhibited \/ reconcile) => licence # "none"

Core == BankTypes /\ ShadowTrue /\ InhibitedLow /\ WriteInv /\ LicenceInv

IInv == CounterTypes /\ Core

\* The two parts are the type invariant.
LEMMA TypeParts == CounterTypes /\ BankTypes <=> TypeOK
BY DEF CounterTypes, BankTypes, TypeOK

\* The invariant holds when boot code hands over with pins in any state.
LEMMA InitIInv == Init => IInv
<1>1. Init => CounterTypes
      BY DEF Init, CounterTypes
<1>2. Init => Core
      BY DEF Init, Core, BankTypes, ShadowTrue, InhibitedLow, WriteInv, LicenceInv, Idle, Banks
<1> QED
    BY <1>1, <1>2 DEF IInv

\* Incarnations and samples stay numbers.
LEMMA NextCounters == CounterTypes /\ [Next]_vars => CounterTypes'
<1> SUFFICES ASSUME CounterTypes, [Next]_vars PROVE CounterTypes'
    OBVIOUS
<1> USE DEF CounterTypes
<1>1. CASE RestoreSafe
      BY <1>1 DEF RestoreSafe, ConfigureFails, ClearFails, Cleared
<1>2. CASE PrepareClean
      BY <1>2 DEF PrepareClean, ConfigureFails, ClearFails, Cleared
<1>3. CASE ForceSafe
      BY <1>3 DEF ForceSafe, ForceSafeWith, ForceSafeLatches
<1>4. CASE Advance
      BY <1>4 DEF Advance, ForceSafeWith, ForceSafeLatches
<1>5. CASE ExternalSample
      BY <1>5 DEF ExternalSample, Arm
<1>6. CASE ClosedSample
      BY <1>6 DEF ClosedSample, Arm
<1>7. CASE ApplyUnsafe
      BY <1>7 DEF ApplyUnsafe, ForceSafeWith, ForceSafeLatches
<1>8. CASE ApplyRefused
      BY <1>8 DEF ApplyRefused
<1>9. ASSUME NEW bank \in Requests, Apply(bank) PROVE CounterTypes'
      BY <1>9 DEF Apply, Accepted
<1>10. CASE ApplyFails
      BY <1>10 DEF ApplyFails, ForceSafeLatches
<1>11. CASE WriteClear
      BY <1>11 DEF WriteClear, latches
<1>12. CASE WriteSet
      BY <1>12 DEF WriteSet, latches
<1>13. CASE UNCHANGED vars
      BY <1>13 DEF vars
<1> QED
    BY <1>1, <1>2, <1>3, <1>4, <1>5, <1>6, <1>7, <1>8, <1>9, <1>10, <1>11, <1>12, <1>13
    DEF Next

\* Every operation of the bank preserves what the latches mean.
LEMMA NextCore == Core /\ [Next]_vars => Core'
<1> SUFFICES ASSUME Core, [Next]_vars PROVE Core'
    OBVIOUS
<1> USE DEF Core, BankTypes, ShadowTrue, InhibitedLow, WriteInv, LicenceInv, Idle, Banks
<1>1. CASE RestoreSafe
      BY <1>1 DEF RestoreSafe, ConfigureFails, ClearFails, Cleared
<1>2. CASE PrepareClean
      BY <1>2 DEF PrepareClean, ConfigureFails, ClearFails, Cleared
<1>3. CASE ForceSafe
      BY <1>3 DEF ForceSafe, ForceSafeWith, ForceSafeLatches
<1>4. CASE Advance
      BY <1>4 DEF Advance, ForceSafeWith, ForceSafeLatches
<1>5. CASE ExternalSample
      BY <1>5 DEF ExternalSample, Arm
<1>6. CASE ClosedSample
      BY <1>6 DEF ClosedSample, Arm
<1>7. CASE ApplyUnsafe
      BY <1>7 DEF ApplyUnsafe, ForceSafeWith, ForceSafeLatches
<1>8. CASE ApplyRefused
      BY <1>8 DEF ApplyRefused
<1>9. ASSUME NEW bank \in Requests, Apply(bank) PROVE Core'
      BY <1>9 DEF Apply, Accepted
<1>10. CASE ApplyFails
      BY <1>10 DEF ApplyFails, ForceSafeLatches
<1>11. CASE WriteClear
      BY <1>11 DEF WriteClear, latches
<1>12. CASE WriteSet
      BY <1>12 DEF WriteSet, latches
<1>13. CASE UNCHANGED vars
      BY <1>13 DEF vars
<1> QED
    BY <1>1, <1>2, <1>3, <1>4, <1>5, <1>6, <1>7, <1>8, <1>9, <1>10, <1>11, <1>12, <1>13
    DEF Next

\* The invariant, of every behaviour.
LEMMA Invariant == Spec => []IInv
<1>1. Init => IInv
      BY InitIInv
<1>2. IInv /\ [Next]_vars => IInv'
      BY NextCounters, NextCore DEF IInv
<1> QED
    BY <1>1, <1>2, PTL DEF Spec

\* Latches, banks and counters keep their types.
THEOREM TypeCorrect == Spec => []TypeOK
<1>1. IInv => TypeOK
      BY TypeParts DEF IInv, Core
<1> QED
    BY <1>1, Invariant, PTL

\* The shadow is the truth about a configured healthy bank between commands,
\* so that digital_out_apply may skip a write of the same bank.
THEOREM ShadowAlwaysTrue == Spec => []ShadowTrue
<1>1. IInv => ShadowTrue
      BY DEF IInv, Core
<1> QED
    BY <1>1, Invariant, PTL

\* An inhibited healthy bank is physically low.
THEOREM InhibitedAlwaysLow == Spec => []InhibitedLow
<1>1. IInv => InhibitedLow
      BY DEF IInv, Core
<1> QED
    BY <1>1, Invariant, PTL

\* Only the second half of a write raises a channel.
LEMMA OnlyWriteSetRaises ==
    IInv /\ [Next]_vars => level' \subseteq level \/ level' = {} \/ WriteSet
<1> SUFFICES ASSUME IInv, [Next]_vars, ~WriteSet PROVE level' \subseteq level \/ level' = {}
    OBVIOUS
<1> QED
    BY DEF Next, vars, RestoreSafe, PrepareClean, ConfigureFails, ClearFails, Cleared,
           ForceSafe, Advance, ForceSafeWith, ForceSafeLatches, ExternalSample, ClosedSample,
           ApplyUnsafe, ApplyRefused, Apply, ApplyFails, WriteClear

\* Channels go high only from an all-low bank, in every write.
THEOREM AlwaysBreakBeforeMake == Spec => BreakBeforeMake
<1>1. IInv /\ [Next]_vars => [level' \subseteq level \/ level = {}]_vars
  <2> SUFFICES ASSUME IInv, [Next]_vars PROVE level' \subseteq level \/ level = {}
      OBVIOUS
  <2>1. CASE WriteSet
        BY <2>1 DEF IInv, Core, WriteInv, WriteSet
  <2>2. CASE level' \subseteq level \/ level' = {}
        BY <2>2
  <2> QED
      BY <2>1, <2>2, OnlyWriteSetRaises
<1> QED
    BY <1>1, Invariant, PTL DEF Spec, BreakBeforeMake

\* Nothing is energized after a safe-low without a sample or a preparation.
THEOREM AlwaysLicensed == Spec => EnergizedWithLicence
<1>1. IInv /\ [Next]_vars => [level' \subseteq level \/ licence # "none"]_vars
  <2> SUFFICES ASSUME IInv, [Next]_vars PROVE level' \subseteq level \/ licence # "none"
      OBVIOUS
  <2>1. CASE WriteSet
        BY <2>1 DEF IInv, Core, WriteInv, LicenceInv, WriteSet, Idle
  <2>2. CASE level' \subseteq level \/ level' = {}
        BY <2>2
  <2> QED
      BY <2>1, <2>2, OnlyWriteSetRaises
<1> QED
    BY <1>1, Invariant, PTL DEF Spec, EnergizedWithLicence

\* A failed bank stays latched and is never energized until a preparation
\* has cleared it.
THEOREM FatalAlwaysLow == Spec => FatalStaysLow
<1>1. IInv /\ [Next]_vars => [fatal => level' \subseteq level /\ (fatal' \/ level' = {})]_vars
  <2> SUFFICES ASSUME IInv, [Next]_vars, fatal
               PROVE  level' \subseteq level /\ (fatal' \/ level' = {})
      OBVIOUS
  <2>1. Idle
        BY DEF IInv, Core, WriteInv
  <2>2. ~WriteSet
        BY <2>1 DEF WriteSet, Idle
  <2>3. level' \subseteq level
        BY <2>2, OnlyWriteSetRaises
  <2>4. fatal' \/ level' = {}
        BY <2>1 DEF Next, vars, latches, Idle, RestoreSafe, PrepareClean, ConfigureFails, ClearFails,
           Cleared, ForceSafe, Advance, ForceSafeWith, ForceSafeLatches, ExternalSample,
           ClosedSample, ApplyUnsafe, ApplyRefused, Apply, ApplyFails, WriteClear, WriteSet
  <2> QED
      BY <2>3, <2>4
<1> QED
    BY <1>1, Invariant, PTL DEF Spec, FatalStaysLow

-----------------------------------------------------------------------------
(* The frame.                                                              *)

M == Len(Magic)

LEMMA Joined ==
    ASSUME NEW S, NEW s \in Seq(S), NEW t \in Seq(S)
    PROVE  /\ s \o t \in Seq(S) /\ Len(s \o t) = Len(s) + Len(t)
           /\ \A i \in 1 .. Len(s) : (s \o t)[i] = s[i]
           /\ \A i \in 1 .. Len(t) : (s \o t)[Len(s) + i] = t[i]
<1>1. Len(s) \in Nat /\ Len(t) \in Nat
      OBVIOUS
<1>2. ASSUME NEW i \in 1 .. Len(t)
      PROVE  (s \o t)[Len(s) + i] = t[i]
  <2>1. Len(s) + i \in 1 .. Len(s) + Len(t) /\ ~(Len(s) + i <= Len(s)) /\ Len(s) + i - Len(s) = i
        BY <1>1
  <2> QED
      BY <2>1, ConcatProperties
<1> QED
    BY <1>1, <1>2, ConcatProperties

\* Symbol i of a frame, for each part of it.
LEMMA FrameIs ==
    ASSUME NEW w \in Seq(Nat)
    PROVE  /\ Len(Frame(w)) = M + 4 + Len(w)
           /\ \A i \in 1 .. M : Frame(w)[i] = Byte(Magic[i])
           /\ Frame(w)[M + 1] = Byte(Version) /\ Frame(w)[M + 2] = Byte(Size)
           /\ Frame(w)[M + 3] = Byte(Len(w)) /\ Frame(w)[M + 4] = Digest(w)
           /\ \A i \in 1 .. Len(w) : Frame(w)[M + 4 + i] = Byte(w[i])
<1> DEFINE A == [i \in 1 .. Len(Magic) |-> Byte(Magic[i])]
           H == <<Byte(Version), Byte(Size), Byte(Len(w)), Digest(w)>>
           W == [i \in 1 .. Len(w) |-> Byte(w[i])]
           S == {Byte(b) : b \in Nat} \cup {Byte(Version), Byte(Size), Digest(w)}
<1>1. Magic \in Seq(Nat) /\ M \in Nat /\ Len(w) \in Nat
      BY IngressAssumption DEF M
<1>2. /\ A \in Seq(S) /\ Len(A) = M /\ \A i \in 1 .. M : A[i] = Byte(Magic[i])
      BY <1>1 DEF M
<1>3. W \in Seq(S) /\ Len(W) = Len(w) /\ \A i \in 1 .. Len(w) : W[i] = Byte(w[i])
      BY <1>1
<1>4. H \in Seq(S) /\ Len(H) = 4 /\ H[1] = Byte(Version) /\ H[2] = Byte(Size) /\ H[3] = Byte(Len(w)) /\ H[4] = Digest(w)
      <2> HIDE DEF S
      <2>1. Byte(Version) \in S /\ Byte(Size) \in S /\ Digest(w) \in S /\ Byte(Len(w)) \in S
            BY <1>1 DEF S
      <2> QED
          BY <2>1
<1> HIDE DEF S, A, H, W
<1>10. /\ A \o H \in Seq(S) /\ Len(A \o H) = Len(A) + Len(H)
       /\ \A i \in 1 .. Len(A) : (A \o H)[i] = A[i]
       /\ \A i \in 1 .. Len(H) : (A \o H)[Len(A) + i] = H[i]
  <2>1. A \in Seq(S) /\ H \in Seq(S)
        BY <1>2, <1>4
  <2> QED
      BY <2>1, Joined
<1>5. /\ A \o H \in Seq(S) /\ Len(A \o H) = M + 4
      /\ \A i \in 1 .. M : (A \o H)[i] = A[i]
      /\ \A i \in 1 .. 4 : (A \o H)[M + i] = H[i]
      BY <1>10, <1>2, <1>4, Zenon
<1>11. /\ Len((A \o H) \o W) = Len(A \o H) + Len(W)
       /\ \A i \in 1 .. Len(A \o H) : ((A \o H) \o W)[i] = (A \o H)[i]
       /\ \A i \in 1 .. Len(W) : ((A \o H) \o W)[Len(A \o H) + i] = W[i]
  <2>1. A \o H \in Seq(S) /\ W \in Seq(S)
        BY <1>5, <1>3
  <2> QED
      BY <2>1, Joined
<1>6. /\ Len((A \o H) \o W) = M + 4 + Len(w)
      /\ \A i \in 1 .. M + 4 : ((A \o H) \o W)[i] = (A \o H)[i]
      /\ \A i \in 1 .. Len(w) : ((A \o H) \o W)[M + 4 + i] = W[i]
      BY <1>11, <1>3, <1>5, Zenon
<1>8. ASSUME NEW i \in 1 .. M
      PROVE  ((A \o H) \o W)[i] = Byte(Magic[i])
      BY <1>1, <1>2, <1>5, <1>6
<1>9. ASSUME NEW i \in 1 .. 4
      PROVE  ((A \o H) \o W)[M + i] = H[i]
  <2>1. M + i \in 1 .. M + 4
        BY <1>1
  <2> QED
      BY <2>1, <1>5, <1>6
<1>7. Frame(w) = (A \o H) \o W
      BY DEF Frame, A, H, W
<1> QED
    <2>1. \A i \in 1 .. M : Frame(w)[i] = Byte(Magic[i])
          BY <1>8, <1>7, Zenon
    <2>2. \A i \in 1 .. 4 : Frame(w)[M + i] = H[i]
          BY <1>9, <1>7, Zenon
    <2>3. 1 \in 1 .. 4 /\ 2 \in 1 .. 4 /\ 3 \in 1 .. 4 /\ 4 \in 1 .. 4
          OBVIOUS
    <2>4. Len(Frame(w)) = M + 4 + Len(w) /\ \A i \in 1 .. Len(w) : Frame(w)[M + 4 + i] = Byte(w[i])
          BY <1>6, <1>7, <1>3, Zenon
    <2> QED
        BY <2>1, <2>2, <2>3, <2>4, <1>4, Zenon

Sent == Frame(payload)
N == Len(payload)

LEMMA SentIs ==
    ASSUME payload \in Payloads
    PROVE  /\ payload \in Seq(Nat) /\ N \in 1 .. MaxPayload /\ N \in Nat /\ M \in Nat /\ M > 0
           /\ Len(Sent) = M + 4 + N
           /\ \A i \in 1 .. M : Sent[i] = Byte(Magic[i])
           /\ Sent[M + 1] = Byte(Version) /\ Sent[M + 2] = Byte(Size)
           /\ Sent[M + 3] = Byte(N) /\ Sent[M + 4] = Digest(payload)
           /\ \A i \in 1 .. N : Sent[M + 4 + i] = Byte(payload[i])
<1>1. payload \in Seq(Nat) /\ N \in 1 .. MaxPayload
      BY IngressAssumption DEF N
<1>2. M \in Nat /\ M > 0 /\ MaxPayload \in Nat
      BY IngressAssumption DEF M
<1> QED
    BY <1>1, <1>2, FrameIs DEF Sent, N

\* What the line can carry.
Symbols == {Sent[i] : i \in 1 .. Len(Sent)} \cup Noise

\* A digest on the line is the sender's.
LEMMA OneDigest ==
    ASSUME payload \in Payloads, NEW S, NEW w \in Seq(S), w # <<>>, Digest(w) \in Symbols
    PROVE  w = payload
<1> DEFINE T == S \cup Nat \cup {"digest"}
<1>1. w \in Seq(T) /\ payload \in Seq(T) /\ <<"digest">> \in Seq(T)
  <2>1. S \subseteq T /\ Nat \subseteq T /\ "digest" \in T
        OBVIOUS
  <2>2. payload \in Seq(Nat)
        BY SentIs
  <2> HIDE DEF T
  <2> QED
      BY <2>1, <2>2
<1> HIDE DEF T
<1>2. /\ Len(Digest(w)) = 1 + Len(w) /\ \A i \in 1 .. Len(w) : Digest(w)[1 + i] = w[i]
      /\ Len(Digest(payload)) = 1 + N /\ \A i \in 1 .. N : Digest(payload)[1 + i] = payload[i]
  <2>1. Len(<<"digest">>) = 1
        OBVIOUS
  <2>2. /\ Len(Digest(w)) = Len(<<"digest">>) + Len(w)
        /\ \A i \in 1 .. Len(w) : Digest(w)[Len(<<"digest">>) + i] = w[i]
        BY <1>1, Joined DEF Digest
  <2>3. /\ Len(Digest(payload)) = Len(<<"digest">>) + Len(payload)
        /\ \A i \in 1 .. Len(payload) : Digest(payload)[Len(<<"digest">>) + i] = payload[i]
        BY <1>1, Joined DEF Digest
  <2> QED
      BY <2>1, <2>2, <2>3, Zenon DEF N
<1>3. Len(w) \in Nat /\ Len(w) > 0
      BY <1>1
<1>4. Digest(w) = Digest(payload)
  <2>1. CASE Digest(w) \in Noise
    <3>1. Digest(w) = <<Digest(w)[1]>>
          BY <2>1, IngressAssumption
    <3>2. Len(<<Digest(w)[1]>>) = 1
          OBVIOUS
    <3> QED
        BY <3>1, <3>2, <1>2, <1>3
  <2>2. ASSUME NEW i \in 1 .. Len(Sent), Digest(w) = Sent[i]
        PROVE  Digest(w) = Digest(payload)
    <3>1. \A b : Len(Byte(b)) = 1
          BY DEF Byte
    <3>8. Len(Digest(w)) # 1
          BY <1>2, <1>3
    <3>2. \A b : Digest(w) # Byte(b)
          BY <3>1, <3>8, Zenon
    <3>7. M \in Nat /\ N \in Nat /\ Len(Sent) = M + 4 + N
          BY SentIs
    <3>3. CASE i \in 1 .. M
          BY <3>3, <3>2, <2>2, SentIs, Zenon
    <3>4. CASE i \in {M + 1, M + 2, M + 3}
          BY <3>4, <3>2, <2>2, SentIs, Zenon
    <3>5. CASE i = M + 4
          BY <3>5, <2>2, SentIs, Zenon
    <3>6. CASE i \in M + 5 .. M + 4 + N
      <4>1. i - M - 4 \in 1 .. N /\ M + 4 + (i - M - 4) = i
            BY <3>6, <3>7
      <4>2. Sent[M + 4 + (i - M - 4)] = Byte(payload[i - M - 4])
            BY <4>1, SentIs, Zenon
      <4> QED
          BY <4>1, <4>2, <3>2, <2>2
    <3> QED
        BY <3>3, <3>4, <3>5, <3>6, <3>7
  <2> QED
      BY <2>1, <2>2 DEF Symbols
<1> QED
    BY <1>1, <1>2, <1>3, <1>4, SeqEqual DEF N

-----------------------------------------------------------------------------
(* The receiver.                                                           *)

Receivers == [state : {"scan", "header", "payload", "ready"}, magic : Nat, head : Seq(Symbols),
              body : Seq(Symbols), byte : Nat, frame : Nat]

\* What each state has stored.
Shape(r) ==
    /\ r \in Receivers
    /\ r.state = "scan" => r.magic < M /\ r.head = <<>> /\ r.body = <<>>
    /\ r.state = "header" => Len(r.head) < HeaderLen /\ r.body = <<>>
    /\ r.state = "payload" => Len(r.head) = HeaderLen
    /\ r.state = "ready" => Len(r.head) = HeaderLen /\ r.body # <<>> /\ Intact(r.head, r.body)

\* The receiver after the first k symbols of a frame.
Heard(r, k) ==
    /\ k \in 1 .. M - 1 => r.state = "scan" /\ r.magic = k
    /\ k \in M .. M + 3 =>
          r.state = "header" /\ Len(r.head) = k - M /\ \A i \in 1 .. k - M : r.head[i] = Sent[M + i]
    /\ k \in M + 4 .. M + 3 + N =>
          /\ r.state = "payload" /\ Len(r.head) = HeaderLen
          /\ \A i \in 1 .. HeaderLen : r.head[i] = Sent[M + i]
          /\ Len(r.body) = k - M - 4 /\ \A i \in 1 .. k - M - 4 : r.body[i] = Byte(payload[i])
    /\ k = M + 4 + N => r.state = "ready"

LEMMA ScanningShape == payload \in Payloads => Shape(Scanning)
<1> SUFFICES ASSUME payload \in Payloads
             PROVE  Shape(Scanning)
    OBVIOUS
<1>1. M > 0 /\ <<>> \in Seq(Symbols) /\ 0 \in Nat
      BY SentIs
<1> QED
    BY <1>1 DEF Shape, Scanning, Receivers

LEMMA ScanShape ==
    ASSUME payload \in Payloads, NEW s \in Symbols, NEW r, Shape(r), r.state = "scan"
    PROVE  Shape(Scan(r, s))
<1> USE DEF Shape, Receivers, HeaderLen
<1>1. M \in Nat /\ M > 0 /\ ByteTicks \in Nat /\ FrameTicks \in Nat
      BY SentIs, IngressAssumption
<1>2. CASE s # Byte(Magic[r.magic + 1])
  <2>1. Scan(r, s) = Mismatch(r, s)
        BY <1>2 DEF Scan
  <2>2. CASE s = Byte(Magic[1]) /\ M > 1
    <3>1. Scan(r, s) = [state |-> "scan", magic |-> 1, head |-> <<>>, body |-> <<>>,
                        byte |-> ByteTicks, frame |-> FrameTicks]
          BY <2>1, <2>2 DEF Mismatch, Scanning
    <3>2. <<>> \in Seq(Symbols) /\ 1 \in Nat /\ 1 < M
          BY <1>1, <2>2
    <3> QED
        BY <3>1, <3>2, <1>1
  <2>3. CASE s = Byte(Magic[1]) /\ M = 1
    <3>1. r.magic = 0
          BY <2>3
    <3> QED
        BY <3>1, <1>2, <2>3
  <2>4. CASE s # Byte(Magic[1])
    <3>1. Scan(r, s) = Scanning
          BY <2>1, <2>4 DEF Mismatch
    <3> QED
        BY <3>1, ScanningShape
  <2> QED
      BY <2>2, <2>3, <2>4, <1>1
<1>3. CASE s = Byte(Magic[r.magic + 1])
  <2> DEFINE b == IF r.magic = 0 THEN ByteTicks ELSE r.byte
             f == IF r.magic = 0 THEN FrameTicks ELSE r.frame
             t == IF r.magic + 1 = M THEN "header" ELSE "scan"
  <2>5. b \in Nat /\ f \in Nat /\ t \in {"scan", "header"} /\ r.magic + 1 \in Nat
        BY <1>1
  <2>6. Scan(r, s) = [r EXCEPT !.magic = r.magic + 1, !.byte = b, !.frame = f, !.state = t]
        BY <1>3 DEF Scan, M
  <2> HIDE DEF b, f, t
  <2>1. /\ Scan(r, s) \in Receivers
        /\ Scan(r, s).magic = r.magic + 1 /\ Scan(r, s).head = <<>> /\ Scan(r, s).body = <<>>
        /\ Scan(r, s).state = t
        BY <2>5, <2>6
  <2>2. r.magic \in Nat /\ r.magic < M /\ Len(<<>>) = 0
        OBVIOUS
  <2>3. CASE r.magic + 1 = M
        BY <2>1, <2>2, <2>3 DEF t
  <2>4. CASE r.magic + 1 # M
        BY <2>1, <2>2, <2>4, <1>1 DEF t
  <2> QED
      BY <2>3, <2>4
<1> QED
    BY <1>2, <1>3

LEMMA HeaderShape ==
    ASSUME payload \in Payloads, NEW s \in Symbols, NEW r, Shape(r), r.state = "header"
    PROVE  Shape(Header(r, s))
<1> USE DEF Shape, Receivers, HeaderLen
<1> DEFINE head == Append(r.head, s)
<1>1. ByteTicks \in Nat
      BY IngressAssumption
<1>2. head \in Seq(Symbols) /\ Len(head) = Len(r.head) + 1 /\ Len(r.head) \in Nat /\ Len(r.head) < 4
      OBVIOUS
<1> HIDE DEF head
<1>3. CASE Len(head) < 4
  <2>1. Header(r, s) = [r EXCEPT !.head = head, !.byte = ByteTicks]
        BY <1>3 DEF Header, head
  <2> QED
      BY <2>1, <1>1, <1>2, <1>3
<1>4. CASE ~(Len(head) < 4) /\ HeaderOk(head)
  <2>1. Header(r, s) = [r EXCEPT !.head = head, !.state = "payload", !.byte = ByteTicks]
        BY <1>4 DEF Header, head
  <2>2. Len(head) = 4
        BY <1>4, <1>2
  <2> QED
      BY <2>1, <2>2, <1>1, <1>2
<1>5. CASE ~(Len(head) < 4) /\ ~HeaderOk(head)
  <2>1. Header(r, s) = Scanning
        BY <1>5 DEF Header, head
  <2> QED
      BY <2>1, ScanningShape
<1> QED
    BY <1>3, <1>4, <1>5

LEMMA PayloadShape ==
    ASSUME payload \in Payloads, NEW s \in Symbols, NEW r, Shape(r), r.state = "payload"
    PROVE  Shape(Payload(r, s))
<1> USE DEF Shape, HeaderLen
<1> DEFINE body == Append(r.body, s)
<1>1. ByteTicks \in Nat
      BY IngressAssumption
<1>2. body \in Seq(Symbols) /\ body # <<>>
  <2>1. r.body \in Seq(Symbols)
        BY DEF Receivers
  <2> QED
      BY <2>1, AppendProperties
<1> HIDE DEF body
<1>3. CASE Byte(Len(body)) # r.head[3]
  <2>1. Payload(r, s) = [r EXCEPT !.body = body, !.byte = ByteTicks]
        BY <1>3 DEF Payload, body
  <2> QED
      BY <2>1, <1>1, <1>2, <1>3 DEF Receivers
<1>4. CASE Byte(Len(body)) = r.head[3] /\ Intact(r.head, body)
  <2>1. Payload(r, s) = [state |-> "ready", magic |-> r.magic, head |-> r.head, body |-> body,
                         byte |-> 0, frame |-> 0]
        BY <1>4 DEF Payload, body, Receivers
  <2>2. /\ Payload(r, s) \in Receivers
        /\ Payload(r, s).head = r.head /\ Payload(r, s).body = body /\ Payload(r, s).state = "ready"
    <3>1. r.magic \in Nat /\ r.head \in Seq(Symbols) /\ body \in Seq(Symbols)
          BY <1>2 DEF Receivers
    <3> QED
        BY <2>1, <3>1 DEF Receivers
  <2>3. Len(r.head) = 4
        OBVIOUS
  <2>4. Intact(Payload(r, s).head, Payload(r, s).body)
        BY <2>2, <1>4
  <2> QED
      BY <2>2, <2>3, <2>4, <1>2
<1>5. CASE Byte(Len(body)) = r.head[3] /\ ~Intact(r.head, body)
  <2>1. Payload(r, s) = Scanning
        BY <1>5 DEF Payload, body
  <2> QED
      BY <2>1, ScanningShape
<1> QED
    BY <1>3, <1>4, <1>5

LEMMA FedShape ==
    ASSUME payload \in Payloads, NEW s \in Symbols, NEW r, Shape(r)
    PROVE  Shape(Checked(r)) /\ Shape(Fed(r, s))
<1>1. Shape(Checked(r))
      BY ScanningShape DEF Checked
<1>2. Checked(r).state \in {"scan", "header", "payload", "ready"}
      BY <1>1 DEF Shape, Receivers
<1>3. Shape(Fed(r, s))
  <2>1. CASE Checked(r).state = "scan"
        BY <1>1, <2>1, ScanShape DEF Fed
  <2>2. CASE Checked(r).state = "header"
        BY <1>1, <2>2, HeaderShape DEF Fed
  <2>3. CASE Checked(r).state = "payload"
        BY <1>1, <2>3, PayloadShape DEF Fed
  <2>4. CASE Checked(r).state = "ready"
        BY <1>1, <2>4 DEF Fed
  <2> QED
      BY <1>2, <2>1, <2>2, <2>3, <2>4
<1> QED
    BY <1>1, <1>3, Zenon

\* The first symbol of a frame is heard in the scan, also behind a part of the
\* magic that led nowhere.
LEMMA FirstHeard ==
    ASSUME payload \in Payloads, NEW r, Shape(r), Checked(r).state = "scan"
    PROVE  Heard(Fed(r, Sent[1]), 1)
<1> DEFINE c == Checked(r)
<1>1. Shape(c) /\ c.state = "scan"
      BY ScanningShape DEF Checked
<1>2. Fed(r, Sent[1]) = Scan(c, Sent[1])
  <2>1. /\ c.state # "header" /\ c.state # "payload" /\ c.state # "ready"
        BY <1>1
  <2> QED
      BY <1>1, <2>1 DEF Fed
<1>3. M \in Nat /\ M > 0 /\ N > 0 /\ N \in Nat /\ Sent[1] = Byte(Magic[1])
      BY SentIs
<1> HIDE DEF c
<1>4. c.magic \in Nat /\ c.magic < M /\ c \in Receivers /\ c.head = <<>>
      BY <1>1 DEF Shape, Receivers
<1>5. CASE c.magic = 0
  <2>1. /\ Scan(c, Sent[1]).magic = 1 /\ Scan(c, Sent[1]).head = <<>>
        /\ Scan(c, Sent[1]).state = IF M = 1 THEN "header" ELSE "scan"
        BY <1>1, <1>3, <1>4, <1>5 DEF Scan, M, Receivers
  <2>2. Len(<<>>) = 0
        OBVIOUS
  <2>3. CASE M = 1
        BY <2>1, <2>2, <2>3, <1>2, <1>3 DEF Heard
  <2>4. CASE M > 1
        BY <2>1, <2>4, <1>2, <1>3 DEF Heard
  <2> QED
      BY <2>3, <2>4, <1>3
<1>6. CASE c.magic > 0
  <2>1. c.magic + 1 \in 2 .. M
        BY <1>3, <1>4, <1>6
  <2>2. Magic[c.magic + 1] # Magic[1]
        BY <2>1, IngressAssumption DEF M
  <2>3. Byte(Magic[c.magic + 1]) # Byte(Magic[1])
        BY <2>2 DEF Byte
  <2>4. /\ Scan(c, Sent[1]).magic = 1 /\ Scan(c, Sent[1]).state = "scan"
        BY <2>3, <1>3 DEF Scan, Mismatch, Scanning
  <2>5. M > 1
        BY <2>1, <1>3
  <2> QED
      BY <2>4, <2>5, <1>2, <1>3 DEF Heard
<1> QED
    BY <1>4, <1>5, <1>6

LEMMA HeardHeader ==
    ASSUME payload \in Payloads, NEW r, NEW k \in M .. M + 3, r.state = "header", Len(r.head) = k - M,
           \A i \in 1 .. k - M : r.head[i] = Sent[M + i]
    PROVE  Heard(r, k)
<1>1. M \in Nat /\ N \in Nat /\ N > 0
      BY SentIs
<1>2. ~(k \in 1 .. M - 1) /\ ~(k \in M + 4 .. M + 3 + N) /\ k # M + 4 + N
      BY <1>1
<1> QED
    BY <1>2 DEF Heard

LEMMA HeardPayload ==
    ASSUME payload \in Payloads, NEW r, NEW k \in M + 4 .. M + 3 + N, r.state = "payload",
           Len(r.head) = HeaderLen, \A i \in 1 .. HeaderLen : r.head[i] = Sent[M + i],
           Len(r.body) = k - M - 4, \A i \in 1 .. k - M - 4 : r.body[i] = Byte(payload[i])
    PROVE  Heard(r, k)
<1>1. M \in Nat /\ N \in Nat /\ N > 0
      BY SentIs
<1>2. ~(k \in 1 .. M - 1) /\ ~(k \in M .. M + 3) /\ k # M + 4 + N
      BY <1>1
<1> QED
    BY <1>2 DEF Heard

\* The next symbol of a frame, in time.
LEMMA NextInMagic ==
    ASSUME payload \in Payloads, NEW r, Shape(r), NEW k \in 1 .. M - 1, Heard(r, k)
    PROVE  Heard(Scan(r, Sent[k + 1]), k + 1) /\ r.state = "scan"
<1>1. M \in Nat /\ N \in Nat /\ N > 0
      BY SentIs
<1>2. r.state = "scan" /\ r.magic = k
      BY DEF Heard
<1>3. k + 1 \in 1 .. M /\ Sent[k + 1] = Byte(Magic[k + 1])
      BY SentIs
<1>4. r.head = <<>> /\ r \in Receivers
      BY <1>2 DEF Shape
<1>5. /\ Scan(r, Sent[k + 1]).magic = k + 1 /\ Scan(r, Sent[k + 1]).head = <<>>
      /\ Scan(r, Sent[k + 1]).state = IF k + 1 = M THEN "header" ELSE "scan"
      BY <1>2, <1>3, <1>4 DEF Scan, M, Receivers
<1>6. CASE k + 1 = M
  <2>1. Len(<<>>) = 0
        OBVIOUS
  <2> QED
      BY <1>1, <1>2, <1>5, <1>6, <2>1 DEF Heard
<1>7. CASE k + 1 < M
      BY <1>1, <1>2, <1>5, <1>7 DEF Heard
<1> QED
    BY <1>1, <1>6, <1>7

LEMMA NextInHeader ==
    ASSUME payload \in Payloads, NEW r, Shape(r), NEW k \in M .. M + 3, Heard(r, k)
    PROVE  Heard(Header(r, Sent[k + 1]), k + 1) /\ r.state = "header"
<1> DEFINE s == Sent[k + 1]
           head == Append(r.head, s)
<1>1. M \in Nat /\ M > 0 /\ N \in Nat /\ N > 0
      BY SentIs
<1>2. r.state = "header" /\ Len(r.head) = k - M /\ \A i \in 1 .. k - M : r.head[i] = Sent[M + i]
      BY DEF Heard
<1>3. r \in Receivers /\ r.body = <<>>
      BY <1>2 DEF Shape
<1>4. Len(head) = k - M + 1 /\ \A i \in 1 .. k - M + 1 : head[i] = Sent[M + i]
  <2>1. r.head \in Seq(Symbols)
        BY <1>3 DEF Receivers
  <2>2. Len(head) = Len(r.head) + 1 /\ \A i \in 1 .. Len(r.head) : head[i] = r.head[i]
        BY <2>1
  <2>3. head[Len(r.head) + 1] = s
        BY <2>1
  <2>4. M + (k - M + 1) = k + 1
        BY <1>1
  <2> HIDE DEF head
  <2> QED
      BY <1>1, <1>2, <2>2, <2>3, <2>4
<1> HIDE DEF head
<1>5. CASE k < M + 3
  <2>1. Len(head) < 4
        BY <1>1, <1>4, <1>5
  <2>2. Header(r, s).state = "header" /\ Header(r, s).head = head
        BY <1>2, <1>3, <2>1 DEF Header, HeaderLen, Receivers, head
  <2>3. k + 1 \in M .. M + 3 /\ (k + 1) - M = k - M + 1
        BY <1>1, <1>5
  <2>4. Len(head) = (k + 1) - M /\ \A i \in 1 .. (k + 1) - M : head[i] = Sent[M + i]
        BY <1>4, <2>3
  <2> HIDE DEF s
  <2>5. Heard(Header(r, s), k + 1)
        BY <2>2, <2>3, <2>4, HeardHeader
  <2> QED
      BY <2>5, <1>2 DEF s
<1>6. CASE k = M + 3
  <2>1. Len(head) = 4 /\ \A i \in 1 .. 4 : head[i] = Sent[M + i]
        BY <1>1, <1>4, <1>6
  <2>2. head[1] = Byte(Version) /\ head[2] = Byte(Size) /\ head[3] = Byte(N)
    <3>1. 1 \in 1 .. 4 /\ 2 \in 1 .. 4 /\ 3 \in 1 .. 4
          OBVIOUS
    <3> QED
        BY <2>1, <3>1, SentIs, Zenon
  <2>3. HeaderOk(head)
        BY <2>2, SentIs DEF HeaderOk
  <2>4. Header(r, s).state = "payload" /\ Header(r, s).head = head /\ Header(r, s).body = <<>>
        BY <1>3, <2>1, <2>3 DEF Header, HeaderLen, Receivers, head
  <2>5. k + 1 \in M + 4 .. M + 3 + N /\ (k + 1) - M - 4 = 0 /\ Len(<<>>) = 0 /\ 1 .. 0 = {}
        BY <1>1, <1>6
  <2> HIDE DEF s
  <2>6. Len(Header(r, s).body) = (k + 1) - M - 4
        /\ \A i \in 1 .. (k + 1) - M - 4 : Header(r, s).body[i] = Byte(payload[i])
        BY <2>4, <2>5
  <2>7. Heard(Header(r, s), k + 1)
        BY <2>1, <2>4, <2>5, <2>6, HeardPayload DEF HeaderLen
  <2> QED
      BY <2>7, <1>2 DEF s
<1> QED
    BY <1>1, <1>5, <1>6

LEMMA NextInPayload ==
    ASSUME payload \in Payloads, NEW r, Shape(r), NEW k \in M + 4 .. M + 3 + N, Heard(r, k)
    PROVE  Heard(Payload(r, Sent[k + 1]), k + 1) /\ r.state = "payload"
<1> DEFINE s == Sent[k + 1]
           body == Append(r.body, s)
           n == k - M - 3
<1>1. M \in Nat /\ M > 0 /\ N \in Nat /\ N > 0 /\ payload \in Seq(Nat) /\ n \in 1 .. N
      BY SentIs
<1>2. /\ r.state = "payload" /\ Len(r.head) = 4 /\ \A i \in 1 .. 4 : r.head[i] = Sent[M + i]
      /\ Len(r.body) = k - M - 4 /\ \A i \in 1 .. k - M - 4 : r.body[i] = Byte(payload[i])
      BY DEF Heard, HeaderLen
<1>3. r \in Receivers
      BY DEF Shape
<1>4. Len(body) = n /\ \A i \in 1 .. n : body[i] = Byte(payload[i])
  <2>1. r.body \in Seq(Symbols)
        BY <1>3 DEF Receivers
  <2>2. Len(body) = Len(r.body) + 1 /\ \A i \in 1 .. Len(r.body) : body[i] = r.body[i]
        BY <2>1
  <2>3. body[Len(r.body) + 1] = s
        BY <2>1
  <2>4. s = Byte(payload[n])
    <3>1. k + 1 = M + 4 + n
          BY <1>1
    <3> QED
        BY <3>1, <1>1, SentIs
  <2>5. Len(r.body) = n - 1
        BY <1>1, <1>2
  <2> HIDE DEF body, s, n
  <2>6. ASSUME NEW i \in 1 .. n
        PROVE  body[i] = Byte(payload[i])
    <3>1. CASE i = n
      <4>1. Len(r.body) + 1 = n
            BY <2>5, <1>1
      <4> QED
          BY <4>1, <3>1, <2>3, <2>4
    <3>2. CASE i # n
      <4>1. i \in 1 .. Len(r.body)
            BY <3>2, <2>5, <1>1
      <4>2. r.body[i] = Byte(payload[i])
            BY <4>1, <1>2 DEF n
      <4> QED
          BY <4>1, <4>2, <2>2
    <3> QED
        BY <3>1, <3>2
  <2>7. Len(body) = n
        BY <2>2, <2>5, <1>1
  <2> QED
      BY <2>6, <2>7
<1>5. r.head[3] = Byte(N) /\ r.head[4] = Digest(payload)
  <2>1. 3 \in 1 .. 4 /\ 4 \in 1 .. 4
        OBVIOUS
  <2> QED
      BY <2>1, <1>2, SentIs, Zenon
<1> HIDE DEF body
<1>6. CASE n < N
  <2>1. Byte(Len(body)) # r.head[3]
    <3>1. Byte(n) # Byte(N)
          BY <1>1, <1>6 DEF Byte
    <3> QED
        BY <3>1, <1>4, <1>5
  <2>2. /\ Payload(r, s).state = "payload" /\ Payload(r, s).head = r.head /\ Payload(r, s).body = body
        BY <1>2, <1>3, <2>1 DEF Payload, body, Receivers
  <2>3. k + 1 \in M + 4 .. M + 3 + N /\ (k + 1) - M - 4 = n
        BY <1>1, <1>6
  <2> HIDE DEF s
  <2>4. Len(Payload(r, s).body) = (k + 1) - M - 4
        /\ \A i \in 1 .. (k + 1) - M - 4 : Payload(r, s).body[i] = Byte(payload[i])
        BY <2>2, <2>3, <1>4
  <2>5. Heard(Payload(r, s), k + 1)
        BY <1>2, <2>2, <2>3, <2>4, HeardPayload DEF HeaderLen
  <2> QED
      BY <2>5, <1>2 DEF s
<1>7. CASE n = N
  <2>1. Byte(Len(body)) = r.head[3]
        BY <1>4, <1>5, <1>7
  <2>2. [i \in 1 .. Len(body) |-> body[i][1]] = payload
    <3>1. \A i \in 1 .. N : body[i][1] = payload[i]
          BY <1>4, <1>7 DEF Byte
    <3>2. payload = [i \in 1 .. N |-> payload[i]]
          BY <1>1 DEF N
    <3>3. Len(body) = N
          BY <1>4, <1>7
    <3> QED
        BY <3>1, <3>2, <3>3
  <2>3. Intact(r.head, body)
        BY <2>2, <1>5 DEF Intact
  <2>4. Payload(r, s).state = "ready"
        BY <1>3, <2>1, <2>3 DEF Payload, body, Receivers
  <2>5. k + 1 = M + 4 + N /\ ~(k + 1 \in 1 .. M - 1) /\ ~(k + 1 \in M .. M + 3) /\ ~(k + 1 \in M + 4 .. M + 3 + N)
        BY <1>1, <1>7
  <2> QED
      BY <1>2, <2>4, <2>5 DEF Heard
<1> QED
    BY <1>1, <1>6, <1>7

LEMMA NextHeard ==
    ASSUME payload \in Payloads, NEW r, Shape(r), ~Expired(r), r.state # "ready",
           NEW k \in 1 .. M + 4 + N, Heard(r, k)
    PROVE  k < M + 4 + N /\ Heard(Fed(r, Sent[k + 1]), k + 1)
<1>1. Checked(r) = r
      BY DEF Checked
<1>2. M \in Nat /\ M > 0 /\ N \in Nat /\ N > 0
      BY SentIs
<1>3. CASE k \in 1 .. M - 1
  <2>1. Heard(Scan(r, Sent[k + 1]), k + 1) /\ r.state = "scan"
        BY <1>3, NextInMagic
  <2>2. Fed(r, Sent[k + 1]) = Scan(r, Sent[k + 1])
        BY <2>1, <1>1 DEF Fed
  <2> QED
      BY <2>1, <2>2, <1>2, <1>3
<1>4. CASE k \in M .. M + 3
  <2>1. Heard(Header(r, Sent[k + 1]), k + 1) /\ r.state = "header"
        BY <1>4, NextInHeader
  <2>2. Fed(r, Sent[k + 1]) = Header(r, Sent[k + 1])
        BY <2>1, <1>1 DEF Fed
  <2> QED
      BY <2>1, <2>2, <1>2, <1>4
<1>5. CASE k \in M + 4 .. M + 3 + N
  <2>1. Heard(Payload(r, Sent[k + 1]), k + 1) /\ r.state = "payload"
        BY <1>5, NextInPayload
  <2>2. Fed(r, Sent[k + 1]) = Payload(r, Sent[k + 1])
        BY <2>1, <1>1 DEF Fed
  <2> QED
      BY <2>1, <2>2, <1>2, <1>5
<1>6. CASE k = M + 4 + N
      BY <1>6 DEF Heard
<1> QED
    BY <1>2, <1>3, <1>4, <1>5, <1>6
-----------------------------------------------------------------------------
(* The invariant.                                                          *)

\* A symbol on the way, with the place it was sent from or none.
Marked == {<<s, 0>> : s \in Symbols} \cup {<<Sent[i], i>> : i \in 1 .. Len(Sent)}

RxInv ==
    /\ payload \in Payloads
    /\ Shape(rx)
    /\ fifo \in Seq(Marked)
    /\ pos \in 1 .. Len(Sent) + 1
    /\ whole \in 0 .. Len(Sent) /\ (whole > 0 => Heard(rx, whole))
    /\ Delivered

LEMMA MarkedIs ==
    ASSUME payload \in Payloads, NEW m \in Marked
    PROVE  m[1] \in Symbols /\ m[2] \in 0 .. Len(Sent) /\ (m[2] > 0 => m[1] = Sent[m[2]])
<1>1. Len(Sent) \in Nat
      BY SentIs
<1>2. \A i \in 1 .. Len(Sent) : Sent[i] \in Symbols
      BY DEF Symbols
<1> QED
    BY <1>1, <1>2 DEF Marked

LEMMA InitRxInv == RxInit => RxInv
<1> SUFFICES ASSUME RxInit
             PROVE  RxInv
    OBVIOUS
<1> USE DEF RxInit
<1>1. payload \in Payloads
      OBVIOUS
<1>2. Len(Sent) \in Nat
      BY <1>1, SentIs
<1>3. pos \in 1 .. Len(Sent) + 1 /\ whole \in 0 .. Len(Sent) /\ ~(whole > 0)
      BY <1>2
<1>4. fifo \in Seq(Marked) /\ Delivered
      BY DEF Delivered
<1> QED
    BY <1>1, <1>3, <1>4, ScanningShape DEF RxInv

\* Time changes nothing of what was heard.
LEMMA ClockKeeps ==
    ASSUME payload \in Payloads, Shape(rx), Clock
    PROVE  Shape(rx') /\ \A k \in 0 .. Len(Sent) : Heard(rx, k) => Heard(rx', k)
<1>1. Less(rx.byte) \in Nat /\ Less(rx.frame) \in Nat
      BY DEF Shape, Receivers, Less
<1>2. /\ rx' \in Receivers /\ rx'.state = rx.state /\ rx'.magic = rx.magic
      /\ rx'.head = rx.head /\ rx'.body = rx.body
  <2> HIDE DEF Less
  <2> QED
      BY <1>1 DEF Clock, Shape, Receivers
<1> QED
    BY <1>2 DEF Shape, Heard

LEMMA FeedKeeps ==
    ASSUME RxInv, Feed
    PROVE  /\ Shape(rx') /\ fifo' \in Seq(Marked)
           /\ whole' \in 0 .. Len(Sent) /\ (whole' > 0 => Heard(rx', whole'))
<1> USE DEF RxInv
<1> DEFINE m == Head(fifo)
<1>1. m \in Marked /\ fifo' \in Seq(Marked)
      BY DEF Feed
<1>2. m[1] \in Symbols /\ m[2] \in 0 .. Len(Sent) /\ (m[2] > 0 => m[1] = Sent[m[2]])
      BY <1>1, MarkedIs
<1>3. rx' = Fed(rx, m[1]) /\ rx.state # "ready"
      BY DEF Feed
<1>4. whole' = CASE m[2] = 1 -> IF Checked(rx).state = "scan" THEN 1 ELSE 0
                 [] m[2] > 1 -> IF m[2] = whole + 1 /\ ~Expired(rx) THEN m[2] ELSE 0
                 [] OTHER -> 0
      BY DEF Feed
<1> HIDE DEF m
<1>5. Shape(rx')
      BY <1>2, <1>3, FedShape
<1>6. Len(Sent) \in Nat /\ Len(Sent) = M + 4 + N /\ M \in Nat /\ N \in Nat
      BY SentIs
<1>7. CASE m[2] = 1 /\ Checked(rx).state = "scan"
      BY <1>7, <1>1, <1>2, <1>3, <1>4, <1>5, <1>6, FirstHeard
<1>8. CASE m[2] > 1 /\ m[2] = whole + 1 /\ ~Expired(rx)
  <2>1. whole \in 1 .. M + 4 + N /\ Heard(rx, whole)
        BY <1>2, <1>6, <1>8
  <2>2. Heard(Fed(rx, Sent[whole + 1]), whole + 1)
        BY <2>1, <1>3, <1>8, NextHeard
  <2>3. whole' = m[2] /\ m[1] = Sent[whole + 1]
        BY <1>2, <1>4, <1>8
  <2> QED
      BY <2>2, <2>3, <1>1, <1>2, <1>3, <1>5, <1>8
<1>9. CASE ~(m[2] = 1 /\ Checked(rx).state = "scan") /\ ~(m[2] > 1 /\ m[2] = whole + 1 /\ ~Expired(rx))
  <2>1. whole' = 0
        BY <1>2, <1>4, <1>9
  <2> QED
      BY <2>1, <1>1, <1>5, <1>6
<1> QED
    BY <1>7, <1>8, <1>9

\* What passed the digest was framed.
LEMMA TakeDelivers ==
    ASSUME RxInv, Take
    PROVE  taken' = payload
<1> USE DEF RxInv
<1>1. rx.state = "ready" /\ taken' = [i \in 1 .. Len(rx.body) |-> rx.body[i][1]]
      BY DEF Take
<1>2. /\ rx.head \in Seq(Symbols) /\ Len(rx.head) = 4
      /\ rx.body \in Seq(Symbols) /\ rx.body # <<>> /\ Intact(rx.head, rx.body)
      BY <1>1 DEF Shape, Receivers, HeaderLen
<1> DEFINE S == {rx.body[i][1] : i \in 1 .. Len(rx.body)}
<1>3. Len(rx.body) \in Nat /\ Len(rx.body) > 0
      BY <1>2
<1>4. taken' \in Seq(S) /\ taken' # <<>>
  <2>1. \A i \in 1 .. Len(rx.body) : rx.body[i][1] \in S
        OBVIOUS
  <2> HIDE DEF S
  <2>2. taken' \in Seq(S) /\ Len(taken') = Len(rx.body)
        BY <1>1, <1>3, <2>1
  <2> QED
      BY <2>2, <1>3
<1> HIDE DEF S
<1>5. rx.head[4] = Digest(taken')
      BY <1>1, <1>2 DEF Intact
<1>6. rx.head[4] \in Symbols
      BY <1>2
<1> QED
    <2>1. \A w \in Seq(S) : w # <<>> /\ Digest(w) \in Symbols => w = payload
          BY OneDigest
    <2> QED
        BY <2>1, <1>4, <1>5, <1>6

LEMMA StepRxInv == RxInv /\ [RxNext]_rxVars => RxInv'
<1> SUFFICES ASSUME RxInv, [RxNext]_rxVars
             PROVE  RxInv'
    OBVIOUS
<1>1. payload' = payload
      BY DEF RxNext, Feed, Check, Take, Send, Restart, Flaw, Tick, Pause, Line, Clock, rxVars
<1>2. /\ Sent' = Sent /\ N' = N /\ Symbols' = Symbols /\ Marked' = Marked /\ Receivers' = Receivers
      BY <1>1 DEF Sent, N, Symbols, Marked, Receivers
<1>3. /\ Shape(rx)' <=> Shape(rx')
      /\ Heard(rx, whole)' <=> Heard(rx', whole')
      BY <1>1, <1>2 DEF Shape, Heard
<1>4. payload \in Payloads /\ Len(Sent) \in Nat /\ 1 \in 1 .. Len(Sent) + 1
      BY SentIs DEF RxInv
<1> SUFFICES /\ Shape(rx') /\ fifo' \in Seq(Marked) /\ pos' \in 1 .. Len(Sent) + 1
             /\ whole' \in 0 .. Len(Sent) /\ (whole' > 0 => Heard(rx', whole'))
             /\ taken' # <<>> => taken' = payload
    BY <1>1, <1>2, <1>3, <1>4 DEF RxInv, Delivered
<1> USE DEF RxInv, Delivered
<1>5. CASE Feed
      BY <1>5, FeedKeeps DEF Feed
<1>6. CASE Check
  <2>1. rx' = Scanning \/ rx' = rx
        BY <1>6 DEF Check, Checked
  <2> QED
      BY <2>1, <1>4, <1>6, ScanningShape DEF Check
<1>7. CASE Take
  <2>1. taken' = payload
        BY <1>7, TakeDelivers
  <2> QED
      BY <2>1, <1>4, <1>7, ScanningShape DEF Take
<1>8. CASE Send
  <2>1. pos \in 1 .. Len(Sent)
        BY <1>4, <1>8 DEF Send, Sending, Sent
  <2>2. <<Sent[pos], pos>> \in Marked
        BY <2>1 DEF Marked
  <2>3. fifo' = Append(fifo, <<Sent[pos], pos>>)
        BY <1>8 DEF Send, Sent
  <2>4. fifo' \in Seq(Marked)
        BY <2>2, <2>3
  <2> QED
      BY <2>1, <2>4, <1>4, <1>8 DEF Send, Line
<1>9. CASE Restart
      BY <1>4, <1>9 DEF Restart, Again, Line
<1>10. CASE Flaw
  <2>1. rx' = rx /\ taken' = taken /\ whole' = whole
        BY <1>10 DEF Flaw, Line
  <2>2. pos' \in 1 .. Len(Sent) + 1
        BY <1>4, <1>10 DEF Flaw, Sending, Again, Sent
  <2>3. fifo' \in Seq(Marked)
    <3>1. \A x \in Noise : <<x, 0>> \in Marked
          BY DEF Marked, Symbols
    <3>2. fifo' = fifo \/ \E x \in Noise : fifo' = Append(fifo, <<x, 0>>)
          BY <1>10 DEF Flaw
    <3>3. \A m \in Marked : Append(fifo, m) \in Seq(Marked)
          BY DEF RxInv
    <3> QED
        BY <3>1, <3>2, <3>3, Zenon DEF RxInv
  <2> QED
      BY <2>1, <2>2, <2>3
<1>11. CASE Tick \/ Pause
  <2>1. Clock
        BY <1>11 DEF Tick, Pause
  <2>2. Shape(rx') /\ \A k \in 0 .. Len(Sent) : Heard(rx, k) => Heard(rx', k)
        BY <2>1, <1>4, ClockKeeps
  <2> QED
      BY <2>1, <2>2 DEF Clock
<1>12. CASE UNCHANGED rxVars
      BY <1>12 DEF rxVars
<1> QED
    BY <1>5, <1>6, <1>7, <1>8, <1>9, <1>10, <1>11, <1>12 DEF RxNext

\* The automaton, the UART and the count of symbols heard stay what they should
\* be (i2_rx_feed_byte and i2_rx_poll).
THEOREM IngressInvariant == RxSpec => []RxInv
BY InitRxInv, StepRxInv, PTL DEF RxSpec

\* Whatever the line loses, changes or adds, the decoder gets the payload the
\* sender framed: the digest is compared over what was stored
\* (i2_rx_feed_byte and i2_rx_take).
THEOREM FramesDelivered == RxSpec => []Delivered
<1>1. RxInv => Delivered
      BY DEF RxInv
<1> QED
    BY <1>1, IngressInvariant, PTL

\* A frame that arrives whole and in time, and begins in the scan, is accepted
\* at its last symbol (i2_rx_feed_byte).
THEOREM FramesHeard == RxSpec => []FrameHeard
<1>1. RxInv => FrameHeard
  <2> SUFFICES ASSUME RxInv, whole = Len(Sent)
               PROVE  rx.state = "ready"
      BY DEF FrameHeard, Sent
  <2>1. Len(Sent) = M + 4 + N /\ M \in Nat /\ N \in Nat
        BY SentIs DEF RxInv
  <2>2. Heard(rx, M + 4 + N)
        BY <2>1 DEF RxInv
  <2> QED
      BY <2>2 DEF Heard
<1> QED
    BY <1>1, IngressInvariant, PTL

=============================================================================
