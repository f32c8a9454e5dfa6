------------------------------ MODULE UdpTest -------------------------------
(***************************************************************************)
(* udptest.c: run_tx numbers datagrams, run_rx judges from the numbers of  *)
(* those that arrive how many were lost, repeated or late.  The wire       *)
(* loses, repeats and reorders datagrams.  Sequence numbers have a width:  *)
(* they are counted modulo Modulus (2^32), and so is the difference of two *)
(* of them.                                                                *)
(*                                                                         *)
(* A datagram on the wire is its count at the sender; the receiver only    *)
(* ever looks at Seq of it.  The counts also give the truth the counters   *)
(* are compared with: first, last and top.                                 *)
(***************************************************************************)
EXTENDS Integers, Sequences, FiniteSets

CONSTANTS
  Modulus,    (* number of sequence numbers (2^32)                         *)
  MaxSent,    (* bound: datagrams sent                                     *)
  MaxWire,    (* bound: datagrams on the wire                              *)
  MaxArrivals (* bound: arrivals, repeats included                         *)

ASSUME UdpAssumption ==
  /\ Modulus \in Nat \ {0, 1}
  /\ MaxSent \in Nat
  /\ MaxWire \in Nat
  /\ MaxArrivals \in Nat

VARIABLES
  sending,             (* run_tx: "no", "yes" when in its loop, "done"     *)
  sent, sendErrors,    (* its counters                                     *)
  wire,                (* datagrams under way, the next to arrive first    *)
  listening,           (* run_rx, in the same way                          *)
  received, lost, dup, late, maxGap, prevSeq, havePrev,   (* its variables *)
  first, last,         (* counts of the first and of the latest arrival    *)
  got,                 (* counts that arrived                              *)
  lateTruth,           (* arrivals that a younger one had overtaken        *)
  longGap              (* a gap was too long for the width                 *)

txVars == <<sending, sent, sendErrors>>
counters == <<received, lost, dup, late, maxGap, prevSeq, havePrev>>
truth == <<first, last, got, lateTruth, longGap>>
vars == <<txVars, wire, listening, counters, truth>>

Init ==
  /\ sending = "no" /\ sent = 0 /\ sendErrors = 0
  /\ wire = <<>>
  /\ listening = "no"
  /\ received = 0 /\ lost = 0 /\ dup = 0 /\ late = 0 /\ maxGap = 0
  /\ prevSeq = 0 /\ havePrev = FALSE
  /\ first = 0 /\ last = 0 /\ got = {} /\ lateTruth = 0 /\ longGap = FALSE

-----------------------------------------------------------------------------
(* main.  An argument that is no number is refused like one out of range.  *)
port_of(v) == v \in 1..65535
rate_of(v) == v > 0
size_of(v) == v \in 12..4096
seconds_of(v) == v >= 1

(* The edges of the ranges. *)
Arguments == [port : {0, 1, 65535, 65536}, rate : {0, 1},
              size : {11, 12, 4096, 4097}, seconds : {0, 1}]

Tx(a) == port_of(a.port) /\ rate_of(a.rate) /\ size_of(a.size)
         /\ seconds_of(a.seconds)
Rx(a) == port_of(a.port) /\ seconds_of(a.seconds)

(* run_tx up to its loop, and when it is not reached: the arguments are    *)
(* refused, or there is no socket, address or connection.                  *)
StartSending(a) ==
  /\ sending = "no"
  /\ Tx(a)
  /\ sending' = "yes"
  /\ UNCHANGED <<sent, sendErrors, wire, listening, counters, truth>>

NoSender ==
  /\ sending = "no"
  /\ sending' = "done"
  /\ UNCHANGED <<sent, sendErrors, wire, listening, counters, truth>>

(* run_tx: the number of a datagram is the low part of the count. *)
Seq32(n) == n % Modulus

Send ==
  /\ sending = "yes"
  /\ sent < MaxSent
  /\ Len(wire) < MaxWire
  /\ wire' = Append(wire, sent)
  /\ sent' = sent + 1
  /\ UNCHANGED <<sending, sendErrors, listening, counters, truth>>

(* A send that fails uses its number up all the same. *)
SendFails ==
  /\ sending = "yes"
  /\ sent < MaxSent
  /\ sendErrors' = sendErrors + 1
  /\ sent' = sent + 1
  /\ UNCHANGED <<sending, wire, listening, counters, truth>>

StopSending ==
  /\ sending = "yes"
  /\ sending' = "done"
  /\ UNCHANGED <<sent, sendErrors, wire, listening, counters, truth>>

-----------------------------------------------------------------------------
(* The wire. *)
Lose ==
  /\ wire # <<>>
  /\ wire' = Tail(wire)
  /\ UNCHANGED <<txVars, listening, counters, truth>>

Duplicate ==
  /\ wire # <<>>
  /\ Len(wire) < MaxWire
  /\ received + Len(wire) < MaxArrivals
  /\ wire' = <<Head(wire)>> \o wire
  /\ UNCHANGED <<txVars, listening, counters, truth>>

Overtake ==
  /\ Len(wire) > 1
  /\ wire' = <<wire[2], wire[1]>> \o SubSeq(wire, 3, Len(wire))
  /\ UNCHANGED <<txVars, listening, counters, truth>>

-----------------------------------------------------------------------------
(* run_rx.  It may start at any time; what arrives before is not seen. *)
Listen(a) ==
  /\ listening = "no"
  /\ Rx(a)
  /\ listening' = "yes"
  /\ UNCHANGED <<txVars, wire, counters, truth>>

NoReceiver ==
  /\ listening = "no"
  /\ listening' = "done"
  /\ UNCHANGED <<txVars, wire, counters, truth>>

(* Mutant: the difference is not brought back to 32 bits. *)
M_Delta(seq) == IF seq >= prevSeq THEN seq - prevSeq ELSE 0

(* uint32_t delta = seq - prev_seq. *)
Delta(seq) == (seq - prevSeq) % Modulus

Lost(delta) == lost + (delta - 1)

(* Mutant: the longest gap is the latest one. *)
M_Longest(gap) == gap

Longest(gap) == IF gap > maxGap THEN gap ELSE maxGap

(* delta is unsigned: what is not 0 is greater, so the branch that counts  *)
(* late arrivals is never taken.                                           *)
Judge(seq) ==
  LET delta == Delta(seq) IN
    IF ~havePrev THEN UNCHANGED <<dup, lost, maxGap, late>>
    ELSE IF delta = 0 THEN dup' = dup + 1 /\ UNCHANGED <<lost, maxGap, late>>
    ELSE IF delta > 0 THEN /\ lost' = Lost(delta)
                           /\ maxGap' = Longest(delta - 1)
                           /\ UNCHANGED <<dup, late>>
    ELSE late' = late + 1 /\ UNCHANGED <<dup, lost, maxGap>>

Receive ==
  /\ listening = "yes"
  /\ wire # <<>>
  /\ wire' = Tail(wire)
  /\ received' = received + 1
  /\ Judge(Seq32(Head(wire)))
  /\ prevSeq' = Seq32(Head(wire))
  /\ havePrev' = TRUE
  /\ first' = IF havePrev THEN first ELSE Head(wire)
  /\ last' = Head(wire)
  /\ got' = got \cup {Head(wire)}
  /\ lateTruth' = lateTruth + (IF \E n \in got : n > Head(wire) THEN 1 ELSE 0)
  /\ longGap' = (longGap \/ (havePrev /\ Head(wire) - last >= Modulus))
  /\ UNCHANGED <<txVars, listening>>

(* The time is up, or recvfrom fails. *)
StopListening ==
  /\ listening = "yes"
  /\ listening' = "done"
  /\ UNCHANGED <<txVars, wire, counters, truth>>

Next == \/ \E a \in Arguments : StartSending(a) \/ Listen(a)
        \/ NoSender \/ NoReceiver
        \/ Send \/ SendFails \/ StopSending
        \/ Lose \/ Duplicate \/ Overtake
        \/ Receive \/ StopListening

Spec == Init /\ [][Next]_vars

-----------------------------------------------------------------------------
(* Type invariant of sender, wire and receiver. *)
TypeOK ==
  /\ sending \in {"no", "yes", "done"}
  /\ sent \in 0..MaxSent /\ sendErrors \in 0..sent
  /\ wire \in Seq(0..MaxSent) /\ Len(wire) <= MaxWire
  /\ listening \in {"no", "yes", "done"}
  /\ {received, lost, dup, late} \subseteq Nat
  /\ maxGap \in 0..(Modulus - 1)
  /\ prevSeq \in 0..(Modulus - 1)
  /\ havePrev \in BOOLEAN /\ longGap \in BOOLEAN
  /\ got \subseteq 0..MaxSent

(* What the receiver reports adds up to the part of the stream it has      *)
(* seen, up to whole turns of the sequence number: lost datagrams, failed  *)
(* sends, repeats, a late start, gaps longer than the width and overtaking *)
(* change no total by anything else.                                       *)
AddsUp ==
  havePrev => (received + lost - dup - (last - first + 1)) % Modulus = 0

(* maxgap is the longest run of datagrams that did not arrive. *)
LongestGapIsTrue ==
  /\ \A a, b \in first..last :
       (a <= b /\ a..b \cap got = {}) => b - a + 1 <= maxGap
  /\ maxGap > 0 => \E a \in first..last :
                     (a..(a + maxGap - 1)) \cap got = {}
                     /\ a + maxGap - 1 < last

(* As long as nothing arrived out of order and no gap was longer than the  *)
(* width, the report is the truth: lost is the number of datagrams between *)
(* the first and the latest arrival that did not arrive, dup the number    *)
(* that arrived again, late is 0 and the longest gap is the longest gap.   *)
ReportIsTrue ==
  havePrev /\ ~longGap /\ lateTruth = 0 =>
    /\ lost = Cardinality((first..last) \ got)
    /\ dup = received - Cardinality(got)
    /\ late = 0
    /\ LongestGapIsTrue

(* udptest measures late (out-of-order) arrivals: an arrival that a        *)
(* younger one has overtaken is counted as late.                           *)
LateIsCounted == late = lateTruth

=============================================================================
