---------------------------- MODULE UdpTestProofs ---------------------------
(***************************************************************************)
(* Proofs about UdpTest for every width of the sequence numbers, a stream  *)
(* of any length and a wire of any size.                                   *)
(***************************************************************************)
EXTENDS UdpTest, FiniteSetTheorems, SequenceTheorems, TLAPS

(* The counts the truth is kept in, and run_rx before its first datagram.  *)
CountInv ==
  /\ first \in Nat /\ last \in Nat /\ lateTruth \in Nat
  /\ late = 0
  /\ ~havePrev => /\ received = 0 /\ lost = 0 /\ dup = 0 /\ maxGap = 0
                  /\ got = {} /\ lateTruth = 0
  /\ havePrev => prevSeq = Seq32(last) /\ first \in got /\ last \in got

(* In order and without too long a gap, all arrivals are between the first *)
(* and the latest.                                                         *)
InOrder == havePrev /\ ~longGap /\ lateTruth = 0 => got \subseteq first..last

(* The inductive invariants: for the totals, and for the report. *)
IInv == TypeOK /\ CountInv /\ AddsUp
RInv == IInv /\ InOrder /\ ReportIsTrue

-----------------------------------------------------------------------------
(* Arithmetic of the sequence numbers. *)
LEMMA ModulusType == Modulus \in Nat /\ Modulus > 1
  BY UdpAssumption

LEMMA DivMod ==
  ASSUME NEW a \in Int, NEW m \in Nat, m > 1
  PROVE  /\ a \div m \in Int
         /\ a % m \in 0..(m - 1)
         /\ a = (m * (a \div m)) + (a % m)
  OBVIOUS

(* The only multiple of m between -m and m is 0. *)
LEMMA SmallMultiple ==
  ASSUME NEW m \in Nat, m > 1, NEW q \in Int, -m < m * q, m * q < m
  PROVE  q = 0 /\ m * q = 0
<1>1. CASE q = 0
  BY <1>1
<1>2. CASE q >= 1
  <2>1. m * q >= m
    BY <1>2
  <2> QED BY <2>1
<1>3. CASE q <= -1
  <2>1. m * q <= -m
    BY <1>3
  <2> QED BY <2>1
<1> QED BY <1>1, <1>2, <1>3

(* A multiple leaves nothing, and nothing else does. *)
LEMMA Multiple ==
  ASSUME NEW m \in Nat, m > 1, NEW a \in Int
  PROVE  a % m = 0 <=> \E q \in Int : a = m * q
<1> DEFINE p == a \div m
           r == a % m
<1>1. p \in Int /\ r \in 0..(m - 1) /\ a = (m * p) + r
  BY DivMod
<1> HIDE DEF p, r
<1>2. r = 0 => \E q \in Int : a = m * q
  BY <1>1
<1>3. ASSUME NEW q \in Int, a = m * q PROVE r = 0
  <2>1. m * (q - p) = (m * q) - (m * p)
    BY <1>1, <1>3
  <2>2. m * (q - p) = r
    BY <1>1, <1>3, <2>1
  <2>3. m * (q - p) = 0
    BY <1>1, <2>2, SmallMultiple
  <2> QED BY <2>2, <2>3
<1> QED BY <1>2, <1>3 DEF r

(* Multiples add up. *)
LEMMA AddMultiple ==
  ASSUME NEW m \in Nat, m > 1, NEW a \in Int, a % m = 0, NEW q \in Int
  PROVE  (a + (m * q)) % m = 0
<1>1. PICK p \in Int : a = m * p
  BY Multiple
<1>2. m * (p + q) = (m * p) + (m * q) /\ p + q \in Int
  OBVIOUS
<1>3. a + (m * q) = m * (p + q) /\ a + (m * q) \in Int
  BY <1>1, <1>2
<1> QED BY <1>2, <1>3, Multiple

(* The difference of two sequence numbers, brought back to the width, is   *)
(* that of the counts up to whole turns, and exact below one turn.         *)
LEMMA DeltaTurns ==
  ASSUME NEW m \in Nat, m > 1, NEW a \in Nat, NEW b \in Nat,
         NEW d, d = ((a % m) - (b % m)) % m
  PROVE  /\ d \in 0..(m - 1)
         /\ \E q \in Int : d - (a - b) = m * q
         /\ b <= a /\ a - b < m => d = a - b
<1> DEFINE pa == a \div m
           pb == b \div m
           ra == a % m
           rb == b % m
           pd == (ra - rb) \div m
           q == pb - pa - pd
<1>1. pa \in Int /\ ra \in 0..(m - 1) /\ a = (m * pa) + ra
  BY DivMod
<1>2. pb \in Int /\ rb \in 0..(m - 1) /\ b = (m * pb) + rb
  BY DivMod
<1> HIDE DEF pa, pb
<1>3. pd \in Int /\ d \in 0..(m - 1) /\ ra - rb = (m * pd) + d
  <2>1. ra - rb \in Int
    BY <1>1, <1>2
  <2> QED BY <2>1, DivMod
<1> HIDE DEF pd, ra, rb
<1>4. m * q = (m * pb) - (m * pa) - (m * pd)
  BY <1>1, <1>2, <1>3
<1>5. q \in Int /\ d - (a - b) = m * q
  BY <1>1, <1>2, <1>3, <1>4
<1> HIDE DEF q
<1>6. ASSUME b <= a, a - b < m PROVE d = a - b
  <2>1. -m < m * q /\ m * q < m
    BY <1>3, <1>5, <1>6
  <2>2. m * q = 0
    BY <1>5, <2>1, SmallMultiple
  <2> QED BY <1>3, <1>5, <2>2
<1> QED BY <1>3, <1>5, <1>6

-----------------------------------------------------------------------------
(* The arrival of n: what every case needs. *)
LEMMA Arrival ==
  ASSUME IInv, Receive
  PROVE  \E n \in 0..MaxSent :
           /\ n = Head(wire) /\ n \in Nat
           /\ prevSeq' = n % Modulus /\ n % Modulus \in 0..(Modulus - 1)
           /\ last' = n /\ got' = got \cup {n} /\ havePrev' = TRUE
           /\ first' = (IF havePrev THEN first ELSE n)
           /\ received' = received + 1
           /\ lateTruth' = lateTruth + (IF \E k \in got : k > n THEN 1 ELSE 0)
           /\ longGap' = (longGap \/ (havePrev /\ n - last >= Modulus))
           /\ Judge(Seq32(n))
           /\ wire' \in Seq(0..MaxSent) /\ Len(wire') <= MaxWire
<1>1. wire \in Seq(0..MaxSent) /\ wire # <<>> /\ Len(wire) <= MaxWire
      /\ MaxSent \in Nat /\ MaxWire \in Nat
  BY UdpAssumption DEF IInv, TypeOK, Receive
<1>2. Head(wire) \in 0..MaxSent /\ Tail(wire) \in Seq(0..MaxSent)
      /\ Len(Tail(wire)) <= MaxWire
  BY <1>1
<1>3. PICK n \in 0..MaxSent : n = Head(wire)
  BY <1>2
<1>4. n \in Nat /\ n % Modulus \in 0..(Modulus - 1)
  <2>1. n \in Nat
    BY <1>1
  <2> QED BY <2>1, ModulusType, DivMod
<1>5. /\ prevSeq' = n % Modulus
      /\ last' = n /\ got' = got \cup {n} /\ havePrev' = TRUE
      /\ first' = (IF havePrev THEN first ELSE n)
      /\ received' = received + 1
      /\ lateTruth' = lateTruth + (IF \E k \in got : k > n THEN 1 ELSE 0)
      /\ longGap' = (longGap \/ (havePrev /\ n - last >= Modulus))
      /\ Judge(Seq32(n))
      /\ wire' = Tail(wire)
  BY <1>3 DEF Receive, Seq32
<1> QED BY <1>2, <1>3, <1>4, <1>5

(* What Judge does to the counters. *)
LEMMA Judged ==
  ASSUME IInv, NEW n \in Nat, Judge(Seq32(n)), NEW d, d = Delta(Seq32(n))
  PROVE  /\ late' = late
         /\ ~havePrev => dup' = dup /\ lost' = lost /\ maxGap' = maxGap
         /\ havePrev /\ d = 0 => dup' = dup + 1 /\ lost' = lost /\ maxGap' = maxGap
         /\ havePrev /\ d # 0 => /\ dup' = dup /\ lost' = lost + (d - 1)
                                 /\ maxGap' = Longest(d - 1) /\ d > 0
         /\ havePrev => /\ d \in 0..(Modulus - 1)
                        /\ \E q \in Int : d - (n - last) = Modulus * q
                        /\ last <= n /\ n - last < Modulus => d = n - last
<1>1. ASSUME havePrev
      PROVE  /\ d \in 0..(Modulus - 1)
             /\ \E q \in Int : d - (n - last) = Modulus * q
             /\ last <= n /\ n - last < Modulus => d = n - last
  <2>1. last \in Nat /\ prevSeq = last % Modulus
    BY <1>1 DEF IInv, CountInv, Seq32
  <2>2. d = ((n % Modulus) - (last % Modulus)) % Modulus
    BY <2>1 DEF Delta, Seq32
  <2> QED BY <2>1, <2>2, ModulusType, DeltaTurns
<1>2. CASE ~havePrev
  BY <1>2 DEF Judge
<1>3. CASE havePrev
  <2>1. d # 0 => d > 0
    BY <1>1, <1>3, ModulusType
  <2>2. CASE d = 0
    BY <1>1, <1>3, <2>2 DEF Judge
  <2>3. CASE d # 0
    BY <1>1, <1>3, <2>1, <2>3 DEF Judge, Lost
  <2> QED BY <1>1, <1>3, <2>2, <2>3
<1> QED BY <1>2, <1>3

LEMMA ReceiveInv ==
  ASSUME IInv, Receive
  PROVE  IInv'
<1>0. PICK n \in 0..MaxSent :
           /\ n = Head(wire) /\ n \in Nat
           /\ prevSeq' = n % Modulus /\ n % Modulus \in 0..(Modulus - 1)
           /\ last' = n /\ got' = got \cup {n} /\ havePrev' = TRUE
           /\ first' = (IF havePrev THEN first ELSE n)
           /\ received' = received + 1
           /\ lateTruth' = lateTruth + (IF \E k \in got : k > n THEN 1 ELSE 0)
           /\ longGap' = (longGap \/ (havePrev /\ n - last >= Modulus))
           /\ Judge(Seq32(n))
           /\ wire' \in Seq(0..MaxSent) /\ Len(wire') <= MaxWire
  BY Arrival
<1> DEFINE d == Delta(Seq32(n))
           sum == received + lost - dup - (last - first + 1)
<1>1. /\ received \in Nat /\ lost \in Nat /\ dup \in Nat /\ late \in Nat
      /\ maxGap \in 0..(Modulus - 1) /\ havePrev \in BOOLEAN
      /\ first \in Nat /\ last \in Nat /\ lateTruth \in Nat
      /\ Modulus \in Nat /\ Modulus > 1
  BY ModulusType DEF IInv, TypeOK, CountInv
<1>2. /\ late' = late
      /\ ~havePrev => dup' = dup /\ lost' = lost /\ maxGap' = maxGap
      /\ havePrev /\ d = 0 => dup' = dup + 1 /\ lost' = lost /\ maxGap' = maxGap
      /\ havePrev /\ d # 0 => /\ dup' = dup /\ lost' = lost + (d - 1)
                              /\ maxGap' = Longest(d - 1) /\ d > 0
      /\ havePrev => d \in 0..(Modulus - 1)
  BY <1>0, Judged
<1>2q. havePrev => \E q \in Int : d - (n - last) = Modulus * q
  BY <1>0, Judged
<1> HIDE DEF d
<1>3. received' \in Nat /\ lost' \in Nat /\ dup' \in Nat /\ late' \in Nat
      /\ maxGap' \in 0..(Modulus - 1)
  <2>1. CASE ~havePrev
    BY <1>0, <1>1, <1>2, <2>1
  <2>2. CASE havePrev /\ d = 0
    BY <1>0, <1>1, <1>2, <2>2
  <2>3. CASE havePrev /\ d # 0
    <3>1. d \in 0..(Modulus - 1) /\ d > 0 /\ dup' = dup
          /\ lost' = lost + (d - 1) /\ maxGap' = Longest(d - 1)
          /\ late' = late /\ received' = received + 1
      BY <1>0, <1>2, <2>3
    <3>2. Longest(d - 1) \in {d - 1, maxGap}
      BY DEF Longest
    <3> QED BY <1>1, <3>1, <3>2
  <2> QED BY <2>1, <2>2, <2>3
<1>4. TypeOK'
  <2>1. havePrev' \in BOOLEAN /\ longGap' \in BOOLEAN
    <3>1. longGap' \in BOOLEAN
      BY <1>0, Zenon
    <3> QED BY <1>0, <3>1
  <2>2. got' \subseteq 0..MaxSent
    BY <1>0 DEF IInv, TypeOK
  <2>3. UNCHANGED <<sending, sent, sendErrors, listening>>
    BY DEF Receive, txVars
  <2> QED BY <1>0, <1>3, <2>1, <2>2, <2>3 DEF IInv, TypeOK
<1>5. CountInv'
  <2>1. lateTruth' \in Nat /\ first' \in Nat /\ last' \in Nat
    BY <1>0, <1>1
  <2>2. first' \in got' /\ last' \in got'
    BY <1>0 DEF IInv, CountInv
  <2> QED BY <1>0, <1>2, <2>1, <2>2 DEF IInv, CountInv, Seq32
<1>6. AddsUp'
  <2> SUFFICES (received' + lost' - dup' - (last' - first' + 1)) % Modulus = 0
    BY DEF AddsUp
  <2>1. CASE ~havePrev
    <3>1. received' = 1 /\ lost' = 0 /\ dup' = 0 /\ first' = n /\ last' = n
      BY <1>0, <1>2, <2>1 DEF IInv, CountInv
    <3>2. received' + lost' - dup' - (last' - first' + 1) = 0
      BY <1>0, <3>1
    <3>3. 0 = Modulus * 0
      BY <1>1
    <3>4. 0 % Modulus = 0
      BY <1>1, <3>3, Multiple
    <3> QED BY <3>2, <3>4
  <2>2. CASE havePrev
    <3>1. PICK q \in Int : d - (n - last) = Modulus * q
      BY <1>2q, <2>2
    <3>2. sum % Modulus = 0 /\ sum \in Int
      BY <1>1, <2>2 DEF IInv, AddsUp
    <3>3. received' + lost' - dup' - (last' - first' + 1)
            = sum + (d - (n - last))
      <4>1. d \in Int /\ received' = received + 1 /\ last' = n /\ first' = first
        BY <1>0, <1>1, <1>2, <2>2
      <4>2. lost' - dup' = lost - dup + (d - 1)
        <5>1. CASE d = 0
          <6>1. lost' = lost /\ dup' = dup + 1
            BY <1>2, <2>2, <5>1
          <6> QED BY <1>1, <5>1, <6>1
        <5>2. CASE d # 0
          <6>1. lost' = lost + (d - 1) /\ dup' = dup
            BY <1>2, <2>2, <5>2
          <6> QED BY <1>1, <4>1, <6>1
        <5> QED BY <5>1, <5>2
      <4>3. /\ received \in Nat /\ lost \in Nat /\ dup \in Nat /\ lost' \in Nat
            /\ dup' \in Nat /\ d \in Int /\ n \in Nat /\ first \in Nat
            /\ last \in Nat
        BY <1>0, <1>1, <1>3, <4>1
      <4>4. PICK l \in Nat, u \in Nat, e \in Int :
              l = lost' /\ u = dup' /\ e = d
        BY <4>3
      <4>5. l - u = lost - dup + (e - 1)
        BY <4>2, <4>4
      <4>6. (received + 1) + l - u - (n - first + 1)
              = received + lost - dup - (last - first + 1) + (e - (n - last))
        BY <4>3, <4>5
      <4> QED BY <4>1, <4>4, <4>6
    <3> HIDE DEF sum
    <3>4. (sum + (Modulus * q)) % Modulus = 0
      BY <1>1, <3>2, AddMultiple
    <3> QED BY <3>1, <3>3, <3>4
  <2> QED BY <1>1, <2>1, <2>2
<1> QED BY <1>4, <1>5, <1>6 DEF IInv

-----------------------------------------------------------------------------
(* Every other step leaves what run_rx counts alone. *)
LEMMA OtherSteps ==
  ASSUME IInv, [Next]_vars, ~Receive
  PROVE  TypeOK' /\ UNCHANGED <<counters, truth>>
<1> USE UdpAssumption
<1>1. TypeOK
  BY DEF IInv
<1>2. ASSUME NEW a \in Arguments, StartSending(a) \/ Listen(a)
      PROVE  TypeOK' /\ UNCHANGED <<counters, truth>>
  BY <1>1, <1>2 DEF StartSending, Listen, TypeOK, counters, truth, txVars
<1>3. CASE NoSender \/ NoReceiver \/ StopSending \/ StopListening
  BY <1>1, <1>3 DEF NoSender, NoReceiver, StopSending, StopListening, TypeOK,
     counters, truth, txVars
<1>4. CASE Send
  <2>1. wire' \in Seq(0..MaxSent) /\ Len(wire') <= MaxWire
        /\ sent' \in 0..MaxSent /\ sendErrors' \in 0..sent'
    BY <1>1, <1>4 DEF Send, TypeOK
  <2> QED BY <1>1, <1>4, <2>1 DEF Send, TypeOK, counters, truth
<1>5. CASE SendFails
  <2>1. sent' \in 0..MaxSent /\ sendErrors' \in 0..sent'
    BY <1>1, <1>5 DEF SendFails, TypeOK
  <2> QED BY <1>1, <1>5, <2>1 DEF SendFails, TypeOK, counters, truth
<1>6. CASE Lose
  <2>1. wire' \in Seq(0..MaxSent) /\ Len(wire') <= MaxWire
    BY <1>1, <1>6 DEF Lose, TypeOK
  <2> QED BY <1>1, <1>6, <2>1 DEF Lose, TypeOK, counters, truth, txVars
<1>7. CASE Duplicate
  <2>1. wire' \in Seq(0..MaxSent) /\ Len(wire') <= MaxWire
    BY <1>1, <1>7 DEF Duplicate, TypeOK
  <2> QED BY <1>1, <1>7, <2>1 DEF Duplicate, TypeOK, counters, truth, txVars
<1>8. CASE Overtake
  <2> DEFINE two == <<wire[2], wire[1]>>
             rest == SubSeq(wire, 3, Len(wire))
  <2>1. wire \in Seq(0..MaxSent) /\ Len(wire) \in Nat /\ Len(wire) > 1
        /\ Len(wire) <= MaxWire
    BY <1>1, <1>8 DEF Overtake, TypeOK
  <2>2. two \in Seq(0..MaxSent) /\ Len(two) = 2
    BY <2>1
  <2>3. rest \in Seq(0..MaxSent) /\ Len(rest) = Len(wire) - 2
    <3>1. \A i \in 3..Len(wire) : wire[i] \in 0..MaxSent
      BY <2>1
    <3>2. rest \in Seq(0..MaxSent)
          /\ Len(rest) = IF 3 <= Len(wire) THEN Len(wire) - 3 + 1 ELSE 0
      BY <2>1, <3>1, SubSeqProperties
    <3>3. PICK k \in Nat : k = Len(wire) /\ k > 1
      BY <2>1
    <3>4. (IF 3 <= k THEN k - 3 + 1 ELSE 0) = k - 2
      BY <3>3
    <3> HIDE DEF rest
    <3> QED BY <3>2, <3>3, <3>4
  <2>4. wire' = two \o rest
    BY <1>8 DEF Overtake
  <2> HIDE DEF two, rest
  <2>5. wire' \in Seq(0..MaxSent) /\ Len(wire') <= MaxWire
    <3>1. two \o rest \in Seq(0..MaxSent)
          /\ Len(two \o rest) = Len(two) + Len(rest)
      BY <2>2, <2>3, ConcatProperties
    <3> QED BY <2>1, <2>2, <2>3, <2>4, <3>1
  <2> QED BY <1>1, <1>8, <2>5 DEF Overtake, TypeOK, counters, truth, txVars
<1>9. CASE UNCHANGED vars
  BY <1>1, <1>9 DEF vars, txVars, TypeOK, counters, truth
<1> QED
  BY <1>2, <1>3, <1>4, <1>5, <1>6, <1>7, <1>8, <1>9 DEF Next

LEMMA InitInv == Init => RInv
<1> SUFFICES ASSUME Init PROVE RInv
  OBVIOUS
<1>1. TypeOK
  <2>1. <<>> \in Seq(0..MaxSent) /\ Len(<<>>) = 0
    OBVIOUS
  <2>2. 0 \in 0..MaxSent /\ 0 \in 0..(Modulus - 1) /\ 0 \in 0..0
        /\ {} \subseteq 0..MaxSent /\ 0 <= MaxWire /\ 0 \in Nat
    BY UdpAssumption
  <2> QED BY <2>1, <2>2 DEF Init, TypeOK
<1>2. CountInv
  BY DEF Init, CountInv
<1>3. ~havePrev
  BY DEF Init
<1> QED BY <1>1, <1>2, <1>3 DEF RInv, IInv, AddsUp, InOrder, ReportIsTrue

LEMMA NextInv == IInv /\ [Next]_vars => IInv'
<1> SUFFICES ASSUME IInv, [Next]_vars PROVE IInv'
  OBVIOUS
<1>1. CASE Receive
  BY <1>1, ReceiveInv
<1>2. CASE ~Receive
  <2>1. TypeOK' /\ UNCHANGED <<counters, truth>>
    BY <1>2, OtherSteps
  <2>2. CountInv' /\ AddsUp'
    BY <2>1 DEF IInv, CountInv, AddsUp, counters, truth
  <2> QED BY <2>1, <2>2 DEF IInv
<1> QED BY <1>1, <1>2

(* The invariant the totals rest on is inductive. *)
THEOREM Inductive == Spec => []IInv
<1>1. Init => IInv
  BY InitInv DEF RInv
<1> QED BY <1>1, NextInv, PTL DEF Spec

(* Every variable of sender, wire and receiver keeps its range. *)
THEOREM TypeCorrect == Spec => []TypeOK
<1>1. IInv => TypeOK
  BY DEF IInv
<1> QED BY <1>1, Inductive, PTL

(* What run_rx reports adds up to the part of the stream it has seen, up   *)
(* to whole turns of the sequence number, whatever the wire does.          *)
THEOREM AddsUpHolds == Spec => []AddsUp
<1>1. IInv => AddsUp
  BY DEF IInv
<1> QED BY <1>1, Inductive, PTL

-----------------------------------------------------------------------------
(* LongestGapIsTrue of a stream from f to l of which G arrived. *)
Gaps(f, l, G, m) ==
  /\ \A a, b \in f..l : (a <= b /\ a..b \cap G = {}) => b - a + 1 <= m
  /\ m > 0 => \E a \in f..l : (a..(a + m - 1)) \cap G = {} /\ a + m - 1 < l

(* An arrival in order adds the datagrams it skipped to the missing ones.  *)
Grows(f, l, n, G) ==
  /\ Cardinality((f..n) \ (G \cup {n})) = Cardinality((f..l) \ G) + (n - l - 1)
  /\ Cardinality(G \cup {n}) = Cardinality(G) + 1
  /\ Cardinality(G) \in Nat

LEMMA MissingGrows ==
  ASSUME NEW f \in Nat, NEW l \in Nat, NEW n \in Nat, NEW G \in SUBSET (f..l),
         f \in G, l \in G, l < n
  PROVE  Grows(f, l, n, G)
<1> DEFINE A == (f..l) \ G
           B == (l + 1)..(n - 1)
<1>1. IsFiniteSet(f..l)
  BY FS_Interval
<1>2. IsFiniteSet(G) /\ IsFiniteSet(A)
  BY <1>1, FS_Subset
<1>3. IsFiniteSet(B) /\ Cardinality(B) = n - l - 1
  <2>1. l + 1 \in Int /\ n - 1 \in Int
    OBVIOUS
  <2>2. IsFiniteSet(B)
        /\ Cardinality(B) = (IF l + 1 > n - 1 THEN 0 ELSE (n - 1) - (l + 1) + 1)
    BY <2>1, FS_Interval
  <2>3. (IF l + 1 > n - 1 THEN 0 ELSE (n - 1) - (l + 1) + 1) = n - l - 1
    OBVIOUS
  <2> QED BY <2>2, <2>3
<1>4. (f..n) \ (G \cup {n}) = A \cup B /\ A \cap B = {}
  OBVIOUS
<1>5. Cardinality(A) \in Nat /\ Cardinality(G) \in Nat
  BY <1>2, FS_CardinalityType
<1> HIDE DEF A, B
<1>6. Cardinality(A \cup B) = Cardinality(A) + Cardinality(B) - Cardinality(A \cap B)
  BY <1>2, <1>3, FS_Union
<1>7. Cardinality(A \cap B) = 0
  BY <1>4, FS_EmptySet
<1>8. Cardinality(A \cup B) = Cardinality(A) + (n - l - 1)
  BY <1>3, <1>5, <1>6, <1>7
<1>9. n \notin G
  OBVIOUS
<1>10. Cardinality(G \cup {n}) = Cardinality(G) + 1
  BY <1>2, <1>9, FS_AddElement
<1> QED BY <1>4, <1>5, <1>8, <1>10 DEF A, Grows

(* The longest gap is the longest one so far or the one it leaves. *)
LEMMA GapGrows ==
  ASSUME NEW f \in Nat, NEW l \in Nat, NEW n \in Nat, NEW G \in SUBSET (f..l),
         f \in G, l \in G, l < n, NEW m \in Nat, Gaps(f, l, G, m),
         NEW m1 \in Nat, m1 = IF n - l - 1 > m THEN n - l - 1 ELSE m
  PROVE  Gaps(f, n, G \cup {n}, m1)
<1>1. m1 >= m /\ m1 >= n - l - 1
  OBVIOUS
<1>2. ASSUME NEW a \in f..n, NEW b \in f..n, a <= b, a..b \cap (G \cup {n}) = {}
      PROVE  b - a + 1 <= m1
  <2>1. a \in Nat /\ b \in Nat /\ a \in a..b /\ b \in a..b
    BY <1>2
  <2>2. b # n /\ b # l
    BY <1>2, <2>1
  <2>3. CASE b < l
    <3>1. a \in f..l /\ b \in f..l /\ a..b \cap G = {}
      BY <1>2, <2>1, <2>3
    <3>2. b - a + 1 <= m
      BY <1>2, <3>1 DEF Gaps
    <3> QED BY <1>1, <2>1, <3>2
  <2>4. CASE b > l
    <3>1. l \notin a..b
      BY <1>2
    <3>2. a > l /\ b < n
      BY <2>1, <2>2, <2>4, <3>1
    <3> QED BY <1>1, <2>1, <3>2
  <2> QED BY <2>1, <2>2, <2>3, <2>4
<1>3. ASSUME m1 > 0
      PROVE  \E a \in f..n : (a..(a + m1 - 1)) \cap (G \cup {n}) = {}
                             /\ a + m1 - 1 < n
  <2>1. CASE n - l - 1 > m
    <3>1. m1 = n - l - 1 /\ (l + 1) + m1 - 1 = n - 1
      BY <2>1
    <3>2. l + 1 \in f..n
      OBVIOUS
    <3>3. ((l + 1)..(n - 1)) \cap (G \cup {n}) = {}
      OBVIOUS
    <3>4. n - 1 < n
      OBVIOUS
    <3> QED BY <3>1, <3>2, <3>3, <3>4
  <2>2. CASE ~(n - l - 1 > m)
    <3>1. m1 = m /\ m > 0
      BY <1>3, <2>2
    <3>2. PICK a \in f..l : (a..(a + m - 1)) \cap G = {} /\ a + m - 1 < l
      BY <3>1 DEF Gaps
    <3>3. a \in f..n /\ a + m - 1 < n /\ n \notin a..(a + m - 1)
      BY <3>2
    <3>4. (a..(a + m - 1)) \cap (G \cup {n}) = {}
      BY <3>2, <3>3
    <3> QED BY <3>1, <3>3, <3>4
  <2> QED BY <2>1, <2>2
<1> QED BY <1>2, <1>3 DEF Gaps

(* What is left of an arrival in order and without too long a gap. *)
LEMMA ArrivalInOrder ==
  ASSUME RInv, Receive, ~longGap', lateTruth' = 0
  PROVE  \E n \in Nat :
           /\ last' = n /\ got' = got \cup {n} /\ late' = 0
           /\ first' = (IF havePrev THEN first ELSE n)
           /\ received' = received + 1
           /\ ~havePrev => dup' = dup /\ lost' = lost /\ maxGap' = maxGap
           /\ havePrev =>
                /\ got \subseteq first..last /\ last <= n
                /\ lost = Cardinality((first..last) \ got)
                /\ dup = received - Cardinality(got)
                /\ Gaps(first, last, got, maxGap)
                /\ n = last => dup' = dup + 1 /\ lost' = lost /\ maxGap' = maxGap
                /\ n # last => /\ dup' = dup /\ lost' = lost + (n - last - 1)
                               /\ maxGap' = Longest(n - last - 1)
<1>1. IInv /\ InOrder /\ ReportIsTrue
  BY DEF RInv
<1>2. PICK n \in Nat :
        /\ last' = n /\ got' = got \cup {n}
        /\ first' = (IF havePrev THEN first ELSE n)
        /\ received' = received + 1
        /\ lateTruth' = lateTruth + (IF \E k \in got : k > n THEN 1 ELSE 0)
        /\ longGap' = (longGap \/ (havePrev /\ n - last >= Modulus))
        /\ Judge(Seq32(n))
  BY <1>1, Arrival
<1>3. lateTruth \in Nat /\ last \in Nat /\ late = 0 /\ first \in Nat
      /\ (havePrev => last \in got) /\ Modulus \in Nat
  BY <1>1, ModulusType DEF IInv, CountInv
<1>4. lateTruth = 0 /\ ~(\E k \in got : k > n)
  BY <1>2, <1>3
<1>5. ~longGap /\ (havePrev => ~(n - last >= Modulus))
  BY <1>2
<1> DEFINE d == Delta(Seq32(n))
<1>6. /\ late' = late
      /\ ~havePrev => dup' = dup /\ lost' = lost /\ maxGap' = maxGap
      /\ havePrev /\ d = 0 => dup' = dup + 1 /\ lost' = lost /\ maxGap' = maxGap
      /\ havePrev /\ d # 0 => /\ dup' = dup /\ lost' = lost + (d - 1)
                              /\ maxGap' = Longest(d - 1) /\ d > 0
      /\ havePrev => (last <= n /\ n - last < Modulus => d = n - last)
  BY <1>1, <1>2, Judged
<1> HIDE DEF d
<1>7. ASSUME havePrev
      PROVE  /\ got \subseteq first..last /\ last <= n
             /\ lost = Cardinality((first..last) \ got)
             /\ dup = received - Cardinality(got)
             /\ Gaps(first, last, got, maxGap)
             /\ n = last => dup' = dup + 1 /\ lost' = lost /\ maxGap' = maxGap
             /\ n # last => /\ dup' = dup /\ lost' = lost + (n - last - 1)
                            /\ maxGap' = Longest(n - last - 1)
  <2>1. last <= n
    BY <1>3, <1>4, <1>7
  <2>2. n - last < Modulus
    BY <1>3, <1>5, <1>7
  <2>3. d = n - last
    BY <1>6, <1>7, <2>1, <2>2
  <2>4. n = last => d = 0
    BY <1>3, <2>3
  <2>5. n # last => d # 0 /\ d - 1 = n - last - 1
    BY <1>3, <2>3
  <2>6. got \subseteq first..last
    BY <1>1, <1>4, <1>5, <1>7 DEF InOrder
  <2>7. /\ lost = Cardinality((first..last) \ got)
        /\ dup = received - Cardinality(got)
        /\ LongestGapIsTrue
    BY <1>1, <1>4, <1>5, <1>7 DEF ReportIsTrue
  <2>8. Gaps(first, last, got, maxGap)
    BY <2>7 DEF Gaps, LongestGapIsTrue
  <2>9. n = last => dup' = dup + 1 /\ lost' = lost /\ maxGap' = maxGap
    BY <1>6, <1>7, <2>4
  <2>10. n # last => /\ dup' = dup /\ lost' = lost + (n - last - 1)
                     /\ maxGap' = Longest(n - last - 1)
    BY <1>6, <1>7, <2>5
  <2> QED BY <2>1, <2>6, <2>7, <2>8, <2>9, <2>10
<1>8. ~havePrev => dup' = dup /\ lost' = lost /\ maxGap' = maxGap
  BY <1>6
<1>9. late' = 0
  BY <1>3, <1>6
<1> QED BY <1>2, <1>7, <1>8, <1>9

LEMMA ReceiveReport ==
  ASSUME RInv, Receive
  PROVE  InOrder' /\ ReportIsTrue'
<1> SUFFICES ASSUME ~longGap', lateTruth' = 0
             PROVE  /\ got' \subseteq first'..last'
                    /\ lost' = Cardinality((first'..last') \ got')
                    /\ dup' = received' - Cardinality(got')
                    /\ late' = 0
                    /\ Gaps(first', last', got', maxGap')
  BY DEF InOrder, ReportIsTrue, LongestGapIsTrue, Gaps
<1>1. PICK n \in Nat :
           /\ last' = n /\ got' = got \cup {n} /\ late' = 0
           /\ first' = (IF havePrev THEN first ELSE n)
           /\ received' = received + 1
           /\ ~havePrev => dup' = dup /\ lost' = lost /\ maxGap' = maxGap
           /\ havePrev =>
                /\ got \subseteq first..last /\ last <= n
                /\ lost = Cardinality((first..last) \ got)
                /\ dup = received - Cardinality(got)
                /\ Gaps(first, last, got, maxGap)
                /\ n = last => dup' = dup + 1 /\ lost' = lost /\ maxGap' = maxGap
                /\ n # last => /\ dup' = dup /\ lost' = lost + (n - last - 1)
                               /\ maxGap' = Longest(n - last - 1)
  BY ArrivalInOrder
<1>2. /\ received \in Nat /\ lost \in Nat /\ dup \in Nat /\ maxGap \in Nat
      /\ first \in Nat /\ last \in Nat
      /\ ~havePrev => /\ received = 0 /\ lost = 0 /\ dup = 0 /\ maxGap = 0
                      /\ got = {}
      /\ havePrev => first \in got /\ last \in got
  BY ModulusType DEF RInv, IInv, TypeOK, CountInv
<1>3. CASE ~havePrev
  <2>1. /\ got' = {n} /\ first' = n /\ last' = n /\ received' = 1 /\ lost' = 0
        /\ dup' = 0 /\ maxGap' = 0
    BY <1>1, <1>2, <1>3
  <2>2. {n} \subseteq n..n /\ (n..n) \ {n} = {}
    OBVIOUS
  <2>3. Cardinality({n}) = 1 /\ Cardinality({}) = 0
    BY FS_Singleton, FS_EmptySet
  <2>4. Gaps(n, n, {n}, 0)
    BY DEF Gaps
  <2>5. 0 = 1 - 1
    OBVIOUS
  <2> QED BY <1>1, <2>1, <2>2, <2>3, <2>4, <2>5
<1>4. CASE havePrev /\ n = last
  <2>1. /\ got' = got /\ first' = first /\ last' = last /\ lost' = lost
        /\ dup' = dup + 1 /\ maxGap' = maxGap /\ received' = received + 1
        /\ got \subseteq first..last
        /\ lost = Cardinality((first..last) \ got)
        /\ dup = received - Cardinality(got)
        /\ Gaps(first, last, got, maxGap)
    BY <1>1, <1>2, <1>4
  <2>2. IsFiniteSet(first..last)
    BY <1>2, FS_Interval
  <2>3. Cardinality(got) \in Nat
    BY <2>1, <2>2, FS_Subset, FS_CardinalityType
  <2>4. dup' = received' - Cardinality(got)
    BY <1>2, <2>1, <2>3
  <2> QED BY <1>1, <2>1, <2>4
<1>5. CASE havePrev /\ n # last
  <2>1. /\ first' = first /\ last' = n /\ lost' = lost + (n - last - 1)
        /\ got' = got \cup {n} /\ first \in got /\ last \in got
        /\ dup' = dup /\ maxGap' = Longest(n - last - 1)
        /\ received' = received + 1
        /\ got \in SUBSET (first..last) /\ last < n
        /\ lost = Cardinality((first..last) \ got)
        /\ dup = received - Cardinality(got)
        /\ Gaps(first, last, got, maxGap)
    BY <1>1, <1>2, <1>5
  <2>2. got \cup {n} \subseteq first..n
    BY <1>2, <2>1
  <2>3. /\ Cardinality((first..n) \ (got \cup {n}))
             = Cardinality((first..last) \ got) + (n - last - 1)
        /\ Cardinality(got \cup {n}) = Cardinality(got) + 1
        /\ Cardinality(got) \in Nat
    <3>1. /\ first \in Nat /\ last \in Nat /\ got \in SUBSET (first..last)
          /\ first \in got /\ last \in got /\ last < n
      BY <1>2, <2>1
    <3>2. Grows(first, last, n, got)
      BY <3>1, MissingGrows
    <3> QED BY <3>2 DEF Grows
  <2>4. maxGap' = (IF n - last - 1 > maxGap THEN n - last - 1 ELSE maxGap)
        /\ maxGap' \in Nat
    BY <1>2, <2>1 DEF Longest
  <2>5. Gaps(first, n, got \cup {n}, maxGap')
    BY <1>2, <2>1, <2>4, GapGrows
  <2>6. dup = (received + 1) - (Cardinality(got) + 1)
    BY <1>2, <2>1, <2>3
  <2> QED BY <1>1, <2>1, <2>2, <2>3, <2>5, <2>6
<1> QED BY <1>3, <1>4, <1>5

LEMMA NextReport == RInv /\ [Next]_vars => RInv'
<1> SUFFICES ASSUME RInv, [Next]_vars PROVE RInv'
  OBVIOUS
<1>1. IInv'
  BY NextInv DEF RInv
<1>2. CASE Receive
  BY <1>1, <1>2, ReceiveReport DEF RInv
<1>3. CASE ~Receive
  <2>1. UNCHANGED <<counters, truth>>
    BY <1>3, OtherSteps DEF RInv
  <2>2. /\ first' = first /\ last' = last /\ got' = got /\ received' = received
        /\ lost' = lost /\ dup' = dup /\ late' = late /\ maxGap' = maxGap
        /\ havePrev' = havePrev /\ longGap' = longGap /\ lateTruth' = lateTruth
    BY <2>1 DEF counters, truth
  <2>3. InOrder'
    BY <2>2 DEF RInv, InOrder
  <2>4. LongestGapIsTrue => LongestGapIsTrue'
    BY <2>2 DEF LongestGapIsTrue
  <2>5. ReportIsTrue'
    BY <2>2, <2>4 DEF RInv, ReportIsTrue
  <2> QED BY <1>1, <2>3, <2>5 DEF RInv
<1> QED BY <1>2, <1>3

(* As long as nothing arrived out of order and no gap was longer than the  *)
(* width of a sequence number, lost, dup, late and maxgap of the report    *)
(* are the truth about the stream: for every width, every length and any   *)
(* losses and repeats.                                                     *)
THEOREM ReportIsTrueHolds == Spec => []ReportIsTrue
<1>1. RInv => ReportIsTrue
  BY DEF RInv
<1> QED BY <1>1, InitInv, NextReport, PTL DEF Spec

=============================================================================
