--------------------------- MODULE SdiResyncProofs --------------------------
(***************************************************************************)
(* Proofs about SdiResync for every choice of times, samples and attempts  *)
(* that the assumptions allow, any delay of the loop and any register.     *)
(***************************************************************************)
EXTENDS SdiResync, FiniteSetTheorems, TLAPS

(* An attempt under way found the output lit and the watchdog working. *)
PlaceInv ==
  /\ place # "loop" => ~failed
  /\ place \in {"guard", "test", "off"} => active
  /\ DarkOnlyWhenDisabled

(* The ring holds the latest MaxAttempts requests, each in its slot. *)
RingInv ==
  /\ attempts = Len(log)
  /\ \A i \in 1..Len(log) : log[i] <= now
  /\ \A i, j \in 1..Len(log) : i <= j => log[i] <= log[j]
  /\ \A i \in 1..Len(log) :
       i + MaxAttempts > Len(log) => attempts_ms[(i - 1) % MaxAttempts] = log[i]
  /\ cooldown_until_ms = IF log = <<>> THEN 0 ELSE log[Len(log)] + CooldownMs

(* The samples of hist are in the order of time, at least SampleMs apart. *)
Spaced(h) ==
  \A i, j \in 1..Len(h) : i <= j => h[j].at - h[i].at >= (j - i) * SampleMs

(* A sample that counts as evidence. *)
Counts(e, requests) ==
  /\ e.suspect
  /\ requests # <<>> => e.at >= requests[Len(requests)] + CooldownMs

(* The latest n samples of h are evidence without a gap, and the one       *)
(* before them, if h has it, ends the run.                                 *)
Run(h, n, requests) ==
  /\ n > Len(h) => Len(h) = MinSamples
  /\ \A i \in 1..Len(h) : i + n > Len(h) => Counts(h[i], requests)
  /\ \A i \in 1..(Len(h) - 1) :
       i + n > Len(h) => h[i + 1].at - h[i].at <= 3 * SampleMs
  /\ n < Len(h) =>
       \/ ~Counts(h[Len(h) - n], requests)
       \/ n > 0 /\ h[Len(h) - n + 1].at - h[Len(h) - n].at > 3 * SampleMs

(* The run of n samples began at time t, or before hist did. *)
Began(h, n, t) ==
  n > 0 => /\ n <= Len(h) => t = h[Len(h) - n + 1].at
           /\ n > Len(h) => t <= h[1].at

(* hist, and what the policy keeps of it. *)
HistInv ==
  /\ Len(hist) <= MinSamples
  /\ hist = <<>> => next_sample_ms = 0 /\ samples = 0
  /\ hist # <<>> => /\ next_sample_ms = hist[Len(hist)].at + SampleMs
                    /\ hist[Len(hist)].at <= now
  /\ Spaced(hist)
  /\ Run(hist, samples, log)
  /\ Began(hist, samples, suspect_ms)

(* The inductive invariant. *)
IInv == TypeOK /\ PlaceInv /\ RingInv /\ RateLimited /\ HistInv

-----------------------------------------------------------------------------
LEMMA Constants ==
  /\ SampleMs \in Nat /\ SampleMs > 0
  /\ MaxAttempts \in Nat /\ MaxAttempts > 0
  /\ MinSamples \in Nat /\ MinSamples > 0
  /\ MaxDelay \in Nat /\ MaxDelay > 0
  /\ DebounceMs \in Nat /\ CooldownMs \in Nat /\ CooldownMs > 0
  /\ AttemptWindowMs \in Nat /\ TimeBound \in Nat
  BY ResyncAssumption, EvidenceAssumption

(* Division with remainder. *)
LEMMA DivMod ==
  ASSUME NEW a \in Int, NEW m \in Nat, m > 0
  PROVE  /\ a \div m \in Int
         /\ a % m \in 0..(m - 1)
         /\ a = (m * (a \div m)) + (a % m)
  OBVIOUS

(* The only multiple of m between -m and m is 0. *)
LEMMA SmallMultiple ==
  ASSUME NEW m \in Nat, m > 0, NEW q \in Int, -m < m * q, m * q < m
  PROVE  q = 0
<1>1. CASE q >= 1
  <2>1. m * q >= m
    BY <1>1
  <2> QED BY <2>1
<1>2. CASE q <= -1
  <2>1. m * q <= -m
    BY <1>2
  <2> QED BY <2>1
<1> QED BY <1>1, <1>2

(* Less than m requests apart, the slots of the ring differ. *)
LEMMA DistinctSlots ==
  ASSUME NEW m \in Nat, m > 0, NEW a \in Nat, NEW b \in Nat, a < b, b - a < m
  PROVE  a % m # b % m
<1> SUFFICES ASSUME a % m = b % m PROVE FALSE
  OBVIOUS
<1> DEFINE p == a \div m
           q == b \div m
           r == a % m
<1>1. p \in Int /\ q \in Int /\ r \in 0..(m - 1)
      /\ a = (m * p) + r /\ b = (m * q) + r
  BY DivMod
<1> HIDE DEF p, q, r
<1>2. m * (q - p) = (m * q) - (m * p)
  BY <1>1
<1>3. m * (q - p) = b - a
  BY <1>1, <1>2
<1>4. q - p = 0
  BY <1>1, <1>3, SmallMultiple
<1> QED BY <1>1, <1>3, <1>4

(* The latest m of n requests fill every slot. *)
LEMMA SlotTaken ==
  ASSUME NEW m \in Nat, m > 0, NEW n \in Nat, n >= m, NEW k \in 0..(m - 1)
  PROVE  \E i \in 1..n : i + m > n /\ (i - 1) % m = k
<1> DEFINE a == n - 1 - k
           q == a \div m
           r == a % m
           i == n - r
           p == (i - 1) \div m
           t == (i - 1) % m
<1>1. q \in Int /\ r \in 0..(m - 1) /\ a = (m * q) + r
  BY DivMod
<1> HIDE DEF q, r
<1>2. i \in 1..n /\ i + m > n /\ i - 1 = (m * q) + k
  BY <1>1
<1>3. p \in Int /\ t \in 0..(m - 1) /\ i - 1 = (m * p) + t
  BY <1>2, DivMod
<1> HIDE DEF p, i
<1>4. m * (p - q) = (m * p) - (m * q)
  BY <1>1, <1>3
<1>5. m * (p - q) = k - t
  BY <1>1, <1>2, <1>3, <1>4
<1>6. p - q = 0
  BY <1>1, <1>3, <1>5, SmallMultiple
<1>7. t = k
  BY <1>3, <1>5, <1>6
<1> QED BY <1>2, <1>7

(* A subset of the slots has fewer than m members unless it is all. *)
LEMMA FewerSlots ==
  ASSUME NEW m \in Nat, m > 0, NEW S, S \subseteq 0..(m - 1)
  PROVE  Cardinality(S) < m <=> S # 0..(m - 1)
<1>1. IsFiniteSet(0..(m - 1)) /\ Cardinality(0..(m - 1)) = m
  BY FS_Interval
<1>2. /\ IsFiniteSet(S) /\ Cardinality(S) \in Nat
      /\ Cardinality(S) <= m
      /\ Cardinality(S) = m => S = 0..(m - 1)
  BY <1>1, FS_Subset, FS_CardinalityType
<1> QED BY <1>1, <1>2

-----------------------------------------------------------------------------
(* The window has room when less than MaxAttempts requests were made or    *)
(* the oldest of the latest MaxAttempts is out of it.                      *)
Room ==
  \/ Len(log) < MaxAttempts
  \/ now - log[Len(log) - MaxAttempts + 1] >= AttemptWindowMs

(* A later request is in the window if an earlier one is. *)
LEMMA NotOlder ==
  ASSUME NEW a \in Nat, NEW b \in Nat, a <= b, NEW t \in Nat, NEW w \in Nat,
         t - a < w
  PROVE  t - b < w /\ ~(t - a >= w)
  OBVIOUS

(* What the ring says of the window. *)
LEMMA RoomInRing ==
  ASSUME TypeOK, RingInv
  PROVE  Recent < MaxAttempts <=> Room
<1> DEFINE M == MaxAttempts
           L == Len(log)
           S == {i \in 0..(M - 1) :
                   i < attempts /\ now - attempts_ms[i] < AttemptWindowMs}
<1>1. /\ M \in Nat /\ M > 0 /\ L \in Nat /\ AttemptWindowMs \in Nat
      /\ now \in Nat /\ attempts = L
      /\ attempts_ms \in [0..(M - 1) -> Nat] /\ log \in Seq(Nat)
  BY Constants DEF TypeOK, RingInv
<1>2. Recent < M <=> S # 0..(M - 1)
  BY <1>1, FewerSlots DEF Recent
<1>3. CASE L < M
  <2>1. L \in 0..(M - 1) /\ L \notin S
    BY <1>1, <1>3
  <2> QED BY <1>2, <1>3, <2>1 DEF Room
<1>4. CASE L >= M
  <2>a. L - M + 1 \in 1..L
    BY <1>1, <1>4
  <2>0. PICK o \in 1..L : o = L - M + 1
    BY <2>a
  <2>1. o \in 1..L /\ log[o] \in Nat
    BY <1>1
  <2>2. ASSUME now - log[o] >= AttemptWindowMs PROVE S # 0..(M - 1)
    <3>1. attempts_ms[(o - 1) % M] = log[o]
      <4>1. o + M > L
        BY <1>1, <2>0
      <4> QED BY <4>1 DEF RingInv
    <3>2. (o - 1) % M \in 0..(M - 1)
      BY <1>1, <2>1, DivMod
    <3>3. (o - 1) % M \notin S
      BY <1>1, <2>1, <2>2, <3>1
    <3> QED BY <3>2, <3>3
  <2>3. ASSUME now - log[o] < AttemptWindowMs PROVE S = 0..(M - 1)
    <3> SUFFICES ASSUME NEW k \in 0..(M - 1) PROVE k \in S
      OBVIOUS
    <3>1. PICK i \in 1..L : i + M > L /\ (i - 1) % M = k
      BY <1>1, <1>4, SlotTaken
    <3>2. attempts_ms[k] = log[i]
      BY <3>1 DEF RingInv
    <3>3. o <= i
      BY <1>1, <2>0, <3>1
    <3>4. log[o] <= log[i] /\ log[i] \in Nat
      BY <1>1, <2>1, <3>3 DEF RingInv
    <3>5. k < attempts
      BY <1>1, <1>4
    <3>6. now - attempts_ms[k] < AttemptWindowMs
      <4>0. now \in Nat /\ AttemptWindowMs \in Nat
        BY <1>1
      <4>1. now - log[i] < AttemptWindowMs
        BY <2>1, <2>3, <3>4, <4>0, NotOlder
      <4> QED BY <3>2, <4>1
    <3> QED BY <3>5, <3>6
  <2>4. now - log[o] \in Int
    BY <1>1, <2>1
  <2>5. Room <=> now - log[o] >= AttemptWindowMs
    <3>1. ~(L < M)
      BY <1>1, <1>4
    <3> QED BY <2>0, <3>1 DEF Room
  <2> HIDE DEF S
  <2> QED BY <1>1, <1>2, <2>2, <2>3, <2>4, <2>5
<1> QED BY <1>1, <1>3, <1>4

(* What the whole log says of the window. *)
LEMMA RoomInLog ==
  ASSUME TypeOK, RingInv
  PROVE  Cardinality({i \in 1..Len(log) : now - log[i] < AttemptWindowMs})
           < MaxAttempts <=> Room
<1> DEFINE M == MaxAttempts
           L == Len(log)
           T == {i \in 1..L : now - log[i] < AttemptWindowMs}
<1>1. /\ M \in Nat /\ M > 0 /\ L \in Nat /\ AttemptWindowMs \in Nat
      /\ now \in Nat /\ log \in Seq(Nat)
  BY Constants DEF TypeOK, RingInv
<1>2. \A i, j \in 1..L : i <= j => log[i] <= log[j]
  BY DEF RingInv
<1>3. \A i \in 1..L : log[i] \in Nat
  BY <1>1
<1>4. ASSUME NEW a \in Int, NEW b \in Int, T \subseteq a..b, a <= b + 1
      PROVE  Cardinality(T) <= b - a + 1
  <2>1. IsFiniteSet(a..b) /\ Cardinality(a..b) = b - a + 1
    BY <1>4, FS_Interval
  <2> QED BY <1>4, <2>1, FS_Subset
<1>5. CASE L < M
  <2>1. Cardinality(T) <= L - 1 + 1
    BY <1>1, <1>4
  <2>2. Cardinality(T) \in Nat
    <3>1. IsFiniteSet(1..L)
      BY <1>1, FS_Interval
    <3> QED BY <3>1, FS_Subset, FS_CardinalityType
  <2> QED BY <1>1, <1>5, <2>1, <2>2 DEF Room
<1>6. CASE L >= M
  <2>a. L - M + 1 \in 1..L
    BY <1>1, <1>6
  <2>0. PICK o \in 1..L : o = L - M + 1
    BY <2>a
  <2>1. o \in 1..L /\ log[o] \in Nat
    BY <1>1
  <2>2. IsFiniteSet(T) /\ Cardinality(T) \in Nat
    <3>1. IsFiniteSet(1..L)
      BY <1>1, FS_Interval
    <3> QED BY <3>1, FS_Subset, FS_CardinalityType
  <2>3. ASSUME now - log[o] >= AttemptWindowMs PROVE Cardinality(T) < M
    <3>1. T \subseteq (o + 1)..L
      <4> SUFFICES ASSUME NEW i \in T, i <= o PROVE FALSE
        BY <1>1, <2>1
      <4>1. i \in 1..L /\ now - log[i] < AttemptWindowMs
        OBVIOUS
      <4>2. log[i] <= log[o]
        BY <1>2, <2>1, <4>1
      <4>3. log[i] \in Nat /\ now \in Nat /\ AttemptWindowMs \in Nat
        BY <1>1, <1>3, <4>1
      <4> QED BY <2>1, <2>3, <4>1, <4>2, <4>3, NotOlder
    <3>2. Cardinality(T) <= L - (o + 1) + 1
      BY <1>1, <1>4, <2>1, <3>1
    <3> QED BY <1>1, <2>0, <2>2, <3>2
  <2>4. ASSUME now - log[o] < AttemptWindowMs PROVE Cardinality(T) >= M
    <3>1. o..L \subseteq T
      <4> SUFFICES ASSUME NEW i \in o..L PROVE i \in T
        OBVIOUS
      <4>1. i \in 1..L /\ o <= i
        BY <1>1, <2>1
      <4>2. log[o] <= log[i]
        BY <1>2, <2>1, <4>1
      <4>3. log[i] \in Nat /\ now \in Nat /\ AttemptWindowMs \in Nat
        BY <1>1, <1>3, <4>1
      <4>4. now - log[i] < AttemptWindowMs
        BY <2>1, <2>4, <4>2, <4>3, NotOlder
      <4> QED BY <4>1, <4>4
    <3>2. Cardinality(o..L) = M
      <4>1. Cardinality(o..L) = L - o + 1
        BY <1>1, <2>1, FS_Interval
      <4> QED BY <1>1, <2>0, <4>1
    <3> QED BY <2>2, <3>1, <3>2, FS_Subset
  <2>5. now - log[o] \in Int
    BY <1>1, <2>1
  <2>6. Room <=> now - log[o] >= AttemptWindowMs
    <3>1. ~(L < M)
      BY <1>1, <1>6
    <3> QED BY <2>0, <3>1 DEF Room
  <2> HIDE DEF T
  <2> QED BY <1>1, <2>2, <2>3, <2>4, <2>5, <2>6 DEF T
<1> QED BY <1>1, <1>5, <1>6

-----------------------------------------------------------------------------
(* The entries of a history. *)
LEMMA Entries ==
  ASSUME NEW h \in Seq([at : Nat, suspect : BOOLEAN])
  PROVE  Len(h) \in Nat /\ \A i \in 1..Len(h) : h[i].at \in Nat
<1>1. Len(h) \in Nat
      /\ \A i \in 1..Len(h) : h[i] \in [at : Nat, suspect : BOOLEAN]
  <2> DEFINE E == [at : Nat, suspect : BOOLEAN]
  <2> HIDE DEF E
  <2>1. h \in Seq(E)
    BY DEF E
  <2>2. Len(h) \in Nat /\ \A i \in 1..Len(h) : h[i] \in E
    BY <2>1
  <2> QED BY <2>2 DEF E
<1>2. \A e \in [at : Nat, suspect : BOOLEAN] : e.at \in Nat
  OBVIOUS
<1> QED BY <1>1, <1>2

(* What a sample does to hist: the oldest one leaves when it is full. *)
Shifted(drop, bad) ==
  /\ drop = 1 <=> Len(hist) = MinSamples
  /\ hist' \in Seq([at : Nat, suspect : BOOLEAN])
  /\ Len(hist') = Len(hist) + 1 - drop
  /\ Len(hist') <= MinSamples
  /\ Len(hist') > 0
  /\ hist'[Len(hist')] = [at |-> now, suspect |-> bad]
  /\ \A i \in 1..(Len(hist') - 1) : hist'[i] = hist[i + drop]

LEMMA SampledHist ==
  ASSUME TypeOK, Len(hist) <= MinSamples, NEW bad \in BOOLEAN, Sampled(bad)
  PROVE  \E drop \in 0..1 : Shifted(drop, bad)
<1> DEFINE E == [at : Nat, suspect : BOOLEAN]
           e == [at |-> now, suspect |-> bad]
           h == Append(hist, e)
<1>1. hist \in Seq(E) /\ e \in E /\ MinSamples \in Nat /\ MinSamples > 0
  BY Constants DEF TypeOK
<1>2. /\ h \in Seq(E) /\ Len(h) = Len(hist) + 1
      /\ h[Len(hist) + 1] = e
      /\ \A i \in 1..Len(hist) : h[i] = hist[i]
  BY <1>1
<1>3. hist' = SubSeq(h, IF Len(h) > MinSamples THEN 2 ELSE 1, Len(h))
  BY DEF Sampled
<1> HIDE DEF e, h, E
<1>4. ASSUME NEW drop \in 0..1, hist' = SubSeq(h, drop + 1, Len(h))
      PROVE  /\ hist' \in Seq(E)
             /\ Len(hist') = Len(hist) + 1 - drop
             /\ \A i \in 1..Len(hist') : hist'[i] = h[i + drop]
  BY <1>1, <1>2, <1>4
<1>5. CASE Len(hist) = MinSamples
  <2>1. hist' = SubSeq(h, 1 + 1, Len(h))
    BY <1>1, <1>2, <1>3, <1>5
  <2>2. /\ hist' \in Seq(E)
        /\ Len(hist') = Len(hist) + 1 - 1
        /\ \A i \in 1..Len(hist') : hist'[i] = h[i + 1]
    BY <1>4, <2>1
  <2>3. Len(hist') = MinSamples /\ hist'[Len(hist')] = e
    BY <1>1, <1>2, <1>5, <2>2
  <2>4. \A i \in 1..(Len(hist') - 1) : hist'[i] = hist[i + 1]
    <3>1. Len(hist') \in Nat /\ Len(hist) \in Nat
          /\ Len(hist') = Len(hist)
      BY <1>1, <2>2
    <3> SUFFICES ASSUME NEW i \in 1..(Len(hist') - 1)
                 PROVE  hist'[i] = hist[i + 1]
      OBVIOUS
    <3>2. i \in 1..Len(hist') /\ i + 1 \in 1..Len(hist)
      BY <3>1
    <3> QED BY <1>2, <2>2, <3>2
  <2>5. Len(hist') <= MinSamples /\ Len(hist') > 0
    BY <1>1, <2>3
  <2> QED BY <1>5, <2>2, <2>3, <2>4, <2>5 DEF E, e, Shifted
<1>6. CASE Len(hist) < MinSamples
  <2>1. hist' = SubSeq(h, 0 + 1, Len(h))
    BY <1>1, <1>2, <1>3, <1>6
  <2>2. /\ hist' \in Seq(E)
        /\ Len(hist') = Len(hist) + 1 - 0
        /\ \A i \in 1..Len(hist') : hist'[i] = h[i + 0]
    BY <1>4, <2>1
  <2>3. Len(hist') = Len(hist) + 1 /\ hist'[Len(hist')] = e
    BY <1>1, <1>2, <1>6, <2>2
  <2>4. \A i \in 1..(Len(hist') - 1) : hist'[i] = hist[i + 0]
    BY <1>1, <1>2, <2>2
  <2>5. Len(hist') <= MinSamples /\ Len(hist') > 0 /\ Len(hist) # MinSamples
    BY <1>1, <1>6, <2>3
  <2>6. Len(hist') = Len(hist) + 1 - 0 /\ (0 = 1 <=> Len(hist) = MinSamples)
    BY <2>2, <2>5
  <2> QED BY <2>2, <2>3, <2>4, <2>5, <2>6 DEF E, e, Shifted
<1> QED BY <1>1, <1>5, <1>6

(* One more interval. *)
LEMMA Distribute ==
  ASSUME NEW a \in Int, NEW b \in Int
  PROVE  /\ a * b \in Int
         /\ (a + 1) * b = (a * b) + b
         /\ 0 * b = 0
         /\ a >= 0 /\ b >= 0 => a * b >= 0
  OBVIOUS

LEMMA Chain ==
  ASSUME NEW a \in Nat, NEW b \in Nat, NEW c \in Nat, NEW x \in Int,
         NEW s \in Nat, b - a >= x, c - b >= s
  PROVE  c - a >= x + s
  OBVIOUS

(* A due sample keeps the spacing. *)
LEMMA SampledSpaced ==
  ASSUME TypeOK, HistInv, Due, NEW bad \in BOOLEAN, Sampled(bad)
  PROVE  /\ Spaced(hist')
         /\ hist'[Len(hist')].at = now
         /\ next_sample_ms' = hist'[Len(hist')].at + SampleMs
<1>0. PICK drop \in 0..1 : Shifted(drop, bad)
  BY SampledHist DEF HistInv
<1>1. /\ drop = 1 <=> Len(hist) = MinSamples
      /\ hist' \in Seq([at : Nat, suspect : BOOLEAN])
      /\ Len(hist') = Len(hist) + 1 - drop
      /\ Len(hist') > 0
      /\ hist'[Len(hist')] = [at |-> now, suspect |-> bad]
      /\ \A i \in 1..(Len(hist') - 1) : hist'[i] = hist[i + drop]
  BY <1>0 DEF Shifted
<1> DEFINE L == Len(hist)
           K == Len(hist')
<1>2. /\ L \in Nat /\ K \in Nat /\ SampleMs \in Nat /\ now \in Nat
      /\ \A i \in 1..L : hist[i].at \in Nat
      /\ \A i \in 1..K : hist'[i].at \in Nat
  <2>1. L \in Nat /\ \A i \in 1..L : hist[i].at \in Nat
    BY Entries DEF TypeOK
  <2>2. K \in Nat /\ \A i \in 1..K : hist'[i].at \in Nat
    BY <1>1, Entries
  <2>3. SampleMs \in Nat /\ now \in Nat
    BY Constants DEF TypeOK
  <2> QED BY <2>1, <2>2, <2>3
<1>3. hist'[K].at = now
  BY <1>1
<1>4. L > 0 => now - hist[L].at >= SampleMs
  <2> SUFFICES ASSUME L > 0 PROVE now - hist[L].at >= SampleMs
    OBVIOUS
  <2>1. hist # <<>> /\ L \in 1..L
    BY <1>2
  <2>2. next_sample_ms = hist[L].at + SampleMs /\ now >= next_sample_ms
    BY <2>1 DEF HistInv, Due
  <2> QED BY <1>2, <2>1, <2>2
<1>5. \A i, j \in 1..L :
        i <= j => hist[j].at - hist[i].at >= (j - i) * SampleMs
  BY DEF HistInv, Spaced
<1>6. K = L + 1 - drop /\ \A i \in 1..(K - 1) : hist'[i] = hist[i + drop]
  BY <1>1
<1>7. ASSUME NEW i \in 1..K, NEW j \in 1..K, i <= j
      PROVE  hist'[j].at - hist'[i].at >= (j - i) * SampleMs
  <2>1. CASE i = j
    <3>1. (j - i) * SampleMs = 0
      BY <2>1, <1>2, Distribute
    <3> QED BY <1>2, <2>1, <3>1
  <2>2. CASE j < K
    <3>1. i + drop \in 1..L /\ j + drop \in 1..L /\ i + drop <= j + drop
          /\ (j + drop) - (i + drop) = j - i
      BY <1>2, <1>6, <1>7, <2>2
    <3>2. hist'[i] = hist[i + drop] /\ hist'[j] = hist[j + drop]
      BY <1>2, <1>6, <1>7, <2>2
    <3> QED BY <1>5, <3>1, <3>2
  <2>3. CASE i < j /\ j = K
    <3>1. i + drop \in 1..L /\ L \in 1..L /\ L - (i + drop) = j - i - 1
      BY <1>2, <1>6, <2>3
    <3>2. hist'[i] = hist[i + drop]
      BY <1>2, <1>6, <2>3
    <3>a. i + drop <= L
      BY <1>2, <3>1
    <3>3. hist[L].at - hist[i + drop].at >= (j - i - 1) * SampleMs
      BY <1>5, <3>1, <3>a
    <3>4. /\ (j - i - 1) * SampleMs \in Int
          /\ (j - i) * SampleMs = ((j - i - 1) * SampleMs) + SampleMs
      BY <1>2, Distribute
    <3>5. hist'[j].at = now
      BY <1>3, <2>3
    <3>6. /\ now - hist[L].at >= SampleMs /\ hist[L].at \in Nat
          /\ hist[i + drop].at \in Nat
      <4>1. L \in Nat /\ L > 0
        BY <1>2, <3>1
      <4>2. now - hist[L].at >= SampleMs
        BY <1>4, <4>1
      <4>3. hist[L].at \in Nat /\ hist[i + drop].at \in Nat
        BY <1>2, <3>1
      <4> QED BY <4>2, <4>3
    <3>7. now - hist[i + drop].at >= (j - i) * SampleMs
      <4>1. now - hist[i + drop].at >= ((j - i - 1) * SampleMs) + SampleMs
        BY <1>2, <3>3, <3>4, <3>6, Chain
      <4> QED BY <3>4, <4>1
    <3> QED BY <3>2, <3>5, <3>7
  <2> QED BY <1>2, <1>7, <2>1, <2>2, <2>3
<1> QED BY <1>3, <1>7 DEF Spaced, Sampled

(* A suspect sample outside the cooldown lengthens the run, or begins one  *)
(* after a delay of the loop.                                              *)
LEMMA SampledRun ==
  ASSUME TypeOK, RingInv, HistInv, Due, Sampled(TRUE), now >= cooldown_until_ms
  PROVE  /\ CountedSamples \in Nat /\ SuspectSince \in Nat
         /\ Run(hist', CountedSamples + 1, log)
         /\ Began(hist', CountedSamples + 1, SuspectSince)
<1>0. PICK drop \in 0..1 : Shifted(drop, TRUE)
  BY SampledHist DEF HistInv
<1> DEFINE L == Len(hist)
           K == Len(hist')
           n == CountedSamples
           Gap == L > 0 /\ now - hist[L].at > 3 * SampleMs
<1>1. /\ L \in Nat /\ \A i \in 1..L : hist[i].at \in Nat
      /\ K \in Nat /\ \A i \in 1..K : hist'[i].at \in Nat
      /\ SampleMs \in Nat /\ SampleMs > 0 /\ now \in Nat
      /\ MinSamples \in Nat /\ MinSamples > 0
      /\ samples \in Nat /\ suspect_ms \in Nat /\ next_sample_ms \in Nat
  <2>1. L \in Nat /\ \A i \in 1..L : hist[i].at \in Nat
    BY Entries DEF TypeOK
  <2>2. K \in Nat /\ \A i \in 1..K : hist'[i].at \in Nat
    BY <1>0, Entries DEF Shifted
  <2> QED BY <2>1, <2>2, Constants DEF TypeOK
<1>2. /\ drop = 1 <=> L = MinSamples
      /\ K = L + 1 - drop /\ K <= MinSamples /\ K > 0
      /\ hist'[K].at = now
      /\ \A i \in 1..(K - 1) : hist'[i] = hist[i + drop]
  BY <1>0 DEF Shifted
<1>3. Counts(hist'[K], log)
  <2>1. hist'[K].suspect = TRUE
    BY <1>0 DEF Shifted
  <2>2. log # <<>> => now >= log[Len(log)] + CooldownMs
    BY DEF RingInv
  <2> QED BY <1>2, <2>1, <2>2 DEF Counts
<1>4. /\ n \in Nat
      /\ n = 0 \/ n = samples
      /\ Gap => n = 0
      /\ ~Gap => n = samples
  <2>1. CASE L = 0
    <3>1. hist = <<>>
      BY <2>1 DEF TypeOK
    <3>2. samples = 0
      BY <3>1 DEF HistInv
    <3> QED BY <1>1, <2>1, <3>2 DEF CountedSamples
  <2>2. CASE L > 0
    <3>1. hist # <<>>
      BY <2>2 DEF TypeOK
    <3>2. next_sample_ms = hist[L].at + SampleMs /\ hist[L].at \in Nat
      BY <1>1, <2>2, <3>1 DEF HistInv
    <3>3. Gap <=> next_sample_ms # 0 /\ now > next_sample_ms + 2 * SampleMs
      BY <1>1, <2>2, <3>2
    <3> QED BY <1>1, <3>3 DEF CountedSamples
  <2> QED BY <1>1, <2>1, <2>2
<1>5. SuspectSince \in Nat
  BY <1>1 DEF SuspectSince
<1>6. /\ samples > L => L = MinSamples
      /\ \A i \in 1..L : i + samples > L => Counts(hist[i], log)
      /\ \A i \in 1..(L - 1) :
           i + samples > L => hist[i + 1].at - hist[i].at <= 3 * SampleMs
      /\ samples < L =>
           \/ ~Counts(hist[L - samples], log)
           \/ /\ samples > 0
              /\ hist[L - samples + 1].at - hist[L - samples].at > 3 * SampleMs
  BY DEF HistInv, Run
<1> HIDE DEF n, Gap, L, K
<1>7. n + 1 > K => K = MinSamples
  BY <1>1, <1>2, <1>4, <1>6
<1>8. ASSUME NEW i \in 1..K, i + (n + 1) > K
      PROVE  Counts(hist'[i], log)
  <2>1. CASE i = K
    BY <1>3, <2>1
  <2>2. CASE i < K
    <3>1. n = samples /\ i + drop \in 1..L /\ i + drop + samples > L
          /\ i \in 1..(K - 1)
      BY <1>1, <1>2, <1>4, <1>8, <2>2
    <3> QED BY <1>2, <1>6, <3>1
  <2> QED BY <1>1, <2>1, <2>2
<1>9. ASSUME NEW i \in 1..(K - 1), i + (n + 1) > K
      PROVE  hist'[i + 1].at - hist'[i].at <= 3 * SampleMs
  <2>1. n = samples /\ ~Gap /\ i + drop \in 1..L /\ i + drop + samples > L
        /\ hist'[i] = hist[i + drop]
    BY <1>1, <1>2, <1>4, <1>9
  <2>2. CASE i + 1 = K
    <3>1. i + drop = L /\ L > 0
      BY <1>1, <1>2, <2>1, <2>2
    <3> QED BY <1>1, <1>2, <2>1, <2>2, <3>1 DEF Gap
  <2>3. CASE i + 1 < K
    <3>1. /\ i + 1 \in 1..(K - 1) /\ i + drop \in 1..(L - 1)
          /\ (i + 1) + drop = (i + drop) + 1
      BY <1>1, <1>2, <2>1, <2>3
    <3>2. hist'[i + 1] = hist[(i + drop) + 1]
      BY <1>2, <3>1
    <3> QED BY <1>6, <2>1, <3>1, <3>2
  <2> QED BY <1>1, <2>2, <2>3
<1>10. ASSUME n + 1 < K
       PROVE  \/ ~Counts(hist'[K - (n + 1)], log)
              \/ /\ n + 1 > 0
                 /\ hist'[K - (n + 1) + 1].at - hist'[K - (n + 1)].at
                      > 3 * SampleMs
  <2>1. CASE Gap
    <3>1. /\ n = 0 /\ K - 1 \in 1..(K - 1) /\ (K - 1) + drop = L
          /\ K - (n + 1) = K - 1 /\ K - (n + 1) + 1 = K
      BY <1>1, <1>2, <1>4, <1>10, <2>1 DEF Gap
    <3>2. hist'[K - 1] = hist[L]
      BY <1>2, <3>1
    <3> QED BY <1>2, <2>1, <3>1, <3>2 DEF Gap
  <2>2. CASE ~Gap
    <3>1. /\ n = samples /\ K - (n + 1) \in 1..(K - 1)
          /\ K - (n + 1) + drop = L - samples
          /\ samples < L
      BY <1>1, <1>2, <1>4, <1>10, <2>2
    <3>2. hist'[K - (n + 1)] = hist[L - samples]
      BY <1>2, <3>1
    <3>3. CASE samples > 0
      <4>1. /\ K - (n + 1) + 1 \in 1..(K - 1)
            /\ K - (n + 1) + 1 + drop = L - samples + 1
        BY <1>1, <1>2, <1>4, <1>10, <3>1, <3>3
      <4>2. hist'[K - (n + 1) + 1] = hist[L - samples + 1]
        BY <1>2, <4>1
      <4>3. n + 1 > 0
        BY <1>4
      <4> QED BY <1>6, <3>1, <3>2, <3>3, <4>2, <4>3
    <3>4. CASE samples = 0
      BY <1>6, <3>1, <3>2, <3>4
    <3> QED BY <1>1, <3>3, <3>4
  <2> QED BY <2>1, <2>2
<1>11. Run(hist', n + 1, log)
  BY <1>7, <1>8, <1>9, <1>10 DEF Run, K
<1>12. CASE n = 0
  <2>1. SuspectSince = now
    BY <1>12 DEF SuspectSince, n
  <2>2. n + 1 <= K /\ K - (n + 1) + 1 = K /\ ~(n + 1 > K)
    BY <1>1, <1>2, <1>12
  <2>3. Began(hist', n + 1, SuspectSince)
    BY <1>2, <2>1, <2>2 DEF Began, K
  <2> QED BY <1>4, <1>5, <1>11, <2>3 DEF n
<1>13. CASE n > 0
  <2>1. SuspectSince = suspect_ms /\ n = samples
    BY <1>4, <1>13 DEF SuspectSince, n
  <2>2. /\ samples <= L => suspect_ms = hist[L - samples + 1].at
        /\ samples > L => suspect_ms <= hist[1].at
    BY <1>13, <2>1 DEF HistInv, Began, L
  <2>3. ASSUME n + 1 <= K PROVE suspect_ms = hist'[K - (n + 1) + 1].at
    <3>1. /\ K - (n + 1) + 1 \in 1..(K - 1)
          /\ K - (n + 1) + 1 + drop = L - samples + 1
          /\ samples <= L
      BY <1>1, <1>2, <1>4, <1>13, <2>1, <2>3
    <3>2. hist'[K - (n + 1) + 1] = hist[L - samples + 1]
      BY <1>2, <3>1
    <3> QED BY <2>2, <3>1, <3>2
  <2>4. ASSUME n + 1 > K PROVE suspect_ms <= hist'[1].at
    <3>1. drop = 1 /\ L = MinSamples /\ K = L /\ samples >= L
      BY <1>1, <1>2, <1>6, <2>1, <2>4
    <3>2. suspect_ms <= hist[1].at /\ 1 \in 1..L
      BY <1>1, <2>2, <3>1
    <3>3. CASE K = 1
      <4>1. hist[1].at <= now
        <5>1. hist # <<>> /\ L = 1
          BY <3>1, <3>3 DEF L
        <5> QED BY <5>1 DEF HistInv, L
      <4> QED BY <1>1, <1>2, <3>2, <3>3, <4>1
    <3>4. CASE K > 1
      <4>1. hist'[1] = hist[2] /\ 2 \in 1..L
        BY <1>1, <1>2, <3>1, <3>4
      <4>2. hist[2].at - hist[1].at >= (2 - 1) * SampleMs
        BY <3>2, <4>1 DEF HistInv, Spaced, L
      <4> QED BY <1>1, <3>2, <4>1, <4>2
    <3> QED BY <1>1, <1>2, <3>3, <3>4
  <2>5. Began(hist', n + 1, SuspectSince)
    BY <2>1, <2>3, <2>4 DEF Began, K
  <2> QED BY <1>4, <1>5, <1>11, <2>5 DEF n
<1> QED BY <1>4, <1>12, <1>13

-----------------------------------------------------------------------------
(* A sample that does not count leaves no run. *)
LEMMA NoRun ==
  ASSUME NEW h \in Seq([at : Nat, suspect : BOOLEAN]), Len(h) > 0,
         NEW requests, ~Counts(h[Len(h)], requests), NEW t
  PROVE  Run(h, 0, requests) /\ Began(h, 0, t)
<1>1. Len(h) \in Nat /\ Len(h) - 0 = Len(h)
  OBVIOUS
<1> QED BY <1>1 DEF Run, Began

(* HistInv from its parts, after a sample. *)
LEMMA SampledHistInv ==
  ASSUME TypeOK, HistInv, Due, NEW bad \in BOOLEAN, Sampled(bad), now' = now,
         Run(hist', samples', log'), Began(hist', samples', suspect_ms')
  PROVE  HistInv' /\ hist' \in Seq([at : Nat, suspect : BOOLEAN])
         /\ next_sample_ms' \in Nat
<1>0. PICK drop \in 0..1 : Shifted(drop, bad)
  BY SampledHist DEF HistInv
<1>1. /\ Spaced(hist')
      /\ hist'[Len(hist')].at = now
      /\ next_sample_ms' = hist'[Len(hist')].at + SampleMs
  BY SampledSpaced
<1>2. hist' \in Seq([at : Nat, suspect : BOOLEAN]) /\ hist' # <<>>
      /\ Len(hist') <= MinSamples
  <2>1. hist' \in Seq([at : Nat, suspect : BOOLEAN])
        /\ Len(hist') > 0 /\ Len(hist') <= MinSamples
    BY <1>0 DEF Shifted
  <2>2. hist' # <<>>
    BY <2>1
  <2> QED BY <2>1, <2>2
<1>3. now \in Nat /\ SampleMs \in Nat
  BY Constants DEF TypeOK
<1>4. hist'[Len(hist')].at <= now'
  BY <1>1, <1>3
<1> QED BY <1>1, <1>2, <1>3, <1>4 DEF HistInv

LEMMA InitInv == Init => IInv
<1> SUFFICES ASSUME Init PROVE IInv
  OBVIOUS
<1> USE Constants DEF Init
<1>1. TypeOK
  <2>1. failed \in BOOLEAN /\ active \in BOOLEAN
    BY Zenon
  <2>2. now \in 0..TimeBound
    OBVIOUS
  <2>3. log \in Seq(Nat) /\ hist \in Seq([at : Nat, suspect : BOOLEAN])
    OBVIOUS
  <2> QED BY <2>1, <2>2, <2>3 DEF TypeOK
<1>2. PlaceInv
  BY DEF PlaceInv, DarkOnlyWhenDisabled
<1>3. RingInv /\ RateLimited
  BY DEF RingInv, RateLimited
<1>4. HistInv
  BY DEF HistInv, Spaced, Run, Began
<1> QED BY <1>1, <1>2, <1>3, <1>4 DEF IInv

LEMMA TickInv ==
  ASSUME IInv, NEW d \in 1..MaxDelay, Tick(d)
  PROVE  IInv'
<1> USE DEF IInv, Tick, policyVars
<1>1. now \in Nat /\ now' \in 0..TimeBound /\ now <= now'
  BY Constants DEF TypeOK
<1>2. TypeOK' /\ PlaceInv'
  <2>1. TypeOK'
    BY <1>1 DEF TypeOK
  <2> QED BY <2>1 DEF PlaceInv, DarkOnlyWhenDisabled
<1>3. RingInv'
  <2>1. \A i \in 1..Len(log) : log[i] <= now'
    <3>1. \A i \in 1..Len(log) : log[i] \in Nat /\ log[i] <= now
      BY DEF TypeOK, RingInv
    <3> QED BY <1>1, <3>1
  <2> QED BY <2>1 DEF RingInv
<1>4. RateLimited'
  BY DEF RateLimited
<1>5. HistInv'
  <2>1. hist # <<>> => hist[Len(hist)].at <= now'
    <3>1. \A i \in 1..Len(hist) : hist[i].at \in Nat
      BY Entries DEF TypeOK
    <3>2. hist # <<>> => Len(hist) \in 1..Len(hist)
      BY DEF TypeOK
    <3> QED BY <1>1, <3>1, <3>2 DEF HistInv
  <2> QED BY <2>1 DEF HistInv, Spaced, Run, Counts, Began
<1> QED BY <1>2, <1>3, <1>4, <1>5

LEMMA ObserveQuietInv ==
  ASSUME IInv, NEW bad \in BOOLEAN, ObserveQuiet(bad)
  PROVE  /\ IInv'
         /\ hist' # <<>> /\ ~Counts(hist'[Len(hist')], log)
<1> USE DEF IInv, ObserveQuiet
<1>0. PICK drop \in 0..1 : Shifted(drop, bad)
  BY SampledHist DEF HistInv
<1>1. /\ hist' \in Seq([at : Nat, suspect : BOOLEAN]) /\ Len(hist') > 0
      /\ hist'[Len(hist')] = [at |-> now, suspect |-> bad]
  BY <1>0 DEF Shifted
<1>2. ~Counts(hist'[Len(hist')], log)
  <2>1. CASE ~bad
    BY <1>1, <2>1 DEF Counts
  <2>2. CASE now < cooldown_until_ms
    <3>1. now \in Nat /\ CooldownMs \in Nat
      BY Constants DEF TypeOK
    <3>2. log # <<>> /\ now < log[Len(log)] + CooldownMs
      BY <2>2, <3>1 DEF RingInv
    <3>3. log[Len(log)] \in Nat
      BY <3>2 DEF TypeOK
    <3> QED BY <1>1, <3>1, <3>2, <3>3 DEF Counts
  <2> QED BY <2>1, <2>2
<1>3. Run(hist', samples', log') /\ Began(hist', samples', suspect_ms')
  BY <1>1, <1>2, NoRun
<1>4. HistInv' /\ next_sample_ms' \in Nat
  BY <1>3, SampledHistInv
<1>5. TypeOK'
  BY <1>1, <1>4 DEF TypeOK
<1>6. PlaceInv' /\ RingInv' /\ RateLimited'
  BY DEF PlaceInv, DarkOnlyWhenDisabled, RingInv, RateLimited
<1>7. hist' # <<>>
  BY <1>1
<1> QED BY <1>2, <1>4, <1>5, <1>6, <1>7

LEMMA ObserveSuspectInv ==
  ASSUME IInv, ObserveSuspect
  PROVE  IInv'
<1> USE DEF IInv, ObserveSuspect
<1>1. /\ CountedSamples \in Nat /\ SuspectSince \in Nat
      /\ Run(hist', CountedSamples + 1, log)
      /\ Began(hist', CountedSamples + 1, SuspectSince)
  BY SampledRun
<1>2. Run(hist', samples', log') /\ Began(hist', samples', suspect_ms')
  BY <1>1
<1>3. HistInv' /\ hist' \in Seq([at : Nat, suspect : BOOLEAN])
      /\ next_sample_ms' \in Nat
  BY <1>2, SampledHistInv
<1>4. samples' \in Nat /\ suspect_ms' \in Nat
  BY <1>1
<1>5. TypeOK'
  BY <1>3, <1>4 DEF TypeOK
<1>6. PlaceInv' /\ RingInv' /\ RateLimited'
  BY DEF PlaceInv, DarkOnlyWhenDisabled, RingInv, RateLimited
<1> QED BY <1>3, <1>5, <1>6

(* A request takes the slot of the oldest one, and the window has room. *)
LEMMA ObserveRequestsInv ==
  ASSUME IInv, ObserveRequests
  PROVE  IInv'
<1> USE DEF IInv
<1> DEFINE M == MaxAttempts
           L == Len(log)
<1>0. PICK drop \in 0..1 : Shifted(drop, TRUE)
  BY SampledHist DEF HistInv, ObserveRequests
<1>1. /\ hist' \in Seq([at : Nat, suspect : BOOLEAN]) /\ Len(hist') > 0
      /\ hist'[Len(hist')] = [at |-> now, suspect |-> TRUE]
  BY <1>0 DEF Shifted
<1>2. /\ M \in Nat /\ M > 0 /\ L \in Nat /\ now \in Nat
      /\ log \in Seq(Nat) /\ CooldownMs \in Nat /\ CooldownMs > 0
      /\ AttemptWindowMs \in Nat /\ attempts = L
  BY Constants DEF TypeOK, RingInv
<1>3. /\ log' \in Seq(Nat) /\ Len(log') = L + 1 /\ log'[L + 1] = now
      /\ \A i \in 1..L : log'[i] = log[i]
      /\ log' # <<>>
  BY <1>2 DEF ObserveRequests
<1>4. ~Counts(hist'[Len(hist')], log')
  BY <1>1, <1>2, <1>3 DEF Counts
<1>5. Run(hist', samples', log') /\ Began(hist', samples', suspect_ms')
  BY <1>1, <1>4, NoRun DEF ObserveRequests
<1>6. HistInv' /\ next_sample_ms' \in Nat
  BY <1>5, SampledHistInv DEF ObserveRequests
<1>7. SuspectSince \in Nat
  BY SampledRun DEF ObserveRequests
<1>8. TypeOK'
  <2>1. attempts_ms' \in [0..(M - 1) -> Nat]
    BY <1>2 DEF ObserveRequests, TypeOK
  <2>2. cooldown_until_ms' \in Nat /\ attempts' \in Nat /\ samples' \in Nat
        /\ suspect_ms' \in Nat
    BY <1>2, <1>7 DEF ObserveRequests, TypeOK
  <2> QED BY <1>1, <1>3, <1>6, <2>1, <2>2 DEF ObserveRequests, TypeOK
<1>9. PlaceInv'
  BY DEF PlaceInv, DarkOnlyWhenDisabled, ObserveRequests, Due
<1>10. RingInv'
  <2>1. attempts' = Len(log')
    BY <1>2, <1>3 DEF ObserveRequests
  <2>2. \A i \in 1..L : log[i] <= now /\ log[i] \in Nat
    BY <1>2 DEF RingInv
  <2>3. \A i \in 1..(L + 1) : log'[i] <= now
    BY <1>2, <1>3, <2>2
  <2>4. ASSUME NEW i \in 1..(L + 1), NEW j \in 1..(L + 1), i <= j
        PROVE  log'[i] <= log'[j]
    <3>1. CASE j = L + 1
      BY <1>3, <2>3, <3>1
    <3>2. CASE j < L + 1
      <4>1. i \in 1..L /\ j \in 1..L
        BY <1>2, <2>4, <3>2
      <4> QED BY <1>3, <2>4, <4>1 DEF RingInv
    <3> QED BY <1>2, <3>1, <3>2
  <2>5. ASSUME NEW i \in 1..(L + 1), i + M > L + 1
        PROVE  attempts_ms'[(i - 1) % M] = log'[i]
    <3>1. attempts_ms' = [attempts_ms EXCEPT ![L % M] = now]
          /\ L % M \in 0..(M - 1)
          /\ DOMAIN attempts_ms = 0..(M - 1)
      BY <1>2, DivMod DEF ObserveRequests, TypeOK
    <3>2. CASE i = L + 1
      <4>1. i - 1 = L
        BY <1>2, <3>2
      <4>2. attempts_ms'[L % M] = now
        BY <3>1
      <4> QED BY <1>3, <3>2, <4>1, <4>2
    <3>3. CASE i < L + 1
      <4>1. i \in 1..L /\ i + M > L /\ i - 1 \in Nat /\ i - 1 < L
            /\ L - (i - 1) < M
        BY <1>2, <2>5, <3>3
      <4>2. (i - 1) % M # L % M /\ (i - 1) % M \in 0..(M - 1)
        <5>1. M \in Nat /\ M > 0 /\ L \in Nat /\ i - 1 \in Int
          BY <1>2
        <5>2. (i - 1) % M # L % M
          BY <4>1, <5>1, DistinctSlots
        <5>3. (i - 1) % M \in 0..(M - 1)
          BY <5>1, DivMod
        <5> QED BY <5>2, <5>3
      <4>3. attempts_ms[(i - 1) % M] = log[i]
        BY <4>1 DEF RingInv
      <4>4. attempts_ms'[(i - 1) % M] = attempts_ms[(i - 1) % M]
        BY <3>1, <4>2
      <4> QED BY <1>3, <4>1, <4>3, <4>4
    <3> QED BY <1>2, <3>2, <3>3
  <2>6. cooldown_until_ms' = log'[Len(log')] + CooldownMs
    BY <1>3 DEF ObserveRequests
  <2>7. now' = now
    BY DEF ObserveRequests
  <2> HIDE DEF L, M
  <2> QED BY <1>3, <2>1, <2>3, <2>4, <2>5, <2>6, <2>7 DEF RingInv, M
<1>11. RateLimited'
  <2> SUFFICES ASSUME NEW i \in 1..(L + 1), i + M <= L + 1
               PROVE  log'[i + M] - log'[i] >= AttemptWindowMs
    BY <1>3 DEF RateLimited
  <2>1. i \in 1..L /\ log'[i] = log[i]
    <3>1. M \in Nat /\ M > 0 /\ L \in Nat
      BY <1>2
    <3>2. i \in 1..L
      BY <3>1
    <3> QED BY <1>3, <3>2
  <2>2. CASE i + M <= L
    <3>1. i + M \in 1..L
      BY <1>2, <2>1, <2>2
    <3> QED BY <1>3, <2>1, <2>2, <3>1 DEF RateLimited
  <2>3. CASE i + M = L + 1
    <3>1. Room
      BY RoomInRing DEF ObserveRequests
    <3>2. L - M + 1 = i /\ ~(L < M)
      BY <1>2, <2>1, <2>3
    <3>3. now - log[i] >= AttemptWindowMs
      BY <3>1, <3>2 DEF Room
    <3> QED BY <1>3, <2>1, <2>3, <3>3
  <2> QED BY <1>2, <2>1, <2>2, <2>3
<1> QED BY <1>6, <1>8, <1>9, <1>10, <1>11

(* The steps of an attempt touch neither the policy nor its history. *)
LEMMA AttemptInv ==
  ASSUME IInv, NEW ok \in BOOLEAN,
         Guard(ok) \/ Test(ok) \/ CommitOff(ok) \/ CommitOn(ok) \/ Rollback(ok)
  PROVE  IInv'
<1>1. UNCHANGED <<now, policyVars, log, hist>>
  BY DEF Guard, Test, CommitOff, CommitOn, Rollback
<1>2. RingInv' /\ RateLimited' /\ HistInv'
  BY <1>1 DEF IInv, policyVars, RingInv, RateLimited, HistInv, Spaced, Run,
              Counts, Began
<1>3. failed \in BOOLEAN /\ active \in BOOLEAN
      /\ place \in {"loop", "guard", "test", "off", "on", "rollback"}
  BY DEF IInv, TypeOK
<1>4. failed' \in BOOLEAN
  BY <1>3, Zenon DEF Guard, Test, CommitOff, CommitOn, Rollback, Finish
<1>5. active' \in BOOLEAN
  BY <1>3, Zenon DEF Guard, Test, CommitOff, CommitOn, Rollback, Finish
<1>6. place' \in {"loop", "guard", "test", "off", "on", "rollback"}
  BY <1>3 DEF Guard, Test, CommitOff, CommitOn, Rollback, Finish
<1>7. TypeOK'
  BY <1>1, <1>4, <1>5, <1>6 DEF IInv, TypeOK, policyVars
<1>8. PlaceInv'
  BY <1>3 DEF IInv, PlaceInv, DarkOnlyWhenDisabled, Guard, Test, CommitOff,
              CommitOn, Rollback, Finish
<1> QED BY <1>2, <1>7, <1>8 DEF IInv

LEMMA NextInv ==
  ASSUME IInv, [Next]_vars
  PROVE  IInv'
<1>1. ASSUME NEW d \in 1..MaxDelay, Tick(d) PROVE IInv'
  BY <1>1, TickInv
<1>2. ASSUME NEW bad \in BOOLEAN, ObserveQuiet(bad) PROVE IInv'
  BY <1>2, ObserveQuietInv
<1>3. CASE ObserveSuspect
  BY <1>3, ObserveSuspectInv
<1>4. CASE ObserveRequests
  BY <1>4, ObserveRequestsInv
<1>5. ASSUME NEW ok \in BOOLEAN,
             \/ Guard(ok) \/ Test(ok) \/ CommitOff(ok) \/ CommitOn(ok)
             \/ Rollback(ok)
      PROVE  IInv'
  BY <1>5, AttemptInv
<1>6. CASE UNCHANGED vars
  BY <1>6 DEF vars, policyVars, IInv, TypeOK, PlaceInv, DarkOnlyWhenDisabled,
              RingInv, RateLimited, HistInv, Spaced, Run, Counts, Began
<1> QED BY <1>1, <1>2, <1>3, <1>4, <1>5, <1>6, Zenon DEF Next

-----------------------------------------------------------------------------
(* The inductive invariant holds: the ring of the policy and its run of    *)
(* samples agree with the whole history of poll_sdi_resync.                *)
THEOREM Inductive == Spec => []IInv
<1>1. Init => IInv
  BY InitInv
<1>2. IInv /\ [Next]_vars => IInv'
  BY NextInv
<1> QED BY <1>1, <1>2, PTL DEF Spec

(* The fields of Policy keep their types, and no step leaves the places    *)
(* of reinitialize_sdi_output.                                             *)
THEOREM TypeCorrect == Spec => []TypeOK
<1>1. IInv => TypeOK
  BY DEF IInv
<1> QED BY <1>1, Inductive, PTL

(* observe admits at most MaxAttempts requests in any rolling window, for  *)
(* every window and every number of attempts: the ring never forgets a     *)
(* request that is still in the window.                                    *)
THEOREM RateLimitedHolds == Spec => []RateLimited
<1>1. IInv => RateLimited
  BY DEF IInv
<1> QED BY <1>1, Inductive, PTL

(* Whatever commit of reinitialize_sdi_output fails, an output left dark   *)
(* has its watchdog disabled.                                              *)
THEOREM DarkOnlyWhenDisabledHolds == Spec => []DarkOnlyWhenDisabled
<1>1. IInv => DarkOnlyWhenDisabled
  BY DEF IInv, PlaceInv
<1> QED BY <1>1, Inductive, PTL

(* After a failed attempt poll_sdi_resync requests nothing and the output  *)
(* stays as it is.                                                         *)
THEOREM FailureIsFinalHolds == Spec => FailureIsFinal
<1>1. ASSUME IInv, [Next]_vars, failed
      PROVE  failed' /\ UNCHANGED <<log, active>>
  <2>1. place = "loop"
    BY <1>1 DEF IInv, PlaceInv
  <2>2. CASE UNCHANGED vars
    BY <1>1, <2>2 DEF vars
  <2>3. ASSUME NEW d \in 1..MaxDelay, Tick(d)
        PROVE  failed' /\ UNCHANGED <<log, active>>
    BY <1>1, <2>3 DEF Tick
  <2>4. ~Due
    BY <1>1 DEF Due
  <2>5. \A ok \in BOOLEAN : ~(\/ Guard(ok) \/ Test(ok) \/ CommitOff(ok)
                              \/ CommitOn(ok) \/ Rollback(ok))
    BY <2>1 DEF Guard, Test, CommitOff, CommitOn, Rollback
  <2> QED BY <1>1, <2>2, <2>3, <2>4, <2>5
          DEF Next, ObserveQuiet, ObserveSuspect, ObserveRequests
<1>2. IInv /\ [Next]_vars => [failed => failed' /\ UNCHANGED <<log, active>>]_vars
  BY <1>1
<1> QED BY <1>2, Inductive, PTL DEF Spec, FailureIsFinal

(* A run of MinSamples is what Evidence asks for, and the other way round. *)
LEMMA EvidenceIsDebounced ==
  ASSUME IInv, Due, Sampled(TRUE), now >= cooldown_until_ms
  PROVE  Evidence(hist', log) <=> Debounced
<1> DEFINE n == CountedSamples + 1
           K == Len(hist')
<1> USE DEF IInv
<1>0. PICK drop \in 0..1 : Shifted(drop, TRUE)
  BY SampledHist DEF HistInv
<1>1. /\ CountedSamples \in Nat /\ SuspectSince \in Nat
      /\ Run(hist', n, log) /\ Began(hist', n, SuspectSince)
  BY SampledRun
<1>2. Spaced(hist') /\ hist'[K].at = now
  BY SampledSpaced
<1>3. /\ K \in Nat /\ K > 0 /\ K <= MinSamples
      /\ \A i \in 1..K : hist'[i].at \in Nat
      /\ MinSamples \in Nat /\ MinSamples > 0 /\ now \in Nat
      /\ DebounceMs \in Nat /\ SampleMs \in Nat /\ n \in Nat /\ n > 0
  <2>1. K \in Nat /\ \A i \in 1..K : hist'[i].at \in Nat
    BY <1>0, Entries DEF Shifted
  <2>2. K > 0 /\ K <= MinSamples
    BY <1>0 DEF Shifted
  <2> QED BY <1>1, <2>1, <2>2, Constants DEF TypeOK
<1>4. /\ n > K => K = MinSamples
      /\ \A i \in 1..K : i + n > K => Counts(hist'[i], log)
      /\ \A i \in 1..(K - 1) :
           i + n > K => hist'[i + 1].at - hist'[i].at <= 3 * SampleMs
      /\ n < K =>
           \/ ~Counts(hist'[K - n], log)
           \/ n > 0 /\ hist'[K - n + 1].at - hist'[K - n].at > 3 * SampleMs
  BY <1>1 DEF Run
<1>5. /\ n <= K => SuspectSince = hist'[K - n + 1].at
      /\ n > K => SuspectSince <= hist'[1].at
  BY <1>1, <1>3 DEF Began
<1>6. Debounced <=> n >= MinSamples /\ now - SuspectSince >= DebounceMs
  BY DEF Debounced
<1> HIDE DEF n, K
<1>7. ASSUME Debounced PROVE Evidence(hist', log)
  <2>1. K = MinSamples /\ n >= MinSamples
    BY <1>3, <1>4, <1>6, <1>7
  <2>2. \A i \in 1..MinSamples : Counts(hist'[i], log)
    <3>1. \A i \in 1..MinSamples : i + n > K
      BY <1>3, <2>1
    <3> QED BY <1>4, <2>1, <3>1
  <2>3. \A i \in 1..(MinSamples - 1) :
          hist'[i + 1].at - hist'[i].at <= 3 * SampleMs
    <3>1. \A i \in 1..(MinSamples - 1) : i + n > K
      BY <1>3, <2>1
    <3> QED BY <1>4, <2>1, <3>1
  <2>4. hist'[MinSamples].at - hist'[1].at >= (MinSamples - 1) * SampleMs
    <3>1. 1 \in 1..K /\ K \in 1..K /\ 1 <= K
      BY <1>3
    <3> QED BY <1>2, <2>1, <3>1 DEF Spaced, K
  <2>5. hist'[MinSamples].at - hist'[1].at >= DebounceMs
    <3>1. hist'[MinSamples].at \in Nat /\ hist'[1].at \in Nat
      BY <1>3, <2>1
    <3>2. DebounceMs <= (MinSamples - 1) * SampleMs
          /\ (MinSamples - 1) * SampleMs \in Int
      BY <1>3, EvidenceAssumption
    <3> QED BY <1>3, <2>4, <3>1, <3>2
  <2> QED BY <2>1, <2>2, <2>3, <2>5 DEF Evidence, Counts, K
<1>8. ASSUME Evidence(hist', log) PROVE Debounced
  <2>1. /\ K = MinSamples
        /\ \A i \in 1..K : Counts(hist'[i], log)
        /\ \A i \in 1..(K - 1) : hist'[i + 1].at - hist'[i].at <= 3 * SampleMs
        /\ hist'[K].at - hist'[1].at >= DebounceMs
    BY <1>8 DEF Evidence, Counts, K
  <2>2. n >= K
    <3> SUFFICES ASSUME n < K PROVE FALSE
      BY <1>3
    <3>1. K - n \in 1..K /\ K - n \in 1..(K - 1)
      BY <1>3
    <3>2. hist'[K - n + 1].at - hist'[K - n].at > 3 * SampleMs
      BY <1>4, <2>1, <3>1
    <3>3. hist'[K - n + 1].at - hist'[K - n].at <= 3 * SampleMs
      BY <2>1, <3>1
    <3>4. K - n + 1 \in 1..K
      BY <1>3
    <3> QED BY <1>3, <3>1, <3>2, <3>3, <3>4
  <2>3. SuspectSince <= hist'[1].at
    <3>1. CASE n = K
      <4>1. K - n + 1 = 1 /\ n <= K /\ 1 \in 1..K
        BY <1>3, <3>1
      <4> QED BY <1>3, <1>5, <4>1
    <3>2. CASE n > K
      BY <1>5, <3>2
    <3> QED BY <1>3, <2>2, <3>1, <3>2
  <2>4. now - SuspectSince >= DebounceMs
    <3>1. hist'[1].at \in Nat
      BY <1>3
    <3> QED BY <1>1, <1>2, <1>3, <2>1, <2>3, <3>1 DEF K
  <2> QED BY <1>3, <1>6, <2>1, <2>2, <2>4
<1> QED BY <1>7, <1>8

(* observe requests a modeset exactly on MinSamples suspect samples in a   *)
(* row, outside the cooldown, without a delay of the loop among them, and  *)
(* with room in the window.                                                *)
THEOREM RequestIffEvidenceHolds == Spec => RequestIffEvidence
<1> DEFINE Few == Cardinality({i \in 1..Len(log) : now - log[i] < AttemptWindowMs})
                    < MaxAttempts
           Right == hist' # hist => (log' # log <=> Evidence(hist', log) /\ Few)
<1>1. ASSUME IInv, Next PROVE Right
  <2>1. Few <=> Recent < MaxAttempts
    BY <1>1, RoomInRing, RoomInLog DEF IInv
  <2> HIDE DEF Few
  <2>2. CASE hist' = hist
    BY <2>2
  <2>3. ASSUME NEW bad \in BOOLEAN, ObserveQuiet(bad) PROVE Right
    <3>1. ~Counts(hist'[Len(hist')], log)
      BY <1>1, <2>3, ObserveQuietInv
    <3>2. ~Evidence(hist', log)
      <4>1. MinSamples \in 1..MinSamples
        BY Constants
      <4> QED BY <3>1, <4>1 DEF Evidence, Counts
    <3> QED BY <2>3, <3>2 DEF ObserveQuiet
  <2>4. CASE ObserveSuspect
    <3>1. Evidence(hist', log) <=> Debounced
      BY <1>1, <2>4, EvidenceIsDebounced DEF ObserveSuspect
    <3>2. ~Debounced \/ ~(Recent < MaxAttempts)
      <4>1. Recent >= MaxAttempts => ~(Recent < MaxAttempts)
        <5>1. IsFiniteSet(0..(MaxAttempts - 1))
          BY Constants, FS_Interval
        <5>2. Recent \in Nat
          BY <5>1, FS_Subset, FS_CardinalityType DEF Recent
        <5> QED BY <5>2, Constants
      <4> QED BY <2>4, <4>1 DEF ObserveSuspect
    <3> QED BY <2>1, <2>4, <3>1, <3>2 DEF ObserveSuspect
  <2>5. CASE ObserveRequests
    <3>1. Evidence(hist', log) <=> Debounced
      BY <1>1, <2>5, EvidenceIsDebounced DEF ObserveRequests
    <3>2. log' # log
      <4>1. log \in Seq(Nat) /\ log' = Append(log, now) /\ now \in Nat
        BY <1>1, <2>5 DEF IInv, TypeOK, ObserveRequests
      <4> QED BY <4>1
    <3> QED BY <2>1, <2>5, <3>1, <3>2 DEF ObserveRequests
  <2>6. ASSUME NEW d \in 1..MaxDelay, Tick(d) PROVE hist' = hist
    BY <2>6 DEF Tick
  <2>7. ASSUME NEW ok \in BOOLEAN,
               \/ Guard(ok) \/ Test(ok) \/ CommitOff(ok) \/ CommitOn(ok)
               \/ Rollback(ok)
        PROVE  hist' = hist
    BY <2>7 DEF Guard, Test, CommitOff, CommitOn, Rollback
  <2> QED BY <1>1, <2>2, <2>3, <2>4, <2>5, <2>6, <2>7, Zenon DEF Next
<1>2. IInv /\ [Next]_vars => [Right]_vars
  BY <1>1
<1> QED BY <1>2, Inductive, PTL DEF Spec, RequestIffEvidence
=============================================================================
