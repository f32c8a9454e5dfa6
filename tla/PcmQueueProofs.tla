--------------------------- MODULE PcmQueueProofs ---------------------------
(***************************************************************************)
(* Proofs about PcmQueue for every chunk, queue bound and period size.     *)
(* IInv adds to the checked invariants what a drain in progress keeps:     *)
(* each full write takes one chunk off, so after `attempts' of them the    *)
(* rest fits in what MaxAttempts can still take.                           *)
(***************************************************************************)
EXTENDS PcmQueue, SequenceTheorems, TLAPS

(* While the device takes everything, attempts chunks are gone already. *)
DrainProgress ==
  draining /\ ~refused =>
    \/ Len(pending) + attempts * Chunk <= MaxFrames
    \/ pending = <<>>

IInv ==
  /\ TypeOK
  /\ InOrderOnce
  /\ EveryFrameAccounted
  /\ BoundedQueue
  /\ DrainProgress
  /\ FullDrain

-----------------------------------------------------------------------------
(* What erasing from the front of a sequence leaves. *)
LEMMA EraseFrontFacts ==
  ASSUME NEW s \in Seq(Nat), NEW n \in Nat, n <= Len(s)
  PROVE  /\ EraseFront(s, n) \in Seq(Nat)
         /\ Len(EraseFront(s, n)) = Len(s) - n
         /\ \A i \in 1..(Len(s) - n) : EraseFront(s, n)[i] = s[i + n]
  BY DEF EraseFront

(* The arrivals appended by a call continue the numbering of the queue. *)
LEMMA AppendedFacts ==
  ASSUME TypeOK, InOrderOnce, NEW n \in Nat
  PROVE  /\ Appended(n) \in Seq(Nat)
         /\ Len(Appended(n)) = Len(pending) + n
         /\ \A i \in 1..(Len(pending) + n) :
               Appended(n)[i] = fed - Len(pending) + i
<1> DEFINE new == [i \in 1..n |-> fed + i]
<1>1. new \in Seq(Nat) /\ Len(new) = n
  BY DEF TypeOK
<1>2. Appended(n) = pending \o new
  BY DEF Appended
<1>3. pending \in Seq(Nat) /\ fed \in Nat /\ Len(pending) \in Nat
  BY DEF TypeOK
<1> HIDE DEF new
<1>4. Appended(n) \in Seq(Nat) /\ Len(Appended(n)) = Len(pending) + n
  BY <1>1, <1>2, <1>3, ConcatProperties
<1>5. ASSUME NEW i \in 1..(Len(pending) + n)
      PROVE  Appended(n)[i] = fed - Len(pending) + i
  <2>1. CASE i <= Len(pending)
    BY <1>1, <1>2, <1>3, <2>1 DEF InOrderOnce
  <2>2. CASE i > Len(pending)
    <3>1. Appended(n)[i] = new[i - Len(pending)]
      BY <1>1, <1>2, <1>3, <2>2
    <3>2. i - Len(pending) \in 1..n
      BY <1>3, <2>2
    <3> QED BY <3>1, <3>2, <1>3 DEF new
  <2> QED BY <2>1, <2>2, <1>3
<1> QED BY <1>4, <1>5

-----------------------------------------------------------------------------
(* Adding to one counter changes no other. *)
LEMMA BumpFacts ==
  \A st \in [StatNames -> Nat], name \in StatNames, n \in Nat :
     /\ Bump(st, name, n) \in [StatNames -> Nat]
     /\ Bump(st, name, n)[name] = st[name] + n
     /\ \A other \in StatNames :
           other # name => Bump(st, name, n)[other] = st[other]
<1> TAKE st \in [StatNames -> Nat], name \in StatNames, n \in Nat
<1>1. st[name] + n \in Nat
  OBVIOUS
<1> QED BY <1>1 DEF Bump

-----------------------------------------------------------------------------
LEMMA InitIInv == Init => IInv
<1> SUFFICES ASSUME Init PROVE IInv
  OBVIOUS
<1>1. pending = <<>> /\ Len(pending) = 0 /\ hw = <<>> /\ Len(hw) = 0
      /\ pending \in Seq(Nat) /\ hw \in Seq(Nat)
  BY DEF Init
<1>2. TypeOK
  <2>1. stats \in [StatNames -> Nat]
    BY DEF Init
  <2>2. started \in BOOLEAN /\ shortTail \in BOOLEAN /\ draining \in BOOLEAN
        /\ refused \in BOOLEAN
    BY Zenon DEF Init
  <2>3. attempts \in 0..MaxAttempts /\ calls \in 0..CallBound
        /\ fed \in Nat /\ discarded \in Nat
    BY PcmAssumption DEF Init
  <2> QED BY <1>1, <2>1, <2>2, <2>3 DEF TypeOK
<1>3. InOrderOnce
  BY <1>1 DEF InOrderOnce
<1>4. EveryFrameAccounted
  BY <1>1 DEF Init, EveryFrameAccounted, StatNames
<1>5. BoundedQueue /\ FullDrain
  BY <1>1, PcmAssumption DEF BoundedQueue, FullDrain
<1>6. DrainProgress
  BY <1>1 DEF DrainProgress
<1> QED BY <1>2, <1>3, <1>4, <1>5, <1>6 DEF IInv

LEMMA StopIInv == IInv /\ StopSink => IInv'
<1> SUFFICES ASSUME IInv, StopSink PROVE IInv'
  OBVIOUS
<1>1. pending' = <<>> /\ Len(pending') = 0 /\ pending' \in Seq(Nat)
      /\ hw' = hw /\ fed' = fed /\ stats' = stats
      /\ discarded' = discarded + Len(pending)
  BY DEF StopSink
<1>2. /\ fed \in Nat /\ discarded \in Nat /\ Len(pending) \in Nat
      /\ hw \in Seq(Nat) /\ stats \in [StatNames -> Nat]
  BY DEF IInv, TypeOK
<1>3. TypeOK'
  <2>1. started' \in BOOLEAN /\ shortTail' \in BOOLEAN
        /\ draining' \in BOOLEAN /\ refused' \in BOOLEAN
    BY Zenon DEF IInv, TypeOK, StopSink
  <2>2. attempts' \in 0..MaxAttempts /\ calls' \in 0..CallBound
        /\ discarded' \in Nat
    BY <1>1, <1>2 DEF IInv, TypeOK, StopSink
  <2> QED BY <1>1, <1>2, <2>1, <2>2 DEF TypeOK
<1>4. InOrderOnce'
  <2>1. \A i \in DOMAIN hw : hw[i] \in Nat /\ hw[i] <= fed
    BY <1>2 DEF IInv, InOrderOnce
  <2> QED BY <1>1, <1>2, <2>1 DEF IInv, InOrderOnce
<1>5. EveryFrameAccounted'
  <2>1. stats["accepted"] \in Nat /\ stats["dropped"] \in Nat
    BY <1>2 DEF StatNames
  <2> QED BY <1>1, <1>2, <2>1 DEF IInv, EveryFrameAccounted
<1>6. BoundedQueue' /\ FullDrain'
  BY <1>1, PcmAssumption DEF BoundedQueue, FullDrain
<1>7. DrainProgress'
  BY <1>1 DEF DrainProgress
<1> QED BY <1>3, <1>4, <1>5, <1>6, <1>7 DEF IInv

LEMMA FeedIInv ==
  ASSUME IInv, NEW n \in 1..MaxPeriod, Feed(n)
  PROVE  IInv'
<1>1. /\ MaxFrames \in Nat /\ Chunk \in Nat /\ n \in Nat
      /\ fed \in Nat /\ pending \in Seq(Nat) /\ Len(pending) \in Nat
      /\ CallBound \in Nat /\ MaxAttempts \in Nat
  BY PcmAssumption DEF IInv, TypeOK
<1>2. /\ Excess(n) \in Nat /\ Excess(n) <= Len(pending) + n
      /\ Len(pending) + n - Excess(n) <= MaxFrames
  BY <1>1 DEF Excess
<1>3. /\ pending' \in Seq(Nat)
      /\ Len(pending') = Len(pending) + n - Excess(n)
      /\ \A i \in 1..Len(pending') :
            pending'[i] = fed - Len(pending) + i + Excess(n)
  <2>1. /\ Appended(n) \in Seq(Nat)
        /\ Len(Appended(n)) = Len(pending) + n
        /\ \A i \in 1..(Len(pending) + n) :
              Appended(n)[i] = fed - Len(pending) + i
    BY AppendedFacts, <1>1 DEF IInv
  <2>2. pending' = EraseFront(Appended(n), Excess(n))
    BY DEF Feed
  <2> DEFINE a == Appended(n)
             e == Excess(n)
  <2>3. a \in Seq(Nat) /\ e \in Nat /\ e <= Len(a)
    BY <1>2, <2>1
  <2> HIDE DEF a, e
  <2>4. /\ EraseFront(a, e) \in Seq(Nat)
        /\ Len(EraseFront(a, e)) = Len(a) - e
        /\ \A i \in 1..(Len(a) - e) : EraseFront(a, e)[i] = a[i + e]
    BY <2>3, EraseFrontFacts
  <2>5. /\ pending' \in Seq(Nat)
        /\ Len(pending') = Len(pending) + n - e
        /\ \A i \in 1..(Len(pending) + n - e) : pending'[i] = a[i + e]
    <3>1. Len(a) = Len(pending) + n
      BY <2>1 DEF a
    <3>2. pending' = EraseFront(a, e)
      BY <2>2 DEF a, e
    <3>3. pending' \in Seq(Nat)
      BY <2>4, <3>2
    <3>4. Len(pending') = Len(a) - e
      BY <2>4, <3>2
    <3>5. \A i \in 1..(Len(a) - e) : pending'[i] = a[i + e]
      BY <2>4, <3>2
    <3>6. Len(a) - e = Len(pending) + n - e
      BY <1>1, <2>3, <3>1
    <3> QED BY <3>3, <3>4, <3>5, <3>6
  <2>6. ASSUME NEW i \in 1..(Len(pending) + n - e)
        PROVE  a[i + e] = fed - Len(pending) + (i + e)
    <3>1. i + e \in 1..(Len(pending) + n)
      BY <1>1, <2>3
    <3> QED BY <2>1, <3>1 DEF a
  <2>7. ASSUME NEW i \in 1..Len(pending')
        PROVE  pending'[i] = fed - Len(pending) + i + e
    <3>1. i \in 1..(Len(pending) + n - e)
      BY <2>5
    <3>2. pending'[i] = fed - Len(pending) + (i + e)
      BY <2>5, <2>6, <3>1
    <3> QED BY <1>1, <2>3, <3>1, <3>2
  <2> QED BY <2>5, <2>7 DEF e
<1>4. fed' = fed + n /\ hw' = hw /\ discarded' = discarded
  BY DEF Feed
<1>5. stats' \in [StatNames -> Nat]
      /\ stats'["dropped"] = stats["dropped"] + Excess(n)
      /\ stats'["accepted"] = stats["accepted"]
      /\ stats'["playback"] = stats["playback"] + (IF Excess(n) > 0 THEN 1 ELSE 0)
  <2> DEFINE one == IF Excess(n) > 0 THEN 1 ELSE 0
             st == Bump(stats, "dropped", Excess(n))
  <2>1. stats' = Bump(st, "playback", one)
    BY DEF Feed
  <2>2. one \in Nat /\ stats \in [StatNames -> Nat]
        /\ "accepted" \in StatNames /\ "dropped" \in StatNames
        /\ "playback" \in StatNames
    BY DEF IInv, TypeOK, StatNames
  <2>3. /\ st \in [StatNames -> Nat]
        /\ st["dropped"] = stats["dropped"] + Excess(n)
        /\ st["accepted"] = stats["accepted"]
        /\ st["playback"] = stats["playback"]
    BY <1>2, <2>2 DEF Bump
  <2> HIDE DEF one, st
  <2>4. /\ stats' \in [StatNames -> Nat]
        /\ stats'["playback"] = st["playback"] + one
        /\ stats'["dropped"] = st["dropped"]
        /\ stats'["accepted"] = st["accepted"]
    BY <2>1, <2>2, <2>3 DEF Bump
  <2> QED BY <2>3, <2>4 DEF one
<1>6. TypeOK'
  <2>1. started' \in BOOLEAN /\ draining' \in BOOLEAN /\ refused' \in BOOLEAN
    BY Zenon DEF IInv, TypeOK, Feed
  <2>2. shortTail' \in BOOLEAN
    BY DEF Feed
  <2>3. attempts' \in 0..MaxAttempts /\ calls' \in 0..CallBound
        /\ fed' \in Nat /\ discarded' \in Nat
    BY <1>1, <1>4 DEF IInv, TypeOK, Feed
  <2>4. hw' \in Seq(Nat)
    BY <1>4 DEF IInv, TypeOK
  <2> QED BY <1>3, <1>5, <2>1, <2>2, <2>3, <2>4 DEF TypeOK
<1>7. InOrderOnce'
  <2>1. DOMAIN pending' = 1..Len(pending') /\ Len(pending') \in Nat
    BY <1>3
  <2>2. DOMAIN hw = 1..Len(hw) /\ \A i \in DOMAIN hw : hw[i] \in Nat
    BY DEF IInv, TypeOK
  <2>3. fed' - Len(pending') = fed - Len(pending) + Excess(n)
    BY <1>1, <1>2, <1>3, <1>4
  <2>4. \A i \in DOMAIN hw' : hw'[i] <= fed' - Len(pending')
    BY <1>1, <1>2, <1>4, <2>2, <2>3 DEF IInv, InOrderOnce
  <2>5. \A i \in DOMAIN pending' : pending'[i] = fed' - Len(pending') + i
    BY <1>1, <1>2, <1>3, <2>1, <2>3
  <2>6. \A i, j \in DOMAIN hw' : i < j => hw'[i] < hw'[j]
    BY <1>4 DEF IInv, InOrderOnce
  <2> QED BY <2>4, <2>5, <2>6 DEF InOrderOnce
<1>8. EveryFrameAccounted'
  <2>1. /\ stats["accepted"] \in Nat /\ stats["dropped"] \in Nat
        /\ stats["playback"] \in Nat /\ discarded \in Nat
    BY DEF IInv, TypeOK, StatNames
  <2>2. /\ Len(hw) = stats["accepted"]
        /\ stats["accepted"] + stats["dropped"] + discarded + Len(pending) = fed
        /\ stats["dropped"] > 0 => stats["playback"] > 0
    BY DEF IInv, EveryFrameAccounted
  <2>3. Len(hw') = stats'["accepted"]
    BY <1>4, <1>5, <2>2
  <2>4. stats'["accepted"] + stats'["dropped"] + discarded' + Len(pending') = fed'
    <3>1. stats'["accepted"] = stats["accepted"]
          /\ stats'["dropped"] = stats["dropped"] + Excess(n)
          /\ Len(pending') = Len(pending) + n - Excess(n)
      BY <1>3, <1>5
    <3> DEFINE acc == stats["accepted"]
               dr == stats["dropped"]
               len == Len(pending)
               x == Excess(n)
    <3>2. /\ acc \in Nat /\ dr \in Nat /\ discarded \in Nat /\ len \in Nat
          /\ n \in Nat /\ x \in Nat /\ acc + dr + discarded + len = fed
      BY <1>1, <1>2, <2>1, <2>2
    <3> HIDE DEF acc, dr, len, x
    <3>3. acc + (dr + x) + discarded + (len + n - x) = fed + n
      BY <3>2
    <3> QED BY <1>4, <3>1, <3>3 DEF acc, dr, len, x
  <2>5. stats'["dropped"] > 0 => stats'["playback"] > 0
    BY <1>2, <1>5, <2>1, <2>2, SMTT(30)
  <2> QED BY <2>3, <2>4, <2>5 DEF EveryFrameAccounted
<1>9. BoundedQueue' /\ FullDrain'
  BY <1>1, <1>2, <1>3 DEF Feed, BoundedQueue, FullDrain
<1>10. DrainProgress'
  BY <1>1, <1>2, <1>3 DEF Feed, DrainProgress
<1> QED BY <1>6, <1>7, <1>8, <1>9, <1>10 DEF IInv

LEMMA AcceptIInv ==
  ASSUME IInv, NEW k \in 1..Chunk, WriteAccepts(k)
  PROVE  IInv'
<1>1. /\ Chunk \in Nat /\ k \in Nat /\ MaxFrames \in Nat
      /\ MaxAttempts \in Nat /\ attempts \in Nat /\ attempts < MaxAttempts
      /\ fed \in Nat /\ discarded \in Nat
      /\ pending \in Seq(Nat) /\ Len(pending) \in Nat
      /\ hw \in Seq(Nat) /\ Len(hw) \in Nat
  BY PcmAssumption DEF IInv, TypeOK, WriteAccepts, InLoop, LoopDone
<1>2. k <= Requested /\ Requested <= Len(pending) /\ Requested <= Chunk
      /\ Requested \in Nat
  BY <1>1 DEF WriteAccepts, Requested, Min2
<1>3. /\ pending' \in Seq(Nat)
      /\ Len(pending') = Len(pending) - k
      /\ \A i \in 1..Len(pending') : pending'[i] = pending[i + k]
  <2>1. pending' = EraseFront(pending, k) /\ k <= Len(pending)
    BY <1>1, <1>2 DEF WriteAccepts
  <2>2. /\ EraseFront(pending, k) \in Seq(Nat)
        /\ Len(EraseFront(pending, k)) = Len(pending) - k
        /\ \A i \in 1..(Len(pending) - k) :
              EraseFront(pending, k)[i] = pending[i + k]
    BY <1>1, <2>1, EraseFrontFacts
  <2> QED BY <2>1, <2>2
<1> DEFINE front == SubSeq(pending, 1, k)
<1>4. /\ front \in Seq(Nat) /\ Len(front) = k
      /\ \A i \in 1..k : front[i] = pending[i]
  BY <1>1, <1>2
<1>5. hw' = hw \o front
  BY DEF WriteAccepts
<1> HIDE DEF front
<1>6. /\ hw' \in Seq(Nat)
      /\ Len(hw') = Len(hw) + k
      /\ \A i \in 1..(Len(hw) + k) :
            hw'[i] = IF i <= Len(hw) THEN hw[i] ELSE front[i - Len(hw)]
  <2>1. hw \o front \in Seq(Nat) /\ Len(hw \o front) = Len(hw) + k
    BY <1>1, <1>4, ConcatProperties
  <2>2. ASSUME NEW i \in 1..(Len(hw) + k)
        PROVE  (hw \o front)[i] =
                 IF i <= Len(hw) THEN hw[i] ELSE front[i - Len(hw)]
    BY <1>1, <1>4
  <2> QED BY <1>5, <2>1, <2>2
<1>7. fed' = fed /\ discarded' = discarded /\ draining /\ draining' = draining
      /\ attempts' = attempts + 1
  BY DEF WriteAccepts, InLoop
<1>8. /\ stats' \in [StatNames -> Nat]
      /\ stats'["dropped"] = stats["dropped"]
      /\ stats'["accepted"] = stats["accepted"] + k
      /\ stats'["playback"] = stats["playback"]
  <2> DEFINE one == IF k < Requested THEN 1 ELSE 0
             st == Bump(stats, "accepted", k)
  <2>1. stats' = Bump(st, "short", one)
    BY DEF WriteAccepts
  <2>2. one \in Nat /\ stats \in [StatNames -> Nat]
        /\ "accepted" \in StatNames /\ "dropped" \in StatNames
        /\ "playback" \in StatNames /\ "short" \in StatNames
    BY DEF IInv, TypeOK, StatNames
  <2>3. /\ st \in [StatNames -> Nat]
        /\ st["accepted"] = stats["accepted"] + k
        /\ st["dropped"] = stats["dropped"]
        /\ st["playback"] = stats["playback"]
    BY <1>1, <2>2 DEF Bump
  <2> HIDE DEF one, st
  <2>4. /\ stats' \in [StatNames -> Nat]
        /\ stats'["accepted"] = st["accepted"]
        /\ stats'["dropped"] = st["dropped"]
        /\ stats'["playback"] = st["playback"]
    BY <2>1, <2>2, <2>3 DEF Bump
  <2> QED BY <2>3, <2>4
<1>9. TypeOK'
  BY <1>1, <1>3, <1>6, <1>7, <1>8, SMTT(30) DEF WriteAccepts, IInv, TypeOK
<1>10. InOrderOnce'
  <2>1. /\ \A i, j \in 1..Len(hw) : i < j => hw[i] < hw[j]
        /\ \A i \in 1..Len(hw) : hw[i] \in Nat /\ hw[i] <= fed - Len(pending)
        /\ \A i \in 1..Len(pending) : pending[i] = fed - Len(pending) + i
    BY <1>1 DEF IInv, InOrderOnce
  <2>2. DOMAIN hw' = 1..(Len(hw) + k) /\ DOMAIN pending' = 1..(Len(pending) - k)
    BY <1>3, <1>6
  <2>3. \A i \in DOMAIN pending' : pending'[i] = fed' - Len(pending') + i
    <3> TAKE i \in DOMAIN pending'
    <3>1. i \in 1..(Len(pending) - k) /\ i + k \in 1..Len(pending)
      BY <1>1, <1>2, <2>2
    <3>2. pending'[i] = pending[i + k]
      BY <1>3, <3>1
    <3>3. pending[i + k] = fed - Len(pending) + (i + k)
      BY <2>1, <3>1
    <3> QED BY <1>1, <1>3, <1>7, <3>1, <3>2, <3>3
  <2>4. \A i \in (Len(hw) + 1)..(Len(hw) + k) :
           hw'[i] = fed - Len(pending) + (i - Len(hw))
    <3> TAKE i \in (Len(hw) + 1)..(Len(hw) + k)
    <3>1. i - Len(hw) \in 1..k /\ i \in 1..(Len(hw) + k) /\ ~(i <= Len(hw))
      BY <1>1
    <3>2. i - Len(hw) \in 1..Len(pending)
      BY <3>1, <1>1, <1>2
    <3>3. hw'[i] = front[i - Len(hw)]
      BY <1>6, <3>1
    <3> QED BY <3>1, <3>2, <3>3, <1>4, <2>1
  <2>5. \A i \in 1..Len(hw) : hw'[i] = hw[i]
    BY <1>1, <1>6
  <2>6. \A i \in DOMAIN hw' : hw'[i] <= fed' - Len(pending')
    <3> TAKE i \in DOMAIN hw'
    <3>1. i \in 1..(Len(hw) + k)
      BY <2>2
    <3>2. fed' - Len(pending') = fed - Len(pending) + k
      BY <1>1, <1>3, <1>7
    <3>3. CASE i <= Len(hw)
      <4>1. i \in 1..Len(hw)
        BY <1>1, <3>1, <3>3
      <4>2. hw'[i] \in Nat /\ hw'[i] <= fed - Len(pending)
        BY <2>1, <2>5, <4>1
      <4> QED BY <1>1, <3>2, <4>2
    <3>4. CASE i > Len(hw)
      <4>1. i \in (Len(hw) + 1)..(Len(hw) + k)
        BY <1>1, <3>1, <3>4
      <4>2. hw'[i] = fed - Len(pending) + (i - Len(hw))
        BY <2>4, <4>1
      <4> QED BY <1>1, <3>2, <4>1, <4>2
    <3> QED BY <1>1, <3>1, <3>3, <3>4
  <2>7. \A i, j \in DOMAIN hw' : i < j => hw'[i] < hw'[j]
    <3> SUFFICES ASSUME NEW i \in 1..(Len(hw) + k), NEW j \in 1..(Len(hw) + k),
                        i < j
                 PROVE  hw'[i] < hw'[j]
      BY <2>2
    <3>1. CASE j <= Len(hw)
      <4>1. i \in 1..Len(hw) /\ j \in 1..Len(hw)
        BY <1>1, <3>1
      <4> QED BY <2>1, <2>5, <4>1
    <3>2. CASE i <= Len(hw) /\ j > Len(hw)
      <4>1. i \in 1..Len(hw) /\ j \in (Len(hw) + 1)..(Len(hw) + k)
        BY <1>1, <3>2
      <4>2. hw'[i] \in Nat /\ hw'[i] <= fed - Len(pending)
        BY <2>1, <2>5, <4>1
      <4>3. hw'[j] = fed - Len(pending) + (j - Len(hw))
        BY <2>4, <4>1
      <4> QED BY <1>1, <4>1, <4>2, <4>3
    <3>3. CASE i > Len(hw) /\ j > Len(hw)
      <4>1. /\ i \in (Len(hw) + 1)..(Len(hw) + k)
            /\ j \in (Len(hw) + 1)..(Len(hw) + k)
        BY <1>1, <3>3
      <4>2. /\ hw'[i] = fed - Len(pending) + (i - Len(hw))
            /\ hw'[j] = fed - Len(pending) + (j - Len(hw))
        BY <2>4, <4>1
      <4> QED BY <1>1, <4>1, <4>2
    <3> QED BY <1>1, <3>1, <3>2, <3>3
  <2> QED BY <2>3, <2>6, <2>7 DEF InOrderOnce
<1>11. EveryFrameAccounted'
  <2>1. /\ stats["accepted"] \in Nat /\ stats["dropped"] \in Nat
        /\ Len(hw) = stats["accepted"]
        /\ stats["accepted"] + stats["dropped"] + discarded + Len(pending) = fed
        /\ stats["dropped"] > 0 => stats["playback"] > 0
    BY DEF IInv, EveryFrameAccounted, TypeOK, StatNames
  <2>2. Len(hw') = Len(hw) + k /\ Len(pending') = Len(pending) - k
    BY <1>3, <1>6
  <2>3. /\ Len(hw') = stats'["accepted"]
        /\ stats'["accepted"] + stats'["dropped"] + discarded' + Len(pending') = fed'
    <3> DEFINE acc == stats["accepted"]
               dr == stats["dropped"]
               len == Len(pending)
    <3>1. /\ acc \in Nat /\ dr \in Nat /\ discarded \in Nat /\ len \in Nat
          /\ k \in Nat /\ acc + dr + discarded + len = fed
      BY <1>1, <2>1
    <3> HIDE DEF acc, dr, len
    <3>2. (acc + k) + dr + discarded + (len - k) = fed
      BY <3>1
    <3> QED BY <1>7, <1>8, <2>1, <2>2, <3>2 DEF acc, dr, len
  <2> QED BY <1>8, <2>1, <2>3 DEF EveryFrameAccounted
<1>12. BoundedQueue' /\ FullDrain'
  BY <1>1, <1>3, <1>7 DEF IInv, BoundedQueue, FullDrain
<1>13. DrainProgress'
  <2>1. SUFFICES ASSUME ~refused', pending' # <<>>
                 PROVE  Len(pending') + attempts' * Chunk <= MaxFrames
    BY DEF DrainProgress
  <2>2. ~refused /\ k = Requested
    <3>1. ~refused /\ ~(k < Requested)
      BY <2>1 DEF WriteAccepts
    <3> QED BY <1>1, <1>2, <3>1
  <2>3. k = Chunk
    <3>1. Len(pending') > 0
      BY <1>3, <2>1, EmptySeq
    <3> QED BY <1>1, <1>3, <2>2, <3>1 DEF Requested, Min2
  <2>4. Len(pending) + attempts * Chunk <= MaxFrames
    BY <1>3, <2>1, <2>2, <2>3, <1>7, <1>1, EmptySeq DEF IInv, DrainProgress
  <2>5. (attempts + 1) * Chunk = attempts * Chunk + Chunk
    BY <1>1
  <2>6. attempts * Chunk \in Nat
    BY <1>1
  <2> QED BY <1>1, <1>3, <1>7, <2>3, <2>4, <2>5, <2>6
<1> QED BY <1>9, <1>10, <1>11, <1>12, <1>13 DEF IInv

(* A step that leaves the queue, the device and the counters of frames    *)
(* alone keeps the accounting.                                            *)
LEMMA QuietStep ==
  ASSUME IInv, pending' = pending, hw' = hw, fed' = fed,
         discarded' = discarded, stats'["accepted"] = stats["accepted"],
         stats'["dropped"] = stats["dropped"],
         stats'["playback"] \in Nat, stats'["playback"] >= stats["playback"],
         stats["playback"] \in Nat
  PROVE  InOrderOnce' /\ EveryFrameAccounted' /\ BoundedQueue'
<1>1. InOrderOnce' /\ BoundedQueue'
  BY DEF IInv, InOrderOnce, BoundedQueue
<1>2. EveryFrameAccounted'
  BY DEF IInv, EveryFrameAccounted
<1> QED BY <1>1, <1>2

LEMMA StartIInv ==
  ASSUME IInv, StartSink
  PROVE  IInv'
<1>1. InOrderOnce' /\ EveryFrameAccounted' /\ BoundedQueue'
  <2>1. stats["playback"] \in Nat
    BY DEF IInv, TypeOK, StatNames
  <2> QED BY QuietStep, <2>1 DEF StartSink
<1>2. TypeOK'
  <2>1. started' \in BOOLEAN /\ shortTail' \in BOOLEAN
        /\ draining' \in BOOLEAN /\ refused' \in BOOLEAN
    BY Zenon DEF IInv, TypeOK, StartSink
  <2>2. calls' \in 0..CallBound
    BY PcmAssumption DEF IInv, TypeOK, StartSink
  <2> QED BY <2>1, <2>2 DEF IInv, TypeOK, StartSink
<1>3. DrainProgress' /\ FullDrain'
  BY DEF IInv, StartSink, DrainProgress, FullDrain
<1> QED BY <1>1, <1>2, <1>3 DEF IInv

LEMMA RejectIInv ==
  ASSUME IInv, RejectPeriod
  PROVE  IInv'
<1>1. /\ stats' \in [StatNames -> Nat]
      /\ stats'["accepted"] = stats["accepted"]
      /\ stats'["dropped"] = stats["dropped"]
      /\ stats'["playback"] = stats["playback"]
      /\ stats["playback"] \in Nat
  <2>1. /\ stats \in [StatNames -> Nat]
        /\ "accepted" \in StatNames /\ "dropped" \in StatNames
        /\ "playback" \in StatNames /\ "unsupported" \in StatNames
    BY DEF IInv, TypeOK, StatNames
  <2> QED BY <2>1 DEF RejectPeriod, Bump
<1>2. InOrderOnce' /\ EveryFrameAccounted' /\ BoundedQueue'
  BY QuietStep, <1>1 DEF RejectPeriod
<1>3. TypeOK'
  <2>1. calls' \in 0..CallBound
    BY PcmAssumption DEF IInv, TypeOK, RejectPeriod
  <2> QED BY <1>1, <2>1 DEF IInv, TypeOK, RejectPeriod
<1>4. DrainProgress' /\ FullDrain'
  BY DEF IInv, RejectPeriod, DrainProgress, FullDrain
<1> QED BY <1>2, <1>3, <1>4 DEF IInv

(* Where the loop ends by itself, MaxAttempts full writes have emptied any *)
(* queue that BoundedQueue allows.                                        *)
LEMMA EndIInv ==
  ASSUME IInv, EndDrain
  PROVE  IInv'
<1>1. stats["playback"] \in Nat
  BY DEF IInv, TypeOK, StatNames
<1>2. InOrderOnce' /\ EveryFrameAccounted' /\ BoundedQueue'
  BY QuietStep, <1>1 DEF EndDrain
<1>3. draining' \in BOOLEAN
  BY Zenon DEF EndDrain
<1>4. TypeOK'
  BY <1>3 DEF IInv, TypeOK, EndDrain
<1>5. DrainProgress'
  BY DEF EndDrain, DrainProgress
<1>6. FullDrain'
  <2> SUFFICES ASSUME ~refused PROVE Len(pending) < Chunk
    BY DEF EndDrain, FullDrain
  <2>1. /\ Chunk \in Nat /\ Chunk > 0 /\ MaxFrames \in Nat
        /\ MaxAttempts \in Nat /\ attempts \in Nat
        /\ attempts <= MaxAttempts /\ Len(pending) \in Nat
        /\ MaxFrames < (MaxAttempts + 1) * Chunk
    BY PcmAssumption DEF IInv, TypeOK
  <2>2. CASE pending = <<>>
    BY <2>1, <2>2
  <2>3. CASE pending # <<>> /\ attempts >= MaxAttempts
    <3>1. attempts = MaxAttempts
      BY <2>1, <2>3
    <3>2. Len(pending) + MaxAttempts * Chunk <= MaxFrames
      BY <2>3, <3>1 DEF IInv, DrainProgress, EndDrain
    <3>3. (MaxAttempts + 1) * Chunk = MaxAttempts * Chunk + Chunk
          /\ MaxAttempts * Chunk \in Nat
      BY <2>1
    <3> QED BY <2>1, <3>2, <3>3
  <2>4. CASE Len(pending) < Chunk
    BY <2>4
  <2> QED BY <2>2, <2>3, <2>4 DEF EndDrain, LoopDone
<1> QED BY <1>2, <1>4, <1>5, <1>6 DEF IInv

LEMMA BackpressureIInv ==
  ASSUME IInv, NEW eagain \in BOOLEAN, WriteBackpressure(eagain)
  PROVE  IInv'
<1>1. /\ stats' \in [StatNames -> Nat]
      /\ stats'["accepted"] = stats["accepted"]
      /\ stats'["dropped"] = stats["dropped"]
      /\ stats'["playback"] = stats["playback"]
      /\ stats["playback"] \in Nat
  <2> DEFINE one == IF eagain THEN 1 ELSE 0
  <2>1. /\ stats \in [StatNames -> Nat]
        /\ "accepted" \in StatNames /\ "dropped" \in StatNames
        /\ "playback" \in StatNames /\ "again" \in StatNames
    BY DEF IInv, TypeOK, StatNames
  <2>2. one \in Nat /\ stats' = Bump(stats, "again", one)
    BY DEF WriteBackpressure
  <2> HIDE DEF one
  <2> QED BY <2>1, <2>2 DEF Bump
<1>2. InOrderOnce' /\ EveryFrameAccounted' /\ BoundedQueue'
  BY QuietStep, <1>1 DEF WriteBackpressure
<1>3. draining' = FALSE /\ refused' = TRUE
  BY DEF WriteBackpressure
<1>4. TypeOK'
  <2>1. draining' \in BOOLEAN /\ refused' \in BOOLEAN
    BY <1>3, Zenon
  <2> QED BY <1>1, <2>1 DEF IInv, TypeOK, WriteBackpressure
<1>5. DrainProgress' /\ FullDrain'
  BY <1>3 DEF DrainProgress, FullDrain
<1> QED BY <1>2, <1>4, <1>5 DEF IInv

LEMMA FailsIInv ==
  ASSUME IInv, NEW err, NEW prepared \in BOOLEAN, WriteFails(err, prepared)
  PROVE  IInv'
<1>1. /\ stats' \in [StatNames -> Nat]
      /\ stats'["accepted"] = stats["accepted"]
      /\ stats'["dropped"] = stats["dropped"]
      /\ stats'["playback"] >= stats["playback"]
      /\ stats["playback"] \in Nat
      /\ stats'["playback"] \in Nat
  <2> DEFINE x == IF err = "EPIPE" THEN 1 ELSE 0
             r == IF prepared THEN 0 ELSE 1
             p == IF prepared THEN 1 ELSE 2
  <2>1. /\ stats \in [StatNames -> Nat]
        /\ "accepted" \in StatNames /\ "dropped" \in StatNames
        /\ "playback" \in StatNames /\ "xruns" \in StatNames
        /\ "recovery" \in StatNames
    BY DEF IInv, TypeOK, StatNames
  <2>2. x \in Nat /\ r \in Nat /\ p \in Nat
    OBVIOUS
  <2>3. stats' = Bump(Bump(Bump(stats, "xruns", x), "recovery", r),
                      "playback", p)
    BY DEF WriteFails
  <2> HIDE DEF x, r, p
  <2> QED BY <2>1, <2>2, <2>3 DEF Bump
<1>2. InOrderOnce' /\ EveryFrameAccounted' /\ BoundedQueue'
  BY QuietStep, <1>1 DEF WriteFails
<1>3. draining' = FALSE /\ refused' = TRUE
  BY DEF WriteFails
<1>4. TypeOK'
  <2>1. draining' \in BOOLEAN /\ refused' \in BOOLEAN
    BY <1>3, Zenon
  <2> QED BY <1>1, <2>1 DEF IInv, TypeOK, WriteFails
<1>5. DrainProgress' /\ FullDrain'
  BY <1>3 DEF DrainProgress, FullDrain
<1> QED BY <1>2, <1>4, <1>5 DEF IInv

-----------------------------------------------------------------------------
(* The inductive invariant holds in every reachable state. *)
THEOREM Inductive == Spec => []IInv
<1>1. Init => IInv
  BY InitIInv
<1>2. IInv /\ [Next]_vars => IInv'
  <2> SUFFICES ASSUME IInv, [Next]_vars PROVE IInv'
    OBVIOUS
  <2>1. CASE StartSink
    BY <2>1, StartIInv
  <2>2. CASE StopSink
    BY <2>2, StopIInv
  <2>3. CASE \E n \in 1..MaxPeriod : Feed(n)
    BY <2>3, FeedIInv
  <2>4. CASE RejectPeriod
    BY <2>4, RejectIInv
  <2>5. CASE EndDrain
    BY <2>5, EndIInv
  <2>6. CASE \E k \in 1..Chunk : WriteAccepts(k)
    BY <2>6, AcceptIInv
  <2>7. CASE \E eagain \in BOOLEAN : WriteBackpressure(eagain)
    BY <2>7, BackpressureIInv
  <2>8. CASE \E err \in {"EPIPE", "ESTRPIPE", "EIO"}, prepared \in BOOLEAN :
               WriteFails(err, prepared)
    BY <2>8, FailsIInv
  <2>9. CASE UNCHANGED vars
    BY <2>9 DEF vars, IInv, TypeOK, InOrderOnce, EveryFrameAccounted,
       BoundedQueue, DrainProgress, FullDrain
  <2> QED BY <2>1, <2>2, <2>3, <2>4, <2>5, <2>6, <2>7, <2>8, <2>9
          DEF Next, DrainStep
<1> QED BY <1>1, <1>2, PTL DEF Spec

(* Every variable of the playback queue keeps its type, for every size. *)
THEOREM TypeCorrect == Spec => []TypeOK
<1>1. IInv => TypeOK
  BY DEF IInv
<1> QED BY <1>1, Inductive, PTL

(* The queue of rx_audio_playback never repeats, reorders or invents a    *)
(* frame, for every chunk, bound and period.                              *)
THEOREM InOrderOnceHolds == Spec => []InOrderOnce
<1>1. IInv => InOrderOnce
  BY DEF IInv
<1> QED BY <1>1, Inductive, PTL

(* No frame is lost without a counter (or a stop of the sink) saying so. *)
THEOREM AccountingHolds == Spec => []EveryFrameAccounted
<1>1. IInv => EveryFrameAccounted
  BY DEF IInv
<1> QED BY <1>1, Inductive, PTL

(* kAudioQueueMaxFrames bounds the backlog. *)
THEOREM BoundHolds == Spec => []BoundedQueue
<1>1. IInv => BoundedQueue
  BY DEF IInv
<1> QED BY <1>1, Inductive, PTL

(* Where MaxFrames < (MaxAttempts + 1) * Chunk, as 7680 < 17 * 960, one   *)
(* call to a device that takes everything leaves less than a chunk.       *)
THEOREM FullDrainHolds == Spec => []FullDrain
<1>1. IInv => FullDrain
  BY DEF IInv
<1> QED BY <1>1, Inductive, PTL

-----------------------------------------------------------------------------
LEMMA BumpKeepsDropped ==
  ASSUME NEW st \in [StatNames -> Nat], NEW name \in StatNames \ {"dropped"},
         NEW k \in Nat
  PROVE  /\ Bump(st, name, k) \in [StatNames -> Nat]
         /\ Bump(st, name, k)["dropped"] = st["dropped"]
<1>1. /\ Bump(st, name, k) \in [StatNames -> Nat]
      /\ \A other \in StatNames :
            other # name => Bump(st, name, k)[other] = st[other]
  BY BumpFacts
<1>2. "dropped" \in StatNames
  BY DEF StatNames
<1> QED BY <1>1, <1>2

(* Only a call that appends frames counts dropped ones. *)
LEMMA DroppedByFeed ==
  ASSUME IInv, [Next]_vars, stats'["dropped"] > stats["dropped"]
  PROVE  \E n \in 1..MaxPeriod : Feed(n)
<1>1. stats \in [StatNames -> Nat] /\ stats["dropped"] \in Nat
  BY DEF IInv, TypeOK, StatNames
<1>2. stats'["dropped"] # stats["dropped"]
  BY <1>1
<1>3. {"accepted", "again", "short", "xruns", "recovery", "playback",
       "unsupported"} \subseteq StatNames \ {"dropped"}
  BY DEF StatNames
<1>5. ~(StartSink \/ StopSink \/ EndDrain \/ UNCHANGED vars)
  BY <1>2 DEF StartSink, StopSink, EndDrain, vars
<1>6. ASSUME RejectPeriod PROVE FALSE
  <2>1. stats' = Bump(stats, "unsupported", 1)
    BY <1>6 DEF RejectPeriod
  <2>2. Bump(stats, "unsupported", 1)["dropped"] = stats["dropped"]
    BY <1>1, <1>3, BumpKeepsDropped
  <2> QED BY <1>2, <2>1, <2>2
<1>7. ASSUME NEW k \in 1..Chunk, WriteAccepts(k) PROVE FALSE
  <2>1. PICK s \in Nat :
          stats' = Bump(Bump(stats, "accepted", k), "short", s)
    BY <1>7 DEF WriteAccepts
  <2>2. k \in Nat
    BY PcmAssumption
  <2>3. PICK a \in [StatNames -> Nat] :
          a = Bump(stats, "accepted", k) /\ a["dropped"] = stats["dropped"]
    BY <1>1, <1>3, BumpKeepsDropped, <2>2
  <2>4. Bump(a, "short", s)["dropped"] = a["dropped"]
    BY <1>3, BumpKeepsDropped
  <2> QED BY <1>2, <2>1, <2>3, <2>4
<1>8. ASSUME NEW eagain \in BOOLEAN, WriteBackpressure(eagain) PROVE FALSE
  <2>1. PICK s \in Nat : stats' = Bump(stats, "again", s)
    BY <1>8 DEF WriteBackpressure
  <2> QED BY <1>1, <1>2, <1>3, BumpKeepsDropped, <2>1
<1>9. ASSUME NEW err, NEW prepared \in BOOLEAN, WriteFails(err, prepared)
      PROVE  FALSE
  <2>1. PICK x \in Nat, r \in Nat, p \in Nat :
          stats' = Bump(Bump(Bump(stats, "xruns", x), "recovery", r), "playback", p)
    BY <1>9 DEF WriteFails
  <2>2. PICK a \in [StatNames -> Nat] :
          a = Bump(stats, "xruns", x) /\ a["dropped"] = stats["dropped"]
    BY <1>1, <1>3, BumpKeepsDropped
  <2>3. PICK b \in [StatNames -> Nat] :
          b = Bump(a, "recovery", r) /\ b["dropped"] = a["dropped"]
    BY <1>3, BumpKeepsDropped
  <2>4. Bump(b, "playback", p)["dropped"] = b["dropped"]
    BY <1>3, BumpKeepsDropped
  <2> QED BY <1>2, <2>1, <2>2, <2>3, <2>4
<1> QED BY <1>5, <1>6, <1>7, <1>8, <1>9 DEF Next, DrainStep

(* An overflow cuts the oldest frames: the newest frame fed is the last of *)
(* a queue that is exactly full, for every size of queue and period.       *)
THEOREM OverflowKeepsNewestHolds == Spec => OverflowKeepsNewest
<1> DEFINE Kept == stats'["dropped"] > stats["dropped"] =>
                     /\ Len(pending') = MaxFrames
                     /\ pending'[MaxFrames] = fed'
<1>1. IInv /\ [Next]_vars => Kept
  <2> SUFFICES ASSUME IInv, [Next]_vars, stats'["dropped"] > stats["dropped"]
               PROVE  /\ Len(pending') = MaxFrames
                      /\ pending'[MaxFrames] = fed'
    OBVIOUS
  <2>1. PICK n \in 1..MaxPeriod : Feed(n)
    BY DroppedByFeed
  <2>2. IInv'
    BY <2>1, FeedIInv
  <2>3. /\ MaxFrames \in Nat \ {0} /\ n \in Nat /\ Len(pending) \in Nat
        /\ stats \in [StatNames -> Nat] /\ stats["dropped"] \in Nat
    BY PcmAssumption DEF IInv, TypeOK, StatNames
  <2>4. Excess(n) \in Nat
    BY <2>3 DEF Excess
  <2>5. PICK s \in Nat :
          stats' = Bump(Bump(stats, "dropped", Excess(n)), "playback", s)
    BY <2>1 DEF Feed
  <2>6. "dropped" \in StatNames /\ "playback" \in StatNames \ {"dropped"}
    BY DEF StatNames
  <2>7. /\ Bump(stats, "dropped", Excess(n)) \in [StatNames -> Nat]
        /\ Bump(stats, "dropped", Excess(n))["dropped"] = stats["dropped"] + Excess(n)
    <3>1. PICK x \in Nat : x = Excess(n)
      BY <2>4
    <3>2. stats["dropped"] + x \in Nat
      BY <2>3
    <3>3. /\ Bump(stats, "dropped", x) \in [StatNames -> Nat]
          /\ Bump(stats, "dropped", x)["dropped"] = stats["dropped"] + x
      BY <2>3, <2>6, <3>2 DEF Bump
    <3> QED BY <3>1, <3>3
  <2>8. stats'["dropped"] = stats["dropped"] + Excess(n)
    <3>1. PICK a \in [StatNames -> Nat] : a = Bump(stats, "dropped", Excess(n))
      BY <2>7
    <3>2. Bump(a, "playback", s)["dropped"] = a["dropped"]
      BY <2>6, BumpKeepsDropped
    <3> QED BY <2>5, <2>7, <3>1, <3>2
  <2>9. Excess(n) > 0
    BY <2>3, <2>4, <2>8
  <2>10. Len(pending) + n - Excess(n) = MaxFrames /\ Excess(n) <= Len(pending) + n
    BY <2>3, <2>9 DEF Excess
  <2>11. Len(pending') = MaxFrames
    <3>1. Appended(n) \in Seq(Nat) /\ Len(Appended(n)) = Len(pending) + n
      BY <2>3, AppendedFacts DEF IInv
    <3>2. pending' = EraseFront(Appended(n), Excess(n))
      BY <2>1 DEF Feed
    <3>3. Len(pending') = Len(Appended(n)) - Excess(n)
      BY <2>4, <2>10, <3>1, <3>2, EraseFrontFacts
    <3>4. PICK l \in Nat, x \in Nat : l = Len(pending) /\ x = Excess(n)
      BY <2>3, <2>4
    <3>5. l + n - x = (l + n) - x
      BY <2>3
    <3>6. Len(pending') = (l + n) - x /\ l + n - x = MaxFrames
      BY <2>10, <3>1, <3>3, <3>4
    <3> QED BY <3>5, <3>6
  <2>12. pending'[MaxFrames] = fed'
    <3>1. pending' \in Seq(Nat) /\ fed' \in Nat
      BY <2>2 DEF IInv, TypeOK
    <3>2. MaxFrames \in 1..Len(pending') /\ DOMAIN pending' = 1..Len(pending')
      BY <2>3, <2>11, <3>1
    <3>3. pending'[MaxFrames] = fed' - Len(pending') + MaxFrames
      BY <2>2, <3>2 DEF IInv, InOrderOnce
    <3>4. PICK f \in Nat : f = fed'
      BY <3>1
    <3>5. f - MaxFrames + MaxFrames = f
      BY <2>3
    <3> QED BY <2>11, <3>3, <3>4, <3>5
  <2> QED BY <2>11, <2>12
<1>2. Spec => [][Kept]_vars
  BY <1>1, Inductive, PTL DEF Spec
<1> QED BY <1>2 DEF OverflowKeepsNewest

=============================================================================
