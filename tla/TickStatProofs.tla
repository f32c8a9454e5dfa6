--------------------------- MODULE TickStatProofs ---------------------------
(***************************************************************************)
(* Proofs about TickStat for every number of samples, every even modulus,  *)
(* and every interval and clock bound that together stay below Width.      *)
(***************************************************************************)
EXTENDS TickStat, TLAPS

Taking == {"before", "read", "after"}

(* Where the process is tells which samples exist. *)
Progress ==
  /\ pc \in {"loop", "sleep", "done"} => begun
  /\ pc = "start" => ~begun
  /\ ~begun => samples = 0 /\ totalTicks = 0 /\ totalElapsed = 0

(* The clock readings of a sample are taken at or after its deadline, and  *)
(* the deadline is after the samples before it.                            *)
Paced ==
  /\ before <= now
  /\ begun => /\ deadline > previous.timestamp
              /\ pc = "before" => deadline <= now
              /\ pc \in {"read", "after"} => deadline <= before
              /\ samples >= 1 => deadline > older + Interval

(* The loop is not entered again after the signal or with all samples.     *)
Ends ==
  /\ stop /\ begun /\ pc \in Taking \cup {"sleep"} => samples <= atStop
  /\ stop => samples <= atStop + 1
  /\ Requested > 0 => /\ samples <= Requested
                      /\ begun /\ pc \in Taking \cup {"sleep"}
                           => samples < Requested
                      /\ pc = "done" /\ ~stop /\ ~sleepFailed
                           => samples = Requested

(* The inductive invariant, without the totals. *)
IInv == TypeOK /\ Progress /\ Paced /\ Ends

(* The totals, and what the registers held at the readings. *)
Counted ==
  /\ pc = "after" => /\ value = Reg(atRead)
                     /\ atRead <= ticks
                     /\ begun => lastTicks <= atRead
  /\ begun => previous.ticks = Reg(lastTicks) /\ lastTicks <= ticks
  /\ TotalsAreTrue

-----------------------------------------------------------------------------
(* The midpoint of two readings is between them. *)
LEMMA MidpointBounds ==
  ASSUME NEW b \in Nat, NEW t \in Nat, b <= t
  PROVE  /\ b + (t - b) \div 2 \in Nat
         /\ b <= b + (t - b) \div 2
         /\ b + (t - b) \div 2 <= t
  OBVIOUS

(* A deadline made from a time of the clock does not wrap. *)
LEMMA SumExact ==
  ASSUME NEW a \in Nat, a <= TimeBound
  PROVE  Sum(a, Interval) = a + Interval
<1>1. a + Interval \in 0..(Width - 1) /\ Width \in Nat
  BY TickAssumption, DeadlineAssumption
<1>2. \A n \in Nat : \A m \in Nat : n < m => n % m = n
  OBVIOUS
<1> QED BY <1>1, <1>2 DEF Sum

(* A remainder is a value of the counter. *)
LEMMA ModRange ==
  ASSUME NEW a \in Int, NEW m \in Nat, m > 1
  PROVE  a % m \in 0..(m - 1)
  OBVIOUS

(* Division with remainder. *)
LEMMA DivMod ==
  ASSUME NEW a \in Int, NEW m \in Nat, m > 1
  PROVE  /\ a \div m \in Int
         /\ a % m \in 0..(m - 1)
         /\ a = (m * (a \div m)) + (a % m)
  OBVIOUS

(* The only multiple of m between -m and m is 0. *)
LEMMA SmallMultiple ==
  ASSUME NEW m \in Nat, m > 1, NEW q \in Int, -m < m * q, m * q < m
  PROVE  m * q = 0
<1>1. CASE q = 0
  BY <1>1
<1>2. CASE q >= 1
  <2>1. m * q >= m
    BY <1>2
  <2> QED BY <2>1
<1>3. CASE q <= -1
  <2>1. m * q <= -m
    BY <1>3
  <2> QED BY <2>1
<1> QED BY <1>1, <1>2, <1>3

(* There is one remainder. *)
LEMMA Remainder ==
  ASSUME NEW m \in Nat, m > 1, NEW a \in Int, NEW q \in Int,
         NEW r \in 0..(m - 1), a = (m * q) + r
  PROVE  a % m = r
<1> DEFINE p == a \div m
           s == a % m
<1>1. p \in Int /\ s \in 0..(m - 1) /\ a = (m * p) + s
  BY DivMod
<1> HIDE DEF p, s
<1>2. m * (p - q) = (m * p) - (m * q)
  BY <1>1
<1>3. r - s = m * (p - q)
  BY <1>1, <1>2
<1>4. m * (p - q) = 0
  BY <1>1, <1>3, SmallMultiple
<1> QED BY <1>1, <1>3, <1>4 DEF s

(* The difference of two readings of the register, brought back to its     *)
(* width, is the ticks between them up to whole turns, and exact below one.*)
LEMMA DeltaTurns ==
  ASSUME NEW m \in Nat, m > 1, NEW a \in Nat, NEW b \in Nat, b <= a,
         NEW d, d = ((a % m) - (b % m)) % m
  PROVE  /\ \E q \in Int : d - (a - b) = m * q
         /\ a - b < m => d = a - b
<1> DEFINE pa == a \div m
           pb == b \div m
           ra == a % m
           rb == b % m
           pd == (ra - rb) \div m
           delta == (ra - rb) % m
           q == pb - pa - pd
<1>1. pa \in Int /\ ra \in 0..(m - 1) /\ a = (m * pa) + ra
  BY DivMod
<1>2. pb \in Int /\ rb \in 0..(m - 1) /\ b = (m * pb) + rb
  BY DivMod
<1> HIDE DEF pa, pb, ra, rb
<1>3. pd \in Int /\ delta \in 0..(m - 1) /\ ra - rb = (m * pd) + delta
  <2>1. ra - rb \in Int
    BY <1>1, <1>2
  <2> QED BY <2>1, DivMod
<1> HIDE DEF pd, delta
<1>4. m * q = (m * pb) - (m * pa) - (m * pd)
  BY <1>1, <1>2, <1>3
<1>5. q \in Int /\ delta - (a - b) = m * q
  BY <1>1, <1>2, <1>3, <1>4
<1>6. a - b < m => delta = a - b
  <2> SUFFICES ASSUME a - b < m PROVE delta = a - b
    OBVIOUS
  <2>1. -m < m * q /\ m * q < m
    BY <1>3, <1>5
  <2>2. m * q = 0
    BY <1>5, <2>1, SmallMultiple
  <2> QED BY <1>3, <1>5, <2>2
<1> QED BY <1>5, <1>6 DEF delta, ra, rb

LEMMA DeltaOfTicks ==
  ASSUME NEW a \in Nat, NEW b \in Nat, b <= a
  PROVE  LET d == TickDelta(Reg(a), Reg(b))
         IN /\ \E q \in Int : d - (a - b) = Modulus * q
            /\ a - b < Modulus => d = a - b
<1>1. Modulus \in Nat /\ Modulus > 1
  BY TickAssumption
<1> QED BY <1>1, DeltaTurns DEF TickDelta, Reg

(* Whole turns add up to whole turns. *)
LEMMA TurnsAdd ==
  ASSUME NEW m \in Nat, m > 1, NEW x \in Int, NEW q \in Int, x % m = 0
  PROVE  (x + (m * q)) % m = 0
<1> DEFINE p == x \div m
<1>1. p \in Int /\ x = m * p
  BY DivMod
<1> HIDE DEF p
<1>2. m * (p + q) = (m * p) + (m * q)
  BY <1>1
<1>3. x + (m * q) = (m * (p + q)) + 0
  BY <1>1, <1>2
<1>4. 0 \in 0..(m - 1) /\ p + q \in Int /\ x + (m * q) \in Int
  BY <1>1, <1>3
<1> QED BY <1>3, <1>4, Remainder

-----------------------------------------------------------------------------
LEMMA InitInv == Init => IInv
<1> SUFFICES ASSUME Init PROVE IInv
  OBVIOUS
<1> USE TickAssumption
<1>0. ticks \in Nat /\ 0 \in 0..(Modulus - 1) /\ 0 \in 0..TimeBound
  BY DEF Init
<1>1. TypeOK
  <2>1. previous \in [ticks : 0..(Modulus - 1), timestamp : Nat]
    BY <1>0 DEF Init
  <2>2. /\ stop \in BOOLEAN /\ begun \in BOOLEAN /\ overrun \in BOOLEAN
        /\ sleepFailed \in BOOLEAN
    BY DEF Init
  <2> QED BY <1>0, <2>1, <2>2 DEF Init, TypeOK
<1>2. Progress /\ Paced /\ Ends
  BY DEF Init, Progress, Paced, Ends, Taking
<1> QED BY <1>1, <1>2 DEF IInv

(* The steps that touch no sample: time, signals and start-up. *)
LEMMA OutsideInv ==
  ASSUME IInv,
         \/ \E n \in 0..MaxTicks : Elapse(n)
         \/ Signal
         \/ \E half \in -1..(2 * Interval) \cup {2 * Width},
               count \in {-1, Requested} :
              \/ Usage(half, count)
              \/ \E d \in Dirs \cup {"none"} : Start(half, count, d)
         \/ \E d \in Dirs \cup {"none"} : NoDirectory(d)
  PROVE  IInv'
<1> USE TickAssumption DEF IInv
<1>1. ASSUME NEW n \in 0..MaxTicks, Elapse(n) PROVE IInv'
  <2>1. TypeOK'
    BY <1>1 DEF TypeOK, Elapse, sampleVars, statVars, ghostVars, stopVars
  <2>2. Progress' /\ Paced' /\ Ends'
    BY <1>1 DEF TypeOK, Progress, Paced, Ends, Taking, Elapse, sampleVars,
                statVars, ghostVars, stopVars
  <2> QED BY <2>1, <2>2
<1>2. CASE Signal
  <2>1. TypeOK'
    BY <1>2 DEF TypeOK, Signal, sampleVars, statVars, ghostVars, stopVars
  <2>2. Progress' /\ Paced' /\ Ends'
    BY <1>2 DEF TypeOK, Progress, Paced, Ends, Taking, Signal, sampleVars,
                statVars, ghostVars, stopVars
  <2> QED BY <2>1, <2>2
<1>3. ASSUME NEW half \in Int, NEW count \in Int, Usage(half, count) PROVE IInv'
  <2>1. TypeOK'
    BY <1>3 DEF TypeOK, Usage, sampleVars, statVars, ghostVars, stopVars
  <2>2. Progress' /\ Paced' /\ Ends'
    BY <1>3 DEF TypeOK, Progress, Paced, Ends, Taking, Usage, sampleVars,
                statVars, ghostVars, stopVars
  <2> QED BY <2>1, <2>2
<1>4. ASSUME NEW half \in Int, NEW count \in Int, NEW d \in Dirs \cup {"none"},
             Start(half, count, d)
      PROVE  IInv'
  <2>1. directory' \in Dirs
    BY <1>4 DEF Start, find_sysfs_directory, find_in_tree, counter_files_exist
  <2>2. TypeOK'
    BY <1>4, <2>1 DEF TypeOK, Start, sampleVars, statVars, ghostVars, stopVars
  <2>3. Progress' /\ Paced' /\ Ends'
    BY <1>4 DEF TypeOK, Progress, Paced, Ends, Taking, Start, sampleVars,
                statVars, ghostVars, stopVars
  <2> QED BY <2>2, <2>3
<1>5. ASSUME NEW d \in Dirs \cup {"none"}, NoDirectory(d) PROVE IInv'
  <2>1. TypeOK'
    BY <1>5 DEF TypeOK, NoDirectory, sampleVars, statVars, ghostVars, stopVars
  <2>2. Progress' /\ Paced' /\ Ends'
    BY <1>5 DEF TypeOK, Progress, Paced, Ends, Taking, NoDirectory, sampleVars,
                statVars, ghostVars, stopVars
  <2> QED BY <2>1, <2>2
<1> QED BY <1>1, <1>2, <1>3, <1>4, <1>5

(* Reading the clock and the counter. *)
LEMMA ReadInv ==
  ASSUME IInv, ReadBefore \/ ReadCounter \/ ReadFails
  PROVE  IInv'
<1> USE TickAssumption DEF IInv
<1>1. CASE ReadBefore
  <2>1. TypeOK'
    BY <1>1 DEF TypeOK, ReadBefore, statVars, ghostVars, stopVars
  <2>2. Progress' /\ Paced' /\ Ends'
    BY <1>1 DEF TypeOK, Progress, Paced, Ends, Taking, ReadBefore,
                statVars, ghostVars, stopVars
  <2> QED BY <2>1, <2>2
<1>2. CASE ReadCounter
  <2>1. Reg(ticks) \in 0..(Modulus - 1)
    BY ModRange DEF TypeOK, Reg
  <2>2. TypeOK'
    BY <1>2, <2>1 DEF TypeOK, ReadCounter, statVars, ghostVars, stopVars
  <2>3. Progress' /\ Paced' /\ Ends'
    BY <1>2 DEF TypeOK, Progress, Paced, Ends, Taking, ReadCounter,
                statVars, ghostVars, stopVars
  <2> QED BY <2>2, <2>3
<1>3. CASE ReadFails
  <2>1. TypeOK'
    BY <1>3 DEF TypeOK, ReadFails, sampleVars, statVars, ghostVars, stopVars
  <2>2. Progress' /\ Paced' /\ Ends'
    BY <1>3 DEF TypeOK, Progress, Paced, Ends, Taking, ReadFails, sampleVars,
                statVars, ghostVars, stopVars
  <2> QED BY <2>1, <2>2
<1> QED BY <1>1, <1>2, <1>3

(* The loop and its sleep. *)
LEMMA LoopInv ==
  ASSUME IInv, Loop \/ Wake \/ Interrupted \/ SleepFails
  PROVE  IInv'
<1> USE TickAssumption DEF IInv
<1>1. CASE Loop
  <2>1. TypeOK'
    BY <1>1 DEF TypeOK, Loop, sampleVars, statVars, ghostVars, stopVars
  <2>2. Progress' /\ Paced' /\ Ends'
    BY <1>1 DEF TypeOK, Progress, Paced, Ends, Taking, Loop, sampleVars,
                statVars, ghostVars, stopVars
  <2> QED BY <2>1, <2>2
<1>2. CASE Wake
  <2>1. TypeOK'
    BY <1>2 DEF TypeOK, Wake, sampleVars, statVars, ghostVars, stopVars
  <2>2. Progress' /\ Paced' /\ Ends'
    BY <1>2 DEF TypeOK, Progress, Paced, Ends, Taking, Wake, sampleVars,
                statVars, ghostVars, stopVars
  <2> QED BY <2>1, <2>2
<1>3. CASE Interrupted
  <2>1. TypeOK'
    BY <1>3 DEF TypeOK, Interrupted, sampleVars, statVars, ghostVars, stopVars
  <2>2. Progress' /\ Paced' /\ Ends'
    BY <1>3 DEF TypeOK, Progress, Paced, Ends, Taking, Interrupted, sampleVars,
                statVars, ghostVars, stopVars
  <2> QED BY <2>1, <2>2
<1>4. CASE SleepFails
  <2>1. TypeOK'
    BY <1>4 DEF TypeOK, SleepFails, sampleVars, statVars, ghostVars
  <2>2. Progress' /\ Paced' /\ Ends'
    BY <1>4 DEF TypeOK, Progress, Paced, Ends, Taking, SleepFails, sampleVars,
                statVars, ghostVars
  <2> QED BY <2>1, <2>2
<1> QED BY <1>1, <1>2, <1>3, <1>4

(* The first sample. *)
LEMMA FirstInv ==
  ASSUME IInv, FirstSample
  PROVE  IInv'
<1> USE TickAssumption DEF IInv
<1>1. /\ Midpoint(now) \in Nat /\ before <= Midpoint(now)
      /\ Midpoint(now) <= TimeBound
  BY MidpointBounds DEF TypeOK, Paced, Midpoint
<1>2. /\ Sample(now) \in [ticks : 0..(Modulus - 1), timestamp : Nat]
      /\ Sample(now).timestamp = Midpoint(now)
      /\ Sum(Sample(now).timestamp, Interval) = Midpoint(now) + Interval
  BY <1>1, SumExact DEF TypeOK, Sample
<1>3. TypeOK'
  BY <1>1, <1>2 DEF TypeOK, FirstSample, sampleVars, statVars, stopVars
<1>4. Progress' /\ Paced' /\ Ends'
  BY <1>1, <1>2 DEF TypeOK, Progress, Paced, Ends, Taking, FirstSample,
                    sampleVars, statVars, stopVars
<1> QED BY <1>3, <1>4

(* A sample is after the deadline it waited for, so never without length. *)
LEMMA SampleFacts ==
  ASSUME IInv, pc = "after", begun
  PROVE  /\ Midpoint(now) \in Nat /\ Midpoint(now) <= TimeBound
         /\ deadline <= Midpoint(now)
         /\ Midpoint(now) > previous.timestamp
         /\ Sample(now) \in [ticks : 0..(Modulus - 1), timestamp : Nat]
         /\ Sample(now).timestamp = Midpoint(now)
         /\ Sample(now).ticks = value
<1> USE TickAssumption DEF IInv
<1>1. /\ Midpoint(now) \in Nat /\ before <= Midpoint(now)
      /\ Midpoint(now) <= TimeBound
  BY MidpointBounds DEF TypeOK, Paced, Midpoint
<1>2. deadline <= before /\ deadline > previous.timestamp
  BY DEF Paced
<1>3. previous.timestamp \in Nat
  BY DEF TypeOK
<1> QED BY <1>1, <1>2, <1>3 DEF TypeOK, Sample

(* The deadline that follows is an interval or more after this one. *)
LEMMA TakeInv ==
  ASSUME IInv, TakeSample
  PROVE  IInv'
<1> USE TickAssumption
<1>0. TypeOK /\ Progress /\ Paced /\ Ends /\ pc = "after" /\ begun
  BY DEF IInv, TakeSample
<1> DEFINE t == Midpoint(now)
           delta == TickDelta(value, previous.ticks)
<1>1. /\ t \in Nat /\ deadline <= t /\ t > previous.timestamp
      /\ t <= TimeBound
      /\ Sample(now) \in [ticks : 0..(Modulus - 1), timestamp : Nat]
      /\ Sample(now).timestamp = t
      /\ Sample(now).ticks = value
  BY <1>0, SampleFacts
<1>2. delta \in Nat
  BY <1>0, ModRange DEF TypeOK, TickDelta
<1>3. previous.timestamp \in Nat
  BY <1>0 DEF TypeOK
<1> HIDE DEF t, delta
<1>4. /\ samples' = samples + 1
      /\ totalTicks' = totalTicks + delta
      /\ totalElapsed' = totalElapsed + (t - previous.timestamp)
      /\ deadline' = NextDeadline(t)
  BY <1>1, <1>3 DEF TakeSample, add, delta
<1>5. /\ previous' = Sample(now) /\ previous'.timestamp = t
      /\ older' = previous.timestamp
      /\ pc' = "loop"
  BY <1>1 DEF TakeSample
<1>6. /\ NextDeadline(t) \in Nat /\ NextDeadline(t) > t
      /\ NextDeadline(t) >= deadline + Interval
  <2>1. /\ Sum(t, Interval) = t + Interval
        /\ Sum(deadline, Interval) = deadline + Interval
    BY <1>0, <1>1, SumExact DEF TypeOK
  <2> QED BY <1>0, <1>1, <2>1 DEF TypeOK, NextDeadline
<1>7. TypeOK'
  <2>1. overrun' \in BOOLEAN
    BY DEF TakeSample
  <2> QED
    BY <1>0, <1>1, <1>2, <1>3, <1>4, <1>5, <1>6, <2>1
    DEF TypeOK, TakeSample, sampleVars, stopVars
<1>8. Progress'
  BY <1>0, <1>4, <1>5 DEF Progress, TakeSample
<1>9. Paced'
  BY <1>0, <1>1, <1>3, <1>4, <1>5, <1>6
  DEF TypeOK, Paced, TakeSample, sampleVars
<1>10. Ends'
  BY <1>0, <1>4, <1>5 DEF TypeOK, Ends, Taking, TakeSample, stopVars
<1> QED BY <1>7, <1>8, <1>9, <1>10 DEF IInv

LEMMA NextInv == IInv /\ [Next]_vars => IInv'
<1> SUFFICES ASSUME IInv, [Next]_vars PROVE IInv'
  OBVIOUS
<1>1. CASE UNCHANGED vars
  BY <1>1 DEF IInv, TypeOK, Progress, Paced, Ends, vars, sampleVars, statVars,
              ghostVars, stopVars
<1>2. CASE Next
  BY <1>2, OutsideInv, ReadInv, LoopInv, FirstInv, TakeInv DEF Next
<1> QED BY <1>1, <1>2

(* The inductive invariant of the monitor: types, what the place in the    *)
(* program says of the samples, the pace of the deadlines, and the end.    *)
THEOREM Inductive == Spec => []IInv
  BY InitInv, NextInv, PTL DEF Spec

(* Every variable of zdev-ticks-stat keeps its type, the counter its width.*)
THEOREM TypeCorrect == Spec => []TypeOK
<1>1. IInv => TypeOK
  BY DEF IInv
<1> QED BY <1>1, Inductive, PTL

(* No two samples have the same time, however the process is delayed:      *)
(* main never divides by an elapsed time of zero.                          *)
THEOREM SampleAdvancesHolds == Spec => []SampleAdvances
<1>1. IInv => SampleAdvances
  BY SampleFacts DEF SampleAdvances
<1> QED BY <1>1, Inductive, PTL

(* The run ends within one sample of the signal and within what was asked, *)
(* and short of it only by a signal or a sleep that failed.                *)
THEOREM EndsInTimeHolds == Spec => []EndsInTime
<1>1. IInv => EndsInTime
  BY DEF IInv, Ends, EndsInTime
<1> QED BY <1>1, Inductive, PTL

(* Of three samples in a row the third is more than an interval after the  *)
(* first, however late the second was.                                     *)
THEOREM NoBurstHolds == Spec => NoBurst
<1>1. IInv /\ [Next]_vars
        => [samples' > samples /\ samples >= 1
              => previous'.timestamp - older > Interval]_vars
  <2> SUFFICES ASSUME IInv, Next, samples' > samples, samples >= 1
               PROVE  previous'.timestamp - older > Interval
    OBVIOUS
  <2>0. samples \in Nat
    BY DEF IInv, TypeOK
  <2>1. TakeSample
    BY <2>0 DEF Next, Elapse, Signal, Usage, Start, NoDirectory, ReadBefore,
             ReadCounter, ReadFails, FirstSample, Loop, Wake, Interrupted,
             SleepFails, statVars
  <2>2. pc = "after" /\ begun /\ previous' = Sample(now)
    BY <2>1 DEF TakeSample
  <2>3. /\ deadline <= Midpoint(now) /\ Midpoint(now) \in Nat
        /\ previous'.timestamp = Midpoint(now)
    BY <2>2, SampleFacts
  <2>4. deadline > older + Interval /\ deadline \in Nat /\ older \in Nat
    BY <2>2 DEF IInv, Paced, TypeOK
  <2> QED BY <2>3, <2>4, TickAssumption
<1> QED BY <1>1, Inductive, PTL DEF Spec, NoBurst

-----------------------------------------------------------------------------
(* One sample adds its time, and its ticks up to whole turns. *)
LEMMA TakeCounted ==
  ASSUME IInv, Counted, TakeSample
  PROVE  Counted'
<1> USE TickAssumption
<1>0. /\ TypeOK /\ pc = "after" /\ begun
      /\ value = Reg(atRead) /\ atRead <= ticks /\ lastTicks <= atRead
      /\ previous.ticks = Reg(lastTicks)
  BY DEF IInv, Counted, TakeSample
<1> DEFINE t == Midpoint(now)
           delta == TickDelta(value, previous.ticks)
           known == totalTicks - (lastTicks - firstTicks)
<1>1. /\ t \in Nat /\ t > previous.timestamp /\ previous.timestamp \in Nat
      /\ Sample(now).timestamp = t /\ Sample(now).ticks = value
  BY <1>0, SampleFacts DEF TypeOK
<1>2. /\ known \in Int /\ known % Modulus = 0
      /\ ~overrun => known = 0
      /\ totalElapsed = previous.timestamp - start
      /\ totalTicks \in Nat /\ lastTicks \in Nat /\ firstTicks \in Nat
      /\ atRead \in Nat /\ start \in Nat
  BY <1>0 DEF Counted, TotalsAreTrue, TypeOK
<1>a. delta = TickDelta(Reg(atRead), Reg(lastTicks))
  BY <1>0
<1>b. /\ \E q \in Int : delta - (atRead - lastTicks) = Modulus * q
      /\ atRead - lastTicks < Modulus => delta = atRead - lastTicks
  <2>1. atRead \in Nat /\ lastTicks \in Nat /\ lastTicks <= atRead
    BY <1>0, <1>2
  <2>2. LET d == TickDelta(Reg(atRead), Reg(lastTicks))
        IN /\ \E q \in Int : d - (atRead - lastTicks) = Modulus * q
           /\ atRead - lastTicks < Modulus => d = atRead - lastTicks
    BY <2>1, DeltaOfTicks, Zenon
  <2> HIDE DEF delta
  <2> QED BY <1>a, <2>2, Zenon
<1>3. PICK q \in Int : delta - (atRead - lastTicks) = Modulus * q
  BY <1>b
<1>4. atRead - lastTicks < Modulus => delta = atRead - lastTicks
  BY <1>b
<1>5. delta \in Nat
  BY <1>0, ModRange DEF TypeOK, TickDelta
<1>6. (known + (Modulus * q)) % Modulus = 0
  BY <1>2, <1>3, TurnsAdd
<1> HIDE DEF t
<1>7. /\ totalTicks' = totalTicks + delta
      /\ totalElapsed' = totalElapsed + (t - previous.timestamp)
      /\ previous' = Sample(now) /\ begun' = begun /\ pc' = "loop"
      /\ lastTicks' = atRead /\ firstTicks' = firstTicks /\ start' = start
      /\ ticks' = ticks
      /\ overrun' = (overrun \/ atRead - lastTicks >= Modulus)
  BY <1>1 DEF TakeSample, add
<1> HIDE DEF delta
<1>8. totalTicks' - (lastTicks' - firstTicks') = known + (Modulus * q)
  BY <1>2, <1>3, <1>5, <1>7
<1>9. ~overrun' => totalTicks' = lastTicks' - firstTicks'
  <2> SUFFICES ASSUME ~overrun' PROVE totalTicks' = lastTicks' - firstTicks'
    OBVIOUS
  <2>1. ~overrun /\ ~(atRead - lastTicks >= Modulus)
    BY <1>7
  <2>2. known = 0 /\ atRead - lastTicks < Modulus
    BY <1>2, <2>1
  <2>3. totalTicks = lastTicks - firstTicks /\ delta = atRead - lastTicks
    BY <1>2, <1>4, <2>2
  <2> QED BY <1>2, <1>7, <2>3
<1>10. totalElapsed' = previous'.timestamp - start'
  BY <1>1, <1>2, <1>7
<1>11. TotalsAreTrue'
  BY <1>6, <1>8, <1>9, <1>10 DEF TotalsAreTrue
<1> QED BY <1>0, <1>1, <1>7, <1>11 DEF Counted, Reg

LEMMA NextCounted == IInv /\ Counted /\ [Next]_vars => Counted'
<1> SUFFICES ASSUME IInv, Counted, [Next]_vars PROVE Counted'
  OBVIOUS
<1> USE TickAssumption
<1>0. TypeOK
  BY DEF IInv
<1>1. ASSUME NEW n \in 0..MaxTicks, Elapse(n) PROVE Counted'
  BY <1>0, <1>1 DEF Counted, TotalsAreTrue, TypeOK, Elapse, sampleVars, statVars,
                    ghostVars
<1>2. CASE Signal
  BY <1>2 DEF Counted, TotalsAreTrue, Signal, sampleVars, statVars, ghostVars
<1>3. ASSUME NEW half, NEW count, Usage(half, count) PROVE Counted'
  BY <1>3 DEF Counted, TotalsAreTrue, Usage, sampleVars, statVars, ghostVars
<1>4. ASSUME NEW half, NEW count, NEW d, Start(half, count, d) PROVE Counted'
  BY <1>4 DEF Counted, TotalsAreTrue, Start, sampleVars, statVars, ghostVars
<1>5. ASSUME NEW d, NoDirectory(d) PROVE Counted'
  BY <1>5 DEF Counted, TotalsAreTrue, NoDirectory, sampleVars, statVars, ghostVars
<1>6. CASE ReadBefore
  BY <1>6 DEF Counted, TotalsAreTrue, ReadBefore, statVars, ghostVars
<1>7. CASE ReadCounter
  BY <1>0, <1>7 DEF Counted, TotalsAreTrue, TypeOK, ReadCounter, statVars, ghostVars
<1>8. CASE ReadFails
  BY <1>8 DEF Counted, TotalsAreTrue, ReadFails, sampleVars, statVars, ghostVars
<1>9. CASE FirstSample
  <2>1. /\ previous'.ticks = value /\ value = Reg(atRead) /\ atRead <= ticks
        /\ previous'.timestamp = start' /\ start' \in Nat
    <3>1. Midpoint(now) \in Nat
      BY MidpointBounds DEF IInv, TypeOK, Paced, Midpoint
    <3> QED BY <1>9, <3>1 DEF Counted, FirstSample, Sample
  <2>2. totalTicks = 0 /\ totalElapsed = 0
    BY <1>9 DEF IInv, Progress, FirstSample
  <2>3. 0 % Modulus = 0
    OBVIOUS
  <2> QED BY <1>0, <1>9, <2>1, <2>2, <2>3
          DEF Counted, TotalsAreTrue, TypeOK, FirstSample, sampleVars, statVars
<1>10. CASE Loop
  BY <1>10 DEF Counted, TotalsAreTrue, Loop, sampleVars, statVars, ghostVars
<1>11. CASE Wake
  BY <1>11 DEF Counted, TotalsAreTrue, Wake, sampleVars, statVars, ghostVars
<1>12. CASE Interrupted
  BY <1>12 DEF Counted, TotalsAreTrue, Interrupted, sampleVars, statVars, ghostVars
<1>13. CASE SleepFails
  BY <1>13 DEF Counted, TotalsAreTrue, SleepFails, sampleVars, statVars,
               ghostVars
<1>14. CASE UNCHANGED vars
  BY <1>14 DEF Counted, TotalsAreTrue, vars, sampleVars, statVars, ghostVars
<1> QED BY <1>1, <1>2, <1>3, <1>4, <1>5, <1>6, <1>7, <1>8, <1>9, <1>10, <1>11,
           <1>12, <1>13, <1>14, TakeCounted DEF Next

(* The totals main prints are what passed between the first and the latest *)
(* sample, through every wrap of a counter of every width.                 *)
THEOREM TotalsAreTrueHolds == Spec => []TotalsAreTrue
<1>1. Init => Counted
  BY DEF Init, Counted, TotalsAreTrue
<1>2. Counted => TotalsAreTrue
  BY DEF Counted
<1> QED BY <1>1, <1>2, Inductive, NextCounted, PTL DEF Spec

(* OnTimer of sc6f0-dante-box and zdev-ticks-stat subtract the same two    *)
(* readings: the results agree unless the register passed half its range,  *)
(* 2^31, in between; then the box is a whole turn below.                   *)
THEOREM BoxDifferenceHolds == Spec => []BoxDifferenceTurns
<1>1. IInv => BoxDifferenceTurns
  <2> SUFFICES ASSUME IInv, pc = "after", begun PROVE BoxDifferenceTurns
    BY DEF BoxDifferenceTurns
  <2> USE TickAssumption
  <2> DEFINE m == Modulus
             h == Modulus \div 2
             v == value
             p == previous.ticks
             delta == TickDelta(v, p)
             passed == \E k \in 1..delta : (p + k) % m = h
  <2>1. v \in 0..(m - 1) /\ p \in 0..(m - 1) /\ h \in Nat /\ m = 2 * h
    BY DEF IInv, TypeOK
  <2>2. CASE v >= p
    <3>1. delta = v - p
      BY <2>1, <2>2 DEF TickDelta
    <3>2. \A k \in 1..delta : (p + k) % m = p + k
      BY <2>1, <2>2, <3>1
    <3>3. passed <=> p < h /\ h <= v
      <4>1. ASSUME p < h, h <= v PROVE passed
        <5>1. h - p \in 1..delta /\ p + (h - p) = h
          BY <2>1, <3>1, <4>1
        <5>2. (p + (h - p)) % m = h
          BY <3>2, <5>1
        <5> QED BY <5>1, <5>2
      <4>2. ASSUME passed PROVE p < h /\ h <= v
        <5>1. PICK k \in 1..delta : p + k = h
          BY <3>2, <4>2
        <5> QED BY <2>1, <3>1, <5>1
      <4> QED BY <4>1, <4>2
    <3> QED BY <2>1, <2>2, <3>1, <3>3
            DEF BoxDifferenceTurns, BoxDifference, read_ticks
  <2>3. CASE v < p
    <3>1. delta = v - p + m
      BY <2>1, <2>3 DEF TickDelta
    <3>2. \A k \in 1..delta : (p + k) % m = IF p + k < m THEN p + k ELSE p + k - m
      BY <2>1, <2>3, <3>1
    <3>3. passed <=> p < h \/ h <= v
      <4>1. ASSUME p < h PROVE passed
        <5>1. h - p \in 1..delta /\ p + (h - p) = h
          BY <2>1, <2>3, <3>1, <4>1
        <5> QED BY <2>1, <3>2, <5>1
      <4>2. ASSUME h <= v PROVE passed
        <5>1. h + m - p \in 1..delta /\ p + (h + m - p) = h + m
          BY <2>1, <2>3, <3>1, <4>2
        <5>2. (p + (h + m - p)) % m = h
          BY <2>1, <3>2, <5>1
        <5> QED BY <5>1, <5>2
      <4> QED BY <2>1, <2>3, <3>1, <3>2, <4>1, <4>2
    <3> QED BY <2>1, <2>3, <3>1, <3>3
            DEF BoxDifferenceTurns, BoxDifference, read_ticks
  <2> QED BY <2>1, <2>2, <2>3
<1> QED BY <1>1, Inductive, PTL

=============================================================================
