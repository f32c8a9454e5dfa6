------------------------------ MODULE TickStat ------------------------------
(***************************************************************************)
(* zdev-ticks-stat.cpp: samples a hardware tick counter at a requested     *)
(* interval and reports its rate.  The counter has a width; the process is *)
(* delayed by the scheduler at any point, between the two clock readings   *)
(* of a sample too; a signal asks it to stop at any time.  The counters    *)
(* are read one like the other, so one stands for the four.                *)
(*                                                                         *)
(* sc6f0-dante-box reads the same registers (OnTimer) and subtracts two    *)
(* readings in another way, BoxDifference.                                 *)
(***************************************************************************)
EXTENDS Integers

CONSTANTS
  Modulus,     (* values of the counter (2^32)                             *)
  Width,       (* values of a time in nanoseconds, a uint64_t (2^64)       *)
  Interval,    (* interval_ns                                              *)
  Requested,   (* requested_samples, 0 for no end                          *)
  Dirs,        (* directories of sysfs                                     *)
  Default,     (* those below /sys/devices/platform/amba_pl@0              *)
  Complete,    (* those with zdev_ticks0 to zdev_ticks3 readable           *)
  MaxTicks,    (* bound: ticks of the hardware in a unit of time           *)
  TimeBound    (* bound of the clock                                       *)

ASSUME TickAssumption ==
  /\ Modulus \in Nat /\ Modulus > 1 /\ Modulus % 2 = 0
  /\ Interval \in Nat \ {0}
  /\ Requested \in Nat
  /\ Default \subseteq Dirs /\ Complete \subseteq Dirs
  /\ "none" \notin Dirs
  /\ MaxTicks \in Nat
  /\ TimeBound \in Nat

(* The clock never comes within an interval of the end of a uint64_t.  The *)
(* code accepts intervals of up to 2^64 ns, 584 years; with one for which  *)
(* this fails a deadline would wrap into the past.                         *)
ASSUME DeadlineAssumption == Width \in Nat /\ TimeBound + Interval < Width

VARIABLES
  now,         (* CLOCK_MONOTONIC                                          *)
  ticks,       (* ticks of the hardware so far; the register holds Reg     *)
  pc, directory,
  stop,        (* g_stop                                                   *)
  before,      (* first clock reading of the sample being taken            *)
  value,       (* counter value of the sample being taken                  *)
  previous,    (* the previous sample: ticks and timestamp_ns              *)
  deadline,    (* deadline_ns                                              *)
  samples, totalTicks, totalElapsed,            (* the statistics          *)
  begun,       (* the first sample is taken                                *)
  atRead, lastTicks, firstTicks,    (* true counts at the readings         *)
  older,       (* timestamp of the sample before previous                  *)
  start,       (* timestamp of the first sample                            *)
  atStop,      (* samples when the signal came                             *)
  overrun,     (* a whole turn of the counter fell between two samples     *)
  sleepFailed  (* clock_nanosleep failed, and not for a signal             *)

sampleVars == <<before, value, atRead>>
statVars == <<samples, totalTicks, totalElapsed>>
ghostVars == <<lastTicks, firstTicks, older, start, overrun>>
stopVars == <<stop, atStop, sleepFailed>>
vars == <<now, ticks, pc, directory, stopVars, begun, sampleVars, previous,
          deadline, statVars, ghostVars>>

Reg(n) == n % Modulus
Sum(a, b) == (a + b) % Width       (* of two uint64_t *)

Init ==
  /\ now = 0 /\ ticks \in 0..(Modulus - 1) /\ stop = FALSE
  /\ pc = "start" /\ directory = "none" /\ begun = FALSE /\ atStop = 0
  /\ before = 0 /\ value = 0 /\ atRead = 0
  /\ previous = [ticks |-> 0, timestamp |-> 0]
  /\ deadline = 0
  /\ samples = 0 /\ totalTicks = 0 /\ totalElapsed = 0
  /\ lastTicks = 0 /\ firstTicks = 0 /\ older = 0 /\ start = 0
  /\ overrun = FALSE /\ sleepFailed = FALSE

-----------------------------------------------------------------------------
(* Time passes and the hardware counts, wherever the process is. *)
Elapse(n) ==
  /\ pc # "start"
  /\ now < TimeBound
  /\ now' = now + 1
  /\ ticks' = ticks + n
  /\ UNCHANGED <<pc, directory, stopVars, begun, sampleVars, previous, deadline,
                 statVars, ghostVars>>

(* Before its handlers are installed a signal just ends the process. *)
Signal ==
  /\ pc # "start"
  /\ ~stop
  /\ stop' = TRUE
  /\ atStop' = samples
  /\ UNCHANGED <<now, ticks, pc, directory, sleepFailed, begun, sampleVars,
                 previous, deadline, statVars, ghostVars>>

-----------------------------------------------------------------------------
(* The arguments: the interval in half nanoseconds, so that rounding shows,*)
(* and the number of samples; -1 is a text that is no number.              *)
parse_double(a) == a > 0
parse_count(a) == a >= 0
InRange(half) == half >= 2 /\ half <= 2 * (Width - 1)
interval_ns(half) == (half + 1) \div 2

counter_files_exist(d) == d \in Complete

(* The first directory at or below root, in the order of readdir, that has *)
(* all the files; symbolic links are not followed.                         *)
find_in_tree(root) == {d \in root : counter_files_exist(d)}

find_sysfs_directory(requested) ==
  IF requested # "none" THEN {d \in {requested} : counter_files_exist(d)}
  ELSE IF find_in_tree(Default) # {} THEN find_in_tree(Default)
  ELSE find_in_tree(Dirs)

Accepted(half, count) == parse_double(half) /\ parse_count(count) /\ InRange(half)

(* main, up to the first sample: with arguments that give the interval and *)
(* the number of samples of this run, with others, and without a directory.*)
Start(half, count, requested) ==
  /\ pc = "start"
  /\ Accepted(half, count)
  /\ interval_ns(half) = Interval /\ count = Requested
  /\ directory' \in find_sysfs_directory(requested)
  /\ pc' = "before"
  /\ UNCHANGED <<now, ticks, stopVars, begun, sampleVars, previous, deadline,
                 statVars, ghostVars>>

Usage(half, count) ==
  /\ pc = "start"
  /\ ~Accepted(half, count)
  /\ pc' = "failed"
  /\ UNCHANGED <<now, ticks, directory, stopVars, begun, sampleVars, previous,
                 deadline, statVars, ghostVars>>

NoDirectory(requested) ==
  /\ pc = "start"
  /\ find_sysfs_directory(requested) = {}
  /\ pc' = "failed"
  /\ UNCHANGED <<now, ticks, directory, stopVars, begun, sampleVars, previous,
                 deadline, statVars, ghostVars>>

-----------------------------------------------------------------------------
(* read_sample: clock, counters, clock.  Any of them may fail. *)
ReadBefore ==
  /\ pc = "before"
  /\ before' = now
  /\ pc' = "read"
  /\ UNCHANGED <<now, ticks, directory, stopVars, begun, value, atRead, previous,
                 deadline, statVars, ghostVars>>

ReadCounter ==
  /\ pc = "read"
  /\ value' = Reg(ticks)
  /\ atRead' = ticks
  /\ pc' = "after"
  /\ UNCHANGED <<now, ticks, directory, stopVars, begun, before, previous, deadline,
                 statVars, ghostVars>>

ReadFails ==
  /\ pc \in {"before", "read", "after"}
  /\ pc' = "failed"
  /\ UNCHANGED <<now, ticks, directory, stopVars, begun, sampleVars, previous,
                 deadline, statVars, ghostVars>>

Midpoint(t) == before + (t - before) \div 2

Sample(t) == [ticks |-> value, timestamp |-> Midpoint(t)]

-----------------------------------------------------------------------------
(* main: the first sample sets the pace. *)
FirstSample ==
  /\ pc = "after" /\ ~begun
  /\ previous' = Sample(now)
  /\ deadline' = Sum(Sample(now).timestamp, Interval)
  /\ start' = Sample(now).timestamp
  /\ firstTicks' = atRead /\ lastTicks' = atRead
  /\ begun' = TRUE
  /\ pc' = "loop"
  /\ UNCHANGED <<now, ticks, directory, stopVars, sampleVars, statVars, older,
                 overrun>>

(* Mutant: the condition of the loop does not look at g_stop. *)
M_Loop ==
  /\ pc = "loop"
  /\ pc' = IF Requested = 0 \/ samples < Requested THEN "sleep" ELSE "done"
  /\ UNCHANGED <<now, ticks, directory, stopVars, begun, sampleVars, previous,
                 deadline, statVars, ghostVars>>

Loop ==
  /\ pc = "loop"
  /\ pc' = IF ~stop /\ (Requested = 0 \/ samples < Requested)
           THEN "sleep" ELSE "done"
  /\ UNCHANGED <<now, ticks, directory, stopVars, begun, sampleVars, previous,
                 deadline, statVars, ghostVars>>

(* Mutant: an interrupted sleep counts as one that ended. *)
M_Wake ==
  /\ pc = "sleep"
  /\ pc' = "before"
  /\ UNCHANGED <<now, ticks, directory, stopVars, begun, sampleVars, previous,
                 deadline, statVars, ghostVars>>

(* sleep_until: the deadline is absolute. *)
Wake ==
  /\ pc = "sleep"
  /\ now >= deadline
  /\ pc' = "before"
  /\ UNCHANGED <<now, ticks, directory, stopVars, begun, sampleVars, previous,
                 deadline, statVars, ghostVars>>

(* The signal interrupts the sleep, or comes before it and does not. *)
Interrupted ==
  /\ pc = "sleep"
  /\ stop
  /\ pc' = "done"
  /\ UNCHANGED <<now, ticks, directory, stopVars, begun, sampleVars, previous,
                 deadline, statVars, ghostVars>>

(* Any other error of clock_nanosleep ends the loop as well, and main goes *)
(* on to its statistics and to exit status 0.                              *)
SleepFails ==
  /\ pc = "sleep"
  /\ ~stop
  /\ sleepFailed' = TRUE
  /\ pc' = "done"
  /\ UNCHANGED <<now, ticks, directory, stop, atStop, begun, sampleVars,
                 previous, deadline, statVars, ghostVars>>

(* Mutant: the counter is read as a plain number. *)
M_TickDelta(cur, prev) == IF cur >= prev THEN cur - prev ELSE 0

(* uint32_t delta = current - previous. *)
TickDelta(cur, prev) == (cur - prev) % Modulus

(* Mutant: late samples are caught up with, one after the other. *)
M_NextDeadline(t) == Sum(deadline, Interval)

(* The cadence is kept; after a delay of an interval or more it restarts. *)
NextDeadline(t) ==
  IF Sum(deadline, Interval) <= t THEN Sum(t, Interval)
  ELSE Sum(deadline, Interval)

(* CounterStats::add; its mean, deviation, minimum and maximum are left    *)
(* out.                                                                    *)
add(delta) == samples' = samples + 1 /\ totalTicks' = totalTicks + delta

(* A sample without elapsed time is passed over; any other is counted. *)
TakeSample ==
  LET current == Sample(now)
      elapsed == current.timestamp - previous.timestamp
      delta == TickDelta(current.ticks, previous.ticks)
  IN
  /\ pc = "after" /\ begun
  /\ IF elapsed = 0
     THEN deadline' = Sum(current.timestamp, Interval) /\ UNCHANGED statVars
     ELSE /\ add(delta)
          /\ totalElapsed' = totalElapsed + elapsed
          /\ deadline' = NextDeadline(current.timestamp)
  /\ previous' = current
  /\ older' = previous.timestamp
  /\ overrun' = (overrun \/ atRead - lastTicks >= Modulus)
  /\ lastTicks' = atRead
  /\ pc' = "loop"
  /\ UNCHANGED <<now, ticks, directory, stopVars, begun, sampleVars, firstTicks,
                 start>>

-----------------------------------------------------------------------------
(* sc6f0-dante-box, OnTimer: the register goes through an int, the         *)
(* difference is one of int64_t.                                           *)
read_ticks(r) == IF r >= Modulus \div 2 THEN r - Modulus ELSE r

BoxDifference(cur, prev) == read_ticks(cur) - read_ticks(prev)

Next == \/ \E n \in 0..MaxTicks : Elapse(n)
        \/ Signal
        \/ \E half \in -1..(2 * Interval) \cup {2 * Width},
                 count \in {-1, Requested} :
             \/ Usage(half, count)
             \/ \E d \in Dirs \cup {"none"} : Start(half, count, d)
        \/ \E d \in Dirs \cup {"none"} : NoDirectory(d)
        \/ ReadBefore \/ ReadCounter \/ ReadFails \/ FirstSample
        \/ Loop \/ Wake \/ Interrupted \/ SleepFails \/ TakeSample

Spec == Init /\ [][Next]_vars

-----------------------------------------------------------------------------
(* Type invariant of the monitor. *)
TypeOK ==
  /\ now \in 0..TimeBound /\ ticks \in Nat
  /\ directory \in Dirs \cup {"none"}
  /\ pc \in {"start", "before", "read", "after", "loop", "sleep", "done",
             "failed"}
  /\ stop \in BOOLEAN /\ begun \in BOOLEAN /\ overrun \in BOOLEAN
  /\ sleepFailed \in BOOLEAN
  /\ before \in Nat /\ value \in 0..(Modulus - 1) /\ atRead \in Nat
  /\ previous \in [ticks : 0..(Modulus - 1), timestamp : Nat]
  /\ {deadline, older, start, lastTicks, firstTicks, atStop} \subseteq Nat
  /\ {samples, totalTicks, totalElapsed} \subseteq Nat

(* Time between two samples is never zero, so no rate is divided by zero   *)
(* and "Skipping sample with zero elapsed time" is never needed: the       *)
(* midpoint of a sample is not before the deadline it waited for, and the  *)
(* deadline is after the sample before, however long a read took.          *)
SampleAdvances ==
  pc = "after" /\ begun => Midpoint(now) > previous.timestamp

(* Late samples cause no burst of reads: of three samples in a row the     *)
(* third is more than an interval after the first.                         *)
NoBurst ==
  [][samples' > samples /\ samples >= 1
       => previous'.timestamp - older > Interval]_vars

(* The totals are what passed between the first and the latest sample: the *)
(* time exactly, the ticks exactly as long as no whole turn of the counter *)
(* fell between two samples, and up to whole turns whenever it did.        *)
TotalsAreTrue ==
  begun => /\ totalElapsed = previous.timestamp - start
           /\ (totalTicks - (lastTicks - firstTicks)) % Modulus = 0
           /\ ~overrun => totalTicks = lastTicks - firstTicks

(* After the signal at most the sample under way is completed, and nothing *)
(* more is taken than was asked for; a run that prints its statistics      *)
(* without a signal has all samples, unless clock_nanosleep failed, which  *)
(* the exit status does not tell.                                          *)
EndsInTime ==
  /\ stop => samples <= atStop + 1
  /\ Requested > 0 => /\ samples <= Requested
                      /\ pc = "done" /\ ~stop /\ ~sleepFailed
                           => samples = Requested

(* Two readings as OnTimer of sc6f0-dante-box subtracts them: the result   *)
(* is the number of ticks, unless the register passed 2^31 in between;     *)
(* then it is a whole turn too small, and negative.                        *)
BoxDifferenceTurns ==
  pc = "after" /\ begun =>
    LET delta == TickDelta(value, previous.ticks)
        passed == \E k \in 1..delta :
                    (previous.ticks + k) % Modulus = Modulus \div 2
        box == BoxDifference(value, previous.ticks)
    IN IF passed THEN box = delta - Modulus ELSE box = delta

=============================================================================
