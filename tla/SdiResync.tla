----------------------------- MODULE SdiResync ------------------------------
(***************************************************************************)
(* The watchdog that resynchronizes a shifted SDI output: the policy of    *)
(* sc6f0-sdi-resync-policy.h, and its callers poll_sdi_resync,             *)
(* on_sdi_resync_requested and reinitialize_sdi_output of                  *)
(* sc6f0-dante-rx.cpp.  Everything runs on the main loop of run_ultra_     *)
(* direct, so its steps only interleave with time, with what the status    *)
(* register shows and with the outcome of each DRM commit.                 *)
(*                                                                         *)
(* `log' and `hist' are history: the times of the accepted requests, and   *)
(* the latest register samples.                                            *)
(***************************************************************************)
EXTENDS Integers, Sequences, FiniteSets

CONSTANTS
  SampleMs,         (* kSampleMs, 500                                      *)
  DebounceMs,       (* kDebounceMs, 2000                                   *)
  CooldownMs,       (* kCooldownMs, 5000                                   *)
  AttemptWindowMs,  (* kAttemptWindowMs, 60000                             *)
  MaxAttempts,      (* kMaxAttempts, 3                                     *)
  MinSamples,       (* samples that make a request, 5                      *)
  MaxDelay,         (* model bound: time between two steps                 *)
  TimeBound         (* model bound: length of a run                        *)

ASSUME ResyncAssumption ==
  /\ {SampleMs, MaxAttempts, MinSamples, MaxDelay} \subseteq Nat \ {0}
  /\ {DebounceMs, CooldownMs, AttemptWindowMs, TimeBound} \subseteq Nat

(* MinSamples samples never take less than the debounce time, and there is *)
(* a cooldown.                                                             *)
ASSUME EvidenceAssumption ==
  /\ DebounceMs <= (MinSamples - 1) * SampleMs
  /\ CooldownMs > 0

VARIABLES
  now,                             (* the monotonic clock                  *)
  next_sample_ms, suspect_ms, cooldown_until_ms,
  attempts_ms,                     (* ring of the latest request times     *)
  samples, attempts, failed,
  place,                           (* the step of reinitialize_sdi_output  *)
  active,                          (* the CRTC property ACTIVE             *)
  log,                             (* times of all requests                *)
  hist                             (* the last MinSamples samples          *)

policyVars == <<next_sample_ms, suspect_ms, cooldown_until_ms, attempts_ms,
                samples, attempts>>
vars == <<now, policyVars, failed, place, active, log, hist>>

Init ==
  /\ now = 0
  /\ next_sample_ms = 0 /\ suspect_ms = 0 /\ cooldown_until_ms = 0
  /\ attempts_ms = [i \in 0..(MaxAttempts - 1) |-> 0]
  /\ samples = 0 /\ attempts = 0 /\ failed = FALSE
  /\ place = "loop"
  /\ active = TRUE
  /\ log = <<>> /\ hist = <<>>

(* The loop may be late, and a commit may take long. *)
Tick(d) ==
  /\ now + d <= TimeBound
  /\ now' = now + d
  /\ UNCHANGED <<policyVars, failed, place, active, log, hist>>

-----------------------------------------------------------------------------
(* Policy::observe, at the current time. *)

(* Mutant: a late loop counts as continuous evidence. *)
M_CountedSamples == samples

(* A delayed main loop is not evidence of continuously bad samples. *)
CountedSamples ==
  IF next_sample_ms # 0 /\ now > next_sample_ms + 2 * SampleMs
  THEN 0 ELSE samples

SuspectSince == IF CountedSamples = 0 THEN now ELSE suspect_ms

Debounced ==
  CountedSamples + 1 >= MinSamples /\ now - SuspectSince >= DebounceMs

(* Mutant: the newest slot is left out. *)
M_Recent ==
  Cardinality({i \in 0..(MaxAttempts - 2) :
                 i < attempts /\ now - attempts_ms[i] < AttemptWindowMs})

Recent ==
  Cardinality({i \in 0..(MaxAttempts - 1) :
                 i < attempts /\ now - attempts_ms[i] < AttemptWindowMs})

(* Mutant: a failed watchdog goes on. *)
M_Due == place = "loop" /\ now >= next_sample_ms

(* poll_sdi_resync reads the register when a sample is due. *)
Due == place = "loop" /\ ~failed /\ now >= next_sample_ms

Sampled(bad) ==
  /\ next_sample_ms' = now + SampleMs
  /\ hist' = LET h == Append(hist, [at |-> now, suspect |-> bad])
             IN  SubSeq(h, IF Len(h) > MinSamples THEN 2 ELSE 1, Len(h))

(* The register is healthy, the route is not eligible, or it cools down. *)
ObserveQuiet(bad) ==
  /\ Due
  /\ ~bad \/ now < cooldown_until_ms
  /\ Sampled(bad)
  /\ samples' = 0
  /\ UNCHANGED <<now, suspect_ms, cooldown_until_ms, attempts_ms, attempts,
                 failed, place, active, log>>

(* A suspect sample that does not make a request: too early, or too many. *)
ObserveSuspect ==
  /\ Due
  /\ now >= cooldown_until_ms
  /\ ~Debounced \/ Recent >= MaxAttempts
  /\ Sampled(TRUE)
  /\ samples' = CountedSamples + 1
  /\ suspect_ms' = SuspectSince
  /\ UNCHANGED <<now, cooldown_until_ms, attempts_ms, attempts, failed,
                 place, active, log>>

(* on_sdi_resync_requested follows at once. *)
ObserveRequests ==
  /\ Due
  /\ now >= cooldown_until_ms
  /\ Debounced /\ Recent < MaxAttempts
  /\ Sampled(TRUE)
  /\ suspect_ms' = SuspectSince
  /\ attempts_ms' = [attempts_ms EXCEPT ![attempts % MaxAttempts] = now]
  /\ attempts' = attempts + 1
  /\ cooldown_until_ms' = now + CooldownMs
  /\ samples' = 0
  /\ log' = Append(log, now)
  /\ place' = "guard"
  /\ UNCHANGED <<now, failed, active>>

-----------------------------------------------------------------------------
(* reinitialize_sdi_output, one commit per step.  Its result is recorded   *)
(* by on_sdi_resync_requested: failed = !ok.                               *)
Finish(ok) == place' = "loop" /\ failed' = ~ok

(* The guards on the live DRM state, then the mode blob and the requests. *)
Guard(ok) ==
  /\ place = "guard"
  /\ ok => active
  /\ IF ok THEN place' = "test" /\ UNCHANGED failed ELSE Finish(FALSE)
  /\ UNCHANGED <<now, policyVars, active, log, hist>>

(* Both requests are tested before either is committed. *)
Test(ok) ==
  /\ place = "test"
  /\ IF ok THEN place' = "off" /\ UNCHANGED failed ELSE Finish(FALSE)
  /\ UNCHANGED <<now, policyVars, active, log, hist>>

CommitOff(ok) ==
  /\ place = "off"
  /\ active' = ~ok
  /\ place' = IF ok THEN "on" ELSE "rollback"
  /\ UNCHANGED <<now, policyVars, failed, log, hist>>

(* Mutant: a failed ACTIVE commit is not rolled back. *)
M_CommitOn(ok) ==
  /\ place = "on"
  /\ active' = ok
  /\ place' = "loop"
  /\ UNCHANGED <<now, policyVars, failed, log, hist>>

CommitOn(ok) ==
  /\ place = "on"
  /\ active' = ok
  /\ IF ok THEN Finish(TRUE) ELSE place' = "rollback" /\ UNCHANGED failed
  /\ UNCHANGED <<now, policyVars, log, hist>>

Rollback(ok) ==
  /\ place = "rollback"
  /\ active' = (ok \/ active)
  /\ Finish(FALSE)
  /\ UNCHANGED <<now, policyVars, log, hist>>

Next ==
  \/ \E d \in 1..MaxDelay : Tick(d)
  \/ \E bad \in BOOLEAN : ObserveQuiet(bad)
  \/ ObserveSuspect
  \/ ObserveRequests
  \/ \E ok \in BOOLEAN :
       \/ Guard(ok)
       \/ Test(ok)
       \/ CommitOff(ok)
       \/ CommitOn(ok)
       \/ Rollback(ok)

Spec == Init /\ [][Next]_vars

-----------------------------------------------------------------------------
(* Type invariant of policy, caller and output. *)
TypeOK ==
  /\ now \in 0..TimeBound
  /\ next_sample_ms \in Nat
  /\ suspect_ms \in Nat
  /\ cooldown_until_ms \in Nat
  /\ attempts_ms \in [0..(MaxAttempts - 1) -> Nat]
  /\ samples \in Nat
  /\ attempts \in Nat
  /\ failed \in BOOLEAN
  /\ place \in {"loop", "guard", "test", "off", "on", "rollback"}
  /\ active \in BOOLEAN
  /\ log \in Seq(Nat)
  /\ hist \in Seq([at : Nat, suspect : BOOLEAN])

(* "max3 attempts per rolling60s": however the loop is delayed, no window  *)
(* of AttemptWindowMs holds more than MaxAttempts requests, though the     *)
(* policy remembers only the last MaxAttempts of them, in a ring.          *)
RateLimited ==
  \A i \in 1..Len(log) : i + MaxAttempts <= Len(log) =>
    log[i + MaxAttempts] - log[i] >= AttemptWindowMs

(* The samples at hand are MinSamples suspect ones in a row, none during   *)
(* the cooldown and none separated by a delay of the loop.                 *)
Evidence(h, requests) ==
  /\ Len(h) = MinSamples
  /\ \A i \in 1..MinSamples :
       /\ h[i].suspect
       /\ requests # <<>> => h[i].at >= requests[Len(requests)] + CooldownMs
  /\ \A i \in 1..(MinSamples - 1) : h[i + 1].at - h[i].at <= 3 * SampleMs
  /\ h[MinSamples].at - h[1].at >= DebounceMs

(* A request is made exactly when the evidence is complete and the window  *)
(* has room: no stale or interrupted run of samples and none taken while   *)
(* it cools down triggers a modeset, and a persistent fault is not         *)
(* overlooked.                                                             *)
RequestIffEvidence ==
  [][hist' # hist =>
       (log' # log <=>
          /\ Evidence(hist', log)
          /\ Cardinality({i \in 1..Len(log) : now - log[i] < AttemptWindowMs})
               < MaxAttempts)]_vars

(* A partial failure never goes on unnoticed: once an attempt is over, the *)
(* output is dark only if the watchdog is disabled as well.                *)
DarkOnlyWhenDisabled == place = "loop" /\ ~active => failed

(* "disables further automatic attempts": after a failure nothing more is  *)
(* requested and the output is left alone.                                 *)
FailureIsFinal == [][failed => failed' /\ UNCHANGED <<log, active>>]_vars
=============================================================================
