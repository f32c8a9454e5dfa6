------------------------------ MODULE PcmQueue ------------------------------
(***************************************************************************)
(* The playback queue between the decoded audio of the Dante receiver and  *)
(* the nonblocking ALSA device: rx_audio_playback of sc6f0-dante-rx.cpp    *)
(* with the helper sc6f0_pcm::drain of sc6f0-pcm-write-queue.h, and the    *)
(* start and stop of the audio sink that owns the device.                  *)
(*                                                                         *)
(* A frame is the number of its arrival, so the model tells frames apart   *)
(* and can see one that is lost, repeated or reordered.  One call of       *)
(* rx_audio_playback is a Feed (or RejectPeriod), one WriteXxx step per    *)
(* snd_pcm_writei of the drain loop, and EndDrain.  The caller holds       *)
(* audio_lock for the whole call, so Start and Stop, which take the same   *)
(* lock, wait for `draining' to be FALSE.                                  *)
(***************************************************************************)
EXTENDS Integers, Sequences

CONSTANTS
  Chunk,        (* frames asked for in one write (960)                     *)
  MaxFrames,    (* frames the queue may keep (7680)                        *)
  MaxAttempts,  (* writes in one drain (16)                                *)
  MaxPeriod,    (* frames accepted from one input buffer (48000)           *)
  FedBound,     (* model bound: frames ever fed                            *)
  CallBound     (* model bound: calls of rx_audio_playback and Start       *)

ASSUME PcmAssumption ==
  /\ Chunk \in Nat \ {0}
  /\ MaxFrames \in Nat
  /\ Chunk <= MaxFrames
  /\ MaxAttempts \in Nat \ {0}
  /\ MaxFrames < (MaxAttempts + 1) * Chunk
  /\ MaxPeriod \in Nat \ {0}
  /\ FedBound \in Nat
  /\ CallBound \in Nat

VARIABLES
  started,     (* audio_pcm_started: the device is open and configured     *)
  pending,     (* audio_pending_frame, as a sequence of frames             *)
  shortTail,   (* audio_short_tail                                         *)
  draining,    (* a call of rx_audio_playback holds audio_lock             *)
  attempts,    (* loop counter of drain                                    *)
  refused,     (* some write of this drain took less than it was asked     *)
  hw,          (* frames the device accepted, in order                     *)
  fed,         (* frames appended to the queue so far                      *)
  discarded,   (* frames cleared with the sink by stop_hdmi_audio_sink     *)
  stats,       (* the atomic counters that log_pcm_stats reports           *)
  calls        (* calls so far, for CallBound                              *)

vars == <<started, pending, shortTail, draining, attempts, refused, hw,
          fed, discarded, stats, calls>>

StatNames == {"accepted", "again", "short", "xruns", "recovery",
              "dropped", "playback", "unsupported"}

Min2(a, b) == IF a < b THEN a ELSE b

(* pending.erase(begin, begin + n) *)
EraseFront(s, n) == SubSeq(s, n + 1, Len(s))

Bump(st, name, n) == [st EXCEPT ![name] = @ + n]

Init ==
  /\ started = FALSE
  /\ pending = <<>>
  /\ shortTail = FALSE
  /\ draining = FALSE
  /\ attempts = 0
  /\ refused = FALSE
  /\ hw = <<>>
  /\ fed = 0
  /\ discarded = 0
  /\ stats = [s \in StatNames |-> 0]
  /\ calls = 0

-----------------------------------------------------------------------------
(* start_hdmi_audio_sink: opening may fail, and then nothing changes. *)
StartSink ==
  /\ ~draining
  /\ ~started
  /\ calls < CallBound
  /\ calls' = calls + 1
  /\ started' = TRUE
  /\ UNCHANGED <<pending, shortTail, draining, attempts, refused, hw, fed,
                 discarded, stats>>

(* stop_hdmi_audio_sink *)
StopSink ==
  /\ ~draining
  /\ started
  /\ started' = FALSE
  /\ pending' = <<>>
  /\ shortTail' = FALSE
  /\ discarded' = discarded + Len(pending)
  /\ UNCHANGED <<draining, attempts, refused, hw, fed, stats, calls>>

(* The queue once n frames are appended, and what drain cuts from it. *)
Appended(n) == pending \o [i \in 1..n |-> fed + i]

Excess(n) == IF Len(pending) + n > MaxFrames
             THEN Len(pending) + n - MaxFrames ELSE 0

(* Mutant: overflow cuts the newest frames. *)
M_Feed(n) ==
  /\ ~draining
  /\ started
  /\ calls < CallBound
  /\ fed + n <= FedBound
  /\ pending' = SubSeq(Appended(n), 1, Len(pending) + n - Excess(n))
  /\ shortTail' = (shortTail /\ Excess(n) = 0)
  /\ fed' = fed + n
  /\ stats' = Bump(Bump(stats, "dropped", Excess(n)),
                   "playback", IF Excess(n) > 0 THEN 1 ELSE 0)
  /\ draining' = TRUE
  /\ attempts' = 0
  /\ refused' = FALSE
  /\ calls' = calls + 1
  /\ UNCHANGED <<started, hw, discarded>>

(* rx_audio_playback up to the loop of drain.  Only overflow drops frames, *)
(* the oldest first; such a call adds one to audio_playback_errors.        *)
Feed(n) ==
  /\ ~draining
  /\ started
  /\ calls < CallBound
  /\ fed + n <= FedBound
  /\ pending' = EraseFront(Appended(n), Excess(n))
  /\ shortTail' = (shortTail /\ Excess(n) = 0)
  /\ fed' = fed + n
  /\ stats' = Bump(Bump(stats, "dropped", Excess(n)),
                   "playback", IF Excess(n) > 0 THEN 1 ELSE 0)
  /\ draining' = TRUE
  /\ attempts' = 0
  /\ refused' = FALSE
  /\ calls' = calls + 1
  /\ UNCHANGED <<started, hw, discarded>>

(* A period of another rate, layout or size than the device's is refused. *)
RejectPeriod ==
  /\ ~draining
  /\ started
  /\ calls < CallBound
  /\ stats' = Bump(stats, "unsupported", 1)
  /\ calls' = calls + 1
  /\ UNCHANGED <<started, pending, shortTail, draining, attempts, refused,
                 hw, fed, discarded>>

-----------------------------------------------------------------------------
(* Mutant: a full chunk is taken for a tail. *)
M_ChunkIsTail ==
  \/ attempts >= MaxAttempts
  \/ pending = <<>>
  \/ ~shortTail /\ Len(pending) <= Chunk

(* The loop of drain: it stops on its own, or asks the device once more. *)
LoopDone ==
  \/ attempts >= MaxAttempts
  \/ pending = <<>>
  \/ ~shortTail /\ Len(pending) < Chunk

Requested == Min2(Len(pending), Chunk)

InLoop == draining /\ ~LoopDone

(* Mutant: the call waits, locked, until the whole queue is played. *)
M_WaitEmpty ==
  /\ draining
  /\ pending = <<>>
  /\ draining' = FALSE
  /\ UNCHANGED <<started, pending, shortTail, attempts, refused, hw, fed,
                 discarded, stats, calls>>

EndDrain ==
  /\ draining
  /\ LoopDone
  /\ draining' = FALSE
  /\ UNCHANGED <<started, pending, shortTail, attempts, refused, hw, fed,
                 discarded, stats, calls>>

(* Mutants: a short write is submitted again from its start; a write is    *)
(* taken to have accepted all it was asked.                                *)
M_Resubmit(k) ==
  /\ InLoop
  /\ k \in 1..Requested
  /\ hw' = hw \o SubSeq(pending, 1, k)
  /\ pending' = IF k < Requested THEN pending ELSE EraseFront(pending, k)
  /\ shortTail' = (k < Requested)
  /\ refused' = (refused \/ k < Requested)
  /\ stats' = Bump(stats, "accepted", k)
  /\ attempts' = attempts + 1
  /\ UNCHANGED <<started, draining, fed, discarded, calls>>

M_AssumeFull(k) ==
  /\ InLoop
  /\ k \in 1..Requested
  /\ hw' = hw \o SubSeq(pending, 1, k)
  /\ pending' = EraseFront(pending, Requested)
  /\ shortTail' = FALSE
  /\ refused' = (refused \/ k < Requested)
  /\ stats' = Bump(stats, "accepted", k)
  /\ attempts' = attempts + 1
  /\ UNCHANGED <<started, draining, fed, discarded, calls>>

(* snd_pcm_writei took k frames, perhaps fewer than it was asked. *)
WriteAccepts(k) ==
  /\ InLoop
  /\ k \in 1..Requested
  /\ hw' = hw \o SubSeq(pending, 1, k)
  /\ pending' = EraseFront(pending, k)
  /\ shortTail' = (k < Requested)
  /\ refused' = (refused \/ k < Requested)
  /\ stats' = Bump(Bump(stats, "accepted", k),
                   "short", IF k < Requested THEN 1 ELSE 0)
  /\ attempts' = attempts + 1
  /\ UNCHANGED <<started, draining, fed, discarded, calls>>

(* 0, EINTR or EAGAIN: keep everything and wait for the next call. *)
WriteBackpressure(eagain) ==
  /\ InLoop
  /\ draining' = FALSE
  /\ refused' = TRUE
  /\ stats' = Bump(stats, "again", IF eagain THEN 1 ELSE 0)
  /\ UNCHANGED <<started, pending, shortTail, attempts, hw, fed, discarded,
                 calls>>

(* A hard error; an underrun or a suspend is recovered by one prepare. *)
WriteFails(err, prepared) ==
  /\ InLoop
  /\ err \notin {"EPIPE", "ESTRPIPE"} => prepared
  /\ draining' = FALSE
  /\ refused' = TRUE
  /\ stats' = Bump(Bump(Bump(stats, "xruns", IF err = "EPIPE" THEN 1 ELSE 0),
                        "recovery", IF prepared THEN 0 ELSE 1),
                   "playback", IF prepared THEN 1 ELSE 2)
  /\ UNCHANGED <<started, pending, shortTail, attempts, hw, fed, discarded,
                 calls>>

DrainStep ==
  \/ EndDrain
  \/ \E k \in 1..Chunk : WriteAccepts(k)
  \/ \E eagain \in BOOLEAN : WriteBackpressure(eagain)
  \/ \E err \in {"EPIPE", "ESTRPIPE", "EIO"}, prepared \in BOOLEAN :
        WriteFails(err, prepared)

Next ==
  \/ StartSink
  \/ StopSink
  \/ \E n \in 1..MaxPeriod : Feed(n)
  \/ RejectPeriod
  \/ DrainStep

Spec == Init /\ [][Next]_vars

(* The thread that called rx_audio_playback runs on until it returns. *)
FairSpec == Spec /\ WF_vars(DrainStep)

-----------------------------------------------------------------------------
TypeOK ==
  /\ started \in BOOLEAN
  /\ pending \in Seq(Nat)
  /\ shortTail \in BOOLEAN
  /\ draining \in BOOLEAN
  /\ attempts \in 0..MaxAttempts
  /\ refused \in BOOLEAN
  /\ hw \in Seq(Nat)
  /\ fed \in Nat
  /\ discarded \in Nat
  /\ stats \in [StatNames -> Nat]
  /\ calls \in 0..CallBound

(* "Never resubmit accepted frames": the device hears every frame at most  *)
(* once and in the order of arrival, and whatever it has heard is older    *)
(* than whatever is still queued, through short writes, underruns,         *)
(* overflows and restarts of the sink.                                     *)
InOrderOnce ==
  /\ \A i, j \in DOMAIN hw : i < j => hw[i] < hw[j]
  /\ \A i \in DOMAIN hw : hw[i] <= fed - Len(pending)
  /\ \A i \in DOMAIN pending : pending[i] = fed - Len(pending) + i

(* Every frame fed is accepted, still queued, counted as dropped, or was   *)
(* cleared when the sink stopped, and a drop shows in the playback errors: *)
(* backpressure and failed writes lose nothing silently.                   *)
EveryFrameAccounted ==
  /\ Len(hw) = stats["accepted"]
  /\ stats["accepted"] + stats["dropped"] + discarded + Len(pending) = fed
  /\ stats["dropped"] > 0 => stats["playback"] > 0

(* The latency bound: at most MaxFrames wait, whatever the device does. *)
BoundedQueue == Len(pending) <= MaxFrames

(* MaxAttempts writes are enough: a call in which the device took all it   *)
(* was offered leaves less than one chunk behind.                          *)
FullDrain == ~draining /\ ~refused => Len(pending) < Chunk

(* Overflow cuts the oldest frames: the newest one fed survives, and the   *)
(* queue is left exactly full.                                             *)
OverflowKeepsNewest ==
  [][stats'["dropped"] > stats["dropped"] =>
       /\ Len(pending') = MaxFrames
       /\ pending'[MaxFrames] = fed']_vars

(* drain never waits or spins on backpressure: audio_lock is released. *)
AudioLockReleased == draining ~> ~draining
=============================================================================
