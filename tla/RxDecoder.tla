----------------------------- MODULE RxDecoder ------------------------------
(***************************************************************************)
(* The asynchronous hardware decoder of the Dante receiver                 *)
(* (sc6f0-dante-rx.cpp): the threads that deliver access units, the thread *)
(* that opens the display and the decoder, the event callback that drains  *)
(* decoded frames, and the teardown.  They share three mutexes:            *)
(*   decoder   decoder_lock, held across a blocking push and across setup; *)
(*   output    decoder_output_lock, used by the SDI product only;          *)
(*   parser    h264_parser_lock.                                           *)
(* display_lock only guards sections that neither wait nor take another    *)
(* lock, so each of those is one step.  A section of decoder_lock that     *)
(* does not wait is one step too; only the ones that wait (a push, a join, *)
(* the setup) appear with the lock held between two steps.                 *)
(*                                                                         *)
(* An avcC record with its width, height and rate is a number, 0 for none. *)
(***************************************************************************)
EXTENDS Integers

CONSTANTS
  Feeders,      (* threads that deliver access units                       *)
  Caps,         (* parameter sets the source may announce                  *)
  Source,       (* the one of them that is the RTSP source thread          *)
  Builds,       (* receivers to look at                                    *)
  Early,        (* those whose decoder_start may signal, and still fail    *)
  Display,      (* display_enabled                                         *)
  InCap,        (* packets the decoder queues (16)                         *)
  OutCap        (* frames the decoder keeps for pop (8)                    *)

Service == {"init", "callback", "main"}
Threads == Feeders \cup Service
Locks == {"decoder", "output", "parser"}

(* SDI and HDMI product of the Dante receiver, and its RTSP client. *)
AllBuilds == {"sdi", "hdmi", "rtsp"}

ASSUME RxAssumption ==
  /\ Feeders # {}
  /\ Feeders \cap (Service \cup {"none"}) = {}
  /\ Caps \subseteq Nat \ {0}
  /\ Source \in Feeders
  /\ Builds \subseteq AllBuilds /\ Early \subseteq AllBuilds
  /\ Display \in BOOLEAN
  /\ InCap \in Nat \ {0}
  /\ OutCap \in Nat \ {0}

VARIABLES
  pc,            (* where each thread is                                   *)
  lock,          (* the holder of each mutex, or "none"                    *)
  idr,           (* is the access unit a feeder carries an IDR             *)
  initializing,  (* decoder_initializing                                   *)
  waitIdr,       (* decoder_wait_for_idr                                   *)
  caps,          (* extra_data, dec_width, dec_height, dec_fps             *)
  announced,     (* caps the RTSP source announced last                    *)
  dec,           (* vdec: "none", "made", or "live" once vdec_started      *)
  decCaps,       (* caps the decoder was configured with                   *)
  inq, outq,     (* packets and frames inside the decoder                  *)
  handlers,      (* vdec_event_handlers is running                         *)
  signalled,     (* vdec_event is set and not yet taken by the handlers    *)
  failedPop,     (* the last callback ended at a failed pop, frames queued *)
  drm,           (* caps the HDMI or SDI mode was set for, 0 when off      *)
  sink,          (* caps the scaler of vdec_sink was set for, 0 when off   *)
  stopping,      (* no thread delivers access units any more               *)
  build          (* which receiver this is                                 *)

decVars == <<dec, decCaps, inq, outq>>
eventVars == <<handlers, signalled, failedPop>>
capsVars == <<caps, announced>>
flagVars == <<initializing, waitIdr>>
displayVars == <<drm, sink>>

runVars == <<stopping, build>>

vars == <<pc, lock, idr, decVars, eventVars, capsVars, flagVars,
          displayVars, runVars>>

Sdi == build = "sdi"               (* output_is_sdi() *)
Rtsp == build = "rtsp"             (* h264_input_parsed *)
EarlyEvent == build \in Early

Live == dec = "live"
Free(l) == lock[l] = "none"
Goto(t, place) == pc' = [pc EXCEPT ![t] = place]
Take(l, t) == Free(l) /\ lock' = [lock EXCEPT ![l] = t]
Drop(ls) == lock' = [l \in Locks |-> IF l \in ls THEN "none" ELSE lock[l]]

(* The lock the event callback takes around pop. *)
CallbackLock == IF Sdi THEN "output" ELSE "decoder"

Init ==
  /\ pc = [t \in Threads |-> CASE t = "init" -> "none"
                               [] t = "main" -> "run"
                               [] OTHER -> "idle"]
  /\ lock = [l \in Locks |-> "none"]
  /\ idr = [f \in Feeders |-> FALSE]
  /\ initializing = FALSE /\ waitIdr = FALSE
  /\ caps = 0 /\ announced = 0
  /\ dec = "none" /\ decCaps = 0 /\ inq = 0 /\ outq = 0
  /\ handlers = FALSE /\ signalled = FALSE /\ failedPop = FALSE
  /\ drm = 0 /\ sink = 0
  /\ stopping = FALSE
  /\ build \in Builds

-----------------------------------------------------------------------------
(* "CAPS and AUs are delivered serially by the RTSP source thread": the    *)
(* RTSP client has one delivering thread.                                  *)
Delivers(f) == pc[f] = "idle" /\ ~stopping /\ (Rtsp => f = Source)

(* rx_video_feed_decoder: an access unit that arrives while the decoder is *)
(* being opened is dropped at once, which leaves everything as it is.      *)
Arrive(f, isIdr) ==
  /\ Delivers(f)
  /\ ~initializing
  /\ idr' = [idr EXCEPT ![f] = isIdr]
  /\ Goto(f, IF Rtsp THEN "submit" ELSE "parse")
  /\ UNCHANGED <<lock, decVars, eventVars, capsVars, flagVars, displayVars,
                 runVars>>

(* ZST_BUFFER_FLAG_DROP: the decoder is told of the gap, under its lock. *)
ArriveDropped(f) ==
  /\ Delivers(f)
  /\ ~initializing
  /\ Goto(f, "notify")
  /\ UNCHANGED <<lock, idr, decVars, eventVars, capsVars, flagVars,
                 displayVars, runVars>>

NotifyDiscontinuity(f) ==
  /\ pc[f] = "notify"
  /\ Free("decoder")
  /\ Goto(f, "idle")
  /\ UNCHANGED <<lock, idr, decVars, eventVars, capsVars, flagVars,
                 displayVars, runVars>>

(* Mutant: new caps are refused only once the decoder is live. *)
M_ApplyCaps(v) == caps' = IF Live THEN caps ELSE v

(* rx_h264_apply_caps, under decoder_lock: the caps of a decoder that is   *)
(* live or being opened stay.                                              *)
ApplyCaps(v) == caps' = IF Live \/ initializing THEN caps ELSE v

(* rx_h264_parser_push: the parser may publish caps to its caps sink. *)
ParserEnter(f) ==
  /\ pc[f] = "parse"
  /\ Take("parser", f)
  /\ Goto(f, "parsing")
  /\ UNCHANGED <<idr, decVars, eventVars, capsVars, flagVars, displayVars,
                 runVars>>

ParserLeave(f) ==
  /\ pc[f] = "parsing"
  /\ Drop({"parser"})
  /\ Goto(f, "submit")
  /\ UNCHANGED <<idr, decVars, eventVars, capsVars, flagVars, displayVars,
                 runVars>>

ParserPublish(f, v) ==
  /\ pc[f] = "parsing"
  /\ Free("decoder")
  /\ ApplyCaps(v)
  /\ Drop({"parser"})
  /\ Goto(f, "submit")
  /\ UNCHANGED <<idr, decVars, eventVars, announced, flagVars, displayVars,
                 runVars>>

-----------------------------------------------------------------------------
(* The rest of rx_video_feed_decoder runs under decoder_lock.  The access  *)
(* unit is dropped, kept for a push, or opens the decoder.                 *)
Ready(f) == ~initializing /\ Live /\ (waitIdr => idr[f])
Opens(f) == ~initializing /\ ~Live /\ caps # 0 /\ idr[f]

SubmitDropped(f) ==
  /\ pc[f] = "submit"
  /\ Free("decoder")
  /\ ~Ready(f) /\ ~Opens(f)
  /\ Goto(f, "idle")
  /\ UNCHANGED <<lock, idr, decVars, eventVars, capsVars, flagVars,
                 displayVars, runVars>>

SubmitLive(f) ==
  /\ pc[f] = "submit"
  /\ Ready(f)
  /\ Take("decoder", f)
  /\ waitIdr' = FALSE
  /\ Goto(f, "push")
  /\ UNCHANGED <<idr, decVars, eventVars, capsVars, initializing,
                 displayVars, runVars>>

(* submit_vdec_packet: the decoder takes the packet once it has room. *)
PushAccepted(f) ==
  /\ pc[f] = "push"
  /\ inq < InCap
  /\ inq' = inq + 1
  /\ Drop({"decoder"})
  /\ Goto(f, "idle")
  /\ UNCHANGED <<idr, dec, decCaps, outq, eventVars, capsVars, flagVars,
                 displayVars, runVars>>

(* Mutant: a failed push is tried again at once. *)
M_PushFailed(f) ==
  /\ pc[f] = "push"
  /\ Drop({"decoder"})
  /\ Goto(f, "submit")
  /\ UNCHANGED <<idr, decVars, eventVars, capsVars, flagVars, displayVars,
                 runVars>>

(* No pool buffer, a buffer too small, or a push that fails or times out. *)
PushFailed(f) ==
  /\ pc[f] = "push"
  /\ Drop({"decoder"})
  /\ Goto(f, "idle")
  /\ UNCHANGED <<idr, decVars, eventVars, capsVars, flagVars, displayVars,
                 runVars>>

SubmitOpens(f) ==
  /\ pc[f] = "submit"
  /\ Opens(f)
  /\ Take("decoder", f)
  /\ Goto(f, "join")
  /\ UNCHANGED <<idr, decVars, eventVars, capsVars, flagVars, displayVars,
                 runVars>>

(* Mutant: decoder_initializing is left for the new thread to set. *)
M_SpawnInit(f) ==
  /\ pc[f] = "join"
  /\ pc["init"] = "none"
  /\ waitIdr' = TRUE
  /\ pc' = [pc EXCEPT !["init"] = "drm", ![f] = "idle"]
  /\ Drop({"decoder"})
  /\ UNCHANGED <<idr, decVars, eventVars, capsVars, initializing,
                 displayVars, runVars>>

(* start_vdec_decoder_async, decoder_lock held: join the previous thread. *)
SpawnInit(f) ==
  /\ pc[f] = "join"
  /\ pc["init"] = "none"
  /\ initializing' = TRUE
  /\ waitIdr' = TRUE
  /\ pc' = [pc EXCEPT !["init"] = "drm", ![f] = "idle"]
  /\ Drop({"decoder"})
  /\ UNCHANGED <<idr, decVars, eventVars, capsVars, displayVars, runVars>>

-----------------------------------------------------------------------------
(* The initialization thread.  start_drm_output and start_vdec_sink run    *)
(* without a lock and return at once when already started; either may fail *)
(* and so may SetupVdecAsync and init_vdec_decoder.                        *)
InitDrm(ok) ==
  /\ pc["init"] = "drm"
  /\ drm # 0 => ok
  /\ drm' = IF Display /\ drm = 0 /\ ok THEN caps ELSE drm
  /\ Goto("init", IF ~Display THEN "lock" ELSE IF ok THEN "sink" ELSE "failed")
  /\ UNCHANGED <<lock, idr, decVars, eventVars, capsVars, flagVars, sink,
                 runVars>>

InitSink(ok) ==
  /\ pc["init"] = "sink"
  /\ sink # 0 => ok
  /\ sink' = IF sink = 0 /\ ok THEN caps ELSE sink
  /\ Goto("init", IF ok THEN "lock" ELSE "failed")
  /\ UNCHANGED <<lock, idr, decVars, eventVars, capsVars, flagVars, drm,
                 runVars>>

InitLock ==
  /\ pc["init"] = "lock"
  /\ Take("decoder", "init")
  /\ Goto("init", IF Sdi THEN "lockOutput" ELSE "setup")
  /\ UNCHANGED <<idr, decVars, eventVars, capsVars, flagVars, displayVars,
                 runVars>>

InitLockOutput ==
  /\ pc["init"] = "lockOutput"
  /\ Take("output", "init")
  /\ Goto("init", "setup")
  /\ UNCHANGED <<idr, decVars, eventVars, capsVars, flagVars, displayVars,
                 runVars>>

(* SetupVdecAsync, then init_vdec_decoder up to decoder_start.  A failed   *)
(* SetupVdecAsync has already taken down what it built.                    *)
InitSetup(made) ==
  /\ pc["init"] = "setup"
  /\ handlers' = (made # "nothing")
  /\ dec' = IF made = "decoder" THEN "made" ELSE "none"
  /\ decCaps' = IF made = "decoder" THEN caps ELSE decCaps
  /\ Goto("init", IF made = "decoder" THEN "start" ELSE "cleanup")
  /\ IF made = "decoder" THEN UNCHANGED lock ELSE Drop({"output"})
  /\ UNCHANGED <<idr, inq, outq, signalled, failedPop, capsVars, flagVars,
                 displayVars, runVars>>

(* The decoder may already produce while decoder_start runs. *)
EarlySignal ==
  /\ EarlyEvent
  /\ dec = "made"
  /\ signalled' = TRUE
  /\ UNCHANGED <<pc, lock, idr, decVars, handlers, failedPop, capsVars,
                 flagVars, displayVars, runVars>>

InitStarted ==
  /\ pc["init"] = "start"
  /\ dec' = "live"
  /\ inq' = 0 /\ outq' = 0
  /\ Drop({"decoder", "output"})
  /\ Goto("init", "done")
  /\ UNCHANGED <<idr, decCaps, eventVars, capsVars, flagVars, displayVars,
                 runVars>>

(* Mutant: the output lock is still held when the handlers are joined. *)
M_InitStartFailed ==
  /\ pc["init"] = "start"
  /\ dec' = "none"
  /\ Goto("init", "cleanup")
  /\ UNCHANGED <<lock, idr, decCaps, inq, outq, eventVars, capsVars,
                 flagVars, displayVars, runVars>>

(* decoder_start failed: the output lock goes before the handlers are      *)
(* joined, decoder_lock stays.                                             *)
InitStartFailed ==
  /\ pc["init"] = "start"
  /\ dec' = "none"
  /\ Drop({"output"})
  /\ Goto("init", "cleanup")
  /\ UNCHANGED <<idr, decCaps, inq, outq, eventVars, capsVars,
                 flagVars, displayVars, runVars>>

(* StopVdecAsync: stopping the handlers waits for a running callback. *)
CallbackJoined == handlers => pc["callback"] = "idle"

(* Mutant: the handlers of the failed start are kept. *)
M_InitCleanup ==
  /\ pc["init"] = "cleanup"
  /\ Drop({"decoder", "output"})
  /\ Goto("init", "failed")
  /\ UNCHANGED <<idr, decVars, eventVars, capsVars, flagVars, displayVars,
                 runVars>>

InitCleanup ==
  /\ pc["init"] = "cleanup"
  /\ CallbackJoined
  /\ handlers' = FALSE /\ signalled' = FALSE
  /\ Drop({"decoder", "output"})
  /\ Goto("init", "failed")
  /\ UNCHANGED <<idr, decVars, failedPop, capsVars, flagVars, displayVars,
                 runVars>>

(* Mutant: a failure returns without clearing decoder_initializing. *)
M_InitFailed ==
  /\ pc["init"] = "failed"
  /\ waitIdr' = FALSE
  /\ Goto("init", "none")
  /\ UNCHANGED <<lock, idr, decVars, eventVars, capsVars, initializing,
                 displayVars, runVars>>

InitFailed ==
  /\ pc["init"] = "failed"
  /\ waitIdr' = FALSE
  /\ Goto("init", "done")
  /\ UNCHANGED <<lock, idr, decVars, eventVars, capsVars, initializing,
                 displayVars, runVars>>

InitDone ==
  /\ pc["init"] = "done"
  /\ initializing' = FALSE
  /\ Goto("init", "none")
  /\ UNCHANGED <<lock, idr, decVars, eventVars, capsVars, waitIdr,
                 displayVars, runVars>>

-----------------------------------------------------------------------------
(* The decoder turns packets into frames and signals its event. *)
Decode ==
  /\ Live
  /\ inq > 0 /\ outq < OutCap
  /\ inq' = inq - 1 /\ outq' = outq + 1
  /\ signalled' = TRUE
  /\ UNCHANGED <<pc, lock, idr, dec, decCaps, handlers, failedPop, capsVars,
                 flagVars, displayVars, runVars>>

(* on_vdec_event_callback: pop until there is no frame or the pop fails,   *)
(* show each one.                                                          *)
CallbackWakes ==
  /\ pc["callback"] = "idle"
  /\ handlers /\ signalled
  /\ signalled' = FALSE /\ failedPop' = FALSE
  /\ Goto("callback", "pop")
  /\ UNCHANGED <<lock, idr, decVars, handlers, capsVars, flagVars,
                 displayVars, runVars>>

(* Mutants: pop waits for decoder_lock on every product; one frame is      *)
(* taken per event.                                                        *)
M_CallbackPopsLocked ==
  /\ pc["callback"] = "pop"
  /\ Free("decoder")
  /\ Live /\ outq > 0
  /\ outq' = outq - 1
  /\ Goto("callback", "show")
  /\ UNCHANGED <<lock, idr, dec, decCaps, inq, eventVars, capsVars,
                 flagVars, displayVars, runVars>>

M_CallbackShows ==
  /\ pc["callback"] = "show"
  /\ Goto("callback", "idle")
  /\ UNCHANGED <<lock, idr, decVars, eventVars, capsVars, flagVars,
                 displayVars, runVars>>

CallbackPops ==
  /\ pc["callback"] = "pop"
  /\ Free(CallbackLock)
  /\ Live /\ outq > 0
  /\ outq' = outq - 1
  /\ Goto("callback", "show")
  /\ UNCHANGED <<lock, idr, dec, decCaps, inq, eventVars, capsVars,
                 flagVars, displayVars, runVars>>

(* Under display_lock the frame goes to the sink, if it is started. *)
CallbackShows ==
  /\ pc["callback"] = "show"
  /\ Goto("callback", "pop")
  /\ UNCHANGED <<lock, idr, decVars, eventVars, capsVars, flagVars,
                 displayVars, runVars>>

CallbackReturns ==
  /\ pc["callback"] = "pop"
  /\ Free(CallbackLock)
  /\ ~Live \/ outq = 0
  /\ Goto("callback", "idle")
  /\ UNCHANGED <<lock, idr, decVars, eventVars, capsVars, flagVars,
                 displayVars, runVars>>

(* Any result but QCAP_RS_SUCCESSFUL ends the loop (decoded_errors), with  *)
(* frames still in the decoder; nothing sets the event for them again.     *)
CallbackPopFails ==
  /\ pc["callback"] = "pop"
  /\ Free(CallbackLock)
  /\ Live /\ outq > 0
  /\ failedPop' = TRUE
  /\ Goto("callback", "idle")
  /\ UNCHANGED <<lock, idr, decVars, handlers, signalled, capsVars, flagVars,
                 displayVars, runVars>>

-----------------------------------------------------------------------------
(* stop_vdec_decoder and stop_vdec_display, by the thread that stops the   *)
(* receiver or by the RTSP source thread when the caps change.             *)
StopJoinsInit(t) ==
  /\ pc[t] = "stopInit"
  /\ pc["init"] = "none"
  /\ Goto(t, "stopCallback")
  /\ UNCHANGED <<lock, idr, decVars, eventVars, capsVars, flagVars,
                 displayVars, runVars>>

(* Mutant: the handlers are deleted without waiting for the callback. *)
M_StopJoinsCallback(t) ==
  /\ pc[t] = "stopCallback"
  /\ handlers' = FALSE
  /\ Goto(t, "stopDecoder")
  /\ UNCHANGED <<lock, idr, decVars, signalled, failedPop, capsVars,
                 flagVars, displayVars, runVars>>

StopJoinsCallback(t) ==
  /\ pc[t] = "stopCallback"
  /\ CallbackJoined
  /\ handlers' = FALSE
  /\ Goto(t, "stopDecoder")
  /\ UNCHANGED <<lock, idr, decVars, signalled, failedPop, capsVars,
                 flagVars, displayVars, runVars>>

StopDeletesDecoder(t) ==
  /\ pc[t] = "stopDecoder"
  /\ Free("decoder")
  /\ Sdi => Free("output")
  /\ dec' = "none"
  /\ inq' = 0 /\ outq' = 0
  /\ signalled' = FALSE /\ failedPop' = FALSE
  /\ Goto(t, "stopDisplay")
  /\ UNCHANGED <<lock, idr, decCaps, handlers, capsVars, flagVars,
                 displayVars, runVars>>

StopDisplay(t) ==
  /\ pc[t] = "stopDisplay"
  /\ drm' = 0 /\ sink' = 0
  /\ Goto(t, IF t = "main" THEN "stopped" ELSE "apply")
  /\ UNCHANGED <<lock, idr, decVars, eventVars, capsVars, flagVars, runVars>>

(* Mutant: a display left on by a failed start does not count as in use. *)
M_Restart(v) == (initializing \/ Live) /\ v # caps

(* rtsp_video_sink_event: caps that differ from those in use rebuild both  *)
(* the decoder and the display.                                            *)
Restart(v) == (initializing \/ Live \/ drm # 0) /\ v # caps

CapsEvent(f, v) ==
  /\ Rtsp
  /\ Delivers(f)
  /\ Free("decoder")
  /\ announced' = v
  /\ Goto(f, IF Restart(v) THEN "stopInit" ELSE "apply")
  /\ UNCHANGED <<lock, idr, decVars, eventVars, caps, flagVars, displayVars,
                 runVars>>

CapsApplied(f) ==
  /\ pc[f] = "apply"
  /\ Free("decoder")
  /\ ApplyCaps(announced)
  /\ Goto(f, "idle")
  /\ UNCHANGED <<lock, idr, decVars, eventVars, announced, flagVars,
                 displayVars, runVars>>

(* stop_dante_rx and the end of run_rtsp_client: the threads that deliver  *)
(* access units are stopped and joined before the decoder is.              *)
BeginStop ==
  /\ pc["main"] = "run"
  /\ stopping' = TRUE
  /\ Goto("main", "quiesce")
  /\ UNCHANGED <<lock, idr, decVars, eventVars, capsVars, flagVars,
                 displayVars, build>>

FeedersJoined ==
  /\ pc["main"] = "quiesce"
  /\ \A f \in Feeders : pc[f] = "idle"
  /\ Goto("main", "stopInit")
  /\ UNCHANGED <<lock, idr, decVars, eventVars, capsVars, flagVars,
                 displayVars, runVars>>

(* The receiver has ended; so may the behaviour. *)
Stopped == pc["main"] = "stopped" /\ UNCHANGED vars

-----------------------------------------------------------------------------
StopStep(t) ==
  \/ StopJoinsInit(t)
  \/ StopJoinsCallback(t)
  \/ StopDeletesDecoder(t)
  \/ StopDisplay(t)

(* The steps of a feeder that has begun to deliver, a failed push apart. *)
FeederStep(f) ==
  \/ NotifyDiscontinuity(f)
  \/ ParserEnter(f)
  \/ ParserLeave(f)
  \/ \E v \in Caps : ParserPublish(f, v)
  \/ SubmitDropped(f)
  \/ SubmitLive(f)
  \/ SubmitOpens(f)
  \/ PushAccepted(f)
  \/ SpawnInit(f)
  \/ CapsApplied(f)
  \/ StopStep(f)

InitStep ==
  \/ \E ok \in BOOLEAN : InitDrm(ok)
  \/ \E ok \in BOOLEAN : InitSink(ok)
  \/ InitLock
  \/ InitLockOutput
  \/ \E made \in {"nothing", "handlers", "decoder"} : InitSetup(made)
  \/ InitStarted
  \/ InitStartFailed
  \/ InitCleanup
  \/ InitFailed
  \/ InitDone

CallbackStep ==
  \/ CallbackWakes
  \/ CallbackPops
  \/ CallbackShows
  \/ CallbackReturns

MainStep == FeedersJoined \/ StopStep("main")

Next ==
  \/ \E f \in Feeders : FeederStep(f)
  \/ \E f \in Feeders, isIdr \in BOOLEAN : Arrive(f, isIdr)
  \/ \E f \in Feeders : ArriveDropped(f)
  \/ \E f \in Feeders : PushFailed(f)
  \/ \E f \in Feeders, v \in Caps : CapsEvent(f, v)
  \/ InitStep
  \/ EarlySignal
  \/ Decode
  \/ CallbackStep
  \/ CallbackPopFails
  \/ BeginStop
  \/ MainStep
  \/ Stopped

Spec == Init /\ [][Next]_vars

(* Every thread that can run goes on, and the decoder decodes.  Where      *)
(* callback and input share decoder_lock a full decoder releases a push    *)
(* only by its timeout, the QCAP_RS_ERROR_TIMEOUT that submit_vdec_packet  *)
(* expects; on SDI the timeout is relied upon only after a failed pop,     *)
(* which leaves a full decoder that nobody drains.  Nothing is assumed of  *)
(* arrivals, of failing pops or of the order to stop.                      *)
FairSpec ==
  /\ Spec
  /\ \A f \in Feeders : WF_vars(FeederStep(f))
  /\ \A f \in Feeders : WF_vars((~Sdi \/ failedPop) /\ PushFailed(f))
  /\ WF_vars(InitStep)
  /\ WF_vars(CallbackStep)
  /\ WF_vars(Decode)
  /\ WF_vars(MainStep)

-----------------------------------------------------------------------------
Places == {"idle", "parse", "parsing", "notify", "submit", "push", "join",
           "apply", "none", "drm", "sink", "lock", "lockOutput", "setup",
           "start", "cleanup", "failed", "done", "pop", "show", "run",
           "quiesce", "stopInit", "stopCallback", "stopDecoder",
           "stopDisplay", "stopped"}

(* Type invariant of threads, locks, decoder and display. *)
TypeOK ==
  /\ pc \in [Threads -> Places]
  /\ lock \in [Locks -> Threads \cup {"none"}]
  /\ idr \in [Feeders -> BOOLEAN]
  /\ initializing \in BOOLEAN
  /\ waitIdr \in BOOLEAN
  /\ caps \in Caps \cup {0}
  /\ announced \in Caps \cup {0}
  /\ dec \in {"none", "made", "live"}
  /\ decCaps \in Caps \cup {0}
  /\ inq \in 0..InCap
  /\ outq \in 0..OutCap
  /\ handlers \in BOOLEAN
  /\ signalled \in BOOLEAN
  /\ failedPop \in BOOLEAN
  /\ drm \in Caps \cup {0}
  /\ sink \in Caps \cup {0}
  /\ stopping \in BOOLEAN
  /\ build \in Builds

(* The threads a thread is waiting to join, and the lock one waits for. *)
Joins(t, other) ==
  \/ other = "callback" /\ handlers /\ pc[t] \in {"cleanup", "stopCallback"}
  \/ other = "init" /\ pc[t] \in {"join", "stopInit"}

WaitsFor(t, l) ==
  \/ t = "callback" /\ pc[t] = "pop" /\ l = CallbackLock
  \/ t = "init" /\ pc[t] = "lock" /\ l = "decoder"
  \/ t = "init" /\ pc[t] = "lockOutput" /\ l = "output"

(* "Failure cleanup joins handlers: do not hold the lock a queued SDI      *)
(* callback needs while joining that callback": no thread joins another    *)
(* while it holds the mutex the other one waits for.                       *)
JoinHoldsNoNeededLock ==
  \A t \in Threads, other \in {"init", "callback"}, l \in Locks :
    Joins(t, other) /\ WaitsFor(other, l) => lock[l] # t

(* A push uses, and a popped frame belongs to, a decoder that is started   *)
(* and not deleted, whichever thread opens or tears it down meanwhile.     *)
UsesLiveDecoder ==
  /\ \A f \in Feeders : pc[f] = "push" => Live
  /\ pc["callback"] = "show" => Live

(* SetupVdecAsync never overwrites a decoder, an event or handlers that    *)
(* are still there, and no callback of an earlier decoder runs.            *)
SetupStartsClean ==
  pc["init"] \in {"drm", "sink", "lock", "lockOutput", "setup"} =>
    dec = "none" /\ ~handlers /\ pc["callback"] = "idle"

(* "keeping active avcC": the parameter sets, which the initialization     *)
(* thread reads without a lock, change only while there is no decoder and  *)
(* no such thread, so a decoder always has the stored ones.                *)
ConfigStable ==
  [][/\ caps' # caps => dec = "none" /\ pc["init"] = "none"
     /\ dec' # "none" => decCaps' = caps']_vars

(* A decoded frame that waits in a running decoder has a callback on its   *)
(* way: several frames may share one event, and none is left behind.  Only *)
(* a pop that fails with frames queued leaves them, and only until the     *)
(* next event, whose callback drains the older ones too or fails again.    *)
NoStrandedFrame ==
  Live /\ handlers /\ outq > 0 =>
    signalled \/ pc["callback"] # "idle" \/ failedPop

(* Once the RTSP caps event returns, its caps are in force everywhere: an  *)
(* announcement is never lost to an initialization thread, and HDMI timing *)
(* and scaler, selected "using the source format", belong to the caps of   *)
(* the live decoder, also after an opening that failed half way.           *)
RtspCapsInForce ==
  announced # 0 /\ pc[Source] \in {"idle", "submit", "push", "join"} =>
    /\ caps = announced
    /\ Live => decCaps = announced
    /\ Live /\ Display => drm = announced /\ sink = announced

(* decoder_initializing, which drops all input, is always cleared again. *)
InitEnds == initializing ~> ~initializing

(* "SDI output draining must remain live while input push blocks": a push  *)
(* that waits for room is released by the drain, not only by its timeout,  *)
(* which is needed where callback and push share decoder_lock and after a  *)
(* pop that failed.                                                        *)
PushReleased == \A f \in Feeders : (pc[f] = "push") ~> (pc[f] # "push")

(* Stopping ends: nobody waits for a thread that waits for it. *)
StopEnds == stopping ~> (pc["main"] = "stopped")
=============================================================================
