--------------------------- MODULE RxDecoderProofs --------------------------
(***************************************************************************)
(* Proofs about RxDecoder for any number of delivering threads, any caps,  *)
(* decoder queues of any length and each of the three receivers.           *)
(***************************************************************************)
EXTENDS RxDecoder, TLAPS

StopPlaces == {"stopInit", "stopCallback", "stopDecoder", "stopDisplay"}

FeederPlaces == {"idle", "notify", "parse", "parsing", "submit", "push",
                 "join", "apply"} \cup StopPlaces
InitPlaces == {"none", "drm", "sink", "lock", "lockOutput", "setup", "start",
               "cleanup", "failed", "done"}
CallbackPlaces == {"idle", "pop", "show"}
MainPlaces == {"run", "quiesce", "stopped"} \cup StopPlaces

(* Where each thread can be; an RTSP client has one delivering thread, and *)
(* only there a delivering thread tears the decoder down.                  *)
PlaceInv ==
  /\ \A f \in Feeders :
       /\ pc[f] \in FeederPlaces
       /\ Rtsp => pc[f] \notin {"parse", "parsing"}
       /\ Rtsp /\ f # Source => pc[f] = "idle"
       /\ ~Rtsp => pc[f] \notin StopPlaces \cup {"apply"}
       /\ pc["main"] \in StopPlaces \cup {"stopped"} => pc[f] = "idle"
  /\ pc["init"] \in InitPlaces
  /\ pc["init"] = "sink" => Display
  /\ pc["init"] = "lockOutput" => Sdi
  /\ pc["callback"] \in CallbackPlaces
  /\ pc["main"] \in MainPlaces
  /\ pc["main"] # "run" => stopping

(* Who holds the two mutexes of the decoder. *)
LockInv ==
  /\ \A f \in Feeders : lock["decoder"] = f <=> pc[f] \in {"push", "join"}
  /\ lock["decoder"] = "init"
       <=> pc["init"] \in {"lockOutput", "setup", "start", "cleanup"}
  /\ lock["decoder"] \notin {"callback", "main"}
  /\ lock["output"] = IF Sdi /\ pc["init"] \in {"setup", "start"}
                      THEN "init" ELSE "none"

(* The stage of the opening tells what exists. *)
OpeningInv ==
  /\ initializing <=> pc["init"] # "none"
  /\ dec = "made" <=> pc["init"] = "start"
  /\ dec = "live" => pc["init"] \in {"done", "none"}
  /\ dec = "made" => handlers
  /\ dec = "none" /\ pc["init"] # "cleanup" => ~handlers /\ ~signalled
  /\ pc["callback"] # "idle" => handlers
  /\ pc["callback"] = "show" => Live
  /\ pc["init"] # "none" => caps # 0
  /\ \A f \in Feeders : /\ pc[f] = "push" => Live
                        /\ pc[f] = "join" => ~initializing /\ ~Live /\ caps # 0

(* What a teardown has done so far; it has the decoder to itself. *)
TeardownInv ==
  \A t \in Feeders \cup {"main"} :
    /\ pc[t] \in StopPlaces \ {"stopInit"} => pc["init"] = "none"
    /\ pc[t] = "stopDecoder" => ~handlers
    /\ pc[t] = "stopDisplay" => dec = "none"

(* Caps in force: those of the decoder are the stored ones, and on RTSP so *)
(* are those of the display.                                               *)
CapsInv ==
  /\ dec # "none" => decCaps = caps
  /\ ~Rtsp => announced = 0
  /\ drm = 0 => sink = 0
  /\ pc["init"] = "sink" => drm # 0
  /\ Display /\ (Live \/ pc["init"] \in {"lock", "lockOutput", "setup", "start"})
       => drm # 0 /\ sink # 0
  /\ Rtsp => /\ drm # 0 => drm = caps
             /\ sink # 0 => sink = caps
             /\ pc[Source] \notin StopPlaces \cup {"apply"} => caps = announced
             /\ pc[Source] = "apply" /\ caps # announced =>
                  pc["init"] = "none" /\ dec = "none" /\ drm = 0

(* A decoded frame is left behind by a failed pop only; without an early   *)
(* event no callback runs before the decoder does.                         *)
FrameInv ==
  /\ NoStrandedFrame
  /\ dec # "live" /\ ~EarlyEvent => ~signalled /\ pc["callback"] = "idle"

(* The inductive invariant. *)
IInv == /\ TypeOK /\ PlaceInv /\ LockInv /\ OpeningInv /\ TeardownInv
        /\ CapsInv /\ FrameInv

-----------------------------------------------------------------------------
USE RxAssumption
    DEF Live, Free, Goto, Sdi, Rtsp, EarlyEvent, Threads, Service, Locks,
        StopPlaces, FeederPlaces, InitPlaces, CallbackPlaces, MainPlaces,
        Places, decVars, eventVars, capsVars, flagVars, displayVars, runVars,
        NoStrandedFrame, TypeOK, PlaceInv

(* The initial states. *)
LEMMA InitInv == Init => IInv
<1> SUFFICES ASSUME Init PROVE IInv
  OBVIOUS
<1> USE DEF Init
<1>1. \A t \in Threads : pc[t] = CASE t = "init" -> "none"
                                   [] t = "main" -> "run"
                                   [] OTHER -> "idle"
  BY Zenon
<1>2. /\ pc["init"] = "none" /\ pc["main"] = "run" /\ pc["callback"] = "idle"
      /\ \A f \in Feeders : pc[f] = "idle"
  BY <1>1
<1>3. TypeOK
  <2>1. pc \in [Threads -> Places]
    BY <1>1
  <2>2. lock \in [Locks -> Threads \cup {"none"}] /\ idr \in [Feeders -> BOOLEAN]
    OBVIOUS
  <2>3. {initializing, waitIdr, handlers, signalled, failedPop, stopping}
          \subseteq BOOLEAN
    OBVIOUS
  <2> QED BY <2>1, <2>2, <2>3
<1>4. PlaceInv /\ LockInv
  BY <1>2 DEF LockInv
<1>5. OpeningInv /\ TeardownInv
  BY <1>2 DEF OpeningInv, TeardownInv
<1>6. CapsInv /\ FrameInv
  BY <1>2 DEF CapsInv, FrameInv
<1> QED BY <1>3, <1>4, <1>5, <1>6 DEF IInv

(* An access unit arrives: only its thread moves. *)
LEMMA ArriveInv ==
  ASSUME IInv, NEW f \in Feeders, NEW isIdr \in BOOLEAN, Arrive(f, isIdr)
  PROVE  IInv'
  BY DEF Arrive, Delivers, IInv, LockInv, OpeningInv, TeardownInv, CapsInv,
         FrameInv

(* A gap arrives: only its thread moves. *)
LEMMA ArriveDroppedInv ==
  ASSUME IInv, NEW f \in Feeders, ArriveDropped(f)
  PROVE  IInv'
  BY DEF ArriveDropped, Delivers, IInv, LockInv, OpeningInv, TeardownInv,
         CapsInv, FrameInv

(* The decoder is told of the gap. *)
LEMMA NotifyDiscontinuityInv ==
  ASSUME IInv, NEW f \in Feeders, NotifyDiscontinuity(f)
  PROVE  IInv'
  BY DEF NotifyDiscontinuity, IInv, LockInv, OpeningInv, TeardownInv,
         CapsInv, FrameInv

(* The parser mutex is no mutex of the decoder. *)
LEMMA ParserEnterInv ==
  ASSUME IInv, NEW f \in Feeders, ParserEnter(f)
  PROVE  IInv'
  BY DEF ParserEnter, Take, IInv, LockInv, OpeningInv, TeardownInv,
         CapsInv, FrameInv

(* The parser publishes nothing. *)
LEMMA ParserLeaveInv ==
  ASSUME IInv, NEW f \in Feeders, ParserLeave(f)
  PROVE  IInv'
  BY DEF ParserLeave, Drop, IInv, LockInv, OpeningInv, TeardownInv,
         CapsInv, FrameInv

(* The parser publishes caps; those of a decoder that exists stay. *)
LEMMA ParserPublishInv ==
  ASSUME IInv, NEW f \in Feeders, NEW v \in Caps, ParserPublish(f, v)
  PROVE  IInv'
<1> USE DEF ParserPublish, Drop, ApplyCaps
<1>1. TypeOK' /\ PlaceInv' /\ LockInv' /\ OpeningInv' /\ TeardownInv' /\
      FrameInv'
  BY DEF IInv, LockInv, OpeningInv, TeardownInv, FrameInv
<1>2. CapsInv'
  BY DEF IInv, OpeningInv, CapsInv
<1> QED BY <1>1, <1>2 DEF IInv

(* An access unit is dropped. *)
LEMMA SubmitDroppedInv ==
  ASSUME IInv, NEW f \in Feeders, SubmitDropped(f)
  PROVE  IInv'
  BY DEF SubmitDropped, Ready, Opens, IInv, LockInv, OpeningInv,
         TeardownInv, CapsInv, FrameInv

(* A push begins under decoder_lock, with a live decoder. *)
LEMMA SubmitLiveInv ==
  ASSUME IInv, NEW f \in Feeders, SubmitLive(f)
  PROVE  IInv'
<1> USE DEF SubmitLive, Ready, Take
<1>1. TypeOK'
  BY DEF IInv
<1>2. PlaceInv'
  BY DEF IInv
<1>3. LockInv'
  BY DEF IInv, LockInv
<1>4. OpeningInv'
  BY DEF IInv, LockInv, OpeningInv
<1>5. TeardownInv' /\ CapsInv' /\ FrameInv'
  BY DEF IInv, TeardownInv, CapsInv, FrameInv
<1> QED BY <1>1, <1>2, <1>3, <1>4, <1>5 DEF IInv

(* A push ends with the packet in the decoder. *)
LEMMA PushAcceptedInv ==
  ASSUME IInv, NEW f \in Feeders, PushAccepted(f)
  PROVE  IInv'
  BY DEF PushAccepted, Drop, IInv, LockInv, OpeningInv, TeardownInv,
         CapsInv, FrameInv

(* A push ends without it. *)
LEMMA PushFailedInv ==
  ASSUME IInv, NEW f \in Feeders, PushFailed(f)
  PROVE  IInv'
  BY DEF PushFailed, Drop, IInv, LockInv, OpeningInv, TeardownInv, CapsInv,
         FrameInv

(* The opening begins: no decoder, no other opening. *)
LEMMA SubmitOpensInv ==
  ASSUME IInv, NEW f \in Feeders, SubmitOpens(f)
  PROVE  IInv'
  BY DEF SubmitOpens, Opens, Take, IInv, LockInv, OpeningInv, TeardownInv,
         CapsInv, FrameInv

(* The initialization thread starts on a clean state. *)
LEMMA SpawnInitInv ==
  ASSUME IInv, NEW f \in Feeders, SpawnInit(f)
  PROVE  IInv'
<1> USE DEF SpawnInit, Drop
<1>1. TypeOK' /\ PlaceInv' /\ LockInv' /\ TeardownInv' /\ CapsInv' /\
      FrameInv'
  BY DEF IInv, LockInv, TeardownInv, CapsInv, FrameInv
<1>2. OpeningInv'
  BY DEF IInv, LockInv, OpeningInv
<1> QED BY <1>1, <1>2 DEF IInv

(* The mode is set for the stored caps. *)
LEMMA InitDrmInv ==
  ASSUME IInv, NEW ok \in BOOLEAN, InitDrm(ok)
  PROVE  IInv'
<1> USE DEF InitDrm
<1>1. TypeOK' /\ PlaceInv' /\ LockInv' /\ OpeningInv' /\ TeardownInv' /\
      FrameInv'
  BY DEF IInv, LockInv, OpeningInv, TeardownInv, FrameInv
<1>2. CapsInv'
  BY DEF IInv, OpeningInv, CapsInv
<1> QED BY <1>1, <1>2 DEF IInv

(* The scaler is set for the stored caps. *)
LEMMA InitSinkInv ==
  ASSUME IInv, NEW ok \in BOOLEAN, InitSink(ok)
  PROVE  IInv'
<1> USE DEF InitSink
<1>1. TypeOK' /\ PlaceInv' /\ LockInv' /\ OpeningInv' /\ TeardownInv' /\
      FrameInv'
  BY DEF IInv, LockInv, OpeningInv, TeardownInv, FrameInv
<1>2. CapsInv'
  BY DEF IInv, OpeningInv, CapsInv
<1> QED BY <1>1, <1>2 DEF IInv

(* The initialization thread takes decoder_lock ... *)
LEMMA InitLockInv ==
  ASSUME IInv, InitLock
  PROVE  IInv'
  BY DEF InitLock, Take, IInv, LockInv, OpeningInv, TeardownInv, CapsInv,
         FrameInv

(* ... and on SDI the output lock. *)
LEMMA InitLockOutputInv ==
  ASSUME IInv, InitLockOutput
  PROVE  IInv'
  BY DEF InitLockOutput, Take, IInv, LockInv, OpeningInv, TeardownInv,
         CapsInv, FrameInv

(* The decoder is made with the stored caps, or not. *)
LEMMA InitSetupInv ==
  ASSUME IInv, NEW made \in {"nothing", "handlers", "decoder"},
         InitSetup(made)
  PROVE  IInv'
<1> USE DEF InitSetup, Drop
<1>1. TypeOK'
  BY DEF IInv
<1>2. PlaceInv'
  BY DEF IInv
<1>3. LockInv'
  BY DEF IInv, LockInv
<1>4. OpeningInv'
  BY DEF IInv, OpeningInv
<1>5. TeardownInv' /\ CapsInv'
  BY DEF IInv, TeardownInv, CapsInv
<1>6. FrameInv'
  BY DEF IInv, OpeningInv, FrameInv
<1> QED BY <1>1, <1>2, <1>3, <1>4, <1>5, <1>6 DEF IInv

(* The event is signalled while decoder_start runs. *)
LEMMA EarlySignalInv ==
  ASSUME IInv, EarlySignal
  PROVE  IInv'
  BY DEF EarlySignal, IInv, LockInv, OpeningInv, TeardownInv, CapsInv,
         FrameInv

(* The decoder is live. *)
LEMMA InitStartedInv ==
  ASSUME IInv, InitStarted
  PROVE  IInv'
<1> USE DEF InitStarted, Drop
<1>1. TypeOK' /\ PlaceInv' /\ LockInv' /\ OpeningInv' /\ TeardownInv' /\
      FrameInv'
  BY DEF IInv, LockInv, OpeningInv, TeardownInv, FrameInv
<1>2. CapsInv'
  BY DEF IInv, OpeningInv, CapsInv
<1> QED BY <1>1, <1>2 DEF IInv

(* decoder_start fails; decoder_lock stays held. *)
LEMMA InitStartFailedInv ==
  ASSUME IInv, InitStartFailed
  PROVE  IInv'
<1> USE DEF InitStartFailed, Drop
<1>1. TypeOK' /\ PlaceInv' /\ LockInv' /\ OpeningInv' /\ TeardownInv' /\
      CapsInv'
  BY DEF IInv, LockInv, OpeningInv, TeardownInv, CapsInv
<1>2. FrameInv'
  BY DEF IInv, OpeningInv, FrameInv
<1> QED BY <1>1, <1>2 DEF IInv

(* The handlers of a failed opening are joined. *)
LEMMA InitCleanupInv ==
  ASSUME IInv, InitCleanup
  PROVE  IInv'
<1> USE DEF InitCleanup, Drop, CallbackJoined
<1>1. TypeOK'
  <2>1. /\ handlers' \in BOOLEAN /\ signalled' \in BOOLEAN
        /\ initializing' \in BOOLEAN /\ waitIdr' \in BOOLEAN
        /\ failedPop' \in BOOLEAN
    BY Zenon DEF IInv
  <2>2. /\ pc' \in [Threads -> Places]
        /\ lock' \in [Locks -> Threads \cup {"none"}]
    BY DEF IInv, Drop
  <2> QED BY <2>1, <2>2 DEF IInv
<1>2. PlaceInv' /\ LockInv' /\ OpeningInv' /\ TeardownInv' /\ CapsInv' /\
      FrameInv'
  BY DEF IInv, LockInv, OpeningInv, TeardownInv, CapsInv, FrameInv
<1> QED BY <1>1, <1>2 DEF IInv

(* The failure is recorded. *)
LEMMA InitFailedInv ==
  ASSUME IInv, InitFailed
  PROVE  IInv'
<1> USE DEF InitFailed
<1>1. TypeOK'
  <2>1. /\ handlers' \in BOOLEAN /\ signalled' \in BOOLEAN
        /\ initializing' \in BOOLEAN /\ waitIdr' \in BOOLEAN
        /\ failedPop' \in BOOLEAN
    BY Zenon DEF IInv
  <2>2. /\ pc' \in [Threads -> Places]
        /\ lock' \in [Locks -> Threads \cup {"none"}]
    BY DEF IInv, Drop
  <2> QED BY <2>1, <2>2 DEF IInv
<1>2. PlaceInv' /\ LockInv' /\ OpeningInv' /\ TeardownInv' /\ CapsInv' /\
      FrameInv'
  BY DEF IInv, LockInv, OpeningInv, TeardownInv, CapsInv, FrameInv
<1> QED BY <1>1, <1>2 DEF IInv

(* The initialization thread ends. *)
LEMMA InitDoneInv ==
  ASSUME IInv, InitDone
  PROVE  IInv'
<1> USE DEF InitDone
<1>1. TypeOK'
  <2>1. /\ handlers' \in BOOLEAN /\ signalled' \in BOOLEAN
        /\ initializing' \in BOOLEAN /\ waitIdr' \in BOOLEAN
        /\ failedPop' \in BOOLEAN
    BY Zenon DEF IInv
  <2>2. /\ pc' \in [Threads -> Places]
        /\ lock' \in [Locks -> Threads \cup {"none"}]
    BY DEF IInv, Drop
  <2> QED BY <2>1, <2>2 DEF IInv
<1>2. PlaceInv' /\ LockInv' /\ OpeningInv' /\ TeardownInv' /\ CapsInv' /\
      FrameInv'
  BY DEF IInv, LockInv, OpeningInv, TeardownInv, CapsInv, FrameInv
<1> QED BY <1>1, <1>2 DEF IInv

(* A frame is decoded and the event signalled. *)
LEMMA DecodeInv ==
  ASSUME IInv, Decode
  PROVE  IInv'
  BY DEF Decode, IInv, LockInv, OpeningInv, TeardownInv, CapsInv, FrameInv

(* The callback begins. *)
LEMMA CallbackWakesInv ==
  ASSUME IInv, CallbackWakes
  PROVE  IInv'
<1> USE DEF CallbackWakes
<1>1. TypeOK'
  <2>1. /\ handlers' \in BOOLEAN /\ signalled' \in BOOLEAN
        /\ initializing' \in BOOLEAN /\ waitIdr' \in BOOLEAN
        /\ failedPop' \in BOOLEAN
    BY Zenon DEF IInv
  <2>2. /\ pc' \in [Threads -> Places]
        /\ lock' \in [Locks -> Threads \cup {"none"}]
    BY DEF IInv, Drop
  <2> QED BY <2>1, <2>2 DEF IInv
<1>2. PlaceInv' /\ LockInv' /\ OpeningInv' /\ TeardownInv' /\ CapsInv' /\
      FrameInv'
  BY DEF IInv, LockInv, OpeningInv, TeardownInv, CapsInv, FrameInv
<1> QED BY <1>1, <1>2 DEF IInv

(* It pops a frame of a live decoder ... *)
LEMMA CallbackPopsInv ==
  ASSUME IInv, CallbackPops
  PROVE  IInv'
  BY DEF CallbackPops, CallbackLock, IInv, LockInv, OpeningInv,
         TeardownInv, CapsInv, FrameInv

(* ... shows it ... *)
LEMMA CallbackShowsInv ==
  ASSUME IInv, CallbackShows
  PROVE  IInv'
  BY DEF CallbackShows, IInv, LockInv, OpeningInv, TeardownInv, CapsInv,
         FrameInv

(* ... returns when there is none ... *)
LEMMA CallbackReturnsInv ==
  ASSUME IInv, CallbackReturns
  PROVE  IInv'
  BY DEF CallbackReturns, CallbackLock, IInv, LockInv, OpeningInv,
         TeardownInv, CapsInv, FrameInv

(* ... or at a pop that fails, and says so. *)
LEMMA CallbackPopFailsInv ==
  ASSUME IInv, CallbackPopFails
  PROVE  IInv'
  BY DEF CallbackPopFails, CallbackLock, IInv, LockInv, OpeningInv,
         TeardownInv, CapsInv, FrameInv

(* A teardown has joined the initialization thread. *)
LEMMA StopJoinsInitInv ==
  ASSUME IInv, NEW t \in Feeders \cup {"main"}, StopJoinsInit(t)
  PROVE  IInv'
  BY DEF StopJoinsInit, IInv, LockInv, OpeningInv, TeardownInv, CapsInv,
         FrameInv

(* A teardown has joined the callback. *)
LEMMA StopJoinsCallbackInv ==
  ASSUME IInv, NEW t \in Feeders \cup {"main"}, StopJoinsCallback(t)
  PROVE  IInv'
<1> USE DEF StopJoinsCallback, CallbackJoined
<1>1. TypeOK'
  <2>1. pc' \in [Threads -> Places]
    BY DEF IInv
  <2>2. /\ inq' \in 0..InCap /\ outq' \in 0..OutCap
        /\ dec' \in {"none", "made", "live"}
    BY DEF IInv
  <2>3. /\ handlers' \in BOOLEAN /\ signalled' \in BOOLEAN
        /\ failedPop' \in BOOLEAN
    BY Zenon DEF IInv
  <2> QED BY <2>1, <2>2, <2>3 DEF IInv
<1>2. PlaceInv' /\ LockInv' /\ TeardownInv' /\ CapsInv' /\ FrameInv'
  BY DEF IInv, LockInv, TeardownInv, CapsInv, FrameInv
<1>3. OpeningInv'
  BY DEF IInv, OpeningInv, TeardownInv
<1> QED BY <1>1, <1>2, <1>3 DEF IInv

(* A teardown deletes the decoder, which nobody uses. *)
LEMMA StopDeletesDecoderInv ==
  ASSUME IInv, NEW t \in Feeders \cup {"main"}, StopDeletesDecoder(t)
  PROVE  IInv'
<1> USE DEF StopDeletesDecoder
<1>1. TypeOK'
  <2>1. pc' \in [Threads -> Places]
    BY DEF IInv
  <2>2. /\ inq' \in 0..InCap /\ outq' \in 0..OutCap
        /\ dec' \in {"none", "made", "live"}
    BY DEF IInv
  <2>3. /\ handlers' \in BOOLEAN /\ signalled' \in BOOLEAN
        /\ failedPop' \in BOOLEAN
    BY Zenon DEF IInv
  <2> QED BY <2>1, <2>2, <2>3 DEF IInv
<1>2. PlaceInv' /\ LockInv' /\ TeardownInv' /\ CapsInv'
  BY DEF IInv, LockInv, TeardownInv, CapsInv
<1>3. OpeningInv'
  BY DEF IInv, OpeningInv, TeardownInv
<1>4. FrameInv'
  BY DEF IInv, OpeningInv, TeardownInv, FrameInv
<1> QED BY <1>1, <1>2, <1>3, <1>4 DEF IInv

(* A teardown ends with the display. *)
LEMMA StopDisplayInv ==
  ASSUME IInv, NEW t \in Feeders \cup {"main"}, StopDisplay(t)
  PROVE  IInv'
<1> USE DEF StopDisplay
<1>1. TypeOK' /\ PlaceInv' /\ LockInv' /\ OpeningInv' /\ TeardownInv' /\
      FrameInv'
  BY DEF IInv, LockInv, OpeningInv, TeardownInv, FrameInv
<1>2. CapsInv'
  BY DEF IInv, TeardownInv, CapsInv
<1> QED BY <1>1, <1>2 DEF IInv

(* Caps are announced. *)
LEMMA CapsEventInv ==
  ASSUME IInv, NEW f \in Feeders, NEW v \in Caps, CapsEvent(f, v)
  PROVE  IInv'
<1> USE DEF CapsEvent, Delivers, Restart
<1>1. TypeOK' /\ PlaceInv' /\ LockInv' /\ OpeningInv' /\ TeardownInv' /\
      FrameInv'
  BY DEF IInv, LockInv, OpeningInv, TeardownInv, FrameInv
<1>2. CapsInv'
  BY DEF IInv, OpeningInv, CapsInv
<1> QED BY <1>1, <1>2 DEF IInv

(* Announced caps are stored, also after a restart. *)
LEMMA CapsAppliedInv ==
  ASSUME IInv, NEW f \in Feeders, CapsApplied(f)
  PROVE  IInv'
<1> USE DEF CapsApplied, ApplyCaps
<1>1. TypeOK' /\ PlaceInv' /\ LockInv' /\ OpeningInv' /\ TeardownInv' /\
      FrameInv'
  BY DEF IInv, LockInv, OpeningInv, TeardownInv, FrameInv
<1>2. CapsInv'
  BY DEF IInv, OpeningInv, CapsInv
<1> QED BY <1>1, <1>2 DEF IInv

(* The order to stop. *)
LEMMA BeginStopInv ==
  ASSUME IInv, BeginStop
  PROVE  IInv'
  BY DEF BeginStop, IInv, LockInv, OpeningInv, TeardownInv, CapsInv,
         FrameInv

(* Nobody delivers any more. *)
LEMMA FeedersJoinedInv ==
  ASSUME IInv, FeedersJoined
  PROVE  IInv'
  BY DEF FeedersJoined, IInv, LockInv, OpeningInv, TeardownInv, CapsInv,
         FrameInv

(* Every step keeps the invariant. *)
LEMMA NextInv == IInv /\ [Next]_vars => IInv'
<1> SUFFICES ASSUME IInv, [Next]_vars PROVE IInv'
  OBVIOUS
<1>1. ASSUME NEW t \in Feeders \cup {"main"}, StopStep(t) PROVE IInv'
  BY <1>1, StopJoinsInitInv, StopJoinsCallbackInv, StopDeletesDecoderInv,
     StopDisplayInv DEF StopStep
<1>2. ASSUME NEW f \in Feeders, FeederStep(f) PROVE IInv'
  BY <1>1, <1>2, NotifyDiscontinuityInv, ParserEnterInv, ParserLeaveInv,
     ParserPublishInv, SubmitDroppedInv, SubmitLiveInv, SubmitOpensInv,
     PushAcceptedInv, SpawnInitInv, CapsAppliedInv, Zenon DEF FeederStep
<1>3. CASE InitStep
  BY <1>3, InitDrmInv, InitSinkInv, InitLockInv, InitLockOutputInv,
     InitSetupInv, InitStartedInv, InitStartFailedInv, InitCleanupInv,
     InitFailedInv, InitDoneInv, Zenon DEF InitStep
<1>4. CASE CallbackStep \/ CallbackPopFails
  BY <1>4, CallbackWakesInv, CallbackPopsInv, CallbackShowsInv,
     CallbackReturnsInv, CallbackPopFailsInv DEF CallbackStep
<1>5. CASE MainStep
  BY <1>1, <1>5, FeedersJoinedInv, Zenon DEF MainStep
<1>6. CASE UNCHANGED vars
  BY <1>6 DEF vars, IInv, LockInv, OpeningInv, TeardownInv, CapsInv, FrameInv
<1>7. CASE Next
  BY <1>2, <1>3, <1>4, <1>5, <1>6, <1>7, ArriveInv, ArriveDroppedInv,
     PushFailedInv, CapsEventInv, EarlySignalInv, DecodeInv, BeginStopInv,
     Zenon DEF Next, Stopped
<1> QED BY <1>6, <1>7

(* Threads, locks, decoder and display always satisfy the invariant. *)
THEOREM Inductive == Spec => []IInv
  BY InitInv, NextInv, PTL DEF Spec

(* Every variable keeps its type: a mutex has at most one holder, a thread *)
(* is at one of its places, the queues of the decoder keep their limits.   *)
THEOREM TypeCorrect == Spec => []TypeOK
<1>1. IInv => TypeOK
  BY DEF IInv
<1> QED BY <1>1, Inductive, PTL

(* A push and a popped frame always belong to a decoder that is started    *)
(* and not deleted (rx_video_feed_decoder, OnVdecEvent, StopVdecAsync).    *)
THEOREM UsesLiveDecoderHolds == Spec => []UsesLiveDecoder
<1>1. IInv => UsesLiveDecoder
  BY DEF IInv, OpeningInv, UsesLiveDecoder
<1> QED BY <1>1, Inductive, PTL

(* SetupVdecAsync never overwrites a decoder or handlers that are there.   *)
THEOREM SetupStartsCleanHolds == Spec => []SetupStartsClean
<1>1. IInv => SetupStartsClean
  BY DEF IInv, OpeningInv, SetupStartsClean
<1> QED BY <1>1, Inductive, PTL

(* No decoded frame is left without an event or a running callback unless  *)
(* the last callback ended at a failed pop, for decoder queues of any      *)
(* length (on_vdec_event_callback).                                        *)
THEOREM NoStrandedFrameHolds == Spec => []NoStrandedFrame
<1>1. IInv => NoStrandedFrame
  BY DEF IInv, FrameInv
<1> QED BY <1>1, Inductive, PTL

(* Announced RTSP caps are in force in the stored caps, in the decoder, in *)
(* the mode and in the scaler once the caps event has returned.            *)
THEOREM RtspCapsInForceHolds == Spec => []RtspCapsInForce
<1>1. IInv => RtspCapsInForce
  BY DEF IInv, CapsInv, RtspCapsInForce
<1> QED BY <1>1, Inductive, PTL

(* No thread joins another one while it holds the mutex the other waits    *)
(* for, in every receiver whose decoder_start does not both signal and     *)
(* fail; on SDI it may do both.                                            *)
THEOREM JoinHoldsNoNeededLockHolds ==
  ASSUME Early \subseteq {"sdi"}
  PROVE  Spec => []JoinHoldsNoNeededLock
<1>1. IInv => JoinHoldsNoNeededLock
  BY DEF IInv, LockInv, OpeningInv, TeardownInv, FrameInv,
         JoinHoldsNoNeededLock, Joins, WaitsFor, CallbackLock
<1> QED BY <1>1, Inductive, PTL

(* Stored caps change only while there is neither a decoder nor an         *)
(* initialization thread, so every decoder has the stored ones             *)
(* (rx_h264_apply_caps, SetupVdecAsync).                                   *)
THEOREM ConfigStableHolds == Spec => ConfigStable
<1> DEFINE Stable == /\ caps' # caps => dec = "none" /\ pc["init"] = "none"
                     /\ dec' # "none" => decCaps' = caps'
<1>1. ASSUME IInv, IInv', [Next]_vars PROVE [Stable]_vars
  <2>1. dec' # "none" => decCaps' = caps'
    BY <1>1 DEF IInv, CapsInv
  <2>2. CASE caps' # caps
    <3>1. \/ \E f \in Feeders, v \in Caps : ParserPublish(f, v)
          \/ \E f \in Feeders : CapsApplied(f)
      BY <1>1, <2>2
         DEF Next, FeederStep, StopStep, InitStep, CallbackStep, MainStep,
             Stopped, vars, Arrive, ArriveDropped, NotifyDiscontinuity,
             ParserEnter, ParserLeave, SubmitDropped, SubmitLive,
             PushAccepted, PushFailed, SubmitOpens, SpawnInit, InitDrm,
             InitSink, InitLock, InitLockOutput, InitSetup, EarlySignal,
             InitStarted, InitStartFailed, InitCleanup, InitFailed, InitDone,
             Decode, CallbackWakes, CallbackPops, CallbackShows,
             CallbackReturns, CallbackPopFails, StopJoinsInit, StopJoinsCallback,
             StopDeletesDecoder, StopDisplay, CapsEvent, BeginStop,
             FeedersJoined
    <3>2. ~Live /\ ~initializing
      BY <2>2, <3>1 DEF ParserPublish, CapsApplied, ApplyCaps
    <3> QED BY <1>1, <2>1, <3>2 DEF IInv, OpeningInv
  <2> QED BY <2>1, <2>2
<1> QED BY <1>1, Inductive, PTL DEF Spec, ConfigStable

=============================================================================
