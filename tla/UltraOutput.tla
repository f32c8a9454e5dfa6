----------------------------- MODULE UltraOutput ----------------------------
(***************************************************************************)
(* The main loop of run_ultra_direct in sc6f0-dante-rx.cpp, which owns the *)
(* HDMI or SDI output in the modes ultra-direct and auto.  It shows the    *)
(* Dante Ultra stream of the FPGA ("dante"), the decoded AVH stream        *)
(* ("vcu"), or the mixer's own background ("dummy").  Four parties meet    *)
(* here:                                                                   *)
(*   - the loop itself, which promotes and returns from AVH, and runs the  *)
(*     DAU, hotplug and resync handlers one after the other;               *)
(*   - the bus worker of the AVH receiver, which counts the flows;         *)
(*   - the decoder callback, which shows frames under display_lock;        *)
(*   - the DRM device and the ALSA controls, any call of which may fail.   *)
(*                                                                         *)
(* The calls of one handler that only the loop can observe are one step;   *)
(* what another thread can see in between is a step of its own.            *)
(***************************************************************************)
EXTENDS Naturals

CONSTANTS
  Sdi,        (* output_is_sdi()                                           *)
  AutoMode,   (* auto_mode: an AVH receiver runs beside the Ultra path     *)
  Forced,     (* force_dante_source                                        *)
  Fixed,      (* fixed_mode_override                                       *)
  SdiAudio,   (* "required", or one of the options that relax it           *)
  Sizes,      (* the pictures, width by height at a rate, DAU may report   *)
  Colours,    (* the colour formats DAU may report: RGB, or one shown YUYV *)
  Start,      (* fixed_width by fixed_height at fixed_fps: the fixed mode, *)
              (* or the mode of the monitor at the start                   *)
  DeviceFails, (* a call to the device may fail for reasons of its own     *)
  MaxFlows    (* model bound: AVH flows at one time                        *)

None == "none"

(* A format is a size with a colour, which selects ultra_overlay_format;   *)
(* without a size, 0, it is none.  The plane starts as RGB.                *)
Formats == Sizes \X Colours
NoFormat == <<0, "rgb">>

(* On SDI, the only format the configured mode accepts. *)
Contract == <<Start, "rgb">>

ASSUME UltraAssumption ==
  /\ {Sdi, AutoMode, Forced, Fixed, DeviceFails} \subseteq BOOLEAN
  /\ SdiAudio \in {"required", "optional", "disabled"}
  /\ AutoMode => Forced
  /\ Sdi => Fixed
  /\ Sizes \subseteq Nat \ {0} /\ Start \in Sizes
  /\ "rgb" \in Colours /\ Colours \subseteq {"rgb", "yuv"}
  /\ MaxFlows \in Nat \ {0}

VARIABLES
  connected,       (* the connector, as the driver reports it              *)
  heard,           (* ctx.last_connector_connected                         *)
  out,             (* the output and the context flags that describe it    *)
  route,           (* the ALSA control "Audio Input Route Switch"          *)
  avh,             (* what the AVH receiver holds of the output            *)
  avh_active,
  current,         (* ctx.current_video_format                             *)
  last_locked,     (* ctx.last_locked_video_format                         *)
  reply,           (* the answer to the latest set_video_format ...        *)
  told,            (* ... and, of a success, what had the output then      *)
  flows,           (* auto_flow_count                                      *)
  fed,             (* the decoder has had input                            *)
  fresh,           (* decoded_frames > avh_decoded_at_flow                 *)
  pending, retry_blocked,
  callback,        (* the decoder callback                                 *)
  display_lock,
  resync,          (* the resync watchdog                                  *)
  pc               (* the place of the main loop                           *)

daVars == <<current, last_locked, reply, told>>
flowVars == <<flows, fed>>
autoVars == <<fresh, pending, retry_blocked>>
cbVars == <<callback, display_lock>>
vars == <<connected, heard, out, route, avh, avh_active, daVars, flowVars,
          autoVars, cbVars, resync, pc>>

Reports == [locked : BOOLEAN, fmt : Formats \cup {NoFormat}]
Places == {"top", "sink", "audio", "giveup", "leave", "leavesink",
           "leavedone", "restore", "poll", "uevent", "unplug", "resync",
           "quit", "done"}

-----------------------------------------------------------------------------
(* Calls to the device, as the set of their possible results.              *)

(* set_sdi_fpga_passthrough(false): a failed write leaves the embedder as  *)
(* it was, a failed read-back does not.                                    *)
EmbedderOff(o) ==
  LET off == [o EXCEPT !.embedder = FALSE]
  IN  {[ok |-> TRUE, out |-> off]} \cup
      (IF Sdi /\ DeviceFails
         THEN {[ok |-> FALSE, out |-> x] : x \in {o, off}} ELSE {})

(* select_hdmi_audio_route. *)
SelectRoute(o, was, r) ==
  {[ok |-> FALSE, out |-> x.out, route |-> was] :
     x \in IF DeviceFails THEN EmbedderOff(o) ELSE {}} \cup
  {[ok |-> TRUE, out |-> x.out, route |-> r] :
     x \in {y \in EmbedderOff(o) : y.ok}}

(* The end of apply_drm_modeset, from its successful commit on.  A plane   *)
(* buffer that could not be made turns the request into one for DUMMY,     *)
(* which succeeds; bare remembers that.                                    *)
Committed(o, fmt) ==
  UNION {LET base == [crtc |-> TRUE,
                      source |-> IF g = NoFormat THEN "dummy" ELSE "dante",
                      fmt |-> g, embedder |-> FALSE,
                      modeset_active |-> TRUE,
                      overlay_active |-> g # NoFormat, bare |-> g # fmt]
         IN  IF Sdi /\ g # NoFormat /\ SdiAudio # "disabled"
             THEN {[ok |-> TRUE, out |-> [base EXCEPT !.embedder = TRUE]]}
                  \cup {[ok |-> SdiAudio = "optional",
                         out |-> [base EXCEPT !.embedder = e]] :
                          e \in IF DeviceFails THEN BOOLEAN ELSE {}}
             ELSE {[ok |-> TRUE, out |-> base]}
         : g \in {fmt} \cup IF DeviceFails THEN {NoFormat} ELSE {}}

M_Modeset(o, fmt, usable) ==
  {[ok |-> FALSE, out |-> o]} \cup
  (IF connected /\ usable
     THEN UNION {{[ok |-> c.ok, out |-> [c.out EXCEPT !.embedder =
                                           @ \/ x.out.embedder]] :
                    c \in Committed(o, fmt)} : x \in EmbedderOff(o)}
     ELSE {})

(* apply_drm_modeset: fmt is the Ultra format to show, NoFormat the DUMMY  *)
(* route.  It changes nothing when the connector is down or the size is    *)
(* unusable, and only the embedder when it cannot commit.                  *)
Modeset(o, fmt, usable) ==
  IF connected /\ usable
    THEN Committed(o, fmt) \cup
         (IF DeviceFails
            THEN {[ok |-> FALSE, out |-> x] :
                    x \in {o} \cup {y.out : y \in EmbedderOff(o)}}
            ELSE {})
    ELSE {[ok |-> FALSE, out |-> o]}

Dummy(o) == Modeset(o, NoFormat, TRUE)

(* The format the overlay is made for when locked is the last one DAU has  *)
(* reported: a fixed mode keeps its size, and so does the start-up mode    *)
(* until there is a report; the colour is the reported one.                *)
UltraFormat(locked) ==
  IF Fixed \/ locked = NoFormat THEN <<Start, locked[2]>> ELSE locked

(* restore_ultra_output. *)
RestoreUltra(o) == Modeset(o, UltraFormat(last_locked), TRUE)

(* start_hdmi_audio_sink. *)
StartAudio(o, r, a) ==
  IF a.pcm \/ (Sdi /\ ~a.drm)
    THEN {[out |-> o, route |-> r, avh |-> a]}
    ELSE UNION {{[out |-> s.out, route |-> s.route,
                  avh |-> [a EXCEPT !.pcm = p]] :
                   p \in {q \in BOOLEAN : (q => s.ok) /\ (DeviceFails \/ q)}} :
                s \in SelectRoute(o, r, 0)}

(* start_drm_output: on SDI a successful modeset also opens the PCM. *)
StartDrm(o, r, a) ==
  LET lit == [o EXCEPT !.crtc = TRUE, !.source = "vcu", !.fmt = NoFormat]
      mine == [a EXCEPT !.drm = TRUE]
      opened == IF Sdi THEN StartAudio(lit, r, mine)
                ELSE {[out |-> lit, route |-> r, avh |-> mine]}
  IN  (IF a.drm \/ DeviceFails \/ ~connected
         THEN {[ok |-> a.drm, out |-> o, route |-> r, avh |-> a]} ELSE {}) \cup
      {[ok |-> TRUE, out |-> s.out, route |-> s.route, avh |-> s.avh] :
         s \in IF connected /\ ~a.drm THEN opened ELSE {}}

(* stop_drm_output: its commit is not checked. *)
StopDrm(o, a) ==
  {[out |-> [o EXCEPT !.crtc = c],
    avh |-> [a EXCEPT !.drm = FALSE, !.pcm = @ /\ ~Sdi]] :
     c \in (IF a.drm THEN {FALSE} ELSE {o.crtc}) \cup
           (IF DeviceFails THEN {o.crtc} ELSE {})}

-----------------------------------------------------------------------------
Blank == [crtc |-> FALSE, source |-> "dummy", fmt |-> NoFormat,
          embedder |-> FALSE, modeset_active |-> FALSE,
          overlay_active |-> FALSE, bare |-> FALSE]

(* What has the output o when DAU is answered. *)
Told(o) == IF avh_active THEN "avh" ELSE IF o.bare THEN "bare" ELSE o.source

(* run_ultra_direct up to its loop: SI1 is selected, the initial modeset   *)
(* must succeed when the Dante source is forced, the AVH receiver is up.   *)
Init ==
  /\ connected \in (IF Sdi THEN {TRUE} ELSE BOOLEAN)
  /\ heard = connected
  /\ \E m \in Modeset(Blank, IF Forced THEN UltraFormat(NoFormat)
                                ELSE NoFormat, TRUE) :
       /\ Forced => m.ok
       /\ out = m.out
  /\ route = 1
  /\ avh = [drm |-> FALSE, sink |-> FALSE, display |-> FALSE,
            pcm |-> FALSE]
  /\ avh_active = FALSE
  /\ current = [locked |-> FALSE, fmt |-> NoFormat]
  /\ last_locked = NoFormat /\ reply = None /\ told = None
  /\ flows = 0 /\ fed = FALSE
  /\ fresh = FALSE /\ pending = FALSE /\ retry_blocked = FALSE
  /\ callback = "idle" /\ display_lock = "free"
  /\ resync \in (IF Sdi THEN {"off", "on"} ELSE {"off"})
  /\ pc = "top"

-----------------------------------------------------------------------------
(* The arbitration at the top of the loop.                                 *)

M_Notices == flows > 0 /\ ~avh_active /\ ~retry_blocked

(* A flow appeared: remember how many frames were decoded by now. *)
Notices == flows > 0 /\ ~pending /\ ~avh_active /\ ~retry_blocked
Promotes == flows > 0 /\ pending /\ ~avh_active /\ fresh

NoticeFlow ==
  /\ pc = "top" /\ AutoMode /\ Notices
  /\ pending' = TRUE
  /\ fresh' = FALSE
  /\ pc' = "poll"
  /\ UNCHANGED <<connected, heard, out, route, avh, avh_active, daVars,
                 flowVars, retry_blocked, cbVars, resync>>

M_NoFlow ==
  /\ pc = "top" /\ AutoMode /\ flows = 0
  /\ pending' = FALSE
  /\ retry_blocked' = FALSE
  /\ pc' = IF avh_active /\ heard THEN "leave" ELSE "poll"
  /\ UNCHANGED <<connected, heard, out, route, avh, avh_active, daVars,
                 flowVars, fresh, cbVars, resync>>

NoFlow ==
  /\ pc = "top" /\ AutoMode /\ flows = 0
  /\ pending' = FALSE
  /\ retry_blocked' = FALSE
  /\ pc' = IF avh_active THEN "leave" ELSE "poll"
  /\ UNCHANGED <<connected, heard, out, route, avh, avh_active, daVars,
                 flowVars, fresh, cbVars, resync>>

KeepSource ==
  /\ pc = "top"
  /\ AutoMode => flows > 0 /\ ~Notices /\ ~Promotes
  /\ pc' = "poll"
  /\ UNCHANGED <<connected, heard, out, route, avh, avh_active, daVars,
                 flowVars, autoVars, cbVars, resync>>

M_Promote ==
  /\ pc = "top" /\ AutoMode /\ Promotes
  /\ \E d \in StartDrm(out, route, avh) :
       /\ out' = d.out /\ route' = d.route /\ avh' = d.avh
       /\ pc' = IF d.ok THEN "sink" ELSE "giveup"
  /\ UNCHANGED <<connected, heard, avh_active, daVars, flowVars, autoVars,
                 cbVars, resync>>

(* A frame is ready: DANTE -> DUMMY -> VCU. *)
Promote ==
  /\ pc = "top" /\ AutoMode /\ Promotes
  /\ \E m \in Dummy(out) :
       \E d \in (IF m.ok THEN StartDrm(m.out, route, avh)
                 ELSE {[ok |-> FALSE, out |-> m.out, route |-> route,
                        avh |-> avh]}) :
         /\ out' = d.out /\ route' = d.route /\ avh' = d.avh
         /\ pc' = IF d.ok THEN "sink" ELSE "giveup"
  /\ UNCHANGED <<connected, heard, avh_active, daVars, flowVars, autoVars,
                 cbVars, resync>>

(* Under display_lock: the flow is read again, then the sink is started. *)
StartSink ==
  /\ pc = "sink" /\ display_lock = "free"
  /\ \E ok \in BOOLEAN :
       /\ ok => flows > 0
       /\ ok \/ flows = 0 \/ DeviceFails
       /\ avh' = [avh EXCEPT !.sink = ok, !.display = ok]
       /\ avh_active' = ok
       /\ pc' = IF ok THEN "audio" ELSE "giveup"
  /\ UNCHANGED <<connected, heard, out, route, daVars, flowVars, autoVars,
                 cbVars, resync>>

AvhAudio ==
  /\ pc = "audio"
  /\ \E s \in StartAudio(out, route, avh) :
       out' = s.out /\ route' = s.route /\ avh' = s.avh
  /\ pc' = "poll"
  /\ UNCHANGED <<connected, heard, avh_active, daVars, flowVars, autoVars,
                 cbVars, resync>>

M_GiveUp ==
  /\ pc = "giveup"
  /\ \E s \in SelectRoute(out, route, 1) :
       out' = s.out /\ route' = s.route
  /\ retry_blocked' = TRUE
  /\ pending' = FALSE
  /\ pc' = "restore"
  /\ UNCHANGED <<connected, heard, avh, avh_active, daVars, flowVars, fresh,
                 cbVars, resync>>

(* The promotion failed: no second attempt while this flow stays. *)
GiveUp ==
  /\ pc = "giveup"
  /\ \E d \in StopDrm(out, avh) : \E s \in SelectRoute(d.out, route, 1) :
       out' = s.out /\ route' = s.route /\ avh' = d.avh
  /\ retry_blocked' = TRUE
  /\ pending' = FALSE
  /\ pc' = "restore"
  /\ UNCHANGED <<connected, heard, avh_active, daVars, flowVars, fresh,
                 cbVars, resync>>

(* The flow is gone: VCU -> DUMMY -> DANTE. *)
LeaveAvh ==
  /\ pc = "leave"
  /\ avh' = [avh EXCEPT !.display = FALSE, !.pcm = @ /\ ~Sdi]
  /\ pc' = "leavesink"
  /\ UNCHANGED <<connected, heard, out, route, avh_active, daVars, flowVars,
                 autoVars, cbVars, resync>>

M_LeaveSink ==
  /\ pc = "leavesink"
  /\ \E m \in Dummy(out) : out' = m.out
  /\ avh' = [avh EXCEPT !.sink = FALSE]
  /\ pc' = "leavedone"
  /\ UNCHANGED <<connected, heard, route, avh_active, daVars, flowVars,
                 autoVars, cbVars, resync>>

LeaveSink ==
  /\ pc = "leavesink" /\ display_lock = "free"
  /\ \E m \in Dummy(out) : out' = m.out
  /\ avh' = [avh EXCEPT !.sink = FALSE]
  /\ pc' = "leavedone"
  /\ UNCHANGED <<connected, heard, route, avh_active, daVars, flowVars,
                 autoVars, cbVars, resync>>

LeaveDone ==
  /\ pc = "leavedone"
  /\ \E d \in StopDrm(out, [avh EXCEPT !.pcm = FALSE]) :
       \E s \in SelectRoute(d.out, route, 1) :
         out' = s.out /\ route' = s.route /\ avh' = d.avh
  /\ avh_active' = FALSE
  /\ pc' = "restore"
  /\ UNCHANGED <<connected, heard, daVars, flowVars, autoVars, cbVars,
                 resync>>

Restore ==
  /\ pc = "restore"
  /\ \E m \in RestoreUltra(out) : out' = m.out
  /\ pc' = "poll"
  /\ UNCHANGED <<connected, heard, route, avh, avh_active, daVars, flowVars,
                 autoVars, cbVars, resync>>

-----------------------------------------------------------------------------
(* dau_set_video_format, called by dau_service_dispatch.                   *)

(* The report breaks the contract of the SDI output. *)
Rejects(r) == Sdi /\ r.locked /\ r.fmt # Contract

M_Remembers(r) ==
  IF r.locked /\ r.fmt # NoFormat /\ ~avh_active THEN r.fmt ELSE last_locked

(* ctx.last_locked_video_format after the report. *)
Remembers(r) == IF r.locked /\ r.fmt # NoFormat THEN r.fmt ELSE last_locked

M_Settled(r) ==
  \/ Forced /\ ~r.locked
  \/ Sdi /\ r.locked /\ out.modeset_active /\ out.overlay_active

(* The answer that needs no modeset: AVH owns the output, the forced       *)
(* source stays through an unlock, or an SDI stream is already running.    *)
Settled(r) ==
  \/ avh_active
  \/ Forced /\ ~r.locked
  \/ Sdi /\ r.locked /\ out.modeset_active /\ out.overlay_active

RejectFormat(r) ==
  /\ pc = "poll" /\ Rejects(r)
  /\ current' = r /\ reply' = "error" /\ told' = None
  /\ \E m \in Dummy(out) : out' = m.out
  /\ UNCHANGED <<connected, heard, route, avh, avh_active, last_locked,
                 flowVars, autoVars, cbVars, resync, pc>>

AcceptFormat(r) ==
  /\ pc = "poll" /\ ~Rejects(r) /\ Settled(r)
  /\ current' = r /\ reply' = "success" /\ told' = Told(out)
  /\ last_locked' = Remembers(r)
  /\ UNCHANGED <<connected, heard, out, route, avh, avh_active, flowVars,
                 autoVars, cbVars, resync, pc>>

(* The modeset for the report, in its size and colour, or in its colour    *)
(* and the fixed size.  When it fails for a locked stream, the mixer is    *)
(* put on DUMMY instead.                                                   *)
FormatModeset(r) ==
  LET target == UltraFormat(Remembers(r))
      tried == Modeset(out, IF r.locked THEN target ELSE NoFormat,
                       Fixed \/ r.fmt # NoFormat)
  IN  UNION {IF m.ok THEN {m}
             ELSE {[ok |-> FALSE, out |-> x.out] :
                     x \in IF r.locked /\ m.out.modeset_active
                           THEN Dummy(m.out) ELSE {m}}
             : m \in tried}

SetVideoFormat(r) ==
  /\ pc = "poll" /\ ~Rejects(r) /\ ~Settled(r)
  /\ current' = r
  /\ last_locked' = Remembers(r)
  /\ \E m \in FormatModeset(r) :
       /\ out' = m.out
       /\ reply' = IF m.ok THEN "success" ELSE "error"
       /\ told' = IF m.ok THEN Told(m.out) ELSE None
  /\ UNCHANGED <<connected, heard, route, avh, avh_active, flowVars,
                 autoVars, cbVars, resync, pc>>

PollDone ==
  /\ pc = "poll"
  /\ pc' = "uevent"
  /\ UNCHANGED <<connected, heard, out, route, avh, avh_active, daVars,
                 flowVars, autoVars, cbVars, resync>>

-----------------------------------------------------------------------------
(* The connector monitor; SDI has none.                                    *)
Hotplug ==
  /\ pc = "uevent" /\ ~Sdi /\ heard # connected
  /\ heard' = connected
  /\ pc' = IF ~connected /\ out.overlay_active /\ ~avh_active
             THEN "unplug" ELSE "resync"
  /\ UNCHANGED <<connected, out, route, avh, avh_active, daVars, flowVars,
                 autoVars, cbVars, resync>>

NoHotplug ==
  /\ pc = "uevent"
  /\ pc' = "resync"
  /\ UNCHANGED <<connected, heard, out, route, avh, avh_active, daVars,
                 flowVars, autoVars, cbVars, resync>>

(* apply_drm_modeset reads the connector again. *)
Unplug ==
  /\ pc = "unplug"
  /\ \E m \in Dummy(out) : out' = m.out
  /\ pc' = "resync"
  /\ UNCHANGED <<connected, heard, route, avh, avh_active, daVars, flowVars,
                 autoVars, cbVars, resync>>

(* poll_sdi_resync: the module SdiResync has the policy and the steps;     *)
(* here a request is a choice, and what is left is its outcome.            *)
Eligible == out.modeset_active /\ out.overlay_active /\ ~avh_active

ResyncRequested ==
  /\ pc = "resync" /\ resync = "on" /\ Eligible
  /\ \E ok \in BOOLEAN, dark \in BOOLEAN :
       /\ ok \/ DeviceFails
       /\ ok => out.crtc /\ out.source = "dante" /\ ~dark
       /\ dark => out.crtc /\ out.source = "dante"
       /\ resync' = IF ok THEN "on" ELSE "failed"
       /\ out' = [out EXCEPT !.crtc = @ /\ ~dark]
  /\ pc' = "top"
  /\ UNCHANGED <<connected, heard, route, avh, avh_active, daVars, flowVars,
                 autoVars, cbVars>>

ResyncIdle ==
  /\ pc = "resync"
  /\ pc' = "top"
  /\ UNCHANGED <<connected, heard, out, route, avh, avh_active, daVars,
                 flowVars, autoVars, cbVars, resync>>

-----------------------------------------------------------------------------
(* g_stop_requested ends the loop; 'q' sets it in the poll.                *)
Quit ==
  /\ pc = "top"
  /\ avh' = [avh EXCEPT !.display = FALSE]
  /\ pc' = "quit"
  /\ UNCHANGED <<connected, heard, out, route, avh_active, daVars, flowVars,
                 autoVars, cbVars, resync>>

(* apply_drm_modeset, then stop_dante_rx joins the callback and releases   *)
(* the output, then cleanup_ultra_direct_drm. *)
Shutdown ==
  /\ pc = "quit" /\ callback = "idle"
  /\ \E m \in (IF AutoMode THEN Dummy(out) ELSE {[ok |-> TRUE, out |-> out]}) :
       \E d \in StopDrm(m.out, [avh EXCEPT !.sink = FALSE, !.pcm = FALSE]) :
         \E e \in EmbedderOff(d.out) :
           /\ out' = [e.out EXCEPT !.modeset_active = FALSE]
           /\ avh' = d.avh
  /\ pc' = "done"
  /\ UNCHANGED <<connected, heard, route, avh_active, daVars, flowVars,
                 autoVars, cbVars, resync>>

-----------------------------------------------------------------------------
(* The other threads and the device.                                       *)

(* dante_rx_bus_worker. *)
FlowCreated ==
  /\ AutoMode /\ pc # "done" /\ flows < MaxFlows
  /\ flows' = flows + 1
  /\ fed' = TRUE
  /\ UNCHANGED <<connected, heard, out, route, avh, avh_active, daVars,
                 autoVars, cbVars, resync, pc>>

FlowDeleted ==
  /\ pc # "done" /\ flows > 0
  /\ flows' = flows - 1
  /\ UNCHANGED <<connected, heard, out, route, avh, avh_active, daVars, fed,
                 autoVars, cbVars, resync, pc>>

(* on_vdec_event_callback: a frame is counted, then shown under the lock.  *)
CountFrame ==
  /\ fed /\ callback = "idle" /\ pc # "done"
  /\ fresh' = TRUE
  /\ callback' = "frame"
  /\ UNCHANGED <<connected, heard, out, route, avh, avh_active, daVars,
                 flowVars, pending, retry_blocked, display_lock, resync, pc>>

ShowFrame ==
  /\ callback = "frame" /\ display_lock = "free"
  /\ IF avh.display /\ avh.sink
       THEN callback' = "pushing" /\ display_lock' = "callback"
       ELSE callback' = "idle" /\ UNCHANGED display_lock
  /\ UNCHANGED <<connected, heard, out, route, avh, avh_active, daVars,
                 flowVars, autoVars, resync, pc>>

FramePushed ==
  /\ callback = "pushing"
  /\ callback' = "idle" /\ display_lock' = "free"
  /\ UNCHANGED <<connected, heard, out, route, avh, avh_active, daVars,
                 flowVars, autoVars, resync, pc>>

(* The cable. *)
Cable ==
  /\ ~Sdi /\ pc # "done"
  /\ connected' = ~connected
  /\ UNCHANGED <<heard, out, route, avh, avh_active, daVars, flowVars,
                 autoVars, cbVars, resync, pc>>

-----------------------------------------------------------------------------
Arbitrate ==
  \/ NoticeFlow \/ NoFlow \/ KeepSource \/ Promote
  \/ StartSink \/ AvhAudio \/ GiveUp
  \/ LeaveAvh \/ LeaveSink \/ LeaveDone \/ Restore

Handle ==
  \/ \E r \in Reports :
       RejectFormat(r) \/ AcceptFormat(r) \/ SetVideoFormat(r)
  \/ Hotplug \/ Unplug \/ ResyncRequested

Idle == PollDone \/ NoHotplug \/ ResyncIdle

Callback == ShowFrame \/ FramePushed

Environment ==
  FlowCreated \/ FlowDeleted \/ CountFrame \/ Cable \/ Quit

Done == pc = "done" /\ UNCHANGED vars

Next == Arbitrate \/ Handle \/ Idle \/ Callback \/ Shutdown
        \/ Environment \/ Done

Spec == Init /\ [][Next]_vars

(* The loop never waits longer than its poll, and the callback returns. *)
FairSpec ==
  /\ Spec
  /\ WF_vars(Arbitrate) /\ WF_vars(Idle) /\ WF_vars(Unplug)
  /\ WF_vars(Callback)

-----------------------------------------------------------------------------
(* The types of the state. *)
TypeOK ==
  /\ connected \in BOOLEAN /\ heard \in BOOLEAN
  /\ avh_active \in BOOLEAN /\ fed \in BOOLEAN
  /\ fresh \in BOOLEAN /\ pending \in BOOLEAN /\ retry_blocked \in BOOLEAN
  /\ out \in [crtc : BOOLEAN, source : {"dummy", "dante", "vcu"},
              fmt : Formats \cup {NoFormat}, embedder : BOOLEAN,
              modeset_active : BOOLEAN, overlay_active : BOOLEAN,
              bare : BOOLEAN]
  /\ route \in {0, 1}
  /\ avh \in [drm : BOOLEAN, sink : BOOLEAN, display : BOOLEAN,
              pcm : BOOLEAN]
  /\ current \in Reports
  /\ last_locked \in Formats \cup {NoFormat}
  /\ reply \in {None, "success", "error"}
  /\ told \in {None, "avh", "bare", "dummy", "dante", "vcu"}
  /\ flows \in 0..MaxFlows
  /\ callback \in {"idle", "frame", "pushing"}
  /\ display_lock \in {"free", "callback"}
  /\ resync \in {"off", "on", "failed"}
  /\ pc \in Places

(* While AVH is selected the output shows the decoder and AVH holds every  *)
(* part of it, whatever DAU reports and however the cable behaves ("AVH    *)
(* owns the shared VProcSS and HDMI timing for now"). *)
AvhOwnsOutput ==
  avh_active /\ pc \in {"audio", "poll", "uevent", "unplug", "resync", "top"}
    => /\ out.crtc /\ out.source = "vcu"
       /\ avh.drm /\ avh.sink /\ avh.display

(* When AVH is not selected nothing of it is left behind: no sink, no DRM  *)
(* handle, no PCM and no frame for the display, on any path out of a       *)
(* promotion or a return. *)
NothingLeftOfAvh ==
  ~avh_active /\ pc \in {"top", "restore", "poll", "uevent", "unplug",
                         "resync"}
    => avh = [drm |-> FALSE, sink |-> FALSE, display |-> FALSE,
              pcm |-> FALSE]

(* overlay_active, which the status line prints and which the fast path    *)
(* and the watchdog rely on, says whether the device is on the Dante       *)
(* source; that output is only dark after a resync that failed for good.   *)
StatusTruth ==
  /\ out.overlay_active <=> out.source = "dante"
  /\ out.overlay_active /\ ~out.crtc => resync = "failed"

(* A success reply is true when it is given and as long as it stands.  A   *)
(* locked stream of a known size is answered with success only if AVH has  *)
(* the output, if the Dante source is on it, or if the device gave no      *)
(* buffer for the plane: then the code answers success on DUMMY.  While    *)
(* that answer is the latest one, what the Dante source shows is in the    *)
(* reported colour and in the reported size or the fixed one, also when    *)
(* the report came while AVH had the output; without a locked stream it is *)
(* only shown when it is forced.                                           *)
TruthfulReply ==
  reply = "success" =>
    /\ current.locked /\ current.fmt # NoFormat =>
         told \in {"avh", "dante", "bare"}
    /\ out.source = "dante" =>
         /\ Forced \/ current.locked
         /\ current.locked /\ current.fmt # NoFormat =>
              out.fmt = UltraFormat(current.fmt)

(* The FPGA audio embedder of SDI is enabled only while the Dante source   *)
(* is on the output, through every failure of the ALSA controls. *)
EmbedderOnlyWithDante == out.embedder => out.source = "dante"

(* "Never change the FPGA audio source while its embedder is enabled."     *)
RouteQuiet == [][route' # route => ~out'.embedder]_vars

(* display_lock keeps the sink alive while the callback pushes a frame     *)
(* into it, although the loop takes AVH off the output at any time. *)
PushesLiveSink == callback = "pushing" => avh.sink

(* A removed flow takes AVH off the output, unless a flow comes back. *)
ReturnsToUltra ==
  (avh_active /\ flows = 0)
    ~> (~avh_active \/ flows > 0 \/ pc \in {"quit", "done"})

(* A flow whose frames are decoded is tried: it is selected, or it is      *)
(* given up until the flow goes away. *)
TriesAvh ==
  (pending /\ fresh /\ flows > 0)
    ~> (avh_active \/ retry_blocked \/ flows = 0 \/ pc \in {"quit", "done"})

=============================================================================
