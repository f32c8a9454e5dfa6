-------------------------- MODULE UltraOutputProofs -------------------------
(***************************************************************************)
(* Theorems about UltraOutput, for every product (Sdi), mode (AutoMode,    *)
(* Forced, Fixed), audio option, set of formats and number of flows, and   *)
(* whether the device fails or not.                                        *)
(***************************************************************************)
EXTENDS UltraOutput, TLAPS

OutFormats == Formats \cup {NoFormat}
OutType == [crtc : BOOLEAN, source : {"dummy", "dante", "vcu"},
            fmt : OutFormats, embedder : BOOLEAN,
            modeset_active : BOOLEAN, overlay_active : BOOLEAN,
            bare : BOOLEAN]
ToldType == {None, "avh", "bare", "dummy", "dante", "vcu"}
AvhType == [drm : BOOLEAN, sink : BOOLEAN, display : BOOLEAN, pcm : BOOLEAN]

-----------------------------------------------------------------------------
(* The inductive invariant, part by part.                                  *)

(* The device, and the flags that the context keeps of it.  AVH holds the  *)
(* DRM output only after the Dante source was taken off it, and on SDI the *)
(* Dante source is only ever shown in the contract format. *)
OutputInv ==
  /\ StatusTruth
  /\ EmbedderOnlyWithDante
  /\ avh.drm => ~out.overlay_active
  /\ Sdi /\ out.source = "dante" => out.fmt = Contract

(* The callback pushes under display_lock, into a sink that is there. *)
PushInv == callback = "pushing" => display_lock = "callback" /\ avh.sink

(* What AVH holds at each place of a promotion and of a return. *)
PlaceInv ==
  /\ NothingLeftOfAvh
  /\ pc \notin {"top", "poll", "uevent", "unplug", "resync", "quit", "done"}
       => AutoMode
  /\ pc = "audio" => avh_active
  /\ pc \in {"sink", "giveup", "restore", "unplug"} => ~avh_active
  /\ pc \in {"sink", "giveup"}
       => ~avh.sink /\ ~avh.display /\ (avh.pcm => Sdi)
  /\ pc = "sink" => avh.drm /\ (~Sdi => out.crtc /\ out.source = "vcu")
  /\ pc \in {"leavesink", "leavedone"} => ~avh.display
  /\ pc = "leavedone" => ~avh.sink

(* While AVH is selected it holds every part; on HDMI it is also shown. *)
OwnerInv ==
  avh_active /\ pc \in {"audio", "poll", "uevent", "unplug", "resync", "top"}
    => /\ avh.drm /\ avh.sink /\ avh.display
       /\ ~Sdi => out.crtc /\ out.source = "vcu"

(* The replies to DAU, and the format that a return will restore. *)
ReplyInv ==
  /\ TruthfulReply
  /\ reply = "success" /\ current.locked /\ current.fmt # NoFormat
       => last_locked = current.fmt
  /\ Sdi => last_locked \in {NoFormat, Contract}

IInv == TypeOK /\ OutputInv /\ PushInv /\ PlaceInv /\ OwnerInv /\ ReplyInv

-----------------------------------------------------------------------------
(* What the calls to the device promise.                                   *)

(* p is the output o with, at most, its embedder turned off. *)
OnlyQuieter(p, o) ==
  /\ p \in OutType
  /\ p.crtc = o.crtc /\ p.source = o.source /\ p.fmt = o.fmt
  /\ p.modeset_active = o.modeset_active
  /\ p.overlay_active = o.overlay_active
  /\ p.embedder => o.embedder

(* The flags of the context and the embedder agree with the source. *)
Honest(o) ==
  /\ o.overlay_active <=> o.source = "dante"
  /\ o.embedder => o.source = "dante"

(* The output after a successful commit of apply_drm_modeset. *)
Fresh(p, fmt) ==
  /\ p \in OutType
  /\ p.crtc /\ Honest(p)
  /\ p.source \in {"dummy", "dante"}
  /\ p.source = "dante" => p.fmt = fmt
  /\ fmt = NoFormat => p.source = "dummy"
  /\ fmt # NoFormat => p.source = "dante" \/ p.bare

(* set_sdi_fpga_passthrough(false) changes nothing but the embedder. *)
LEMMA EmbedderOffFacts ==
  ASSUME NEW o \in OutType, NEW x \in EmbedderOff(o)
  PROVE  OnlyQuieter(x.out, o) /\ (x.ok => ~x.out.embedder)
  <1> DEFINE off == [o EXCEPT !.embedder = FALSE]
  <1>1. OnlyQuieter(off, o) /\ ~off.embedder
    BY DEF OnlyQuieter, OutType
  <1>2. OnlyQuieter(o, o)
    BY DEF OnlyQuieter, OutType
  <1>3. \/ x = [ok |-> TRUE, out |-> off]
        \/ x = [ok |-> FALSE, out |-> o]
        \/ x = [ok |-> FALSE, out |-> off]
    <2> HIDE DEF off
    <2> QED BY DEF EmbedderOff, off
  <1> HIDE DEF off
  <1> QED BY <1>1, <1>2, <1>3

(* select_hdmi_audio_route changes the route and quiets the output. *)
LEMMA SelectRouteFacts ==
  ASSUME NEW o \in OutType, NEW was, NEW r,
         NEW s \in SelectRoute(o, was, r)
  PROVE  /\ OnlyQuieter(s.out, o) /\ s.route \in {was, r}
         /\ s.route # was => ~s.out.embedder
  <1>1. PICK x \in EmbedderOff(o) :
          \/ s = [ok |-> FALSE, out |-> x.out, route |-> was]
          \/ x.ok /\ s = [ok |-> TRUE, out |-> x.out, route |-> r]
    BY DEF SelectRoute
  <1> QED BY <1>1, EmbedderOffFacts

(* The successful end of apply_drm_modeset leaves an honest output, and    *)
(* DUMMY never fails once it is committed. *)
LEMMA CommittedFacts ==
  ASSUME NEW o, NEW fmt \in OutFormats, NEW m \in Committed(o, fmt)
  PROVE  Fresh(m.out, fmt) /\ (fmt = NoFormat => m.ok)
  <1> DEFINE Base(g) == [crtc |-> TRUE,
                         source |-> IF g = NoFormat THEN "dummy"
                                   ELSE "dante",
                         fmt |-> g, embedder |-> FALSE,
                         modeset_active |-> TRUE,
                         overlay_active |-> g # NoFormat,
                         bare |-> g # fmt]
  <1>1. PICK g \in {fmt} \cup IF DeviceFails THEN {NoFormat} ELSE {} :
          m \in IF Sdi /\ g # NoFormat /\ SdiAudio # "disabled"
                THEN {[ok |-> TRUE, out |-> [Base(g) EXCEPT !.embedder = TRUE]]}
                     \cup {[ok |-> SdiAudio = "optional",
                            out |-> [Base(g) EXCEPT !.embedder = e]] :
                             e \in IF DeviceFails THEN BOOLEAN ELSE {}}
                ELSE {[ok |-> TRUE, out |-> Base(g)]}
    BY DEF Committed
  <1>2. g \in OutFormats /\ g \in {fmt, NoFormat}
    BY <1>1 DEF OutFormats
  <1>3. Fresh(Base(g), fmt)
    BY <1>2 DEF Fresh, Honest, OutType
  <1>4. ASSUME NEW e \in BOOLEAN, g # NoFormat
        PROVE  Fresh([Base(g) EXCEPT !.embedder = e], fmt)
    BY <1>2, <1>4 DEF Fresh, Honest, OutType
  <1>5. CASE Sdi /\ g # NoFormat /\ SdiAudio # "disabled"
    <2> DEFINE With(e) == [Base(g) EXCEPT !.embedder = e]
    <2>1. \A e \in BOOLEAN : Fresh(With(e), fmt)
      BY <1>4, <1>5
    <2>2. m \in {[ok |-> TRUE, out |-> With(TRUE)]} \cup
               {[ok |-> SdiAudio = "optional", out |-> With(e)] :
                  e \in IF DeviceFails THEN BOOLEAN ELSE {}}
      BY <1>1, <1>5
    <2> HIDE DEF With
    <2>3. CASE m = [ok |-> TRUE, out |-> With(TRUE)]
      BY <2>1, <2>3, <1>5, <1>2
    <2>4. CASE \E e \in BOOLEAN :
                 m = [ok |-> SdiAudio = "optional", out |-> With(e)]
      <3>1. PICK e \in BOOLEAN :
                 m = [ok |-> SdiAudio = "optional", out |-> With(e)]
        BY <2>4
      <3>2. m.out = With(e)
        BY <3>1
      <3> QED BY <3>2, <2>1, <1>5, <1>2
    <2>5. m = [ok |-> TRUE, out |-> With(TRUE)] \/
          \E e \in BOOLEAN :
             m = [ok |-> SdiAudio = "optional", out |-> With(e)]
      BY <2>2
    <2> QED BY <2>3, <2>4, <2>5
  <1>6. CASE ~(Sdi /\ g # NoFormat /\ SdiAudio # "disabled")
    <2> HIDE DEF Base
    <2>1. m = [ok |-> TRUE, out |-> Base(g)]
      BY <1>1, <1>6
    <2> QED BY <2>1, <1>3
  <1> QED BY <1>5, <1>6

(* apply_drm_modeset either changes the embedder at most, or commits. *)
LEMMA ModesetFacts ==
  ASSUME NEW o \in OutType, NEW fmt \in OutFormats, NEW usable,
         NEW m \in Modeset(o, fmt, usable)
  PROVE  \/ OnlyQuieter(m.out, o) /\ ~m.ok
         \/ Fresh(m.out, fmt) /\ (fmt = NoFormat => m.ok)
  <1>1. \/ m \in Committed(o, fmt)
        \/ m = [ok |-> FALSE, out |-> o]
        \/ \E x \in EmbedderOff(o) : m = [ok |-> FALSE, out |-> x.out]
    BY DEF Modeset
  <1>2. OnlyQuieter(o, o)
    BY DEF OnlyQuieter, OutType
  <1> QED BY <1>1, <1>2, CommittedFacts, EmbedderOffFacts

(* The DUMMY route never shows Dante and never fails after its commit. *)
LEMMA DummyFacts ==
  ASSUME NEW o \in OutType, NEW m \in Dummy(o)
  PROVE  \/ OnlyQuieter(m.out, o) /\ ~m.ok
         \/ Fresh(m.out, NoFormat) /\ m.ok
  BY ModesetFacts DEF Dummy, OutFormats

(* start_hdmi_audio_sink touches the route, the embedder and the PCM. *)
LEMMA StartAudioFacts ==
  ASSUME NEW o \in OutType, NEW r \in {0, 1}, NEW a \in AvhType,
         NEW s \in StartAudio(o, r, a)
  PROVE  /\ OnlyQuieter(s.out, o) /\ s.route \in {0, 1}
         /\ s.avh \in AvhType
         /\ s.avh.sink = a.sink /\ s.avh.drm = a.drm
         /\ s.avh.display = a.display
         /\ s.route # r => ~s.out.embedder
  <1>1. CASE s = [out |-> o, route |-> r, avh |-> a]
    BY <1>1 DEF OnlyQuieter, OutType
  <1>2. CASE \E t \in SelectRoute(o, r, 0) : \E p \in BOOLEAN :
               s = [out |-> t.out, route |-> t.route,
                    avh |-> [a EXCEPT !.pcm = p]]
    <2>1. PICK t \in SelectRoute(o, r, 0), p \in BOOLEAN :
                 s = [out |-> t.out, route |-> t.route,
                      avh |-> [a EXCEPT !.pcm = p]]
      BY <1>2
    <2>2. /\ OnlyQuieter(t.out, o) /\ t.route \in {r, 0}
          /\ t.route # r => ~t.out.embedder
      BY SelectRouteFacts
    <2> DEFINE b == [a EXCEPT !.pcm = p]
    <2>3. b \in AvhType /\ b.sink = a.sink /\ b.drm = a.drm
          /\ b.display = a.display
      BY DEF AvhType
    <2> HIDE DEF b
    <2>4. s.out = t.out /\ s.route = t.route /\ s.avh = b
      BY <2>1 DEF b
    <2> QED BY <2>2, <2>3, <2>4
  <1> QED BY <1>1, <1>2 DEF StartAudio

(* start_drm_output, when it succeeds, lights the output for the decoder. *)
LEMMA StartDrmFacts ==
  ASSUME NEW o \in OutType, NEW r \in {0, 1}, NEW a \in AvhType,
         NEW d \in StartDrm(o, r, a)
  PROVE  /\ d.out \in OutType /\ d.route \in {0, 1} /\ d.avh \in AvhType
         /\ d.avh.sink = a.sink /\ d.avh.display = a.display
         /\ d.avh.pcm => a.pcm \/ Sdi
         /\ d.out.overlay_active = o.overlay_active
         /\ d.out.embedder => o.embedder
         /\ d.route # r => ~d.out.embedder
         /\ \/ d.out = o /\ d.avh = a /\ d.ok = a.drm
            \/ d.out.source = "vcu" /\ d.out.crtc /\ d.avh.drm
  <1> DEFINE lit == [o EXCEPT !.crtc = TRUE, !.source = "vcu", !.fmt = NoFormat]
             mine == [a EXCEPT !.drm = TRUE]
  <1>1. lit \in OutType /\ lit.crtc /\ lit.source = "vcu"
        /\ lit.overlay_active = o.overlay_active /\ lit.embedder = o.embedder
    BY DEF OutType, OutFormats
  <1>2. mine \in AvhType /\ mine.sink = a.sink /\ mine.display = a.display
        /\ mine.pcm = a.pcm /\ mine.drm
    BY DEF AvhType
  <1>3. \/ d.out = o /\ d.route = r /\ d.avh = a /\ d.ok = a.drm
        \/ d.out = lit /\ d.route = r /\ d.avh = mine
        \/ Sdi /\ \E s \in StartAudio(lit, r, mine) :
                      d.out = s.out /\ d.route = s.route /\ d.avh = s.avh
    <2> HIDE DEF lit, mine
    <2>1. \/ d = [ok |-> a.drm, out |-> o, route |-> r, avh |-> a]
          \/ \E s \in IF Sdi THEN StartAudio(lit, r, mine)
                    ELSE {[out |-> lit, route |-> r, avh |-> mine]} :
               d = [ok |-> TRUE, out |-> s.out, route |-> s.route,
                    avh |-> s.avh]
      BY DEF StartDrm, lit, mine
    <2> QED BY <2>1
  <1> HIDE DEF lit, mine
  <1>4. CASE \E s \in StartAudio(lit, r, mine) :
               Sdi /\ d.out = s.out /\ d.route = s.route /\ d.avh = s.avh
    <2>1. PICK s \in StartAudio(lit, r, mine) :
               Sdi /\ d.out = s.out /\ d.route = s.route /\ d.avh = s.avh
      BY <1>4
    <2>2. /\ OnlyQuieter(s.out, lit) /\ s.route \in {0, 1}
          /\ s.avh \in AvhType
          /\ s.avh.sink = mine.sink /\ s.avh.display = mine.display
          /\ s.avh.drm = mine.drm
          /\ s.route # r => ~s.out.embedder
      <3>1. lit \in OutType /\ mine \in AvhType
        BY <1>1, <1>2
      <3> QED BY <3>1, StartAudioFacts, SMTT(30)
    <2> QED BY <2>1, <2>2, <1>1, <1>2 DEF OnlyQuieter
  <1> QED BY <1>1, <1>2, <1>3, <1>4

(* stop_drm_output gives up the DRM handle, and on SDI the PCM. *)
LEMMA StopDrmFacts ==
  ASSUME NEW o \in OutType, NEW a \in AvhType, NEW d \in StopDrm(o, a)
  PROVE  /\ d.out \in OutType /\ d.avh \in AvhType
         /\ d.avh.sink = a.sink /\ d.avh.display = a.display
         /\ ~d.avh.drm /\ (d.avh.pcm => a.pcm /\ ~Sdi)
         /\ d.out.source = o.source /\ d.out.embedder = o.embedder
         /\ d.out.fmt = o.fmt
         /\ d.out.overlay_active = o.overlay_active
         /\ d.out.crtc # o.crtc => a.drm
  <1> DEFINE b == [a EXCEPT !.drm = FALSE, !.pcm = @ /\ ~Sdi]
             Lit(c) == [o EXCEPT !.crtc = c]
  <1>1. b \in AvhType /\ b.sink = a.sink /\ b.display = a.display
        /\ ~b.drm /\ (b.pcm => a.pcm /\ ~Sdi)
    BY DEF AvhType
  <1>2. PICK c \in BOOLEAN :
          /\ c = o.crtc \/ a.drm
          /\ d = [out |-> Lit(c), avh |-> b]
    BY DEF StopDrm, OutType
  <1>3. /\ Lit(c) \in OutType /\ Lit(c).crtc = c
        /\ Lit(c).fmt = o.fmt
        /\ Lit(c).source = o.source /\ Lit(c).embedder = o.embedder
        /\ Lit(c).overlay_active = o.overlay_active
    BY DEF OutType
  <1> HIDE DEF b, Lit
  <1> QED BY <1>1, <1>2, <1>3

(* p shows the Dante source only where o does, unchanged and as lit. *)
NoNewDante(p, o) ==
  /\ p \in OutType /\ Honest(p)
  /\ p.source = "dante" =>
       o.source = "dante" /\ p.fmt = o.fmt /\ p.crtc = o.crtc

LEMMA QuieterIsNoNewDante ==
  ASSUME NEW o \in OutType, Honest(o), NEW p, OnlyQuieter(p, o)
  PROVE  NoNewDante(p, o)
  BY DEF Honest, OnlyQuieter, NoNewDante, OutType

LEMMA DummyIsNoNewDante ==
  ASSUME NEW o \in OutType, Honest(o), NEW m \in Dummy(o)
  PROVE  /\ NoNewDante(m.out, o)
         /\ m.ok => m.out.source = "dummy"
  <1>1. CASE OnlyQuieter(m.out, o) /\ ~m.ok
    BY <1>1, QuieterIsNoNewDante
  <1>2. CASE Fresh(m.out, NoFormat) /\ m.ok
    BY <1>2 DEF Fresh, NoNewDante
  <1> QED BY <1>1, <1>2, DummyFacts

LEMMA NoNewDanteTransitive ==
  ASSUME NEW o, NEW p, NEW q, NoNewDante(p, o), NoNewDante(q, p)
  PROVE  NoNewDante(q, o)
  BY DEF NoNewDante

-----------------------------------------------------------------------------
(* Every step preserves the invariant.                                     *)

OutState == <<out, avh, avh_active, daVars, resync>>

(* A step that touches neither the output nor what AVH holds of it only    *)
(* has to keep the types, the push and the place. *)
LEMMA AsideIInv ==
  ASSUME IInv, UNCHANGED OutState, TypeOK',
         PushInv', PlaceInv', OwnerInv'
  PROVE  IInv'
  BY DEF IInv, OutState, daVars, OutputInv, StatusTruth,
         EmbedderOnlyWithDante, ReplyInv, TruthfulReply

(* The environment and the decoder callback. *)
LEMMA AroundIInv ==
  ASSUME IInv,
         FlowCreated \/ FlowDeleted \/ CountFrame \/ ShowFrame
         \/ FramePushed \/ Cable
  PROVE  IInv'
  <1>1. UNCHANGED OutState /\ UNCHANGED pc
    BY DEF FlowCreated, FlowDeleted, CountFrame, ShowFrame, FramePushed,
           Cable, OutState
  <1>2. TypeOK'
    <2>1. CASE FlowCreated
      BY <2>1, UltraAssumption DEF IInv, TypeOK, FlowCreated, daVars, autoVars, cbVars
    <2>2. CASE FlowDeleted
      BY <2>2, UltraAssumption DEF IInv, TypeOK, FlowDeleted, daVars, autoVars, cbVars
    <2>3. CASE CountFrame
      BY <2>3 DEF IInv, TypeOK, CountFrame, daVars, flowVars
    <2>4. CASE ShowFrame
      BY <2>4 DEF IInv, TypeOK, ShowFrame, daVars, flowVars, autoVars
    <2>5. CASE FramePushed
      BY <2>5 DEF IInv, TypeOK, FramePushed, daVars, flowVars, autoVars
    <2>6. CASE Cable
      BY <2>6 DEF IInv, TypeOK, Cable, daVars, flowVars, autoVars, cbVars
    <2> QED BY <2>1, <2>2, <2>3, <2>4, <2>5, <2>6
  <1>3. PushInv'
    BY DEF IInv, PushInv, FlowCreated, FlowDeleted, CountFrame, ShowFrame,
           FramePushed, Cable, cbVars
  <1>4. PlaceInv' /\ OwnerInv'
    BY <1>1 DEF IInv, PlaceInv, NothingLeftOfAvh, OwnerInv, OutState
  <1> QED BY <1>1, <1>2, <1>3, <1>4, AsideIInv

(* The steps of the loop that only read, and its walk from place to place. *)
LEMMA WalkIInv ==
  ASSUME IInv,
         NoticeFlow \/ NoFlow \/ KeepSource \/ PollDone \/ Hotplug
         \/ NoHotplug \/ ResyncIdle
  PROVE  IInv'
  <1>1. UNCHANGED OutState /\ UNCHANGED cbVars
    BY DEF NoticeFlow, NoFlow, KeepSource, PollDone, Hotplug, NoHotplug,
           ResyncIdle, OutState
  <1>2. TypeOK'
    <2>1. pc' \in Places
      BY DEF NoticeFlow, NoFlow, KeepSource, PollDone, Hotplug, NoHotplug,
             ResyncIdle, Places
    <2>2. connected' = connected /\ heard' \in {heard, connected}
          /\ UNCHANGED <<route, flowVars>>
      BY DEF NoticeFlow, NoFlow, KeepSource, PollDone, Hotplug, NoHotplug,
             ResyncIdle
    <2>3. /\ pending' \in {pending, TRUE, FALSE}
          /\ fresh' \in {fresh, FALSE}
          /\ retry_blocked' \in {retry_blocked, FALSE}
      BY DEF NoticeFlow, NoFlow, KeepSource, PollDone, Hotplug, NoHotplug,
             ResyncIdle, autoVars
    <2>4. TypeOK
      BY DEF IInv
    <2>5. connected' \in BOOLEAN /\ heard' \in BOOLEAN
          /\ pending' \in BOOLEAN /\ fresh' \in BOOLEAN
          /\ retry_blocked' \in BOOLEAN
      BY <2>2, <2>3, <2>4, Zenon DEF TypeOK
    <2> QED BY <1>1, <2>1, <2>2, <2>4, <2>5
            DEF TypeOK, OutState, daVars, flowVars, cbVars
  <1>3. PushInv'
    BY <1>1 DEF IInv, PushInv, cbVars, OutState
  <1>4. PlaceInv' /\ OwnerInv'
    BY <1>1 DEF IInv, PlaceInv, NothingLeftOfAvh, OwnerInv, OutState,
      NoticeFlow, NoFlow, KeepSource, PollDone, Hotplug, NoHotplug, ResyncIdle
  <1> QED BY <1>1, <1>2, <1>3, <1>4, AsideIInv

(* A step that shows no new Dante stream keeps the output and the replies  *)
(* sound, provided that AVH takes the output only from another source. *)
LEMMA NoNewDanteStep ==
  ASSUME IInv, NoNewDante(out', out), UNCHANGED <<last_locked, resync>>,
         avh'.drm => out'.source # "dante",
         \/ UNCHANGED <<current, reply, told>>
         \/ reply' = "error"
  PROVE  OutputInv' /\ ReplyInv'
  <1>1. out \in OutType /\ Honest(out)
    BY DEF IInv, TypeOK, OutType, OutFormats, OutputInv, StatusTruth,
           EmbedderOnlyWithDante, Honest
  <1>2. OutputInv'
    BY <1>1 DEF IInv, OutputInv, StatusTruth, EmbedderOnlyWithDante,
           NoNewDante, Honest
  <1>3. ReplyInv'
    BY <1>1 DEF IInv, ReplyInv, TruthfulReply, NoNewDante
  <1> QED BY <1>2, <1>3

LEMMA IInvFacts ==
  ASSUME IInv
  PROVE  /\ out \in OutType /\ Honest(out) /\ avh \in AvhType
         /\ route \in {0, 1}
         /\ avh.drm => out.source # "dante"
         /\ NoNewDante(out, out)
  BY DEF IInv, TypeOK, OutType, OutFormats, AvhType, OutputInv, StatusTruth,
         EmbedderOnlyWithDante, Honest, NoNewDante

(* The types after a step of the loop. *)
LEMMA LoopTypes ==
  ASSUME IInv, out' \in OutType, route' \in {0, 1}, avh' \in AvhType,
         avh_active' \in BOOLEAN, pending' \in BOOLEAN,
         retry_blocked' \in BOOLEAN, resync' \in {"off", "on", "failed"},
         current' \in Reports, last_locked' \in Formats \cup {NoFormat},
         reply' \in {None, "success", "error"}, told' \in ToldType,
         pc' \in Places,
         UNCHANGED <<connected, heard, flowVars, fresh, cbVars>>
  PROVE  TypeOK'
  BY DEF IInv, TypeOK, OutType, OutFormats, AvhType, ToldType, flowVars,
         cbVars

(* The types after a step of the loop that answers no report. *)
LEMMA QuietLoopTypes ==
  ASSUME IInv, out' \in OutType, route' \in {0, 1}, avh' \in AvhType,
         avh_active' \in BOOLEAN, pc' \in Places,
         UNCHANGED <<connected, heard, daVars, flowVars, autoVars, cbVars,
                     resync>>
  PROVE  TypeOK'
  <1>1. /\ pending' \in BOOLEAN /\ retry_blocked' \in BOOLEAN
        /\ resync' \in {"off", "on", "failed"} /\ current' \in Reports
        /\ last_locked' \in Formats \cup {NoFormat}
        /\ reply' \in {None, "success", "error"} /\ told' \in ToldType
        /\ fresh' = fresh
    BY DEF IInv, TypeOK, ToldType, daVars, autoVars
  <1> QED BY <1>1, LoopTypes

(* The promotion: DUMMY first, then the DRM output of the decoder. *)
LEMMA PromoteIInv ==
  ASSUME IInv, Promote
  PROVE  IInv'
  <1>1. PICK m \in Dummy(out) :
          \E d \in (IF m.ok THEN StartDrm(m.out, route, avh)
                    ELSE {[ok |-> FALSE, out |-> m.out, route |-> route,
                           avh |-> avh]}) :
            /\ out' = d.out /\ route' = d.route /\ avh' = d.avh
            /\ pc' = IF d.ok THEN "sink" ELSE "giveup"
    BY DEF Promote
  <1>2. /\ NoNewDante(m.out, out) /\ m.out \in OutType
        /\ m.ok => m.out.source = "dummy"
    BY IInvFacts, DummyIsNoNewDante DEF NoNewDante
  <1>3. /\ avh = [drm |-> FALSE, sink |-> FALSE, display |-> FALSE,
                  pcm |-> FALSE]
        /\ ~avh_active /\ AutoMode
    BY DEF IInv, PlaceInv, NothingLeftOfAvh, Promote, Promotes
  <1>4. /\ NoNewDante(out', out) /\ route' \in {0, 1} /\ avh' \in AvhType
        /\ avh'.drm => out'.source # "dante"
        /\ ~avh'.sink /\ ~avh'.display /\ (avh'.pcm => Sdi)
        /\ \/ pc' = "giveup"
           \/ /\ pc' = "sink" /\ avh'.drm
              /\ out'.crtc /\ out'.source = "vcu"
    <2>1. CASE ~m.ok
      <3>1. out' = m.out /\ route' = route /\ avh' = avh /\ pc' = "giveup"
        BY <1>1, <2>1
      <3> QED BY <3>1, <1>2, <1>3, IInvFacts
    <2>2. CASE m.ok
      <3>1. PICK d \in StartDrm(m.out, route, avh) :
              /\ out' = d.out /\ route' = d.route /\ avh' = d.avh
              /\ pc' = IF d.ok THEN "sink" ELSE "giveup"
        BY <1>1, <2>2
      <3>2. /\ d.out \in OutType /\ d.route \in {0, 1} /\ d.avh \in AvhType
            /\ d.avh.sink = avh.sink /\ d.avh.display = avh.display
            /\ d.avh.pcm => avh.pcm \/ Sdi
            /\ d.out.overlay_active = m.out.overlay_active
            /\ d.out.embedder => m.out.embedder
            /\ \/ d.out = m.out /\ d.avh = avh /\ d.ok = avh.drm
               \/ d.out.source = "vcu" /\ d.out.crtc /\ d.avh.drm
        BY <1>2, IInvFacts, StartDrmFacts
      <3>3. NoNewDante(d.out, out) /\ d.out.source # "dante"
        BY <3>2, <1>2, <2>2 DEF NoNewDante, Honest
      <3> QED BY <3>1, <3>2, <3>3, <1>3
    <2> QED BY <2>1, <2>2
  <1>5. UNCHANGED <<connected, heard, avh_active, daVars, flowVars, autoVars,
                    cbVars, resync>>
    BY DEF Promote
  <1>6. TypeOK'
    <2>1. out' \in OutType /\ pc' \in Places /\ avh_active' \in BOOLEAN
      BY <1>4, <1>5 DEF NoNewDante, Places, IInv, TypeOK
    <2> QED BY <2>1, <1>4, <1>5, QuietLoopTypes
  <1>7. OutputInv' /\ ReplyInv'
    BY <1>4, <1>5, NoNewDanteStep DEF daVars
  <1>8. PushInv'
    BY <1>3, <1>5 DEF IInv, PushInv, cbVars
  <1>9. PlaceInv' /\ OwnerInv'
    BY <1>3, <1>4, <1>5 DEF PlaceInv, NothingLeftOfAvh, OwnerInv
  <1> QED BY <1>6, <1>7, <1>8, <1>9 DEF IInv

(* The sink is made and unmade only while display_lock is free. *)
LEMMA StartSinkIInv ==
  ASSUME IInv, StartSink
  PROVE  IInv'
  <1>1. PICK ok \in BOOLEAN :
          /\ avh' = [avh EXCEPT !.sink = ok, !.display = ok]
          /\ avh_active' = ok
          /\ pc' = IF ok THEN "audio" ELSE "giveup"
    BY DEF StartSink
  <1>2. /\ pc = "sink" /\ display_lock = "free"
        /\ UNCHANGED <<connected, heard, out, route, daVars, flowVars,
                       autoVars, cbVars, resync>>
    BY DEF StartSink
  <1>3. /\ avh' \in AvhType /\ avh'.sink = ok /\ avh'.display = ok
        /\ avh'.drm = avh.drm /\ avh'.pcm = avh.pcm
    BY <1>1, IInvFacts DEF AvhType
  <1>4. TypeOK'
    BY <1>1, <1>2, <1>3, IInvFacts, QuietLoopTypes DEF Places
  <1>5. OutputInv' /\ ReplyInv'
    BY <1>2, <1>3, IInvFacts, NoNewDanteStep DEF daVars
  <1>6. PushInv'
    BY <1>2 DEF IInv, PushInv, cbVars
  <1>7. PlaceInv' /\ OwnerInv'
    BY <1>1, <1>2, <1>3 DEF IInv, PlaceInv, NothingLeftOfAvh, OwnerInv
  <1> QED BY <1>4, <1>5, <1>6, <1>7 DEF IInv

LEMMA AvhAudioIInv ==
  ASSUME IInv, AvhAudio
  PROVE  IInv'
  <1>1. PICK s \in StartAudio(out, route, avh) :
          out' = s.out /\ route' = s.route /\ avh' = s.avh
    BY DEF AvhAudio
  <1>2. /\ pc = "audio" /\ pc' = "poll"
        /\ UNCHANGED <<connected, heard, avh_active, daVars, flowVars,
                       autoVars, cbVars, resync>>
    BY DEF AvhAudio
  <1>3. /\ OnlyQuieter(out', out) /\ route' \in {0, 1} /\ avh' \in AvhType
        /\ avh'.sink = avh.sink /\ avh'.drm = avh.drm
        /\ avh'.display = avh.display
    BY <1>1, IInvFacts, StartAudioFacts
  <1>4. NoNewDante(out', out)
    BY <1>3, IInvFacts, QuieterIsNoNewDante
  <1>5. TypeOK'
    <2>1. out' \in OutType /\ pc' \in Places /\ avh_active' \in BOOLEAN
      BY <1>4, <1>2 DEF NoNewDante, Places, IInv, TypeOK
    <2> QED BY <2>1, <1>2, <1>3, QuietLoopTypes
  <1>6. OutputInv' /\ ReplyInv'
    <2>1. avh'.drm => out'.source # "dante"
      BY <1>3, IInvFacts DEF OnlyQuieter
    <2> QED BY <2>1, <1>2, <1>4, NoNewDanteStep DEF daVars
  <1>7. PushInv'
    BY <1>2, <1>3 DEF IInv, PushInv, cbVars
  <1>8. PlaceInv' /\ OwnerInv'
    BY <1>2, <1>3 DEF IInv, PlaceInv, NothingLeftOfAvh, OwnerInv, OnlyQuieter
  <1> QED BY <1>5, <1>6, <1>7, <1>8 DEF IInv

(* stop_drm_output and then SI1, the way out of every promotion. *)
LEMMA ReleaseFacts ==
  ASSUME NEW o \in OutType, Honest(o), NEW a \in AvhType, NEW r \in {0, 1},
         a.drm => o.source # "dante",
         NEW d \in StopDrm(o, a), NEW s \in SelectRoute(d.out, r, 1)
  PROVE  /\ NoNewDante(s.out, o) /\ s.route \in {0, 1} /\ d.avh \in AvhType
         /\ d.avh.sink = a.sink /\ d.avh.display = a.display
         /\ ~d.avh.drm /\ (d.avh.pcm => a.pcm /\ ~Sdi)
  <1>1. /\ d.out \in OutType /\ d.avh \in AvhType
        /\ d.avh.sink = a.sink /\ d.avh.display = a.display
        /\ ~d.avh.drm /\ (d.avh.pcm => a.pcm /\ ~Sdi)
        /\ d.out.source = o.source /\ d.out.embedder = o.embedder
        /\ d.out.fmt = o.fmt
        /\ d.out.overlay_active = o.overlay_active
        /\ d.out.crtc # o.crtc => a.drm
    BY StopDrmFacts
  <1>2. NoNewDante(d.out, o) /\ Honest(d.out)
    BY <1>1 DEF NoNewDante, Honest
  <1>3. OnlyQuieter(s.out, d.out) /\ s.route \in {r, 1}
    BY <1>1, SelectRouteFacts
  <1>4. NoNewDante(s.out, o)
    BY <1>1, <1>2, <1>3, QuieterIsNoNewDante, NoNewDanteTransitive
  <1> QED BY <1>1, <1>3, <1>4

(* A failed promotion keeps nothing of AVH. *)
LEMMA GiveUpIInv ==
  ASSUME IInv, GiveUp
  PROVE  IInv'
  <1>1. PICK d \in StopDrm(out, avh) : \E s \in SelectRoute(d.out, route, 1) :
          out' = s.out /\ route' = s.route /\ avh' = d.avh
    BY DEF GiveUp
  <1>2. PICK s \in SelectRoute(d.out, route, 1) :
          out' = s.out /\ route' = s.route /\ avh' = d.avh
    BY <1>1
  <1>3. /\ NoNewDante(out', out) /\ route' \in {0, 1} /\ avh' \in AvhType
        /\ avh'.sink = avh.sink /\ avh'.display = avh.display
        /\ ~avh'.drm /\ (avh'.pcm => avh.pcm /\ ~Sdi)
    BY <1>2, IInvFacts, ReleaseFacts
  <1>4. /\ pc = "giveup" /\ pc' = "restore" /\ pending' = FALSE
        /\ retry_blocked' = TRUE
        /\ UNCHANGED <<connected, heard, avh_active, daVars, flowVars, fresh,
                       cbVars, resync>>
    BY DEF GiveUp
  <1>5. TypeOK'
    <2>1. out' \in OutType /\ pc' \in Places
      BY <1>3, <1>4 DEF NoNewDante, Places
    <2>2. /\ avh_active' \in BOOLEAN /\ resync' \in {"off", "on", "failed"}
          /\ current' \in Reports /\ last_locked' \in Formats \cup {NoFormat}
          /\ reply' \in {None, "success", "error"} /\ told' \in ToldType
      BY <1>4 DEF IInv, TypeOK, ToldType, daVars
    <2> QED BY <2>1, <2>2, <1>3, <1>4, LoopTypes
  <1>6. OutputInv' /\ ReplyInv'
    BY <1>3, <1>4, NoNewDanteStep DEF daVars
  <1>7. PushInv'
    BY <1>3, <1>4 DEF IInv, PushInv, cbVars
  <1>8. avh' = [drm |-> FALSE, sink |-> FALSE, display |-> FALSE,
                pcm |-> FALSE]
    BY <1>3, <1>4 DEF IInv, PlaceInv, AvhType
  <1>9. PlaceInv' /\ OwnerInv'
    BY <1>4, <1>8 DEF IInv, PlaceInv, NothingLeftOfAvh, OwnerInv
  <1> QED BY <1>5, <1>6, <1>7, <1>9 DEF IInv

(* The return takes the display flag, the sink and the DRM output away,    *)
(* one after the other. *)
LEMMA LeaveAvhIInv ==
  ASSUME IInv, LeaveAvh
  PROVE  IInv'
  <1>1. /\ pc = "leave" /\ pc' = "leavesink"
        /\ UNCHANGED <<connected, heard, out, route, avh_active, daVars,
                       flowVars, autoVars, cbVars, resync>>
    BY DEF LeaveAvh
  <1>2. /\ avh' \in AvhType /\ ~avh'.display
        /\ avh'.sink = avh.sink /\ avh'.drm = avh.drm
    BY IInvFacts DEF LeaveAvh, AvhType
  <1>3. TypeOK'
    <2>1. pc' \in Places /\ avh_active' \in BOOLEAN
      BY <1>1 DEF Places, IInv, TypeOK
    <2> QED BY <2>1, <1>1, <1>2, IInvFacts, QuietLoopTypes
  <1>4. OutputInv' /\ ReplyInv'
    BY <1>1, <1>2, IInvFacts, NoNewDanteStep DEF daVars
  <1>5. PushInv'
    BY <1>1, <1>2 DEF IInv, PushInv, cbVars
  <1>6. PlaceInv' /\ OwnerInv'
    BY <1>1, <1>2 DEF IInv, PlaceInv, NothingLeftOfAvh, OwnerInv
  <1> QED BY <1>3, <1>4, <1>5, <1>6 DEF IInv

LEMMA LeaveSinkIInv ==
  ASSUME IInv, LeaveSink
  PROVE  IInv'
  <1>1. /\ pc = "leavesink" /\ display_lock = "free" /\ pc' = "leavedone"
        /\ UNCHANGED <<connected, heard, route, avh_active, daVars, flowVars,
                       autoVars, cbVars, resync>>
    BY DEF LeaveSink
  <1>2. PICK m \in Dummy(out) : out' = m.out
    BY DEF LeaveSink
  <1>3. NoNewDante(out', out)
    BY <1>2, IInvFacts, DummyIsNoNewDante
  <1>4. /\ avh' \in AvhType /\ ~avh'.sink
        /\ avh'.display = avh.display /\ avh'.drm = avh.drm
    BY IInvFacts DEF LeaveSink, AvhType
  <1>5. TypeOK'
    <2>1. out' \in OutType /\ pc' \in Places /\ avh_active' \in BOOLEAN
      BY <1>1, <1>3 DEF NoNewDante, Places, IInv, TypeOK
    <2> QED BY <2>1, <1>1, <1>4, IInvFacts, QuietLoopTypes
  <1>6. OutputInv' /\ ReplyInv'
    <2>1. avh'.drm => out'.source # "dante"
      BY <1>3, <1>4, IInvFacts DEF NoNewDante
    <2> QED BY <2>1, <1>1, <1>3, NoNewDanteStep DEF daVars
  <1>7. PushInv'
    BY <1>1 DEF IInv, PushInv, cbVars
  <1>8. PlaceInv' /\ OwnerInv'
    BY <1>1, <1>4 DEF IInv, PlaceInv, NothingLeftOfAvh, OwnerInv
  <1> QED BY <1>5, <1>6, <1>7, <1>8 DEF IInv

LEMMA LeaveDoneIInv ==
  ASSUME IInv, LeaveDone
  PROVE  IInv'
  <1> DEFINE a == [avh EXCEPT !.pcm = FALSE]
  <1>1. /\ a \in AvhType /\ ~a.pcm
        /\ a.sink = avh.sink /\ a.display = avh.display /\ a.drm = avh.drm
    BY IInvFacts DEF AvhType
  <1>2. PICK d \in StopDrm(out, a) : \E s \in SelectRoute(d.out, route, 1) :
          out' = s.out /\ route' = s.route /\ avh' = d.avh
    BY DEF LeaveDone
  <1> HIDE DEF a
  <1>3. PICK s \in SelectRoute(d.out, route, 1) :
          out' = s.out /\ route' = s.route /\ avh' = d.avh
    BY <1>2
  <1>4. /\ NoNewDante(out', out) /\ route' \in {0, 1} /\ avh' \in AvhType
        /\ avh'.sink = avh.sink /\ avh'.display = avh.display
        /\ ~avh'.drm /\ ~avh'.pcm
    BY <1>1, <1>3, IInvFacts, ReleaseFacts
  <1>5. /\ pc = "leavedone" /\ pc' = "restore" /\ avh_active' = FALSE
        /\ UNCHANGED <<connected, heard, daVars, flowVars, autoVars, cbVars,
                       resync>>
    BY DEF LeaveDone
  <1>6. TypeOK'
    <2>1. out' \in OutType /\ pc' \in Places
      BY <1>4, <1>5 DEF NoNewDante, Places
    <2> QED BY <2>1, <1>4, <1>5, QuietLoopTypes
  <1>7. OutputInv' /\ ReplyInv'
    BY <1>4, <1>5, NoNewDanteStep DEF daVars
  <1>8. PushInv'
    BY <1>4, <1>5 DEF IInv, PushInv, cbVars
  <1>9. avh' = [drm |-> FALSE, sink |-> FALSE, display |-> FALSE,
                pcm |-> FALSE]
    BY <1>4, <1>5 DEF IInv, PlaceInv, AvhType
  <1>10. PlaceInv' /\ OwnerInv'
    BY <1>5, <1>9 DEF IInv, PlaceInv, NothingLeftOfAvh, OwnerInv
  <1> QED BY <1>6, <1>7, <1>8, <1>10 DEF IInv

(* The format of the next overlay is usable; on SDI it is the contract. *)
LEMMA UltraFormatFacts ==
  ASSUME NEW l \in Formats \cup {NoFormat}
  PROVE  /\ UltraFormat(l) \in Formats
         /\ Sdi /\ l \in {NoFormat, Contract} => UltraFormat(l) = Contract
  BY UltraAssumption DEF UltraFormat, Formats, NoFormat, Contract

(* No format has the size of NoFormat. *)
LEMMA NoFormatFacts == NoFormat \notin Formats
  BY UltraAssumption DEF Formats, NoFormat

(* A fresh modeset is sound where AVH does not hold the output and the     *)
(* overlay is made for the format that was answered. *)
LEMMA FreshStep ==
  ASSUME IInv, NEW f \in OutFormats, Fresh(out', f), UNCHANGED resync,
         ~avh'.drm, Sdi => f \in {NoFormat, Contract},
         Sdi => last_locked' \in {NoFormat, Contract},
         reply' = "success" /\ out'.source = "dante"
           => Forced \/ current'.locked,
         reply' = "success" /\ current'.locked /\ current'.fmt # NoFormat
           => last_locked' = current'.fmt,
         reply' = "success" /\ out'.source = "dante" /\ current'.locked
           /\ current'.fmt # NoFormat => f = UltraFormat(current'.fmt),
         reply' = "success" /\ current'.locked /\ current'.fmt # NoFormat
           => told' \in {"avh", "dante", "bare"}
  PROVE  OutputInv' /\ ReplyInv'
  <1>1. OutputInv'
    BY DEF OutputInv, StatusTruth, EmbedderOnlyWithDante, Fresh, Honest
  <1>2. ReplyInv'
    BY DEF ReplyInv, TruthfulReply, Fresh
  <1> QED BY <1>1, <1>2

LEMMA RestoreIInv ==
  ASSUME IInv, Restore
  PROVE  IInv'
  <1> DEFINE f == UltraFormat(last_locked)
  <1>1. /\ pc = "restore" /\ pc' = "poll"
        /\ UNCHANGED <<connected, heard, route, avh, avh_active, daVars,
                       flowVars, autoVars, cbVars, resync>>
    BY DEF Restore
  <1>2. PICK m \in Modeset(out, f, TRUE) : out' = m.out
    BY DEF Restore, RestoreUltra
  <1>3. /\ f \in OutFormats /\ f = UltraFormat(last_locked)
        /\ Sdi => f = Contract
    BY UltraFormatFacts DEF IInv, TypeOK, ReplyInv, OutFormats
  <1> HIDE DEF f
  <1>4. ~avh_active /\ ~avh.drm /\ Forced
    <2>1. ~avh_active /\ ~avh.drm
      BY <1>1 DEF IInv, PlaceInv, NothingLeftOfAvh
    <2>2. AutoMode
      BY <1>1 DEF IInv, PlaceInv
    <2>3. Forced
      BY <2>2, UltraAssumption
    <2> QED BY <2>1, <2>3
  <1>5. out' \in OutType /\ OutputInv' /\ ReplyInv'
    <2>1. CASE OnlyQuieter(out', out)
      <3>1. NoNewDante(out', out)
        BY <2>1, IInvFacts, QuieterIsNoNewDante
      <3> QED BY <3>1, <1>1, <1>4, NoNewDanteStep DEF daVars, NoNewDante
    <2>2. CASE Fresh(out', f)
      <3>1. OutputInv' /\ ReplyInv'
        BY <2>2, <1>1, <1>3, <1>4, FreshStep
           DEF IInv, ReplyInv, TruthfulReply, daVars
      <3> QED BY <3>1, <2>2 DEF Fresh
    <2> QED BY <2>1, <2>2, <1>2, <1>3, IInvFacts, ModesetFacts
  <1>6. TypeOK'
    <2>1. pc' \in Places /\ avh_active' \in BOOLEAN
      BY <1>1 DEF Places, IInv, TypeOK
    <2> QED BY <2>1, <1>1, <1>5, IInvFacts, QuietLoopTypes
  <1>7. PushInv'
    BY <1>1 DEF IInv, PushInv, cbVars
  <1>8. PlaceInv' /\ OwnerInv'
    BY <1>1, <1>4 DEF IInv, PlaceInv, NothingLeftOfAvh, OwnerInv
  <1> QED BY <1>5, <1>6, <1>7, <1>8 DEF IInv

(* The handlers leave AVH and the place of the loop alone. *)
LEMMA HandlerPlaces ==
  ASSUME IInv, pc = "poll",
         UNCHANGED <<avh, avh_active, cbVars, pc>>,
         avh_active /\ ~Sdi => UNCHANGED out
  PROVE  PushInv' /\ PlaceInv' /\ OwnerInv'
  BY DEF IInv, PushInv, PlaceInv, NothingLeftOfAvh, OwnerInv, cbVars

LEMMA HandlerTypes ==
  ASSUME IInv, pc = "poll", out' \in OutType, NEW r \in Reports,
         current' = r,
         last_locked' \in {Remembers(r), last_locked},
         reply' \in {"success", "error"}, told' \in ToldType,
         UNCHANGED <<connected, heard, route, avh, avh_active, flowVars,
                     autoVars, cbVars, resync, pc>>
  PROVE  TypeOK'
  <1>1. last_locked' \in Formats \cup {NoFormat}
    BY DEF IInv, TypeOK, Remembers, Reports
  <1>2. /\ avh_active' \in BOOLEAN /\ pending' \in BOOLEAN
        /\ retry_blocked' \in BOOLEAN /\ fresh' = fresh
        /\ resync' \in {"off", "on", "failed"} /\ pc' \in Places
    BY DEF IInv, TypeOK, autoVars
  <1> QED BY <1>1, <1>2, IInvFacts, LoopTypes

LEMMA RejectFormatIInv ==
  ASSUME IInv, NEW r \in Reports, RejectFormat(r)
  PROVE  IInv'
  <1>1. /\ pc = "poll" /\ Sdi /\ current' = r /\ reply' = "error"
        /\ told' = None
        /\ UNCHANGED <<connected, heard, route, avh, avh_active, last_locked,
                       flowVars, autoVars, cbVars, resync, pc>>
    BY DEF RejectFormat, Rejects
  <1>2. PICK m \in Dummy(out) : out' = m.out
    BY DEF RejectFormat
  <1>3. NoNewDante(out', out) /\ out' \in OutType
    BY <1>2, IInvFacts, DummyIsNoNewDante DEF NoNewDante
  <1>4. TypeOK'
    BY <1>1, <1>3, HandlerTypes DEF ToldType
  <1>5. OutputInv' /\ ReplyInv'
    <2>1. avh'.drm => out'.source # "dante"
      BY <1>1, <1>3, IInvFacts DEF NoNewDante
    <2> QED BY <2>1, <1>1, <1>3, NoNewDanteStep
  <1> QED BY <1>1, <1>4, <1>5, HandlerPlaces DEF IInv

(* The answer without a modeset is true as it stands. *)
LEMMA AcceptFormatIInv ==
  ASSUME IInv, NEW r \in Reports, AcceptFormat(r)
  PROVE  IInv'
  <1>1. /\ pc = "poll" /\ ~Rejects(r) /\ Settled(r)
        /\ current' = r /\ reply' = "success" /\ told' = Told(out)
        /\ last_locked' = Remembers(r)
        /\ UNCHANGED <<connected, heard, out, route, avh, avh_active,
                       flowVars, autoVars, cbVars, resync, pc>>
    BY DEF AcceptFormat
  <1>2. TypeOK'
    <2>1. told' \in ToldType
      BY <1>1, IInvFacts DEF Told, ToldType, OutType
    <2> QED BY <2>1, <1>1, IInvFacts, HandlerTypes
  <1>3. OutputInv'
    BY <1>1 DEF IInv, OutputInv, StatusTruth, EmbedderOnlyWithDante
  <1>4. avh_active => out.source # "dante"
    BY <1>1, IInvFacts DEF IInv, OwnerInv
  <1>5. Sdi /\ out.source = "dante" => out.fmt = Contract
    BY DEF IInv, OutputInv
  <1>6. Sdi => last_locked \in {NoFormat, Contract}
    BY DEF IInv, ReplyInv
  <1>7. r.locked => told' \in {"avh", "dante", "bare"}
    BY <1>1 DEF IInv, OutputInv, StatusTruth, Settled, Told
  <1>8. Sdi => UltraFormat(Contract) = Contract
    BY UltraAssumption DEF UltraFormat, Contract
  <1>9. ReplyInv'
    BY <1>1, <1>4, <1>5, <1>6, <1>7, <1>8
       DEF ReplyInv, TruthfulReply, Settled, Rejects, Remembers
  <1> QED BY <1>1, <1>2, <1>3, <1>9, HandlerPlaces DEF IInv

(* The answer with a modeset: what it commits is the reported format, and  *)
(* what it could not commit is answered with an error. *)
LEMMA SetVideoFormatIInv ==
  ASSUME IInv, NEW r \in Reports, SetVideoFormat(r)
  PROVE  IInv'
  <1> DEFINE f == IF r.locked THEN UltraFormat(Remembers(r)) ELSE NoFormat
  <1>1. /\ pc = "poll" /\ ~Rejects(r) /\ ~Settled(r)
        /\ current' = r /\ last_locked' = Remembers(r)
        /\ UNCHANGED <<connected, heard, route, avh, avh_active, flowVars,
                       autoVars, cbVars, resync, pc>>
    BY DEF SetVideoFormat
  <1>2. PICK n \in FormatModeset(r) :
          /\ out' = n.out
          /\ reply' = IF n.ok THEN "success" ELSE "error"
          /\ told' = IF n.ok THEN Told(n.out) ELSE None
    BY DEF SetVideoFormat
  <1>3. PICK m \in Modeset(out, f, Fixed \/ r.fmt # NoFormat) :
          n \in IF m.ok THEN {m}
                ELSE {[ok |-> FALSE, out |-> x.out] :
                        x \in IF r.locked /\ m.out.modeset_active
                              THEN Dummy(m.out) ELSE {m}}
    BY DEF FormatModeset
  <1>4. /\ Remembers(r) \in Formats \cup {NoFormat}
        /\ r.locked /\ r.fmt # NoFormat => Remembers(r) = r.fmt
        /\ Sdi => Remembers(r) \in {NoFormat, Contract}
    BY <1>1 DEF IInv, TypeOK, ReplyInv, Remembers, Reports, Rejects
  <1>5. /\ f \in OutFormats
        /\ r.locked => f # NoFormat
        /\ r.locked /\ r.fmt # NoFormat => f = UltraFormat(r.fmt)
        /\ Sdi /\ r.locked => f = Contract
        /\ ~r.locked => f = NoFormat
    BY <1>4, UltraFormatFacts, NoFormatFacts DEF OutFormats
  <1> HIDE DEF f
  <1>6. ~avh_active /\ ~avh.drm
    BY <1>1 DEF IInv, PlaceInv, NothingLeftOfAvh, Settled
  <1>7. ASSUME m.ok
        PROVE  out' \in OutType /\ OutputInv' /\ ReplyInv'
    <2>1. out' = m.out /\ Fresh(m.out, f)
      BY <1>2, <1>3, <1>5, <1>7, IInvFacts, ModesetFacts
    <2>2. out'.source = "dante" => r.locked
      BY <2>1, <1>5 DEF Fresh
    <2>3. r.locked => told' \in {"avh", "dante", "bare"}
      BY <2>1, <1>2, <1>3, <1>5, <1>6, <1>7 DEF Fresh, Told
    <2>4. OutputInv' /\ ReplyInv'
      BY <2>1, <2>2, <2>3, <1>1, <1>4, <1>5, <1>6, FreshStep
    <2> QED BY <2>1, <2>4 DEF Fresh
  <1>8. ASSUME ~m.ok
        PROVE  out' \in OutType /\ OutputInv' /\ ReplyInv'
    <2> DEFINE Sound(o) ==
          /\ o \in OutType /\ Honest(o)
          /\ o.source = "dante" =>
               (o.crtc \/ resync = "failed") /\ (Sdi => o.fmt = Contract)
    <2>1. Sound(out)
      BY IInvFacts DEF IInv, OutputInv, StatusTruth, Honest, OutType
    <2>2. \A o, q : Sound(o) /\ NoNewDante(q, o) => Sound(q)
      BY DEF NoNewDante
    <2>3. Sound(m.out)
      <3>1. CASE OnlyQuieter(m.out, out)
        BY <3>1, <2>1, <2>2, IInvFacts, QuieterIsNoNewDante
      <3>2. CASE Fresh(m.out, f)
        BY <3>2, <1>5 DEF Fresh
      <3> QED BY <3>1, <3>2, <1>3, <1>5, IInvFacts, ModesetFacts
    <2>4. ~n.ok /\ (n.out = m.out \/ \E x \in Dummy(m.out) : n.out = x.out)
      BY <1>3, <1>8
    <2>5. Sound(out')
      BY <2>2, <2>3, <2>4, <1>2, DummyIsNoNewDante
    <2>6. OutputInv'
      BY <2>5, <1>1, <1>6
         DEF OutputInv, StatusTruth, EmbedderOnlyWithDante, Honest
    <2>7. ReplyInv'
      <3>1. reply' = "error"
        BY <1>2, <2>4
      <3> QED BY <3>1, <1>1, <1>4 DEF ReplyInv, TruthfulReply
    <2> QED BY <2>5, <2>6, <2>7
  <1>9. out' \in OutType /\ OutputInv' /\ ReplyInv'
    BY <1>7, <1>8
  <1>10. TypeOK'
    <2>1. reply' \in {"success", "error"}
      BY <1>2
    <2>2. told' \in ToldType
      BY <1>2, <1>9 DEF Told, ToldType, OutType
    <2> QED BY <2>1, <2>2, <1>1, <1>9, HandlerTypes
  <1> QED BY <1>1, <1>6, <1>9, <1>10, HandlerPlaces DEF IInv

LEMMA UnplugIInv ==
  ASSUME IInv, Unplug
  PROVE  IInv'
  <1>1. /\ pc = "unplug" /\ pc' = "resync"
        /\ UNCHANGED <<connected, heard, route, avh, avh_active, daVars,
                       flowVars, autoVars, cbVars, resync>>
    BY DEF Unplug
  <1>2. PICK m \in Dummy(out) : out' = m.out
    BY DEF Unplug
  <1>3. NoNewDante(out', out) /\ out' \in OutType
    BY <1>2, IInvFacts, DummyIsNoNewDante DEF NoNewDante
  <1>4. TypeOK'
    <2>1. pc' \in Places /\ avh_active' \in BOOLEAN
      BY <1>1 DEF Places, IInv, TypeOK
    <2> QED BY <2>1, <1>1, <1>3, IInvFacts, QuietLoopTypes
  <1>5. OutputInv' /\ ReplyInv'
    <2>1. avh'.drm => out'.source # "dante"
      BY <1>1, <1>3, IInvFacts DEF NoNewDante
    <2> QED BY <2>1, <1>1, <1>3, NoNewDanteStep DEF daVars
  <1>6. PushInv' /\ PlaceInv' /\ OwnerInv'
    BY <1>1 DEF IInv, PushInv, PlaceInv, NothingLeftOfAvh, OwnerInv, cbVars
  <1> QED BY <1>4, <1>5, <1>6 DEF IInv

(* Only a resync that fails for good leaves a dark output behind. *)
LEMMA ResyncIInv ==
  ASSUME IInv, ResyncRequested
  PROVE  IInv'
  <1>1. /\ pc = "resync" /\ pc' = "top" /\ ~avh_active
        /\ UNCHANGED <<connected, heard, route, avh, avh_active, daVars,
                       flowVars, autoVars, cbVars>>
    BY DEF ResyncRequested, Eligible
  <1>2. PICK ok \in BOOLEAN, dark \in BOOLEAN :
          /\ ok => out.crtc /\ ~dark
          /\ resync' = IF ok THEN "on" ELSE "failed"
          /\ out' = [out EXCEPT !.crtc = @ /\ ~dark]
    BY DEF ResyncRequested
  <1>3. /\ out' \in OutType /\ Honest(out')
        /\ out'.source = out.source /\ out'.fmt = out.fmt
        /\ out'.overlay_active = out.overlay_active
        /\ out'.crtc \/ resync' = "failed"
    BY <1>2, IInvFacts DEF OutType, Honest
  <1>4. TypeOK'
    <2>1. /\ pc' \in Places /\ avh_active' \in BOOLEAN /\ pending' \in BOOLEAN
          /\ retry_blocked' \in BOOLEAN /\ fresh' = fresh
          /\ current' \in Reports /\ last_locked' \in Formats \cup {NoFormat}
          /\ reply' \in {None, "success", "error"} /\ told' \in ToldType
      BY <1>1 DEF IInv, TypeOK, ToldType, Places, daVars, autoVars
    <2>2. resync' \in {"off", "on", "failed"}
      BY <1>2
    <2> QED BY <2>1, <2>2, <1>1, <1>3, IInvFacts, LoopTypes
  <1>5. OutputInv'
    BY <1>1, <1>3
       DEF IInv, OutputInv, StatusTruth, EmbedderOnlyWithDante, Honest
  <1>6. ReplyInv'
    BY <1>1, <1>3 DEF IInv, ReplyInv, TruthfulReply, daVars
  <1>7. PushInv' /\ PlaceInv' /\ OwnerInv'
    BY <1>1 DEF IInv, PushInv, PlaceInv, NothingLeftOfAvh, OwnerInv, cbVars
  <1> QED BY <1>4, <1>5, <1>6, <1>7 DEF IInv

LEMMA QuitIInv ==
  ASSUME IInv, Quit
  PROVE  IInv'
  <1>1. /\ pc' = "quit"
        /\ UNCHANGED <<connected, heard, out, route, avh_active, daVars,
                       flowVars, autoVars, cbVars, resync>>
    BY DEF Quit
  <1>2. avh' \in AvhType /\ avh'.sink = avh.sink /\ avh'.drm = avh.drm
    BY IInvFacts DEF Quit, AvhType
  <1>3. TypeOK'
    <2>1. pc' \in Places /\ avh_active' \in BOOLEAN
      BY <1>1 DEF Places, IInv, TypeOK
    <2> QED BY <2>1, <1>1, <1>2, IInvFacts, QuietLoopTypes
  <1>4. OutputInv' /\ ReplyInv'
    BY <1>1, <1>2, IInvFacts, NoNewDanteStep DEF daVars
  <1>5. PushInv' /\ PlaceInv' /\ OwnerInv'
    BY <1>1, <1>2 DEF IInv, PushInv, PlaceInv, NothingLeftOfAvh, OwnerInv,
                      cbVars
  <1> QED BY <1>3, <1>4, <1>5 DEF IInv

LEMMA ShutdownIInv ==
  ASSUME IInv, Shutdown
  PROVE  IInv'
  <1> DEFINE a == [avh EXCEPT !.sink = FALSE, !.pcm = FALSE]
  <1>1. /\ callback = "idle" /\ pc' = "done"
        /\ UNCHANGED <<connected, heard, route, avh_active, daVars, flowVars,
                       autoVars, cbVars, resync>>
    BY DEF Shutdown
  <1>2. a \in AvhType /\ a.drm = avh.drm
    BY IInvFacts DEF AvhType
  <1>3. PICK m \in (IF AutoMode THEN Dummy(out)
                   ELSE {[ok |-> TRUE, out |-> out]}) :
          \E d \in StopDrm(m.out, a) : \E e \in EmbedderOff(d.out) :
            /\ out' = [e.out EXCEPT !.modeset_active = FALSE]
            /\ avh' = d.avh
    BY DEF Shutdown
  <1> HIDE DEF a
  <1>3a. PICK d \in StopDrm(m.out, a) : \E e \in EmbedderOff(d.out) :
            /\ out' = [e.out EXCEPT !.modeset_active = FALSE]
            /\ avh' = d.avh
    BY <1>3
  <1>4. PICK e \in EmbedderOff(d.out) :
            /\ out' = [e.out EXCEPT !.modeset_active = FALSE]
            /\ avh' = d.avh
    BY <1>3a
  <1>5. NoNewDante(m.out, out)
    BY <1>3, IInvFacts, DummyIsNoNewDante
  <1>6. m.out \in OutType /\ (a.drm => m.out.source # "dante")
    BY <1>2, <1>5, IInvFacts DEF NoNewDante
  <1>7. /\ d.out \in OutType /\ d.avh \in AvhType /\ ~d.avh.drm
        /\ d.out.source = m.out.source /\ d.out.embedder = m.out.embedder
        /\ d.out.fmt = m.out.fmt
        /\ d.out.overlay_active = m.out.overlay_active
        /\ d.out.crtc # m.out.crtc => a.drm
    BY <1>2, <1>6, StopDrmFacts
  <1>8. OnlyQuieter(e.out, d.out)
    BY <1>7, EmbedderOffFacts
  <1>9. /\ out' \in OutType
        /\ out'.crtc = e.out.crtc /\ out'.source = e.out.source
        /\ out'.fmt = e.out.fmt /\ out'.embedder = e.out.embedder
        /\ out'.overlay_active = e.out.overlay_active
    BY <1>4, <1>8 DEF OnlyQuieter, OutType
  <1>10. NoNewDante(out', out)
    <2>1. Honest(m.out) /\ (m.out.source = "dante" =>
            out.source = "dante" /\ m.out.fmt = out.fmt
            /\ m.out.crtc = out.crtc)
      BY <1>5 DEF NoNewDante
    <2> QED BY <2>1, <1>6, <1>7, <1>8, <1>9 DEF NoNewDante, OnlyQuieter, Honest
  <1>11. TypeOK'
    <2>1. pc' \in Places /\ avh_active' \in BOOLEAN
      BY <1>1 DEF Places, IInv, TypeOK
    <2> QED BY <2>1, <1>1, <1>4, <1>7, <1>9, IInvFacts, QuietLoopTypes
  <1>12. OutputInv' /\ ReplyInv'
    BY <1>1, <1>4, <1>7, <1>10, NoNewDanteStep DEF daVars
  <1>13. PushInv' /\ PlaceInv' /\ OwnerInv'
    BY <1>1 DEF PushInv, PlaceInv, NothingLeftOfAvh, OwnerInv, cbVars
  <1> QED BY <1>11, <1>12, <1>13 DEF IInv

LEMMA StutterIInv ==
  ASSUME IInv, UNCHANGED vars
  PROVE  IInv'
  BY DEF vars, daVars, flowVars, autoVars, cbVars, IInv, TypeOK, OutputInv,
         StatusTruth, EmbedderOnlyWithDante, PushInv, PlaceInv,
         NothingLeftOfAvh, OwnerInv, ReplyInv, TruthfulReply

(* The state in which the loop starts. *)
LEMMA InitIInv == Init => IInv
  <1> SUFFICES ASSUME Init PROVE IInv
    OBVIOUS
  <1> DEFINE f == IF Forced THEN UltraFormat(NoFormat) ELSE NoFormat
  <1>1. PICK m \in Modeset(Blank, f, TRUE) : out = m.out
    BY DEF Init
  <1>2. Blank \in OutType /\ Honest(Blank)
    BY DEF Blank, OutType, OutFormats, Honest
  <1>3. f \in OutFormats /\ (Sdi => f \in {NoFormat, Contract})
    BY UltraFormatFacts DEF OutFormats
  <1> HIDE DEF f
  <1>4. /\ out \in OutType /\ Honest(out)
        /\ out.source = "dante" => out.crtc /\ (Sdi => out.fmt = Contract)
    <2>1. CASE OnlyQuieter(out, Blank)
      <3>1. NoNewDante(out, Blank) /\ Blank.source = "dummy"
        BY <2>1, <1>2, QuieterIsNoNewDante DEF Blank
      <3> QED BY <3>1 DEF NoNewDante
    <2>2. CASE Fresh(out, f)
      BY <2>2, <1>3 DEF Fresh
    <2> QED BY <2>1, <2>2, <1>1, <1>2, <1>3, ModesetFacts
  <1>5. /\ route = 1 /\ avh_active = FALSE
        /\ avh = [drm |-> FALSE, sink |-> FALSE, display |-> FALSE,
                  pcm |-> FALSE]
        /\ current = [locked |-> FALSE, fmt |-> NoFormat]
        /\ last_locked = NoFormat /\ reply = None /\ told = None /\ flows = 0 /\ fed = FALSE
        /\ fresh = FALSE /\ pending = FALSE /\ retry_blocked = FALSE
        /\ callback = "idle" /\ display_lock = "free" /\ pc = "top"
    BY DEF Init
  <1>6. connected \in BOOLEAN /\ heard \in BOOLEAN
        /\ resync \in {"off", "on", "failed"}
    BY DEF Init
  <1>7. TypeOK
    <2>1. avh \in AvhType /\ current \in Reports /\ 0 \in 0..MaxFlows
      BY <1>5, UltraAssumption DEF AvhType, Reports
    <2> QED BY <2>1, <1>4, <1>5, <1>6
            DEF TypeOK, OutType, OutFormats, AvhType, Places
  <1>8. OutputInv
    BY <1>4, <1>5 DEF OutputInv, StatusTruth, EmbedderOnlyWithDante, Honest
  <1>9. PushInv /\ PlaceInv /\ OwnerInv
    BY <1>5 DEF PushInv, PlaceInv, NothingLeftOfAvh, OwnerInv
  <1>10. ReplyInv
    BY <1>5 DEF ReplyInv, TruthfulReply, None
  <1> QED BY <1>7, <1>8, <1>9, <1>10 DEF IInv

(* The invariant holds in every reachable state of every configuration. *)
THEOREM Inductive == Spec => []IInv
  <1>1. IInv /\ [Next]_vars => IInv'
    <2> SUFFICES ASSUME IInv, [Next]_vars PROVE IInv'
      OBVIOUS
    <2>1. CASE Arbitrate
      BY <2>1, WalkIInv, PromoteIInv, StartSinkIInv, AvhAudioIInv, GiveUpIInv,
         LeaveAvhIInv, LeaveSinkIInv, LeaveDoneIInv, RestoreIInv
         DEF Arbitrate
    <2>2. CASE Handle
      BY <2>2, WalkIInv, RejectFormatIInv, AcceptFormatIInv,
         SetVideoFormatIInv, UnplugIInv, ResyncIInv DEF Handle
    <2>3. CASE Idle
      BY <2>3, WalkIInv DEF Idle
    <2>4. CASE Callback
      BY <2>4, AroundIInv DEF Callback
    <2>5. CASE Shutdown
      BY <2>5, ShutdownIInv
    <2>6. CASE Environment
      BY <2>6, AroundIInv, QuitIInv DEF Environment
    <2>7. CASE Done \/ UNCHANGED vars
      BY <2>7, StutterIInv DEF Done
    <2> QED BY <2>1, <2>2, <2>3, <2>4, <2>5, <2>6, <2>7 DEF Next
  <1> QED BY <1>1, InitIInv, PTL DEF Spec

-----------------------------------------------------------------------------
(* What follows from it.                                                   *)

(* Every variable of run_ultra_direct and of the device keeps its type. *)
THEOREM TypeCorrect == Spec => []TypeOK
  <1>1. IInv => TypeOK
    BY DEF IInv
  <1> QED BY <1>1, Inductive, PTL

(* "AVH owns the shared VProcSS and HDMI timing for now": on HDMI no       *)
(* report, hotplug or failing device takes the output from a selected AVH. *)
(* On SDI this is false, see the run ultra_sdi_contract. *)
THEOREM AvhOwnsOutputOnHdmi == ~Sdi /\ Spec => []AvhOwnsOutput
  <1>1. ASSUME ~Sdi PROVE IInv => AvhOwnsOutput
    BY <1>1 DEF IInv, OwnerInv, AvhOwnsOutput
  <1>2. ASSUME ~Sdi PROVE Spec => []AvhOwnsOutput
    BY <1>1, <1>2, Inductive, PTL
  <1> QED BY <1>2

(* Every path out of a promotion and every return leaves nothing of AVH.   *)
THEOREM NothingLeftHolds == Spec => []NothingLeftOfAvh
  <1>1. IInv => NothingLeftOfAvh
    BY DEF IInv, PlaceInv
  <1> QED BY <1>1, Inductive, PTL

(* overlay_active describes the device through every failed call, and only *)
(* a resync that failed for good leaves the Dante output dark. *)
THEOREM StatusTruthHolds == Spec => []StatusTruth
  <1>1. IInv => StatusTruth
    BY DEF IInv, OutputInv
  <1> QED BY <1>1, Inductive, PTL

(* dau_set_video_format answers success for a locked stream only when AVH  *)
(* has the output, when the Dante source is on it, or, on DUMMY, when the  *)
(* device gave no plane buffer; and while the answer stands the Dante      *)
(* source shows the reported colour in the reported or the fixed size,     *)
(* also after a return from AVH. *)
THEOREM TruthfulReplyHolds == Spec => []TruthfulReply
  <1>1. IInv => TruthfulReply
    BY DEF IInv, ReplyInv
  <1> QED BY <1>1, Inductive, PTL

(* The FPGA embedder is only on with the Dante source, whatever ALSA call  *)
(* fails. *)
THEOREM EmbedderHolds == Spec => []EmbedderOnlyWithDante
  <1>1. IInv => EmbedderOnlyWithDante
    BY DEF IInv, OutputInv
  <1> QED BY <1>1, Inductive, PTL

(* display_lock keeps the sink alive for the callback that pushes into it. *)
THEOREM PushesLiveSinkHolds == Spec => []PushesLiveSink
  <1>1. IInv => PushesLiveSink
    BY DEF IInv, PushInv, PushesLiveSink
  <1> QED BY <1>1, Inductive, PTL

(* "Never change the FPGA audio source while its embedder is enabled":     *)
(* select_hdmi_audio_route turns the embedder off first, and gives up when *)
(* it cannot. *)
THEOREM RouteQuietHolds == Spec => RouteQuiet
  <1> DEFINE Quiet == route' # route => ~out'.embedder
  <1>1. IInv /\ [Next]_vars => [Quiet]_vars
    <2> SUFFICES ASSUME IInv, Next, route' # route PROVE ~out'.embedder
      BY DEF vars
    <2>1. Promote \/ AvhAudio \/ GiveUp \/ LeaveDone
      BY DEF Next, Arbitrate, Handle, Idle, Callback, Environment, Done, vars,
             NoticeFlow, NoFlow, KeepSource, StartSink, LeaveAvh, LeaveSink,
             Restore, RejectFormat, AcceptFormat, SetVideoFormat, Hotplug,
             Unplug, ResyncRequested, PollDone, NoHotplug, ResyncIdle,
             ShowFrame, FramePushed, Shutdown, FlowCreated, FlowDeleted,
             CountFrame, Cable, Quit
    <2>2. CASE Promote
      <3>1. PICK m \in Dummy(out) : \E d \in StartDrm(m.out, route, avh) :
              out' = d.out /\ route' = d.route
        BY <2>2 DEF Promote
      <3>2. m.out \in OutType
        BY IInvFacts, DummyIsNoNewDante DEF NoNewDante
      <3> QED BY <3>1, <3>2, IInvFacts, StartDrmFacts
    <2>3. CASE AvhAudio
      BY <2>3, IInvFacts, StartAudioFacts DEF AvhAudio
    <2>4. CASE GiveUp
      BY <2>4, IInvFacts, StopDrmFacts, SelectRouteFacts DEF GiveUp
    <2>5. CASE LeaveDone
      <3> DEFINE a == [avh EXCEPT !.pcm = FALSE]
      <3>1. a \in AvhType
        BY IInvFacts DEF AvhType
      <3>2. \E d \in StopDrm(out, a) : \E s \in SelectRoute(d.out, route, 1) :
              out' = s.out /\ route' = s.route
        BY <2>5 DEF LeaveDone
      <3> HIDE DEF a
      <3> QED BY <3>1, <3>2, IInvFacts, StopDrmFacts, SelectRouteFacts
    <2> QED BY <2>1, <2>2, <2>3, <2>4, <2>5
  <1>2. RouteQuiet <=> [][Quiet]_vars
    BY DEF RouteQuiet
  <1> QED BY <1>1, <1>2, Inductive, PTL DEF Spec
=============================================================================
