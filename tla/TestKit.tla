------------------------------- MODULE TestKit ------------------------------
(***************************************************************************)
(* The constructors of testkit.h and the start-up code of the two          *)
(* programs built on it, sc6f0-dante-box and qdemo, each as the sequence   *)
(* of calls it makes.  Every constructor has one shape: make something,    *)
(* push what undoes it on the free stack of the caller, go on; leave at    *)
(* the first call that fails, with what was pushed so far still on the     *)
(* stack.  A call is                                                       *)
(*   res     what it makes: a kind and a number, None for a query;         *)
(*   uses    what has to exist during the call, while res exists and when  *)
(*           res is undone;                                                *)
(*   fails   whether the call may fail;                                    *)
(*   tested  whether the code looks at the result.                         *)
(***************************************************************************)
EXTENDS Integers, Sequences

None == <<"none", 0>>

Make(r, uses) == [res |-> r, uses |-> uses, fails |-> FALSE, tested |-> TRUE]
Try(r, uses) == [res |-> r, uses |-> uses, fails |-> TRUE, tested |-> TRUE]
Query(uses) == Try(None, uses)
Ignored(r, uses) == [Try(r, uses) EXCEPT !.tested = FALSE]

Handlers == <<"handlers", 0>>
Running == <<"handlers running", 0>>

-----------------------------------------------------------------------------
(* Events, timers and the handlers of their thread. *)
StartEventHandlers == <<Make(Handlers, {}), Try(Running, {Handlers})>>

NewEvent(n) == <<Make(<<"event", n>>, {}),
                 Try(<<"event on", n>>, {<<"event", n>>})>>

(* The callback refers to what its function captured; the registration to  *)
(* the callback, to the handlers and to the native handle of the source.   *)
AddHandler(n, source, captured) ==
  <<Make(<<"callback", n>>, captured),
    Try(<<"registered", n>>, {<<"callback", n>>, source, Handlers, Running})>>

AddEventHandler(n, captured) ==
  <<Query({<<"event on", n>>})>> \o AddHandler(n, <<"event on", n>>, captured)

AddTimerHandler(n, captured) ==
  <<Query({<<"timer on", n>>})>> \o AddHandler(n, <<"timer on", n>>, captured)

-----------------------------------------------------------------------------
(* A reference counted frame and the memory behind it. *)
Frame(n, memory) == <<Make(<<"frame", n>>, {}),
                      Try(<<memory, n>>, {<<"frame", n>>})>>

new_video_sysbuf(n) == Frame(n, "pixels")
new_audio_sysbuf(n) == Frame(n, "samples")
new_qdmabuf(n) == Frame(n, "dmabuf")
new_video_nvbuf(n) == Frame(n, "nvbuf")
new_video_cudabuf(n) == Frame(n, "cuda")
new_video_cudabuf_host(n) == Frame(n, "cuda host")
new_video_cudabuf_managed(n) == Frame(n, "cuda managed")

(* One frame is made that nobody uses, the colour space is looked at, and  *)
(* the frame with the memory is the one new_qdmabuf makes.                 *)
new_video_qdmabuf(n) ==
  <<Make(<<"spare frame", n>>, {}), Query({})>> \o new_qdmabuf(n)

(* The sink draws into a window the caller owns. *)
StartVsink_ximage(n, window) ==
  <<Make(<<"sink", n>>, {}), Query({window}),
    Try(<<"sink on", n>>, {<<"sink", n>>, window})>>

-----------------------------------------------------------------------------
(* sc6f0-dante-box: OnStart with StartTimer, on the handlers' thread. *)
MaxTicks == 4

BoxStats == {<<"stats", i>> : i \in 1..MaxTicks} \cup {<<"all stats", 0>>}

StartTimer ==
  <<Make(<<"all stats", 0>>, {})>>
  \o [i \in 1..MaxTicks |-> Make(<<"stats", i>>, {<<"all stats", 0>>})]
  \o <<Make(<<"timer", 0>>, {}), Try(<<"timer on", 0>>, {<<"timer", 0>>})>>
  \o AddTimerHandler(0, {<<"timer", 0>>, <<"registers", 0>>} \cup BoxStats)

BoxOnStart == <<Make(<<"registers", 0>>, {})>> \o StartTimer

(* qdemo: no result is looked at, and every release is pushed. *)
QDemoDoWork ==
  <<Ignored(<<"device", 0>>, {}), Ignored(None, {<<"device", 0>>}),
    Ignored(None, {<<"device", 0>>}),
    Ignored(<<"device running", 0>>, {<<"device", 0>>})>>

(* A program: what it does on the main stack and on the handlers' stack,   *)
(* whether it has handlers, and whether its idle function may end it.      *)
Threaded(onStart, ends) == [main |-> StartEventHandlers, evt |-> onStart,
                            threaded |-> TRUE, idleEnds |-> ends]

DanteBox == Threaded(BoxOnStart, FALSE)
QDemo == [main |-> QDemoDoWork, evt |-> <<>>, threaded |-> FALSE,
          idleEnds |-> FALSE]

=============================================================================
