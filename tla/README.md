# Verification of the SC6F0 Dante receiver and its tools

This directory holds TLA+ models of the SC6F0 Dante AV receiver
(`src/src/tests/sc6f0-dante-rx.cpp`, with `sc6f0-pcm-write-queue.h` and
`sc6f0-sdi-resync-policy.h` beside it), of the test kit and the programs built
on it (`src/src/zzlab/testkit.h`, `src/src/utils/`), and of the tools
(`src/tools/`); the TLC configurations that check them; and TLAPS proofs about
all eight of them. Every safety property that a passing run checks is also
proved, for every value of the constants; liveness stays with TLC.
`PROJECT.json` lists the components, the runs, the definitions with the lines
they model, the hazards, the findings and the theorems.

    tlc -workers 2 -config Rx.cfg MCRxDecoder        # one run
    tlapm PcmQueueProofs.tla                         # the proofs of a module

## 1. The system

The repository is a collection of demonstration programs and test tools for
the QCAP capture library on Yuan hardware. The library itself is not here. Three
parts carry logic of their own: the Dante receiver, which runs for days on an
embedded board and shares one video output between two sources; the test kit,
which every demonstration uses to start its objects and to undo them; and the
tools, which measure and must report what really happened.

### 1.1 Components, state and operations

| Component | State | Operations |
|---|---|---|
| PCM playback queue | `audio_pending_frame`, `audio_short_tail`, `audio_pcm_started`, counters; all under `audio_lock` | `rx_audio_playback`, `sc6f0_pcm::drain`, `start_hdmi_audio_sink`, `stop_hdmi_audio_sink` |
| Asynchronous decoder | `vdec`, `vdec_started`, `vdec_event`, `vdec_event_handlers`, `decoder_initializing`, `decoder_wait_for_idr`, `extra_data` and the size; `decoder_lock`, `decoder_output_lock`, `h264_parser_lock` | `rx_video_arrived`, `rx_video_feed_decoder`, `submit_vdec_packet`, `SetupVdecAsync`, `StopVdecAsync`, `OnVdecEvent`, the caps hook, `stop_vdec_display`, `stop_dante_rx`, the RTSP caps event |
| SDI resync watchdog | `Policy` (times, samples, ring of attempts, `failed`), the CRTC property ACTIVE | `Policy::observe`, `poll_sdi_resync`, `reinitialize_sdi_output` |
| Ultra output and AUTO arbitration | `modeset_active`, `overlay_active`, current and last locked format, `auto_avh_active`, `pending`, `retry_blocked`, the DRM state, audio route and embedder | the loop of `run_ultra_direct`, `apply_drm_modeset`, `restore_ultra_output`, `dau_set_video_format`, the hotplug handler, the promotion to AVH and the return |
| Bus worker | number of AVH flows, decoded frames | FLOW_CREATED, FLOW_DELETED, statistics |
| RTSP client | connection, element pipeline, announced caps | connect, caps event, reconnect with back-off |
| Test kit | `_FreeStack_main_`, `_FreeStack_evt_`, the handlers' thread, standard input | `free_stack_t`, `TestCase`, `StartEventHandlers`, `NewEvent`, `AddEventHandler`, `AddTimerHandler`, the constructors of buffers and sinks, `wait_for_test_finish` |
| Dante box, QCAP demo | menu, `TEST_CASE`, module list | `Run`, `DoWork`, `OnStart`, `StartTimer`, `OnTimer`, `OnExitEventHandlers` |
| Tick statistics | previous sample, deadline, totals, `g_stop` | arguments, directory search, `read_sample`, `sleep_until`, `CounterStats::add` |
| UDP link test | sent and failed datagrams; received, lost, dup, late, longest gap | `run_tx`, `run_rx` |
| Push buttons | kernel event queue, `press_times`, `g_running` | detect, open, `get_states`, `read_event`, close, the loop of the monitor |
| Mode selection | none (pure functions of the mode list) | `find_matching_mode`, EDID candidates, scaler rectangle |
| Transmitter (`sc6f0-dante-tx.cpp`) | capture, encoder, DAU source service, bus worker | start, stop, format changes |
| Other demos, diagnostics, build files | — | see `PROJECT.json` |

### 1.2 How the components meet

* Access units arrive on library threads (Dante or RTSP). They feed the
  decoder under `decoder_lock`. When there is no decoder, an IDR with known
  parameter sets spawns a thread that opens the display and then the decoder.
* The decoder signals an event; the event-handler thread drains frames and
  pushes each one into the DRM sink under `display_lock`. On HDMI it takes
  `decoder_lock` to pop, on SDI `decoder_output_lock`.
* In auto mode the bus worker counts flows and the loop of `run_ultra_direct`
  reads the count. When decoded frames follow, the loop takes the output away
  from the Ultra path and gives it to the decoder, and returns it when the
  flow is gone. The same loop answers DAU, follows the cable, and polls the
  resync watchdog.
* The audio sink is started and stopped by the loop; decoded audio periods
  arrive on another thread. Both hold `audio_lock`.
* A program of the test kit has a main thread, which watches standard input,
  and a handlers' thread, which runs `OnStart`, timers, events and
  `OnExitEventHandlers`. Each thread fills and flushes a free stack of its own;
  the handlers themselves are an entry of the main thread's stack.
* `sc6f0-dante-box` and `zdev-ticks-stat` read the same tick counters.
* The two ends of `udptest` meet only in the sequence numbers of datagrams; the
  button library meets the keys only in the queue of the kernel.

### 1.3 What is hard

Threads that join one another while they hold a mutex; a decoder torn down
while its callback is on its way; several frames per event; parameter sets
read without a lock; a flow that goes away halfway through a promotion;
modesets, audio controls and rollbacks any of which can fail; a device that
takes half of a write; a watchdog fed by a loop that can be late. In the test
kit: a start-up that fails anywhere, on one of two threads, while a timer
fires; input that ends. In the tools: counters and sequence numbers that wrap,
a process delayed between two clock readings, datagrams lost, repeated and
overtaken, keys that change while their states are read. `PROJECT.json` lists
each hazard at its line with the properties that cover it.

## 2. Modules and the code

| Module | Models | Used by |
|---|---|---|
| `PcmQueue` | playback queue and sink | `MCPcmQueue`, `PcmQueueProofs` |
| `RxDecoder` | decoder, its threads and its locks, RTSP caps | `MCRxDecoder`, `RxDecoderProofs` |
| `SdiResync` | resync policy and the commits it asks for | `MCSdiResync`, `SdiResyncProofs` |
| `UltraOutput` | output arbitration | `MCUltraOutput`, `UltraOutputProofs` |
| `TestKit` | constructors and start-up code as sequences of calls | `TestCase` |
| `ReleaseOrder` | abstract specification: one release stack | `TestCase` |
| `TestCase` | a program of the test kit, both its threads and its input | `MCTestCase`, `TestCaseProofs` |
| `TickStat` | tick monitor, and the subtraction of `sc6f0-dante-box` | `MCTickStat`, `TickStatProofs` |
| `UdpTest` | both ends of `udptest` and the wire | `MCUdpTest`, `UdpTestProofs` |
| `Buttons` | kernel queue, button library and monitor | `MCButtons`, `ButtonsProofs` |
| the eight `...Proofs` modules | theorems about the module they are named after | tlapm |

The constants get their values in the `.cfg` files; `MCTestCase` adds the
programs. A definition whose name starts with `M_` is a deliberately wrong
variant of the definition that follows it; no specification uses it. It records
which plausible slip each property would catch.

### 2.1 PcmQueue

A frame is the number of its arrival, so a frame that is lost, repeated or out
of place shows. One call of `rx_audio_playback` is `Feed` (append and cut the
overflow) or `RejectPeriod`, then one step per `snd_pcm_writei` of the drain
loop (`WriteAccepts`, `WriteBackpressure`, `WriteFails`), then `EndDrain`.
`audio_lock` is held for the whole call: `StartSink` and `StopSink` wait for
`draining` to be false. The device takes any number of frames it was asked to
take, refuses, underruns, or fails, at every write. The code adds the
statistics of a call to the atomic counters when the call ends; the model
counts at each write, which no thread can tell apart under `audio_lock` except
in a log line.

### 2.2 RxDecoder

`pc` says where each thread is; `lock` who holds each mutex. A critical section
that cannot wait inside is one step. The ones that can wait (a push, a join,
the setup) keep the lock between two steps, so every interleaving with them is
explored. Parameter sets with their size and rate are a number, 0 for none; an
access unit is an IDR or not. Inside the decoder there are two counters with
the capacities `InCap` and `OutCap`. The drain loop ends on any pop without a
frame: `CallbackReturns` when the decoder has none, `CallbackPopFails` when the
pop fails (`decoded_errors`) with frames still queued, at any time. `failedPop`
remembers that until the next event wakes the callback. `build` is the receiver, chosen in the initial
state: the SDI or HDMI product or the RTSP client. `Early` says in which of them
`decoder_start` may signal the event and then fail.

### 2.3 SdiResync

`Policy::observe` is split by its outcome: `ObserveQuiet`, `ObserveSuspect`,
`ObserveRequests`. What it computes at one time are operators
(`CountedSamples`, `SuspectSince`, `Debounced`, `Recent`). The ring
`attempts_ms` is kept as the code keeps it. A request runs
`reinitialize_sdi_output` commit by commit (`Guard`, `Test`, `CommitOff`,
`CommitOn`, `Rollback`), each of which succeeds or fails. `Tick` lets time
pass anywhere, also between two commits. `log` and `hist` are history.

### 2.4 UltraOutput

`out` is the device (CRTC, source, format, embedder) with the flags the context
keeps of it, so that a property can compare the two. A format is a size and a
colour, because the code takes them from different places (`UltraFormat`): the
colour is always the reported one, the size is the fixed one where there is a
fixed mode (`Fixed`) and the start-up one until a stream was reported.
`out.bare` records that no buffer could be made for the plane, so that
`apply_drm_modeset` went to DUMMY and returned success; `told` is history: what
had the output when a report was answered with success. Calls to the device are
operators that return the set of possible results (`EmbedderOff`,
`SelectRoute`, `Modeset`, `StartDrm`, ...), and an action picks one. The
calls of one handler that only the loop can observe are one step. What another
thread can see in between (the sink, the display flag, the flow count) is a
step of its own: the promotion is `Promote`, `StartSink`, `AvhAudio` or
`GiveUp`, the return is `LeaveAvh`, `LeaveSink`, `LeaveDone`, `Restore`.

Decisions worth knowing:

* Start-up until the loop is the initial condition.
* The test of `decoder_initializing` is part of `fresh`: frames are decoded
  only when the decoder is open, and in auto mode an open decoder stays open,
  so the initialization thread never touches the display beside the loop.
* A resync request is a free choice here; when it may come is `SdiResync`.
* The flow count is read where the code reads it. A flow removed and replaced
  between two readings is not noticed, in the model as in the code.

### 2.5 TestKit, TestCase and ReleaseOrder

Every constructor of `testkit.h` has one shape: make something, push its release
on the caller's free stack, leave at the first failure. So `TestKit` writes each
one as a sequence of calls, a call being what it makes, what it needs, whether
it may fail and whether the code looks at the result. `DanteBox` and `QDemo` are
the two programs of `src/utils`, call by call. The constructors they do not use
are put in place of `OnStart`, where `demo-template.cpp` leaves room for them.

`TestCase` runs such a program: modules, `TEST_CASE`, the menu, `DoWork` on the
main thread, `OnStart` on the handlers' thread, the wait, the guard that flushes
the handlers' stack on its own thread, the flush of the main stack. Any call
that may fail does so at any step. `qcap2_event_handlers_invoke` is external: it
runs a function on the handlers' thread and waits for it. Standard input has two
parts, what the kernel holds and what `getchar()` read ahead, because `select()`
sees only the first.

`ReleaseOrder` is the promise: one stack, undone youngest first, each once, to
the end, and nothing made once undoing has begun. `TestCase` implements it under
the mapping `held <- main \o evt`, `closing <- pc \in {"leave", "flush"}`.

### 2.6 TickStat

Time and ticks advance at any point (`Elapse`), between the two clock readings
of a sample too. The counter is kept modulo `Modulus`, the true count beside it
as history. The four counters are read alike, one stands for all. Deadlines
are sums modulo `Width` (`Sum`). A sleep ends at its deadline (`Wake`), by a
signal (`Interrupted`), or by any other error of `clock_nanosleep`
(`SleepFails`), which also ends the loop. The floating
point statistics (mean, deviation) are left out; the totals are exact numbers.
`read_ticks` and `BoxDifference` are the other reading of the same registers, in
`OnTimer` of `sc6f0-dante-box`, through a signed `int`.

### 2.7 UdpTest

A datagram on the wire is its count at the sender; the receiver only looks at
the number, the count modulo `Modulus`. The wire loses, repeats and swaps. `Judge`
keeps the branch that counts late arrivals although the unsigned difference
never reaches it.

### 2.8 Buttons

The kernel's queue is external, modelled as the library relies on it: a key
change is two events, a full queue is replaced by SYN_DROPPED, EVIOCGKEY takes
the pending key events out. The library never sets `EVIOCSCLOCKID`, so events
carry `CLOCK_REALTIME`: `ClockStep` sets that clock forwards and backwards at
any time, and a stamp is the time that passed plus its offset. `Open` and `OpenFails` cover a node that is given, one
that is found by name and the fallback to `event0`. The loop of the monitor
keeps its press times; `states` is what someone who reads its output knows.

## 3. Runs

| Run | Distinct states | What it shows |
|---|---|---|
| `pcm_queue` | 98,424 | order, accounting and full drain of the queue; an overflow keeps the newest frames; `audio_lock` is always released |
| `rx` | 221,852 | SDI, HDMI and RTSP: no join under a needed lock, no use of a dead decoder, clean setup, stable configuration, no stranded frame but after a failed pop, announced caps in force; initialization, push and stop end |
| `sdi_resync` | 2,345,744 | rate limit, request exactly on evidence, failure is final and the only way to a dark output |
| `ultra_auto_hdmi` | 409,916 | one owner of the output, nothing left of AVH, truthful replies, no push into a deleted sink; AVH is tried and left |
| `ultra_auto_sdi` | 588,989 | flags describe the device, embedder only with Dante |
| `test_case` | 124,598 | nothing is used after its release, nothing is left, each stack is flushed by its thread; the wait survives the end of the input; the two stacks implement `ReleaseOrder`, with its liveness |
| `udp_link` | 670,107 | the receiver's totals add up to whole turns of the sequence number, and are exact while nothing is reordered and no gap is longer than a turn |
| `tick_stat` | 5,710,941 | every sample advances, late samples do not bunch, totals are true across wraps, the run ends with the samples asked for, the signal or a failed sleep |
| `buttons` | 1,277,512 | initial states and events together are the states of the keys, hold times run from stamp of press to stamp of release, the queue is read |

Three more runs end in a violation; section 5 explains them.

### 3.1 Bounds

* `PcmQueue.cfg`: chunk 2, queue 4, two attempts, periods of up to 5 frames.
  The relation the code's numbers have (960, 7680 = 8 chunks, 16 attempts) is
  kept: a queue holds several chunks, a period can overflow it at once, and a
  full queue fits into one drain. `FedBound` 9 and `CallBound` 4 are enough for
  a partial write, an overflow, a failed recovery and a restart in one
  behaviour. The theorems remove the bounds on the sizes.
* `Rx.cfg`: two feeders (the library delivers on one thread per stream, two
  expose races between deliveries), two parameter sets (an old and a new one),
  capacities 1 and 2, which makes both full queues and shared events happen.
  Nothing else bounds the run: the state space is finite and complete. The
  theorems allow any number of feeders and any capacities.
* `SdiResync.cfg`: the times are scaled down with their order kept (sample <
  cooldown + debounce < window); `MaxDelay` 7 exceeds the lateness at which
  the policy discards evidence (3 samples), the cooldown and the debounce;
  `TimeBound` 30 leaves room for a third request after a window of 18. The
  theorems hold for all times in the relation `EvidenceAssumption` states, the
  code's among them.
* `UltraOutput`: two sizes, so that a report can differ from the fixed or
  start-up one. On SDI two colours, since the contract and the fast path look at
  them, and two flows; on HDMI, where the liveness is checked, one colour and one
  flow, which can be removed and replaced between two readings. The state space
  is finite and complete. The theorems allow any sizes and flows, both colours,
  and HDMI with a fixed mode.
* `TestCase.cfg`: both programs of `src/utils` and four start-up functions that
  between them use every constructor. Keys `q`, `1` and one that means nothing,
  two of them waiting, so that one is read ahead. Complete otherwise, with any
  number of test cases one after the other. The theorems allow every program
  whose calls fit together.
* `UdpLink.cfg`: four sequence numbers and seven datagrams, so that numbers wrap
  and a gap can exceed a turn; two on the wire are enough to swap; five arrivals.
  The theorems remove all of these.
* `TickStat.cfg`: a counter of four values, interval 2, three samples, time 11:
  room for delays of several intervals and for a whole turn between two samples.
  `Width` 14 is just above the largest deadline, the least that
  `DeadlineAssumption` allows. The theorems remove all of these.
* `Buttons.cfg`: a queue of five events, which two changes nearly fill and three
  overflow; five events; a wall clock with two offsets, set as long as an event
  can still be stamped. The theorems remove these too.

`CHECK_DEADLOCK FALSE` appears where a behaviour ends because a model bound is
used up: `PcmQueue.cfg`, `SdiResync.cfg`, `TickStat.cfg`, `UdpLink.cfg` and
`UdpLate.cfg`. In the other modules a stopped program is an explicit stuttering
action (`Stopped`, `Done`, `Exited`, `Closed`), and every other deadlock is an
error.

### 3.2 Fairness

* `PcmQueue`: weak fairness of the steps of a drain; `snd_pcm_writei` is
  nonblocking.
* `RxDecoder`: weak fairness of every thread that can run and of the decoder
  hardware. Arrivals, caps, failing pops and the order to stop are not fair. On
  SDI this ends every push as long as no pop fails. On HDMI and RTSP the callback
  needs the lock the push holds, so only the push timeout that
  `submit_vdec_packet` handles (`QCAP_RS_ERROR_TIMEOUT`) ends it, and `PushFailed`
  is weakly fair. On SDI it is so only after a failed pop, which can leave a full
  decoder that nobody drains.
* `UltraOutput`: weak fairness of the loop, which never waits longer than its
  poll, and of the callback. DAU, the cable, flows and the order to quit are
  not fair.
* `TestCase`: weak fairness of both threads; strong fairness of the two
  invocations and of stopping the handlers, because the handlers' thread takes
  them in turn with its timer, which fires once a second and does not wait. Keys
  and the end of the input are not fair.
* `Buttons`: weak fairness of the monitor. Keys and signals are not fair.
* `TickStat` and `UdpTest` claim no liveness.

## 4. Proofs

### 4.1 The playback queue

`PcmQueueProofs` proves for every value of the constants allowed by
`PcmAssumption`:

* `Inductive`: `Spec => []IInv`;
* `TypeCorrect`: the type invariant;
* `InOrderOnceHolds`, `AccountingHolds`, `FullDrainHolds`: the invariants
  `InOrderOnce`, `EveryFrameAccounted` and `FullDrain` of `pcm_queue`;
* `OverflowKeepsNewestHolds`: the action property `OverflowKeepsNewest`; only
  the step that feeds a period can drop frames, and it cuts the queue to size;
* `BoundHolds`: `BoundedQueue`, which the run leaves to the theorem.

`PcmAssumption` says that a chunk is positive and fits into the queue and that
`MaxFrames < (MaxAttempts + 1) * Chunk`. The code's 7680 < 17 * 960 satisfies
it. The last inequality is what `FullDrain` needs: with fewer attempts a
cooperative device would be left with whole chunks after a call.

`IInv` is the conjunction of the type invariant, `InOrderOnce`,
`EveryFrameAccounted`, `BoundedQueue`, `FullDrain` and `DrainProgress`. The first
four are inductive together: order needs accounting (the queue ends at frame
`fed`), accounting needs the types. `FullDrain` is not inductive, since it
speaks of the end of a loop. `DrainProgress` is its loop invariant: while the
device has refused nothing in this call, the frames still queued and the chunks
already written fit into `MaxFrames`, or the queue is empty. When the attempts
run out, the assumption leaves less than a chunk. The proof has one lemma per
action (`FeedIInv`, `AcceptIInv`, ...), with lemmas about the sequence helpers
(`EraseFrontFacts`, `AppendedFacts`, `BumpFacts`) below them.

### 4.2 The output arbitration

`UltraOutputProofs` proves, for both products, every mode and audio option, any
set of sizes, any number of flows, and a device that fails or not
(`UltraAssumption` only says that auto mode forces the Dante source, that SDI
fixes the mode and that the mode of the start is one of the sizes, as the option
parser does):

* `Inductive`: `Spec => []IInv`;
* `TypeCorrect`: the type invariant;
* `NothingLeftHolds`, `StatusTruthHolds`, `TruthfulReplyHolds`, `EmbedderHolds`,
  `PushesLiveSinkHolds`: the invariants of the runs;
* `AvhOwnsOutputOnHdmi`: `AvhOwnsOutput` when the product is not SDI, where the
  run `ultra_sdi_contract` refutes it;
* `RouteQuietHolds`: the action property `RouteQuiet`.

None of the invariants is inductive alone. `IInv` adds:

* `OutputInv`: AVH holds the DRM handle only while the Dante source is off
  (without it the unchecked commit of `stop_drm_output` could darken a Dante
  output), and on SDI the Dante source is only shown in the contract format
  (without it the fast path could answer for another one);
* `PushInv`: the callback pushes under `display_lock`;
* `PlaceInv`: what AVH holds at each place of a promotion and of a return;
* `OwnerInv`: a selected AVH holds every part, so that `dau_set_video_format` may
  answer success without a modeset;
* `ReplyInv`: the format remembered for the return is the one answered.

`TruthfulReply` has two halves. A success to a locked stream was given only
while AVH had the output, with the Dante source on it, or when the device gave
no buffer for the plane, the one case in which the code answers success on
DUMMY. And as long as that success is the latest answer, whatever the Dante
source shows is the reported colour in the reported size, or in the fixed one.

The proof first states what each device call may do (`EmbedderOffFacts` to
`StopDrmFacts`), then that a step which shows no new Dante stream
(`NoNewDante`) keeps outputs and replies sound, then has one lemma per action.
With these theorems the small sets of sizes and flows in the runs are no
restriction for the safety properties, and the non-forced ultra-direct mode,
which no run has, is covered as well.

### 4.3 The tick monitor

`TickStatProofs` proves for every number of samples, every even counter width,
any directories (`TickAssumption`), and every interval and time whose sum fits
into the `uint64_t` of a deadline (`DeadlineAssumption`; the program accepts
longer intervals, see section 5):

* `Inductive`, `TypeCorrect`: `Spec => []IInv`, `Spec => []TypeOK`;
* `SampleAdvancesHolds`, `NoBurstHolds`, `EndsInTimeHolds`, `TotalsAreTrueHolds`:
  the properties of `tick_stat`;
* `BoxDifferenceHolds`: what the signed subtraction of `sc6f0-dante-box` gives.

None of them is inductive alone. By `DeadlineAssumption` a deadline is the plain
sum (`SumExact`). `IInv` adds to the types

* `Progress`: which samples exist at each place of the program;
* `Paced`: the deadline lies after the previous sample, more than an interval
  after the one before it, and the clock readings of a sample come at or after
  the deadline. `SampleAdvances` follows because a midpoint is not before its
  first reading, `NoBurst` because a late sample restarts the cadence;
* `Ends`: the loop is not entered again after the signal or with all samples.

`Counted` is a second layer: the values read are the true counts modulo the
width. `TotalsAreTrue` then rests on facts about remainders that the provers do
not have, proved first (`SmallMultiple`, `Remainder`, `DeltaTurns`, `TurnsAdd`):
the difference of two readings brought back to the width is the ticks between
them up to whole turns, and exact below one turn.

### 4.4 The decoder

`RxDecoderProofs` proves for any number of delivering threads, any parameter
sets, decoder queues of any length, with and without a display, and for all
three receivers (`RxAssumption`):

* `Inductive`, `TypeCorrect`;
* `UsesLiveDecoderHolds`, `SetupStartsCleanHolds`, `NoStrandedFrameHolds`,
  `RtspCapsInForceHolds`: the invariants of `rx`;
* `JoinHoldsNoNeededLockHolds`: `JoinHoldsNoNeededLock` when
  `Early \subseteq {"sdi"}`, that is when only the SDI library may signal in a
  `decoder_start` that then fails. The condition is needed: `rx_hdmi_join` drops
  it and finds the deadlock. The other theorems do not need it;
* `ConfigStableHolds`: the action property `ConfigStable`.

The argument is about who has the decoder to himself. `PlaceInv` says where each
thread can be, `LockInv` which places hold `decoder_lock` and
`decoder_output_lock`, `OpeningInv` what exists at each stage of the opening,
`TeardownInv` what a teardown has undone, `CapsInv` which caps are in force in
decoder and display, `FrameInv` that decoded frames have an event or a running
callback, unless the latest drain ended with a failed pop. `UsesLiveDecoder` alone says nothing of the thread that is about to
delete the decoder; with `LockInv` and `TeardownInv` that thread is past every
push and every callback. `ConfigStable` follows because the stored caps change at
two places only, the parser's hook and the end of an RTSP caps event. Both refuse
them while a decoder is live or `decoder_initializing` is set, and by `OpeningInv`
there is then neither a half-made decoder nor an initialization thread.

### 4.5 The resync watchdog

`SdiResyncProofs` proves for all times, sample counts and attempt limits, any
delay of the loop and any register:

* `Inductive`, `TypeCorrect`;
* `RateLimitedHolds`, `DarkOnlyWhenDisabledHolds`: the invariants;
* `FailureIsFinalHolds`, `RequestIffEvidenceHolds`: the action properties.

`ResyncAssumption` gives the types. `EvidenceAssumption` says that `MinSamples`
samples span at least the debounce time and that there is a cooldown; the code
has 2000 <= 4 * 500 and 5000 > 0. Without the first part a run longer than
`MinSamples` samples could be needed, and the last `MinSamples` would not decide;
without the second the sample that led to a request would count again.

`RingInv` relates the ring `attempts_ms` to the history of all requests: the
latest `MaxAttempts` of them are in their slots, in order. The slot a new request
overwrites is then the one `MaxAttempts` before it, which is what `RateLimited`
compares. `HistInv` relates the two numbers the policy keeps (`samples`,
`suspect_ms`) to the history of samples: `Spaced` (samples are a period apart),
`Run` (the last `samples` of them are evidence without a gap, and the one before
ends the run) and `Began`. `RequestIffEvidence` is an equivalence, so `Run` has to
say both that the run is evidence and that it cannot be longer.

### 4.6 The test kit

`TestCaseProofs` proves for every set of programs that satisfies
`ProgramsAssumption`, any keys, and a failure of any call of start-up:

* `TypeCorrect`, whichever invocation fails;
* `Inductive`, `UsesLiveHolds`, `NothingLeftHolds`, `FlushedByOwnerHolds`: the
  invariants of `test_case`;
* `ReleasesInOrder`: `Spec => Abstract!Spec`, the safety part of
  `ImplementsReleaseOrder`. Every step of the two threads is a step of the one
  stack of `ReleaseOrder` or leaves it alone.

All but the first are under `MayFail \subseteq {"start"}`: the invocation of
`OnExitEventHandlers`, whose result the code ignores, succeeds (section 5).
`ProgramsAssumption` says that a program is well formed: a call whose result is
looked at uses only what such calls before it made, no two calls make the same
thing, and only the handlers' thread registers with the handlers. TLC evaluates
it for both programs of `src/utils` and for the start-up functions of the run.

`StackInv` is the heart of `IInv`. With the two stacks read as one (`Held`),
nothing on it refers to what lies above it, everything alive is on it, and what
was looked at is alive with all that it refers to; so taking away the top leaves
no reference behind. `MadeInv` says that start-up has made what its recipe says
up to its position, which is why the next call finds what it uses. `RunningInv`
and `PlaceInv` keep the handlers' thread alive as long as its stack is not empty.

### 4.7 The UDP link test

`UdpTestProofs` proves for every width of the sequence numbers, any stream and
any wire: `Inductive`, `TypeCorrect`, `AddsUpHolds` and `ReportIsTrueHolds`, the
two invariants of `udp_link`. `AddsUp` is inductive with `CountInv` (the receiver's
`prevSeq` is the number of the latest arrival); it needs that the unsigned
difference is the true distance up to whole turns (`DeltaTurns`, from
`SmallMultiple`, `Multiple` and `AddMultiple`). `ReportIsTrue` needs `InOrder`
besides: as long as nothing was overtaken, all arrivals lie between the first
and the latest. Two lemmas about sets then carry the step: `MissingGrows` (what
is missing grows by the gap, counted) and `GapGrows` (the longest gap is the
maximum of the old one and the new one).

### 4.8 The buttons

`ButtonsProofs` proves for any keys and a kernel queue of any size: `Inductive`,
`TypeCorrect`, `StatesAreTrueHolds` and `HeldIsTrueHolds`, the invariants of
`buttons`. Both speak of what the monitor will know when it has read the queue, so
the invariant describes the queue: `SaidInv` says that the states and the queued
events together give the keys that are down, `PressInv` that every queued release
carries the press time the monitor will have by then, and that a key held down
will find it so when it is released. Both are about stamps, so no step of the
wall clock disturbs them. `DropInv` says that `SYN_DROPPED` is queued
only after a loss; nothing is claimed after one.

### 4.9 Only model-checked

* Liveness: `AudioLockReleased`, `InitEnds`, `PushReleased`, `StopEnds`,
  `TriesAvh`, `ReturnsToUltra`, `EofKeepsTicking`, `QueueIsRead`, and the
  fairness of `ReleaseOrder` in `ImplementsReleaseOrder`. The prover does not
  reason about fairness and `ENABLED`.
* `LateIsCounted`, which `udp_late` refutes. The two other properties that a
  run refutes are proved under the condition that the run drops (sections 4.2
  and 4.4).

The type invariants are proved and not part of a run.

## 5. Findings

Each of these runs checks what a comment or header of the source says and
ends in a counterexample. `PROJECT.json` quotes the lines.

| Run | What the code does |
|---|---|
| `rx_hdmi_join` | A failed `decoder_start` joins the callback with `decoder_lock` held. On HDMI the callback takes `decoder_lock`: if the event was signalled before the failure, both wait for ever. This is why the run `rx` allows the early signal only on SDI. |
| `ultra_sdi_contract` | On SDI a locked report outside the contract puts the output on DUMMY before it is checked whether AVH owns it. |
| `udp_late` | The difference of two sequence numbers is unsigned, so the branch that counts late arrivals is never taken. An overtaken datagram is added to `lost` as nearly 2^32, and `late` stays 0. |

`rx_hdmi_join` assumes that the external decoder may signal and then fail; the
source expects the early signal ("The event callback may start before
decoder_start returns") and handles the failure, but whether one call can do
both depends on the library. The other two need no device failure at all.

The models also show the following, which a maintainer should know of and which
has no run of its own. Most of it breaks no promise the repository writes down;
where a comment or header says otherwise, the entry says so.

* The IDR gate opens before the IDR is submitted (line 1818 of the receiver):
  when that submission fails, the decoder first gets a delta frame, which the
  gate is there to prevent.
* A decoder that fails to open leaves the display set for its caps; on the Dante
  path the next one keeps it (line 1313), although the timing is meant to follow
  the source format. The RTSP path rebuilds it.
* A pop that fails with frames in the decoder ends the drain (line 1099 of the
  receiver), and the event that announced them is used up. They wait for the
  event of the next decoded frame; when the output queue is full none is decoded,
  and they stay, with pushes ending only by their timeout, until the decoder is
  torn down.
* When no buffer can be made for the plane, `apply_drm_modeset` goes to DUMMY
  and succeeds (line 3037), so a locked stream is answered with success (line
  3344) although it is not shown.
* While the cable is out every modeset is refused, DUMMY included (line 2959). A
  stream that unlocks meanwhile is still selected when the cable is back.
* After a resync whose rollback failed the flags still say that the output runs,
  so on SDI a locked report is answered by the path that preserves a running
  stream (line 3325). `StatusTruth` admits exactly this dark output and no other.
* The result of `OnExitEventHandlers` is ignored (`testkit.h`, line 756). If the
  invocation were refused, the handlers' stack would be left full while the main
  stack is flushed; `test_case` therefore lets only the first invocation fail.
* The menus spin at the end of the input (`sc6f0-dante-box.cpp`, line 82); the
  wait of a test case does not. Keys typed together wait in the buffer of
  `getchar()`, where `select()` does not see them, for the next key.
* A flow that is removed and replaced within one turn of the loop (line 3634 of
  the receiver) is not seen to go away: a blocked retry stays blocked. On the way
  back the result of `select_hdmi_audio_route(1)` is ignored (line 3658).
* `sc6f0-dante-box` subtracts signed readings (line 286): passing 2^31 gives a
  negative rate for one report.
* An error of `clock_nanosleep` that is no signal (`zdev-ticks-stat.cpp`, line
  205) ends the loop: the statistics of fewer samples than were asked for are
  printed and the exit status is 0.
* Intervals up to 2^64 ns are accepted (line 238 of the same file). When the
  interval and the clock together exceed that, the deadline (line 266) wraps, is
  already over, and the samples are not paced.
* The hold times of the button monitor (`sc6f0_button_demo.c`, line 66) are
  differences of `CLOCK_REALTIME`: they are wrong when that clock is set between
  press and release, and nearly 2^64 when it was set back.
* `sc6f0_button_read_event` (line 130) returns 0, which the header (line 68)
  reserves for a timeout, also when it was asked to block and only other events
  were queued; and it passes over SYN_DROPPED, so states and hold times stay wrong after an
  overflow. `StatesAreTrue` and `HeldIsTrue` hold as long as nothing was dropped.

## 6. Not modelled

* The QCAP, Dante, ALSA and DRM libraries and the kernel. They appear as
  nondeterministic results of the calls the source makes.
* The DAU queries that answer from constants, and statistics, which only read.
* Bitstream parsing, EDID and sample conversion; floating-point statistics.
* The start-up of the receiver, the `--use-qcap` variant and the RTSP
  connection loop; the transmitter; the mode selection. These are planned
  (section 7).
* Most of `ZzUtils.h`: it declares classes whose bodies are not in the
  repository. The colour, string and log helpers are pure conversions.
* The other demonstration programs, diagnostics scripts and build files, which
  hold no state machine of their own; what the demonstrations share is
  `TestCase`.

## 7. Plan

In order of importance.

1. `DanteTx`: the transmitter's capture, encoder, DAU source service and bus
   worker; format changes against running encoders; teardown order.
2. `RxLifecycle`: partial failures of `start_dante_rx`; the RTSP connection loop
   with its back-off; the `--use-qcap` path.
3. `ModeSelection`: `find_matching_mode`, EDID candidates and the scaler
   rectangle as operators, checked against a reference over small mode lists.
4. `UltraResync`: `UltraOutput` composed with `SdiResync`, so that requests come
   from the policy.
