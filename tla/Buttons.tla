------------------------------- MODULE Buttons ------------------------------
(***************************************************************************)
(* The push-button library (sc6f0_button.c) and its monitor                *)
(* (sc6f0_button_demo.c) above the event queue the kernel keeps for an     *)
(* open input device.                                                      *)
(*                                                                         *)
(* External, as the library relies on it: a key change is queued as an     *)
(* EV_KEY and an EV_SYN event; a queue that is full is thrown away and     *)
(* SYN_DROPPED is put in its place; EVIOCGKEY reads the keys and takes the *)
(* EV_KEY events, and the reports this empties, out of the queue; read()   *)
(* of an empty queue is EAGAIN.  The library leaves the clock of the       *)
(* events as it finds it (no EVIOCSCLOCKID): they are stamped with the     *)
(* wall clock, which may be set forwards and backwards at any time.        *)
(***************************************************************************)
EXTENDS Integers, Sequences

CONSTANTS
  Codes,      (* key codes of the device, buttons and others               *)
  Nodes,      (* nodes of the input devices                                *)
  Cap,        (* events the kernel queues                                  *)
  Offsets,    (* what the wall clock may be ahead of the time that passed  *)
  MaxEvents   (* bound: key events                                         *)

Button0 == 256      (* SC6F0_KEY_CODE_BTN_0 *)
Count == 5          (* SC6F0_BTN_COUNT *)
Unknown == -1
Event0 == "event0"

ASSUME ButtonAssumption ==
  /\ Codes \subseteq Nat
  /\ "none" \notin Nodes
  /\ Cap \in Nat /\ Cap > 1
  /\ Offsets \subseteq Nat
  /\ MaxEvents \in Nat

VARIABLES
  down,       (* keys that are held down                                   *)
  since,      (* stamp of each key's press, 0 for before EVIOCGKEY         *)
  clock,      (* time of the latest event                                  *)
  offset,     (* what the wall clock is ahead of this time                 *)
  queue,      (* events the kernel holds for the reader                    *)
  dropped,    (* the kernel threw events away                              *)
  running,    (* g_running                                                 *)
  pc,         (* the monitor                                               *)
  pressTimes, (* press_times                                               *)
  printed,    (* the states were printed at the start                      *)
  states,     (* the buttons, from these states and the events             *)
  held        (* the hold time reported last and that of the stamps        *)

kernelVars == <<down, since, clock, offset, queue, dropped>>
demoVars == <<pressTimes, printed, states, held>>
vars == <<kernelVars, running, pc, demoVars>>

code_to_id(c) == IF c \in Button0..(Button0 + Count - 1)
                 THEN c - Button0 ELSE Unknown

ButtonCodes == {c \in Codes : code_to_id(c) # Unknown}
Ids == 0..(Count - 1)

Init ==
  /\ down \in SUBSET Codes
  /\ since = [c \in Codes |-> 0]
  /\ clock = 0 /\ offset \in Offsets /\ queue = <<>> /\ dropped = FALSE
  /\ running = TRUE /\ pc = "start"
  /\ pressTimes = [i \in Ids |-> 0]
  /\ printed = FALSE /\ states = {}
  /\ held = [reported |-> 0, true |-> 0]

-----------------------------------------------------------------------------
(* The kernel. *)
Syn == [type |-> "syn", code |-> 0, value |-> 0, time |-> 0, since |-> 0]
SynDropped == [Syn EXCEPT !.type = "dropped"]

Pass(q, e) == IF Len(q) < Cap THEN Append(q, e) ELSE <<SynDropped, e>>

(* The wall clock at the next event. *)
Stamp == clock + 1 + offset

Queued(c, value) ==
  LET e == [type |-> "key", code |-> c, value |-> value, time |-> Stamp,
            since |-> since[c]]
  IN /\ pc # "start"
     /\ clock < MaxEvents
     /\ clock' = clock + 1
     /\ queue' = Pass(Pass(queue, e), Syn)
     /\ dropped' = (dropped \/ Len(queue) + 2 > Cap)
     /\ UNCHANGED <<offset, running, pc, demoVars>>

KeyDown(c) ==
  /\ c \notin down
  /\ down' = down \cup {c}
  /\ since' = [since EXCEPT ![c] = Stamp]
  /\ Queued(c, 1)

KeyUp(c) ==
  /\ c \in down
  /\ down' = down \ {c}
  /\ since' = since
  /\ Queued(c, 0)

KeyRepeat(c) ==
  /\ c \in down
  /\ UNCHANGED <<down, since>>
  /\ Queued(c, 2)

(* The wall clock is set, at a time when it still stamps an event. *)
ClockStep ==
  /\ pc \notin {"start", "closed"}
  /\ clock < MaxEvents
  /\ offset' \in Offsets \ {offset}
  /\ UNCHANGED <<down, since, clock, queue, dropped, running, pc, demoVars>>

Signal ==
  /\ running
  /\ running' = FALSE
  /\ UNCHANGED <<kernelVars, pc, demoVars>>

-----------------------------------------------------------------------------
(* Opening the device.  names are the nodes whose device/name has          *)
(* "gpio-keys" in it, in the order readdir happens to give them; without   *)
(* one, event0 is taken if it can be read.  No node is -ENOENT.            *)
auto_detect_device(names, accessible) ==
  IF names # {} THEN names ELSE {Event0} \cap accessible

Targets(given, names, accessible) ==
  IF given \in Nodes THEN {given} ELSE auto_detect_device(names, accessible)

(* sc6f0_button_open, with a node or without one.  The kernel queues       *)
(* nothing for a device that is not open.                                  *)
Open(given) ==
  /\ pc = "start"
  /\ \E names, accessible \in SUBSET Nodes :
       Targets(given, names, accessible) \cap accessible # {}
  /\ pc' = "open"
  /\ UNCHANGED <<kernelVars, running, demoVars>>

OpenFails(given) ==
  /\ pc = "start"
  /\ \E names, accessible \in SUBSET Nodes :
       LET targets == Targets(given, names, accessible)
       IN targets = {} \/ ~(targets \subseteq accessible)
  /\ pc' = "closed"
  /\ UNCHANGED <<kernelVars, running, demoVars>>

(* What EVIOCGKEY leaves of the queue: SYN_DROPPED, of which there is one  *)
(* at most, since it takes the place of a whole queue.                     *)
Flushed(q) == IF \E i \in DOMAIN q : q[i].type = "dropped"
              THEN <<SynDropped>> ELSE <<>>

(* sc6f0_button_get_states, once, when the device is open. *)
GetStates ==
  /\ pc = "open"
  /\ states' = {code_to_id(c) : c \in down \cap ButtonCodes}
  /\ queue' = Flushed(queue)
  /\ printed' = TRUE
  /\ since' = [c \in Codes |-> 0]
  /\ pc' = "loop"
  /\ UNCHANGED <<down, clock, offset, dropped, running, pressTimes, held>>

(* The ioctl fails: the monitor goes on without the states. *)
GetStatesFails ==
  /\ pc = "open"
  /\ pc' = "loop"
  /\ UNCHANGED <<kernelVars, running, demoVars>>

(* Mutant: a stopped monitor goes round its loop. *)
M_CallRead ==
  /\ pc = "loop"
  /\ pc' = IF running THEN "poll" ELSE "loop"
  /\ UNCHANGED <<kernelVars, running, demoVars>>

(* The loop of the monitor. *)
CallRead ==
  /\ pc = "loop"
  /\ pc' = IF running THEN "poll" ELSE "closing"
  /\ UNCHANGED <<kernelVars, running, demoVars>>

(* sc6f0_button_read_event. *)
PollReady ==
  /\ pc = "poll"
  /\ queue # <<>>
  /\ pc' = "read"
  /\ UNCHANGED <<kernelVars, running, demoVars>>

PollTimeout ==
  /\ pc = "poll"
  /\ queue = <<>>
  /\ pc' = "loop"
  /\ UNCHANGED <<kernelVars, running, demoVars>>

(* poll() is interrupted by a signal, or read() fails: the monitor ends. *)
CallFails ==
  /\ pc \in {"poll", "read"}
  /\ pc = "poll" => ~running
  /\ pc' = "closing"
  /\ UNCHANGED <<kernelVars, running, demoVars>>

Wanted(e) == e.type = "key" /\ code_to_id(e.code) # Unknown

ReadSkips ==
  /\ pc = "read"
  /\ queue # <<>>
  /\ ~Wanted(Head(queue))
  /\ queue' = Tail(queue)
  /\ UNCHANGED <<down, since, clock, offset, dropped, running, pc, demoVars>>

(* EAGAIN. *)
ReadEmpty ==
  /\ pc = "read"
  /\ queue = <<>>
  /\ pc' = "loop"
  /\ UNCHANGED <<kernelVars, running, demoVars>>

(* Mutant: a repeat is taken for a press. *)
M_PressTime(e, old) == IF e.value > 0 THEN e.time ELSE 0

(* What press_times of the button becomes, and what hold time is shown,    *)
(* modulo 2^64 when the wall clock was set back in between.                *)
PressTime(e, old) == CASE e.value = 1 -> e.time
                       [] e.value = 0 -> 0
                       [] OTHER -> old

Held(e, old) == IF e.value = 0 /\ old > 0 THEN e.time - old ELSE 0

(* Mutant: the event is returned and the rest of the queue thrown away. *)
M_Rest(q) == <<>>

Rest(q) == Tail(q)

(* The buttons as one who reads the output sees them. *)
Shown(e, s) == CASE e.value = 1 -> s \cup {code_to_id(e.code)}
                 [] e.value = 0 -> s \ {code_to_id(e.code)}
                 [] OTHER -> s

ReadEvent ==
  /\ pc = "read"
  /\ queue # <<>>
  /\ Wanted(Head(queue))
  /\ LET e == Head(queue)
         id == code_to_id(e.code)
     IN /\ pressTimes' = [pressTimes EXCEPT ![id] = PressTime(e, @)]
        /\ states' = Shown(e, states)
        /\ held' = [reported |-> Held(e, pressTimes[id]),
                    true |-> IF e.value = 0 /\ e.since > 0
                             THEN e.time - e.since ELSE 0]
  /\ queue' = Rest(queue)
  /\ pc' = "loop"
  /\ UNCHANGED <<down, since, clock, offset, dropped, running, printed>>

(* sc6f0_button_close. *)
Close ==
  /\ pc = "closing"
  /\ pc' = "closed"
  /\ UNCHANGED <<kernelVars, running, demoVars>>

Closed == pc = "closed" /\ UNCHANGED vars

Next == \/ \E c \in Codes : KeyDown(c) \/ KeyUp(c) \/ KeyRepeat(c)
        \/ ClockStep \/ Signal
        \/ \E n \in Nodes \cup {"none"} : Open(n) \/ OpenFails(n)
        \/ GetStates \/ GetStatesFails \/ CallRead
        \/ PollReady \/ PollTimeout \/ CallFails
        \/ ReadSkips \/ ReadEmpty \/ ReadEvent
        \/ Close \/ Closed

Spec == Init /\ [][Next]_vars

Monitor == \/ GetStates \/ GetStatesFails \/ CallRead \/ PollReady \/ PollTimeout
           \/ ReadSkips \/ ReadEmpty \/ ReadEvent \/ Close

(* The monitor is scheduled; nothing is assumed of keys and signals. *)
FairSpec == Spec /\ WF_vars(Monitor)

-----------------------------------------------------------------------------
(* Type invariant of kernel, library and monitor. *)
TypeOK ==
  /\ down \subseteq Codes
  /\ since \in [Codes -> Nat]
  /\ clock \in 0..MaxEvents
  /\ offset \in Offsets
  /\ Len(queue) <= Cap
  /\ {dropped, running, printed} \subseteq BOOLEAN
  /\ pc \in {"start", "open", "loop", "poll", "read", "closing", "closed"}
  /\ pressTimes \in [Ids -> Nat]
  /\ states \subseteq Ids

(* States at the start and events together: the states printed first,      *)
(* changed by every event returned and by those still queued, are the      *)
(* states of the buttons, whatever was pressed between opening the device, *)
(* EVIOCGKEY and the first read, unless the kernel dropped events.         *)
StatesAreTrue ==
  printed /\ ~dropped =>
    \A c \in ButtonCodes :
      LET mine == {i \in DOMAIN queue : /\ queue[i].type = "key"
                                        /\ queue[i].code = c
                                        /\ queue[i].value # 2}
          latest == CHOOSE i \in mine : \A j \in mine : j <= i
      IN c \in down <=> IF mine = {} THEN code_to_id(c) \in states
                        ELSE queue[latest].value = 1

(* The hold time of a release is the time since its own press, from the    *)
(* stamp of the one to that of the other: repeats do not shorten it, a     *)
(* press before EVIOCGKEY gives 0, wherever the wall clock was set, unless *)
(* the kernel dropped events.  It is the time the button was down as long  *)
(* as the wall clock was not set in between.                               *)
HeldIsTrue == ~dropped => held.reported = held.true

(* Every event that is queued is taken out while the monitor runs. *)
QueueIsRead == queue # <<>> ~> (queue = <<>> \/ pc = "closed")
=============================================================================
