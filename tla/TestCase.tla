------------------------------ MODULE TestCase ------------------------------
(***************************************************************************)
(* A program built on testkit.h, from its menu to its end: the main thread *)
(* (App0::Run, DoWork, wait_for_test_finish), the thread of the event      *)
(* handlers, the two free stacks of TestCase, and standard input as        *)
(* select() and getchar() see it.                                          *)
(*                                                                         *)
(* _FreeStack_main_ belongs to the main thread, _FreeStack_evt_ to the     *)
(* handlers' thread, where OnStart fills it and OnExitEventHandlers        *)
(* flushes it.  qcap2_event_handlers_invoke runs a function on that thread *)
(* and returns when it has ended; qcap2_event_handlers_stop ends the       *)
(* thread.  Both are external and modelled as the code relies on them.     *)
(***************************************************************************)
EXTENDS TestKit

CONSTANTS
  Programs,     (* the programs, as records of TestKit                     *)
  MayFail,      (* which invocations may fail: a subset of Invocations     *)
  Keys,         (* what may be typed; "q" and "1" mean something           *)
  MaxTyped      (* bound: keys waiting in the kernel                       *)

Invocations == {"start", "exit"}

ASSUME TestCaseAssumption ==
  /\ MayFail \subseteq Invocations
  /\ "end of file" \notin Keys
  /\ MaxTyped \in Nat

(* The calls of a program, those on the handlers' thread after the others. *)
Calls == [res : STRING \X Nat, uses : SUBSET (STRING \X Nat),
          fails : BOOLEAN, tested : BOOLEAN]
Recipe(p) == p.main \o p.evt

(* What the calls before the kth are known to have made. *)
Made(p, k) == {Recipe(p)[j].res : j \in {i \in 1..(k - 1) : Recipe(p)[i].tested}}
              \ {None}

(* A call that is looked at uses what such calls before it have made, no   *)
(* two calls make the same thing, and only the handlers' thread, which     *)
(* looks at every result, registers anything with the handlers.            *)
WellFormed(p) ==
  /\ p.main \in Seq(Calls) /\ p.evt \in Seq(Calls)
  /\ \A k \in DOMAIN Recipe(p) :
       LET call == Recipe(p)[k] IN
         /\ call.tested => call.uses \subseteq Made(p, k)
         /\ call.res # None => \A j \in 1..(k - 1) : Recipe(p)[j].res # call.res
  /\ \A k \in DOMAIN p.main :
       /\ p.main[k].res[1] # "registered"
       /\ p.main[k].res = Running => p.threaded /\ p.main[k].tested
  /\ \A k \in DOMAIN p.evt : p.evt[k].tested
  /\ p.threaded => \E k \in DOMAIN p.main : p.main[k].res = Running
  /\ p.threaded \/ p.evt = <<>>

ASSUME ProgramsAssumption == \A p \in Programs : WellFormed(p)

VARIABLES
  prog,      (* the program that runs                                      *)
  modules,   (* modules that are initialised, in order                     *)
  once,      (* TEST_CASE is set: one test case and no menu                *)
  pc,        (* main thread                                                *)
  handler,   (* handlers' thread: "none" when it does not exist            *)
  step,      (* next call of the recipe that runs                          *)
  main, evt, (* _FreeStack_main_ and _FreeStack_evt_, the top is the last  *)
  live,      (* what exists                                                *)
  kbd,       (* bytes in the kernel                                        *)
  buf,       (* bytes getchar() has read ahead                             *)
  eof,       (* standard input is closed                                   *)
  watch,     (* bStdinOpen of wait_for_test_finish                         *)
  tick       (* changes with every idle(0)                                 *)

stackVars == <<main, evt, live>>
inputVars == <<kbd, buf, eof>>
fixedVars == <<prog, modules, once>>
vars == <<fixedVars, pc, handler, step, stackVars, inputVars, watch, tick>>

MainPlaces == {"load", "menu", "prepare", "invoke", "wait", "leave", "flush",
               "unload", "exited"}
HandlerPlaces == {"none", "idle", "start", "event", "exit"}

Pop(stack) == SubSeq(stack, 1, Len(stack) - 1)
Top(stack) == stack[Len(stack)]
Keep(call) == IF call.res = None THEN <<>> ELSE <<call>>
Result(call) == IF call.res = None THEN {} ELSE {call.res}

Init ==
  /\ prog \in Programs
  /\ modules = <<>> /\ once = FALSE
  /\ pc = "load"
  /\ handler = "none" /\ step = 1
  /\ main = <<>> /\ evt = <<>> /\ live = {}
  /\ kbd = <<>> /\ buf = <<>> /\ eof = FALSE
  /\ watch = TRUE /\ tick = FALSE

-----------------------------------------------------------------------------
(* Standard input.  select() looks at the kernel; getchar() takes from its *)
(* own buffer first and fills it with all the kernel has.                  *)
Type(c) ==
  /\ ~eof
  /\ Len(kbd) < MaxTyped
  /\ kbd' = Append(kbd, c)
  /\ UNCHANGED <<fixedVars, pc, handler, step, stackVars, buf, eof, watch, tick>>

CloseStdin ==
  /\ ~eof
  /\ eof' = TRUE
  /\ UNCHANGED <<fixedVars, pc, handler, step, stackVars, kbd, buf, watch, tick>>

Readable == kbd # <<>> \/ eof

NextChar == IF buf # <<>> THEN Head(buf)
            ELSE IF kbd # <<>> THEN Head(kbd) ELSE "end of file"

GetChar ==
  /\ buf' = IF buf # <<>> THEN Tail(buf)
            ELSE IF kbd # <<>> THEN Tail(kbd) ELSE <<>>
  /\ kbd' = IF buf # <<>> THEN kbd ELSE <<>>
  /\ eof' = eof

-----------------------------------------------------------------------------
(* modules_init_t of main: its constructor and, when App0::Main is left,   *)
(* its destructor.                                                         *)
Modules == <<"__zz_log__">>

ModuleInit ==
  /\ pc = "load"
  /\ Len(modules) < Len(Modules)
  /\ modules' = Append(modules, Modules[Len(modules) + 1])
  /\ UNCHANGED <<prog, once, pc, handler, step, stackVars, inputVars, watch,
                 tick>>

ModuleUninit ==
  /\ pc = "unload"
  /\ modules # <<>>
  /\ modules' = Pop(modules)
  /\ pc' = IF Len(modules) = 1 THEN "exited" ELSE pc
  /\ UNCHANGED <<prog, once, handler, step, stackVars, inputVars, watch, tick>>

(* TEST_CASE as the environment has it, "2" for all other numbers. *)
Texts == {"unset", "garbage", "0", "1", "2"}
StrToNumber(text) == text \in {"0", "1", "2"}
InitEnvParam(text, default) == IF StrToNumber(text) THEN text ELSE default

(* Test case 1 is the only one. *)
DoCase(t, otherwise) == IF t = "1" THEN "prepare" ELSE otherwise

(* App0::Run: TEST_CASE # 0 skips the menu. *)
Run(text) ==
  /\ pc = "load"
  /\ modules = Modules
  /\ LET t == InitEnvParam(text, "0") IN
       /\ once' = (t # "0")
       /\ pc' = IF t = "0" THEN "menu" ELSE DoCase(t, "unload")
  /\ UNCHANGED <<prog, modules, handler, step, stackVars, inputVars, watch, tick>>

(* App0::Run.  At the end of the input select() keeps returning and the    *)
(* character is none of the cases, so the loop goes round.                 *)
MenuKey ==
  /\ pc = "menu"
  /\ Readable
  /\ GetChar
  /\ pc' = IF NextChar = "q" THEN "unload" ELSE DoCase(NextChar, "menu")
  /\ step' = 1
  /\ UNCHANGED <<fixedVars, handler, stackVars, watch, tick>>

MenuSelectFails ==
  /\ pc = "menu"
  /\ pc' = "unload"
  /\ UNCHANGED <<fixedVars, handler, step, stackVars, inputVars, watch, tick>>

-----------------------------------------------------------------------------
(* DoWork on the main thread: the calls of the main recipe. *)
MainCall ==
  /\ pc = "prepare"
  /\ step \in DOMAIN prog.main
  /\ LET call == prog.main[step] IN
       /\ live' = live \cup Result(call)
       /\ main' = main \o Keep(call)
       /\ handler' = IF call.res = Running THEN "idle" ELSE handler
  /\ step' = step + 1
  /\ UNCHANGED <<fixedVars, pc, evt, inputVars, watch, tick>>

(* Mutant: what failed is pushed like what did not. *)
M_MainCallFails ==
  /\ pc = "prepare"
  /\ step \in DOMAIN prog.main
  /\ prog.main[step].fails
  /\ main' = main \o Keep(prog.main[step])
  /\ pc' = "flush"
  /\ UNCHANGED <<fixedVars, handler, step, evt, live, inputVars, watch, tick>>

(* A failure that is looked at ends the work; one that is not is passed    *)
(* over, and the release is pushed.                                        *)
MainCallFails ==
  /\ pc = "prepare"
  /\ step \in DOMAIN prog.main
  /\ LET call == prog.main[step] IN
       /\ call.fails
       /\ main' = IF call.tested THEN main ELSE main \o Keep(call)
       /\ pc' = IF call.tested THEN "flush" ELSE pc
       /\ step' = IF call.tested THEN step ELSE step + 1
  /\ UNCHANGED <<fixedVars, handler, evt, live, inputVars, watch, tick>>

MainReady ==
  /\ pc = "prepare"
  /\ step \notin DOMAIN prog.main
  /\ pc' = IF prog.threaded THEN "invoke" ELSE "wait"
  /\ step' = 1
  /\ watch' = TRUE
  /\ UNCHANGED <<fixedVars, handler, stackVars, inputVars, tick>>

(* ExecInEventHandlers(OnStart). *)
InvokeStart ==
  /\ pc = "invoke"
  /\ handler = "idle"
  /\ handler' = "start"
  /\ UNCHANGED <<fixedVars, pc, step, stackVars, inputVars, watch, tick>>

(* An invocation that fails: DoWork breaks off to its guard, and the guard *)
(* goes on to the main stack.                                              *)
Asked == [invoke |-> "start", leave |-> "exit"]
Refused == [invoke |-> "leave", leave |-> "flush"]

InvokeFails(i) ==
  /\ pc \in DOMAIN Asked
  /\ Asked[pc] = i
  /\ handler # i
  /\ pc' = Refused[pc]
  /\ UNCHANGED <<fixedVars, handler, step, stackVars, inputVars, watch, tick>>

-----------------------------------------------------------------------------
(* OnStart on the handlers' thread. *)
EvtCall ==
  /\ handler = "start"
  /\ step \in DOMAIN prog.evt
  /\ LET call == prog.evt[step] IN
       /\ live' = live \cup Result(call)
       /\ evt' = evt \o Keep(call)
  /\ step' = step + 1
  /\ UNCHANGED <<fixedVars, pc, handler, main, inputVars, watch, tick>>

EvtCallFails ==
  /\ handler = "start"
  /\ step \in DOMAIN prog.evt
  /\ prog.evt[step].fails
  /\ handler' = "idle"
  /\ pc' = "leave"
  /\ UNCHANGED <<fixedVars, step, stackVars, inputVars, watch, tick>>

EvtReady ==
  /\ handler = "start"
  /\ step \notin DOMAIN prog.evt
  /\ handler' = "idle"
  /\ pc' = "wait"
  /\ watch' = TRUE
  /\ UNCHANGED <<fixedVars, step, stackVars, inputVars, tick>>

(* An event or a timer that is registered may fire whenever the thread has *)
(* nothing else to do.                                                     *)
Registered == {r \in live : r[1] = "registered"}

Dispatch ==
  /\ handler = "idle"
  /\ Registered # {}
  /\ handler' = "event"
  /\ UNCHANGED <<fixedVars, pc, step, stackVars, inputVars, watch, tick>>

DispatchEnds ==
  /\ handler = "event"
  /\ handler' = "idle"
  /\ UNCHANGED <<fixedVars, pc, step, stackVars, inputVars, watch, tick>>

-----------------------------------------------------------------------------
(* wait_for_test_finish. *)
Leave == IF prog.threaded THEN "leave" ELSE "flush"

WaitTimeout ==
  /\ pc = "wait"
  /\ ~(watch /\ Readable)
  /\ tick' = ~tick
  /\ pc' \in IF prog.idleEnds THEN {pc, Leave} ELSE {pc}
  /\ UNCHANGED <<fixedVars, handler, step, stackVars, inputVars, watch>>

(* Mutant: the end of the input does not stop the loop from watching it. *)
M_WaitKey ==
  /\ pc = "wait"
  /\ watch /\ Readable
  /\ GetChar
  /\ pc' = IF NextChar = "q" THEN Leave ELSE pc
  /\ UNCHANGED <<fixedVars, handler, step, stackVars, watch, tick>>

WaitKey ==
  /\ pc = "wait"
  /\ watch /\ Readable
  /\ GetChar
  /\ watch' = (NextChar # "end of file")
  /\ \/ NextChar = "q" /\ pc' = Leave
     \/ NextChar # "q" /\ pc' = pc
     \/ NextChar \in Keys \ {"q"} /\ prog.idleEnds /\ pc' = Leave
  /\ UNCHANGED <<fixedVars, handler, step, stackVars, tick>>

WaitSelectFails ==
  /\ pc = "wait"
  /\ pc' = Leave
  /\ UNCHANGED <<fixedVars, handler, step, stackVars, inputVars, watch, tick>>

-----------------------------------------------------------------------------
(* The guard of DoWork: OnExitEventHandlers flushes the handlers' stack on *)
(* the handlers' thread; its result is not looked at.                      *)
(* Mutant: DoWork has no guard and goes straight to the main stack. *)
M_InvokeExit ==
  /\ pc = "leave"
  /\ handler = "idle"
  /\ pc' = "flush"
  /\ UNCHANGED <<fixedVars, handler, step, stackVars, inputVars, watch, tick>>

InvokeExit ==
  /\ pc = "leave"
  /\ handler = "idle"
  /\ handler' = "exit"
  /\ UNCHANGED <<fixedVars, pc, step, stackVars, inputVars, watch, tick>>

(* Mutant: the oldest entry is undone first. *)
M_EvtRelease ==
  /\ handler = "exit"
  /\ evt # <<>>
  /\ live' = live \ {Head(evt).res}
  /\ evt' = Tail(evt)
  /\ UNCHANGED <<fixedVars, pc, handler, step, main, inputVars, watch, tick>>

EvtRelease ==
  /\ handler = "exit"
  /\ evt # <<>>
  /\ live' = live \ {Top(evt).res}
  /\ evt' = Pop(evt)
  /\ UNCHANGED <<fixedVars, pc, handler, step, main, inputVars, watch, tick>>

(* Mutant: the flush undoes the top and returns. *)
M_EvtFlushed ==
  /\ handler = "exit"
  /\ handler' = "idle"
  /\ pc' = "flush"
  /\ UNCHANGED <<fixedVars, step, stackVars, inputVars, watch, tick>>

EvtFlushed ==
  /\ handler = "exit"
  /\ evt = <<>>
  /\ handler' = "idle"
  /\ pc' = "flush"
  /\ UNCHANGED <<fixedVars, step, stackVars, inputVars, watch, tick>>

(* _FreeStack_main_.flush(): stopping the handlers ends their thread. *)
MainRelease ==
  /\ pc = "flush"
  /\ main # <<>>
  /\ Top(main).res = Running => handler = "idle"
  /\ handler' = IF Top(main).res = Running THEN "none" ELSE handler
  /\ live' = live \ {Top(main).res}
  /\ main' = Pop(main)
  /\ UNCHANGED <<fixedVars, pc, step, evt, inputVars, watch, tick>>

MainFlushed ==
  /\ pc = "flush"
  /\ main = <<>>
  /\ pc' = IF once THEN "unload" ELSE "menu"
  /\ UNCHANGED <<fixedVars, handler, step, stackVars, inputVars, watch, tick>>

(* The program has ended. *)
Exited == pc = "exited" /\ UNCHANGED vars

-----------------------------------------------------------------------------
Main == \/ ModuleInit \/ ModuleUninit \/ \E t \in Texts : Run(t)
        \/ MenuKey \/ MainCall \/ MainCallFails \/ MainReady
        \/ WaitTimeout \/ WaitKey \/ MainRelease \/ MainFlushed

Handler == \/ EvtCall \/ EvtCallFails \/ EvtReady
           \/ DispatchEnds \/ EvtRelease \/ EvtFlushed

Next == \/ \E c \in Keys : Type(c)
        \/ CloseStdin
        \/ ModuleInit \/ ModuleUninit \/ \E t \in Texts : Run(t)
        \/ MenuKey \/ MenuSelectFails
        \/ MainCall \/ MainCallFails \/ MainReady
        \/ InvokeStart \/ \E i \in MayFail : InvokeFails(i)
        \/ EvtCall \/ EvtCallFails \/ EvtReady
        \/ Dispatch \/ DispatchEnds
        \/ WaitTimeout \/ WaitKey \/ WaitSelectFails
        \/ InvokeExit \/ EvtRelease \/ EvtFlushed
        \/ MainRelease \/ MainFlushed
        \/ Exited

Spec == Init /\ [][Next]_vars

(* Both threads go on when they can.  The handlers' thread also gets to an *)
(* invocation and to its end, however often its events fire: a timer of    *)
(* the programs fires once a second and its handler does not wait.         *)
FairSpec == /\ Spec
            /\ WF_vars(Main) /\ WF_vars(Handler)
            /\ SF_vars(InvokeStart) /\ SF_vars(InvokeExit) /\ SF_vars(MainRelease)

-----------------------------------------------------------------------------
(* Type invariant of the state of a program. *)
TypeOK ==
  /\ prog \in Programs
  /\ modules \in {<<>>, Modules} /\ once \in BOOLEAN
  /\ pc \in MainPlaces
  /\ handler \in HandlerPlaces
  /\ step \in Nat
  /\ kbd \in Seq(Keys) /\ Len(kbd) <= MaxTyped
  /\ buf \in Seq(Keys) /\ Len(buf) <= MaxTyped
  /\ eof \in BOOLEAN /\ watch \in BOOLEAN /\ tick \in BOOLEAN

(* Everything waiting on a free stack whose making was looked at exists,   *)
(* and so does all it refers to: no release, no callback and no later call *)
(* touches what was undone before, wherever start-up failed and whichever  *)
(* thread undoes it (free_stack_t::flush, the lambdas of the constructors).*)
UsesLive ==
  \A i \in DOMAIN (main \o evt) :
    LET call == (main \o evt)[i] IN
      call.tested => {call.res} \cup call.uses \subseteq live

(* A test case leaves nothing behind: when DoWork has returned, both       *)
(* stacks are empty, as ~free_stack_t expects, and nothing made is left;   *)
(* no release is left to the time when the modules are gone.               *)
NothingLeft ==
  /\ pc \in {"menu", "unload", "exited"} => main = <<>> /\ evt = <<>> /\ live = {}
  /\ live # {} => modules = Modules

(* What OnStart made is undone on the thread that made it: the handlers    *)
(* are not stopped while _FreeStack_evt_ holds anything, and nothing is    *)
(* dispatched while OnStart or OnExitEventHandlers is half done.           *)
FlushedByOwner ==
  /\ evt # <<>> => Running \in live /\ handler # "none"
  /\ handler = "event" => pc \in {"wait", "leave"}

(* With its input closed, the wait of a test case neither stops nor spins  *)
(* on the end of the input: it goes on to call idle or it ends.            *)
EofKeepsTicking ==
  \A b \in BOOLEAN :
    (pc = "wait" /\ eof /\ tick = b) ~> (pc # "wait" \/ tick # b)

(* The two stacks, the main one below, behave as one stack. *)
Abstract == INSTANCE ReleaseOrder WITH
  Things <- UNION {{p.main[i] : i \in DOMAIN p.main}
                   \cup {p.evt[i] : i \in DOMAIN p.evt} : p \in Programs},
  held <- main \o evt,
  closing <- pc \in {"leave", "flush"}

(* The two free stacks, filled and flushed by two threads, implement one   *)
(* stack: youngest first, each once, to the end, and nothing made between. *)
ImplementsReleaseOrder == Abstract!FairSpec

=============================================================================
