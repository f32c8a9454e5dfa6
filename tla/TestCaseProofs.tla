--------------------------- MODULE TestCaseProofs ---------------------------
(***************************************************************************)
(* Proofs about TestCase for every set of programs whose calls fit, any    *)
(* keys and any place where start-up fails.  The invocation of             *)
(* OnExitEventHandlers, whose result DoWork does not look at, is taken to  *)
(* succeed where a theorem says so.                                        *)
(***************************************************************************)
EXTENDS TestCase, TLAPS

(* Both free stacks as one, the handlers' on top. *)
Held == main \o evt

Refers(call) == {call.res} \cup call.uses

(* Where the two threads are, and which stacks may be filled there. *)
PlaceInv ==
  /\ pc = "load" => step = 1
  /\ pc \in {"load", "menu", "unload", "exited"} => main = <<>>
  /\ pc \notin {"invoke", "wait", "leave"} => evt = <<>>
  /\ pc = "invoke" /\ handler # "start" => evt = <<>> /\ step = 1
  /\ pc \in {"invoke", "leave"} => prog.threaded
  /\ ~prog.threaded => evt = <<>> /\ handler = "none"
  /\ pc \notin {"load", "unload", "exited"} => modules = Modules
  /\ handler = "start" => pc = "invoke"
  /\ handler = "exit" => pc = "leave"
  /\ handler = "event" => pc \in {"wait", "leave"}

(* The thread of the handlers lives as long as they run, and they run as   *)
(* long as it may be asked for anything.                                   *)
RunningInv ==
  /\ handler # "none" <=> Running \in live
  /\ pc \in {"invoke", "wait", "leave"} /\ prog.threaded => Running \in live
  /\ \A i \in DOMAIN evt : evt[i].res # Running
  /\ \A i \in DOMAIN main : main[i].res[1] # "registered"

(* How far start-up is in its recipe. *)
Position == IF pc = "prepare" THEN step ELSE Len(prog.main) + step

(* What start-up has made is live, and the stacks hold nothing else. *)
MadeInv ==
  pc \in {"prepare", "invoke"} =>
    /\ Position \in 1..(Len(Recipe(prog)) + 1)
    /\ pc = "prepare" => step <= Len(prog.main) + 1
    /\ pc = "invoke" => step >= 1
    /\ \A i \in DOMAIN Held : \E k \in 1..(Position - 1) :
         Held[i] = Recipe(prog)[k]
    /\ Made(prog, Position) \subseteq live

(* A stack h above the things l: nothing is referred to by what is below   *)
(* it, all of l is on the stack, and what was looked at is in l with all   *)
(* it refers to.                                                           *)
StackOK(h, l) ==
  /\ \A i, j \in DOMAIN h :
       i < j /\ h[i].tested => h[j].res \notin Refers(h[i])
  /\ \A r \in l : \E i \in DOMAIN h : h[i].res = r
  /\ \A i \in DOMAIN h : h[i].tested => Refers(h[i]) \subseteq l

(* The stack h above the things l before the kth call of a program. *)
Taken(p, k, h, l) ==
  /\ h \in Seq(Calls) /\ StackOK(h, l)
  /\ Made(p, k) \subseteq l
  /\ \A i \in DOMAIN h : \E j \in 1..(k - 1) : h[i] = Recipe(p)[j]

StackInv == main \in Seq(Calls) /\ evt \in Seq(Calls) /\ StackOK(Held, live)

(* The inductive invariant. *)
Inv0 == PlaceInv /\ RunningInv /\ MadeInv /\ StackInv
IInv == TypeOK /\ Inv0

-----------------------------------------------------------------------------
(* Sequences. *)
LEMMA ConcatEmpty ==
  ASSUME NEW S, NEW s \in Seq(S)
  PROVE  s \o <<>> = s
  OBVIOUS

LEMMA ConcatAppend ==
  ASSUME NEW S, NEW a \in Seq(S), NEW b \in Seq(S), NEW c \in Seq(S)
  PROVE  a \o (b \o c) = (a \o b) \o c
  OBVIOUS

LEMMA Popped ==
  ASSUME NEW S, NEW s \in Seq(S), s # <<>>
  PROVE  /\ Pop(s) \in Seq(S)
         /\ Len(s) \in Nat /\ Len(s) >= 1 /\ DOMAIN s = 1..Len(s)
         /\ Len(Pop(s)) = Len(s) - 1
         /\ DOMAIN Pop(s) = 1..(Len(s) - 1)
         /\ \A i \in 1..(Len(s) - 1) : Pop(s)[i] = s[i]
         /\ Top(s) = s[Len(s)] /\ Len(s) \in DOMAIN s
<1>1. Len(s) \in Nat /\ DOMAIN s = 1..Len(s) /\ Len(s) >= 1
  OBVIOUS
<1> DEFINE q == SubSeq(s, 1, Len(s) - 1)
<1>2. q \in Seq(S) /\ Len(q) = Len(s) - 1
      /\ \A i \in 1..(Len(s) - 1) : q[i] = s[i]
  BY <1>1
<1>3. DOMAIN q = 1..(Len(s) - 1)
  BY <1>2
<1> HIDE DEF q
<1>4. Pop(s) = q
  BY DEF Pop, q
<1>5. Top(s) = s[Len(s)] /\ Len(s) \in DOMAIN s
  BY <1>1 DEF Top
<1> QED BY <1>1, <1>2, <1>3, <1>4, <1>5, Zenon

LEMMA PopConcat ==
  ASSUME NEW S, NEW a \in Seq(S), NEW b \in Seq(S), b # <<>>
  PROVE  /\ a \o b # <<>>
         /\ a \o Pop(b) = Pop(a \o b)
         /\ Top(a \o b) = Top(b)
<1>1. /\ Len(a) \in Nat /\ Len(b) \in Nat /\ Len(b) >= 1
      /\ a \o b \in Seq(S) /\ Len(a \o b) = Len(a) + Len(b)
      /\ \A i \in 1..Len(a) : (a \o b)[i] = a[i]
      /\ \A i \in 1..Len(b) : (a \o b)[Len(a) + i] = b[i]
  OBVIOUS
<1>2. a \o b # <<>>
  BY <1>1
<1>3. Top(a \o b) = Top(b)
  BY <1>1 DEF Top
<1>4. a \o Pop(b) = Pop(a \o b)
  BY <1>1 DEF Pop
<1> QED BY <1>2, <1>3, <1>4

LEMMA Pushed ==
  ASSUME NEW S, NEW s \in Seq(S), NEW c \in S
  PROVE  /\ s \o <<c>> \in Seq(S) /\ Len(s) \in Nat
         /\ DOMAIN s = 1..Len(s)
         /\ DOMAIN (s \o <<c>>) = 1..(Len(s) + 1)
         /\ (s \o <<c>>)[Len(s) + 1] = c
         /\ \A i \in 1..Len(s) : (s \o <<c>>)[i] = s[i]
         /\ s \o <<c>> = Append(s, c)
  OBVIOUS

-----------------------------------------------------------------------------
(* One stack. *)
LEMMA PopStack ==
  ASSUME NEW h \in Seq(Calls), h # <<>>, NEW l, StackOK(h, l)
  PROVE  StackOK(Pop(h), l \ {Top(h).res})
<1> DEFINE n == Len(h)
           m == l \ {Top(h).res}
<1>1. /\ n \in Nat /\ n >= 1 /\ DOMAIN h = 1..n
      /\ DOMAIN Pop(h) = 1..(n - 1)
      /\ \A i \in 1..(n - 1) : Pop(h)[i] = h[i]
      /\ Top(h) = h[n]
  BY Popped
<1> HIDE DEF n
<1>2. \A i \in 1..(n - 1) : i \in 1..n /\ i < n /\ n \in 1..n
  BY <1>1
<1>3. \A i, j \in DOMAIN Pop(h) :
        i < j /\ Pop(h)[i].tested => Pop(h)[j].res \notin Refers(Pop(h)[i])
  BY <1>1, <1>2 DEF StackOK
<1>4. ASSUME NEW r \in m PROVE \E i \in DOMAIN Pop(h) : Pop(h)[i].res = r
  <2>1. PICK i \in 1..n : h[i].res = r
    BY <1>1 DEF StackOK
  <2>2. i # n
    BY <1>1, <2>1
  <2>3. i \in 1..(n - 1)
    BY <1>1, <2>2
  <2> QED BY <1>1, <2>1, <2>3
<1>5. ASSUME NEW i \in DOMAIN Pop(h), Pop(h)[i].tested
      PROVE  Refers(Pop(h)[i]) \subseteq m
  <2>1. i \in 1..n /\ i < n /\ n \in 1..n /\ Pop(h)[i] = h[i]
    BY <1>1, <1>2
  <2>2. Refers(h[i]) \subseteq l
    BY <1>1, <1>5, <2>1 DEF StackOK
  <2>3. h[n].res \notin Refers(h[i])
    BY <1>1, <1>5, <2>1 DEF StackOK
  <2> QED BY <1>1, <2>1, <2>2, <2>3
<1> QED BY <1>3, <1>4, <1>5 DEF StackOK

(* What is pushed is not referred to by the stack; if it was looked at it  *)
(* is there, with all it uses.                                             *)
LEMMA PushStack ==
  ASSUME NEW h \in Seq(Calls), NEW l, StackOK(h, l), NEW call \in Calls,
         NEW m, m \in {l, l \cup {call.res}},
         call.tested => Refers(call) \subseteq m,
         \A i \in DOMAIN h : h[i].tested => call.res \notin Refers(h[i])
  PROVE  StackOK(h \o <<call>>, m)
<1> DEFINE n == Len(h)
           g == h \o <<call>>
<1>1. /\ n \in Nat /\ DOMAIN h = 1..n
      /\ DOMAIN g = 1..(n + 1) /\ g[n + 1] = call
      /\ \A i \in 1..n : g[i] = h[i]
  BY Pushed
<1> HIDE DEF n, g
<1>2. \A i \in 1..(n + 1) : i = n + 1 \/ i \in 1..n
  BY <1>1
<1>3. ASSUME NEW i \in 1..(n + 1), NEW j \in 1..(n + 1), i < j, g[i].tested
      PROVE  g[j].res \notin Refers(g[i])
  <2>1. i \in 1..n
    BY <1>1, <1>3
  <2>2. CASE j = n + 1
    BY <1>1, <1>3, <2>1, <2>2
  <2>3. CASE j \in 1..n
    BY <1>1, <1>3, <2>1, <2>3 DEF StackOK
  <2> QED BY <1>2, <2>2, <2>3
<1>4. ASSUME NEW r \in m PROVE \E i \in 1..(n + 1) : g[i].res = r
  <2>1. CASE r \in l
    <3>1. PICK i \in 1..n : h[i].res = r
      BY <1>1, <2>1 DEF StackOK
    <3>2. i \in 1..(n + 1)
      BY <1>1
    <3> QED BY <1>1, <3>1, <3>2
  <2>2. CASE r = call.res
    <3>1. n + 1 \in 1..(n + 1)
      BY <1>1
    <3> QED BY <1>1, <2>2, <3>1
  <2> QED BY <1>4, <2>1, <2>2
<1>5. ASSUME NEW i \in 1..(n + 1), g[i].tested PROVE Refers(g[i]) \subseteq m
  <2>1. CASE i = n + 1
    BY <1>1, <1>5, <2>1
  <2>2. CASE i \in 1..n
    BY <1>1, <1>5, <2>2 DEF StackOK
  <2> QED BY <1>2, <2>1, <2>2
<1>6. StackOK(g, m)
  BY <1>1, <1>3, <1>4, <1>5 DEF StackOK
<1> QED BY <1>6 DEF g

-----------------------------------------------------------------------------
(* Recipes. *)
LEMMA RecipeType ==
  ASSUME NEW p, WellFormed(p)
  PROVE  /\ p.main \in Seq(Calls) /\ p.evt \in Seq(Calls)
         /\ Recipe(p) \in Seq(Calls)
         /\ Len(p.main) \in Nat /\ Len(p.evt) \in Nat
         /\ Len(Recipe(p)) \in Nat
         /\ Len(Recipe(p)) = Len(p.main) + Len(p.evt)
         /\ DOMAIN Recipe(p) = 1..Len(Recipe(p))
         /\ DOMAIN p.main = 1..Len(p.main) /\ DOMAIN p.evt = 1..Len(p.evt)
         /\ \A k \in DOMAIN p.main : p.main[k] = Recipe(p)[k]
                                     /\ p.main[k] \in Calls
         /\ \A k \in DOMAIN p.evt : p.evt[k] = Recipe(p)[Len(p.main) + k]
                                    /\ p.evt[k] \in Calls
         /\ \A k \in DOMAIN Recipe(p) : Recipe(p)[k] \in Calls
<1>1. p.main \in Seq(Calls) /\ p.evt \in Seq(Calls)
  BY DEF WellFormed
<1> DEFINE a == p.main
           b == p.evt
<1> HIDE DEF a, b
<1>2. a \in Seq(Calls) /\ b \in Seq(Calls)
  BY <1>1 DEF a, b
<1>3. /\ a \o b \in Seq(Calls)
      /\ Len(a) \in Nat /\ Len(b) \in Nat /\ Len(a \o b) \in Nat
      /\ Len(a \o b) = Len(a) + Len(b)
      /\ DOMAIN (a \o b) = 1..Len(a \o b)
      /\ DOMAIN a = 1..Len(a) /\ DOMAIN b = 1..Len(b)
  BY <1>2
<1>4. /\ \A k \in 1..Len(a) : a[k] = (a \o b)[k] /\ a[k] \in Calls
      /\ \A k \in 1..Len(b) : b[k] = (a \o b)[Len(a) + k] /\ b[k] \in Calls
  BY <1>2
<1>5. \A k \in 1..Len(a \o b) : (a \o b)[k] \in Calls
  <2> DEFINE c == a \o b
  <2> HIDE DEF c
  <2>1. c \in Seq(Calls)
    BY <1>3 DEF c
  <2>2. \A k \in 1..Len(c) : c[k] \in Calls
    BY <2>1
  <2> QED BY <2>2 DEF c
<1> QED BY <1>2, <1>3, <1>4, <1>5 DEF Recipe, a, b

(* What a call makes is not referred to by the calls before it. *)
LEMMA RecipeOrder ==
  ASSUME NEW p, WellFormed(p), NEW k \in DOMAIN Recipe(p), NEW j \in 1..(k - 1),
         Recipe(p)[j].tested, Recipe(p)[k].res # None
  PROVE  Recipe(p)[k].res \notin Refers(Recipe(p)[j])
<1> DEFINE R == Recipe(p)
<1>1. k \in Nat /\ j \in DOMAIN R /\ \A i \in 1..(j - 1) : i \in 1..(k - 1)
  BY RecipeType
<1>2. \A i \in 1..(k - 1) : R[i].res # R[k].res
  BY DEF WellFormed
<1>3. R[j].uses \subseteq Made(p, j)
  BY <1>1 DEF WellFormed
<1>4. R[k].res \notin Made(p, j)
  BY <1>1, <1>2 DEF Made
<1> QED BY <1>2, <1>3, <1>4 DEF Refers

(* The kth call on a stack made by the calls before it. *)
LEMMA TakeCall ==
  ASSUME NEW p, WellFormed(p), NEW k \in DOMAIN Recipe(p),
         NEW h, NEW l, Taken(p, k, h, l), NEW call, call = Recipe(p)[k],
         NEW m, \/ m = l \cup Result(call)
                \/ ~call.tested /\ m = l
  PROVE  Taken(p, k + 1, h \o Keep(call), m)
<1>0. /\ h \in Seq(Calls) /\ StackOK(h, l) /\ Made(p, k) \subseteq l
      /\ \A i \in DOMAIN h : \E j \in 1..(k - 1) : h[i] = Recipe(p)[j]
  BY DEF Taken
<1> USE <1>0
<1> DEFINE g == h \o Keep(call)
           R == Recipe(p)
<1>1. /\ call \in Calls /\ k \in Nat /\ k >= 1
      /\ \A j \in 1..k : j = k \/ j \in 1..(k - 1)
      /\ (k + 1) - 1 = k
      /\ \A j \in 1..(k - 1) : j \in 1..k
  <2>1. call \in Calls /\ k \in 1..Len(R) /\ Len(R) \in Nat
    BY RecipeType, Zenon
  <2> QED BY <2>1
<1>2. Made(p, k + 1) \subseteq m
  <2>1. ASSUME NEW r \in Made(p, k + 1) PROVE r \in m
    <3>1. PICK j \in 1..k : R[j].tested /\ r = R[j].res /\ r # None
      BY <1>1, <2>1 DEF Made
    <3>2. CASE j = k
      BY <3>1, <3>2 DEF Result
    <3>3. CASE j \in 1..(k - 1)
      <4>1. r \in Made(p, k)
        BY <3>1, <3>3 DEF Made
      <4> QED BY <4>1 DEF Result
    <3> QED BY <1>1, <3>2, <3>3
  <2> QED BY <2>1
<1>3. CASE call.res = None
  <2>1. g = h /\ m = l
    <3>1. Keep(call) = <<>> /\ Result(call) = {}
      BY <1>3 DEF Keep, Result
    <3>2. h \o <<>> = h
      BY ConcatEmpty
    <3>3. m = l
      BY <3>1
    <3> QED BY <3>1, <3>2, <3>3, Zenon
  <2>2. \A i \in DOMAIN h : \E j \in 1..k : h[i] = R[j]
    BY <1>1
  <2> HIDE DEF g
  <2>3. g \in Seq(Calls) /\ StackOK(g, m)
        /\ \A i \in DOMAIN g : \E j \in 1..k : g[i] = R[j]
    BY <2>1, <2>2
  <2> QED BY <1>1, <1>2, <2>3 DEF g, Taken
<1>4. CASE call.res # None
  <2>1. g = h \o <<call>> /\ m \in {l, l \cup {call.res}}
    BY <1>4 DEF Keep, Result
  <2>2. call.tested => Refers(call) \subseteq m
    <3>1. call.tested => call.uses \subseteq l /\ m = l \cup {call.res}
      BY <1>4 DEF WellFormed, Result
    <3> QED BY <3>1 DEF Refers
  <2>3. \A i \in DOMAIN h : h[i].tested => call.res \notin Refers(h[i])
    BY <1>4, RecipeOrder
  <2>4. StackOK(g, m)
    BY <1>1, <2>1, <2>2, <2>3, PushStack
  <2>5. /\ g \in Seq(Calls) /\ Len(h) \in Nat /\ DOMAIN h = 1..Len(h)
        /\ DOMAIN g = 1..(Len(h) + 1)
        /\ g[Len(h) + 1] = call /\ \A i \in 1..Len(h) : g[i] = h[i]
    BY <1>1, <2>1, Pushed
  <2> HIDE DEF g
  <2>6. ASSUME NEW i \in DOMAIN g PROVE \E j \in 1..k : g[i] = R[j]
    <3>1. CASE i = Len(h) + 1
      <4>1. k \in 1..k
        BY <1>1
      <4> QED BY <2>5, <3>1, <4>1
    <3>2. CASE i \in 1..Len(h)
      BY <1>1, <2>5, <3>2
    <3> QED BY <2>5, <3>1, <3>2
  <2> QED BY <1>1, <1>2, <2>4, <2>5, <2>6 DEF g, Taken
<1> QED BY <1>3, <1>4

-----------------------------------------------------------------------------
(* Steps that make and undo nothing. *)
LEMMA ProgFits ==
  ASSUME TypeOK
  PROVE  WellFormed(prog)
  BY ProgramsAssumption DEF TypeOK

LEMMA SameStacks ==
  ASSUME StackInv, UNCHANGED stackVars
  PROVE  StackInv' /\ Held' = Held
<1>1. main' = main /\ evt' = evt /\ live' = live
  BY DEF stackVars
<1>2. Held' = Held
  BY <1>1 DEF Held
<1> QED BY <1>1, <1>2 DEF StackInv

LEMMA SameMade ==
  ASSUME MadeInv, UNCHANGED <<prog, stackVars, pc, step>>
  PROVE  MadeInv'
<1>1. main' = main /\ evt' = evt /\ live' = live /\ pc' = pc /\ step' = step
      /\ prog' = prog
  BY DEF stackVars
<1>2. Held' = Held /\ Position' = Position
  BY <1>1 DEF Held, Position
<1> QED BY <1>1, <1>2 DEF MadeInv

(* DoWork begins with both stacks empty. *)
LEMMA FreshMade ==
  ASSUME TypeOK, PlaceInv, pc \in {"load", "menu"},
         UNCHANGED <<prog, stackVars>>, pc' = "prepare", step' = 1
  PROVE  MadeInv'
<1>1. main' = <<>> /\ evt' = <<>> /\ live' = live /\ prog' = prog
  BY DEF PlaceInv, stackVars
<1>2. Len(prog.main) \in Nat /\ Len(Recipe(prog)) \in Nat
  BY ProgFits, RecipeType
<1>3. DOMAIN Held' = {}
  BY <1>1 DEF Held
<1>4. Position' = 1
  BY DEF Position
<1>5. Made(prog, 1) = {}
  BY DEF Made
<1>6. 1 \in 1..(Len(Recipe(prog)) + 1) /\ 1 <= Len(prog.main) + 1
  BY <1>2
<1> QED BY <1>1, <1>3, <1>4, <1>5, <1>6 DEF MadeInv

LEMMA NotMaking ==
  ASSUME pc' \notin {"prepare", "invoke"}
  PROVE  MadeInv'
  BY DEF MadeInv

(* When the recipe of the main stack is done, the handlers run. *)
LEMMA HandlersRun ==
  ASSUME TypeOK, MadeInv, pc = "prepare", step \notin DOMAIN prog.main,
         prog.threaded
  PROVE  Running \in live
<1>1. WellFormed(prog)
  BY ProgFits
<1>2. /\ Len(prog.main) \in Nat /\ DOMAIN prog.main = 1..Len(prog.main)
      /\ \A k \in DOMAIN prog.main : prog.main[k] = Recipe(prog)[k]
  BY <1>1, RecipeType, Zenon
<1>3. Position = step /\ step <= Len(prog.main) + 1
  BY DEF MadeInv, Position
<1>4. Made(prog, Position) \subseteq live /\ Position \in 1..(Len(Recipe(prog)) + 1)
  BY DEF MadeInv
<1>5. step = Len(prog.main) + 1
  BY <1>2, <1>3, <1>4
<1>6. PICK k \in DOMAIN prog.main : prog.main[k].res = Running
  BY <1>1 DEF WellFormed
<1>7. prog.main[k].tested /\ Running # None
  BY <1>1, <1>6 DEF WellFormed, Running, None
<1>8. k \in 1..(Position - 1)
  BY <1>2, <1>3, <1>5
<1>9. Running \in Made(prog, Position)
  BY <1>2, <1>6, <1>7, <1>8 DEF Made
<1> QED BY <1>4, <1>9

LEMMA MainReadyInv ==
  ASSUME IInv, MainReady
  PROVE  Inv0'
<1> USE DEF IInv, Inv0
<1>0. /\ pc = "prepare" /\ step \notin DOMAIN prog.main /\ step' = 1
      /\ pc' = (IF prog.threaded THEN "invoke" ELSE "wait")
      /\ handler' = handler /\ prog' = prog /\ modules' = modules
      /\ UNCHANGED stackVars
  BY DEF MainReady, fixedVars
<1>1. main' = main /\ evt' = evt /\ live' = live /\ evt = <<>>
  BY <1>0 DEF stackVars, PlaceInv
<1>2. StackInv' /\ Held' = Held
  BY <1>0, SameStacks
<1>3. RunningInv'
  BY <1>0, <1>1, HandlersRun DEF RunningInv
<1>4. PlaceInv'
  <2>1. handler \notin {"start", "exit", "event"}
    BY <1>0 DEF PlaceInv
  <2> QED BY <1>0, <1>1, <2>1 DEF PlaceInv
<1>5. MadeInv'
  <2>1. CASE ~prog.threaded
    BY <1>0, <2>1 DEF MadeInv
  <2>2. CASE prog.threaded
    <3>1. /\ Len(prog.main) \in Nat /\ DOMAIN prog.main = 1..Len(prog.main)
      BY ProgFits, RecipeType
    <3>2. Position = step /\ step <= Len(prog.main) + 1
          /\ Position \in 1..(Len(Recipe(prog)) + 1)
      BY <1>0 DEF MadeInv, Position
    <3>3. Position = Len(prog.main) + 1
      BY <1>0, <3>1, <3>2
    <3>4. Position' = Position /\ pc' = "invoke"
      BY <1>0, <2>2, <3>3 DEF Position
    <3> QED BY <1>0, <1>1, <1>2, <3>4 DEF MadeInv
  <2> QED BY <2>1, <2>2
<1> QED BY <1>2, <1>3, <1>4, <1>5

(* The other steps on the main thread. *)
LEMMA MainStepInv ==
  ASSUME IInv,
         \/ MenuKey \/ MenuSelectFails
         \/ \E t \in Texts : Run(t)
         \/ ModuleInit \/ ModuleUninit
         \/ WaitTimeout \/ WaitKey \/ WaitSelectFails
         \/ \E c \in Keys : Type(c)
         \/ CloseStdin
  PROVE  Inv0'
<1> USE DEF IInv, Inv0
<1>0. UNCHANGED <<prog, handler, stackVars>>
  BY DEF MenuKey, MenuSelectFails, Run, ModuleInit, ModuleUninit, WaitTimeout,
         WaitKey, WaitSelectFails, Type, CloseStdin, fixedVars
<1>1. main' = main /\ evt' = evt /\ live' = live /\ prog' = prog
      /\ handler' = handler
  BY <1>0 DEF stackVars
<1>2. StackInv'
  BY <1>0, SameStacks
<1>3. CASE ModuleInit \/ ModuleUninit
  <2>1. step' = step /\ pc \in {"load", "unload"}
        /\ \/ pc = "load" /\ pc' = pc
           \/ pc = "unload" /\ pc' \in {pc, "exited"}
    BY <1>3 DEF ModuleInit, ModuleUninit
  <2> QED BY <1>1, <1>2, <2>1 DEF PlaceInv, RunningInv, MadeInv
<1>4. ASSUME NEW t \in Texts, Run(t) PROVE Inv0'
  <2>1. pc = "load" /\ step' = step /\ modules = Modules /\ modules' = Modules
        /\ pc' \in {"menu", "prepare", "unload"}
    BY <1>4 DEF Run, DoCase
  <2>2. step = 1
    BY <2>1 DEF PlaceInv
  <2>3. PlaceInv' /\ RunningInv'
    BY <1>1, <2>1 DEF PlaceInv, RunningInv
  <2>4. MadeInv'
    BY <1>0, <2>1, <2>2, FreshMade, NotMaking
  <2> QED BY <1>2, <2>3, <2>4
<1>5. CASE MenuKey \/ MenuSelectFails
  <2>1. pc = "menu" /\ modules' = modules
        /\ pc' \in {"menu", "prepare", "unload"}
        /\ (pc' = "prepare" => step' = 1)
    BY <1>5 DEF MenuKey, MenuSelectFails, DoCase, fixedVars
  <2>2. PlaceInv' /\ RunningInv'
    BY <1>1, <2>1 DEF PlaceInv, RunningInv
  <2>3. MadeInv'
    BY <1>0, <2>1, FreshMade, NotMaking
  <2> QED BY <1>2, <2>2, <2>3
<1>6. CASE WaitTimeout \/ WaitKey \/ WaitSelectFails
  <2>1. pc = "wait" /\ modules' = modules /\ step' = step
        /\ pc' \in {"wait", IF prog.threaded THEN "leave" ELSE "flush"}
    BY <1>6 DEF WaitTimeout, WaitKey, WaitSelectFails, Leave, fixedVars
  <2>2. PlaceInv' /\ RunningInv'
    BY <1>1, <2>1 DEF PlaceInv, RunningInv
  <2>3. MadeInv'
    BY <2>1, NotMaking
  <2> QED BY <1>2, <2>2, <2>3
<1>7. CASE CloseStdin \/ \E c \in Keys : Type(c)
  <2>1. pc' = pc /\ step' = step /\ modules' = modules
    BY <1>7 DEF CloseStdin, Type, fixedVars
  <2>2. PlaceInv' /\ RunningInv'
    BY <1>1, <2>1 DEF PlaceInv, RunningInv
  <2>3. MadeInv'
    BY <1>0, <2>1, SameMade
  <2> QED BY <1>2, <2>2, <2>3
<1> QED BY <1>3, <1>4, <1>5, <1>6, <1>7

(* An invocation of OnStart that fails. *)
LEMMA StartRefused ==
  ASSUME MayFail \subseteq {"start"}, \E i \in MayFail : InvokeFails(i)
  PROVE  pc = "invoke" /\ pc' = "leave" /\ handler # "start" /\ handler' = handler
<1>1. InvokeFails("start")
  OBVIOUS
<1>2. pc \in DOMAIN Asked /\ Asked[pc] = "start" /\ pc' = Refused[pc]
      /\ handler # "start" /\ handler' = handler
  BY <1>1 DEF InvokeFails
<1>3. pc \in {"invoke", "leave"}
  BY <1>2 DEF Asked
<1>4. pc = "invoke"
  BY <1>2, <1>3 DEF Asked
<1> QED BY <1>2, <1>4 DEF Refused

(* The handlers' thread and the invocations. *)
LEMMA HandlerStepInv ==
  ASSUME IInv, MayFail \subseteq {"start"},
         \/ InvokeStart \/ \E i \in MayFail : InvokeFails(i)
         \/ EvtCallFails \/ EvtReady
         \/ DispatchEnds \/ InvokeExit \/ EvtFlushed
  PROVE  Inv0'
<1> USE DEF IInv, Inv0
<1>0. UNCHANGED <<prog, modules, step, stackVars>>
  BY DEF InvokeStart, InvokeFails, EvtCallFails, EvtReady, DispatchEnds,
         InvokeExit, EvtFlushed, fixedVars
<1>1. main' = main /\ evt' = evt /\ live' = live /\ prog' = prog
      /\ step' = step /\ modules' = modules
  BY <1>0 DEF stackVars
<1>2. StackInv'
  BY <1>0, SameStacks
<1>3. CASE InvokeStart
  <2>1. pc = "invoke" /\ pc' = pc /\ handler = "idle" /\ handler' = "start"
    BY <1>3 DEF InvokeStart
  <2>2. MadeInv'
    BY <1>0, <2>1, SameMade
  <2> QED BY <1>1, <1>2, <2>1, <2>2 DEF PlaceInv, RunningInv
<1>4. CASE \E i \in MayFail : InvokeFails(i)
  <2>2. pc = "invoke" /\ pc' = "leave" /\ handler # "start" /\ handler' = handler
    BY <1>4, StartRefused
  <2> QED BY <1>1, <1>2, <2>2 DEF PlaceInv, RunningInv, MadeInv
<1>5. CASE EvtCallFails \/ EvtReady
  <2>1. handler = "start" /\ handler' = "idle" /\ pc' \in {"leave", "wait"}
    BY <1>5 DEF EvtCallFails, EvtReady
  <2> QED BY <1>1, <1>2, <2>1 DEF PlaceInv, RunningInv, MadeInv
<1>6. CASE DispatchEnds
  <2>1. handler = "event" /\ handler' = "idle" /\ pc' = pc
    BY <1>6 DEF DispatchEnds
  <2>2. MadeInv'
    BY <1>0, <2>1, SameMade
  <2> QED BY <1>1, <1>2, <2>1, <2>2 DEF PlaceInv, RunningInv
<1>7. CASE InvokeExit
  <2>1. pc = "leave" /\ handler = "idle" /\ handler' = "exit" /\ pc' = pc
    BY <1>7 DEF InvokeExit
  <2> QED BY <1>1, <1>2, <2>1 DEF PlaceInv, RunningInv, MadeInv
<1>8. CASE EvtFlushed
  <2>1. handler = "exit" /\ evt = <<>> /\ handler' = "idle" /\ pc' = "flush"
    BY <1>8 DEF EvtFlushed
  <2> QED BY <1>1, <1>2, <2>1 DEF PlaceInv, RunningInv, MadeInv
<1> QED BY <1>3, <1>4, <1>5, <1>6, <1>7, <1>8

(* Nothing but OnStart registers, so an event finds OnStart done and       *)
(* OnExitEventHandlers not begun.                                          *)
LEMMA DispatchInv ==
  ASSUME IInv, Dispatch
  PROVE  Inv0'
<1> USE DEF IInv, Inv0
<1>0. /\ UNCHANGED <<prog, modules, step, stackVars, pc>>
      /\ handler = "idle" /\ handler' = "event" /\ Registered # {}
  BY DEF Dispatch, fixedVars
<1>1. main' = main /\ evt' = evt /\ live' = live /\ prog' = prog
      /\ step' = step /\ modules' = modules /\ pc' = pc
  BY <1>0 DEF stackVars
<1>2. StackInv' /\ MadeInv'
  BY <1>0, SameStacks, SameMade
<1>3. evt # <<>>
  <2> SUFFICES ASSUME evt = <<>> PROVE FALSE
    OBVIOUS
  <2>1. Held = main
    BY ConcatEmpty DEF Held, StackInv
  <2>2. PICK r \in live : r[1] = "registered"
    BY <1>0 DEF Registered
  <2>3. PICK i \in DOMAIN main : main[i].res = r
    BY <2>1 DEF StackInv, StackOK
  <2> QED BY <2>2, <2>3 DEF RunningInv
<1>4. pc \in {"wait", "leave"}
  BY <1>0, <1>3 DEF PlaceInv
<1> QED BY <1>0, <1>1, <1>2, <1>4 DEF PlaceInv, RunningInv

LEMMA Within ==
  ASSUME NEW a \in Nat, NEW b \in Nat, NEW n \in Nat, n = a + b, NEW i \in 1..a
  PROVE  /\ i \in 1..n /\ i + 1 \in 1..(n + 1) /\ i \in Nat
         /\ i + 1 <= a + 1 /\ (i + 1) - 1 = i
  OBVIOUS

(* A call of the main recipe, made or passed over. *)
LEMMA MainPush ==
  ASSUME IInv, pc = "prepare", step \in DOMAIN prog.main, NEW call,
         call = prog.main[step],
         UNCHANGED <<prog, modules, pc, evt>>, step' = step + 1,
         main' = main \o Keep(call),
         \/ live' = live \cup Result(call)
         \/ ~call.tested /\ live' = live
  PROVE  /\ MadeInv' /\ StackInv'
         /\ \A i \in DOMAIN main' : main'[i].res[1] # "registered"
         /\ Held = main /\ Held' = main'
<1> USE DEF IInv, Inv0
<1> DEFINE R == Recipe(prog)
<1>1. WellFormed(prog)
  BY ProgFits
<1>2. /\ Len(prog.main) \in Nat /\ Len(R) \in Nat /\ Len(prog.evt) \in Nat
      /\ Len(R) = Len(prog.main) + Len(prog.evt)
      /\ DOMAIN R = 1..Len(R) /\ DOMAIN prog.main = 1..Len(prog.main)
      /\ call = R[step] /\ call \in Calls
  BY <1>1, RecipeType, Zenon
<1>3. step \in DOMAIN R /\ step \in Nat /\ step + 1 \in 1..(Len(R) + 1)
      /\ step + 1 <= Len(prog.main) + 1 /\ (step + 1) - 1 = step
  <2>1. step \in 1..Len(prog.main)
    BY <1>2
  <2>2. step \in 1..Len(R) /\ step + 1 \in 1..(Len(R) + 1) /\ step \in Nat
        /\ step + 1 <= Len(prog.main) + 1 /\ (step + 1) - 1 = step
    BY <1>2, <2>1, Within, Zenon
  <2> QED BY <1>2, <2>2, Zenon
<1>4. evt = <<>> /\ evt' = <<>> /\ Held = main
  BY ConcatEmpty DEF PlaceInv, StackInv, Held
<1>5. Position = step /\ Position' = step + 1
  BY DEF Position
<1>6. Taken(prog, step, main, live)
  BY <1>4, <1>5 DEF StackInv, MadeInv, Taken
<1>a. Taken(prog, step + 1, main \o Keep(call), live')
  BY <1>1, <1>2, <1>3, <1>6, TakeCall, Zenon
<1>7. /\ main' \in Seq(Calls) /\ StackOK(main', live')
      /\ Made(prog, step + 1) \subseteq live'
      /\ \A i \in DOMAIN main' : \E j \in 1..step : main'[i] = R[j]
  BY <1>3, <1>a, Zenon DEF Taken
<1>8. Held' = main'
  BY <1>4, <1>7, ConcatEmpty DEF Held
<1>9. StackInv'
  BY <1>4, <1>7, <1>8 DEF StackInv
<1>10. MadeInv'
  <2>1. Position' - 1 = step /\ Recipe(prog') = R
    BY <1>3, <1>5
  <2>2. \A i \in DOMAIN Held' : \E j \in 1..(Position' - 1) :
          Held'[i] = Recipe(prog')[j]
    BY <1>7, <1>8, <2>1, Zenon
  <2>3. Made(prog', Position') \subseteq live'
    BY <1>5, <1>7, Zenon
  <2> QED BY <1>3, <1>5, <2>2, <2>3 DEF MadeInv
<1>11. ASSUME NEW i \in DOMAIN main' PROVE main'[i].res[1] # "registered"
  <2>1. PICK j \in 1..step : main'[i] = R[j]
    BY <1>7
  <2>2. j \in DOMAIN prog.main
    BY <1>2
  <2>3. prog.main[j] = R[j]
    BY <1>1, <2>2, RecipeType
  <2> QED BY <1>1, <2>1, <2>2, <2>3 DEF WellFormed
<1> QED BY <1>4, <1>8, <1>9, <1>10, <1>11

LEMMA MainCallInv ==
  ASSUME IInv, MainCall
  PROVE  Inv0' /\ evt = <<>> /\ Held = main /\ Held' = main'
<1> USE DEF IInv, Inv0
<1> DEFINE call == prog.main[step]
<1>0. /\ pc = "prepare" /\ step \in DOMAIN prog.main
      /\ pc' = pc /\ prog' = prog /\ modules' = modules /\ evt' = evt
      /\ step' = step + 1 /\ main' = main \o Keep(call)
      /\ live' = live \cup Result(call)
      /\ handler' = IF call.res = Running THEN "idle" ELSE handler
  BY DEF MainCall, fixedVars
<1>1. /\ MadeInv' /\ StackInv' /\ Held = main /\ Held' = main'
      /\ \A i \in DOMAIN main' : main'[i].res[1] # "registered"
  BY <1>0, MainPush
<1>2. call.res = Running => prog.threaded
  BY <1>0, ProgFits DEF WellFormed
<1>3. call.res = Running => Running \in Result(call)
  <2>1. Running # None
    BY DEF Running, None
  <2> QED BY <2>1 DEF Result
<1>4. call.res # Running => Running \notin Result(call)
  BY DEF Result
<1> HIDE DEF call
<1>5. evt = <<>> /\ handler \notin {"start", "exit", "event"}
  BY <1>0 DEF PlaceInv
<1>6. PlaceInv'
  BY <1>0, <1>2, <1>5 DEF PlaceInv
<1>7. RunningInv'
  BY <1>0, <1>1, <1>3, <1>4, <1>5 DEF RunningInv
<1> QED BY <1>1, <1>5, <1>6, <1>7

LEMMA MainCallFailsInv ==
  ASSUME IInv, MainCallFails
  PROVE  Inv0' /\ evt = <<>> /\ Held = main /\ Held' = main'
<1> USE DEF IInv, Inv0
<1> DEFINE call == prog.main[step]
<1>0. /\ pc = "prepare" /\ step \in DOMAIN prog.main
      /\ prog' = prog /\ modules' = modules /\ evt' = evt /\ live' = live
      /\ handler' = handler
      /\ main' = (IF call.tested THEN main ELSE main \o Keep(call))
      /\ pc' = (IF call.tested THEN "flush" ELSE pc)
      /\ step' = (IF call.tested THEN step ELSE step + 1)
  BY DEF MainCallFails, fixedVars
<1>1. evt = <<>> /\ handler \notin {"start", "exit", "event"}
  BY <1>0 DEF PlaceInv
<1>2. PlaceInv'
  BY <1>0, <1>1 DEF PlaceInv
<1>3. CASE call.tested
  <2>1. main' = main /\ pc' = "flush"
    BY <1>0, <1>3
  <2>2. StackInv' /\ Held' = Held
    BY <1>0, <2>1, SameStacks DEF stackVars
  <2>3. Held = main
    BY <1>1, ConcatEmpty DEF Held, StackInv
  <2>4. RunningInv' /\ MadeInv'
    BY <1>0, <1>1, <2>1 DEF RunningInv, MadeInv
  <2> QED BY <1>1, <1>2, <2>1, <2>2, <2>3, <2>4
<1>4. CASE ~call.tested
  <2>1. /\ main' = main \o Keep(call) /\ pc' = pc /\ step' = step + 1
    BY <1>0, <1>4
  <2>2. /\ MadeInv' /\ StackInv' /\ Held = main /\ Held' = main'
        /\ \A i \in DOMAIN main' : main'[i].res[1] # "registered"
    BY <1>0, <1>4, <2>1, MainPush
  <2>3. RunningInv'
    BY <1>0, <1>1, <2>1, <2>2 DEF RunningInv
  <2> QED BY <1>1, <1>2, <2>2, <2>3
<1> QED BY <1>3, <1>4

(* A call of OnStart. *)
LEMMA EvtCallInv ==
  ASSUME IInv, EvtCall
  PROVE  /\ Inv0'
         /\ step \in DOMAIN prog.evt /\ pc = "invoke" /\ pc' = pc
         /\ Held \in Seq(Calls) /\ Held' = Held \o Keep(prog.evt[step])
<1> USE DEF IInv, Inv0
<1> DEFINE call == prog.evt[step]
           R == Recipe(prog)
           n == Len(prog.main)
           k == n + step
<1>0. /\ handler = "start" /\ step \in DOMAIN prog.evt
      /\ pc' = pc /\ prog' = prog /\ modules' = modules /\ main' = main
      /\ step' = step + 1 /\ evt' = evt \o Keep(call)
      /\ live' = live \cup Result(call) /\ handler' = handler
  BY DEF EvtCall, fixedVars
<1>1. WellFormed(prog) /\ pc = "invoke"
  BY <1>0, ProgFits DEF PlaceInv
<1>2. /\ n \in Nat /\ Len(R) \in Nat /\ Len(prog.evt) \in Nat
      /\ Len(R) = n + Len(prog.evt)
      /\ DOMAIN R = 1..Len(R) /\ DOMAIN prog.evt = 1..Len(prog.evt)
      /\ call = R[k] /\ call \in Calls /\ DOMAIN prog.main = 1..n
  BY <1>0, <1>1, RecipeType, Zenon
<1> HIDE DEF n
<1>3. k \in DOMAIN R /\ k \in Nat /\ k + 1 \in 1..(Len(R) + 1)
      /\ (k + 1) - 1 = k /\ n + (step + 1) = k + 1 /\ step \in Nat
      /\ step + 1 >= 1 /\ k > n
  <2>1. step \in 1..Len(prog.evt)
    BY <1>0, <1>2
  <2>2. k \in 1..Len(R)
    BY <1>2, <2>1
  <2> QED BY <1>2, <2>1, <2>2
<1>4. Position = k /\ Position' = k + 1
  BY <1>0, <1>1, <1>3 DEF Position, n
<1>5. /\ main \in Seq(Calls) /\ evt \in Seq(Calls)
      /\ Held \in Seq(Calls) /\ StackOK(Held, live)
      /\ Made(prog, k) \subseteq live
      /\ \A i \in DOMAIN Held : \E j \in 1..(k - 1) : Held[i] = R[j]
  <2>1. main \in Seq(Calls) /\ evt \in Seq(Calls) /\ StackOK(Held, live)
    BY DEF StackInv
  <2>2. Held \in Seq(Calls)
    BY <2>1 DEF Held
  <2> QED BY <1>1, <1>4, <2>1, <2>2 DEF MadeInv
<1>6. /\ Keep(call) \in Seq(Calls)
      /\ Held' = Held \o Keep(call) /\ evt' \in Seq(Calls)
  <2>1. Keep(call) \in Seq(Calls)
    BY <1>2 DEF Keep
  <2>2. main \o (evt \o Keep(call)) = (main \o evt) \o Keep(call)
    <3> DEFINE c == Keep(call)
    <3>1. main \in Seq(Calls) /\ evt \in Seq(Calls) /\ c \in Seq(Calls)
      BY <1>5, <2>1
    <3> HIDE DEF c
    <3>2. main \o (evt \o c) = (main \o evt) \o c
      BY <3>1, ConcatAppend
    <3> QED BY <3>2 DEF c
  <2> QED BY <1>0, <1>5, <2>1, <2>2 DEF Held
<1> HIDE DEF call, k
<1>b. Taken(prog, k, Held, live)
  BY <1>5 DEF Taken
<1>a. Taken(prog, k + 1, Held \o Keep(call), live')
  BY <1>0, <1>1, <1>2, <1>3, <1>b, TakeCall, Zenon
<1>7. /\ Held' \in Seq(Calls) /\ StackOK(Held', live')
      /\ Made(prog, k + 1) \subseteq live'
      /\ \A i \in DOMAIN Held' : \E j \in 1..k : Held'[i] = R[j]
  BY <1>3, <1>6, <1>a, Zenon DEF Taken
<1>8. StackInv'
  BY <1>0, <1>5, <1>6, <1>7 DEF StackInv
<1>9. MadeInv'
  BY <1>0, <1>1, <1>3, <1>4, <1>7 DEF MadeInv
<1>10. PlaceInv'
  BY <1>0, <1>1 DEF PlaceInv
<1>11. call.res # Running
  <2>1. PICK j \in 1..n : prog.main[j].res = Running
    BY <1>1, <1>2 DEF WellFormed, PlaceInv
  <2>2. j \in 1..(k - 1) /\ R[j].res = Running
    <3>1. j \in DOMAIN prog.main /\ prog.main[j] = R[j]
      BY <1>1, <1>2, RecipeType
    <3> QED BY <1>2, <1>3, <2>1, <3>1
  <2>3. Running # None
    BY DEF Running, None
  <2> QED BY <1>1, <1>2, <1>3, <2>2, <2>3 DEF WellFormed
<1>12. \A i \in DOMAIN evt' : evt'[i].res # Running
  <2>1. CASE Keep(call) = <<>>
    BY <1>0, <1>5, <2>1, ConcatEmpty DEF RunningInv
  <2>2. CASE Keep(call) = <<call>>
    <3>1. /\ DOMAIN evt' = 1..(Len(evt) + 1) /\ evt'[Len(evt) + 1] = call
          /\ DOMAIN evt = 1..Len(evt) /\ Len(evt) \in Nat
          /\ \A i \in 1..Len(evt) : evt'[i] = evt[i]
      BY <1>0, <1>2, <1>5, <2>2, Pushed
    <3>2. \A i \in 1..(Len(evt) + 1) : i = Len(evt) + 1 \/ i \in 1..Len(evt)
      BY <3>1
    <3> QED BY <1>11, <3>1, <3>2 DEF RunningInv
  <2> QED BY <2>1, <2>2 DEF Keep
<1>13. RunningInv'
  <2>1. Running \in live' <=> Running \in live
    BY <1>0, <1>11 DEF Result
  <2> QED BY <1>0, <1>12, <2>1 DEF RunningInv
<1> QED BY <1>0, <1>1, <1>5, <1>6, <1>8, <1>9, <1>10, <1>13 DEF call

(* OnExitEventHandlers undoes the youngest of what OnStart made. *)
LEMMA EvtReleaseInv ==
  ASSUME IInv, EvtRelease
  PROVE  /\ Inv0'
         /\ pc = "leave" /\ pc' = pc /\ Held # <<>> /\ Held' = Pop(Held)
<1> USE DEF IInv, Inv0
<1>0. /\ handler = "exit" /\ evt # <<>> /\ handler' = handler
      /\ live' = live \ {Top(evt).res} /\ evt' = Pop(evt)
      /\ main' = main /\ pc' = pc /\ prog' = prog /\ modules' = modules
      /\ step' = step
  BY DEF EvtRelease, fixedVars
<1>1. pc = "leave" /\ prog.threaded
  BY <1>0 DEF PlaceInv
<1>2. main \in Seq(Calls) /\ evt \in Seq(Calls) /\ StackOK(Held, live)
  BY DEF StackInv
<1>3. /\ Held # <<>> /\ Held' = Pop(Held) /\ Top(Held) = Top(evt)
      /\ Held \in Seq(Calls)
  <2>1. main \o evt # <<>> /\ main \o Pop(evt) = Pop(main \o evt)
        /\ Top(main \o evt) = Top(evt)
    BY <1>0, <1>2, PopConcat
  <2>2. main \o evt \in Seq(Calls)
    BY <1>2
  <2> QED BY <1>0, <2>1, <2>2 DEF Held
<1>4. /\ Pop(evt) \in Seq(Calls) /\ DOMAIN Pop(evt) = 1..(Len(evt) - 1)
      /\ Len(evt) \in Nat /\ DOMAIN evt = 1..Len(evt)
      /\ \A i \in 1..(Len(evt) - 1) : Pop(evt)[i] = evt[i]
      /\ Top(evt) = evt[Len(evt)] /\ Len(evt) \in DOMAIN evt
  BY <1>0, <1>2, Popped
<1>5. StackOK(Held', live')
  BY <1>0, <1>2, <1>3, PopStack
<1>6. StackInv'
  BY <1>0, <1>2, <1>4, <1>5 DEF StackInv
<1>7. Top(evt).res # Running
  BY <1>4 DEF RunningInv
<1>8. \A i \in DOMAIN evt' : evt'[i].res # Running
  <2>1. \A i \in 1..(Len(evt) - 1) : i \in 1..Len(evt)
    BY <1>4
  <2> QED BY <1>0, <1>4, <2>1 DEF RunningInv
<1>9. RunningInv'
  BY <1>0, <1>1, <1>7, <1>8 DEF RunningInv
<1>10. PlaceInv' /\ MadeInv'
  BY <1>0, <1>1 DEF PlaceInv, MadeInv
<1> QED BY <1>0, <1>1, <1>3, <1>6, <1>9, <1>10

(* DoWork undoes the youngest of what it made. *)
LEMMA MainReleaseInv ==
  ASSUME IInv, MainRelease
  PROVE  /\ Inv0'
         /\ pc = "flush" /\ pc' = pc /\ Held # <<>> /\ Held' = Pop(Held)
<1> USE DEF IInv, Inv0
<1>0. /\ pc = "flush" /\ main # <<>>
      /\ Top(main).res = Running => handler = "idle"
      /\ handler' = (IF Top(main).res = Running THEN "none" ELSE handler)
      /\ live' = live \ {Top(main).res} /\ main' = Pop(main)
      /\ evt' = evt /\ pc' = pc /\ prog' = prog /\ modules' = modules
      /\ step' = step
  BY DEF MainRelease, fixedVars
<1>1. evt = <<>> /\ handler \notin {"start", "exit", "event"}
  BY <1>0 DEF PlaceInv
<1>2. main \in Seq(Calls) /\ Held = main /\ StackOK(main, live)
  BY <1>1, ConcatEmpty DEF StackInv, Held
<1>3. /\ Pop(main) \in Seq(Calls) /\ DOMAIN Pop(main) = 1..(Len(main) - 1)
      /\ Len(main) \in Nat /\ DOMAIN main = 1..Len(main)
      /\ \A i \in 1..(Len(main) - 1) : Pop(main)[i] = main[i]
  BY <1>0, <1>2, Popped
<1>4. Held' = Pop(main)
  BY <1>0, <1>1, <1>3, ConcatEmpty DEF Held
<1>5. StackOK(Held', live')
  BY <1>0, <1>2, <1>4, PopStack
<1>6. StackInv'
  BY <1>0, <1>1, <1>3, <1>5 DEF StackInv
<1>7. \A i \in DOMAIN main' : main'[i].res[1] # "registered"
  <2>1. \A i \in 1..(Len(main) - 1) : i \in 1..Len(main)
    BY <1>3
  <2> QED BY <1>0, <1>3, <2>1 DEF RunningInv
<1>8. RunningInv'
  BY <1>0, <1>1, <1>7 DEF RunningInv
<1>9. PlaceInv' /\ MadeInv'
  BY <1>0, <1>1 DEF PlaceInv, MadeInv
<1> QED BY <1>0, <1>2, <1>4, <1>6, <1>8, <1>9

(* DoWork returns. *)
LEMMA MainFlushedInv ==
  ASSUME IInv, MainFlushed
  PROVE  Inv0' /\ pc = "flush" /\ pc' \in {"menu", "unload"} /\ Held = <<>>
<1> USE DEF IInv, Inv0
<1>0. /\ pc = "flush" /\ main = <<>> /\ pc' \in {"menu", "unload"}
      /\ UNCHANGED <<prog, modules, handler, step, stackVars>>
  BY DEF MainFlushed, fixedVars
<1>1. main' = main /\ evt' = evt /\ live' = live /\ evt = <<>>
  BY <1>0 DEF stackVars, PlaceInv
<1>2. StackInv'
  BY <1>0, SameStacks
<1>3. PlaceInv' /\ RunningInv' /\ MadeInv'
  BY <1>0, <1>1 DEF PlaceInv, RunningInv, MadeInv
<1>4. Held = <<>>
  BY <1>0, <1>1 DEF Held
<1> QED BY <1>0, <1>2, <1>3, <1>4

-----------------------------------------------------------------------------
(* The type invariant. *)
LEMMA MaxTypedType == MaxTyped \in Nat
  BY TestCaseAssumption

LEMMA GetCharType ==
  ASSUME TypeOK, GetChar
  PROVE  /\ kbd' \in Seq(Keys) /\ Len(kbd') <= MaxTyped
         /\ buf' \in Seq(Keys) /\ Len(buf') <= MaxTyped
         /\ eof' \in BOOLEAN
<1>1. /\ kbd \in Seq(Keys) /\ Len(kbd) <= MaxTyped
      /\ buf \in Seq(Keys) /\ Len(buf) <= MaxTyped /\ MaxTyped \in Nat
  BY TestCaseAssumption DEF TypeOK
<1>2. \A s \in Seq(Keys) : s # <<>> /\ Len(s) <= MaxTyped =>
        Tail(s) \in Seq(Keys) /\ Len(Tail(s)) <= MaxTyped
  BY <1>1
<1>3. <<>> \in Seq(Keys) /\ Len(<<>>) <= MaxTyped
  BY <1>1
<1>4. eof' \in BOOLEAN
  BY DEF GetChar, TypeOK
<1> QED BY <1>1, <1>2, <1>3, <1>4 DEF GetChar

LEMMA ModulesType ==
  ASSUME TypeOK, ModuleInit \/ ModuleUninit
  PROVE  modules' \in {<<>>, Modules}
<1>1. modules \in {<<>>, Modules}
  BY DEF TypeOK
<1>2. CASE ModuleInit
  <2>1. Len(Modules) = 1 /\ Modules[1] = "__zz_log__"
    BY DEF Modules
  <2>2. Len(modules) < Len(Modules)
        /\ modules' = Append(modules, Modules[Len(modules) + 1])
    BY <1>2 DEF ModuleInit
  <2>3. modules = <<>>
    BY <1>1, <2>1, <2>2
  <2>4. modules' = <<"__zz_log__">>
    <3>1. Len(modules) + 1 = 1
      BY <2>3
    <3>2. modules' = Append(<<>>, "__zz_log__")
      BY <2>1, <2>2, <2>3, <3>1
    <3> QED BY <3>2
  <2> QED BY <2>4 DEF Modules
<1>3. CASE ModuleUninit
  BY <1>1, <1>3 DEF ModuleUninit, Modules, Pop
<1> QED BY <1>2, <1>3

LEMMA TypeNext ==
  ASSUME TypeOK, Next
  PROVE  TypeOK'
<1> USE DEF TypeOK
<1>1. ASSUME NEW c \in Keys, Type(c) PROVE TypeOK'
  <2>1. kbd' \in Seq(Keys) /\ Len(kbd') <= MaxTyped
    <3>1. kbd \in Seq(Keys) /\ Len(kbd) < MaxTyped /\ kbd' = Append(kbd, c)
      BY <1>1 DEF Type
    <3>2. kbd' \in Seq(Keys) /\ Len(kbd') = Len(kbd) + 1 /\ Len(kbd) \in Nat
      BY <3>1
    <3> QED BY <3>1, <3>2, MaxTypedType
  <2> QED BY <1>1, <2>1 DEF Type, fixedVars
<1>2. CASE CloseStdin
  <2>1. eof' \in BOOLEAN
    BY <1>2, Zenon DEF CloseStdin
  <2> QED BY <1>2, <2>1 DEF CloseStdin, fixedVars
<1>3. CASE ModuleInit \/ ModuleUninit
  <2>1. modules' \in {<<>>, Modules}
    BY <1>3, ModulesType
  <2>2. pc' \in MainPlaces
    BY <1>3 DEF ModuleInit, ModuleUninit, MainPlaces
  <2> QED BY <1>3, <2>1, <2>2 DEF ModuleInit, ModuleUninit, inputVars
<1>4. ASSUME NEW t \in Texts, Run(t) PROVE TypeOK'
  <2>1. pc' \in MainPlaces
    BY <1>4 DEF Run, DoCase, MainPlaces
  <2>2. once' \in BOOLEAN
    BY <1>4, Zenon DEF Run
  <2> QED BY <1>4, <2>1, <2>2 DEF Run, inputVars
<1>5. CASE MenuKey
  <2>1. pc' \in MainPlaces
    BY <1>5 DEF MenuKey, DoCase, MainPlaces
  <2>2. GetChar
    BY <1>5 DEF MenuKey
  <2> QED BY <1>5, <2>1, <2>2, GetCharType DEF MenuKey, fixedVars
<1>6. CASE WaitKey
  <2>1. pc' \in MainPlaces
    BY <1>6 DEF WaitKey, Leave, MainPlaces
  <2>2. watch' \in BOOLEAN
    BY <1>6, Zenon DEF WaitKey
  <2>3. GetChar
    BY <1>6 DEF WaitKey
  <2> QED BY <1>6, <2>1, <2>2, <2>3, GetCharType DEF WaitKey, fixedVars
<1>7. CASE WaitTimeout
  <2>1. pc' \in MainPlaces
    BY <1>7 DEF WaitTimeout, Leave, MainPlaces
  <2>2. tick' \in BOOLEAN
    BY <1>7, Zenon DEF WaitTimeout
  <2> QED BY <1>7, <2>1, <2>2 DEF WaitTimeout, fixedVars, inputVars
<1>8. CASE MainReady \/ EvtReady
  <2>1. pc' \in MainPlaces /\ handler' \in HandlerPlaces /\ step' \in Nat
    BY <1>8 DEF MainReady, EvtReady, MainPlaces, HandlerPlaces
  <2>2. watch' \in BOOLEAN
    BY <1>8, Zenon DEF MainReady, EvtReady
  <2> QED BY <1>8, <2>1, <2>2 DEF MainReady, EvtReady, fixedVars, inputVars
<1>9. CASE MainCall \/ MainCallFails
  <2>1. pc' \in MainPlaces /\ handler' \in HandlerPlaces
    BY <1>9 DEF MainCall, MainCallFails, MainPlaces, HandlerPlaces
  <2>2. step' \in Nat
    BY <1>9 DEF MainCall, MainCallFails
  <2> QED BY <1>9, <2>1, <2>2 DEF MainCall, MainCallFails, fixedVars, inputVars
<1>10. CASE EvtCall \/ EvtCallFails
  <2>1. pc' \in MainPlaces /\ handler' \in HandlerPlaces
    BY <1>10 DEF EvtCall, EvtCallFails, MainPlaces, HandlerPlaces
  <2>2. step' \in Nat
    BY <1>10 DEF EvtCall, EvtCallFails
  <2> QED BY <1>10, <2>1, <2>2 DEF EvtCall, EvtCallFails, fixedVars, inputVars
<1>11. ASSUME NEW i \in MayFail, InvokeFails(i) PROVE TypeOK'
  <2>1. pc' \in MainPlaces
    BY <1>11 DEF InvokeFails, Asked, Refused, MainPlaces
  <2> QED BY <1>11, <2>1 DEF InvokeFails, fixedVars, inputVars
<1>12. CASE \/ MenuSelectFails \/ InvokeStart \/ Dispatch \/ DispatchEnds
            \/ WaitSelectFails \/ InvokeExit \/ EvtRelease \/ EvtFlushed
            \/ MainRelease \/ MainFlushed \/ Exited
  <2>1. pc' \in MainPlaces /\ handler' \in HandlerPlaces
    BY <1>12 DEF MenuSelectFails, InvokeStart, Dispatch, DispatchEnds,
         WaitSelectFails, InvokeExit, EvtRelease, EvtFlushed, MainRelease,
         MainFlushed, Exited, Leave, MainPlaces, HandlerPlaces, vars
  <2>2. UNCHANGED <<fixedVars, step, inputVars, watch, tick>>
    BY <1>12 DEF MenuSelectFails, InvokeStart, Dispatch, DispatchEnds,
         WaitSelectFails, InvokeExit, EvtRelease, EvtFlushed, MainRelease,
         MainFlushed, Exited, vars
  <2> QED BY <2>1, <2>2 DEF fixedVars, inputVars
<1> QED BY <1>1, <1>2, <1>3, <1>4, <1>5, <1>6, <1>7, <1>8, <1>9, <1>10,
           <1>11, <1>12, Zenon DEF Next

-----------------------------------------------------------------------------
LEMMA InitInv == Init => IInv
<1> SUFFICES ASSUME Init PROVE IInv
  OBVIOUS
<1> USE DEF Init
<1>1. TypeOK
  <2>1. once \in BOOLEAN /\ eof \in BOOLEAN /\ watch \in BOOLEAN
        /\ tick \in BOOLEAN
    BY Zenon
  <2>2. /\ kbd \in Seq(Keys) /\ Len(kbd) <= MaxTyped
        /\ buf \in Seq(Keys) /\ Len(buf) <= MaxTyped
    <3>1. <<>> \in Seq(Keys) /\ Len(<<>>) <= MaxTyped
      BY MaxTypedType
    <3> QED BY <3>1
  <2>3. pc \in MainPlaces /\ handler \in HandlerPlaces
    BY DEF MainPlaces, HandlerPlaces
  <2> QED BY <2>1, <2>2, <2>3 DEF TypeOK
<1>2. PlaceInv /\ RunningInv /\ MadeInv
  BY DEF PlaceInv, RunningInv, MadeInv
<1>3. StackInv
  <2>1. Held = <<>>
    BY DEF Held
  <2> QED BY <2>1 DEF StackInv, StackOK
<1> QED BY <1>1, <1>2, <1>3 DEF IInv, Inv0

LEMMA NextInv ==
  ASSUME IInv, [Next]_vars, MayFail \subseteq {"start"}
  PROVE  IInv'
<1>1. CASE UNCHANGED vars
  <2>1. Held' = Held /\ Position' = Position
    BY <1>1 DEF Held, Position, vars, fixedVars, stackVars
  <2> QED BY <1>1, <2>1
          DEF vars, fixedVars, stackVars, inputVars, IInv, Inv0, TypeOK,
              PlaceInv, RunningInv, MadeInv, StackInv
<1>2. CASE Next
  <2>1. TypeOK'
    BY <1>2, TypeNext DEF IInv
  <2>2. CASE Exited
    BY <1>1, <2>2 DEF Exited
  <2>3. CASE \/ MenuKey \/ MenuSelectFails
             \/ \E t \in Texts : Run(t)
             \/ ModuleInit \/ ModuleUninit
             \/ WaitTimeout \/ WaitKey \/ WaitSelectFails
             \/ \E c \in Keys : Type(c)
             \/ CloseStdin
    BY <2>1, <2>3, MainStepInv DEF IInv
  <2>4. CASE \/ InvokeStart \/ \E i \in MayFail : InvokeFails(i)
             \/ EvtCallFails \/ EvtReady
             \/ DispatchEnds \/ InvokeExit \/ EvtFlushed
    BY <2>1, <2>4, HandlerStepInv DEF IInv
  <2>5. CASE Dispatch \/ MainReady \/ MainCall \/ MainCallFails
    BY <2>1, <2>5, DispatchInv, MainReadyInv, MainCallInv, MainCallFailsInv
       DEF IInv
  <2>6. CASE EvtCall \/ EvtRelease \/ MainRelease \/ MainFlushed
    BY <2>1, <2>6, EvtCallInv, EvtReleaseInv, MainReleaseInv, MainFlushedInv
       DEF IInv
  <2> QED BY <1>2, <2>2, <2>3, <2>4, <2>5, <2>6, Zenon DEF Next
<1> QED BY <1>1, <1>2

-----------------------------------------------------------------------------
(* The inductive invariant holds as long as the invocation of              *)
(* OnExitEventHandlers succeeds.                                           *)
THEOREM Inductive ==
  ASSUME MayFail \subseteq {"start"}
  PROVE  Spec => []IInv
<1>1. Init => IInv
  BY InitInv
<1>2. IInv /\ [Next]_vars => IInv'
  BY NextInv
<1> QED BY <1>1, <1>2, PTL DEF Spec

(* The places of App0::Run, DoWork and the handlers' thread, the step of   *)
(* the recipe and the bytes of standard input keep their types, whatever   *)
(* invocation fails.                                                       *)
THEOREM TypeCorrect == Spec => []TypeOK
<1>1. Init => TypeOK
  BY InitInv DEF IInv
<1>2. TypeOK /\ [Next]_vars => TypeOK'
  <2>1. ASSUME TypeOK, UNCHANGED vars PROVE TypeOK'
    BY <2>1 DEF TypeOK, vars, fixedVars, stackVars, inputVars
  <2> QED BY <2>1, TypeNext
<1> QED BY <1>1, <1>2, PTL DEF Spec

(* Every release pushed on a free_stack_t finds what it undoes and what    *)
(* that refers to, for every program whose calls fit and every call that   *)
(* fails.                                                                  *)
THEOREM UsesLiveHolds ==
  ASSUME MayFail \subseteq {"start"}
  PROVE  Spec => []UsesLive
<1>1. IInv => UsesLive
  BY DEF IInv, Inv0, StackInv, StackOK, Held, Refers, UsesLive
<1> QED BY <1>1, Inductive, PTL

(* DoWork leaves nothing on the stacks and nothing live, and nothing       *)
(* outlives the modules.                                                   *)
THEOREM NothingLeftHolds ==
  ASSUME MayFail \subseteq {"start"}
  PROVE  Spec => []NothingLeft
<1>1. ASSUME IInv, pc \in {"load", "menu", "unload", "exited"}
      PROVE  main = <<>> /\ evt = <<>> /\ live = {}
  <2>1. main = <<>> /\ evt = <<>>
    BY <1>1 DEF IInv, Inv0, PlaceInv
  <2>2. DOMAIN Held = {}
    BY <2>1 DEF Held
  <2> QED BY <1>1, <2>1, <2>2 DEF IInv, Inv0, StackInv, StackOK
<1>2. IInv => NothingLeft
  BY <1>1 DEF IInv, Inv0, PlaceInv, NothingLeft
<1> QED BY <1>2, Inductive, PTL

(* The handlers outlive what OnStart made, and no event is dispatched      *)
(* while OnStart or OnExitEventHandlers is half done.                      *)
THEOREM FlushedByOwnerHolds ==
  ASSUME MayFail \subseteq {"start"}
  PROVE  Spec => []FlushedByOwner
<1>1. IInv => FlushedByOwner
  BY DEF IInv, Inv0, PlaceInv, RunningInv, FlushedByOwner
<1> QED BY <1>1, Inductive, PTL

-----------------------------------------------------------------------------
(* The two stacks as one. *)
LEMMA InitImplements == Init => Abstract!Init
  BY DEF Init, Abstract!Init

LEMMA CallIsThing ==
  ASSUME TypeOK, NEW call,
         \/ \E i \in DOMAIN prog.main : call = prog.main[i]
         \/ \E i \in DOMAIN prog.evt : call = prog.evt[i]
  PROVE  call \in UNION {{p.main[i] : i \in DOMAIN p.main}
                         \cup {p.evt[i] : i \in DOMAIN p.evt} : p \in Programs}
<1>1. prog \in Programs
  BY DEF TypeOK
<1> QED BY <1>1

(* A call is kept, or nothing happens. *)
LEMMA KeepImplements ==
  ASSUME TypeOK, Held \in Seq(Calls), NEW call, call \in Calls,
         \/ \E i \in DOMAIN prog.main : call = prog.main[i]
         \/ \E i \in DOMAIN prog.evt : call = prog.evt[i],
         pc \in {"prepare", "invoke"}, pc' = pc, Held' = Held \o Keep(call)
  PROVE  [Abstract!Next]_(Abstract!vars)
<1>1. CASE call.res = None
  <2>1. Keep(call) = <<>>
    BY <1>1 DEF Keep
  <2>2. Held' = Held
    BY <2>1, ConcatEmpty
  <2> QED BY <2>2 DEF Held, Abstract!vars
<1>2. CASE call.res # None
  <2>1. Keep(call) = <<call>>
    BY <1>2 DEF Keep
  <2>2. Held' = Append(Held, call)
    BY <2>1, Pushed
  <2>3. Abstract!Acquire
    BY <2>2, CallIsThing DEF Held, Abstract!Acquire
  <2> QED BY <2>3 DEF Abstract!Next
<1> QED BY <1>1, <1>2

LEMMA NextImplements ==
  ASSUME IInv, [Next]_vars, MayFail \subseteq {"start"}
  PROVE  [Abstract!Next]_(Abstract!vars)
<1> DEFINE Goal == [Abstract!Next]_(Abstract!vars)
<1> USE DEF IInv, Inv0
<1>1. ASSUME main' = main, evt' = evt,
             pc' \in {"leave", "flush"} <=> pc \in {"leave", "flush"}
      PROVE  Goal
  BY <1>1 DEF Abstract!vars
<1>2. ASSUME main' = main, evt' = evt, pc \notin {"leave", "flush"},
             pc' \in {"leave", "flush"}
      PROVE  Goal
  BY <1>2 DEF Abstract!Next, Abstract!Close
<1>3. CASE UNCHANGED vars
  BY <1>1, <1>3 DEF vars, stackVars
<1>4. CASE \/ Exited \/ MenuKey \/ MenuSelectFails \/ ModuleInit \/ ModuleUninit
           \/ \E t \in Texts : Run(t)
           \/ \E c \in Keys : Type(c)
           \/ CloseStdin \/ MainReady \/ InvokeStart \/ EvtReady \/ Dispatch
           \/ DispatchEnds \/ InvokeExit \/ EvtFlushed
  <2>1. main' = main /\ evt' = evt
    BY <1>4 DEF Exited, MenuKey, MenuSelectFails, ModuleInit, ModuleUninit,
         Run, Type, CloseStdin, MainReady, InvokeStart, EvtReady, Dispatch,
         DispatchEnds, InvokeExit, EvtFlushed, vars, stackVars
  <2>2. pc' \in {"leave", "flush"} <=> pc \in {"leave", "flush"}
    BY <1>4 DEF Exited, MenuKey, MenuSelectFails, ModuleInit, ModuleUninit,
         Run, Type, CloseStdin, MainReady, InvokeStart, EvtReady, Dispatch,
         DispatchEnds, InvokeExit, EvtFlushed, vars, DoCase, PlaceInv
  <2> QED BY <1>1, <2>1, <2>2
<1>5. CASE \/ WaitTimeout \/ WaitKey \/ WaitSelectFails \/ EvtCallFails
           \/ \E i \in MayFail : InvokeFails(i)
  <2>1. main' = main /\ evt' = evt
    BY <1>5 DEF WaitTimeout, WaitKey, WaitSelectFails, EvtCallFails,
         InvokeFails, stackVars
  <2>2. \/ pc = "wait" /\ pc' \in {"wait", "leave", "flush"}
        \/ pc = "invoke" /\ pc' = "leave"
    <3>1. CASE WaitTimeout \/ WaitKey \/ WaitSelectFails
      BY <3>1 DEF WaitTimeout, WaitKey, WaitSelectFails, Leave
    <3>2. CASE EvtCallFails
      BY <3>2 DEF EvtCallFails, PlaceInv
    <3>3. CASE \E i \in MayFail : InvokeFails(i)
      BY <3>3, StartRefused
    <3> QED BY <1>5, <3>1, <3>2, <3>3
  <2> QED BY <1>1, <1>2, <2>1, <2>2
<1>6. CASE MainCall \/ MainCallFails
  <2> DEFINE call == prog.main[step]
  <2>1. /\ pc = "prepare" /\ step \in DOMAIN prog.main /\ evt' = evt
        /\ \/ pc' = pc /\ main' = main \o Keep(call)
           \/ pc' = "flush" /\ main' = main
    BY <1>6 DEF MainCall, MainCallFails
  <2>2. Held = main /\ Held' = main' /\ main \in Seq(Calls)
    BY <1>6, MainCallInv, MainCallFailsInv DEF StackInv
  <2>3. CASE pc' = "flush" /\ main' = main
    BY <1>2, <2>1, <2>3
  <2>4. CASE pc' = pc /\ main' = main \o Keep(call)
    <3>1. call \in Calls
      BY <2>1, ProgFits, RecipeType
    <3> HIDE DEF call
    <3>2. Held' = Held \o Keep(call) /\ Held \in Seq(Calls)
      BY <2>2, <2>4
    <3>3. \E i \in DOMAIN prog.main : call = prog.main[i]
      BY <2>1 DEF call
    <3> QED BY <2>1, <2>4, <3>1, <3>2, <3>3, KeepImplements
  <2> QED BY <2>1, <2>3, <2>4
<1>7. CASE EvtCall
  <2> DEFINE call == prog.evt[step]
  <2>1. /\ step \in DOMAIN prog.evt /\ pc = "invoke" /\ pc' = pc
        /\ Held \in Seq(Calls) /\ Held' = Held \o Keep(call)
    BY <1>7, EvtCallInv
  <2>2. call \in Calls
    BY <2>1, ProgFits, RecipeType
  <2>3. \E i \in DOMAIN prog.evt : call = prog.evt[i]
    BY <2>1
  <2> HIDE DEF call
  <2> QED BY <2>1, <2>2, <2>3, KeepImplements
<1>8. CASE EvtRelease \/ MainRelease
  <2>1. /\ pc \in {"leave", "flush"} /\ pc' = pc
        /\ Held # <<>> /\ Held' = Pop(Held)
    BY <1>8, EvtReleaseInv, MainReleaseInv
  <2>2. Abstract!Release
    BY <2>1 DEF Held, Pop, Abstract!Release
  <2> QED BY <2>2 DEF Abstract!Next
<1>9. CASE MainFlushed
  <2>1. pc = "flush" /\ pc' \in {"menu", "unload"} /\ Held = <<>>
    BY <1>9, MainFlushedInv
  <2>2. main' = main /\ evt' = evt
    BY <1>9 DEF MainFlushed, stackVars
  <2>3. Abstract!Finish
    BY <2>1, <2>2 DEF Held, Abstract!Finish
  <2> QED BY <2>3 DEF Abstract!Next
<1> QED BY <1>3, <1>4, <1>5, <1>6, <1>7, <1>8, <1>9, Zenon DEF Next

(* The two free stacks, filled and flushed by two threads, are one stack:  *)
(* every step of the program acquires, begins to undo, releases the        *)
(* youngest, or finishes with nothing left, or leaves the stack alone.     *)
(* This is the safety part of ImplementsReleaseOrder.                      *)
THEOREM ReleasesInOrder ==
  ASSUME MayFail \subseteq {"start"}
  PROVE  Spec => Abstract!Spec
<1>1. Init => Abstract!Init
  BY InitImplements
<1>2. IInv /\ [Next]_vars => [Abstract!Next]_(Abstract!vars)
  BY NextImplements
<1> QED BY <1>1, <1>2, Inductive, PTL DEF Spec, Abstract!Spec
=============================================================================
