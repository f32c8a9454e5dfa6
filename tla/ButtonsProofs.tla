---------------------------- MODULE ButtonsProofs ---------------------------
(***************************************************************************)
(* Proofs about Buttons for any keys and a kernel queue of any size.       *)
(***************************************************************************)
EXTENDS Buttons, SequenceTheorems, TLAPS

Event == [type : {"key", "syn", "dropped"}, code : Codes \cup {0}, value : 0..2,
          time : Nat, since : Nat]

(* The presses and releases of c that the monitor has still to read. *)
Changes(e, c) == e.type = "key" /\ e.code = c /\ e.value # 2
Mine(q, c) == {i \in 1..Len(q) : Changes(q[i], c)}

(* The first n events of q make the press time of c, p before them, t, and *)
(* leave it pressed.                                                       *)
Stands(q, c, n, p, t) ==
  /\ (\A j \in Mine(q, c) : j > n) => p = t
  /\ \A j \in Mine(q, c) :
       (j <= n /\ \A k \in Mine(q, c) : k <= n => k <= j)
         => q[j].value = 1 /\ q[j].time = t

(* All of q takes the state of c from p to t: 1 is pressed, 0 is released. *)
Says(q, c, p, t) ==
  \/ Mine(q, c) = {} /\ p = t
  \/ \E j \in Mine(q, c) : (\A k \in Mine(q, c) : k <= j) /\ q[j].value = t

Bit(x, S) == IF x \in S THEN 1 ELSE 0

-----------------------------------------------------------------------------
(* Before the loop nothing is read. *)
StartInv ==
  /\ queue \in Seq(Event)
  /\ held \in [reported : Int, true : Int]
  /\ pc = "start" => queue = <<>>
  /\ pc \in {"start", "open"} => pressTimes = [i \in Ids |-> 0]

(* SYN_DROPPED is queued only when events were lost. *)
DropInv == ~dropped => \A i \in 1..Len(queue) : queue[i].type # "dropped"

(* Every queued release carries the press time the monitor will have when  *)
(* it reads it, and a key held down the one its release will carry.        *)
PressInv ==
  ~dropped =>
    \A c \in ButtonCodes :
      /\ \A i \in 1..Len(queue) :
           (queue[i].type = "key" /\ queue[i].code = c /\ queue[i].value = 0)
             => Stands(queue, c, i - 1, pressTimes[code_to_id(c)], queue[i].since)
      /\ c \in down => Stands(queue, c, Len(queue), pressTimes[code_to_id(c)],
                              since[c])

(* States and queue together are the keys that are down. *)
SaidInv ==
  printed /\ ~dropped =>
    \A c \in ButtonCodes :
      Says(queue, c, Bit(code_to_id(c), states), Bit(c, down))

(* The inductive invariant. *)
IInv == TypeOK /\ StartInv /\ DropInv /\ PressInv /\ SaidInv /\ HeldIsTrue

-----------------------------------------------------------------------------
(* The codes of the buttons and their ids. *)
LEMMA CodeToId ==
  ASSUME NEW c \in Nat
  PROVE  /\ code_to_id(c) # Unknown => c \in 256..260 /\ code_to_id(c) = c - 256
         /\ code_to_id(c) # Unknown => code_to_id(c) \in Ids
  BY DEF code_to_id, Unknown, Button0, Count, Ids

LEMMA ButtonIds ==
  ASSUME NEW c \in ButtonCodes
  PROVE  c \in Codes /\ c \in Nat /\ code_to_id(c) = c - 256 /\ code_to_id(c) \in Ids
<1>1. c \in Codes /\ c \in Nat /\ code_to_id(c) # Unknown
  BY ButtonAssumption DEF ButtonCodes
<1> QED BY <1>1, CodeToId

(* A key change that fits into the queue. *)
LEMMA Grown ==
  ASSUME NEW q \in Seq(Event), NEW e \in Event, NEW s \in Event,
         NEW q1, q1 = Append(Append(q, e), s)
  PROVE  /\ q1 \in Seq(Event) /\ Len(q) \in Nat /\ Len(q1) = Len(q) + 2
         /\ \A i \in 1..Len(q) : q1[i] = q[i]
         /\ q1[Len(q) + 1] = e /\ q1[Len(q) + 2] = s
<1> DEFINE r == Append(q, e)
<1>1. /\ r \in Seq(Event) /\ Len(r) = Len(q) + 1
      /\ \A i \in 1..Len(q) : r[i] = q[i]
      /\ r[Len(q) + 1] = e
  BY AppendProperties
<1>2. q1 = Append(r, s)
  OBVIOUS
<1> HIDE DEF r
<1>3. /\ q1 \in Seq(Event) /\ Len(q1) = Len(r) + 1
      /\ \A i \in 1..Len(r) : q1[i] = r[i]
      /\ q1[Len(r) + 1] = s
  BY <1>1, <1>2, AppendProperties
<1>4. Len(q) \in Nat
  OBVIOUS
<1>5. PICK n \in Nat : n = Len(q)
  BY <1>4
<1>6. Len(r) = n + 1 /\ Len(q1) = n + 2 /\ q1[n + 2] = s
  <2>1. Len(r) = n + 1
    BY <1>1, <1>5
  <2>2. Len(r) + 1 = n + 2
    BY <2>1
  <2> QED BY <1>3, <2>1, <2>2
<1>7. \A i \in 1..n : i \in 1..(n + 1)
  OBVIOUS
<1>8. n + 1 \in 1..(n + 1)
  OBVIOUS
<1>9. \A i \in 1..n : q1[i] = q[i]
  BY <1>1, <1>3, <1>5, <1>6, <1>7
<1>10. q1[n + 1] = e
  BY <1>1, <1>3, <1>5, <1>6, <1>8
<1> QED BY <1>3, <1>5, <1>6, <1>9, <1>10

(* q1 is q with a report of the key event e. *)
Report(q, e, q1) == \E s \in Event : s.type = "syn" /\ q1 = Append(Append(q, e), s)

(* What such a report does to the changes of c. *)
MineAfter(q, e, q1, c) ==
  /\ \A i \in Mine(q, c) : i \in 1..Len(q) /\ q1[i] = q[i]
  /\ Changes(e, c) => Mine(q1, c) = Mine(q, c) \cup {Len(q) + 1}
  /\ ~Changes(e, c) => Mine(q1, c) = Mine(q, c)
  /\ Len(q) \in Nat /\ Len(q1) = Len(q) + 2 /\ q1[Len(q) + 1] = e

LEMMA MineGrown ==
  ASSUME NEW q \in Seq(Event), NEW e \in Event, NEW q1, Report(q, e, q1), NEW c
  PROVE  MineAfter(q, e, q1, c)
<1>0. PICK s \in Event : s.type = "syn" /\ q1 = Append(Append(q, e), s)
  BY DEF Report
<1>1. /\ Len(q) \in Nat /\ Len(q1) = Len(q) + 2
      /\ \A i \in 1..Len(q) : q1[i] = q[i]
      /\ q1[Len(q) + 1] = e /\ q1[Len(q) + 2] = s
  BY <1>0, Grown
<1>2. PICK n \in Nat : n = Len(q)
  BY <1>1
<1>3. 1..Len(q1) = 1..n \cup {n + 1, n + 2}
  <2>1. 1..(n + 2) = 1..n \cup {n + 1, n + 2}
    OBVIOUS
  <2> QED BY <1>1, <1>2, <2>1
<1>4. q1[n + 1] = e /\ q1[n + 2] = s /\ \A i \in 1..n : q1[i] = q[i]
  BY <1>1, <1>2
<1>5. ~Changes(s, c)
  BY <1>0 DEF Changes
<1>6. \A i : i \in Mine(q, c) <=> i \in 1..n /\ Changes(q[i], c)
  BY <1>2 DEF Mine
<1>7. \A i : i \in Mine(q1, c) <=> i \in 1..n \cup {n + 1, n + 2} /\ Changes(q1[i], c)
  BY <1>3 DEF Mine
<1>8. \A i : i \in Mine(q1, c) <=> (i \in Mine(q, c) \/ (i = n + 1 /\ Changes(e, c)))
  BY <1>4, <1>5, <1>6, <1>7
<1>9. Changes(e, c) => Mine(q1, c) = Mine(q, c) \cup {n + 1}
  BY <1>8
<1>10. ~Changes(e, c) => Mine(q1, c) = Mine(q, c)
  BY <1>8
<1>11. \A i \in Mine(q, c) : i \in 1..n /\ q1[i] = q[i]
  BY <1>4, <1>6
<1> QED BY <1>1, <1>2, <1>9, <1>10, <1>11 DEF MineAfter

(* What stood for the first n events still does. *)
LEMMA StandsGrown ==
  ASSUME NEW q \in Seq(Event), NEW e \in Event, NEW q1, Report(q, e, q1),
         NEW c, NEW p, NEW t,
         NEW n \in Nat, n <= Len(q), Stands(q, c, n, p, t)
  PROVE  Stands(q1, c, n, p, t)
<1>1. /\ \A i \in Mine(q, c) : i \in 1..Len(q) /\ q1[i] = q[i]
      /\ Mine(q1, c) = Mine(q, c) \cup {Len(q) + 1} \/ Mine(q1, c) = Mine(q, c)
      /\ Len(q) \in Nat
  BY MineGrown DEF MineAfter
<1>2. \A i \in Mine(q1, c) : i <= n => i \in Mine(q, c)
  BY <1>1
<1>3. \A i \in Mine(q, c) : i \in Mine(q1, c) /\ i \in Nat
  BY <1>1
<1>4. (\A j \in Mine(q1, c) : j > n) => \A j \in Mine(q, c) : j > n
  BY <1>3
<1>5. ASSUME NEW j \in Mine(q1, c), j <= n,
             \A k \in Mine(q1, c) : k <= n => k <= j
      PROVE  q1[j].value = 1 /\ q1[j].time = t
  <2>1. j \in Mine(q, c) /\ q1[j] = q[j]
    BY <1>1, <1>2, <1>5
  <2>2. \A k \in Mine(q, c) : k <= n => k <= j
    BY <1>3, <1>5
  <2>3. q[j].value = 1 /\ q[j].time = t
    BY <1>5, <2>1, <2>2 DEF Stands
  <2> QED BY <2>1, <2>3
<1> QED BY <1>4, <1>5 DEF Stands

(* What stood for the whole queue does so when c is not in the change. *)
LEMMA StandsAll ==
  ASSUME NEW q \in Seq(Event), NEW e \in Event, NEW q1, Report(q, e, q1),
         NEW c, NEW p, NEW t,
         ~Changes(e, c),
         Stands(q, c, Len(q), p, t)
  PROVE  Stands(q1, c, Len(q1), p, t)
<1>1. /\ \A i \in Mine(q, c) : i \in 1..Len(q) /\ q1[i] = q[i]
      /\ Mine(q1, c) = Mine(q, c) /\ Len(q) \in Nat /\ Len(q1) = Len(q) + 2
  BY MineGrown DEF MineAfter
<1>2. \A i \in Mine(q, c) : i \in Nat /\ i <= Len(q) /\ i <= Len(q1)
  BY <1>1
<1>3. (\A j \in Mine(q1, c) : j > Len(q1)) => \A j \in Mine(q, c) : j > Len(q)
  BY <1>1, <1>2
<1>4. ASSUME NEW j \in Mine(q1, c), \A k \in Mine(q1, c) : k <= Len(q1) => k <= j
      PROVE  q1[j].value = 1 /\ q1[j].time = t
  <2>1. \A k \in Mine(q, c) : k <= Len(q) => k <= j
    BY <1>1, <1>2, <1>4
  <2>2. q[j].value = 1 /\ q[j].time = t
    BY <1>1, <1>2, <2>1 DEF Stands
  <2> QED BY <1>1, <2>2
<1> QED BY <1>3, <1>4 DEF Stands

(* A press stands from its own time. *)
LEMMA StandsPressed ==
  ASSUME NEW q \in Seq(Event), NEW e \in Event, NEW q1, Report(q, e, q1),
         NEW c, NEW p,
         Changes(e, c), e.value = 1
  PROVE  Stands(q1, c, Len(q1), p, e.time)
<1>1. /\ \A i \in Mine(q, c) : i \in 1..Len(q)
      /\ Mine(q1, c) = Mine(q, c) \cup {Len(q) + 1}
      /\ Len(q) \in Nat /\ Len(q1) = Len(q) + 2 /\ q1[Len(q) + 1] = e
  BY MineGrown DEF MineAfter
<1>2. Len(q) + 1 \in Mine(q1, c) /\ Len(q) + 1 <= Len(q1)
  BY <1>1
<1>3. ASSUME NEW j \in Mine(q1, c), \A k \in Mine(q1, c) : k <= Len(q1) => k <= j
      PROVE  j = Len(q) + 1
  BY <1>1, <1>2, <1>3
<1>4. ~ \A j \in Mine(q1, c) : j > Len(q1)
  BY <1>1, <1>2
<1> QED BY <1>1, <1>3, <1>4 DEF Stands

LEMMA SaysGrown ==
  ASSUME NEW q \in Seq(Event), NEW e \in Event, NEW q1, Report(q, e, q1),
         NEW c, NEW p, NEW t, NEW t1,
         Says(q, c, p, t),
         IF Changes(e, c) THEN t1 = e.value ELSE t1 = t
  PROVE  Says(q1, c, p, t1)
<1>1. /\ \A i \in Mine(q, c) : i \in 1..Len(q) /\ q1[i] = q[i]
      /\ Len(q) \in Nat /\ q1[Len(q) + 1] = e
  BY MineGrown DEF MineAfter
<1>2. CASE Changes(e, c)
  <2>1. Mine(q1, c) = Mine(q, c) \cup {Len(q) + 1}
    BY <1>2, MineGrown DEF MineAfter
  <2>2. \A k \in Mine(q1, c) : k <= Len(q) + 1
    BY <1>1, <2>1
  <2>3. Len(q) + 1 \in Mine(q1, c) /\ q1[Len(q) + 1].value = t1
    BY <1>1, <1>2, <2>1
  <2> QED BY <2>2, <2>3 DEF Says
<1>3. CASE ~Changes(e, c)
  <2>1. Mine(q1, c) = Mine(q, c)
    BY <1>3, MineGrown DEF MineAfter
  <2>2. t1 = t
    BY <1>3
  <2> QED BY <1>1, <2>1, <2>2 DEF Says
<1> QED BY <1>2, <1>3

-----------------------------------------------------------------------------
(* What is left of the changes of c when the first event is taken out. *)
MineRest(q, c) ==
  /\ Tail(q) \in Seq(Event) /\ Len(q) \in Nat \ {0} /\ Len(Tail(q)) = Len(q) - 1
  /\ \A i \in Mine(q, c) : i \in 1..Len(q)
  /\ \A i \in Mine(Tail(q), c) : /\ i \in 1..(Len(q) - 1) /\ i + 1 \in Mine(q, c)
                                 /\ Tail(q)[i] = q[i + 1]
  /\ \A i \in Mine(q, c) : i # 1 => i - 1 \in Mine(Tail(q), c)
  /\ 1 \in Mine(q, c) <=> Changes(q[1], c)

LEMMA MineShrunk ==
  ASSUME NEW q \in Seq(Event), q # <<>>, NEW c
  PROVE  MineRest(q, c)
<1>1. /\ Tail(q) \in Seq(Event) /\ Len(Tail(q)) = Len(q) - 1
      /\ \A i \in 1..Len(Tail(q)) : Tail(q)[i] = q[i + 1]
  BY HeadTailProperties
<1>2. Len(q) \in Nat \ {0}
  OBVIOUS
<1>3. PICK n \in Nat \ {0} : n = Len(q)
  BY <1>2
<1>4. PICK r : r = Tail(q)
  OBVIOUS
<1>5. Len(r) = n - 1 /\ \A i \in 1..(n - 1) : r[i] = q[i + 1]
  BY <1>1, <1>3, <1>4
<1>6. \A i : i \in Mine(q, c) <=> i \in 1..n /\ Changes(q[i], c)
  BY <1>3 DEF Mine
<1>7. \A i : i \in Mine(r, c) <=> i \in 1..(n - 1) /\ Changes(r[i], c)
  BY <1>5 DEF Mine
<1>8. \A i \in Mine(r, c) : /\ i \in 1..(n - 1) /\ i + 1 \in Mine(q, c)
                            /\ r[i] = q[i + 1]
  <2> TAKE i \in Mine(r, c)
  <2>1. i \in 1..(n - 1) /\ Changes(r[i], c)
    BY <1>7
  <2>2. i + 1 \in 1..n /\ r[i] = q[i + 1]
    BY <1>5, <2>1
  <2> QED BY <1>6, <2>1, <2>2
<1>9. \A i \in Mine(q, c) : i # 1 => i - 1 \in Mine(r, c)
  <2> SUFFICES ASSUME NEW i \in Mine(q, c), i # 1 PROVE i - 1 \in Mine(r, c)
    OBVIOUS
  <2>1. i \in 1..n /\ Changes(q[i], c)
    BY <1>6
  <2>2. i - 1 \in 1..(n - 1) /\ (i - 1) + 1 = i
    BY <2>1
  <2>3. r[i - 1] = q[i]
    BY <1>5, <2>2
  <2> QED BY <1>7, <2>1, <2>2, <2>3
<1>10. 1 \in Mine(q, c) <=> Changes(q[1], c)
  BY <1>6
<1> QED BY <1>1, <1>2, <1>3, <1>4, <1>6, <1>8, <1>9, <1>10 DEF MineRest

(* The press time of c when the first event has been read. *)
NextPress(q, c, p) ==
  IF Changes(q[1], c) THEN IF q[1].value = 1 THEN q[1].time ELSE 0 ELSE p

LEMMA StandsRest ==
  ASSUME NEW q \in Seq(Event), q # <<>>, NEW c, NEW p, NEW t,
         NEW n \in 1..Len(q), Stands(q, c, n, p, t)
  PROVE  Stands(Tail(q), c, n - 1, NextPress(q, c, p), t)
<1>0. MineRest(q, c)
  BY MineShrunk
<1>1. PICK r : r = Tail(q)
  OBVIOUS
<1>2. /\ Len(q) \in Nat \ {0}
      /\ \A i \in Mine(q, c) : i \in Nat /\ i >= 1
      /\ \A i \in Mine(r, c) : /\ i \in Nat /\ i >= 1 /\ i + 1 \in Mine(q, c)
                               /\ r[i] = q[i + 1]
      /\ \A i \in Mine(q, c) : i # 1 => i - 1 \in Mine(r, c)
      /\ 1 \in Mine(q, c) <=> Changes(q[1], c)
  BY <1>0, <1>1 DEF MineRest
<1>3. n \in Nat /\ n >= 1
  BY <1>2
<1>4. ASSUME \A j \in Mine(r, c) : j > n - 1
      PROVE  NextPress(q, c, p) = t
  <2>1. \A j \in Mine(q, c) : j # 1 => j > n
    BY <1>2, <1>3, <1>4
  <2>2. CASE 1 \in Mine(q, c)
    <3>1. \A k \in Mine(q, c) : k <= n => k <= 1
      BY <1>2, <1>3, <2>1
    <3>2. q[1].value = 1 /\ q[1].time = t
      BY <1>3, <2>2, <3>1 DEF Stands
    <3> QED BY <1>2, <2>2, <3>2 DEF NextPress
  <2>3. CASE 1 \notin Mine(q, c)
    <3>1. \A j \in Mine(q, c) : j > n
      BY <2>1, <2>3
    <3>2. p = t
      BY <3>1 DEF Stands
    <3> QED BY <1>2, <2>3, <3>2 DEF NextPress
  <2> QED BY <2>2, <2>3
<1>5. ASSUME NEW j \in Mine(r, c), j <= n - 1,
             \A k \in Mine(r, c) : k <= n - 1 => k <= j
      PROVE  r[j].value = 1 /\ r[j].time = t
  <2>1. j \in Nat /\ j + 1 \in Mine(q, c) /\ r[j] = q[j + 1]
    BY <1>2
  <2>2. j + 1 <= n
    BY <1>3, <1>5, <2>1
  <2>3. \A k \in Mine(q, c) : k <= n => k <= j + 1
    BY <1>2, <1>3, <1>5, <2>1
  <2>4. q[j + 1].value = 1 /\ q[j + 1].time = t
    BY <2>1, <2>2, <2>3 DEF Stands
  <2> QED BY <2>1, <2>4
<1> QED BY <1>1, <1>4, <1>5 DEF Stands

(* The state of c when the first event has been read. *)
NextBit(q, c, p) == IF Changes(q[1], c) THEN q[1].value ELSE p

LEMMA SaysRest ==
  ASSUME NEW q \in Seq(Event), q # <<>>, NEW c, NEW p, NEW t, Says(q, c, p, t)
  PROVE  Says(Tail(q), c, NextBit(q, c, p), t)
<1>0. MineRest(q, c)
  BY MineShrunk
<1>1. PICK r : r = Tail(q)
  OBVIOUS
<1>2. /\ \A i \in Mine(q, c) : i \in Nat /\ i >= 1
      /\ \A i \in Mine(r, c) : /\ i \in Nat /\ i >= 1 /\ i + 1 \in Mine(q, c)
                               /\ r[i] = q[i + 1]
      /\ \A i \in Mine(q, c) : i # 1 => i - 1 \in Mine(r, c)
      /\ 1 \in Mine(q, c) <=> Changes(q[1], c)
  BY <1>0, <1>1 DEF MineRest
<1>3. CASE Mine(q, c) = {} /\ p = t
  <2>1. Mine(r, c) = {}
    BY <1>2, <1>3
  <2>2. NextBit(q, c, p) = t
    BY <1>2, <1>3 DEF NextBit
  <2> QED BY <1>1, <2>1, <2>2 DEF Says
<1>4. ASSUME NEW j \in Mine(q, c), \A k \in Mine(q, c) : k <= j, q[j].value = t
      PROVE  Says(r, c, NextBit(q, c, p), t)
  <2>1. CASE j = 1
    <3>1. Mine(r, c) = {}
      <4>1. ASSUME NEW i \in Mine(r, c) PROVE FALSE
        <5>1. i \in Nat /\ i >= 1 /\ i + 1 \in Mine(q, c)
          BY <1>2
        <5>2. i + 1 <= 1
          BY <1>4, <2>1, <5>1
        <5> QED BY <5>1, <5>2
      <4> QED BY <4>1
    <3>2. NextBit(q, c, p) = t
      BY <1>2, <1>4, <2>1 DEF NextBit
    <3> QED BY <3>1, <3>2 DEF Says
  <2>2. CASE j # 1
    <3>1. j \in Nat /\ j - 1 \in Mine(r, c)
      BY <1>2, <2>2
    <3>2. r[j - 1] = q[j]
      <4>1. r[j - 1] = q[(j - 1) + 1] /\ (j - 1) + 1 = j
        BY <1>2, <3>1
      <4> QED BY <4>1
    <3>3. \A k \in Mine(r, c) : k <= j - 1
      BY <1>2, <1>4, <3>1
    <3> QED BY <1>4, <3>1, <3>2, <3>3 DEF Says
  <2> QED BY <2>1, <2>2
<1> QED BY <1>1, <1>3, <1>4 DEF Says

-----------------------------------------------------------------------------
LEMMA PassType ==
  ASSUME NEW q \in Seq(Event), Len(q) <= Cap, NEW e \in Event
  PROVE  /\ Pass(q, e) \in Seq(Event) /\ Len(Pass(q, e)) <= Cap
         /\ Len(q) < Cap => Pass(q, e) = Append(q, e)
<1>1. SynDropped \in Event /\ Cap \in Nat /\ Cap > 1
  BY ButtonAssumption DEF SynDropped, Syn, Event
<1>2. <<SynDropped, e>> \in Seq(Event) /\ Len(<<SynDropped, e>>) = 2
  BY <1>1
<1>3. Append(q, e) \in Seq(Event) /\ Len(Append(q, e)) = Len(q) + 1 /\ Len(q) \in Nat
  BY AppendProperties
<1>4. CASE Len(q) < Cap
  BY <1>1, <1>3, <1>4 DEF Pass
<1>5. CASE ~(Len(q) < Cap)
  BY <1>1, <1>2, <1>5 DEF Pass
<1> QED BY <1>4, <1>5

(* A key event and the report it comes in. *)
KeyEvent(c, value) ==
  [type |-> "key", code |-> c, value |-> value, time |-> Stamp,
   since |-> since[c]]

LEMMA QueuedReport ==
  ASSUME IInv, NEW c \in Codes, NEW v \in 0..2, Queued(c, v)
  PROVE  /\ KeyEvent(c, v) \in Event
         /\ queue' \in Seq(Event) /\ Len(queue') <= Cap
         /\ clock' \in 0..MaxEvents /\ dropped' \in BOOLEAN
         /\ ~dropped' => ~dropped /\ Report(queue, KeyEvent(c, v), queue')
         /\ UNCHANGED <<offset, running, pc, demoVars>> /\ clock' = clock + 1
         /\ Stamp \in Nat /\ pc # "start"
<1> DEFINE e == KeyEvent(c, v)
           q1 == Pass(queue, e)
<1>1. /\ queue \in Seq(Event) /\ Len(queue) <= Cap /\ clock \in 0..MaxEvents
      /\ since \in [Codes -> Nat] /\ offset \in Nat
      /\ MaxEvents \in Nat /\ Cap \in Nat
  BY ButtonAssumption DEF IInv, TypeOK, StartInv
<1>2. /\ clock < MaxEvents /\ clock' = clock + 1
      /\ dropped' = (dropped \/ Len(queue) + 2 > Cap)
      /\ UNCHANGED <<offset, running, pc, demoVars>> /\ pc # "start"
      /\ queue' = Pass(Pass(queue, e), Syn)
  BY DEF Queued, KeyEvent
<1>3. clock + 1 \in 0..MaxEvents /\ Stamp \in Nat
  BY <1>1, <1>2 DEF Stamp
<1>4. e \in Event
  BY <1>1, <1>3 DEF KeyEvent, Event
<1>5. Syn \in Event /\ Syn.type = "syn"
  BY ButtonAssumption DEF Syn, Event
<1> HIDE DEF e
<1>6. q1 \in Seq(Event) /\ Len(q1) <= Cap
      /\ (Len(queue) < Cap => q1 = Append(queue, e))
  BY <1>1, <1>4, PassType
<1> HIDE DEF q1
<1>7. queue' = Pass(q1, Syn)
  BY <1>2 DEF q1
<1>8. /\ queue' \in Seq(Event) /\ Len(queue') <= Cap
      /\ Len(q1) < Cap => queue' = Append(q1, Syn)
  BY <1>5, <1>6, <1>7, PassType
<1>9. dropped' \in BOOLEAN
  BY <1>2, Zenon
<1>10. ASSUME ~dropped' PROVE ~dropped /\ Report(queue, e, queue')
  <2>1. ~dropped /\ ~(Len(queue) + 2 > Cap)
    BY <1>2, <1>10
  <2>2. Len(queue) < Cap /\ Len(queue) + 1 < Cap
    <3>1. PICK k \in Nat : k = Len(queue)
      BY <1>1
    <3> QED BY <1>1, <2>1, <3>1
  <2>3. q1 = Append(queue, e) /\ Len(q1) = Len(queue) + 1
    BY <1>1, <1>4, <1>6, <2>2, AppendProperties
  <2>4. queue' = Append(Append(queue, e), Syn)
    BY <1>8, <2>2, <2>3
  <2> QED BY <1>5, <2>1, <2>4 DEF Report
<1> QED BY <1>2, <1>3, <1>4, <1>8, <1>9, <1>10 DEF e

(* What a press, a release or a repeat of c makes of the keys. *)
LEMMA KeyStep ==
  ASSUME IInv, NEW c \in Codes, NEW v \in 0..2, Queued(c, v),
         /\ v = 1 => down' = down \cup {c} /\ since' = [since EXCEPT ![c] = Stamp]
         /\ v = 0 => c \in down /\ down' = down \ {c} /\ since' = since
         /\ v = 2 => UNCHANGED <<down, since>>
  PROVE  IInv'
<1> DEFINE e == KeyEvent(c, v)
<1>1. /\ e \in Event
      /\ queue' \in Seq(Event) /\ Len(queue') <= Cap
      /\ clock' \in 0..MaxEvents /\ dropped' \in BOOLEAN
      /\ ~dropped' => ~dropped /\ Report(queue, e, queue')
      /\ UNCHANGED <<offset, running, pc, demoVars>> /\ clock' = clock + 1
      /\ Stamp \in Nat /\ pc # "start"
  BY QueuedReport
<1>2. /\ e.type = "key" /\ e.code = c /\ e.value = v /\ e.time = Stamp
      /\ e.since = since[c]
  BY DEF KeyEvent
<1>3. /\ queue \in Seq(Event) /\ since \in [Codes -> Nat]
      /\ down \subseteq Codes
  BY DEF IInv, StartInv, TypeOK
<1> HIDE DEF e
<1>4. v = 0 \/ v = 1 \/ v = 2
  OBVIOUS
<1>5. TypeOK'
  <2>1. down' \subseteq Codes /\ since' \in [Codes -> Nat]
    <3>1. CASE v = 1
      BY <1>1, <1>3, <3>1
    <3>2. CASE v # 1
      BY <1>3, <1>4, <3>2
    <3> QED BY <3>1, <3>2
  <2> QED BY <1>1, <2>1 DEF IInv, TypeOK, demoVars
<1>6. StartInv' /\ HeldIsTrue'
  BY <1>1 DEF IInv, StartInv, HeldIsTrue, demoVars
<1>7. ASSUME ~dropped'
      PROVE  /\ ~dropped /\ Report(queue, e, queue')
             /\ Len(queue) \in Nat /\ Len(queue') = Len(queue) + 2
             /\ \A i \in 1..Len(queue) : queue'[i] = queue[i]
             /\ queue'[Len(queue) + 1] = e
             /\ queue'[Len(queue) + 2].type = "syn"
  <2>1. PICK s \in Event : s.type = "syn" /\ queue' = Append(Append(queue, e), s)
    BY <1>1, <1>7 DEF Report
  <2>2. /\ Len(queue) \in Nat /\ Len(queue') = Len(queue) + 2
        /\ \A i \in 1..Len(queue) : queue'[i] = queue[i]
        /\ queue'[Len(queue) + 1] = e /\ queue'[Len(queue) + 2] = s
    BY <1>1, <1>3, <2>1, Grown
  <2> QED BY <1>1, <1>7, <2>1, <2>2
<1>7i. ASSUME ~dropped', NEW i \in 1..Len(queue')
       PROVE  \/ i \in 1..Len(queue) /\ queue'[i] = queue[i]
              \/ i = Len(queue) + 1 /\ queue'[i] = e
              \/ queue'[i].type = "syn"
  <2>1. PICK n \in Nat : n = Len(queue) /\ Len(queue') = n + 2
    BY <1>7, <1>7i
  <2>2. i \in 1..n \/ i = n + 1 \/ i = n + 2
    BY <1>7i, <2>1
  <2> QED BY <1>7, <1>7i, <2>1, <2>2
<1>8. DropInv'
  <2> SUFFICES ASSUME ~dropped', NEW i \in 1..Len(queue')
               PROVE  queue'[i].type # "dropped"
    BY DEF DropInv
  <2>1. \A k \in 1..Len(queue) : queue[k].type # "dropped"
    BY <1>7 DEF IInv, DropInv
  <2> QED BY <1>2, <1>7i, <2>1
<1>9. PressInv'
  <2> SUFFICES ASSUME ~dropped', NEW b \in ButtonCodes, NEW p,
                      p = pressTimes[code_to_id(b)]
               PROVE  /\ \A i \in 1..Len(queue') :
                           (queue'[i].type = "key" /\ queue'[i].code = b
                             /\ queue'[i].value = 0)
                             => Stands(queue', b, i - 1, p, queue'[i].since)
                      /\ b \in down' => Stands(queue', b, Len(queue'), p, since'[b])
    BY <1>1 DEF PressInv, demoVars
  <2>1. /\ \A i \in 1..Len(queue) :
             (queue[i].type = "key" /\ queue[i].code = b /\ queue[i].value = 0)
               => Stands(queue, b, i - 1, p, queue[i].since)
        /\ b \in down => Stands(queue, b, Len(queue), p, since[b])
    BY <1>7 DEF IInv, PressInv
  <2>2. Report(queue, e, queue') /\ Len(queue) \in Nat
    BY <1>7
  <2>3. ASSUME NEW i \in 1..Len(queue'), queue'[i].type = "key",
               queue'[i].code = b, queue'[i].value = 0
        PROVE  Stands(queue', b, i - 1, p, queue'[i].since)
    <3>1. CASE i \in 1..Len(queue) /\ queue'[i] = queue[i]
      <4>1. Stands(queue, b, i - 1, p, queue[i].since)
        BY <2>1, <2>3, <3>1
      <4>2. i - 1 \in Nat /\ i - 1 <= Len(queue)
        BY <2>2, <3>1
      <4> QED BY <1>1, <1>3, <2>2, <3>1, <4>1, <4>2, StandsGrown
    <3>2. CASE i = Len(queue) + 1 /\ queue'[i] = e
      <4>1. v = 0 /\ b = c
        BY <1>2, <2>3, <3>2
      <4>2. Stands(queue, b, Len(queue), p, since[b])
        BY <2>1, <4>1
      <4>3. Stands(queue', b, Len(queue), p, since[b])
        BY <1>1, <1>3, <2>2, <4>2, StandsGrown
      <4>4. i - 1 = Len(queue)
        BY <2>2, <3>2
      <4>5. queue'[i].since = since[b]
        BY <1>2, <3>2, <4>1
      <4> QED BY <4>3, <4>4, <4>5
    <3> QED BY <1>7i, <2>3, <3>1, <3>2
  <2>4. ASSUME b \in down' PROVE Stands(queue', b, Len(queue'), p, since'[b])
    <3>1. CASE v = 1 /\ b = c
      <4>1. Changes(e, b)
        BY <1>2, <3>1 DEF Changes
      <4>2. since'[b] = e.time
        BY <1>2, <1>3, <3>1
      <4> QED BY <1>1, <1>2, <1>3, <2>2, <3>1, <4>1, <4>2, StandsPressed
    <3>2. CASE ~(v = 1 /\ b = c)
      <4>1. b \in Codes
        BY ButtonIds
      <4>2. b \in down /\ since'[b] = since[b]
        BY <1>3, <1>4, <2>4, <3>2, <4>1
      <4>3. ~(v = 0 /\ b = c)
        BY <2>4
      <4>4. ~Changes(e, b)
        BY <1>2, <1>4, <3>2, <4>3 DEF Changes
      <4>5. Stands(queue, b, Len(queue), p, since[b])
        BY <2>1, <4>2
      <4>6. Stands(queue', b, Len(queue'), p, since[b])
        BY <1>1, <1>3, <2>2, <4>4, <4>5, StandsAll
      <4> QED BY <4>2, <4>6
    <3> QED BY <3>1, <3>2
  <2> QED BY <2>3, <2>4
<1>10. SaidInv'
  <2> SUFFICES ASSUME printed, ~dropped', NEW b \in ButtonCodes, NEW p,
                      p = Bit(code_to_id(b), states)
               PROVE  Says(queue', b, p, Bit(b, down'))
    BY <1>1 DEF SaidInv, demoVars, Bit
  <2>1. Says(queue, b, p, Bit(b, down))
    BY <1>7 DEF IInv, SaidInv
  <2>2. Report(queue, e, queue')
    BY <1>7
  <2>3. CASE Changes(e, b)
    <3>1. b = c /\ (v = 1 \/ v = 0)
      BY <1>2, <1>4, <2>3 DEF Changes
    <3>2. Bit(b, down') = e.value
      BY <1>2, <3>1 DEF Bit
    <3> QED BY <1>1, <1>3, <2>1, <2>2, <2>3, <3>2, SaysGrown
  <2>4. CASE ~Changes(e, b)
    <3>1. b # c \/ v = 2
      BY <1>2, <2>4 DEF Changes
    <3>2. Bit(b, down') = Bit(b, down)
      BY <1>4, <3>1 DEF Bit
    <3> QED BY <1>1, <1>3, <2>1, <2>2, <2>4, <3>2, SaysGrown
  <2> QED BY <2>3, <2>4
<1> QED BY <1>5, <1>6, <1>8, <1>9, <1>10 DEF IInv

-----------------------------------------------------------------------------
(* The first event is read and shown. *)
LEMMA RestInv ==
  ASSUME IInv, queue # <<>>, queue' = Tail(queue),
         UNCHANGED <<down, since, dropped, printed>>,
         \A b \in ButtonCodes :
           /\ pressTimes'[code_to_id(b)]
                = NextPress(queue, b, pressTimes[code_to_id(b)])
           /\ Bit(code_to_id(b), states')
                = NextBit(queue, b, Bit(code_to_id(b), states))
  PROVE  /\ queue' \in Seq(Event) /\ Len(queue') <= Cap
         /\ DropInv' /\ PressInv' /\ SaidInv'
<1>1. queue \in Seq(Event) /\ Len(queue) <= Cap /\ Cap \in Nat
  BY ButtonAssumption DEF IInv, StartInv, TypeOK
<1>2. /\ Tail(queue) \in Seq(Event) /\ Len(Tail(queue)) = Len(queue) - 1
      /\ \A i \in 1..Len(Tail(queue)) : Tail(queue)[i] = queue[i + 1]
  BY <1>1, HeadTailProperties
<1>3. PICK n \in Nat \ {0} : n = Len(queue)
  BY <1>1
<1>4. /\ queue' \in Seq(Event) /\ Len(queue') = n - 1
      /\ \A i \in 1..(n - 1) : queue'[i] = queue[i + 1]
  BY <1>2, <1>3
<1>5. Len(queue') <= Cap
  BY <1>1, <1>3, <1>4
<1>6. \A i \in 1..(n - 1) : i \in 1..n /\ i + 1 \in 1..n /\ (i + 1) - 1 = i
  OBVIOUS
<1>7. DropInv'
  <2> SUFFICES ASSUME ~dropped, NEW i \in 1..(n - 1)
               PROVE  queue'[i].type # "dropped"
    BY <1>4 DEF DropInv
  <2>1. queue[i + 1].type # "dropped"
    BY <1>3, <1>6 DEF IInv, DropInv
  <2> QED BY <1>4, <2>1
<1>8. PressInv'
  <2> SUFFICES ASSUME ~dropped, NEW b \in ButtonCodes, NEW p, NEW p1,
                      p = pressTimes[code_to_id(b)], p1 = NextPress(queue, b, p)
               PROVE  /\ \A i \in 1..(n - 1) :
                           (queue'[i].type = "key" /\ queue'[i].code = b
                             /\ queue'[i].value = 0)
                             => Stands(queue', b, i - 1, p1, queue'[i].since)
                      /\ b \in down => Stands(queue', b, n - 1, p1, since[b])
    BY <1>4 DEF PressInv
  <2>1. /\ \A i \in 1..n :
             (queue[i].type = "key" /\ queue[i].code = b /\ queue[i].value = 0)
               => Stands(queue, b, i - 1, p, queue[i].since)
        /\ b \in down => Stands(queue, b, n, p, since[b])
    BY <1>3 DEF IInv, PressInv
  <2>2. ASSUME NEW i \in 1..(n - 1), queue'[i].type = "key", queue'[i].code = b,
               queue'[i].value = 0
        PROVE  Stands(queue', b, i - 1, p1, queue'[i].since)
    <3>1. queue'[i] = queue[i + 1] /\ i \in 1..n
      BY <1>4, <1>6
    <3>2. Stands(queue, b, (i + 1) - 1, p, queue[i + 1].since)
      BY <1>6, <2>1, <2>2, <3>1
    <3>3. Stands(queue, b, i, p, queue'[i].since)
      BY <1>6, <3>1, <3>2
    <3>4. Stands(Tail(queue), b, i - 1, NextPress(queue, b, p), queue'[i].since)
      BY <1>1, <1>3, <3>1, <3>3, StandsRest
    <3> QED BY <3>4
  <2>3. ASSUME b \in down PROVE Stands(queue', b, n - 1, p1, since[b])
    <3>1. Stands(queue, b, n, p, since[b]) /\ n \in 1..Len(queue)
      BY <1>3, <2>1, <2>3
    <3>2. Stands(Tail(queue), b, n - 1, NextPress(queue, b, p), since[b])
      BY <1>1, <3>1, StandsRest
    <3> QED BY <3>2
  <2> QED BY <2>2, <2>3
<1>9. SaidInv'
  <2> SUFFICES ASSUME ~dropped, printed, NEW b \in ButtonCodes
               PROVE  Says(queue', b, Bit(code_to_id(b), states'), Bit(b, down))
    BY DEF SaidInv, Bit
  <2>1. Says(queue, b, Bit(code_to_id(b), states), Bit(b, down))
    BY DEF IInv, SaidInv
  <2>2. Says(Tail(queue), b, NextBit(queue, b, Bit(code_to_id(b), states)),
             Bit(b, down))
    BY <1>1, <2>1, SaysRest
  <2> QED BY <2>2
<1> QED BY <1>4, <1>5, <1>7, <1>8, <1>9

LEMMA ReadSkipsInv == IInv /\ ReadSkips => IInv'
<1> SUFFICES ASSUME IInv, ReadSkips PROVE IInv'
  OBVIOUS
<1>1. queue \in Seq(Event) /\ queue # <<>> /\ queue' = Tail(queue) /\ pc = "read"
      /\ UNCHANGED <<down, since, clock, offset, dropped, running, pc, demoVars>>
      /\ ~Wanted(Head(queue))
  BY DEF IInv, StartInv, ReadSkips
<1>2. Head(queue) = queue[1]
  BY <1>1
<1>3. ASSUME NEW b \in ButtonCodes PROVE ~Changes(queue[1], b)
  BY <1>1, <1>2 DEF Wanted, Changes, ButtonCodes
<1>4. /\ queue' \in Seq(Event) /\ Len(queue') <= Cap
      /\ DropInv' /\ PressInv' /\ SaidInv'
  <2>1. \A b \in ButtonCodes :
           /\ pressTimes'[code_to_id(b)]
                = NextPress(queue, b, pressTimes[code_to_id(b)])
           /\ Bit(code_to_id(b), states')
                = NextBit(queue, b, Bit(code_to_id(b), states))
    BY <1>1, <1>3 DEF NextPress, NextBit, demoVars
  <2>2. UNCHANGED <<down, since, dropped, printed>>
    BY <1>1 DEF demoVars
  <2> QED BY <1>1, <2>1, <2>2, RestInv
<1>5. TypeOK'
  BY <1>1, <1>4 DEF IInv, TypeOK, demoVars
<1>6. StartInv' /\ HeldIsTrue'
  BY <1>1, <1>4 DEF IInv, StartInv, HeldIsTrue, demoVars
<1> QED BY <1>4, <1>5, <1>6 DEF IInv

LEMMA ReadEventInv == IInv /\ ReadEvent => IInv'
<1> SUFFICES ASSUME IInv, ReadEvent PROVE IInv'
  OBVIOUS
<1>1. queue \in Seq(Event) /\ queue # <<>> /\ Len(queue) \in Nat \ {0}
  BY DEF IInv, StartInv, ReadEvent
<1>2. PICK e \in Event : e = queue[1] /\ e = Head(queue)
  BY <1>1
<1>3. PICK id : id = code_to_id(e.code)
  OBVIOUS
<1>4. /\ pc = "read" /\ pc' = "loop" /\ Wanted(e)
      /\ pressTimes' = [pressTimes EXCEPT ![id] = PressTime(e, @)]
      /\ states' = Shown(e, states)
      /\ held' = [reported |-> Held(e, pressTimes[id]),
                  true |-> IF e.value = 0 /\ e.since > 0
                           THEN e.time - e.since ELSE 0]
      /\ queue' = Tail(queue)
      /\ UNCHANGED <<down, since, clock, offset, dropped, running, printed>>
  BY <1>2, <1>3 DEF ReadEvent, Rest
<1>5. /\ e.type = "key" /\ e.value \in 0..2 /\ e.time \in Nat
      /\ e.since \in Nat /\ e.code \in ButtonCodes /\ id \in Ids
      /\ MaxEvents \in Nat /\ e.code \in Nat /\ id = e.code - 256
  <2>1. e.type = "key" /\ code_to_id(e.code) # Unknown
    BY <1>4 DEF Wanted
  <2>2. e.code \in Codes \cup {0} /\ e.value \in 0..2 /\ e.time \in Nat
        /\ e.since \in Nat
    BY DEF Event
  <2>3. e.code \in Nat /\ MaxEvents \in Nat
    <3>1. Codes \subseteq Nat /\ MaxEvents \in Nat
      BY ButtonAssumption
    <3>2. \A x \in Codes \cup {0} : x \in Nat
      BY <3>1
    <3> QED BY <2>2, <3>1, <3>2
  <2>4. e.code # 0 /\ id \in Ids /\ id = e.code - 256
    BY <1>3, <2>1, <2>3, CodeToId
  <2> QED BY <2>1, <2>2, <2>3, <2>4 DEF ButtonCodes
<1>6. /\ pressTimes \in [Ids -> Nat] /\ states \subseteq Ids
  BY DEF IInv, TypeOK
<1>7. PressTime(e, pressTimes[id]) \in Nat
  BY <1>5, <1>6 DEF PressTime
<1>8. /\ pressTimes' \in [Ids -> Nat]
      /\ pressTimes'[id] = PressTime(e, pressTimes[id])
      /\ \A k \in Ids : k # id => pressTimes'[k] = pressTimes[k]
  BY <1>4, <1>5, <1>6, <1>7
<1>9. e.value = 0 \/ e.value = 1 \/ e.value = 2
  BY <1>5
<1>10. ASSUME NEW b \in ButtonCodes
       PROVE  /\ pressTimes'[code_to_id(b)]
                   = NextPress(queue, b, pressTimes[code_to_id(b)])
              /\ Bit(code_to_id(b), states')
                   = NextBit(queue, b, Bit(code_to_id(b), states))
  <2>1. b \in Nat /\ code_to_id(b) = b - 256 /\ code_to_id(b) \in Ids
    BY ButtonIds
  <2>2. CASE e.code = b
    <3>1. code_to_id(b) = id /\ (Changes(e, b) <=> e.value # 2)
      BY <1>3, <1>5, <2>2 DEF Changes
    <3>2. PressTime(e, pressTimes[id]) = NextPress(queue, b, pressTimes[id])
      BY <1>2, <1>9, <3>1 DEF PressTime, NextPress
    <3>3. Bit(id, states') = NextBit(queue, b, Bit(id, states))
      BY <1>2, <1>3, <1>4, <1>9, <3>1 DEF Shown, Bit, NextBit
    <3> QED BY <1>8, <3>1, <3>2, <3>3
  <2>3. CASE e.code # b
    <3>1. code_to_id(b) # id /\ ~Changes(e, b)
      BY <1>5, <2>1, <2>3 DEF Changes
    <3>2. pressTimes'[code_to_id(b)] = pressTimes[code_to_id(b)]
      BY <1>8, <2>1, <3>1
    <3>3. Bit(code_to_id(b), states') = Bit(code_to_id(b), states)
      BY <1>3, <1>4, <1>9, <3>1 DEF Shown, Bit
    <3> QED BY <1>2, <3>1, <3>2, <3>3 DEF NextPress, NextBit
  <2> QED BY <2>2, <2>3
<1>11. /\ queue' \in Seq(Event) /\ Len(queue') <= Cap
       /\ DropInv' /\ PressInv' /\ SaidInv'
  BY <1>1, <1>4, <1>10, RestInv
<1>12. states' \subseteq Ids
  BY <1>3, <1>4, <1>5, <1>6, <1>9 DEF Shown
<1>13. TypeOK'
  BY <1>4, <1>8, <1>11, <1>12 DEF IInv, TypeOK
<1>14. held' \in [reported : Int, true : Int]
  <2>1. pressTimes[id] \in Nat
    BY <1>5, <1>6
  <2>2. Held(e, pressTimes[id]) \in Int
    <3>1. PICK old \in Nat : old = pressTimes[id]
      BY <1>5, <2>1
    <3>2. e.time \in Nat /\ e.time - old \in Int
      BY <1>5
    <3> QED BY <3>1, <3>2 DEF Held
  <2>3. (IF e.value = 0 /\ e.since > 0 THEN e.time - e.since ELSE 0) \in Int
    BY <1>5
  <2> QED BY <1>4, <2>2, <2>3
<1>15. StartInv'
  BY <1>4, <1>11, <1>14 DEF StartInv
<1>16. HeldIsTrue'
  <2> SUFFICES ASSUME ~dropped
               PROVE  held'.reported = held'.true
    BY <1>4 DEF HeldIsTrue
  <2>1. CASE e.value = 0
    <3>1. Stands(queue, e.code, 1 - 1, pressTimes[code_to_id(e.code)], e.since)
      <4>1. 1 \in 1..Len(queue)
        BY <1>1
      <4> QED BY <1>2, <1>5, <2>1, <4>1 DEF IInv, PressInv
    <3>2. \A j \in Mine(queue, e.code) : j > 1 - 1
      BY DEF Mine
    <3>3. pressTimes[id] = e.since
      BY <1>3, <3>1, <3>2 DEF Stands
    <3> QED BY <1>4, <3>3 DEF Held
  <2>2. CASE e.value # 0
    BY <1>4, <2>2 DEF Held
  <2> QED BY <2>1, <2>2
<1> QED BY <1>11, <1>13, <1>15, <1>16 DEF IInv

-----------------------------------------------------------------------------
(* The queue after EVIOCGKEY: the printed states start from the keys. *)
LEMMA GetStatesInv == IInv /\ GetStates => IInv'
<1> SUFFICES ASSUME IInv, GetStates PROVE IInv'
  OBVIOUS
<1>1. /\ pc = "open" /\ pc' = "loop" /\ printed' = TRUE
      /\ states' = {code_to_id(c) : c \in down \cap ButtonCodes}
      /\ queue' = Flushed(queue) /\ since' = [c \in Codes |-> 0]
      /\ UNCHANGED <<down, clock, offset, dropped, running, pressTimes, held>>
  BY DEF GetStates
<1>2. /\ queue \in Seq(Event) /\ pressTimes = [i \in Ids |-> 0]
      /\ MaxEvents \in Nat /\ Cap \in Nat /\ Cap > 1
  BY <1>1, ButtonAssumption DEF IInv, StartInv
<1>3. SynDropped \in Event
  BY <1>2 DEF SynDropped, Syn, Event
<1>4. queue' \in Seq(Event) /\ Len(queue') <= Cap
  <2>1. <<SynDropped>> \in Seq(Event) /\ Len(<<SynDropped>>) = 1
        /\ <<>> \in Seq(Event) /\ Len(<<>>) = 0
    BY <1>3
  <2>2. queue' = <<SynDropped>> \/ queue' = <<>>
    BY <1>1 DEF Flushed
  <2>3. 0 <= Cap /\ 1 <= Cap
    BY <1>2
  <2>4. CASE queue' = <<SynDropped>>
    BY <2>1, <2>3, <2>4, Zenon
  <2>5. CASE queue' = <<>>
    BY <2>1, <2>3, <2>5, Zenon
  <2> QED BY <2>2, <2>4, <2>5
<1>5. ~dropped => queue' = <<>>
  <2>1. DOMAIN queue = 1..Len(queue)
    BY <1>2
  <2> QED BY <1>1, <2>1 DEF IInv, DropInv, Flushed
<1>6. TypeOK'
  <2>1. states' \subseteq Ids
    BY <1>1, ButtonIds
  <2>2. since' \in [Codes -> Nat]
    BY <1>1, <1>2
  <2> QED BY <1>1, <1>4, <2>1, <2>2 DEF IInv, TypeOK
<1>7. StartInv'
  BY <1>1, <1>4 DEF IInv, StartInv
<1>8. \A c : Mine(<<>>, c) = {} /\ Len(<<>>) = 0
  BY DEF Mine
<1>9. DropInv'
  BY <1>1, <1>5, <1>8 DEF DropInv
<1>10. PressInv'
  <2> SUFFICES ASSUME ~dropped, NEW b \in ButtonCodes
               PROVE  /\ \A i \in 1..Len(queue') :
                           (queue'[i].type = "key" /\ queue'[i].code = b
                             /\ queue'[i].value = 0)
                             => Stands(queue', b, i - 1,
                                       pressTimes'[code_to_id(b)], queue'[i].since)
                      /\ b \in down' => Stands(queue', b, Len(queue'),
                                          pressTimes'[code_to_id(b)], since'[b])
    BY <1>1 DEF PressInv
  <2>1. code_to_id(b) \in Ids /\ b \in Codes
    BY ButtonIds
  <2>2. pressTimes'[code_to_id(b)] = 0 /\ since'[b] = 0
    BY <1>1, <1>2, <2>1
  <2>3. queue' = <<>> /\ Len(queue') = 0 /\ Mine(queue', b) = {}
    BY <1>5, <1>8
  <2>4. Stands(queue', b, Len(queue'), pressTimes'[code_to_id(b)], since'[b])
    BY <2>2, <2>3 DEF Stands
  <2> QED BY <2>3, <2>4
<1>11. SaidInv'
  <2> SUFFICES ASSUME ~dropped, NEW b \in ButtonCodes
               PROVE  Says(queue', b, Bit(code_to_id(b), states'), Bit(b, down'))
    BY <1>1 DEF SaidInv
  <2>1. Mine(queue', b) = {}
    BY <1>5, <1>8
  <2>2. code_to_id(b) \in states' <=> b \in down
    <3>1. ASSUME NEW c \in down \cap ButtonCodes, code_to_id(c) = code_to_id(b)
          PROVE  c = b
      BY <3>1, ButtonIds
    <3> QED BY <1>1, <3>1
  <2>3. Bit(code_to_id(b), states') = Bit(b, down')
    BY <1>1, <2>2 DEF Bit
  <2> QED BY <2>1, <2>3 DEF Says
<1>12. HeldIsTrue'
  BY <1>1 DEF IInv, HeldIsTrue
<1> QED BY <1>6, <1>7, <1>9, <1>10, <1>11, <1>12 DEF IInv

(* The steps that only move the monitor. *)
LEMMA MoveInv ==
  ASSUME IInv, UNCHANGED <<kernelVars, demoVars>>, running' \in BOOLEAN,
         pc' \in {"start", "open", "loop", "poll", "read", "closing", "closed"},
         pc' \in {"start", "open"} => pc = pc' \/ pc = "start"
  PROVE  IInv'
<1>1. /\ UNCHANGED <<down, since, clock, offset, queue, dropped>>
      /\ UNCHANGED <<pressTimes, printed, states, held>>
  BY DEF kernelVars, demoVars
<1>2. TypeOK'
  BY <1>1 DEF IInv, TypeOK
<1>3. StartInv'
  BY <1>1 DEF IInv, StartInv
<1>4. DropInv' /\ HeldIsTrue'
  BY <1>1 DEF IInv, DropInv, HeldIsTrue
<1>5. PressInv'
  BY <1>1 DEF IInv, PressInv
<1>6. SaidInv'
  BY <1>1 DEF IInv, SaidInv, Bit
<1> QED BY <1>2, <1>3, <1>4, <1>5, <1>6 DEF IInv

LEMMA ClockStepInv == IInv /\ ClockStep => IInv'
<1> SUFFICES ASSUME IInv, ClockStep PROVE IInv'
  OBVIOUS
<1>1. /\ offset' \in Offsets
      /\ UNCHANGED <<down, since, clock, queue, dropped, running, pc>>
      /\ UNCHANGED <<pressTimes, printed, states, held>>
  BY DEF ClockStep, demoVars
<1>2. TypeOK'
  BY <1>1 DEF IInv, TypeOK
<1>3. StartInv' /\ DropInv' /\ HeldIsTrue'
  BY <1>1 DEF IInv, StartInv, DropInv, HeldIsTrue
<1>4. PressInv'
  BY <1>1 DEF IInv, PressInv
<1>5. SaidInv'
  BY <1>1 DEF IInv, SaidInv, Bit
<1> QED BY <1>2, <1>3, <1>4, <1>5 DEF IInv

LEMMA InitInv == Init => IInv
<1> SUFFICES ASSUME Init PROVE IInv
  OBVIOUS
<1>1. /\ down \in SUBSET Codes /\ since = [c \in Codes |-> 0] /\ clock = 0
      /\ offset \in Offsets
      /\ queue = <<>> /\ dropped = FALSE /\ running = TRUE /\ pc = "start"
      /\ pressTimes = [i \in Ids |-> 0] /\ printed = FALSE /\ states = {}
      /\ held = [reported |-> 0, true |-> 0]
  BY DEF Init
<1>2. MaxEvents \in Nat /\ Cap \in Nat
  BY ButtonAssumption
<1>3. <<>> \in Seq(Event) /\ Len(<<>>) = 0
  OBVIOUS
<1>4. TypeOK
  <2>1. since \in [Codes -> Nat] /\ pressTimes \in [Ids -> Nat]
    BY <1>1, <1>2
  <2>2. {dropped, running, printed} \subseteq BOOLEAN
    BY <1>1
  <2>3. Len(queue) <= Cap /\ clock \in 0..MaxEvents
    BY <1>1, <1>2, <1>3
  <2> QED BY <1>1, <2>1, <2>2, <2>3 DEF TypeOK
<1>5. StartInv
  BY <1>1, <1>3 DEF StartInv
<1>6. DropInv /\ HeldIsTrue /\ SaidInv
  BY <1>1, <1>3 DEF DropInv, HeldIsTrue, SaidInv
<1>7. PressInv
  <2>0. 1..Len(queue) = {}
    BY <1>1, <1>3
  <2> SUFFICES ASSUME NEW b \in ButtonCodes
               PROVE  Stands(queue, b, Len(queue), pressTimes[code_to_id(b)],
                             since[b])
    BY <2>0 DEF PressInv
  <2>1. code_to_id(b) \in Ids /\ b \in Codes
    BY ButtonIds
  <2>2. pressTimes[code_to_id(b)] = 0 /\ since[b] = 0
    BY <1>1, <2>1
  <2>3. Mine(queue, b) = {}
    BY <1>1, <1>3 DEF Mine
  <2> QED BY <2>2, <2>3 DEF Stands
<1> QED BY <1>4, <1>5, <1>6, <1>7 DEF IInv

LEMMA NextInv == IInv /\ [Next]_vars => IInv'
<1> SUFFICES ASSUME IInv, [Next]_vars PROVE IInv'
  OBVIOUS
<1>1. ASSUME NEW c \in Codes, KeyDown(c) \/ KeyUp(c) \/ KeyRepeat(c)
      PROVE  IInv'
  <2>1. CASE KeyDown(c)
    <3>1. 1 \in 0..2 /\ 1 # 0 /\ 1 # 2
      OBVIOUS
    <3>2. Queued(c, 1) /\ down' = down \cup {c}
          /\ since' = [since EXCEPT ![c] = Stamp]
      BY <2>1 DEF KeyDown
    <3> QED BY <3>1, <3>2, KeyStep
  <2>2. CASE KeyUp(c)
    <3>1. 0 \in 0..2 /\ 0 # 1 /\ 0 # 2
      OBVIOUS
    <3>2. Queued(c, 0) /\ c \in down /\ down' = down \ {c} /\ since' = since
      BY <2>2 DEF KeyUp
    <3> QED BY <3>1, <3>2, KeyStep
  <2>3. CASE KeyRepeat(c)
    <3>1. 2 \in 0..2 /\ 2 # 1 /\ 2 # 0
      OBVIOUS
    <3>2. Queued(c, 2) /\ UNCHANGED <<down, since>>
      BY <2>3 DEF KeyRepeat
    <3> QED BY <3>1, <3>2, KeyStep
  <2> QED BY <1>1, <2>1, <2>2, <2>3
<1>2. running \in BOOLEAN /\ pc \in {"start", "open", "loop", "poll", "read",
                                     "closing", "closed"}
  BY DEF IInv, TypeOK
<1>3. CASE Signal
  <2>1. UNCHANGED <<kernelVars, demoVars>> /\ running' \in BOOLEAN /\ pc' = pc
    BY <1>3 DEF Signal
  <2> QED BY <1>2, <2>1, MoveInv
<1>4. ASSUME NEW n \in Nodes \cup {"none"}, Open(n) \/ OpenFails(n)
      PROVE  IInv'
  <2>1. /\ UNCHANGED <<kernelVars, demoVars>> /\ running' = running
        /\ pc = "start" /\ pc' \in {"open", "closed"}
    BY <1>4 DEF Open, OpenFails
  <2> QED BY <1>2, <2>1, MoveInv
<1>5. CASE GetStates
  BY <1>5, GetStatesInv
<1>6. CASE \/ GetStatesFails \/ CallRead \/ PollReady \/ PollTimeout \/ CallFails
           \/ ReadEmpty \/ Close
  <2>1. /\ UNCHANGED <<kernelVars, demoVars>> /\ running' = running
        /\ pc' \in {"loop", "poll", "read", "closing", "closed"}
    BY <1>6 DEF GetStatesFails, CallRead, PollReady, PollTimeout, CallFails,
       ReadEmpty, Close
  <2> QED BY <1>2, <2>1, MoveInv
<1>7. CASE ReadSkips \/ ReadEvent \/ ClockStep
  BY <1>7, ReadSkipsInv, ReadEventInv, ClockStepInv
<1>8. CASE Closed \/ UNCHANGED vars
  <2>1. UNCHANGED <<kernelVars, demoVars>> /\ running' = running /\ pc' = pc
    BY <1>8 DEF Closed, vars
  <2> QED BY <1>2, <2>1, MoveInv
<1> QED
  BY <1>1, <1>3, <1>4, <1>5, <1>6, <1>7, <1>8 DEF Next

(* The states shown first and all events, read or queued, say what is      *)
(* down.                                                                   *)
LEMMA SaidIsTrue == IInv => StatesAreTrue
<1> SUFFICES ASSUME IInv, printed, ~dropped, NEW c \in ButtonCodes, NEW mine,
                    mine = {i \in DOMAIN queue : /\ queue[i].type = "key"
                                                 /\ queue[i].code = c
                                                 /\ queue[i].value # 2}
             PROVE  c \in down <=>
                      IF mine = {} THEN code_to_id(c) \in states
                      ELSE queue[CHOOSE i \in mine : \A j \in mine : j <= i].value = 1
  BY DEF StatesAreTrue
<1>1. Says(queue, c, Bit(code_to_id(c), states), Bit(c, down))
  BY DEF IInv, SaidInv
<1>2. queue \in Seq(Event) /\ DOMAIN queue = 1..Len(queue)
  BY DEF IInv, StartInv
<1>3. mine = Mine(queue, c) /\ \A i \in mine : i \in Nat
  <2>1. Len(queue) \in Nat
    BY <1>2
  <2> QED BY <1>2, <2>1 DEF Mine, Changes
<1>4. CASE mine = {} /\ Bit(code_to_id(c), states) = Bit(c, down)
  BY <1>4 DEF Bit
<1>5. ASSUME NEW j \in mine, \A k \in mine : k <= j, queue[j].value = Bit(c, down)
      PROVE  c \in down <=>
               queue[CHOOSE i \in mine : \A k \in mine : k <= i].value = 1
  <2>1. PICK l : l = CHOOSE i \in mine : \A k \in mine : k <= i
    OBVIOUS
  <2>2. l \in mine /\ \A k \in mine : k <= l
    BY <1>5, <2>1
  <2>3. l = j
    BY <1>3, <1>5, <2>2
  <2>4. queue[j].value = 1 <=> c \in down
    BY <1>5 DEF Bit
  <2> QED BY <2>1, <2>3, <2>4
<1>6. CASE \E j \in mine : (\A k \in mine : k <= j) /\ queue[j].value = Bit(c, down)
  BY <1>5, <1>6
<1> QED BY <1>1, <1>3, <1>4, <1>6 DEF Says

-----------------------------------------------------------------------------
(* The invariant is inductive. *)
THEOREM Inductive == Spec => []IInv
  BY InitInv, NextInv, PTL DEF Spec

(* Every variable of kernel, library and monitor keeps its range: the      *)
(* queue holds Cap events at most and only ids of buttons are shown.       *)
THEOREM TypeCorrect == Spec => []TypeOK
<1>1. IInv => TypeOK
  BY DEF IInv
<1> QED BY <1>1, Inductive, PTL

(* The states sc6f0_button_get_states gave, changed by every event that    *)
(* was returned and by those still queued, are those of the buttons, as    *)
(* long as the kernel dropped nothing: for any keys, any order of presses, *)
(* releases and repeats and any size of the queue.                         *)
THEOREM StatesAreTrueHolds == Spec => []StatesAreTrue
  BY SaidIsTrue, Inductive, PTL

(* The hold time shown with a release is the time from the stamp of its    *)
(* own press to its own, as long as the kernel dropped nothing, wherever   *)
(* the wall clock is set and however often.                                *)
THEOREM HeldIsTrueHolds == Spec => []HeldIsTrue
<1>1. IInv => HeldIsTrue
  BY DEF IInv
<1> QED BY <1>1, Inductive, PTL

=============================================================================
