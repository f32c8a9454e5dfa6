---------------------------- MODULE ReleaseOrder ----------------------------
(***************************************************************************)
(* What a test case promises about the things it makes, whatever fails and *)
(* whichever thread makes them: they are undone one at a time, the         *)
(* youngest first, each once; nothing is made any more once undoing has    *)
(* begun; and undoing comes to an end with nothing left.                   *)
(***************************************************************************)
EXTENDS Integers, Sequences

CONSTANT Things    (* what a test case may make *)

VARIABLES
  held,            (* what exists, oldest first *)
  closing          (* undoing has begun *)

vars == <<held, closing>>

Init == held = <<>> /\ closing = FALSE

Acquire == /\ ~closing
           /\ \E e \in Things : held' = Append(held, e)
           /\ closing' = closing

Close == ~closing /\ closing' = TRUE /\ held' = held

Release == /\ closing
           /\ held # <<>>
           /\ held' = SubSeq(held, 1, Len(held) - 1)
           /\ closing' = closing

Finish == closing /\ held = <<>> /\ closing' = FALSE /\ held' = held

Next == Acquire \/ Close \/ Release \/ Finish

Spec == Init /\ [][Next]_vars

FairSpec == Spec /\ WF_vars(Release) /\ WF_vars(Finish)

=============================================================================
