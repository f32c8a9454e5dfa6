------------------------------ MODULE MCButtons -----------------------------
(* Buttons with one button, one key that is none, two input devices, a     *)
(* queue that a few key changes fill and a wall clock that is set forwards *)
(* and back.                                                               *)
EXTENDS Buttons

=============================================================================
