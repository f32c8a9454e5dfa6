----------------------------- MODULE MCTickStat -----------------------------
(* TickStat with a counter of two bits, a default directory that lacks the *)
(* counters and one that has them.  Delays of several intervals and of     *)
(* whole turns of the counter fit into the time.                           *)
EXTENDS TickStat

=============================================================================
