---------------------------- MODULE MCSdiResync -----------------------------
(* SdiResync with the times of the code scaled down: three samples of two  *)
(* time units make a request, and two requests fill the window.            *)
EXTENDS SdiResync

=============================================================================
