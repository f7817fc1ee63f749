---------------------------- MODULE MCSubscribers ----------------------------
(* Subscribers for TLC. *)
EXTENDS Subscribers
=============================================================================
