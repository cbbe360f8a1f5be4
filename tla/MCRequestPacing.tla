--------------------------- MODULE MCRequestPacing ---------------------------
(* Request pacing for TLC. *)
EXTENDS RequestPacing

\* Requests of one tick's weight.
OneTick == [t \in Task |-> 1]
=============================================================================
