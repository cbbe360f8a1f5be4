--------------------------- MODULE MCGateSessions ---------------------------
(***************************************************************************)
(* Instances of GateSessions for TLC.  One or two sessions, entry requests *)
(* that compete for them, owned and unowned gates.                         *)
(***************************************************************************)
EXTENDS GateSessions, TLC

EntrySymmetry == Permutations(Entry)

=============================================================================
