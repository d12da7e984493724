------------------------------ MODULE MCBrain -------------------------------
(* A small instance of Simulations: two classes of objects, two track ids  *)
(* beside the unsure one, and every program, each from its initial state.  *)
EXTENDS Simulations

UnsureId == -1
MCTrackIds == {UnsureId, 1, 2}
=============================================================================
