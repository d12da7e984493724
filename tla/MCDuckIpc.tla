----------------------------- MODULE MCDuckIpc ------------------------------
(* Small instances of DuckIpc.  A 64-byte command is copied in two pieces: *)
(* the velocities and trims, then the stop flag and the timestamp.         *)
EXTENDS DuckIpc

TwoChunks == {{"motion", "lean"}, {"emergency_stop", "timestamp"}}
=============================================================================
