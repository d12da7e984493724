--------------------------- MODULE MCPollenClient ---------------------------
(* Two threads that call, one of which connects twice. *)
EXTENDS PollenClient
CONSTANTS loop, repl
=============================================================================
