----------------------------- MODULE MCSeqLock ------------------------------
(* Small instances of SeqLock: two words per payload, so that a mixture of *)
(* two payloads can be seen, and a counter that wraps within a few writes. *)
EXTENDS SeqLock

CONSTANTS r1, lo, hi
=============================================================================
