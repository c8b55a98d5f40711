--------------------------- MODULE MCBufferReplay ---------------------------
(* Instances of BufferReplay for TLC: the constants come from the cfg. *)
EXTENDS BufferReplay
=============================================================================
