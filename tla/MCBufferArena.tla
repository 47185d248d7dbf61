---------------------------- MODULE MCBufferArena ----------------------------
(* An instance of BufferArena for TLC. *)
EXTENDS BufferArena
=============================================================================
