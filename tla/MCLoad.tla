------------------------------- MODULE MCLoad -------------------------------
(***************************************************************************)
(* Two generators with the same random stream, ids of four bits of which   *)
(* three are random, batches of three creations in blocks of two.          *)
(***************************************************************************)
EXTENDS Load

SameSeed == [a \in Generators |-> WordRange - 2]
=============================================================================
