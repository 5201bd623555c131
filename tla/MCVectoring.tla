---------------------------- MODULE MCVectoring ----------------------------
(* One socket's receive ring and one transmit ring, with a two-letter      *)
(* alphabet so that lines, order and overwriting are all visible.          *)
EXTENDS Vectoring
=============================================================================
