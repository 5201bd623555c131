----------------------------- MODULE MCMemory ------------------------------
(* A server with one pool heap and three slots: a second connection falls  *)
(* back to a mapping of its own.  Pages of four bytes, sizes of a byte     *)
(* (SIZE_MAX is 255), a link word of one byte.                             *)
EXTENDS Memory

\* Heaps too small for the coroutine, for its argument, for its state, for
\* its buffers, and large enough.
SomePageCounts == {1, 3, 4, 6, 7}
=============================================================================
