------------------------------ MODULE ByteFifo ------------------------------
(***************************************************************************)
(* What the vector-rings of sockets promise: each ring is a bounded queue  *)
(* of bytes with an EOF mark beside it.  The mark is not queued: it is     *)
(* raised by the producer, carried across a pipe and lowered by the        *)
(* consumer.                                                               *)
(***************************************************************************)
EXTENDS Integers, Sequences

CONSTANTS RxRings, TxRings, Byte, Capacity

VARIABLES fifo,   \* the bytes each ring holds, oldest first
          eof     \* whether each ring is marked EOF

Queues == RxRings \cup TxRings
Chunk  == UNION {[1 .. n -> Byte] : n \in 0 .. Capacity}

Fits(r, n) == Len(fifo[r]) + n <= Capacity

Init == /\ fifo = [r \in Queues |-> << >>]
        /\ eof  = [r \in Queues |-> FALSE]

\* Bytes come from a descriptor; receiving none is the end of the stream.
Arrive(r, bytes) ==
  /\ Fits(r, Len(bytes))
  /\ fifo' = [fifo EXCEPT ![r] = @ \o bytes]
  /\ eof'  = [eof EXCEPT ![r] = (bytes = << >>)]

\* A producer appends, never behind an EOF that is still there.
Push(r, bytes) ==
  /\ ~ eof[r]
  /\ Fits(r, Len(bytes))
  /\ fifo' = [fifo EXCEPT ![r] = @ \o bytes]
  /\ UNCHANGED eof

Pop(r, n) ==
  /\ n <= Len(fifo[r])
  /\ fifo' = [fifo EXCEPT ![r] = SubSeq(@, n + 1, Len(@))]
  /\ UNCHANGED eof

Transfer(to, from, n) ==
  /\ n <= Len(fifo[from])
  /\ Fits(to, n)
  /\ fifo' = [fifo EXCEPT ![to]   = @ \o SubSeq(fifo[from], 1, n),
                          ![from] = SubSeq(@, n + 1, Len(@))]
  /\ UNCHANGED eof

Raise(r)        == eof' = [eof EXCEPT ![r] = TRUE]  /\ UNCHANGED fifo
Lower(r)        == eof[r] /\ eof' = [eof EXCEPT ![r] = FALSE] /\ UNCHANGED fifo
Carry(to, from) == /\ eof[from]
                   /\ eof' = [eof EXCEPT ![from] = FALSE, ![to] = TRUE]
                   /\ UNCHANGED fifo

Next ==
  \/ \E r \in RxRings, bytes \in Chunk : Arrive(r, bytes)
  \/ \E r \in Queues : \/ \E bytes \in Chunk : Push(r, bytes)
                       \/ \E n \in 0 .. Capacity : Pop(r, n)
  \/ \E rx \in RxRings, tx \in TxRings :
       \/ \E n \in 0 .. Capacity : Transfer(rx, tx, n) \/ Transfer(tx, rx, n)
       \/ Carry(rx, tx)
  \/ \E r \in TxRings : Raise(r)
  \/ \E r \in RxRings : Lower(r)

Spec == Init /\ [][Next]_<<fifo, eof>>
=============================================================================
