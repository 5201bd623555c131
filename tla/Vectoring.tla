----------------------------- MODULE Vectoring -----------------------------
(***************************************************************************)
(* The vector-ring of vk_vectoring.c: a byte ring described by a cursor    *)
(* and a length, mirrored into two pairs of I/O vectors that every copy    *)
(* really goes through.                                                    *)
(*                                                                         *)
(* The rings are those of sockets: a receive ring is filled from a file    *)
(* descriptor or from the transmit ring at the other end of a virtual pipe *)
(* and drained by a coroutine; a transmit ring is filled by a coroutine or *)
(* forwarded from a receive ring, and drained the other way.  One action   *)
(* is one call of the vk_vectoring interface.                              *)
(***************************************************************************)
EXTENDS Integers, Sequences

CONSTANTS RxRings,    \* receive rings, the rx.ring of some socket
          TxRings,    \* transmit rings, the tx.ring of some socket
          BufLen,     \* buf_len, the same for every ring
          AcceptedLen,\* vk_accepted_alloc_size(), a record a listening socket receives
          Byte,       \* what a buffer cell holds
          NewLine,    \* the byte that ends a line
          Faults,     \* the errno values system calls may fail with
          Closable    \* the rings whose descriptor may be closed

ASSUME BufLenAssumption == BufLen \in Nat \ {0}
ASSUME AcceptedAssumption == AcceptedLen \in 1 .. BufLen
ASSUME ByteAssumption   == NewLine \in Byte
ASSUME FaultAssumption  == Faults \subseteq {"EAGAIN", "EIO"}
ASSUME RingAssumption   == RxRings \cap TxRings = {} /\ Closable \subseteq RxRings \cup TxRings

Rings  == RxRings \cup TxRings
Cells  == 0 .. BufLen - 1
Errno  == {"EAGAIN", "EIO"}   \* would block, or any other failure
NoError == "0"
ENOBUFS == "ENOBUFS"

VARIABLE ring   \* the struct vk_vectoring of every ring

----------------------------------------------------------------------------
(* Cursors and vectors. *)

\* Seeded fault: the receive cursor does not wrap.
RxCursorUnwrapped(g) == g.tx_cursor + g.tx_len

RxCursor(g) == (g.tx_cursor + g.tx_len) % BufLen
RxLen(g)    == BufLen - g.tx_len

\* Seeded fault: the part before the wrap is not taken off the second vector.
IovecSyncUncut(cursor, len) ==
  IF cursor + len > BufLen
  THEN << [base |-> cursor, len |-> BufLen - cursor], [base |-> 0, len |-> len] >>
  ELSE << [base |-> cursor, len |-> len], [base |-> 0, len |-> 0] >>

\* vk_iovec_sync: the second vector is used only when the range wraps.
IovecSync(cursor, len) ==
  IF cursor + len > BufLen
  THEN << [base |-> cursor, len |-> BufLen - cursor],
          [base |-> 0,      len |-> len - (BufLen - cursor)] >>
  ELSE << [base |-> cursor, len |-> len],
          [base |-> 0,      len |-> 0] >>

Sync(g) == [g EXCEPT !.vector_rx = IovecSync(RxCursor(g), RxLen(g)),
                     !.vector_tx = IovecSync(g.tx_cursor, g.tx_len)]

IovecLen(v) == v[1].len + v[2].len

\* vk_vectoring_request: how much of a request each vector satisfies.
Request(v, len) ==
  CASE len <= v[1].len                             -> << len, 0 >>
    [] len > v[1].len /\ len <= IovecLen(v)        -> << v[1].len, len - v[1].len >>
    [] OTHER                                       -> << v[1].len, v[2].len >>

\* The copies into and out of the buffer, through the vectors.
Gather(buf, v, lengths) ==
  [i \in 1 .. (lengths[1] + lengths[2]) |->
     IF i <= lengths[1] THEN buf[v[1].base + i - 1]
                        ELSE buf[v[2].base + i - lengths[1] - 1]]

\* Seeded fault: the second vector starts over with the first byte.
ScatterRestarts(buf, v, lengths, bytes) ==
  [c \in Cells |->
     IF c >= v[1].base /\ c < v[1].base + lengths[1] THEN bytes[c - v[1].base + 1]
     ELSE IF c >= v[2].base /\ c < v[2].base + lengths[2]
          THEN bytes[c - v[2].base + 1]
          ELSE buf[c]]

Scatter(buf, v, lengths, bytes) ==
  [c \in Cells |->
     IF c >= v[1].base /\ c < v[1].base + lengths[1] THEN bytes[c - v[1].base + 1]
     ELSE IF c >= v[2].base /\ c < v[2].base + lengths[2]
          THEN bytes[lengths[1] + c - v[2].base + 1]
          ELSE buf[c]]

----------------------------------------------------------------------------
(* Marking transfers. *)

MarkReceived(g, received) ==
  CASE received = 0 -> g
    [] received # 0 /\ received < RxLen(g) ->
         [Sync([g EXCEPT !.tx_len = (g.tx_len + received) % BufLen]) EXCEPT !.effect = TRUE]
    [] received # 0 /\ received = RxLen(g) ->
         [Sync([g EXCEPT !.tx_len = BufLen]) EXCEPT !.effect = TRUE]
    [] OTHER -> [g EXCEPT !.error = ENOBUFS, !.effect = TRUE]

\* Seeded fault: sending all there is counts as too much.
MarkSentStrict(g, sent) ==
  IF sent = 0 THEN g
  ELSE IF sent < g.tx_len
       THEN [Sync([g EXCEPT !.tx_cursor = (g.tx_cursor + sent) % BufLen,
                            !.tx_len    = g.tx_len - sent]) EXCEPT !.effect = TRUE]
       ELSE [g EXCEPT !.error = ENOBUFS, !.effect = TRUE]

MarkSent(g, sent) ==
  CASE sent = 0 -> g
    [] sent # 0 /\ sent <= g.tx_len ->
         [Sync([g EXCEPT !.tx_cursor = (g.tx_cursor + sent) % BufLen,
                         !.tx_len    = g.tx_len - sent]) EXCEPT !.effect = TRUE]
    [] OTHER -> [g EXCEPT !.error = ENOBUFS, !.effect = TRUE]

----------------------------------------------------------------------------
(* Between a coroutine's buffer and a ring. *)

RecvLengths(g, len) == Request(g.vector_tx, len)
RecvBytes(g, len)   == Gather(g.buf, g.vector_tx, RecvLengths(g, len))
Recv(g, len) ==
  LET lengths == RecvLengths(g, len) IN MarkSent(g, lengths[1] + lengths[2])

\* As many of the bytes as fit are copied in behind the receive vectors.
Fill(g, bytes) ==
  LET lengths == Request(g.vector_rx, Len(bytes))
  IN MarkReceived([g EXCEPT !.buf = Scatter(g.buf, g.vector_rx, lengths, bytes)],
                  lengths[1] + lengths[2])

\* Nothing is sent into a ring whose EOF has not been taken yet.
Send(g, bytes) == IF Len(bytes) > 0 /\ g.eof THEN g ELSE Fill(g, bytes)

----------------------------------------------------------------------------
(* Between a file descriptor and a ring. *)

\* readv() moved bytes into the vectors; none means EOF to the caller.
Read(g, bytes) ==
  Fill([g EXCEPT !.rx_blocked = Len(bytes) < IovecLen(g.vector_rx),
                 !.eof        = Len(bytes) = 0],
       bytes)

\* accept(): a record is sent into the ring only when it fits whole.
Accept(g, record) ==
  LET ready == [g EXCEPT !.rx_blocked = FALSE]
  IN IF RxLen(g) < AcceptedLen THEN ready ELSE Send(ready, record)

\* readv() or accept() failed.
ReadFails(g, errno) ==
  [g EXCEPT !.rx_blocked = (errno = "EAGAIN"),
            !.effect     = IF errno = "EAGAIN" THEN FALSE ELSE @,
            !.error      = errno]

\* writev() took the first sent bytes out of the vectors.
Write(g, sent) ==
  MarkSent([g EXCEPT !.tx_blocked = sent < IovecLen(g.vector_tx)], sent)

WriteFails(g, errno) ==
  [g EXCEPT !.tx_blocked = (errno = "EAGAIN"),
            !.effect     = IF errno = "EAGAIN" THEN FALSE ELSE @,
            !.error      = errno]

\* close() and shutdown(): the state is the same, only the call differs.
Close(g, errno) ==
  [g EXCEPT !.closed = TRUE, !.effect = TRUE,
            !.error  = IF errno = NoError THEN @ ELSE errno]

----------------------------------------------------------------------------
(* Between two rings. *)

SpliceLen(rx, tx, len) ==
  LET room == IovecLen(rx.vector_rx)
      held == IovecLen(tx.vector_tx)
      most == IF room < held THEN room ELSE held
  IN IF len >= 0 /\ len < most THEN len ELSE most

\* The transmit ring is drained in one recv per vector of the receive ring.
SpliceTx(rx, tx, len) ==
  LET lengths == Request(rx.vector_rx, SpliceLen(rx, tx, len))
      drained == Recv(Recv(tx, lengths[1]), lengths[2])
  IN [drained EXCEPT !.tx_blocked = lengths[1] + lengths[2] < IovecLen(drained.vector_tx)]

SpliceRx(rx, tx, len) ==
  LET lengths == Request(rx.vector_rx, SpliceLen(rx, tx, len))
      bytes   == RecvBytes(tx, lengths[1]) \o RecvBytes(Recv(tx, lengths[1]), lengths[2])
      filled  == Fill(rx, bytes)
  IN [filled EXCEPT !.rx_blocked = lengths[1] + lengths[2] < IovecLen(filled.vector_rx)]

----------------------------------------------------------------------------
(* End of file. *)

MarkEof(g)  == IF g.eof THEN g ELSE [g EXCEPT !.eof = TRUE,  !.effect = TRUE]
\* Seeded fault: taking the EOF is not an effect.
ClearEofSilent(g) == [g EXCEPT !.eof = FALSE]

ClearEof(g) == IF g.eof THEN [g EXCEPT !.eof = FALSE, !.effect = TRUE] ELSE g

----------------------------------------------------------------------------
(* The next line, searched through the vectors. *)

FindNewLine(buf, v) == {i \in 1 .. v.len : buf[v.base + i - 1] = NewLine}

Least(S) == CHOOSE i \in S : \A j \in S : i <= j

\* Seeded fault: a line in the second vector is as long as its part there.
TxLineLenPart(g) ==
  LET first  == FindNewLine(g.buf, g.vector_tx[1])
      second == FindNewLine(g.buf, g.vector_tx[2])
  IN IF first # {} THEN Least(first) ELSE IF second # {} THEN Least(second) ELSE 0

\* vk_vectoring_tx_line_len; 0 stands for the return code "no line".
TxLineLen(g) ==
  LET first  == FindNewLine(g.buf, g.vector_tx[1])
      second == FindNewLine(g.buf, g.vector_tx[2])
  IN CASE first # {}                   -> Least(first)
       [] first = {} /\ second # {}    -> g.vector_tx[1].len + Least(second)
       [] OTHER                        -> 0

----------------------------------------------------------------------------
(* The calls sockets and coroutines make. *)

EmptyRing(b) ==
  Sync([buf |-> [c \in Cells |-> b], tx_cursor |-> 0, tx_len |-> 0,
        vector_tx |-> << >>, vector_rx |-> << >>,
        error |-> NoError, eof |-> FALSE, closed |-> FALSE,
        rx_blocked |-> FALSE, tx_blocked |-> FALSE, effect |-> FALSE])

\* vk_recv of a coroutine, from a receive ring.
DoRecv(r, len) == ring' = [ring EXCEPT ![r] = Recv(@, len)]

\* vk_send of a coroutine, into a transmit ring.
DoSend(r, bytes) == ring' = [ring EXCEPT ![r] = Send(@, bytes)]

\* A read never blocks on its own flag: readiness was polled for.
DoRead(r, bytes) ==
  /\ Len(bytes) <= IovecLen(ring[r].vector_rx)
  /\ ring' = [ring EXCEPT ![r] = Read(@, bytes)]

DoAccept(r, record) ==
  /\ Len(record) = AcceptedLen
  /\ ring' = [ring EXCEPT ![r] = Accept(@, record)]

DoReadFails(r, errno) ==
  /\ IovecLen(ring[r].vector_rx) > 0
  /\ ring' = [ring EXCEPT ![r] = ReadFails(@, errno)]

\* A write to a descriptor known to be blocked returns at once.
DoWrite(r, sent) ==
  /\ ~ ring[r].tx_blocked
  /\ sent <= IovecLen(ring[r].vector_tx)
  /\ ring' = [ring EXCEPT ![r] = Write(@, sent)]

DoWriteFails(r, errno) ==
  /\ ~ ring[r].tx_blocked
  /\ ring' = [ring EXCEPT ![r] = WriteFails(@, errno)]

\* The poller reports readiness (vk_proc_local_retry_socket).
Readable(r) == ring' = [ring EXCEPT ![r].rx_blocked = FALSE]
Writable(r) == ring' = [ring EXCEPT ![r].tx_blocked = FALSE]

DoClose(r, errno) == ring' = [ring EXCEPT ![r] = Close(@, errno)]

\* A virtual pipe moves transmit to receive; a forward moves the other way.
DoSplice(to, from, len) ==
  ring' = [ring EXCEPT ![to]   = SpliceRx(ring[to], ring[from], len),
                       ![from] = SpliceTx(ring[to], ring[from], len)]

\* vk_hup writes the EOF, vk_readhup takes it across the pipe and drains it.
Hup(r)     == ~ ring[r].eof /\ ring' = [ring EXCEPT ![r] = MarkEof(@)]
Readhup(r) == ring[r].eof   /\ ring' = [ring EXCEPT ![r] = ClearEof(@)]
Forwardhup(to, from) ==
  /\ ring[from].eof
  /\ ring' = [ring EXCEPT ![from] = ClearEof(@), ![to] = MarkEof(@)]

\* vk_socket_enqueue_read and friends consume the effect.
HandleEffect(r) == ring[r].effect /\ ring' = [ring EXCEPT ![r].effect = FALSE]

Chunks == UNION {[1 .. n -> Byte] : n \in 0 .. BufLen + 1}

Init == \E b \in Byte : ring = [r \in Rings |-> EmptyRing(b)]

RxNext(r) ==
  \/ \E len \in 0 .. BufLen + 1 : DoRecv(r, len)
  \/ \E bytes \in Chunks : DoRead(r, bytes) \/ DoAccept(r, bytes)
  \/ \E errno \in Faults : DoReadFails(r, errno)
  \/ Readable(r)
  \/ Readhup(r)

TxNext(r) ==
  \/ \E bytes \in Chunks : DoSend(r, bytes)
  \/ \E sent \in 0 .. BufLen : DoWrite(r, sent)
  \/ \E errno \in Faults : DoWriteFails(r, errno)
  \/ Writable(r)
  \/ Hup(r)

Next ==
  \/ \E r \in RxRings : RxNext(r)
  \/ \E r \in TxRings : TxNext(r)
  \/ \E r \in Rings : HandleEffect(r)
  \/ \E r \in Closable : \E errno \in {NoError} \cup Faults : DoClose(r, errno)
  \/ \E rx \in RxRings, tx \in TxRings :
       \/ DoSplice(rx, tx, -1)
       \/ \E len \in 0 .. BufLen + 1 : DoSplice(tx, rx, len)
       \/ Forwardhup(rx, tx)

Spec == Init /\ [][Next]_ring

----------------------------------------------------------------------------
(* What a ring holds, oldest byte first. *)
Content(g) == [i \in 1 .. g.tx_len |-> g.buf[(g.tx_cursor + i - 1) % BufLen]]

Vector    == [base : Cells, len : 0 .. BufLen]
RingState == [buf : [Cells -> Byte], tx_cursor : Cells, tx_len : 0 .. BufLen,
              vector_tx : Vector \X Vector, vector_rx : Vector \X Vector,
              error : Errno \cup {NoError, ENOBUFS}, eof : BOOLEAN, closed : BOOLEAN,
              rx_blocked : BOOLEAN, tx_blocked : BOOLEAN, effect : BOOLEAN]

(***************************************************************************)
(* Every field of struct vk_vectoring stays in its range: the cursor is a  *)
(* cell of the buffer and no vector is longer than the buffer.             *)
(***************************************************************************)
TypeOK == ring \in [Rings -> RingState]

Span(v) == {c \in Cells : c >= v.base /\ c < v.base + v.len}
Spans(vs) == Span(vs[1]) \cup Span(vs[2])

(***************************************************************************)
(* The stored vectors, which every memcpy, readv and writev goes through,  *)
(* cut the buffer in two: the receive vectors cover exactly the cells the  *)
(* transmit vectors do not, and neither pair covers a cell twice.  A stale *)
(* or mis-split vector would overwrite bytes not yet sent.                 *)
(***************************************************************************)
VectorsPartition ==
  \A r \in Rings :
    LET tx == ring[r].vector_tx
        rx == ring[r].vector_rx
    IN /\ Spans(tx) \cap Spans(rx) = {}
       /\ Spans(tx) \cup Spans(rx) = Cells
       /\ Span(tx[1]) \cap Span(tx[2]) = {}
       /\ Span(rx[1]) \cap Span(rx[2]) = {}
       /\ IovecLen(tx) + IovecLen(rx) = BufLen

(***************************************************************************)
(* No transfer ever marks more bytes than the ring has or has room for:    *)
(* the ENOBUFS branches of vk_vectoring_mark_received and _mark_sent are   *)
(* never taken, whatever the descriptors and the splices move.             *)
(***************************************************************************)
NeverOverflows == \A r \in Rings : ring[r].error # ENOBUFS

(***************************************************************************)
(* vk_vectoring_tx_line_len finds the first newline of the content even    *)
(* when the content wraps around the end of the buffer.                    *)
(***************************************************************************)
LineFound ==
  \A r \in Rings :
    LET content == Content(ring[r])
        ends    == {i \in DOMAIN content : content[i] = NewLine}
    IN TxLineLen(ring[r]) = IF ends = {} THEN 0 ELSE Least(ends)

(***************************************************************************)
(* Every change that a coroutine at the other side may be waiting for, of  *)
(* a ring's content or of a transmit ring's EOF, raises the effect flag    *)
(* that vk_socket_enqueue_* turns into a wake-up.                          *)
(***************************************************************************)
EffectRaised ==
  [][\A r \in Rings :
       \/ ring'[r].tx_len # ring[r].tx_len
       \/ r \in TxRings /\ ring'[r].eof # ring[r].eof
       => ring'[r].effect]_ring

(***************************************************************************)
(* The rings are byte queues: through wrapping, partial transfers, errors  *)
(* and splices, bytes leave a ring in the order they entered it, none is   *)
(* lost, doubled or overwritten (ByteFifo).                                *)
(***************************************************************************)
Fifo == INSTANCE ByteFifo
          WITH Capacity <- BufLen,
               fifo <- [r \in Rings |-> Content(ring[r])],
               eof  <- [r \in Rings |-> ring[r].eof]
ImplementsFifo == Fifo!Spec
=============================================================================
