-------------------------- MODULE VectoringProofs --------------------------
(***************************************************************************)
(* Proofs about the vector-ring for every buffer length, every alphabet    *)
(* and every set of rings.                                                 *)
(***************************************************************************)
EXTENDS Vectoring, SequenceTheorems, WellFoundedInduction, TLAPS

(* The vectors are those vk_vectoring_sync computes from the cursor.       *)
InSync(g) == /\ g.vector_tx = IovecSync(g.tx_cursor, g.tx_len)
             /\ g.vector_rx = IovecSync(RxCursor(g), RxLen(g))

RingOK(g) == g \in RingState /\ InSync(g) /\ g.error # ENOBUFS

(* The inductive invariant: type, vectors in sync, no overflow.            *)
IInv == ring \in [Rings -> RingState] /\ \A r \in Rings : RingOK(ring[r])

----------------------------------------------------------------------------
(* Reducing a cursor modulo the buffer length lands in the buffer, and for *)
(* a cursor less than two lengths it is at most one subtraction.           *)
LEMMA ModCells ==
  ASSUME NEW x \in Nat
  PROVE  /\ x % BufLen \in Cells
         /\ x < BufLen => x % BufLen = x
         /\ x >= BufLen /\ x < BufLen + BufLen => x % BufLen = x - BufLen
BY BufLenAssumption DEF Cells

(* vk_iovec_sync yields vectors inside the buffer, of the requested total. *)
LEMMA IovecSyncOK ==
  ASSUME NEW cursor \in Cells, NEW len \in 0 .. BufLen
  PROVE  /\ IovecSync(cursor, len) \in Vector \X Vector
         /\ IovecLen(IovecSync(cursor, len)) = len
BY BufLenAssumption DEF IovecSync, Vector, Cells, IovecLen

(* vk_vectoring_request grants at most each vector, and in total as much   *)
(* of the request as the vectors hold.                                     *)
LEMMA RequestOK ==
  ASSUME NEW v \in Vector \X Vector, NEW len \in Nat
  PROVE  /\ Request(v, len) \in (0 .. v[1].len) \X (0 .. v[2].len)
         /\ Request(v, len)[1] + Request(v, len)[2]
              = IF len <= IovecLen(v) THEN len ELSE IovecLen(v)
BY BufLenAssumption DEF Request, Vector, Cells, IovecLen

(* Copying through the vectors keeps a buffer a buffer.                    *)
LEMMA ScatterOK ==
  ASSUME NEW buf \in [Cells -> Byte], NEW v \in Vector \X Vector,
         NEW lengths \in Nat \X Nat, NEW bytes \in Seq(Byte),
         lengths[1] + lengths[2] <= Len(bytes)
  PROVE  Scatter(buf, v, lengths, bytes) \in [Cells -> Byte]
<1> SUFFICES ASSUME NEW c \in Cells
             PROVE  Scatter(buf, v, lengths, bytes)[c] \in Byte
  BY DEF Scatter
<1>1. c \in Nat /\ v[1].base \in Nat /\ v[2].base \in Nat /\ Len(bytes) \in Nat
  BY BufLenAssumption DEF Cells, Vector
<1>2. CASE c >= v[1].base /\ c < v[1].base + lengths[1]
  <2>1. c - v[1].base + 1 \in 1 .. Len(bytes)
    BY <1>1, <1>2
  <2> QED BY <1>2, <2>1 DEF Scatter
<1>3. CASE ~ (c >= v[1].base /\ c < v[1].base + lengths[1])
           /\ c >= v[2].base /\ c < v[2].base + lengths[2]
  <2>1. lengths[1] + c - v[2].base + 1 \in 1 .. Len(bytes)
    BY <1>1, <1>3, SMTT(30)
  <2> QED BY <1>3, <2>1 DEF Scatter
<1>4. CASE ~ (c >= v[1].base /\ c < v[1].base + lengths[1])
           /\ ~ (c >= v[2].base /\ c < v[2].base + lengths[2])
  BY <1>4 DEF Scatter
<1> QED BY <1>2, <1>3, <1>4

(* vk_vectoring_sync restores InSync from any cursor and length in range.  *)
LEMMA SyncOK ==
  ASSUME NEW g \in RingState
  PROVE  /\ Sync(g) \in RingState /\ InSync(Sync(g))
         /\ Sync(g) = [g EXCEPT !.vector_rx = Sync(g).vector_rx,
                                !.vector_tx = Sync(g).vector_tx]
<1>1. g.tx_cursor \in Cells /\ g.tx_len \in 0 .. BufLen
  BY DEF RingState
<1>2. RxCursor(g) \in Cells /\ RxLen(g) \in 0 .. BufLen
  BY <1>1, ModCells, BufLenAssumption DEF RxCursor, RxLen, Cells
<1>3. /\ IovecSync(g.tx_cursor, g.tx_len) \in Vector \X Vector
      /\ IovecSync(RxCursor(g), RxLen(g)) \in Vector \X Vector
  BY <1>1, <1>2, IovecSyncOK
<1>4. Sync(g) \in RingState
  BY <1>3 DEF Sync, RingState
<1>5. /\ Sync(g).tx_cursor = g.tx_cursor /\ Sync(g).tx_len = g.tx_len
      /\ Sync(g).vector_tx = IovecSync(g.tx_cursor, g.tx_len)
      /\ Sync(g).vector_rx = IovecSync(RxCursor(g), RxLen(g))
  BY DEF Sync, RingState
<1>6. InSync(Sync(g))
  BY <1>5 DEF InSync, RxCursor, RxLen
<1> QED BY <1>4, <1>6 DEF Sync, RingState

(* Being well formed depends on the cursor, the length, the vectors and    *)
(* the error only: the other fields may change freely.                     *)
LEMMA SameShape ==
  ASSUME NEW g, RingOK(g), NEW h \in RingState,
         h.tx_cursor = g.tx_cursor, h.tx_len = g.tx_len,
         h.vector_tx = g.vector_tx, h.vector_rx = g.vector_rx, h.error # ENOBUFS
  PROVE  RingOK(h)
BY DEF RingOK, InSync, RxCursor, RxLen

(* Synchronising and raising the effect makes any ring state well formed.  *)
LEMMA SyncEffect ==
  ASSUME NEW g \in RingState, g.error # ENOBUFS
  PROVE  /\ RingOK([Sync(g) EXCEPT !.effect = TRUE])
         /\ [Sync(g) EXCEPT !.effect = TRUE].tx_len = g.tx_len
         /\ [Sync(g) EXCEPT !.effect = TRUE].tx_cursor = g.tx_cursor
         /\ [Sync(g) EXCEPT !.effect = TRUE].buf = g.buf
         /\ [Sync(g) EXCEPT !.effect = TRUE].eof = g.eof
<1> DEFINE s == Sync(g)
           h == [s EXCEPT !.effect = TRUE]
<1>1. /\ s \in RingState /\ InSync(s) /\ s.error = g.error /\ s.tx_len = g.tx_len
      /\ s.tx_cursor = g.tx_cursor /\ s.buf = g.buf /\ s.eof = g.eof
  BY SyncOK DEF Sync, RingState
<1>2. RingOK(s)
  BY <1>1 DEF RingOK
<1> HIDE DEF s
<1>3. /\ h \in RingState /\ h.error = s.error /\ h.tx_len = s.tx_len
      /\ h.tx_cursor = s.tx_cursor /\ h.buf = s.buf /\ h.eof = s.eof
      /\ h.vector_tx = s.vector_tx /\ h.vector_rx = s.vector_rx
  BY <1>1 DEF RingState
<1>4. RingOK(h)
  BY <1>1, <1>2, <1>3, SameShape
<1> QED BY <1>1, <1>3, <1>4 DEF s

(* Marking a reception within the room keeps the ring well formed.         *)
LEMMA MarkReceivedOK ==
  ASSUME NEW g, RingOK(g), NEW n \in 0 .. RxLen(g)
  PROVE  RingOK(MarkReceived(g, n))
<1>1. g.tx_len \in 0 .. BufLen /\ RxLen(g) \in Nat /\ g \in RingState
  BY BufLenAssumption DEF RingOK, RingState, RxLen
<1>2. CASE n = 0
  BY <1>2 DEF MarkReceived
<1>3. CASE n # 0 /\ n < RxLen(g)
  <2> DEFINE h == [g EXCEPT !.tx_len = (g.tx_len + n) % BufLen]
  <2>1. (g.tx_len + n) % BufLen \in 0 .. BufLen
    BY <1>1, ModCells, BufLenAssumption DEF Cells
  <2>2. h \in RingState /\ h.error = g.error
    BY <1>1, <2>1 DEF RingState
  <2> HIDE DEF h
  <2>3. RingOK([Sync(h) EXCEPT !.effect = TRUE])
    BY <2>2, SyncEffect DEF RingOK
  <2>4. MarkReceived(g, n) = [Sync(h) EXCEPT !.effect = TRUE]
    BY <1>1, <1>3 DEF MarkReceived, h
  <2> QED BY <2>3, <2>4
<1>4. CASE n # 0 /\ n = RxLen(g)
  <2> DEFINE h == [g EXCEPT !.tx_len = BufLen]
  <2>2. h \in RingState /\ h.error = g.error
    BY <1>1, BufLenAssumption DEF RingState
  <2> HIDE DEF h
  <2>3. RingOK([Sync(h) EXCEPT !.effect = TRUE])
    BY <2>2, SyncEffect DEF RingOK
  <2>4. MarkReceived(g, n) = [Sync(h) EXCEPT !.effect = TRUE]
    BY <1>1, <1>4 DEF MarkReceived, h
  <2> QED BY <2>3, <2>4
<1> QED BY <1>1, <1>2, <1>3, <1>4

(* Marking a transmission of bytes the ring holds does too.                *)
LEMMA MarkSentOK ==
  ASSUME NEW g, RingOK(g), NEW n \in 0 .. g.tx_len
  PROVE  RingOK(MarkSent(g, n)) /\ MarkSent(g, n).tx_len = g.tx_len - n
<1>1. /\ g.tx_len \in 0 .. BufLen /\ g.tx_cursor \in Nat /\ n \in Nat
      /\ g \in RingState
  BY BufLenAssumption DEF RingOK, RingState, Cells
<1>2. CASE n = 0
  BY <1>1, <1>2 DEF MarkSent
<1>3. CASE n # 0
  <2> DEFINE h == [g EXCEPT !.tx_cursor = (g.tx_cursor + n) % BufLen,
                            !.tx_len    = g.tx_len - n]
  <2>1. (g.tx_cursor + n) % BufLen \in Cells /\ g.tx_len - n \in 0 .. BufLen
    <3>1. g.tx_cursor + n \in Nat /\ g.tx_len - n \in 0 .. BufLen
      BY <1>1, BufLenAssumption
    <3> QED BY <3>1, ModCells
  <2>2. h \in RingState /\ h.error = g.error /\ h.tx_len = g.tx_len - n
    BY <1>1, <2>1 DEF RingState
  <2> HIDE DEF h
  <2>3. /\ RingOK([Sync(h) EXCEPT !.effect = TRUE])
        /\ [Sync(h) EXCEPT !.effect = TRUE].tx_len = h.tx_len
    BY <2>2, SyncEffect DEF RingOK
  <2>4. MarkSent(g, n) = [Sync(h) EXCEPT !.effect = TRUE]
    BY <1>1, <1>3 DEF MarkSent, h
  <2> QED BY <2>2, <2>3, <2>4
<1> QED BY <1>2, <1>3

(* In a well-formed ring the vectors measure what the cursor says.         *)
LEMMA VectorLens ==
  ASSUME NEW g, RingOK(g)
  PROVE  /\ IovecLen(g.vector_tx) = g.tx_len
         /\ IovecLen(g.vector_rx) = RxLen(g)
         /\ g.vector_tx \in Vector \X Vector /\ g.vector_rx \in Vector \X Vector
         /\ g.tx_len \in 0 .. BufLen /\ RxLen(g) \in 0 .. BufLen
         /\ g.tx_cursor \in Cells /\ RxCursor(g) \in Cells
<1>1. g.tx_cursor \in Cells /\ g.tx_len \in 0 .. BufLen
  BY DEF RingOK, RingState
<1>2. RxCursor(g) \in Cells /\ RxLen(g) \in 0 .. BufLen
  BY <1>1, ModCells, BufLenAssumption DEF RxCursor, RxLen, Cells
<1> QED BY <1>1, <1>2, IovecSyncOK DEF RingOK, InSync, RingState

----------------------------------------------------------------------------
(* The operations keep a ring well formed. *)

(* What vk_vectoring_recv grants: the whole request or all there is.       *)
LEMMA RecvGrant ==
  ASSUME NEW g, RingOK(g), NEW len \in Nat
  PROVE  /\ RecvLengths(g, len) \in Nat \X Nat
         /\ RecvLengths(g, len)[1] <= g.vector_tx[1].len
         /\ RecvLengths(g, len)[2] <= g.vector_tx[2].len
         /\ RecvLengths(g, len)[1] + RecvLengths(g, len)[2]
              = IF len <= g.tx_len THEN len ELSE g.tx_len
<1>1. g.vector_tx \in Vector \X Vector /\ IovecLen(g.vector_tx) = g.tx_len
  BY VectorLens
<1>2. g.vector_tx[1].len \in Nat /\ g.vector_tx[2].len \in Nat
  BY <1>1, BufLenAssumption DEF Vector
<1> DEFINE ls == Request(g.vector_tx, len)
<1>3. /\ ls \in (0 .. g.vector_tx[1].len) \X (0 .. g.vector_tx[2].len)
      /\ ls[1] + ls[2] = IF len <= IovecLen(g.vector_tx) THEN len ELSE IovecLen(g.vector_tx)
  BY <1>1, RequestOK
<1> HIDE DEF ls
<1>4. ls \in Nat \X Nat /\ ls[1] <= g.vector_tx[1].len /\ ls[2] <= g.vector_tx[2].len
  BY <1>2, <1>3
<1> QED BY <1>1, <1>3, <1>4 DEF RecvLengths, ls

LEMMA RecvOK ==
  ASSUME NEW g, RingOK(g), NEW len \in Nat
  PROVE  /\ RingOK(Recv(g, len))
         /\ Recv(g, len).tx_len = g.tx_len - (IF len <= g.tx_len THEN len ELSE g.tx_len)
<1> DEFINE n == RecvLengths(g, len)[1] + RecvLengths(g, len)[2]
<1>1. n = (IF len <= g.tx_len THEN len ELSE g.tx_len) /\ g.tx_len \in Nat
  BY RecvGrant, VectorLens, BufLenAssumption
<1>2. Recv(g, len) = MarkSent(g, n)
  BY DEF Recv
<1> HIDE DEF n
<1>3. n \in 0 .. g.tx_len
  BY <1>1
<1>4. RingOK(MarkSent(g, n)) /\ MarkSent(g, n).tx_len = g.tx_len - n
  BY <1>3, MarkSentOK
<1> QED BY <1>1, <1>2, <1>4

(* The bytes it copies out, as many as granted.                            *)
LEMMA RecvBytesOK ==
  ASSUME NEW g, RingOK(g), NEW len \in Nat
  PROVE  /\ RecvBytes(g, len) \in Seq(Byte)
         /\ Len(RecvBytes(g, len)) = IF len <= g.tx_len THEN len ELSE g.tx_len
<1> DEFINE ls == RecvLengths(g, len)
           v  == g.vector_tx
           n  == ls[1] + ls[2]
<1>1. /\ ls \in Nat \X Nat /\ ls[1] <= v[1].len /\ ls[2] <= v[2].len
      /\ n = IF len <= g.tx_len THEN len ELSE g.tx_len
  BY RecvGrant
<1>2. v \in Vector \X Vector /\ g.buf \in [Cells -> Byte] /\ g.tx_len \in Nat
      /\ g.tx_cursor \in Cells /\ g.tx_len \in 0 .. BufLen
      /\ v = IovecSync(g.tx_cursor, g.tx_len)
  BY VectorLens DEF RingOK, RingState, InSync
<1>3. /\ v[1].base \in Nat /\ v[1].len \in Nat /\ v[1].base + v[1].len <= BufLen
      /\ v[2].base \in Nat /\ v[2].len \in Nat /\ v[2].base + v[2].len <= BufLen
  BY <1>2, BufLenAssumption DEF IovecSync, Cells
<1> HIDE DEF ls, v
<1>4. ASSUME NEW i \in 1 .. n
      PROVE  (IF i <= ls[1] THEN g.buf[v[1].base + i - 1]
                            ELSE g.buf[v[2].base + i - ls[1] - 1]) \in Byte
  <2>1. CASE i <= ls[1]
    <3>1. v[1].base + i - 1 \in Cells
      BY <1>1, <1>3, <2>1, BufLenAssumption DEF Cells
    <3> QED BY <2>1, <3>1, <1>2
  <2>2. CASE ~ (i <= ls[1])
    <3>1. v[2].base + i - ls[1] - 1 \in Cells
      BY <1>1, <1>3, <2>2, BufLenAssumption DEF Cells
    <3> QED BY <2>2, <3>1, <1>2
  <2> QED BY <2>1, <2>2
<1>5. n \in Nat
  BY <1>1
<1>6. Gather(g.buf, v, ls) \in [1 .. n -> Byte]
  BY <1>4 DEF Gather
<1>7. Gather(g.buf, v, ls) \in Seq(Byte) /\ Len(Gather(g.buf, v, ls)) = n
  BY <1>5, <1>6
<1> QED BY <1>7, <1>1 DEF RecvBytes, v, ls

(* Filling a ring through its receive vectors keeps it well formed.        *)
LEMMA FillOK ==
  ASSUME NEW g, RingOK(g), NEW bytes \in Seq(Byte)
  PROVE  RingOK(Fill(g, bytes))
<1> DEFINE ls == Request(g.vector_rx, Len(bytes))
           n  == ls[1] + ls[2]
           b  == Scatter(g.buf, g.vector_rx, ls, bytes)
           f  == [g EXCEPT !.buf = b]
<1>0. Fill(g, bytes) = MarkReceived(f, n)
  BY DEF Fill
<1>1. g.vector_rx \in Vector \X Vector /\ IovecLen(g.vector_rx) = RxLen(g)
      /\ RxLen(g) \in Nat /\ g \in RingState /\ g.error # ENOBUFS /\ Len(bytes) \in Nat
  BY VectorLens, BufLenAssumption DEF RingOK
<1>2. ls \in (0 .. g.vector_rx[1].len) \X (0 .. g.vector_rx[2].len)
      /\ n = IF Len(bytes) <= RxLen(g) THEN Len(bytes) ELSE RxLen(g)
  BY <1>1, RequestOK
<1>3. g.vector_rx[1].len \in Nat /\ g.vector_rx[2].len \in Nat
  BY <1>1, BufLenAssumption DEF Vector
<1>4. ls \in Nat \X Nat /\ n <= Len(bytes) /\ n \in 0 .. RxLen(g)
  BY <1>1, <1>2, <1>3
<1> HIDE DEF ls
<1>5. b \in [Cells -> Byte]
  <2>1. g.buf \in [Cells -> Byte]
    BY <1>1 DEF RingState
  <2> QED BY <2>1, <1>1, <1>4, ScatterOK
<1> HIDE DEF b
<1>6. /\ f \in RingState /\ f.tx_cursor = g.tx_cursor /\ f.tx_len = g.tx_len
      /\ f.vector_tx = g.vector_tx /\ f.vector_rx = g.vector_rx /\ f.error # ENOBUFS
  BY <1>1, <1>5 DEF RingState
<1> HIDE DEF f
<1>7. RingOK(f) /\ RxLen(f) = RxLen(g)
  BY <1>6, SameShape DEF RxLen
<1> QED BY <1>0, <1>4, <1>7, MarkReceivedOK

LEMMA SendOK ==
  ASSUME NEW g, RingOK(g), NEW bytes \in Seq(Byte)
  PROVE  RingOK(Send(g, bytes))
BY FillOK DEF Send

LEMMA AcceptOK ==
  ASSUME NEW g, RingOK(g), NEW bytes \in Seq(Byte)
  PROVE  RingOK(Accept(g, bytes))
<1> DEFINE h == [g EXCEPT !.rx_blocked = FALSE]
<1>1. /\ h \in RingState /\ h.tx_cursor = g.tx_cursor /\ h.tx_len = g.tx_len
      /\ h.vector_tx = g.vector_tx /\ h.vector_rx = g.vector_rx /\ h.error # ENOBUFS
  BY DEF RingOK, RingState
<1> HIDE DEF h
<1>2. RingOK(h)
  BY <1>1, SameShape
<1> QED BY <1>2, SendOK DEF Accept, h

LEMMA ReadOK ==
  ASSUME NEW g, RingOK(g), NEW bytes \in Seq(Byte)
  PROVE  RingOK(Read(g, bytes))
<1> DEFINE short == Len(bytes) < IovecLen(g.vector_rx)
           none  == Len(bytes) = 0
           h  == [g EXCEPT !.rx_blocked = short, !.eof = none]
<1>1. Read(g, bytes) = Fill(h, bytes)
  BY DEF Read
<1>2. short \in BOOLEAN /\ none \in BOOLEAN
  OBVIOUS
<1> HIDE DEF short, none
<1>3. /\ h \in RingState /\ h.tx_cursor = g.tx_cursor /\ h.tx_len = g.tx_len
      /\ h.vector_tx = g.vector_tx /\ h.vector_rx = g.vector_rx /\ h.error # ENOBUFS
  BY <1>2 DEF RingOK, RingState
<1> HIDE DEF h
<1>4. RingOK(h)
  BY <1>3, SameShape
<1> QED BY <1>1, <1>4, FillOK

LEMMA WriteOK ==
  ASSUME NEW g, RingOK(g), NEW sent \in Nat, sent <= IovecLen(g.vector_tx)
  PROVE  RingOK(Write(g, sent))
<1> DEFINE short == sent < IovecLen(g.vector_tx)
           h == [g EXCEPT !.tx_blocked = short]
<1>1. Write(g, sent) = MarkSent(h, sent)
  BY DEF Write
<1>2. short \in BOOLEAN
  OBVIOUS
<1> HIDE DEF short
<1>3. /\ h \in RingState /\ h.tx_cursor = g.tx_cursor /\ h.tx_len = g.tx_len
      /\ h.vector_tx = g.vector_tx /\ h.vector_rx = g.vector_rx /\ h.error # ENOBUFS
  BY <1>2 DEF RingOK, RingState
<1> HIDE DEF h
<1>4. RingOK(h) /\ sent \in 0 .. h.tx_len
  BY <1>3, SameShape, VectorLens
<1> QED BY <1>1, <1>4, MarkSentOK

(* The operations that only touch flags.                                   *)
LEMMA FlagsOK ==
  ASSUME NEW g, RingOK(g), NEW errno \in Errno, NEW b \in BOOLEAN
  PROVE  /\ RingOK(ReadFails(g, errno)) /\ RingOK(WriteFails(g, errno))
         /\ RingOK(Close(g, errno)) /\ RingOK(Close(g, NoError))
         /\ RingOK(MarkEof(g)) /\ RingOK(ClearEof(g))
         /\ RingOK([g EXCEPT !.rx_blocked = b]) /\ RingOK([g EXCEPT !.tx_blocked = b])
         /\ RingOK([g EXCEPT !.effect = b])
<1>1. errno # ENOBUFS /\ NoError # ENOBUFS
  BY DEF Errno, ENOBUFS, NoError
<1>2. g \in RingState /\ g.error # ENOBUFS
  BY DEF RingOK
<1>3. RingOK(ReadFails(g, errno))
  BY <1>1, <1>2, SameShape, ZenonT(40) DEF ReadFails, RingState
<1>4. RingOK(WriteFails(g, errno))
  BY <1>1, <1>2, SameShape, ZenonT(40) DEF WriteFails, RingState
<1>5. RingOK(Close(g, errno)) /\ RingOK(Close(g, NoError))
  BY <1>1, <1>2, SameShape DEF Close, RingState
<1>6. RingOK(MarkEof(g)) /\ RingOK(ClearEof(g))
  BY <1>2, SameShape DEF MarkEof, ClearEof, RingState
<1>7. RingOK([g EXCEPT !.rx_blocked = b]) /\ RingOK([g EXCEPT !.tx_blocked = b])
      /\ RingOK([g EXCEPT !.effect = b])
  BY <1>2, SameShape DEF RingState
<1> QED BY <1>3, <1>4, <1>5, <1>6, <1>7

(* A splice moves what both rings allow, and leaves both well formed.      *)
LEMMA SpliceOK ==
  ASSUME NEW rx, RingOK(rx), NEW tx, RingOK(tx), NEW len \in Int
  PROVE  RingOK(SpliceRx(rx, tx, len)) /\ RingOK(SpliceTx(rx, tx, len))
<1> DEFINE want == SpliceLen(rx, tx, len)
           ls   == Request(rx.vector_rx, want)
           mid  == Recv(tx, ls[1])
           end  == Recv(mid, ls[2])
           b    == RecvBytes(tx, ls[1]) \o RecvBytes(mid, ls[2])
           fill == Fill(rx, b)
<1>1. want \in Nat /\ want <= RxLen(rx) /\ want <= tx.tx_len
      /\ RxLen(rx) \in Nat /\ tx.tx_len \in Nat /\ rx.vector_rx \in Vector \X Vector
      /\ IovecLen(rx.vector_rx) = RxLen(rx)
  BY VectorLens, BufLenAssumption DEF SpliceLen
<1> HIDE DEF want
<1>2. ls \in Nat \X Nat /\ ls[1] + ls[2] = want
  <2>1. rx.vector_rx[1].len \in Nat /\ rx.vector_rx[2].len \in Nat
    BY <1>1, BufLenAssumption DEF Vector
  <2>2. /\ ls \in (0 .. rx.vector_rx[1].len) \X (0 .. rx.vector_rx[2].len)
        /\ ls[1] + ls[2] = want
    BY <1>1, RequestOK
  <2> QED BY <2>1, <2>2
<1> HIDE DEF ls
<1>0. ls[1] \in Nat /\ ls[2] \in Nat /\ ls[1] <= tx.tx_len /\ ls[2] <= tx.tx_len - ls[1]
  BY <1>1, <1>2
<1>3. RingOK(mid) /\ mid.tx_len = tx.tx_len - ls[1]
  BY <1>0, RecvOK
<1>4. RecvBytes(tx, ls[1]) \in Seq(Byte) /\ Len(RecvBytes(tx, ls[1])) = ls[1]
  BY <1>0, RecvBytesOK
<1> HIDE DEF mid
<1>5. RingOK(end)
  BY <1>2, <1>3, RecvOK
<1>6. RecvBytes(mid, ls[2]) \in Seq(Byte) /\ Len(RecvBytes(mid, ls[2])) = ls[2]
  BY <1>0, <1>3, RecvBytesOK
<1>7. b \in Seq(Byte) /\ Len(b) = want
  BY <1>2, <1>4, <1>6
<1> HIDE DEF b, end
<1>8. RingOK(fill)
  BY <1>7, FillOK
<1> HIDE DEF fill
<1>9. "EAGAIN" \in Errno
  BY DEF Errno
<1>10. RingOK(SpliceTx(rx, tx, len))
  <2>1. SpliceTx(rx, tx, len)
          = [end EXCEPT !.tx_blocked = ls[1] + ls[2] < IovecLen(end.vector_tx)]
    BY DEF SpliceTx, end, mid, ls, want
  <2> DEFINE short == ls[1] + ls[2] < IovecLen(end.vector_tx)
  <2>2. short \in BOOLEAN
    OBVIOUS
  <2> HIDE DEF short
  <2>3. RingOK([end EXCEPT !.tx_blocked = short])
    BY <1>5, <1>9, <2>2, FlagsOK
  <2> QED BY <2>1, <2>3 DEF short
<1>11. RingOK(SpliceRx(rx, tx, len))
  <2>1. SpliceRx(rx, tx, len)
          = [fill EXCEPT !.rx_blocked = ls[1] + ls[2] < IovecLen(fill.vector_rx)]
    BY DEF SpliceRx, fill, b, mid, ls, want
  <2> DEFINE short == ls[1] + ls[2] < IovecLen(fill.vector_rx)
  <2>2. short \in BOOLEAN
    OBVIOUS
  <2> HIDE DEF short
  <2>3. RingOK([fill EXCEPT !.rx_blocked = short])
    BY <1>8, <1>9, <2>2, FlagsOK
  <2> QED BY <2>1, <2>3 DEF short
<1> QED BY <1>10, <1>11

----------------------------------------------------------------------------
(* The invariant of the specification. *)

(* A byte sequence of bounded length is a sequence of bytes.               *)
LEMMA ChunksAreSeqs == \A bytes \in Chunks : bytes \in Seq(Byte)
BY BufLenAssumption DEF Chunks

(* A step that replaces the rings of one or two names by well-formed rings *)
(* keeps the invariant.                                                    *)
LEMMA ReplaceOK ==
  ASSUME IInv, NEW r \in Rings, NEW q \in Rings, NEW g, NEW h, RingOK(g), RingOK(h)
  PROVE  /\ ring' = [ring EXCEPT ![r] = g] => IInv'
         /\ ring' = [ring EXCEPT ![r] = g, ![q] = h] => IInv'
<1>1. g \in RingState /\ h \in RingState
  BY DEF RingOK
<1>2. ASSUME ring' = [ring EXCEPT ![r] = g] PROVE IInv'
  <2>1. ring' \in [Rings -> RingState]
    BY <1>1, <1>2 DEF IInv
  <2>2. ASSUME NEW s \in Rings PROVE RingOK(ring'[s])
    BY <1>2 DEF IInv
  <2> QED BY <2>1, <2>2 DEF IInv, RingOK, InSync
<1>3. ASSUME ring' = [ring EXCEPT ![r] = g, ![q] = h] PROVE IInv'
  <2>1. ring' \in [Rings -> RingState]
    BY <1>1, <1>3 DEF IInv
  <2>2. ASSUME NEW s \in Rings PROVE RingOK(ring'[s])
    BY <1>3 DEF IInv
  <2> QED BY <2>1, <2>2 DEF IInv, RingOK, InSync
<1> QED BY <1>2, <1>3

LEMMA InitIInv == Init => IInv
<1> SUFFICES ASSUME NEW b \in Byte, ring = [r \in Rings |-> EmptyRing(b)] PROVE IInv
  BY DEF Init
<1> DEFINE bare == [buf |-> [c \in Cells |-> b], tx_cursor |-> 0, tx_len |-> 0,
                    vector_tx |-> << >>, vector_rx |-> << >>,
                    error |-> NoError, eof |-> FALSE, closed |-> FALSE,
                    rx_blocked |-> FALSE, tx_blocked |-> FALSE, effect |-> FALSE]
           base == [bare EXCEPT !.vector_rx = IovecSync(0, BufLen),
                                !.vector_tx = IovecSync(0, 0)]
<1>1. 0 \in Cells /\ BufLen \in 0 .. BufLen /\ 0 \in 0 .. BufLen
      /\ (0 + 0) % BufLen = 0 /\ BufLen - 0 = BufLen
  BY BufLenAssumption, ModCells DEF Cells
<1>2. RxCursor(bare) = 0 /\ RxLen(bare) = BufLen
  BY <1>1 DEF RxCursor, RxLen
<1>3. IovecSync(0, BufLen) \in Vector \X Vector /\ IovecSync(0, 0) \in Vector \X Vector
  BY <1>1, IovecSyncOK
<1>4. EmptyRing(b) = base
  BY <1>2 DEF EmptyRing, Sync
<1>5. base \in RingState /\ base.error = NoError
      /\ base.vector_rx = IovecSync(0, BufLen) /\ base.vector_tx = IovecSync(0, 0)
      /\ base.tx_cursor = 0 /\ base.tx_len = 0
  BY <1>1, <1>3 DEF RingState
<1> HIDE DEF base
<1>6. RingOK(base)
  BY <1>1, <1>5 DEF RingOK, InSync, RxCursor, RxLen, NoError, ENOBUFS
<1> QED BY <1>4, <1>5, <1>6 DEF IInv

LEMMA NextIInv == IInv /\ [Next]_ring => IInv'
<1> SUFFICES ASSUME IInv, [Next]_ring PROVE IInv'
  OBVIOUS
<1> USE DEF Rings
<1>0. \A r \in Rings : RingOK(ring[r])
  BY DEF IInv
<1>1. ASSUME NEW r \in RxRings, RxNext(r) PROVE IInv'
  <2>1. ASSUME NEW len \in 0 .. BufLen + 1, DoRecv(r, len) PROVE IInv'
    <3>1. len \in Nat
      BY BufLenAssumption
    <3> QED BY <1>0, <2>1, <3>1, RecvOK, ReplaceOK DEF DoRecv
  <2>2. ASSUME NEW bytes \in Chunks, DoRead(r, bytes) PROVE IInv'
    BY <1>0, <2>2, ChunksAreSeqs, ReadOK, ReplaceOK DEF DoRead
  <2>3. ASSUME NEW bytes \in Chunks, DoAccept(r, bytes) PROVE IInv'
    BY <1>0, <2>3, ChunksAreSeqs, AcceptOK, ReplaceOK DEF DoAccept
  <2>4. ASSUME NEW errno \in Faults, DoReadFails(r, errno) PROVE IInv'
    BY <1>0, <2>4, FaultAssumption, FlagsOK, ReplaceOK DEF DoReadFails, Errno
  <2>5. ASSUME Readable(r) PROVE IInv'
    BY <1>0, <2>5, FlagsOK, ReplaceOK, ZenonT(40) DEF Readable, Errno
  <2>6. ASSUME Readhup(r) PROVE IInv'
    BY <1>0, <2>6, FlagsOK, ReplaceOK DEF Readhup, Errno
  <2> QED BY <1>1, <2>1, <2>2, <2>3, <2>4, <2>5, <2>6 DEF RxNext
<1>2. ASSUME NEW r \in TxRings, TxNext(r) PROVE IInv'
  <2>1. ASSUME NEW bytes \in Chunks, DoSend(r, bytes) PROVE IInv'
    BY <1>0, <2>1, ChunksAreSeqs, SendOK, ReplaceOK DEF DoSend
  <2>2. ASSUME NEW sent \in 0 .. BufLen, DoWrite(r, sent) PROVE IInv'
    <3>1. sent \in Nat
      BY BufLenAssumption
    <3> QED BY <1>0, <2>2, <3>1, WriteOK, ReplaceOK DEF DoWrite
  <2>3. ASSUME NEW errno \in Faults, DoWriteFails(r, errno) PROVE IInv'
    BY <1>0, <2>3, FaultAssumption, FlagsOK, ReplaceOK DEF DoWriteFails, Errno
  <2>4. ASSUME Writable(r) PROVE IInv'
    BY <1>0, <2>4, FlagsOK, ReplaceOK, ZenonT(40) DEF Writable, Errno
  <2>5. ASSUME Hup(r) PROVE IInv'
    BY <1>0, <2>5, FlagsOK, ReplaceOK DEF Hup, Errno
  <2> QED BY <1>2, <2>1, <2>2, <2>3, <2>4, <2>5 DEF TxNext
<1>3. ASSUME NEW r \in Rings, HandleEffect(r) PROVE IInv'
  BY <1>0, <1>3, FlagsOK, ReplaceOK, ZenonT(40) DEF HandleEffect, Errno
<1>4. ASSUME NEW r \in Closable, NEW errno \in {NoError} \cup Faults, DoClose(r, errno)
      PROVE  IInv'
  BY <1>0, <1>4, RingAssumption, FaultAssumption, FlagsOK, ReplaceOK DEF DoClose, Errno
<1>5. ASSUME NEW to \in Rings, NEW from \in Rings, NEW len \in Int, DoSplice(to, from, len)
      PROVE  IInv'
  BY <1>0, <1>5, SpliceOK, ReplaceOK DEF DoSplice
<1>6. ASSUME NEW rx \in RxRings, NEW tx \in TxRings, Forwardhup(rx, tx) PROVE IInv'
  <2>1. rx # tx
    BY RingAssumption
  <2>2. ring' = [ring EXCEPT ![tx] = ClearEof(ring[tx]), ![rx] = MarkEof(ring[rx])]
    BY <1>6, <2>1 DEF Forwardhup
  <2> QED BY <1>0, <2>2, FlagsOK, ReplaceOK DEF Errno
<1>7. CASE UNCHANGED ring
  BY <1>7 DEF IInv, RingOK, InSync
<1>8. CASE Next
  <2>1. ASSUME NEW rx \in RxRings, NEW tx \in TxRings, DoSplice(rx, tx, -1) PROVE IInv'
    BY <1>5, <2>1
  <2>2. ASSUME NEW rx \in RxRings, NEW tx \in TxRings, NEW len \in 0 .. BufLen + 1,
               DoSplice(tx, rx, len)
        PROVE  IInv'
    BY <1>5, <2>2, BufLenAssumption
  <2> QED BY <1>1, <1>2, <1>3, <1>4, <1>6, <1>8, <2>1, <2>2 DEF Next
<1> QED BY <1>7, <1>8

(***************************************************************************)
(* Every reachable ring, whatever its size, is well typed, has its vectors *)
(* in step with its cursor, and was never overrun.                         *)
(***************************************************************************)
THEOREM RingInvariant == Spec => []IInv
BY InitIInv, NextIInv, PTL DEF Spec

(* The type invariant, for all constants.                                  *)
THEOREM RingTypes == Spec => []TypeOK
<1>1. IInv => TypeOK
  BY DEF IInv, TypeOK
<1> QED BY <1>1, RingInvariant, PTL

(* The ENOBUFS branches of the mark functions are dead, for all constants. *)
THEOREM RingNeverOverflows == Spec => []NeverOverflows
<1>1. IInv => NeverOverflows
  BY DEF IInv, RingOK, NeverOverflows
<1> QED BY <1>1, RingInvariant, PTL

(* The transmit and the receive vectors cut every buffer in two, for all   *)
(* buffer lengths: no copy through one pair touches a cell of the other.   *)
THEOREM RingPartition == Spec => []VectorsPartition
<1>1. ASSUME IInv PROVE VectorsPartition
  <2> SUFFICES ASSUME NEW r \in Rings
               PROVE  LET tx == ring[r].vector_tx
                          rx == ring[r].vector_rx
                      IN /\ Spans(tx) \cap Spans(rx) = {}
                         /\ Spans(tx) \cup Spans(rx) = Cells
                         /\ Span(tx[1]) \cap Span(tx[2]) = {}
                         /\ Span(rx[1]) \cap Span(rx[2]) = {}
                         /\ IovecLen(tx) + IovecLen(rx) = BufLen
    BY DEF VectorsPartition
  <2> DEFINE g  == ring[r]
             tx == g.vector_tx
             rx == g.vector_rx
             c  == g.tx_cursor
             n  == g.tx_len
             d  == RxCursor(g)
  <2>1. RingOK(g)
    BY <1>1 DEF IInv
  <2>2. /\ c \in Cells /\ n \in 0 .. BufLen /\ IovecLen(tx) = n
        /\ IovecLen(rx) = BufLen - n /\ d = (c + n) % BufLen
        /\ tx = IovecSync(c, n) /\ rx = IovecSync(d, BufLen - n)
    BY <2>1, VectorLens DEF RingOK, InSync, RxLen, RxCursor
  <2>3. IovecLen(tx) + IovecLen(rx) = BufLen
    BY <2>2, BufLenAssumption
  <2> HIDE DEF c, n, d, tx, rx
  <2>4. d = IF c + n < BufLen THEN c + n ELSE c + n - BufLen
    <3>1. c + n \in Nat /\ c + n < BufLen + BufLen
      BY <2>2, BufLenAssumption DEF Cells
    <3>2. d = (c + n) % BufLen
      BY <2>2
    <3> DEFINE s == c + n
    <3>3. s \in Nat /\ s < BufLen + BufLen
      BY <3>1
    <3> HIDE DEF s
    <3>4. s % BufLen = IF s < BufLen THEN s ELSE s - BufLen
      BY <3>3, ModCells, BufLenAssumption
    <3>5. d = s % BufLen
      BY <3>2 DEF s
    <3>6. d = IF s < BufLen THEN s ELSE s - BufLen
      BY <3>4, <3>5
    <3>7. s = c + n
      BY DEF s
    <3> QED BY <2>2, <3>1, <3>3, <3>6, <3>7, BufLenAssumption DEF Cells
  <2>5. ASSUME NEW x \in Cells
        PROVE  /\ (x \in Span(tx[1]) \/ x \in Span(tx[2]))
                    <=> ~ (x \in Span(rx[1]) \/ x \in Span(rx[2]))
               /\ ~ (x \in Span(tx[1]) /\ x \in Span(tx[2]))
               /\ ~ (x \in Span(rx[1]) /\ x \in Span(rx[2]))
    BY <2>2, <2>4, <2>5, BufLenAssumption DEF Span, IovecSync, Cells
  <2>6. /\ Span(tx[1]) \subseteq Cells /\ Span(tx[2]) \subseteq Cells
        /\ Span(rx[1]) \subseteq Cells /\ Span(rx[2]) \subseteq Cells
    BY DEF Span
  <2> QED BY <2>3, <2>5, <2>6 DEF Spans, tx, rx
<1> QED BY <1>1, RingInvariant, PTL

----------------------------------------------------------------------------
(* What a ring holds, byte by byte. *)

(* The cell of the i-th byte held, without the modulus.                    *)
LEMMA CellAt ==
  ASSUME NEW c \in Cells, NEW i \in Nat, i < BufLen
  PROVE  (c + i) % BufLen = IF c + i < BufLen THEN c + i ELSE c + i - BufLen
<1> DEFINE s == c + i
<1>1. s \in Nat /\ s < BufLen + BufLen
  BY BufLenAssumption DEF Cells
<1> HIDE DEF s
<1>2. s % BufLen = IF s < BufLen THEN s ELSE s - BufLen
  BY <1>1, ModCells, BufLenAssumption
<1> QED BY <1>1, <1>2, BufLenAssumption DEF s, Cells

(* The content is a sequence of bytes, each in its cell.                   *)
LEMMA ContentIs ==
  ASSUME NEW g, RingOK(g)
  PROVE  /\ Content(g) \in Seq(Byte) /\ Len(Content(g)) = g.tx_len
         /\ \A i \in 1 .. g.tx_len : Content(g)[i] = g.buf[(g.tx_cursor + (i - 1)) % BufLen]
         /\ \A i \in 1 .. g.tx_len : Content(g)[i] \in Byte
<1>1. g.tx_len \in 0 .. BufLen /\ g.tx_cursor \in Cells /\ g.buf \in [Cells -> Byte]
  BY DEF RingOK, RingState
<1>2. ASSUME NEW i \in 1 .. g.tx_len
      PROVE  /\ g.buf[(g.tx_cursor + i - 1) % BufLen] \in Byte
             /\ g.tx_cursor + i - 1 = g.tx_cursor + (i - 1)
  <2>1. g.tx_cursor + i - 1 \in Nat /\ g.tx_cursor + i - 1 = g.tx_cursor + (i - 1)
    BY <1>1, BufLenAssumption DEF Cells
  <2>2. (g.tx_cursor + i - 1) % BufLen \in Cells
    BY <2>1, ModCells
  <2> QED BY <1>1, <2>1, <2>2
<1>3. g.tx_len \in Nat
  BY <1>1, BufLenAssumption
<1>4. Content(g) \in [1 .. g.tx_len -> Byte]
  BY <1>2 DEF Content
<1>5. Content(g) \in Seq(Byte) /\ Len(Content(g)) = g.tx_len
  BY <1>3, <1>4
<1> QED BY <1>2, <1>4, <1>5 DEF Content

(* A ring that keeps cursor, length and buffer keeps its content.          *)
LEMMA SameContent ==
  ASSUME NEW g, NEW h, h.tx_cursor = g.tx_cursor, h.tx_len = g.tx_len, h.buf = g.buf
  PROVE  Content(h) = Content(g)
BY DEF Content

(* What an operation does that takes the n oldest bytes out of a ring,     *)
Pops(g, h, n) ==
  /\ RingOK(h) /\ n \in 0 .. g.tx_len /\ h.tx_len = g.tx_len - n
  /\ Content(h) = SubSeq(Content(g), n + 1, Len(Content(g)))
  /\ h.eof = g.eof
  /\ h.tx_len # g.tx_len \/ g.effect => h.effect

(* and one that appends bytes.                                             *)
Pushes(g, h, bytes) ==
  /\ RingOK(h) /\ Len(bytes) <= RxLen(g) /\ h.tx_len = g.tx_len + Len(bytes)
  /\ Content(h) = Content(g) \o bytes
  /\ h.eof = g.eof
  /\ h.tx_len # g.tx_len \/ g.effect => h.effect

(* Marking bytes as sent takes the oldest.                                 *)
LEMMA MarkSentPops ==
  ASSUME NEW g, RingOK(g), NEW n \in 0 .. g.tx_len
  PROVE  Pops(g, MarkSent(g, n), n) /\ MarkSent(g, n).buf = g.buf
<1> DEFINE h == MarkSent(g, n)
           C == Content(g)
           D == Content(h)
           c == g.tx_cursor
           l == g.tx_len
<1>1. /\ l \in 0 .. BufLen /\ c \in Cells /\ n \in Nat /\ l \in Nat /\ c \in Nat
      /\ g \in RingState
  BY BufLenAssumption DEF RingOK, RingState, Cells
<1>2. RingOK(h) /\ h.tx_len = l - n
  BY MarkSentOK
<1>3. /\ h.buf = g.buf /\ h.eof = g.eof /\ (n # 0 => h.effect)
      /\ n = 0 => h = g
      /\ n # 0 => h.tx_cursor = (c + n) % BufLen
  <2>1. CASE n = 0
    BY <2>1 DEF MarkSent
  <2>2. CASE n # 0
    <3> DEFINE a == [g EXCEPT !.tx_cursor = (c + n) % BufLen, !.tx_len = l - n]
    <3>1. c + n \in Nat /\ l - n \in 0 .. BufLen
      BY <1>1, BufLenAssumption
    <3>2. (c + n) % BufLen \in Cells
      BY <3>1, ModCells
    <3>3. /\ a \in RingState /\ a.buf = g.buf /\ a.eof = g.eof
          /\ a.tx_cursor = (c + n) % BufLen /\ a.error = g.error
      BY <1>1, <3>1, <3>2 DEF RingState
    <3>4. h = [Sync(a) EXCEPT !.effect = TRUE]
      BY <1>1, <2>2 DEF MarkSent
    <3> HIDE DEF a, h
    <3>5. /\ [Sync(a) EXCEPT !.effect = TRUE].tx_cursor = a.tx_cursor
          /\ [Sync(a) EXCEPT !.effect = TRUE].buf = a.buf
          /\ [Sync(a) EXCEPT !.effect = TRUE].eof = a.eof
      BY <3>3, SyncEffect DEF RingOK
    <3>6. [Sync(a) EXCEPT !.effect = TRUE].effect = TRUE
      BY <3>3, SyncOK DEF RingState
    <3> QED BY <2>2, <3>3, <3>4, <3>5, <3>6
  <2> QED BY <2>1, <2>2
<1> HIDE DEF h
<1>4. /\ C \in Seq(Byte) /\ Len(C) = l /\ \A i \in 1 .. l : C[i] \in Byte
      /\ \A i \in 1 .. l : C[i] = g.buf[(c + (i - 1)) % BufLen]
  BY ContentIs
<1>5. /\ D \in Seq(Byte) /\ Len(D) = l - n
      /\ \A i \in 1 .. l - n : D[i] = h.buf[(h.tx_cursor + (i - 1)) % BufLen]
  BY <1>2, ContentIs
<1> HIDE DEF C, D
<1>6. /\ SubSeq(C, n + 1, l) \in Seq(Byte) /\ Len(SubSeq(C, n + 1, l)) = l - n
      /\ \A i \in 1 .. l - n : SubSeq(C, n + 1, l)[i] = C[n + i]
  <2>1. \A i \in n + 1 .. l : C[i] \in Byte
    BY <1>1, <1>4
  <2>2. n + 1 \in Int /\ l \in Int
    BY <1>1
  <2>3. /\ SubSeq(C, n + 1, l) \in Seq(Byte)
        /\ Len(SubSeq(C, n + 1, l)) = IF n + 1 <= l THEN l - (n + 1) + 1 ELSE 0
        /\ \A i \in 1 .. l - (n + 1) + 1 : SubSeq(C, n + 1, l)[i] = C[(n + 1) + i - 1]
    BY <2>1, <2>2, SubSeqProperties
  <2>4. l - (n + 1) + 1 = l - n /\ \A i \in 1 .. l - n : (n + 1) + i - 1 = n + i
    BY <1>1
  <2> QED BY <1>1, <2>3, <2>4
<1>7. ASSUME NEW i \in 1 .. l - n PROVE D[i] = C[n + i]
  <2>1. CASE n = 0
    <3>1. D = C
      BY <2>1, <1>3 DEF C, D
    <3> QED BY <2>1, <3>1, <1>1
  <2>2. CASE n # 0
    <3>1. n + i \in 1 .. l /\ (n + i) - 1 = n + (i - 1) /\ i - 1 \in Nat
          /\ i - 1 < BufLen /\ n + (i - 1) \in Nat /\ n + (i - 1) < BufLen
      BY <1>1, <2>2, BufLenAssumption
    <3>2. C[n + i] = g.buf[(c + (n + (i - 1))) % BufLen]
      BY <1>4, <3>1
    <3>3. D[i] = g.buf[(((c + n) % BufLen) + (i - 1)) % BufLen]
      BY <1>3, <1>5, <2>2
    <3>4. (((c + n) % BufLen) + (i - 1)) % BufLen = (c + (n + (i - 1))) % BufLen
      <4> DEFINE d == (c + n) % BufLen
      <4>0. n \in Nat /\ n <= BufLen
        BY <1>1, <2>2, BufLenAssumption
      <4>1. d \in Cells /\ d = IF c + n < BufLen THEN c + n ELSE c + n - BufLen
        <5>1. CASE n < BufLen
          BY <5>1, <4>0, <1>1, CellAt, ModCells, BufLenAssumption
        <5>2. CASE n = BufLen
          BY <5>2, <3>1, <1>1, BufLenAssumption
        <5> QED BY <4>0, <5>1, <5>2, BufLenAssumption
      <4> HIDE DEF d
      <4>2. (d + (i - 1)) % BufLen
              = IF d + (i - 1) < BufLen THEN d + (i - 1) ELSE d + (i - 1) - BufLen
        BY <4>1, <3>1, CellAt
      <4>3. (c + (n + (i - 1))) % BufLen
              = IF c + (n + (i - 1)) < BufLen THEN c + (n + (i - 1))
                ELSE c + (n + (i - 1)) - BufLen
        BY <1>1, <3>1, CellAt
      <4>4. (IF d + (i - 1) < BufLen THEN d + (i - 1) ELSE d + (i - 1) - BufLen)
              = IF c + (n + (i - 1)) < BufLen THEN c + (n + (i - 1))
                ELSE c + (n + (i - 1)) - BufLen
        BY <1>1, <3>1, <4>1, BufLenAssumption DEF Cells
      <4> QED BY <4>2, <4>3, <4>4 DEF d
    <3> QED BY <3>2, <3>3, <3>4
  <2> QED BY <2>1, <2>2
<1>8. D = SubSeq(C, n + 1, l)
  <2> DEFINE E == SubSeq(C, n + 1, l)
  <2>1. /\ D \in Seq(Byte) /\ E \in Seq(Byte) /\ Len(D) = Len(E)
        /\ \A i \in 1 .. Len(D) : D[i] = E[i]
    BY <1>5, <1>6, <1>7
  <2> HIDE DEF E
  <2>2. D = E
    BY <2>1, SeqEqual
  <2> QED BY <2>2 DEF E
<1> QED BY <1>1, <1>2, <1>3, <1>4, <1>8 DEF Pops, C, D, h

(* vk_vectoring_recv copies out the oldest bytes and takes them.           *)
LEMMA RecvPops ==
  ASSUME NEW g, RingOK(g), NEW len \in Nat
  PROVE  LET n == IF len <= g.tx_len THEN len ELSE g.tx_len
         IN /\ Pops(g, Recv(g, len), n)
            /\ RecvBytes(g, len) = SubSeq(Content(g), 1, n)
<1> DEFINE n  == IF len <= g.tx_len THEN len ELSE g.tx_len
           ls == RecvLengths(g, len)
           v  == g.vector_tx
           C  == Content(g)
           B  == RecvBytes(g, len)
           E  == SubSeq(C, 1, n)
<1>1. /\ ls \in Nat \X Nat /\ ls[1] <= v[1].len /\ ls[2] <= v[2].len
      /\ ls[1] + ls[2] = n
      /\ ls = Request(v, len)
  BY RecvGrant DEF RecvLengths
<1>2. /\ g.buf \in [Cells -> Byte] /\ g.tx_len \in Nat /\ g.tx_cursor \in Cells
      /\ g.tx_len <= BufLen /\ v = IovecSync(g.tx_cursor, g.tx_len)
  BY VectorLens, BufLenAssumption DEF RingOK, RingState, InSync
<1>3. n \in 0 .. g.tx_len /\ n \in Nat
  BY <1>2
<1>4. Pops(g, Recv(g, len), n)
  <2>1. Recv(g, len) = MarkSent(g, ls[1] + ls[2])
    BY DEF Recv
  <2> QED BY <1>1, <1>3, <2>1, MarkSentPops
<1>5. /\ C \in Seq(Byte) /\ Len(C) = g.tx_len /\ \A i \in 1 .. g.tx_len : C[i] \in Byte
      /\ \A i \in 1 .. g.tx_len : C[i] = g.buf[(g.tx_cursor + (i - 1)) % BufLen]
  BY ContentIs
<1>6. B \in Seq(Byte) /\ Len(B) = n
  BY RecvBytesOK
<1>7. B = Gather(g.buf, v, ls)
  BY DEF RecvBytes
<1>8. ls[2] # 0 => ls[1] = v[1].len
  <2>1. v \in Vector \X Vector
    BY VectorLens
  <2>2. v[1].len \in Nat /\ v[2].len \in Nat
    BY <2>1, BufLenAssumption DEF Vector
  <2> QED BY <1>1, <2>2 DEF Request
<1> HIDE DEF n, ls, v, C, B
<1>9. ASSUME NEW i \in 1 .. n PROVE B[i] = C[i]
  <2>1. i \in 1 .. g.tx_len /\ i - 1 \in Nat /\ i - 1 < BufLen /\ i \in Nat
    <3>1. g.tx_len \in Nat /\ g.tx_len <= BufLen /\ n <= g.tx_len /\ n \in Nat
      BY <1>2, <1>3
    <3> QED BY <3>1, BufLenAssumption
  <2>2. C[i] = g.buf[IF g.tx_cursor + (i - 1) < BufLen THEN g.tx_cursor + (i - 1)
                     ELSE g.tx_cursor + (i - 1) - BufLen]
    <3>1. C[i] = g.buf[(g.tx_cursor + (i - 1)) % BufLen]
      BY <1>5, <2>1
    <3>2. (g.tx_cursor + (i - 1)) % BufLen
            = IF g.tx_cursor + (i - 1) < BufLen THEN g.tx_cursor + (i - 1)
              ELSE g.tx_cursor + (i - 1) - BufLen
      BY <1>2, <2>1, CellAt
    <3> QED BY <3>1, <3>2
  <2>3. B[i] = g.buf[IF i <= ls[1] THEN v[1].base + i - 1 ELSE v[2].base + i - ls[1] - 1]
    BY <1>1, <1>7 DEF Gather
  <2>4. (IF i <= ls[1] THEN v[1].base + i - 1 ELSE v[2].base + i - ls[1] - 1)
          = IF g.tx_cursor + (i - 1) < BufLen THEN g.tx_cursor + (i - 1)
            ELSE g.tx_cursor + (i - 1) - BufLen
    <3>1. g.tx_cursor \in Nat /\ g.tx_cursor < BufLen /\ BufLen \in Nat
          /\ ls[1] \in Nat /\ ls[2] \in Nat
      BY <1>1, <1>2, BufLenAssumption DEF Cells
    <3>2. CASE g.tx_cursor + g.tx_len > BufLen
      <4>1. /\ v[1].base = g.tx_cursor /\ v[1].len = BufLen - g.tx_cursor /\ v[2].base = 0
        BY <1>2, <3>2 DEF IovecSync
      <4> QED BY <1>1, <1>2, <1>3, <1>8, <2>1, <3>1, <4>1
    <3>3. CASE ~ (g.tx_cursor + g.tx_len > BufLen)
      <4>1. /\ v[1].base = g.tx_cursor /\ v[1].len = g.tx_len /\ v[2].len = 0
        BY <1>2, <3>3 DEF IovecSync
      <4> QED BY <1>1, <1>2, <1>3, <1>8, <2>1, <3>1, <3>3, <4>1
    <3> QED BY <3>2, <3>3
  <2> QED BY <2>2, <2>3, <2>4
<1>10. E \in Seq(Byte) /\ Len(E) = n /\ \A i \in 1 .. n : E[i] = C[i]
  <2>1. \A i \in 1 .. n : C[i] \in Byte
    BY <1>2, <1>3, <1>5
  <2>2. /\ E \in Seq(Byte) /\ Len(E) = (IF 1 <= n THEN n - 1 + 1 ELSE 0)
        /\ \A i \in 1 .. n - 1 + 1 : E[i] = C[1 + i - 1]
    BY <1>3, <2>1, SubSeqProperties
  <2>3. n - 1 + 1 = n /\ \A i \in 1 .. n : 1 + i - 1 = i
    BY <1>3
  <2> QED BY <1>3, <2>2, <2>3
<1> HIDE DEF E
<1>11. B = E
  BY <1>6, <1>9, <1>10, SeqEqual
<1> QED BY <1>4, <1>11 DEF n, B, C, E

(* Filling a ring appends as many bytes as there is room for, and touches  *)
(* none of those it holds.                                                 *)
LEMMA FillPushes ==
  ASSUME NEW g, RingOK(g), NEW bytes \in Seq(Byte), Len(bytes) <= RxLen(g)
  PROVE  Pushes(g, Fill(g, bytes), bytes)
<1> DEFINE ls == Request(g.vector_rx, Len(bytes))
           n  == Len(bytes)
           v  == g.vector_rx
           b  == Scatter(g.buf, v, ls, bytes)
           f  == [g EXCEPT !.buf = b]
           h  == Fill(g, bytes)
           c  == g.tx_cursor
           l  == g.tx_len
           C  == Content(g)
           D  == Content(h)
           E  == C \o bytes
<1>1. /\ l \in Nat /\ l <= BufLen /\ c \in Cells /\ g \in RingState /\ n \in Nat
      /\ RxLen(g) = BufLen - l /\ n <= BufLen - l /\ BufLen \in Nat
      /\ v \in Vector \X Vector /\ IovecLen(v) = BufLen - l /\ c \in Nat /\ c < BufLen
      /\ v = IovecSync(RxCursor(g), BufLen - l) /\ RxCursor(g) \in Cells
      /\ RxCursor(g) = (c + l) % BufLen
  BY VectorLens, BufLenAssumption DEF RingOK, RxLen, RxCursor, InSync, Cells
<1>2. v[1].len \in Nat /\ v[2].len \in Nat /\ v[1].base \in Nat /\ v[2].base \in Nat
  <2>1. v \in Vector \X Vector
    BY <1>1
  <2> HIDE DEF v
  <2> QED BY <2>1, BufLenAssumption, SMTT(30) DEF Vector, Cells
<1>3. /\ ls \in Nat \X Nat /\ ls[1] <= v[1].len /\ ls[2] <= v[2].len
      /\ ls[1] + ls[2] = n /\ (ls[2] # 0 => ls[1] = v[1].len)
  <2>1. /\ ls \in (0 .. v[1].len) \X (0 .. v[2].len) /\ ls[1] + ls[2] = n
    BY <1>1, RequestOK
  <2>2. ls[2] # 0 => ls[1] = v[1].len
    BY <1>1, <1>2 DEF Request
  <2> QED BY <1>2, <2>1, <2>2
<1>4. h = MarkReceived(f, n)
  <2>1. h = MarkReceived(f, ls[1] + ls[2])
    BY DEF Fill
  <2> QED BY <1>3, <2>1
<1>5. RingOK(h)
  BY FillOK
<1> HIDE DEF h, ls
<1>6. b \in [Cells -> Byte]
  <2>1. g.buf \in [Cells -> Byte]
    BY <1>1 DEF RingState
  <2>2. ls[1] + ls[2] <= Len(bytes)
    BY <1>1, <1>3
  <2> QED BY <2>1, <2>2, <1>1, <1>3, ScatterOK
<1>a. l \in Nat /\ n \in Nat /\ c \in Nat /\ BufLen \in Nat /\ l <= BufLen /\ n <= BufLen - l
      /\ c < BufLen
  BY <1>1
<1>7. /\ h.buf = b /\ h.eof = g.eof /\ h.tx_cursor = c /\ h.tx_len = l + n
      /\ (n # 0 => h.effect) /\ (n = 0 => h.effect = g.effect)
  <2> HIDE DEF b
  <2>1. /\ f \in RingState /\ f.buf = b /\ f.eof = g.eof /\ f.tx_cursor = c /\ f.tx_len = l
        /\ f.error # ENOBUFS /\ f.effect = g.effect
    BY <1>1, <1>6 DEF RingState, RingOK
  <2> HIDE DEF f
  <2>2. RxLen(f) = BufLen - l
    BY <2>1 DEF RxLen
  <2>3. CASE n = 0
    BY <1>1, <1>4, <2>1, <2>3 DEF MarkReceived
  <2>4. CASE n # 0
    <3> DEFINE a == [f EXCEPT !.tx_len = l + n]
    <3>1. l + n \in 0 .. BufLen
      BY <1>1
    <3>2. /\ a \in RingState /\ a.buf = f.buf /\ a.eof = f.eof /\ a.tx_cursor = f.tx_cursor
          /\ a.tx_len = l + n /\ a.error = f.error
      BY <2>1, <3>1 DEF RingState
    <3>3. h = [Sync(a) EXCEPT !.effect = TRUE]
      <4>1. CASE n < BufLen - l
        <5>1. l + n \in Nat /\ l + n < BufLen
          BY <1>1, <4>1
        <5>2. (l + n) % BufLen = l + n
          BY <5>1, ModCells
        <5>3. MarkReceived(f, n)
                = [Sync([f EXCEPT !.tx_len = (f.tx_len + n) % BufLen]) EXCEPT !.effect = TRUE]
          BY <1>1, <2>2, <2>4, <4>1 DEF MarkReceived
        <5> QED BY <1>4, <2>1, <5>2, <5>3
      <4>2. CASE n = BufLen - l
        <5>1. l + n = BufLen
          BY <1>1, <4>2
        <5>2. MarkReceived(f, n) = [Sync([f EXCEPT !.tx_len = BufLen]) EXCEPT !.effect = TRUE]
          BY <1>1, <2>2, <2>4, <4>2 DEF MarkReceived
        <5> QED BY <1>4, <5>1, <5>2
      <4> QED BY <1>a, <4>1, <4>2
    <3> HIDE DEF a
    <3>4. /\ [Sync(a) EXCEPT !.effect = TRUE].tx_cursor = a.tx_cursor
          /\ [Sync(a) EXCEPT !.effect = TRUE].tx_len = a.tx_len
          /\ [Sync(a) EXCEPT !.effect = TRUE].buf = a.buf
          /\ [Sync(a) EXCEPT !.effect = TRUE].eof = a.eof
      BY <2>1, <3>2, SyncEffect
    <3>5. [Sync(a) EXCEPT !.effect = TRUE].effect = TRUE
      BY <3>2, SyncOK DEF RingState
    <3> QED BY <2>1, <2>4, <3>2, <3>3, <3>4, <3>5
  <2> QED BY <2>3, <2>4
<1>8. /\ C \in Seq(Byte) /\ Len(C) = l
      /\ \A i \in 1 .. l : C[i] = g.buf[(c + (i - 1)) % BufLen]
  BY ContentIs
<1>9. /\ D \in Seq(Byte) /\ Len(D) = l + n
      /\ \A i \in 1 .. l + n : D[i] = b[(c + (i - 1)) % BufLen]
  BY <1>5, <1>7, ContentIs
<1>10. /\ E \in Seq(Byte) /\ Len(E) = l + n
       /\ \A i \in 1 .. l + n : E[i] = IF i <= l THEN C[i] ELSE bytes[i - l]
  <2>1. /\ E \in Seq(Byte) /\ Len(E) = Len(C) + n
        /\ \A i \in 1 .. Len(C) + n : E[i] = IF i <= Len(C) THEN C[i] ELSE bytes[i - Len(C)]
    BY <1>8, ConcatProperties
  <2> QED BY <1>8, <2>1
<1> HIDE DEF C, D, E
<1>11. ASSUME NEW i \in 1 .. l + n PROVE D[i] = E[i]
  <2> DEFINE x == (c + (i - 1)) % BufLen
             d == RxCursor(g)
  <2>1. /\ x \in Cells /\ x \in Nat /\ i \in Nat
        /\ x = IF c + (i - 1) < BufLen THEN c + (i - 1) ELSE c + (i - 1) - BufLen
    <3>1. i - 1 \in Nat /\ i - 1 < BufLen /\ c + (i - 1) \in Nat
      BY <1>1
    <3>2. x \in Cells
      BY <3>1, ModCells
    <3>3. x = IF c + (i - 1) < BufLen THEN c + (i - 1) ELSE c + (i - 1) - BufLen
      BY <1>1, <3>1, CellAt
    <3> QED BY <3>2, <3>3, BufLenAssumption DEF Cells
  <2>2. /\ d \in Nat /\ d = IF c + l < BufLen THEN c + l ELSE c + l - BufLen
    <3>1. CASE l < BufLen
      <4>1. (c + l) % BufLen = IF c + l < BufLen THEN c + l ELSE c + l - BufLen
        BY <1>1, <3>1, CellAt
      <4>2. d = (c + l) % BufLen
        BY <1>1
      <4>3. d = IF c + l < BufLen THEN c + l ELSE c + l - BufLen
        BY <4>1, <4>2, Zenon
      <4> HIDE DEF d, c, l
      <4> QED BY <1>a, <4>3
    <3>2. CASE l = BufLen
      <4>1. c + l \in Nat /\ c + l >= BufLen /\ c + l < BufLen + BufLen
        BY <1>1, <3>2
      <4> DEFINE s == c + l
      <4>2. s \in Nat /\ s >= BufLen /\ s < BufLen + BufLen
        BY <4>1
      <4> HIDE DEF s
      <4>3. s % BufLen = s - BufLen
        BY <4>2, ModCells
      <4>4. d = s % BufLen
        BY <1>1 DEF s
      <4>5. d = s - BufLen
        BY <4>3, <4>4, Zenon
      <4> HIDE DEF d, c, l
      <4> QED BY <1>a, <3>2, <4>5 DEF s
    <3> QED BY <1>a, <3>1, <3>2
  <2>3. D[i] = b[x]
    BY <1>9
  <2>b. i \in Nat /\ i >= 1 /\ i <= l + n
    BY <1>a
  <2> HIDE DEF x, d
  <2>4. b[x] = IF x >= v[1].base /\ x < v[1].base + ls[1] THEN bytes[x - v[1].base + 1]
               ELSE IF x >= v[2].base /\ x < v[2].base + ls[2]
                    THEN bytes[ls[1] + x - v[2].base + 1] ELSE g.buf[x]
    BY <2>1 DEF Scatter
  <2>5. ls[1] \in Nat /\ ls[2] \in Nat
    BY <1>3
  <2>6. /\ v[1].base = d
        /\ d + (BufLen - l) > BufLen => v[1].len = BufLen - d /\ v[2].base = 0
        /\ ~ (d + (BufLen - l) > BufLen) => v[1].len = BufLen - l /\ v[2].len = 0
    BY <1>1 DEF IovecSync, d
  <2>c. ls[1] <= v[1].len /\ ls[2] <= v[2].len /\ ls[1] + ls[2] = n
        /\ (ls[2] # 0 => ls[1] = v[1].len)
    BY <1>3
  <2> DEFINE l1 == ls[1]
             l2 == ls[2]
             v1 == v[1].len
             v2 == v[2].len
             b2 == v[2].base
             b1 == v[1].base
  <2>d. /\ l1 \in Nat /\ l2 \in Nat /\ v1 \in Nat /\ v2 \in Nat /\ b2 \in Nat /\ b1 = d
        /\ d + (BufLen - l) > BufLen => v1 = BufLen - d /\ b2 = 0
        /\ ~ (d + (BufLen - l) > BufLen) => v1 = BufLen - l /\ v2 = 0
        /\ l1 <= v1 /\ l2 <= v2 /\ l1 + l2 = n /\ (l2 # 0 => l1 = v1)
    BY <1>2, <2>5, <2>6, <2>c
  <2>e. /\ x \in Nat /\ d \in Nat
        /\ x = IF c + (i - 1) < BufLen THEN c + (i - 1) ELSE c + (i - 1) - BufLen
        /\ d = IF c + l < BufLen THEN c + l ELSE c + l - BufLen
    BY <2>1, <2>2
  <2> HIDE DEF l1, l2, v1, v2, b1, b2, c, l, n, v
  <2>7. CASE i <= l
    <3>1. E[i] = g.buf[x]
      BY <1>8, <1>10, <2>7 DEF x
    <3>2. ~ (x >= b1 /\ x < b1 + l1) /\ ~ (x >= b2 /\ x < b2 + l2)
      BY <1>a, <2>b, <2>d, <2>e, <2>7
    <3> QED BY <2>3, <2>4, <3>1, <3>2 DEF b1, b2, l1, l2
  <2>8. CASE ~ (i <= l)
    <3>1. E[i] = bytes[i - l]
      BY <1>10, <2>8
    <3>2. \/ x >= b1 /\ x < b1 + l1 /\ x - b1 + 1 = i - l
          \/ /\ ~ (x >= b1 /\ x < b1 + l1)
             /\ x >= b2 /\ x < b2 + l2 /\ l1 + x - b2 + 1 = i - l
      <4>1. CASE d + (BufLen - l) > BufLen
        BY <1>a, <2>b, <2>d, <2>e, <2>8, <4>1
      <4>2. CASE ~ (d + (BufLen - l) > BufLen)
        BY <1>a, <2>b, <2>d, <2>e, <2>8, <4>2
      <4> QED BY <4>1, <4>2
    <3> QED BY <2>3, <2>4, <3>1, <3>2 DEF b1, b2, l1, l2
  <2> QED BY <2>7, <2>8
<1>12. D = E
  BY <1>9, <1>10, <1>11, SeqEqual
<1> QED BY <1>1, <1>5, <1>7, <1>12 DEF Pushes, D, E, C, h

(* A ring has room for no more: of a longer sequence the rest is left.     *)
LEMMA FillCuts ==
  ASSUME NEW g, RingOK(g), NEW bytes \in Seq(Byte), Len(bytes) > RxLen(g)
  PROVE  /\ Fill(g, bytes) = Fill(g, SubSeq(bytes, 1, RxLen(g)))
         /\ SubSeq(bytes, 1, RxLen(g)) \in Seq(Byte)
         /\ Len(SubSeq(bytes, 1, RxLen(g))) = RxLen(g)
<1> DEFINE m   == RxLen(g)
           cut == SubSeq(bytes, 1, m)
           v   == g.vector_rx
           ls  == Request(v, Len(bytes))
<1>1. /\ m \in Nat /\ Len(bytes) \in Nat /\ v \in Vector \X Vector /\ IovecLen(v) = m
  BY VectorLens, BufLenAssumption
<1>2. /\ cut \in Seq(Byte) /\ Len(cut) = m /\ \A i \in 1 .. m : cut[i] = bytes[i]
  <2>1. \A i \in 1 .. m : bytes[i] \in Byte
    BY <1>1
  <2>2. /\ cut \in Seq(Byte) /\ Len(cut) = (IF 1 <= m THEN m - 1 + 1 ELSE 0)
        /\ \A i \in 1 .. m - 1 + 1 : cut[i] = bytes[1 + i - 1]
    BY <1>1, <2>1, SubSeqProperties
  <2>3. m - 1 + 1 = m /\ \A i \in 1 .. m : 1 + i - 1 = i
    BY <1>1
  <2> QED BY <1>1, <2>2, <2>3
<1>3. v[1].len \in Nat /\ v[2].len \in Nat /\ v[1].base \in Nat /\ v[2].base \in Nat
      /\ v[1].len + v[2].len = m
  BY <1>1, BufLenAssumption DEF Vector, Cells, IovecLen
<1>a. Len(bytes) > m
  OBVIOUS
<1> HIDE DEF m, cut
<1>4. ls = << v[1].len, v[2].len >> /\ Request(v, m) = << v[1].len, v[2].len >>
  <2> DEFINE v1 == v[1].len
             v2 == v[2].len
             n  == Len(bytes)
  <2>1. v1 \in Nat /\ v2 \in Nat /\ m = v1 + v2 /\ n \in Nat /\ n > m
    BY <1>1, <1>3, <1>a
  <2>2. /\ ls = (CASE n <= v1 -> << n, 0 >> [] n > v1 /\ n <= v1 + v2 -> << v1, n - v1 >>
                 [] OTHER -> << v1, v2 >>)
        /\ Request(v, m) = (CASE m <= v1 -> << m, 0 >>
                 [] m > v1 /\ m <= v1 + v2 -> << v1, m - v1 >> [] OTHER -> << v1, v2 >>)
    BY DEF Request, IovecLen
  <2> HIDE DEF v1, v2, n, ls
  <2>3. ls = << v1, v2 >>
    BY <2>1, <2>2
  <2>4. m <= v1 => v2 = 0 /\ m = v1
    BY <2>1
  <2>5. m > v1 => m - v1 = v2 /\ m <= v1 + v2
    BY <2>1
  <2>6. m <= v1 \/ m > v1
    BY <2>1
  <2>7. Request(v, m) = << v1, v2 >>
    BY <2>1, <2>2, <2>4, <2>5, <2>6
  <2> QED BY <2>3, <2>7 DEF v1, v2
<1> HIDE DEF ls, v
<1>5. Scatter(g.buf, v, ls, bytes) = Scatter(g.buf, v, ls, cut)
  <2>1. ASSUME NEW c \in Cells
        PROVE  (IF c >= v[1].base /\ c < v[1].base + ls[1] THEN bytes[c - v[1].base + 1]
                ELSE IF c >= v[2].base /\ c < v[2].base + ls[2]
                     THEN bytes[ls[1] + c - v[2].base + 1] ELSE g.buf[c])
             = (IF c >= v[1].base /\ c < v[1].base + ls[1] THEN cut[c - v[1].base + 1]
                ELSE IF c >= v[2].base /\ c < v[2].base + ls[2]
                     THEN cut[ls[1] + c - v[2].base + 1] ELSE g.buf[c])
    <3>1. c \in Nat /\ ls[1] = v[1].len /\ ls[2] = v[2].len
      BY <1>4, BufLenAssumption DEF Cells
    <3>2. CASE c >= v[1].base /\ c < v[1].base + ls[1]
      <4>1. c - v[1].base + 1 \in 1 .. m
        BY <1>1, <1>3, <3>1, <3>2
      <4> QED BY <1>2, <3>2, <4>1
    <3>3. CASE ~ (c >= v[1].base /\ c < v[1].base + ls[1])
               /\ c >= v[2].base /\ c < v[2].base + ls[2]
      <4>1. ls[1] + c - v[2].base + 1 \in 1 .. m
        BY <1>1, <1>3, <3>1, <3>3, SMTT(30)
      <4> QED BY <1>2, <3>3, <4>1
    <3> QED BY <3>2, <3>3
  <2> QED BY <2>1 DEF Scatter
<1>6. Fill(g, bytes) = Fill(g, cut)
  <2>1. Request(v, Len(cut)) = ls
    BY <1>2, <1>4
  <2> QED BY <1>5, <2>1 DEF Fill, ls, v
<1> QED BY <1>1, <1>2, <1>6 DEF m, cut

(* Two rings that differ in their blocked marks, error and closed mark.    *)
Alike(g, h) ==
  /\ RingOK(g) /\ RingOK(h)
  /\ h.tx_cursor = g.tx_cursor /\ h.tx_len = g.tx_len /\ h.buf = g.buf /\ h.eof = g.eof

(* Transfers do not depend on these.                                       *)
LEMMA AlikeTransfers ==
  ASSUME NEW g, NEW f, NEW h, NEW e, Alike(g, f), Alike(h, e),
         f.effect = g.effect, e.effect = h.effect
  PROVE  /\ \A n : Pops(f, h, n) => Pops(g, e, n)
         /\ \A bytes : Pushes(f, h, bytes) => Pushes(g, e, bytes)
<1>1. Content(f) = Content(g) /\ Content(e) = Content(h)
  BY SameContent DEF Alike
<1>2. RxLen(f) = RxLen(g)
  BY DEF Alike, RxLen
<1> QED BY <1>1, <1>2 DEF Pops, Pushes, Alike

(* Setting one of the blocked marks gives an alike ring.                   *)
LEMMA BlockedAlike ==
  ASSUME NEW g, RingOK(g), NEW b \in BOOLEAN
  PROVE  /\ Alike(g, [g EXCEPT !.rx_blocked = b]) /\ Alike(g, [g EXCEPT !.tx_blocked = b])
         /\ [g EXCEPT !.rx_blocked = b].effect = g.effect
         /\ [g EXCEPT !.tx_blocked = b].effect = g.effect
<1>1. g \in RingState
  BY DEF RingOK
<1>2. RingOK([g EXCEPT !.rx_blocked = b]) /\ RingOK([g EXCEPT !.tx_blocked = b])
  BY FlagsOK DEF Errno
<1> QED BY <1>1, <1>2 DEF Alike, RingState

(* vk_vectoring_send appends what fits, or nothing behind an EOF.          *)
LEMMA SendPushes ==
  ASSUME NEW g, RingOK(g), NEW bytes \in Seq(Byte)
  PROVE  \/ Send(g, bytes) = g
         \/ ~ g.eof /\ \E b \in Seq(Byte) : Pushes(g, Send(g, bytes), b)
<1>1. RxLen(g) \in Nat /\ Len(bytes) \in Nat
  BY VectorLens, BufLenAssumption
<1>2. CASE Len(bytes) > 0 /\ g.eof
  BY <1>2 DEF Send
<1>3. CASE Len(bytes) = 0
  <2>1. Request(g.vector_rx, 0) = << 0, 0 >>
    <3>1. g.vector_rx \in Vector \X Vector
      BY VectorLens
    <3>2. g.vector_rx[1].len \in Nat
      BY <3>1, BufLenAssumption DEF Vector
    <3> QED BY <3>2 DEF Request
  <2>2. Send(g, bytes) = MarkReceived([g EXCEPT !.buf = Scatter(g.buf, g.vector_rx, << 0, 0 >>, bytes)], 0)
    BY <1>3, <2>1 DEF Send, Fill
  <2>3. Scatter(g.buf, g.vector_rx, << 0, 0 >>, bytes) = g.buf
    <3>1. g.vector_rx \in Vector \X Vector /\ g.buf \in [Cells -> Byte]
      BY VectorLens DEF RingOK, RingState
    <3>2. g.vector_rx[1].base \in Nat /\ g.vector_rx[2].base \in Nat
      BY <3>1, BufLenAssumption DEF Vector, Cells
    <3>3. \A c \in Cells : c \in Nat
      BY BufLenAssumption DEF Cells
    <3>4. Scatter(g.buf, g.vector_rx, << 0, 0 >>, bytes) = [c \in Cells |-> g.buf[c]]
      BY <3>2, <3>3 DEF Scatter
    <3> QED BY <3>1, <3>4
  <2>4. [g EXCEPT !.buf = g.buf] = g
    BY DEF RingOK, RingState
  <2> QED BY <2>2, <2>3, <2>4 DEF MarkReceived
<1>4. CASE Len(bytes) # 0 /\ ~ g.eof
  <2>1. Send(g, bytes) = Fill(g, bytes)
    BY <1>4 DEF Send
  <2>2. CASE Len(bytes) <= RxLen(g)
    BY <1>4, <2>1, <2>2, FillPushes
  <2>3. CASE Len(bytes) > RxLen(g)
    <3> DEFINE cut == SubSeq(bytes, 1, RxLen(g))
    <3>1. cut \in Seq(Byte) /\ Len(cut) = RxLen(g) /\ Fill(g, bytes) = Fill(g, cut)
      BY <2>3, FillCuts
    <3> HIDE DEF cut
    <3>2. Len(cut) <= RxLen(g)
      BY <1>1, <3>1
    <3> QED BY <1>4, <2>1, <3>1, <3>2, FillPushes
  <2> QED BY <1>1, <2>2, <2>3
<1> QED BY <1>1, <1>2, <1>3, <1>4

(* So does accept() of a record.                                           *)
LEMMA AcceptPushes ==
  ASSUME NEW g, RingOK(g), NEW bytes \in Seq(Byte)
  PROVE  \/ Alike(g, Accept(g, bytes)) /\ Accept(g, bytes).effect = g.effect
         \/ ~ g.eof /\ \E b \in Seq(Byte) : Pushes(g, Accept(g, bytes), b)
<1> DEFINE f == [g EXCEPT !.rx_blocked = FALSE]
           h == Send(f, bytes)
<1>1. Alike(g, f) /\ f.effect = g.effect
  BY BlockedAlike
<1>2. Accept(g, bytes) = f \/ Accept(g, bytes) = h
  BY DEF Accept
<1> HIDE DEF f
<1>3. RingOK(f) /\ f.eof = g.eof
  BY <1>1 DEF Alike
<1>4. h = f \/ (~ f.eof /\ \E b \in Seq(Byte) : Pushes(f, h, b))
  BY <1>3, SendPushes
<1> HIDE DEF h
<1>5. ASSUME NEW b \in Seq(Byte), Pushes(f, h, b) PROVE Pushes(g, h, b)
  <2>1. Alike(h, h)
    BY <1>5 DEF Alike, Pushes
  <2> QED BY <1>1, <1>5, <2>1, AlikeTransfers
<1> QED BY <1>1, <1>2, <1>3, <1>4, <1>5

(* readv() appends what it read.                                           *)
LEMMA ReadArrives ==
  ASSUME NEW g, RingOK(g), NEW bytes \in Seq(Byte), Len(bytes) <= IovecLen(g.vector_rx)
  PROVE  /\ RingOK(Read(g, bytes)) /\ Len(bytes) <= RxLen(g)
         /\ Content(Read(g, bytes)) = Content(g) \o bytes
         /\ Read(g, bytes).eof = (Len(bytes) = 0)
         /\ Read(g, bytes).tx_len = g.tx_len + Len(bytes)
         /\ Read(g, bytes).tx_len # g.tx_len => Read(g, bytes).effect
<1> DEFINE short == Len(bytes) < IovecLen(g.vector_rx)
           none  == Len(bytes) = 0
           f  == [g EXCEPT !.rx_blocked = short, !.eof = none]
<1>1. Read(g, bytes) = Fill(f, bytes)
  BY DEF Read
<1>2. short \in BOOLEAN /\ none \in BOOLEAN
  OBVIOUS
<1> HIDE DEF short, none
<1>3. /\ f \in RingState /\ f.tx_cursor = g.tx_cursor /\ f.tx_len = g.tx_len
      /\ f.vector_tx = g.vector_tx /\ f.vector_rx = g.vector_rx /\ f.error # ENOBUFS
      /\ f.buf = g.buf /\ f.eof = none
  BY <1>2 DEF RingOK, RingState
<1> HIDE DEF f
<1>4. RingOK(f)
  BY <1>3, SameShape
<1>5. RxLen(f) = RxLen(g) /\ IovecLen(g.vector_rx) = RxLen(g)
  BY <1>3, VectorLens DEF RxLen
<1>6. Pushes(f, Fill(f, bytes), bytes)
  BY <1>4, <1>5, FillPushes
<1>7. Content(f) = Content(g)
  BY <1>3, SameContent
<1> QED BY <1>1, <1>3, <1>5, <1>6, <1>7 DEF Pushes, none

(* writev() takes what it wrote.                                           *)
LEMMA WritePops ==
  ASSUME NEW g, RingOK(g), NEW sent \in Nat, sent <= IovecLen(g.vector_tx)
  PROVE  Pops(g, Write(g, sent), sent)
<1> DEFINE short == sent < IovecLen(g.vector_tx)
           f == [g EXCEPT !.tx_blocked = short]
           h == MarkSent(f, sent)
<1>1. Write(g, sent) = h
  BY DEF Write
<1>2. short \in BOOLEAN
  OBVIOUS
<1> HIDE DEF short
<1>3. Alike(g, f) /\ f.effect = g.effect
  BY <1>2, BlockedAlike
<1> HIDE DEF f
<1>4. RingOK(f) /\ sent \in 0 .. f.tx_len
  BY <1>3, VectorLens DEF Alike
<1>5. Pops(f, h, sent)
  BY <1>4, MarkSentPops
<1> HIDE DEF h
<1>6. Alike(h, h)
  BY <1>5 DEF Alike, Pops
<1>7. Pops(g, h, sent)
  BY <1>3, <1>5, <1>6, AlikeTransfers
<1> QED BY <1>1, <1>7

(* Bytes taken in two parts are the oldest of both together.               *)
LEMMA PopsTwice ==
  ASSUME NEW g, RingOK(g), NEW f, NEW h, NEW n \in Nat, NEW k \in Nat, Pops(g, f, n), Pops(f, h, k)
  PROVE  /\ Pops(g, h, n + k)
         /\ SubSeq(Content(g), 1, n) \o SubSeq(Content(f), 1, k) = SubSeq(Content(g), 1, n + k)
<1> DEFINE C == Content(g)
           D == Content(f)
           l == g.tx_len
<1>1. /\ C \in Seq(Byte) /\ Len(C) = l /\ l \in Nat /\ \A i \in 1 .. l : C[i] \in Byte
      /\ D \in Seq(Byte) /\ Len(D) = f.tx_len /\ \A i \in 1 .. f.tx_len : D[i] \in Byte
  <2>1. RingOK(f)
    BY DEF Pops
  <2>2. l \in Nat
    BY BufLenAssumption DEF RingOK, RingState
  <2>3. C \in Seq(Byte) /\ Len(C) = l /\ \A i \in 1 .. l : C[i] \in Byte
    BY ContentIs
  <2>4. D \in Seq(Byte) /\ Len(D) = f.tx_len /\ \A i \in 1 .. f.tx_len : D[i] \in Byte
    BY <2>1, ContentIs
  <2> QED BY <2>2, <2>3, <2>4
<1>2. /\ n <= l /\ f.tx_len = l - n /\ k <= l - n /\ h.tx_len = l - n - k
      /\ D = SubSeq(C, n + 1, l) /\ Content(h) = SubSeq(D, k + 1, l - n)
  BY <1>1, SMTT(30) DEF Pops
<1> HIDE DEF C, D, l
<1>3. \A i \in 1 .. l - n : D[i] = C[n + i]
  <2>1. \A i \in n + 1 .. l : C[i] \in Byte
    BY <1>1
  <2>2. n + 1 \in Int /\ l \in Int
    BY <1>1
  <2>3. \A i \in 1 .. l - (n + 1) + 1 : SubSeq(C, n + 1, l)[i] = C[(n + 1) + i - 1]
    BY <2>1, <2>2, SubSeqProperties
  <2>4. l - (n + 1) + 1 = l - n /\ \A i \in 1 .. l - n : (n + 1) + i - 1 = n + i
    BY <1>1
  <2> QED BY <1>2, <2>3, <2>4
<1>4. Content(h) = SubSeq(C, n + k + 1, l)
  <2> DEFINE E == SubSeq(D, k + 1, l - n)
             F == SubSeq(C, n + k + 1, l)
             x == l - n - k
  <2>0. x \in Nat /\ l - n \in Int /\ k + 1 \in Int /\ n + k + 1 \in Int /\ l \in Int
    BY <1>1, <1>2
  <2>1. E \in Seq(Byte) /\ Len(E) = x /\ \A i \in 1 .. x : E[i] = D[k + i]
    <3>1. \A i \in k + 1 .. l - n : D[i] \in Byte
      BY <1>1, <1>2
    <3>2. /\ E \in Seq(Byte) /\ Len(E) = (IF k + 1 <= l - n THEN (l - n) - (k + 1) + 1 ELSE 0)
          /\ \A i \in 1 .. (l - n) - (k + 1) + 1 : E[i] = D[(k + 1) + i - 1]
      BY <2>0, <3>1, SubSeqProperties
    <3>3. (l - n) - (k + 1) + 1 = x /\ (\A i \in 1 .. x : (k + 1) + i - 1 = k + i)
          /\ (~ (k + 1 <= l - n) => x = 0)
      BY <1>1, <1>2
    <3> HIDE DEF E, x
    <3> QED BY <3>2, <3>3
  <2>2. F \in Seq(Byte) /\ Len(F) = x /\ \A i \in 1 .. x : F[i] = C[n + k + i]
    <3>1. \A i \in n + k + 1 .. l : C[i] \in Byte
      BY <1>1
    <3>2. /\ F \in Seq(Byte) /\ Len(F) = (IF n + k + 1 <= l THEN l - (n + k + 1) + 1 ELSE 0)
          /\ \A i \in 1 .. l - (n + k + 1) + 1 : F[i] = C[(n + k + 1) + i - 1]
      BY <2>0, <3>1, SubSeqProperties
    <3>3. l - (n + k + 1) + 1 = x /\ (\A i \in 1 .. x : (n + k + 1) + i - 1 = n + k + i)
          /\ (~ (n + k + 1 <= l) => x = 0)
      BY <1>1, <1>2
    <3> HIDE DEF F, x
    <3> QED BY <3>2, <3>3
  <2>3. \A i \in 1 .. x : D[k + i] = C[n + k + i]
    <3>1. \A i \in 1 .. x : k + i \in 1 .. l - n /\ n + (k + i) = n + k + i
      BY <1>1, <1>2
    <3> QED BY <1>3, <3>1
  <2> HIDE DEF E, F, x
  <2>4. E = F
    BY <2>1, <2>2, <2>3, SeqEqual
  <2> QED BY <1>2, <2>4 DEF E, F
<1>5. SubSeq(C, 1, n) \o SubSeq(D, 1, k) = SubSeq(C, 1, n + k)
  <2> DEFINE A == SubSeq(C, 1, n)
             B == SubSeq(D, 1, k)
             E == A \o B
             F == SubSeq(C, 1, n + k)
  <2>0. n + k \in Nat /\ n + k \in Int /\ n \in Int /\ k \in Int /\ n + k <= l
    BY <1>1, <1>2
  <2>1. A \in Seq(Byte) /\ Len(A) = n /\ \A i \in 1 .. n : A[i] = C[i]
    <3>1. \A i \in 1 .. n : C[i] \in Byte
      BY <1>1, <1>2
    <3>2. /\ A \in Seq(Byte) /\ Len(A) = (IF 1 <= n THEN n - 1 + 1 ELSE 0)
          /\ \A i \in 1 .. n - 1 + 1 : A[i] = C[1 + i - 1]
      BY <2>0, <3>1, SubSeqProperties
    <3>3. n - 1 + 1 = n /\ \A i \in 1 .. n : 1 + i - 1 = i
      OBVIOUS
    <3> HIDE DEF A
    <3> QED BY <3>2, <3>3
  <2>2. B \in Seq(Byte) /\ Len(B) = k /\ \A i \in 1 .. k : B[i] = D[i]
    <3>1. \A i \in 1 .. k : D[i] \in Byte
      BY <1>1, <1>2
    <3>2. /\ B \in Seq(Byte) /\ Len(B) = (IF 1 <= k THEN k - 1 + 1 ELSE 0)
          /\ \A i \in 1 .. k - 1 + 1 : B[i] = D[1 + i - 1]
      BY <2>0, <3>1, SubSeqProperties
    <3>3. k - 1 + 1 = k /\ \A i \in 1 .. k : 1 + i - 1 = i
      OBVIOUS
    <3> HIDE DEF B
    <3> QED BY <3>2, <3>3
  <2>3. F \in Seq(Byte) /\ Len(F) = n + k /\ \A i \in 1 .. n + k : F[i] = C[i]
    <3>1. \A i \in 1 .. n + k : C[i] \in Byte
      BY <1>1, <2>0
    <3>2. /\ F \in Seq(Byte) /\ Len(F) = (IF 1 <= n + k THEN n + k - 1 + 1 ELSE 0)
          /\ \A i \in 1 .. n + k - 1 + 1 : F[i] = C[1 + i - 1]
      BY <2>0, <3>1, SubSeqProperties
    <3>3. n + k - 1 + 1 = n + k /\ \A i \in 1 .. n + k : 1 + i - 1 = i
      OBVIOUS
    <3> HIDE DEF F
    <3> QED BY <2>0, <3>2, <3>3
  <2> HIDE DEF A, B, F
  <2>4. E \in Seq(Byte) /\ Len(E) = n + k
        /\ \A i \in 1 .. n + k : E[i] = IF i <= n THEN A[i] ELSE B[i - n]
    BY <2>1, <2>2, ConcatProperties
  <2>5. ASSUME NEW i \in 1 .. n + k PROVE E[i] = F[i]
    <3>1. CASE i <= n
      <4>1. i \in 1 .. n
        BY <3>1
      <4> QED BY <2>1, <2>3, <2>4, <3>1, <4>1
    <3>2. CASE ~ (i <= n)
      <4>1. i - n \in 1 .. k /\ i - n \in 1 .. l - n /\ n + (i - n) = i
        BY <1>1, <1>2, <3>2, SMTT(30)
      <4> QED BY <1>3, <2>2, <2>3, <2>4, <3>2, <4>1
    <3> QED BY <3>1, <3>2
  <2> HIDE DEF E
  <2>6. E = F
    BY <2>3, <2>4, <2>5, SeqEqual
  <2> QED BY <2>6 DEF E, A, B, F
<1>6. n + k \in 0 .. l /\ h.tx_len = l - (n + k) /\ n + k + 1 = (n + k) + 1
  BY <1>1, <1>2, SMTT(30)
<1>7. RingOK(h) /\ h.eof = g.eof /\ (h.tx_len # g.tx_len \/ g.effect => h.effect)
  <2>1. /\ RingOK(h) /\ h.eof = f.eof /\ f.eof = g.eof
        /\ f.tx_len # g.tx_len \/ g.effect => f.effect
        /\ h.tx_len # f.tx_len \/ f.effect => h.effect
    BY DEF Pops
  <2> QED BY <2>1
<1> QED BY <1>1, <1>4, <1>5, <1>6, <1>7 DEF Pops, C, D, l

(* A splice takes the oldest bytes of one ring and appends them to the     *)
(* other, in their order.                                                  *)
LEMMA SpliceMoves ==
  ASSUME NEW rx, RingOK(rx), NEW tx, RingOK(tx), NEW len \in Int
  PROVE  \E n \in Nat : /\ Pops(tx, SpliceTx(rx, tx, len), n)
                        /\ Pushes(rx, SpliceRx(rx, tx, len), SubSeq(Content(tx), 1, n))
                        /\ Len(SubSeq(Content(tx), 1, n)) = n
<1> DEFINE want == SpliceLen(rx, tx, len)
           ls   == Request(rx.vector_rx, want)
           mid  == Recv(tx, ls[1])
           end  == Recv(mid, ls[2])
           b    == RecvBytes(tx, ls[1]) \o RecvBytes(mid, ls[2])
           fill == Fill(rx, b)
<1>1. want \in Nat /\ want <= RxLen(rx) /\ want <= tx.tx_len
      /\ RxLen(rx) \in Nat /\ tx.tx_len \in Nat /\ rx.vector_rx \in Vector \X Vector
      /\ IovecLen(rx.vector_rx) = RxLen(rx)
  BY VectorLens, BufLenAssumption DEF SpliceLen
<1> HIDE DEF want
<1>2. ls \in Nat \X Nat /\ ls[1] + ls[2] = want
  <2>1. rx.vector_rx[1].len \in Nat /\ rx.vector_rx[2].len \in Nat
    BY <1>1, BufLenAssumption DEF Vector
  <2>2. /\ ls \in (0 .. rx.vector_rx[1].len) \X (0 .. rx.vector_rx[2].len)
        /\ ls[1] + ls[2] = want
    BY <1>1, RequestOK
  <2> QED BY <2>1, <2>2
<1>3. SpliceTx(rx, tx, len)
          = [end EXCEPT !.tx_blocked = ls[1] + ls[2] < IovecLen(end.vector_tx)]
  BY DEF SpliceTx, want
<1>4. SpliceRx(rx, tx, len)
          = [fill EXCEPT !.rx_blocked = ls[1] + ls[2] < IovecLen(fill.vector_rx)]
  BY DEF SpliceRx, want
<1> HIDE DEF ls
<1>0. ls[1] \in Nat /\ ls[2] \in Nat /\ ls[1] <= tx.tx_len /\ ls[2] <= tx.tx_len - ls[1]
  BY <1>1, <1>2
<1>5. Pops(tx, mid, ls[1]) /\ RecvBytes(tx, ls[1]) = SubSeq(Content(tx), 1, ls[1])
  BY <1>0, RecvPops
<1> HIDE DEF mid
<1>6. RingOK(mid) /\ mid.tx_len = tx.tx_len - ls[1]
  BY <1>5 DEF Pops
<1>7. ls[2] <= mid.tx_len
  BY <1>0, <1>6
<1>8. Pops(mid, end, ls[2]) /\ RecvBytes(mid, ls[2]) = SubSeq(Content(mid), 1, ls[2])
  BY <1>0, <1>6, <1>7, RecvPops
<1> HIDE DEF end
<1>9. Pops(tx, end, want) /\ b = SubSeq(Content(tx), 1, want)
  <2>1. /\ Pops(tx, end, ls[1] + ls[2])
        /\ SubSeq(Content(tx), 1, ls[1]) \o SubSeq(Content(mid), 1, ls[2])
             = SubSeq(Content(tx), 1, ls[1] + ls[2])
    BY <1>0, <1>5, <1>8, PopsTwice
  <2> QED BY <1>2, <1>5, <1>8, <2>1
<1> HIDE DEF b
<1>10. b \in Seq(Byte) /\ Len(b) = want
  <2>1. Len(Content(tx)) = tx.tx_len /\ \A i \in 1 .. tx.tx_len : Content(tx)[i] \in Byte
    BY ContentIs
  <2>2. \A i \in 1 .. want : Content(tx)[i] \in Byte
    BY <1>1, <2>1
  <2>3. /\ SubSeq(Content(tx), 1, want) \in Seq(Byte)
        /\ Len(SubSeq(Content(tx), 1, want)) = IF 1 <= want THEN want - 1 + 1 ELSE 0
    BY <1>1, <2>2, SubSeqProperties
  <2> QED BY <1>1, <1>9, <2>3
<1>11. Pushes(rx, fill, b)
  BY <1>1, <1>10, FillPushes
<1> HIDE DEF fill
<1>12. Pops(tx, SpliceTx(rx, tx, len), want)
  <2> DEFINE short == ls[1] + ls[2] < IovecLen(end.vector_tx)
             h == [end EXCEPT !.tx_blocked = short]
  <2>1. short \in BOOLEAN /\ RingOK(end)
    BY <1>9 DEF Pops
  <2>2. SpliceTx(rx, tx, len) = h
    BY <1>3
  <2> HIDE DEF short
  <2>3. Alike(end, h) /\ h.effect = end.effect
    BY <2>1, BlockedAlike
  <2> HIDE DEF h
  <2>4. Alike(tx, tx)
    BY DEF Alike
  <2>5. Pops(tx, h, want)
    BY <1>9, <2>3, <2>4, AlikeTransfers
  <2> QED BY <2>2, <2>5
<1>13. Pushes(rx, SpliceRx(rx, tx, len), b)
  <2> DEFINE short == ls[1] + ls[2] < IovecLen(fill.vector_rx)
             h == [fill EXCEPT !.rx_blocked = short]
  <2>1. short \in BOOLEAN /\ RingOK(fill)
    BY <1>11 DEF Pushes
  <2>2. SpliceRx(rx, tx, len) = h
    BY <1>4
  <2> HIDE DEF short
  <2>3. Alike(fill, h) /\ h.effect = fill.effect
    BY <2>1, BlockedAlike
  <2> HIDE DEF h
  <2>4. Alike(rx, rx)
    BY DEF Alike
  <2>5. Pushes(rx, h, b)
    BY <1>11, <2>3, <2>4, AlikeTransfers
  <2> QED BY <2>2, <2>5
<1> QED BY <1>1, <1>9, <1>10, <1>12, <1>13


----------------------------------------------------------------------------
(* From rings to queues. *)

(* The refinement mapping: what each ring holds, and its EOF mark.         *)
Held == [r \in Rings |-> Content(ring[r])]
Ends == [r \in Rings |-> ring[r].eof]

(* What a step has to show: it is a step of the queues or leaves them      *)
(* alone, and it raises the effect flag where EffectRaised asks for it.    *)
Woken ==
  \A r \in Rings :
    (ring'[r].tx_len # ring[r].tx_len \/ (r \in TxRings /\ ring'[r].eof # ring[r].eof))
      => ring'[r].effect
Mapped == (Fifo!Next \/ (Held' = Held /\ Ends' = Ends)) /\ Woken

(* The actions of the queues, in terms of the mapping.                     *)
LEMMA FifoActions ==
  ASSUME NEW r, NEW q, NEW bytes, NEW n
  PROVE  /\ Fifo!Arrive(r, bytes) <=>
              /\ Len(Held[r]) + Len(bytes) <= BufLen
              /\ Held' = [Held EXCEPT ![r] = @ \o bytes]
              /\ Ends' = [Ends EXCEPT ![r] = (bytes = << >>)]
         /\ Fifo!Push(r, bytes) <=>
              /\ ~ Ends[r]
              /\ Len(Held[r]) + Len(bytes) <= BufLen
              /\ Held' = [Held EXCEPT ![r] = @ \o bytes]
              /\ Ends' = Ends
         /\ Fifo!Pop(r, n) <=>
              /\ n <= Len(Held[r])
              /\ Held' = [Held EXCEPT ![r] = SubSeq(@, n + 1, Len(@))]
              /\ Ends' = Ends
         /\ Fifo!Transfer(r, q, n) <=>
              /\ n <= Len(Held[q])
              /\ Len(Held[r]) + n <= BufLen
              /\ Held' = [Held EXCEPT ![r] = @ \o SubSeq(Held[q], 1, n),
                                      ![q] = SubSeq(@, n + 1, Len(@))]
              /\ Ends' = Ends
         /\ Fifo!Raise(r) <=> Ends' = [Ends EXCEPT ![r] = TRUE] /\ Held' = Held
         /\ Fifo!Lower(r) <=> Ends[r] /\ Ends' = [Ends EXCEPT ![r] = FALSE] /\ Held' = Held
         /\ Fifo!Carry(r, q) <=>
              /\ Ends[q] /\ Ends' = [Ends EXCEPT ![q] = FALSE, ![r] = TRUE] /\ Held' = Held
BY DEF Held, Ends, Fifo!Arrive, Fifo!Push, Fifo!Pop, Fifo!Transfer, Fifo!Raise, Fifo!Lower,
       Fifo!Carry, Fifo!Fits

(* A sequence of bytes that fits a ring is a chunk of the queues.          *)
LEMMA ChunkFits ==
  ASSUME NEW b \in Seq(Byte), Len(b) <= BufLen
  PROVE  b \in Fifo!Chunk
<1>1. Len(b) \in 0 .. BufLen /\ b \in [1 .. Len(b) -> Byte]
  BY BufLenAssumption
<1> QED BY <1>1 DEF Fifo!Chunk

(* Replacing one ring changes one queue.                                   *)
LEMMA OneReplaced ==
  ASSUME IInv, NEW r \in Rings, NEW h, ring' = [ring EXCEPT ![r] = h]
  PROVE  /\ Held' = [Held EXCEPT ![r] = Content(h)]
         /\ Ends' = [Ends EXCEPT ![r] = h.eof]
         /\ ring'[r] = h /\ \A s \in Rings \ {r} : ring'[s] = ring[s]
         /\ Held[r] = Content(ring[r]) /\ Ends[r] = ring[r].eof
<1>1. ring'[r] = h /\ \A s \in Rings \ {r} : ring'[s] = ring[s]
  BY DEF IInv
<1>2. Held' = [s \in Rings |-> Content(ring'[s])] /\ Ends' = [s \in Rings |-> ring'[s].eof]
  BY DEF Held, Ends
<1>3. /\ Held = [s \in Rings |-> Content(ring[s])] /\ Ends = [s \in Rings |-> ring[s].eof]
      /\ Held[r] = Content(ring[r]) /\ Ends[r] = ring[r].eof
  BY DEF Held, Ends
<1> DEFINE H == [Held EXCEPT ![r] = Content(h)]
           E == [Ends EXCEPT ![r] = h.eof]
<1>4. /\ H = [s \in Rings |-> IF s = r THEN Content(h) ELSE Content(ring[s])]
      /\ E = [s \in Rings |-> IF s = r THEN h.eof ELSE ring[s].eof]
  BY <1>3
<1>5. ASSUME NEW s \in Rings
      PROVE  /\ Content(ring'[s]) = IF s = r THEN Content(h) ELSE Content(ring[s])
             /\ ring'[s].eof = IF s = r THEN h.eof ELSE ring[s].eof
  <2>1. CASE s = r
    BY <1>1, <2>1
  <2>2. CASE s # r
    <3>1. ring'[s] = ring[s]
      BY <1>1, <2>2
    <3> QED BY <2>2, <3>1
  <2> QED BY <2>1, <2>2
<1> HIDE DEF H, E
<1>6. Held' = H /\ Ends' = E
  BY <1>2, <1>4, <1>5
<1> QED BY <1>1, <1>3, <1>6 DEF H, E

(* Replacing two changes two.                                              *)
LEMMA TwoReplaced ==
  ASSUME IInv, NEW r \in Rings, NEW q \in Rings, r # q, NEW h, NEW k,
         ring' = [ring EXCEPT ![r] = h, ![q] = k]
  PROVE  /\ Held' = [Held EXCEPT ![r] = Content(h), ![q] = Content(k)]
         /\ Ends' = [Ends EXCEPT ![r] = h.eof, ![q] = k.eof]
         /\ ring'[r] = h /\ ring'[q] = k /\ \A s \in Rings \ {r, q} : ring'[s] = ring[s]
         /\ Held[r] = Content(ring[r]) /\ Ends[r] = ring[r].eof
         /\ Held[q] = Content(ring[q]) /\ Ends[q] = ring[q].eof
<1>1. ring'[r] = h /\ ring'[q] = k /\ \A s \in Rings \ {r, q} : ring'[s] = ring[s]
  BY DEF IInv
<1>2. Held' = [s \in Rings |-> Content(ring'[s])] /\ Ends' = [s \in Rings |-> ring'[s].eof]
  BY DEF Held, Ends
<1>3. /\ Held = [s \in Rings |-> Content(ring[s])] /\ Ends = [s \in Rings |-> ring[s].eof]
      /\ Held[r] = Content(ring[r]) /\ Ends[r] = ring[r].eof
      /\ Held[q] = Content(ring[q]) /\ Ends[q] = ring[q].eof
  BY DEF Held, Ends
<1> DEFINE H == [Held EXCEPT ![r] = Content(h), ![q] = Content(k)]
           E == [Ends EXCEPT ![r] = h.eof, ![q] = k.eof]
<1>4. /\ H = [s \in Rings |-> IF s = q THEN Content(k) ELSE
                               IF s = r THEN Content(h) ELSE Content(ring[s])]
      /\ E = [s \in Rings |-> IF s = q THEN k.eof ELSE IF s = r THEN h.eof ELSE ring[s].eof]
  BY <1>3
<1>5. ASSUME NEW s \in Rings
      PROVE  /\ Content(ring'[s]) = IF s = q THEN Content(k) ELSE
                                    IF s = r THEN Content(h) ELSE Content(ring[s])
             /\ ring'[s].eof = IF s = q THEN k.eof ELSE IF s = r THEN h.eof ELSE ring[s].eof
  <2>1. CASE s = r
    BY <1>1, <2>1
  <2>2. CASE s = q
    BY <1>1, <2>2
  <2>3. CASE s # r /\ s # q
    <3>1. ring'[s] = ring[s]
      BY <1>1, <2>3
    <3> QED BY <2>3, <3>1
  <2> QED BY <2>1, <2>2, <2>3
<1> HIDE DEF H, E
<1>6. Held' = H /\ Ends' = E
  BY <1>2, <1>4, <1>5
<1> QED BY <1>1, <1>3, <1>6 DEF H, E

(* A ring that pops is a queue that pops.                                  *)
LEMMA PopStep ==
  ASSUME IInv, NEW r \in Rings, NEW n \in Nat, NEW h, ring' = [ring EXCEPT ![r] = h],
         Pops(ring[r], h, n)
  PROVE  Mapped
<1> DEFINE g == ring[r]
<1>1. RingOK(g)
  BY DEF IInv
<1>2. /\ Held' = [Held EXCEPT ![r] = Content(h)] /\ Ends' = [Ends EXCEPT ![r] = h.eof]
      /\ ring'[r] = h /\ \A s \in Rings \ {r} : ring'[s] = ring[s]
      /\ Held[r] = Content(g) /\ Ends[r] = g.eof
  BY OneReplaced
<1>3. /\ Content(h) = SubSeq(Content(g), n + 1, Len(Content(g))) /\ h.eof = g.eof
      /\ n <= g.tx_len /\ (h.tx_len # g.tx_len => h.effect)
  BY DEF Pops
<1>4. Len(Content(g)) = g.tx_len /\ g.tx_len \in 0 .. BufLen
  BY <1>1, ContentIs DEF RingOK, RingState
<1>5. Held' = [Held EXCEPT ![r] = SubSeq(@, n + 1, Len(@))] /\ n <= Len(Held[r])
  BY <1>2, <1>3, <1>4
<1>6. Ends' = Ends
  BY <1>2, <1>3 DEF Ends
<1>7. Fifo!Pop(r, n)
  BY <1>5, <1>6, FifoActions
<1>8. n \in 0 .. BufLen
  BY <1>3, <1>4, BufLenAssumption
<1>9. Fifo!Next
  BY <1>7, <1>8 DEF Fifo!Next, Fifo!Queues, Rings
<1>10. Woken
  BY <1>2, <1>3 DEF Woken
<1> QED BY <1>9, <1>10 DEF Mapped

(* A ring that takes bytes, and is not marked EOF, is a queue that does.   *)
LEMMA PushStep ==
  ASSUME IInv, NEW r \in Rings, NEW b \in Seq(Byte), NEW h, ring' = [ring EXCEPT ![r] = h],
         ~ ring[r].eof, Pushes(ring[r], h, b)
  PROVE  Mapped
<1> DEFINE g == ring[r]
<1>1. RingOK(g)
  BY DEF IInv
<1>2. /\ Held' = [Held EXCEPT ![r] = Content(h)] /\ Ends' = [Ends EXCEPT ![r] = h.eof]
      /\ ring'[r] = h /\ \A s \in Rings \ {r} : ring'[s] = ring[s]
      /\ Held[r] = Content(g) /\ Ends[r] = g.eof
  BY OneReplaced
<1>3. /\ Content(h) = Content(g) \o b /\ h.eof = g.eof /\ Len(b) <= RxLen(g)
      /\ (h.tx_len # g.tx_len => h.effect)
  BY DEF Pushes
<1>4. Len(Content(g)) = g.tx_len /\ g.tx_len \in 0 .. BufLen /\ RxLen(g) = BufLen - g.tx_len
  BY <1>1, ContentIs DEF RingOK, RingState, RxLen
<1>5. Len(b) <= BufLen /\ Len(Content(g)) + Len(b) <= BufLen
  BY <1>3, <1>4, BufLenAssumption
<1>6. Ends' = Ends
  BY <1>2, <1>3 DEF Ends
<1>7. Fifo!Push(r, b)
  BY <1>2, <1>3, <1>5, <1>6, FifoActions
<1>8. b \in Fifo!Chunk
  BY <1>5, ChunkFits
<1>9. Fifo!Next
  BY <1>7, <1>8 DEF Fifo!Next, Fifo!Queues, Rings
<1>10. Woken
  BY <1>2, <1>3 DEF Woken
<1> QED BY <1>9, <1>10 DEF Mapped

(* A ring that only changes its flags leaves its queue alone.              *)
LEMMA StutterStep ==
  ASSUME IInv, NEW r \in Rings, NEW h, ring' = [ring EXCEPT ![r] = h],
         h.tx_cursor = ring[r].tx_cursor, h.tx_len = ring[r].tx_len, h.buf = ring[r].buf,
         h.eof = ring[r].eof
  PROVE  Mapped
<1>1. Content(h) = Content(ring[r])
  BY SameContent
<1>2. /\ Held' = [Held EXCEPT ![r] = Content(h)] /\ Ends' = [Ends EXCEPT ![r] = h.eof]
      /\ ring'[r] = h /\ \A s \in Rings \ {r} : ring'[s] = ring[s]
  BY OneReplaced
<1>3. Held' = Held /\ Ends' = Ends
  BY <1>1, <1>2 DEF Held, Ends
<1>4. Woken
  BY <1>2 DEF Woken
<1> QED BY <1>3, <1>4 DEF Mapped


(* A read into a receive ring is an arrival; an empty one marks the EOF.   *)
LEMMA ReadStep ==
  ASSUME IInv, NEW r \in RxRings, NEW b \in Seq(Byte), DoRead(r, b)
  PROVE  Mapped
<1> DEFINE g == ring[r]
           h == Read(g, b)
<1>0. r \in Rings /\ r \notin TxRings
  BY RingAssumption DEF Rings
<1>1. RingOK(g) /\ ring' = [ring EXCEPT ![r] = h] /\ Len(b) <= IovecLen(g.vector_rx)
  BY <1>0 DEF IInv, DoRead
<1>2. /\ Len(b) <= RxLen(g) /\ Content(h) = Content(g) \o b
      /\ h.eof = (Len(b) = 0) /\ (h.tx_len # g.tx_len => h.effect)
  BY <1>1, ReadArrives
<1> HIDE DEF h
<1>3. /\ Held' = [Held EXCEPT ![r] = Content(h)] /\ Ends' = [Ends EXCEPT ![r] = h.eof]
      /\ ring'[r] = h /\ \A s \in Rings \ {r} : ring'[s] = ring[s]
      /\ Held[r] = Content(g)
  BY <1>0, <1>1, OneReplaced
<1>4. Len(Content(g)) = g.tx_len /\ g.tx_len \in 0 .. BufLen /\ RxLen(g) = BufLen - g.tx_len
  BY <1>1, ContentIs DEF RingOK, RingState, RxLen
<1>5. Len(b) <= BufLen /\ Len(Content(g)) + Len(b) <= BufLen
  BY <1>2, <1>4, BufLenAssumption
<1>6. (Len(b) = 0) = (b = << >>)
  BY EmptySeq
<1>7. Fifo!Arrive(r, b)
  <2>1. Held' = [Held EXCEPT ![r] = @ \o b] /\ Len(Held[r]) + Len(b) <= BufLen
    BY <1>2, <1>3, <1>5
  <2>2. h.eof = (b = << >>)
    BY <1>2, <1>6, Zenon
  <2>3. Ends' = [Ends EXCEPT ![r] = (b = << >>)]
    BY <1>3, <2>2, Zenon
  <2> QED BY <2>1, <2>3, FifoActions
<1>8. b \in Fifo!Chunk
  BY <1>5, ChunkFits
<1>9. Fifo!Next
  BY <1>7, <1>8 DEF Fifo!Next
<1>10. Woken
  BY <1>0, <1>2, <1>3 DEF Woken
<1> QED BY <1>9, <1>10 DEF Mapped

(* A splice is a transfer, in either direction.                            *)
LEMMA SpliceStep ==
  ASSUME IInv, NEW to \in Rings, NEW from \in Rings, to # from, NEW len \in Int,
         DoSplice(to, from, len)
  PROVE  \E n \in 0 .. BufLen : Fifo!Transfer(to, from, n) /\ Woken
<1> DEFINE rx == ring[to]
           tx == ring[from]
           h  == SpliceRx(rx, tx, len)
           k  == SpliceTx(rx, tx, len)
<1>1. RingOK(rx) /\ RingOK(tx) /\ ring' = [ring EXCEPT ![to] = h, ![from] = k]
  BY DEF IInv, DoSplice
<1>2. PICK n \in Nat : /\ Pops(tx, k, n)
                       /\ Pushes(rx, h, SubSeq(Content(tx), 1, n))
                       /\ Len(SubSeq(Content(tx), 1, n)) = n
  BY <1>1, SpliceMoves
<1> HIDE DEF h, k
<1>3. /\ Held' = [Held EXCEPT ![to] = Content(h), ![from] = Content(k)]
      /\ Ends' = [Ends EXCEPT ![to] = h.eof, ![from] = k.eof]
      /\ ring'[to] = h /\ ring'[from] = k /\ \A s \in Rings \ {to, from} : ring'[s] = ring[s]
      /\ Held[to] = Content(rx) /\ Ends[to] = rx.eof
      /\ Held[from] = Content(tx) /\ Ends[from] = tx.eof
  BY <1>1, TwoReplaced
<1>4. /\ Content(k) = SubSeq(Content(tx), n + 1, Len(Content(tx))) /\ k.eof = tx.eof
      /\ n <= tx.tx_len /\ (k.tx_len # tx.tx_len => k.effect)
  BY <1>2 DEF Pops
<1>5. /\ Content(h) = Content(rx) \o SubSeq(Content(tx), 1, n) /\ h.eof = rx.eof
      /\ n <= RxLen(rx) /\ (h.tx_len # rx.tx_len => h.effect)
  BY <1>2 DEF Pushes
<1>6. /\ Len(Content(tx)) = tx.tx_len /\ tx.tx_len \in 0 .. BufLen
      /\ Len(Content(rx)) = rx.tx_len /\ rx.tx_len \in 0 .. BufLen
      /\ RxLen(rx) = BufLen - rx.tx_len
  <2>1. Len(Content(tx)) = tx.tx_len /\ Len(Content(rx)) = rx.tx_len
    BY <1>1, ContentIs
  <2> QED BY <1>1, <2>1 DEF RingOK, RingState, RxLen
<1>7. n \in 0 .. BufLen /\ n <= Len(Held[from]) /\ Len(Held[to]) + n <= BufLen
  BY <1>3, <1>4, <1>5, <1>6, BufLenAssumption
<1>8. Ends' = Ends
  BY <1>3, <1>4, <1>5 DEF Ends
<1>9. Held' = [Held EXCEPT ![to]   = @ \o SubSeq(Held[from], 1, n),
                           ![from] = SubSeq(@, n + 1, Len(@))]
  BY <1>3, <1>4, <1>5
<1>10. Fifo!Transfer(to, from, n)
  BY <1>7, <1>8, <1>9, FifoActions
<1>11. Woken
  BY <1>3, <1>4, <1>5 DEF Woken
<1> QED BY <1>7, <1>10, <1>11

(* What marking and clearing the EOF do to a ring.                         *)
LEMMA EofMarks ==
  ASSUME NEW e \in RingState
  PROVE  /\ LET h == MarkEof(e) IN
              /\ h.eof = TRUE /\ h.tx_len = e.tx_len /\ h.tx_cursor = e.tx_cursor
              /\ h.buf = e.buf /\ (~ e.eof => h.effect)
         /\ e.eof => LET h == ClearEof(e) IN
              /\ h.eof = FALSE /\ h.tx_len = e.tx_len /\ h.tx_cursor = e.tx_cursor
              /\ h.buf = e.buf /\ h.effect
<1>1. e.eof \in BOOLEAN
  BY DEF RingState
<1> QED BY <1>1 DEF MarkEof, ClearEof, RingState

(* A coroutine's hup raises the mark of a transmit ring.                   *)
LEMMA HupStep ==
  ASSUME IInv, NEW tx \in TxRings, Hup(tx)
  PROVE  Mapped
<1> DEFINE f == ring[tx]
           h == MarkEof(f)
<1>0. tx \in Rings /\ f \in RingState
  BY DEF Rings, IInv
<1>1. /\ h.eof = TRUE /\ h.tx_len = f.tx_len /\ h.tx_cursor = f.tx_cursor /\ h.buf = f.buf
      /\ h.effect /\ ring' = [ring EXCEPT ![tx] = h]
  BY <1>0, EofMarks DEF Hup
<1> HIDE DEF h
<1>2. /\ Held' = [Held EXCEPT ![tx] = Content(h)] /\ Ends' = [Ends EXCEPT ![tx] = h.eof]
      /\ ring'[tx] = h /\ \A s \in Rings \ {tx} : ring'[s] = ring[s]
      /\ Held[tx] = Content(f)
  BY <1>0, <1>1, OneReplaced
<1>3. Content(h) = Content(f)
  BY <1>1, SameContent
<1>4. Held' = Held /\ Ends' = [Ends EXCEPT ![tx] = TRUE]
  <2>1. Held' = [Held EXCEPT ![tx] = Held[tx]] /\ Ends' = [Ends EXCEPT ![tx] = TRUE]
    BY <1>1, <1>2, <1>3, Zenon
  <2> QED BY <2>1 DEF Held
<1>5. Fifo!Raise(tx)
  BY <1>4, FifoActions
<1>6. Woken
  BY <1>1, <1>2 DEF Woken
<1> QED BY <1>5, <1>6 DEF Mapped, Fifo!Next

(* Taking the EOF lowers the mark of a receive ring.                       *)
LEMMA ReadhupStep ==
  ASSUME IInv, NEW rx \in RxRings, Readhup(rx)
  PROVE  Mapped
<1> DEFINE g == ring[rx]
           h == ClearEof(g)
<1>0. rx \in Rings /\ g \in RingState
  BY DEF Rings, IInv
<1>1. /\ h.eof = FALSE /\ h.tx_len = g.tx_len /\ h.tx_cursor = g.tx_cursor /\ h.buf = g.buf
      /\ h.effect /\ ring' = [ring EXCEPT ![rx] = h] /\ g.eof
  BY <1>0, EofMarks DEF Readhup
<1> HIDE DEF h
<1>2. /\ Held' = [Held EXCEPT ![rx] = Content(h)] /\ Ends' = [Ends EXCEPT ![rx] = h.eof]
      /\ ring'[rx] = h /\ \A s \in Rings \ {rx} : ring'[s] = ring[s]
      /\ Held[rx] = Content(g) /\ Ends[rx] = g.eof
  BY <1>0, <1>1, OneReplaced
<1>3. Content(h) = Content(g)
  BY <1>1, SameContent
<1>4. Held' = Held /\ Ends' = [Ends EXCEPT ![rx] = FALSE] /\ Ends[rx]
  <2>1. Held' = [Held EXCEPT ![rx] = Held[rx]] /\ Ends' = [Ends EXCEPT ![rx] = FALSE]
    BY <1>1, <1>2, <1>3, Zenon
  <2> QED BY <1>1, <1>2, <2>1 DEF Held
<1>5. Fifo!Lower(rx)
  BY <1>4, FifoActions
<1>6. Woken
  BY <1>1, <1>2 DEF Woken
<1> QED BY <1>5, <1>6 DEF Mapped, Fifo!Next

(* A pipe's readhup carries the mark across.                               *)
LEMMA ForwardhupStep ==
  ASSUME IInv, NEW rx \in RxRings, NEW tx \in TxRings, Forwardhup(rx, tx)
  PROVE  Mapped
<1> DEFINE g == ring[rx]
           f == ring[tx]
           h == MarkEof(g)
           k == ClearEof(f)
<1>0. /\ rx \in Rings /\ tx \in Rings /\ rx # tx /\ rx \notin TxRings
      /\ g \in RingState /\ f \in RingState
  BY RingAssumption DEF Rings, IInv
<1>1. /\ h.eof = TRUE /\ h.tx_len = g.tx_len /\ h.tx_cursor = g.tx_cursor /\ h.buf = g.buf
      /\ k.eof = FALSE /\ k.tx_len = f.tx_len /\ k.tx_cursor = f.tx_cursor /\ k.buf = f.buf
      /\ k.effect /\ f.eof /\ ring' = [ring EXCEPT ![tx] = k, ![rx] = h]
  <2>1. f.eof /\ ring' = [ring EXCEPT ![tx] = k, ![rx] = h]
    BY <1>0 DEF Forwardhup
  <2> QED BY <1>0, <2>1, EofMarks
<1> HIDE DEF h, k
<1>2. /\ Held' = [Held EXCEPT ![tx] = Content(k), ![rx] = Content(h)]
      /\ Ends' = [Ends EXCEPT ![tx] = k.eof, ![rx] = h.eof]
      /\ ring'[tx] = k /\ ring'[rx] = h /\ \A s \in Rings \ {tx, rx} : ring'[s] = ring[s]
      /\ Held[tx] = Content(f) /\ Ends[tx] = f.eof
      /\ Held[rx] = Content(g) /\ Ends[rx] = g.eof
  <2>1. ring' = [ring EXCEPT ![tx] = k, ![rx] = h] /\ tx # rx /\ tx \in Rings /\ rx \in Rings
    BY <1>0, <1>1
  <2> QED BY <2>1, TwoReplaced, ZenonT(40)
<1>3. Content(h) = Content(g) /\ Content(k) = Content(f)
  BY <1>1, SameContent
<1>4. Held' = Held
  BY <1>2, <1>3 DEF Held
<1>5. Ends' = [Ends EXCEPT ![tx] = FALSE, ![rx] = TRUE] /\ Ends[tx]
  BY <1>1, <1>2
<1>6. Fifo!Carry(rx, tx)
  BY <1>4, <1>5, FifoActions
<1>7. Woken
  BY <1>0, <1>1, <1>2 DEF Woken
<1> QED BY <1>6, <1>7 DEF Mapped, Fifo!Next


(* Failing calls, readiness, closing and taking the effect change flags.   *)
LEMMA FlagsAlike ==
  ASSUME NEW g \in RingState, NEW errno
  PROVE  \A h \in {ReadFails(g, errno), WriteFails(g, errno), Close(g, errno),
                   [g EXCEPT !.rx_blocked = FALSE], [g EXCEPT !.tx_blocked = FALSE],
                   [g EXCEPT !.effect = FALSE]} :
           /\ h.tx_cursor = g.tx_cursor /\ h.tx_len = g.tx_len /\ h.buf = g.buf
           /\ h.eof = g.eof
BY ZenonT(40) DEF RingState, ReadFails, WriteFails, Close

(* Every call of the interface is a step of the queues or leaves them      *)
(* alone, and raises the effects it has to.                                *)
LEMMA NextMapped == IInv /\ Next => Mapped
<1> SUFFICES ASSUME IInv, Next PROVE Mapped
  OBVIOUS
<1>0. \A r \in Rings : RingOK(ring[r]) /\ ring[r] \in RingState
  BY DEF IInv
<1>1. ASSUME NEW r \in RxRings, RxNext(r) PROVE Mapped
  <2>0. r \in Rings
    BY DEF Rings
  <2>1. ASSUME NEW len \in 0 .. BufLen + 1, DoRecv(r, len) PROVE Mapped
    <3> DEFINE n == IF len <= ring[r].tx_len THEN len ELSE ring[r].tx_len
               h == Recv(ring[r], len)
    <3>1. len \in Nat /\ ring[r].tx_len \in Nat
      BY <1>0, <2>0, BufLenAssumption DEF RingState
    <3>2. n \in Nat /\ ring' = [ring EXCEPT ![r] = h]
      BY <2>1, <3>1 DEF DoRecv
    <3>3. Pops(ring[r], h, n)
      BY <1>0, <2>0, <3>1, RecvPops
    <3> HIDE DEF n, h
    <3> QED BY <2>0, <3>2, <3>3, PopStep
  <2>2. ASSUME NEW bytes \in Chunks, DoRead(r, bytes) PROVE Mapped
    BY <2>2, ChunksAreSeqs, ReadStep
  <2>3. ASSUME NEW bytes \in Chunks, DoAccept(r, bytes) PROVE Mapped
    <3> DEFINE h == Accept(ring[r], bytes)
    <3>1. bytes \in Seq(Byte) /\ ring' = [ring EXCEPT ![r] = h]
      BY <2>3, ChunksAreSeqs DEF DoAccept
    <3>2. \/ Alike(ring[r], h)
          \/ ~ ring[r].eof /\ \E b \in Seq(Byte) : Pushes(ring[r], h, b)
      BY <1>0, <2>0, <3>1, AcceptPushes
    <3> HIDE DEF h
    <3>3. CASE Alike(ring[r], h)
      BY <2>0, <3>1, <3>3, StutterStep DEF Alike
    <3>4. CASE ~ ring[r].eof /\ \E b \in Seq(Byte) : Pushes(ring[r], h, b)
      BY <2>0, <3>1, <3>4, PushStep
    <3> QED BY <3>2, <3>3, <3>4
  <2>4. ASSUME NEW errno \in Faults, DoReadFails(r, errno) PROVE Mapped
    <3> DEFINE h == ReadFails(ring[r], errno)
    <3>1. ring' = [ring EXCEPT ![r] = h]
      BY <2>4 DEF DoReadFails
    <3>2. h.tx_cursor = ring[r].tx_cursor /\ h.tx_len = ring[r].tx_len /\ h.buf = ring[r].buf
          /\ h.eof = ring[r].eof
      BY <1>0, <2>0, FlagsAlike
    <3> HIDE DEF h
    <3> QED BY <2>0, <3>1, <3>2, StutterStep
  <2>5. ASSUME Readable(r) PROVE Mapped
    <3> DEFINE h == [ring[r] EXCEPT !.rx_blocked = FALSE]
    <3>1. ring' = [ring EXCEPT ![r] = h]
      BY <2>5 DEF Readable
    <3>2. h.tx_cursor = ring[r].tx_cursor /\ h.tx_len = ring[r].tx_len /\ h.buf = ring[r].buf
          /\ h.eof = ring[r].eof
      BY <1>0, <2>0, FlagsAlike
    <3> HIDE DEF h
    <3> QED BY <2>0, <3>1, <3>2, StutterStep
  <2>6. ASSUME Readhup(r) PROVE Mapped
    BY <2>6, ReadhupStep
  <2> QED BY <1>1, <2>1, <2>2, <2>3, <2>4, <2>5, <2>6 DEF RxNext
<1>2. ASSUME NEW r \in TxRings, TxNext(r) PROVE Mapped
  <2>0. r \in Rings
    BY DEF Rings
  <2>1. ASSUME NEW bytes \in Chunks, DoSend(r, bytes) PROVE Mapped
    <3> DEFINE h == Send(ring[r], bytes)
    <3>1. bytes \in Seq(Byte) /\ ring' = [ring EXCEPT ![r] = h]
      BY <2>1, ChunksAreSeqs DEF DoSend
    <3>2. \/ h = ring[r]
          \/ ~ ring[r].eof /\ \E b \in Seq(Byte) : Pushes(ring[r], h, b)
      BY <1>0, <2>0, <3>1, SendPushes
    <3> HIDE DEF h
    <3>3. CASE h = ring[r]
      BY <2>0, <3>1, <3>3, StutterStep
    <3>4. CASE ~ ring[r].eof /\ \E b \in Seq(Byte) : Pushes(ring[r], h, b)
      BY <2>0, <3>1, <3>4, PushStep
    <3> QED BY <3>2, <3>3, <3>4
  <2>2. ASSUME NEW sent \in 0 .. BufLen, DoWrite(r, sent) PROVE Mapped
    <3> DEFINE h == Write(ring[r], sent)
    <3>1. sent \in Nat /\ sent <= IovecLen(ring[r].vector_tx) /\ ring' = [ring EXCEPT ![r] = h]
      BY <2>2, BufLenAssumption DEF DoWrite
    <3>2. Pops(ring[r], h, sent)
      BY <1>0, <2>0, <3>1, WritePops
    <3> HIDE DEF h
    <3> QED BY <2>0, <3>1, <3>2, PopStep
  <2>3. ASSUME NEW errno \in Faults, DoWriteFails(r, errno) PROVE Mapped
    <3> DEFINE h == WriteFails(ring[r], errno)
    <3>1. ring' = [ring EXCEPT ![r] = h]
      BY <2>3 DEF DoWriteFails
    <3>2. h.tx_cursor = ring[r].tx_cursor /\ h.tx_len = ring[r].tx_len /\ h.buf = ring[r].buf
          /\ h.eof = ring[r].eof
      BY <1>0, <2>0, FlagsAlike
    <3> HIDE DEF h
    <3> QED BY <2>0, <3>1, <3>2, StutterStep
  <2>4. ASSUME Writable(r) PROVE Mapped
    <3> DEFINE h == [ring[r] EXCEPT !.tx_blocked = FALSE]
    <3>1. ring' = [ring EXCEPT ![r] = h]
      BY <2>4 DEF Writable
    <3>2. h.tx_cursor = ring[r].tx_cursor /\ h.tx_len = ring[r].tx_len /\ h.buf = ring[r].buf
          /\ h.eof = ring[r].eof
      BY <1>0, <2>0, FlagsAlike
    <3> HIDE DEF h
    <3> QED BY <2>0, <3>1, <3>2, StutterStep
  <2>5. ASSUME Hup(r) PROVE Mapped
    BY <2>5, HupStep
  <2> QED BY <1>2, <2>1, <2>2, <2>3, <2>4, <2>5 DEF TxNext
<1>3. ASSUME NEW r \in Rings, HandleEffect(r) PROVE Mapped
  <2> DEFINE h == [ring[r] EXCEPT !.effect = FALSE]
  <2>1. ring' = [ring EXCEPT ![r] = h]
    BY <1>3 DEF HandleEffect
  <2>2. h.tx_cursor = ring[r].tx_cursor /\ h.tx_len = ring[r].tx_len /\ h.buf = ring[r].buf
        /\ h.eof = ring[r].eof
    BY <1>0, FlagsAlike
  <2> HIDE DEF h
  <2> QED BY <2>1, <2>2, StutterStep
<1>4. ASSUME NEW r \in Closable, NEW errno, DoClose(r, errno) PROVE Mapped
  <2> DEFINE h == Close(ring[r], errno)
  <2>0. r \in Rings
    BY RingAssumption DEF Rings
  <2>1. ring' = [ring EXCEPT ![r] = h]
    BY <1>4 DEF DoClose
  <2>2. h.tx_cursor = ring[r].tx_cursor /\ h.tx_len = ring[r].tx_len /\ h.buf = ring[r].buf
        /\ h.eof = ring[r].eof
    BY <1>0, <2>0, FlagsAlike
  <2> HIDE DEF h
  <2> QED BY <2>0, <2>1, <2>2, StutterStep
<1>5. ASSUME NEW rx \in RxRings, NEW tx \in TxRings, NEW len \in Int
      PROVE  /\ DoSplice(rx, tx, len) => Mapped
             /\ DoSplice(tx, rx, len) => Mapped
  <2>1. rx \in Rings /\ tx \in Rings /\ rx # tx /\ tx # rx
    BY RingAssumption DEF Rings
  <2>2. ASSUME DoSplice(rx, tx, len) PROVE Mapped
    <3>1. PICK n \in 0 .. BufLen : Fifo!Transfer(rx, tx, n) /\ Woken
      BY <2>1, <2>2, SpliceStep
    <3> QED BY <3>1 DEF Mapped, Fifo!Next
  <2>3. ASSUME DoSplice(tx, rx, len) PROVE Mapped
    <3>1. PICK n \in 0 .. BufLen : Fifo!Transfer(tx, rx, n) /\ Woken
      BY <2>1, <2>3, SpliceStep
    <3> QED BY <3>1 DEF Mapped, Fifo!Next
  <2> QED BY <2>2, <2>3
<1>6. ASSUME NEW rx \in RxRings, NEW tx \in TxRings,
             DoSplice(rx, tx, -1) \/ (\E len \in 0 .. BufLen + 1 : DoSplice(tx, rx, len))
             \/ Forwardhup(rx, tx)
      PROVE  Mapped
  <2>1. -1 \in Int /\ 0 .. BufLen + 1 \subseteq Int
    OBVIOUS
  <2> QED BY <1>5, <1>6, <2>1, ForwardhupStep
<1> QED BY <1>1, <1>2, <1>3, <1>4, <1>6 DEF Next

(* Empty rings are empty queues.                                           *)
LEMMA InitMapped == Init => Fifo!Init
<1> SUFFICES ASSUME Init PROVE Fifo!Init
  OBVIOUS
<1>1. PICK b \in Byte : ring = [r \in Rings |-> EmptyRing(b)]
  BY DEF Init
<1>2. EmptyRing(b).tx_len = 0 /\ EmptyRing(b).eof = FALSE
  BY DEF EmptyRing, Sync
<1>3. \A r \in Rings : ring[r].tx_len = 0 /\ ring[r].eof = FALSE
  BY <1>1, <1>2
<1>4. ASSUME NEW r \in Rings PROVE Content(ring[r]) = << >>
  <2>1. IInv
    BY InitIInv
  <2>2. RingOK(ring[r])
    BY <2>1 DEF IInv
  <2>3. Content(ring[r]) \in Seq(Byte) /\ Len(Content(ring[r])) = 0
    BY <1>3, <2>2, ContentIs
  <2> QED BY <2>3, EmptySeq
<1>5. /\ [r \in Rings |-> Content(ring[r])] = [r \in Rings |-> << >>]
      /\ [r \in Rings |-> ring[r].eof] = [r \in Rings |-> FALSE]
  BY <1>3, <1>4
<1> QED BY <1>5 DEF Fifo!Init, Fifo!Queues, Rings

(***************************************************************************)
(* The vector-rings are byte queues: for every buffer length, every        *)
(* alphabet and every set of rings, through wrapping, short transfers,     *)
(* failures and splices, each call of vk_vectoring.c takes, appends or     *)
(* moves bytes as ByteFifo does, or leaves the queues alone.               *)
(***************************************************************************)
THEOREM RingsImplementFifo == Spec => ImplementsFifo
<1>1. Init => Fifo!Init
  BY InitMapped
<1>2. IInv /\ [Next]_ring => [Fifo!Next]_<<[r \in Rings |-> Content(ring[r])],
                                           [r \in Rings |-> ring[r].eof]>>
  <2> SUFFICES ASSUME IInv, [Next]_ring
               PROVE  Fifo!Next \/ UNCHANGED <<[r \in Rings |-> Content(ring[r])],
                                               [r \in Rings |-> ring[r].eof]>>
    OBVIOUS
  <2>1. CASE Next
    <3>1. Fifo!Next \/ (Held' = Held /\ Ends' = Ends)
      BY <2>1, NextMapped DEF Mapped
    <3> QED BY <3>1 DEF Held, Ends
  <2>2. CASE UNCHANGED ring
    <3>1. ring' = ring
      BY <2>2
    <3>2. Held' = Held /\ Ends' = Ends
      BY <3>1 DEF Held, Ends
    <3> QED BY <3>2 DEF Held, Ends
  <2> QED BY <2>1, <2>2
<1> QED BY <1>1, <1>2, RingInvariant, PTL DEF Spec, ImplementsFifo, Fifo!Spec

(***************************************************************************)
(* A change another coroutine may wait for always raises the effect flag,  *)
(* for every buffer length and every set of rings: no transfer is so short *)
(* or so long, and no EOF so placed, that the wake-up is forgotten.        *)
(***************************************************************************)
THEOREM EffectAlwaysRaised == Spec => EffectRaised
<1>1. IInv /\ [Next]_ring => [Woken]_ring
  BY NextMapped DEF Mapped
<1>2. Woken <=> \A r \in Rings : ((\/ ring'[r].tx_len # ring[r].tx_len
                                   \/ r \in TxRings /\ ring'[r].eof # ring[r].eof)
                                   => ring'[r].effect)
  BY DEF Woken
<1> QED BY <1>1, <1>2, RingInvariant, PTL DEF Spec, EffectRaised


----------------------------------------------------------------------------
(* The next line. *)

(* Every nonempty set of numbers has a least element.                      *)
LEMMA LeastExists ==
  ASSUME NEW S, S \subseteq Nat, S # {}
  PROVE  Least(S) \in S /\ \A j \in S : Least(S) <= j
<1> DEFINE R == {ss \in Nat \X Nat : ss[1] < ss[2]}
<1>1. R = OpToRel(<, Nat)
  BY DEF OpToRel
<1>2. IsWellFoundedOn(R, Nat)
  BY <1>1, NatLessThanWellFounded, Zenon
<1> HIDE DEF R
<1>3. PICK x \in S : \A y \in S : ~ (<<y, x>> \in R)
  BY <1>2, WFMin
<1>4. \A y \in S : ~ (y < x)
  BY <1>3 DEF R
<1>5. \A y \in S : x <= y
  BY <1>4
<1> QED BY <1>5 DEF Least

(* and only one.                                                           *)
LEMMA LeastUnique ==
  ASSUME NEW S, S \subseteq Nat, NEW i \in S, \A j \in S : i <= j
  PROVE  Least(S) = i
<1>1. Least(S) \in S /\ \A j \in S : Least(S) <= j
  BY LeastExists
<1>2. Least(S) <= i /\ i <= Least(S) /\ Least(S) \in Nat /\ i \in Nat
  BY <1>1
<1> QED BY <1>2

(* The content of a ring, through its transmit vectors.                    *)
LEMMA ContentThroughVectors ==
  ASSUME NEW g, RingOK(g)
  PROVE  LET v == g.vector_tx
         IN /\ v[1].len \in Nat /\ v[2].len \in Nat /\ v[1].len + v[2].len = g.tx_len
            /\ \A i \in 1 .. v[1].len : Content(g)[i] = g.buf[v[1].base + i - 1]
            /\ \A i \in 1 .. v[2].len : Content(g)[v[1].len + i] = g.buf[v[2].base + i - 1]
<1> DEFINE c == g.tx_cursor
           l == g.tx_len
           v == g.vector_tx
           C == Content(g)
<1>1. c \in Cells /\ l \in 0 .. BufLen /\ v = IovecSync(c, l)
  BY DEF RingOK, RingState, InSync
<1>2. \A i \in 1 .. l : C[i] = g.buf[(c + (i - 1)) % BufLen]
  BY ContentIs
<1> HIDE DEF c, l, v, C
<1>3. \/ /\ c + l > BufLen
         /\ v[1].base = c /\ v[1].len = BufLen - c
         /\ v[2].base = 0 /\ v[2].len = l - (BufLen - c)
      \/ /\ c + l <= BufLen
         /\ v[1].base = c /\ v[1].len = l /\ v[2].base = 0 /\ v[2].len = 0
  BY <1>1, BufLenAssumption DEF IovecSync, Cells
<1>4. /\ v[1].len \in Nat /\ v[2].len \in Nat /\ v[1].len + v[2].len = l
  BY <1>1, <1>3, BufLenAssumption DEF Cells
<1>5. ASSUME NEW i \in 1 .. v[1].len PROVE C[i] = g.buf[v[1].base + i - 1]
  <2>1. i \in 1 .. l /\ i - 1 \in Nat /\ i - 1 < BufLen /\ c + (i - 1) < BufLen
        /\ v[1].base + i - 1 = c + (i - 1)
    BY <1>1, <1>3, <1>4, BufLenAssumption DEF Cells
  <2>2. (c + (i - 1)) % BufLen = c + (i - 1)
    BY <1>1, <2>1, CellAt
  <2> QED BY <1>2, <2>1, <2>2
<1>6. ASSUME NEW i \in 1 .. v[2].len PROVE C[v[1].len + i] = g.buf[v[2].base + i - 1]
  <2> DEFINE j == v[1].len + i
  <2>1. /\ j \in 1 .. l /\ j - 1 \in Nat /\ j - 1 < BufLen /\ ~ (c + (j - 1) < BufLen)
        /\ v[2].base + i - 1 = c + (j - 1) - BufLen
    BY <1>1, <1>3, <1>4, BufLenAssumption DEF Cells
  <2> HIDE DEF j
  <2>2. (c + (j - 1)) % BufLen = c + (j - 1) - BufLen
    BY <1>1, <2>1, CellAt
  <2>3. C[j] = g.buf[v[2].base + i - 1]
    BY <1>2, <2>1, <2>2
  <2> QED BY <2>3 DEF j
<1> QED BY <1>4, <1>5, <1>6 DEF v, l, C

(* vk_vectoring_tx_line_len finds the first newline of any content.        *)
LEMMA LineLenIs ==
  ASSUME NEW g, RingOK(g)
  PROVE  LET ends == {i \in DOMAIN Content(g) : Content(g)[i] = NewLine}
         IN TxLineLen(g) = IF ends = {} THEN 0 ELSE Least(ends)
<1> DEFINE v == g.vector_tx
           m == v[1].len
           k == v[2].len
           C == Content(g)
           ends   == {i \in DOMAIN C : C[i] = NewLine}
           first  == FindNewLine(g.buf, v[1])
           second == FindNewLine(g.buf, v[2])
<1>1. /\ m \in Nat /\ k \in Nat /\ m + k = g.tx_len
      /\ \A i \in 1 .. m : C[i] = g.buf[v[1].base + i - 1]
      /\ \A i \in 1 .. k : C[m + i] = g.buf[v[2].base + i - 1]
  BY ContentThroughVectors
<1>2. DOMAIN C = 1 .. m + k
  BY <1>1 DEF Content
<1>3. TxLineLen(g) = CASE first # {}                -> Least(first)
                       [] first = {} /\ second # {} -> m + Least(second)
                       [] OTHER                     -> 0
  BY DEF TxLineLen
<1>4. /\ \A i : i \in first <=> i \in 1 .. m /\ C[i] = NewLine
      /\ \A i : i \in second <=> i \in 1 .. k /\ C[m + i] = NewLine
      /\ \A i : i \in ends <=> i \in 1 .. m + k /\ C[i] = NewLine
  BY <1>1, <1>2 DEF FindNewLine
<1> HIDE DEF v, m, k, C, ends, first, second
<1>5. first \subseteq Nat /\ second \subseteq Nat /\ ends \subseteq Nat
  BY <1>1, <1>4
<1>6. CASE first # {}
  <2> DEFINE i == Least(first)
  <2>1. i \in first /\ \A j \in first : i <= j
    BY <1>5, <1>6, LeastExists
  <2> HIDE DEF i
  <2>2. i \in ends /\ i \in Nat /\ i <= m
    BY <1>1, <1>4, <2>1
  <2>3. ASSUME NEW j \in ends PROVE i <= j
    <3>1. j \in 1 .. m + k /\ C[j] = NewLine
      BY <1>4
    <3>2. CASE j <= m
      <4>1. j \in first
        BY <1>1, <1>4, <3>1, <3>2
      <4> QED BY <2>1, <4>1
    <3>3. CASE ~ (j <= m)
      BY <1>1, <2>2, <3>1, <3>3
    <3> QED BY <3>2, <3>3
  <2>4. Least(ends) = i
    BY <1>5, <2>2, <2>3, LeastUnique
  <2>5. ends # {}
    BY <2>2
  <2>6. TxLineLen(g) = i
    BY <1>3, <1>6 DEF i
  <2> QED BY <2>4, <2>5, <2>6 DEF ends, C
<1>7. CASE first = {} /\ second # {}
  <2> DEFINE i == Least(second)
  <2>1. i \in second /\ \A j \in second : i <= j
    BY <1>5, <1>7, LeastExists
  <2> HIDE DEF i
  <2>2. i \in Nat /\ i \in 1 .. k /\ C[m + i] = NewLine
    BY <1>4, <1>5, <2>1
  <2>3. m + i \in ends
    BY <1>1, <1>4, <2>2
  <2>4. ASSUME NEW j \in ends PROVE m + i <= j
    <3>1. j \in 1 .. m + k /\ C[j] = NewLine
      BY <1>4
    <3>2. ~ (j \in 1 .. m)
      BY <1>4, <1>7, <3>1
    <3>3. j - m \in 1 .. k /\ m + (j - m) = j
      BY <1>1, <3>1, <3>2
    <3>4. j - m \in second
      BY <1>4, <3>1, <3>3
    <3>5. i <= j - m
      BY <2>1, <3>4
    <3> QED BY <1>1, <2>2, <3>1, <3>5
  <2>5. Least(ends) = m + i
    BY <1>5, <2>3, <2>4, LeastUnique
  <2>6. ends # {}
    BY <2>3
  <2>7. TxLineLen(g) = m + i
    BY <1>3, <1>7 DEF i
  <2> QED BY <2>5, <2>6, <2>7 DEF ends, C
<1>8. CASE first = {} /\ second = {}
  <2>1. ends = {}
    <3> SUFFICES ASSUME NEW j \in ends PROVE FALSE
      OBVIOUS
    <3>1. j \in 1 .. m + k /\ C[j] = NewLine
      BY <1>4
    <3>2. ~ (j \in 1 .. m)
      BY <1>4, <1>8, <3>1
    <3>3. j - m \in 1 .. k /\ m + (j - m) = j
      BY <1>1, <3>1, <3>2
    <3>4. j - m \in second
      BY <1>4, <3>1, <3>3
    <3> QED BY <1>8, <3>4
  <2>2. TxLineLen(g) = 0
    BY <1>3, <1>8
  <2> QED BY <2>1, <2>2 DEF ends, C
<1> QED BY <1>6, <1>7, <1>8

(***************************************************************************)
(* The line a coroutine is given ends at the first newline the ring holds, *)
(* for every buffer length and wherever the content wraps.                 *)
(***************************************************************************)
THEOREM RingLineFound == Spec => []LineFound
<1>1. ASSUME IInv PROVE LineFound
  BY <1>1, LineLenIs DEF LineFound, IInv
<1> QED BY <1>1, RingInvariant, PTL
=============================================================================
