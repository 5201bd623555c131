-------------------------- MODULE ResponderProofs --------------------------
(***************************************************************************)
(* What a service on one connection may rely on, whatever it says: what    *)
(* every attempt at an operation carries over the pipe, whom it wakes, and *)
(* that the queues and the sleepers of ProcLocal stay in order.            *)
(***************************************************************************)
EXTENDS Responder, ProcLocalProofs, SequenceTheorems

----------------------------------------------------------------------------
(* What a handler leaves as it was *)

\* The bytes on their way to r, in order.
Flow(s, r) == s.rx[r].data \o s.tx[Source[r]].data

\* No byte is lost, doubled or reordered on its way through a pipe; an empty
\* ring stays empty, a closed socket closed, a queued coroutine queued; and
\* whoever but t is woken is queued.
Bears(s, u, t) ==
  /\ \A r \in Threads : Source[r] # FD => Flow(u, r) = Flow(s, r)
  /\ \A x \in Threads : s.tx[x].data = << >> => u.tx[x].data = << >>
  /\ \A x \in Threads : s.closed[x] => u.closed[x]
  /\ \A x \in Threads : s.run_enq[x] => u.run_enq[x]
  /\ \A x \in Threads \ {t} : u.status[x] = s.status[x] \/ u.run_enq[x]

LEMMA BearsSelf ==
  ASSUME NEW s, NEW t
  PROVE  Bears(s, s, t)
BY DEF Bears

LEMMA BearsTransitive ==
  ASSUME NEW s, NEW u, NEW v, NEW t, Bears(s, u, t), Bears(u, v, t)
  PROVE  Bears(s, v, t)
BY DEF Bears

\* Where only marks on the rings change.
LEMMA BytesBears ==
  ASSUME NEW s, NEW u, NEW t, SameBytes(s, u), u.closed = s.closed, u.run_enq = s.run_enq,
         u.status = s.status
  PROVE  Bears(s, u, t)
<1>1. \A r \in Threads : Source[r] # FD => Source[r] \in Threads
  BY PipeAssumption
<1> QED
  BY <1>1 DEF SameBytes, Bears, Flow

LEMMA ReadyBears ==
  ASSUME NEW s, Good(s), NEW t \in Threads, NEW u, u = Ready(s, t)
  PROVE  Bears(s, u, t) /\ u.run_enq = s.run_enq
<1>1. CASE u = s
  BY <1>1, BearsSelf
<1>2. CASE u = [s EXCEPT !.status[t] = "RUN"]
  <2>1. /\ u.rx = s.rx /\ u.tx = s.tx /\ u.closed = s.closed /\ u.run_enq = s.run_enq
        /\ \A x \in Threads \ {t} : u.status[x] = s.status[x]
    BY <1>2 DEF Good, IsProcess
  <2> QED
    BY <2>1 DEF Bears, Flow
<1> QED
  BY <1>1, <1>2 DEF Ready

\* A coroutine that is made ready is queued.
LEMMA EnqueueRunBears ==
  ASSUME NEW s, Good(s), NEW x \in Threads, NEW t, NEW u, u = EnqueueRun(s, x)
  PROVE  /\ Bears(s, u, t) /\ Bears(s, u, x)
         /\ u.status[x] \in {"RUN", "ERR"} => u.run_enq[x]
         /\ u.status[x] # "WAIT"
         /\ \A y \in Threads \ {x} : u.status[y] = s.status[y]
         /\ u.closed = s.closed /\ u.running = s.running
<1> DEFINE r == Ready(s, x)
<1>1. /\ IsProcess(r) /\ r.rx = s.rx /\ r.tx = s.tx /\ r.closed = s.closed /\ r.run_enq = s.run_enq
      /\ r.running = s.running
      /\ \A y \in Threads \ {x} : r.status[y] = s.status[y]
      /\ r.status[x] = s.status[x] \/ r.status[x] = "RUN"
      /\ r.status[x] # "WAIT"
  <2>1. IsProcess(r)
    BY ReadyQuiet DEF Quiet, Good
  <2> QED
    BY <2>1 DEF Good, IsProcess, Ready
<1>2. r.status[x] = s.status[x] \/ IsReady(r, x)
  BY <1>1 DEF IsReady
<1>3. u = IF IsReady(r, x) /\ ~ r.run_enq[x]
          THEN [r EXCEPT !.run = IF r.run_q = << >> THEN TRUE ELSE @,
                         !.run_q = << x >> \o @, !.run_enq[x] = TRUE]
          ELSE r
  BY DEF EnqueueRun
<1> HIDE DEF r
<1>4. /\ u.rx = s.rx /\ u.tx = s.tx /\ u.closed = s.closed /\ u.status = r.status
      /\ u.running = s.running
  BY <1>1, <1>3 DEF IsProcess
<1>5. IsReady(r, x) => u.run_enq[x]
  BY <1>1, <1>3 DEF IsProcess
<1>6. \A y \in Threads : s.run_enq[y] => u.run_enq[y]
  BY <1>1, <1>3 DEF IsProcess
<1>7. Bears(s, u, t) /\ Bears(s, u, x)
  BY <1>1, <1>2, <1>4, <1>5, <1>6 DEF Bears, Flow
<1> QED
  BY <1>1, <1>4, <1>5, <1>7 DEF IsReady

LEMMA HandleBlockBears ==
  ASSUME NEW s, Good(s), NEW t \in Threads, NEW z, NEW u, u = HandleBlock(s, t)
  PROVE  Bears(s, u, z) /\ u.closed = s.closed
<1>1. CASE u = s
  BY <1>1, BearsSelf
<1>2. CASE u = EnqueueBlocked(s, t) /\ u # s
  <2>1. u = [s EXCEPT !.blocked = IF s.blocked_q = << >> THEN TRUE ELSE @,
                      !.blocked_q = << t >> \o @, !.blocked_enq[t] = TRUE]
    BY <1>2 DEF EnqueueBlocked
  <2>2. /\ u.rx = s.rx /\ u.tx = s.tx /\ u.closed = s.closed /\ u.run_enq = s.run_enq
        /\ u.status = s.status
    BY <2>1 DEF Good, IsProcess
  <2> QED
    BY <2>2 DEF Bears, Flow
<1> QED
  BY <1>1, <1>2 DEF HandleBlock

\* The mark of an effect is taken off, and the coroutines at its ends wake up.
LEMMA EnqueueReadBears ==
  ASSUME NEW s, Good(s), NEW t \in Threads, NEW u, u = EnqueueRead(s, t)
  PROVE  Bears(s, u, t)
<1> DEFINE a == [s EXCEPT !.rx[t].effect = FALSE]
<1>1. Good(a) /\ SameBytes(s, a)
  BY ClearEffect DEF Waked
<1>2. a.closed = s.closed /\ a.run_enq = s.run_enq /\ a.status = s.status
  BY DEF Good, IsProcess
<1>3. u = s \/ u = Ready(a, t)
  BY DEF EnqueueRead
<1> HIDE DEF a
<1>4. Bears(s, a, t)
  BY <1>1, <1>2, BytesBears
<1> QED
  BY <1>1, <1>3, <1>4, BearsSelf, ReadyBears, BearsTransitive

LEMMA EnqueueWriteBears ==
  ASSUME NEW s, Good(s), NEW t \in Threads, NEW u, u = EnqueueWrite(s, t)
  PROVE  Bears(s, u, t)
<1> DEFINE a == [s EXCEPT !.tx[t].effect = FALSE]
<1>1. Good(a) /\ SameBytes(s, a)
  BY ClearEffect DEF Waked
<1>2. a.closed = s.closed /\ a.run_enq = s.run_enq /\ a.status = s.status
  BY DEF Good, IsProcess
<1>3. u = s \/ u = Ready(a, t)
  BY DEF EnqueueWrite
<1> HIDE DEF a
<1>4. Bears(s, a, t)
  BY <1>1, <1>2, BytesBears
<1> QED
  BY <1>1, <1>3, <1>4, BearsSelf, ReadyBears, BearsTransitive

LEMMA EnqueueReadWriterBears ==
  ASSUME NEW s, Good(s), NEW t \in Threads, Source[t] # FD, NEW u, u = EnqueueReadWriter(s, t)
  PROVE  Bears(s, u, t)
<1> DEFINE w == Source[t]
           a == [s EXCEPT !.tx[w].effect = FALSE]
           b == EnqueueRun(a, w)
<1>0. w \in Threads
  BY PipeAssumption
<1>1. Good(a) /\ SameBytes(s, a)
  BY <1>0, ClearEffect DEF Waked
<1>2. a.closed = s.closed /\ a.run_enq = s.run_enq /\ a.status = s.status
  BY DEF Good, IsProcess
<1>3. u = s \/ u = Ready(b, t)
  BY DEF EnqueueReadWriter
<1> HIDE DEF a, w
<1>4. Bears(s, a, t)
  BY <1>1, <1>2, BytesBears
<1>5. Good(b) /\ Bears(a, b, t)
  <2>1. b = EnqueueRun(a, w)
    OBVIOUS
  <2> HIDE DEF b
  <2> QED
    BY <1>0, <1>1, <2>1, EnqueueRunBears, EnqueueRunQuiet DEF Quiet
<1> HIDE DEF b
<1>6. u = Ready(b, t) => Bears(b, u, t)
  BY <1>5, ReadyBears
<1> QED
  BY <1>3, <1>4, <1>5, <1>6, BearsSelf, BearsTransitive

LEMMA EnqueueWriteReaderBears ==
  ASSUME NEW s, Good(s), NEW t \in Threads, Sink[t] # FD, NEW u, u = EnqueueWriteReader(s, t)
  PROVE  Bears(s, u, t)
<1> DEFINE r == Sink[t]
           a == [s EXCEPT !.rx[r].effect = FALSE]
           b == EnqueueRun(a, r)
<1>0. r \in Threads
  BY PipeAssumption
<1>1. Good(a) /\ SameBytes(s, a)
  BY <1>0, ClearEffect DEF Waked
<1>2. a.closed = s.closed /\ a.run_enq = s.run_enq /\ a.status = s.status
  BY DEF Good, IsProcess
<1>3. u = s \/ u = Ready(b, t)
  BY DEF EnqueueWriteReader
<1> HIDE DEF a, r
<1>4. Bears(s, a, t)
  BY <1>1, <1>2, BytesBears
<1>5. Good(b) /\ Bears(a, b, t)
  <2>1. b = EnqueueRun(a, r)
    OBVIOUS
  <2> HIDE DEF b
  <2> QED
    BY <1>0, <1>1, <2>1, EnqueueRunBears, EnqueueRunQuiet DEF Quiet
<1> HIDE DEF b
<1>6. u = Ready(b, t) => Bears(b, u, t)
  BY <1>5, ReadyBears
<1> QED
  BY <1>3, <1>4, <1>5, <1>6, BearsSelf, BearsTransitive

----------------------------------------------------------------------------
(* What a handler moves *)

\* Bytes of three rings in a row.
LEMMA Regrouped ==
  ASSUME NEW a \in Seq(Byte), NEW b \in Seq(Byte), NEW c \in Seq(Byte)
  PROVE  (a \o b) \o c = a \o (b \o c)
BY ConcatAssociative

\* What is taken off the front of a ring, and what stays.
LEMMA PopBytes ==
  ASSUME NEW g, IsRing(g), NEW n \in 0 .. Len(g.data), NEW h, h = Pop(g, n)
  PROVE  /\ SubSeq(g.data, 1, n) \in Seq(Byte) /\ h.data \in Seq(Byte)
         /\ SubSeq(g.data, 1, n) \o h.data = g.data
         /\ g.data = << >> => h.data = << >>
<1> DEFINE q == g.data
           f == SubSeq(q, 1, n)
           b == SubSeq(q, n + 1, Len(q))
<1>1. q \in Seq(Byte) /\ Len(q) \in Nat
  BY DEF IsRing
<1> HIDE DEF q
<1>2. f \in Seq(Byte) /\ Len(f) = n
  BY <1>1, FirstBytes DEF q
<1>3. h.data = b
  <2>1. CASE n = 0
    <3>1. h.data = q
      BY <2>1 DEF Pop, q
    <3> QED
      BY <1>1, <2>1, <3>1, SubSeqFull
  <2>2. CASE n # 0
    BY <2>2 DEF Pop, IsRing, q
  <2> QED
    BY <2>1, <2>2
<1>4. f \o b = SubSeq(q, 1, Len(q))
  <2>1. n \in 1 - 1 .. Len(q) /\ 1 \in 1 .. Len(q) + 1 /\ Len(q) \in n .. Len(q)
    BY <1>1 DEF q
  <2> QED
    BY <1>1, <2>1, ConcatAdjacentSubSeq
<1>5. f \o b = q
  BY <1>1, <1>4, SubSeqFull
<1>6. h.data \in Seq(Byte)
  BY PopRing DEF IsRing
<1>7. q = << >> => h.data = << >>
  <2> SUFFICES ASSUME q = << >> PROVE h.data = << >>
    OBVIOUS
  <2>1. Len(h.data) = 0
    BY PopRing DEF q
  <2> QED
    BY <1>6, <2>1
<1> QED
  BY <1>2, <1>3, <1>5, <1>6, <1>7 DEF q

\* vk_vectoring_splice moves bytes from the front of one ring to the end of
\* the other.
LEMMA SpliceBears ==
  ASSUME NEW s, Good(s), NEW r \in Threads, Source[r] # FD, NEW t, NEW u,
         u = PipeSplice(s, r, Source[r])
  PROVE  Bears(s, u, t)
<1> USE BufLenAssumption
<1> DEFINE w  == Source[r]
           g  == s.rx[r]
           h  == s.tx[w]
           n  == Smaller(Room(g), Len(h.data))
           f  == SubSeq(h.data, 1, n)
           to == Push(g, f)
           fr == Pop(h, n)
           g2 == [to EXCEPT !.blocked = n < Room(to)]
           h2 == [fr EXCEPT !.blocked = n < Len(fr.data)]
<1>0. w \in Threads
  BY PipeAssumption
<1>1. IsProcess(s) /\ IsRing(g) /\ IsRing(h)
  BY <1>0 DEF Good, IsProcess
<1>2. u = [s EXCEPT !.rx[r] = g2, !.tx[w] = h2]
  BY DEF PipeSplice
<1>3. Spliced(s, u, r, w)
  <2> HIDE DEF w
  <2> QED
    BY <1>0, SpliceSpliced DEF w
<1> HIDE DEF g, h, w
<1>4. /\ Len(g.data) \in Nat /\ Len(h.data) \in Nat /\ Room(g) \in Nat
      /\ g.data \in Seq(Byte) /\ h.data \in Seq(Byte)
  BY <1>1 DEF IsRing, Room
<1>5. n \in 0 .. Len(h.data) /\ n <= Room(g)
  <2>1. n \in Nat /\ n <= Room(g) /\ n <= Len(h.data)
    BY <1>4, SmallerIs
  <2> HIDE DEF n
  <2> QED
    BY <1>4, <2>1
<1> HIDE DEF n
<1>6. f \in Seq(Byte) /\ Len(f) = n
  BY <1>4, <1>5, FirstBytes
<1>7. IsRing(to) /\ to.data = g.data \o f
  <2> HIDE DEF f
  <2> QED
    BY <1>1, <1>5, <1>6, PushRing
<1>8. IsRing(fr) /\ f \o fr.data = h.data /\ fr.data \in Seq(Byte) /\ (h.data = << >> => fr.data = << >>)
  BY <1>1, <1>5, PopBytes, PopRing
<1> HIDE DEF to, fr, f
<1>9. g2.data = to.data /\ h2.data = fr.data
  BY <1>7, <1>8 DEF IsRing
<1> HIDE DEF g2, h2
<1>10. u.rx[r] = g2 /\ u.tx[w] = h2
  BY <1>0, <1>1, <1>2 DEF IsProcess
<1>11. u.rx[r].data \o u.tx[w].data = g.data \o h.data
  <2>1. (g.data \o f) \o fr.data = g.data \o (f \o fr.data)
    <3>1. g.data \in Seq(Byte) /\ f \in Seq(Byte) /\ fr.data \in Seq(Byte)
      BY <1>4, <1>6, <1>8
    <3> QED
      BY <3>1, Regrouped
  <2>2. u.rx[r].data = g.data \o f /\ u.tx[w].data = fr.data
    BY <1>7, <1>9, <1>10
  <2>3. f \o fr.data = h.data
    BY <1>8
  <2> QED
    BY <2>1, <2>2, <2>3, Zenon
<1>12. Flow(u, r) = Flow(s, r)
  BY <1>11 DEF Flow, g, h, w
<1>13. ASSUME NEW x \in Threads, x # r, Source[x] # FD PROVE Flow(u, x) = Flow(s, x)
  <2>1. Source[x] \in Threads /\ Source[x] # w
    BY <1>0, <1>13, PipeAssumption DEF w
  <2> QED
    BY <1>3, <1>13, <2>1 DEF Flow, Spliced
<1>14. ASSUME NEW x \in Threads, s.tx[x].data = << >> PROVE u.tx[x].data = << >>
  BY <1>0, <1>3, <1>8, <1>9, <1>10, <1>14 DEF Spliced, h
<1> QED
  BY <1>3, <1>12, <1>13, <1>14 DEF Bears, Spliced, SameQueues

\* A descriptor's ring is on no pipe.
LEMMA RingBears ==
  ASSUME NEW s, Good(s), NEW x \in Threads, NEW g, IsRing(g), NEW t
  PROVE  /\ Source[x] = FD => Bears(s, WithRx(s, x, g), t)
         /\ Sink[x] = FD /\ (s.tx[x].data = << >> => g.data = << >>) => Bears(s, WithTx(s, x, g), t)
<1>1. ASSUME Source[x] = FD PROVE Bears(s, WithRx(s, x, g), t)
  <2> DEFINE u == WithRx(s, x, g)
  <2>1. /\ SameQueues(s, u) /\ u.tx = s.tx /\ \A y \in Threads \ {x} : u.rx[y] = s.rx[y]
    BY SetRx
  <2> HIDE DEF u
  <2> QED
    BY <1>1, <2>1 DEF Bears, Flow, SameQueues, u
<1>2. ASSUME Sink[x] = FD, s.tx[x].data = << >> => g.data = << >> PROVE Bears(s, WithTx(s, x, g), t)
  <2> DEFINE u == WithTx(s, x, g)
  <2>1. /\ SameQueues(s, u) /\ u.rx = s.rx /\ u.tx[x] = g /\ \A y \in Threads \ {x} : u.tx[y] = s.tx[y]
    BY SetTx
  <2> HIDE DEF u
  <2>2. \A r \in Threads : Source[r] # FD => Source[r] \in Threads \ {x}
    BY <1>2, PipeAssumption
  <2> QED
    BY <1>2, <2>1, <2>2 DEF Bears, Flow, SameQueues, u
<1> QED
  BY <1>1, <1>2

\* The reading half of a handler.
LEMMA ReadSideBears ==
  ASSUME NEW s, Good(s), NEW t \in Threads, NEW got \in Got(s, t), NEW u, u = ReadSide(s, t, got)
  PROVE  Bears(s, u, t)
<1>1. IsRing(s.rx[t]) /\ Room(s.rx[t]) \in Nat
  <2>1. IsRing(s.rx[t])
    BY DEF Good, IsProcess
  <2> QED
    BY <2>1, BufLenAssumption DEF IsRing, Room
<1>2. CASE Source[t] = FD
  <2> DEFINE g == FdRead(s.rx[t], got)
             a == [s EXCEPT !.rx[t] = g]
  <2>1. u = EnqueueRead(a, t) /\ a = WithRx(s, t, g) /\ g = FdRead(s.rx[t], got)
    BY <1>2 DEF ReadSide, WithRx
  <2>2. got = EAGAIN \/ got \in 0 .. Room(s.rx[t])
    BY <1>1, <1>2 DEF Got
  <2> HIDE DEF g, a
  <2>3. IsRing(g)
    BY <1>1, <2>1, <2>2, FdReadRing
  <2>4. Good(a) /\ Bears(s, a, t)
    BY <1>2, <2>1, <2>3, SetRx, RingBears
  <2>5. Bears(a, u, t)
    BY <2>1, <2>4, EnqueueReadBears
  <2> QED
    BY <2>4, <2>5, BearsTransitive
<1>3. CASE Source[t] # FD
  <2> DEFINE a == PipeSplice(s, t, Source[t])
             b == EnqueueRead(a, t)
  <2>1. u = EnqueueReadWriter(b, t) /\ b = EnqueueRead(a, t) /\ a = PipeSplice(s, t, Source[t])
    BY <1>3 DEF ReadSide
  <2>2. Source[t] \in Threads
    BY <1>3, PipeAssumption
  <2> HIDE DEF a, b
  <2>3. Good(a) /\ Bears(s, a, t)
    BY <1>3, <2>1, <2>2, SpliceSpliced, SpliceBears DEF Spliced
  <2>4. Good(b) /\ Bears(a, b, t)
    BY <2>1, <2>3, EnqueueReadWakes, EnqueueReadBears DEF Waked
  <2>5. Bears(b, u, t)
    BY <1>3, <2>1, <2>4, EnqueueReadWriterBears
  <2> QED
    BY <2>3, <2>4, <2>5, BearsTransitive
<1> QED
  BY <1>2, <1>3

\* The writing half.
LEMMA WriteSideBears ==
  ASSUME NEW s, Good(s), NEW t \in Threads, NEW put, Sink[t] = FD => put \in Put(s, t),
         NEW u, u = WriteSide(s, t, put)
  PROVE  Bears(s, u, t)
<1>1. IsRing(s.tx[t]) /\ Len(s.tx[t].data) \in Nat /\ s.tx[t].data \in Seq(Byte)
  <2>1. IsRing(s.tx[t])
    BY DEF Good, IsProcess
  <2> QED
    BY <2>1 DEF IsRing
<1>2. CASE Sink[t] = FD
  <2> DEFINE h == s.tx[t]
             g == FdWrite(h, put)
             a == [s EXCEPT !.tx[t] = g]
  <2>1. u = EnqueueWrite(a, t) /\ a = WithTx(s, t, g) /\ g = FdWrite(h, put)
    BY <1>2 DEF WriteSide, WithTx
  <2>2. put \in {EAGAIN} \cup 0 .. Len(h.data) /\ (put = 0 => h.data = << >>)
    BY <1>1, <1>2 DEF Put, EAGAIN
  <2> HIDE DEF g, a
  <2>3. IsRing(g)
    BY <1>1, <2>1, <2>2, FdWriteRing
  <2>4. ASSUME h.data = << >> PROVE g.data = << >>
    <3>1. put = EAGAIN \/ put = 0
      BY <1>1, <2>2, <2>4
    <3>2. IsRing(h)
      BY <1>1
    <3> HIDE DEF h
    <3>3. g = h \/ g = [h EXCEPT !.blocked = TRUE, !.effect = FALSE]
               \/ g = [h EXCEPT !.blocked = put < Len(h.data)]
      BY <2>1, <3>1 DEF FdWrite, Pop
    <3> QED
      BY <2>4, <3>2, <3>3 DEF IsRing
  <2>5. Good(a) /\ Bears(s, a, t)
    BY <1>2, <2>1, <2>3, <2>4, SetTx, RingBears
  <2>6. Bears(a, u, t)
    BY <2>1, <2>5, EnqueueWriteBears
  <2> QED
    BY <2>5, <2>6, BearsTransitive
<1>3. CASE Sink[t] # FD
  <2> DEFINE r == Sink[t]
             a == PipeSplice(s, r, t)
             b == EnqueueWrite(a, t)
  <2>1. u = EnqueueWriteReader(b, t) /\ b = EnqueueWrite(a, t) /\ a = PipeSplice(s, r, t)
    BY <1>3 DEF WriteSide
  <2>2. r \in Threads /\ Source[r] = t /\ Source[r] # FD
    BY <1>3, PipeAssumption
  <2> HIDE DEF a, b, r
  <2>3. a = PipeSplice(s, r, Source[r])
    BY <2>1, <2>2
  <2>4. Good(a) /\ Bears(s, a, t)
    BY <2>1, <2>2, <2>3, SpliceSpliced, SpliceBears DEF Spliced
  <2>5. Good(b) /\ Bears(a, b, t)
    BY <2>1, <2>4, EnqueueWriteWakes, EnqueueWriteBears DEF Waked
  <2>6. Bears(b, u, t)
    BY <1>3, <2>1, <2>5, EnqueueWriteReaderBears
  <2> QED
    BY <2>4, <2>5, <2>6, BearsTransitive
<1> QED
  BY <1>2, <1>3

\* A whole read, and a whole write.
LEMMA HandleReadBears ==
  ASSUME NEW s, Good(s), NEW t \in Threads, NEW got \in Got(s, t), NEW u, u = HandleRead(s, t, got)
  PROVE  Bears(s, u, t)
<1> DEFINE a == ReadSide(s, t, got)
<1>1. u = HandleBlock(a, t) /\ a = ReadSide(s, t, got)
  BY DEF HandleRead
<1> HIDE DEF a
<1>2. Good(a) /\ Bears(s, a, t)
  BY <1>1, ReadSideShift, ReadSideBears DEF Shift
<1> QED
  BY <1>1, <1>2, HandleBlockBears, BearsTransitive

LEMMA HandleWriteBears ==
  ASSUME NEW s, Good(s), NEW t \in Threads, NEW put, Sink[t] = FD => put \in Put(s, t),
         NEW u, u = HandleWrite(s, t, put)
  PROVE  Bears(s, u, t)
<1> DEFINE a == WriteSide(s, t, put)
<1>1. u = HandleBlock(a, t) /\ a = WriteSide(s, t, put)
  BY DEF HandleWrite
<1> HIDE DEF a
<1>2. Good(a) /\ Bears(s, a, t)
  BY <1>1, WriteSideShift, WriteSideBears DEF Shift
<1> QED
  BY <1>1, <1>2, HandleBlockBears, BearsTransitive

\* A read with its lazy flush.
LEMMA HandleReadOpBears ==
  ASSUME NEW s, Good(s), NEW t \in Threads, s.status[t] # "END",
         NEW got \in Got(s, t), NEW put \in Put(s, t), NEW u, u = HandleReadOp(s, t, got, put)
  PROVE  Bears(s, u, t)
<1> DEFINE r == HandleRead(s, t, got)
<1>1. (u = HandleWrite(r, t, put) \/ u = r) /\ r = HandleRead(s, t, got)
  BY DEF HandleReadOp
<1> HIDE DEF r
<1>2. Shift(s, r, t) /\ (Sink[t] = FD => r.tx[t].data = s.tx[t].data)
  BY <1>1, HandleReadShift
<1>3. Good(r) /\ Bears(s, r, t) /\ (Sink[t] = FD => put \in Put(r, t))
  BY <1>1, <1>2, HandleReadBears DEF Shift, Put
<1> QED
  BY <1>1, <1>3, HandleWriteBears, BearsTransitive

\* vk_hup's attempts.
LEMMA HandleHupBears ==
  ASSUME NEW s, Good(s), NEW t \in Threads, s.status[t] # "END", Sink[t] # FD, NEW u, u = HandleHup(s, t)
  PROVE  Bears(s, u, t)
<1> DEFINE a == EnqueueWrite(s, t)
           b == EnqueueWriteReader(a, t)
           c == IF s.tx[t].eof THEN s ELSE b
<1>1. u = HandleBlock(c, t) /\ b = EnqueueWriteReader(a, t) /\ a = EnqueueWrite(s, t)
  BY DEF HandleHup
<1>2. c = s \/ c = b
  OBVIOUS
<1> HIDE DEF a, b, c
<1>3. Good(a) /\ Bears(s, a, t)
  BY <1>1, EnqueueWriteWakes, EnqueueWriteBears DEF Waked
<1>4. Good(b) /\ Bears(a, b, t)
  BY <1>1, <1>3, EnqueueWriteReaderWakes, EnqueueWriteReaderBears DEF Waked
<1>5. Good(c) /\ Bears(s, c, t)
  BY <1>2, <1>3, <1>4, BearsSelf, BearsTransitive
<1> QED
  BY <1>1, <1>5, HandleBlockBears, BearsTransitive

\* The close, after which the descriptor is closed.
LEMMA HandleTxCloseBears ==
  ASSUME NEW s, Good(s), NEW t \in Threads, s.status[t] # "END", NEW u, u = HandleTxClose(s, t)
  PROVE  Bears(s, u, t) /\ (Sink[t] = FD => u.closed[t])
<1>1. IsProcess(s) /\ IsRing(s.tx[t])
  BY DEF Good, IsProcess
<1>2. CASE Sink[t] = FD
  <2> DEFINE g == [s.tx[t] EXCEPT !.effect = TRUE]
             c == [s EXCEPT !.closed[t] = TRUE]
             a == [c EXCEPT !.tx[t] = g]
             b == EnqueueWrite(a, t)
             h == HandleBlock(b, t)
  <2>1. u = Ready(h, t) /\ h = HandleBlock(b, t) /\ b = EnqueueWrite(a, t)
    <3>1. a = [s EXCEPT !.closed[t] = TRUE, !.tx[t].effect = TRUE]
      BY <1>1 DEF IsProcess
    <3> HIDE DEF a
    <3> QED
      BY <1>2, <3>1 DEF HandleTxClose
  <2>2. IsRing(g) /\ g.data = s.tx[t].data
    BY <1>1 DEF IsRing
  <2>3. a = WithTx(c, t, g)
    BY DEF WithTx
  <2> HIDE DEF g, a, b, h
  <2>4. /\ IsProcess(c) /\ c.rx = s.rx /\ c.tx = s.tx /\ c.closed[t]
        /\ c.run_q = s.run_q /\ c.run_enq = s.run_enq /\ c.run = s.run
        /\ c.blocked_q = s.blocked_q /\ c.blocked_enq = s.blocked_enq /\ c.blocked = s.blocked
        /\ c.status = s.status
        /\ \A x \in Threads : s.closed[x] => c.closed[x]
    BY <1>1 DEF IsProcess
  <2> HIDE DEF c
  <2>5. Good(c) /\ Bears(s, c, t)
    BY <2>4 DEF Good, Bears, Flow
  <2>6. Good(a) /\ Bears(c, a, t)
    BY <1>2, <2>2, <2>3, <2>4, <2>5, SetTx, RingBears
  <2>7. Good(b) /\ Bears(a, b, t)
    BY <2>1, <2>6, EnqueueWriteWakes, EnqueueWriteBears DEF Waked
  <2>8. b.status[t] # "END"
    <3>1. Steady(a, b, t)
      BY <2>1, <2>6, EnqueueWriteWakes DEF Waked
    <3>2. SameQueues(c, a)
      BY <2>2, <2>3, <2>5, SetTx
    <3> QED
      BY <2>4, <3>1, <3>2 DEF Steady, SameQueues
  <2>9. Good(h) /\ Bears(b, h, t)
    BY <2>1, <2>7, <2>8, HandleBlockQuiet, HandleBlockBears DEF Quiet
  <2>10. Bears(h, u, t)
    BY <2>1, <2>9, ReadyBears
  <2>11. Bears(c, u, t)
    BY <2>6, <2>7, <2>9, <2>10, BearsTransitive
  <2> QED
    BY <2>4, <2>5, <2>11, BearsTransitive DEF Bears
<1>3. CASE Sink[t] # FD
  <2> DEFINE g == SetEof(s.tx[t], TRUE)
             a == [s EXCEPT !.tx[t] = g]
             w == EnqueueWrite(a, t)
             b == EnqueueWriteReader(w, t)
             h == HandleBlock(b, t)
  <2>1. /\ u = Ready(h, t) /\ h = HandleBlock(b, t) /\ b = EnqueueWriteReader(w, t)
        /\ w = EnqueueWrite(a, t)
    BY <1>3 DEF HandleTxClose
  <2>2. IsRing(g) /\ g.data = s.tx[t].data
    BY <1>1, MarkEof
  <2>3. a = WithTx(s, t, g)
    BY DEF WithTx
  <2> HIDE DEF g, a, w, b, h
  <2>4. /\ Good(a) /\ SameQueues(s, a) /\ a.rx = s.rx /\ a.tx[t] = g
        /\ \A y \in Threads \ {t} : a.tx[y] = s.tx[y]
    BY <2>2, <2>3, SetTx
  <2>5. Bears(s, a, t)
    <3>1. \A y \in Threads : a.tx[y].data = s.tx[y].data
      BY <2>2, <2>4
    <3>2. \A r \in Threads : Source[r] # FD => Source[r] \in Threads
      BY PipeAssumption
    <3> QED
      BY <2>4, <3>1, <3>2 DEF Bears, Flow, SameQueues
  <2>6. Good(w) /\ Bears(a, w, t) /\ Steady(a, w, t)
    BY <2>1, <2>4, EnqueueWriteWakes, EnqueueWriteBears DEF Waked
  <2>7. Good(b) /\ Bears(w, b, t) /\ Steady(w, b, t)
    BY <1>3, <2>1, <2>6, EnqueueWriteReaderWakes, EnqueueWriteReaderBears DEF Waked
  <2>8. b.status[t] # "END"
    BY <2>4, <2>6, <2>7 DEF Steady, SameQueues
  <2>9. Good(h) /\ Bears(b, h, t)
    BY <2>1, <2>7, <2>8, HandleBlockQuiet, HandleBlockBears DEF Quiet
  <2>10. Bears(h, u, t)
    BY <2>1, <2>9, ReadyBears
  <2> QED
    BY <1>3, <2>5, <2>6, <2>7, <2>9, <2>10, BearsTransitive
<1> QED
  BY <1>2, <1>3

\* A forward.
LEMMA HandleForwardBears ==
  ASSUME NEW s, Good(s), NEW t \in Threads, s.status[t] # "END",
         NEW got \in Got(s, t), NEW put \in Put(s, t), NEW u, u = HandleForward(s, t, got, put)
  PROVE  Bears(s, u, t)
<1> DEFINE r == ReadSide(s, t, got)
           a == IF Source[t] = FD /\ Sink[t] # FD THEN ForwardToPipe(r, t) ELSE WriteSide(r, t, put)
<1>1. u = HandleBlock(a, t) /\ r = ReadSide(s, t, got)
  BY DEF HandleForward
<1> HIDE DEF r
<1>2. Good(r) /\ Bears(s, r, t) /\ (Sink[t] = FD => put \in Put(r, t))
  BY <1>1, ReadSideShift, ReadSideBears DEF Shift, Put
<1>3. CASE Source[t] = FD /\ Sink[t] # FD
  <2> DEFINE x == Sink[t]
             b == PipeSplice(r, x, t)
             w == EnqueueWrite(b, t)
             c == EnqueueWriteReader(w, t)
  <2>1. /\ b = PipeSplice(r, x, t) /\ w = EnqueueWrite(b, t) /\ c = EnqueueWriteReader(w, t)
        /\ (a = EnqueueRun(c, x) \/ a = w)
    BY <1>3 DEF ForwardToPipe
  <2>2. x \in Threads /\ Source[x] = t /\ Source[x] # FD
    BY <1>3, PipeAssumption
  <2> HIDE DEF x, b, w, c, a
  <2>3. Good(b) /\ Bears(r, b, t)
    BY <1>2, <2>1, <2>2, SpliceSpliced, SpliceBears DEF Spliced
  <2>4. Good(w) /\ Bears(b, w, t)
    BY <2>1, <2>3, EnqueueWriteWakes, EnqueueWriteBears DEF Waked
  <2>5. Good(c) /\ Bears(w, c, t)
    BY <1>3, <2>1, <2>4, EnqueueWriteReaderWakes, EnqueueWriteReaderBears DEF Waked
  <2>6. a = EnqueueRun(c, x) => Good(a) /\ Bears(c, a, t)
    BY <2>2, <2>5, EnqueueRunBears, EnqueueRunQuiet DEF Quiet
  <2>7. Good(a) /\ Bears(s, a, t)
    BY <1>2, <2>1, <2>3, <2>4, <2>5, <2>6, BearsTransitive
  <2> QED
    BY <1>1, <2>7, HandleBlockBears, BearsTransitive
<1>4. CASE ~ (Source[t] = FD /\ Sink[t] # FD)
  <2>1. a = WriteSide(r, t, put)
    BY <1>4
  <2> HIDE DEF a
  <2>2. Good(a) /\ Bears(r, a, t)
    BY <1>2, <2>1, WriteSideShift, WriteSideBears DEF Shift
  <2> QED
    BY <1>1, <1>2, <2>2, HandleBlockBears, BearsTransitive
<1> QED
  BY <1>3, <1>4

\* Auto lazy flush: a read from a pipe that has nothing leaves nothing
\* behind for the descriptor that the poller does not ask for.
LEMMA LazyFlush ==
  ASSUME NEW s, Good(s), NEW t \in Threads, s.status[t] # "END", Source[t] # FD, Sink[t] = FD,
         s.rx[t].data = << >>, NEW got \in Got(s, t), NEW put \in Put(s, t),
         NEW u, u = HandleReadOp(s, t, got, put), u.status[t] = "WAIT", ~ u.blocked_enq[t]
  PROVE  s.tx[t].data = << >>
<1> USE BufLenAssumption
<1> DEFINE w == Source[t]
           a == PipeSplice(s, t, w)
           b == EnqueueRead(a, t)
           c == EnqueueReadWriter(b, t)
           r == HandleBlock(c, t)
<1>1. /\ u = IF r.rx[t].blocked /\ ~ r.tx[t].blocked /\ r.tx[t].data # << >>
              THEN HandleWrite(r, t, put) ELSE r
      /\ r = HandleRead(s, t, got)
      /\ r = HandleBlock(c, t) /\ c = EnqueueReadWriter(b, t) /\ b = EnqueueRead(a, t)
      /\ a = PipeSplice(s, t, w) /\ w \in Threads /\ w = Source[t]
      /\ c = ReadSide(s, t, got)
  <2>1. c = ReadSide(s, t, got)
    BY DEF ReadSide
  <2>2. r = HandleRead(s, t, got)
    BY <2>1 DEF HandleRead
  <2>3. w \in Threads
    BY PipeAssumption
  <2>5. /\ r = HandleBlock(c, t) /\ c = EnqueueReadWriter(b, t) /\ b = EnqueueRead(a, t)
        /\ a = PipeSplice(s, t, w) /\ w = Source[t]
    OBVIOUS
  <2> HIDE DEF w, a, b, c, r
  <2>4. u = IF r.rx[t].blocked /\ ~ r.tx[t].blocked /\ r.tx[t].data # << >>
            THEN HandleWrite(r, t, put) ELSE r
    BY <2>2 DEF HandleReadOp
  <2> QED
    BY <2>1, <2>2, <2>3, <2>4, <2>5
<1> HIDE DEF w, a, b, c, r
<1>2. /\ Shift(s, r, t) /\ r.tx[t].data = s.tx[t].data
      /\ r.status[t] = "WAIT" => Room(s.rx[t]) = 0 \/ s.tx[w].data = << >>
  <2>1. r = HandleRead(s, t, got) /\ w = Source[t]
    BY <1>1
  <2> QED
    BY <2>1, HandleReadShift
<1>3. Good(r) /\ r.status[t] # "END" /\ put \in Put(r, t)
  BY <1>2 DEF Shift, Steady, Put
<1>4. /\ u = HandleWrite(r, t, put) => Shift(r, u, t)
      /\ u = HandleWrite(r, t, put) /\ r.tx[t].data # << >> => u.blocked_enq[t]
  BY <1>3, HandleWriteShift
<1>5. r.status[t] = "WAIT"
  BY <1>1, <1>4 DEF Shift, Steady
<1>6. IsRing(s.rx[t]) /\ IsRing(s.tx[w]) /\ IsProcess(s)
  BY <1>1 DEF Good, IsProcess
<1>7. Room(s.rx[t]) = BufLen /\ BufLen > 0 /\ s.tx[w].data = << >>
  <2>1. Len(s.rx[t].data) = 0
    OBVIOUS
  <2>2. Room(s.rx[t]) = BufLen
    BY <2>1 DEF Room
  <2> QED
    BY <1>2, <1>5, <2>2
<1>8. a.rx[t].blocked
  <2> DEFINE n  == Smaller(Room(s.rx[t]), Len(s.tx[w].data))
             to == Push(s.rx[t], SubSeq(s.tx[w].data, 1, n))
  <2>1. n = 0
    BY <1>7 DEF Smaller
  <2> HIDE DEF n
  <2>2. Len(SubSeq(s.tx[w].data, 1, n)) = 0
    BY <1>7, <2>1
  <2>3. to = s.rx[t]
    <3> DEFINE e == SubSeq(s.tx[w].data, 1, n)
    <3>1. e = << >>
      BY <1>7, <2>1
    <3> HIDE DEF e
    <3> QED
      BY <3>1 DEF Push, e
  <2>4. a.rx[t] = [to EXCEPT !.blocked = n < Room(to)]
    BY <1>1, <1>6 DEF PipeSplice, IsProcess, n
  <2> QED
    BY <1>6, <1>7, <2>1, <2>3, <2>4 DEF IsRing
<1>9. Good(a)
  BY <1>1, SpliceSpliced DEF Spliced
<1>10. Good(b) /\ SameBytes(a, b)
  BY <1>1, <1>9, EnqueueReadWakes DEF Waked
<1>11. Good(c) /\ SameBytes(b, c)
  BY <1>1, <1>10, EnqueueReadWriterWakes DEF Waked
<1>12. Shift(s, c, t)
  BY <1>1, ReadSideShift
<1>13. /\ r.rx = c.rx /\ r.tx = c.tx
       /\ c.tx[t].blocked => r.blocked_enq[t]
  <2>1. c.status[t] # "END"
    BY <1>12 DEF Shift, Steady
  <2> QED
    BY <1>1, <1>11, <2>1, HandleBlockQuiet DEF Quiet
<1>14. r.rx[t].blocked
  BY <1>8, <1>10, <1>11, <1>13 DEF SameBytes
<1> SUFFICES ASSUME s.tx[t].data # << >> PROVE FALSE
  OBVIOUS
<1>15. r.tx[t].data # << >>
  BY <1>2
<1>16. CASE r.tx[t].blocked
  BY <1>1, <1>13, <1>16
<1>17. CASE ~ r.tx[t].blocked
  BY <1>1, <1>4, <1>14, <1>15, <1>17
<1> QED
  BY <1>16, <1>17

\* vk_socket_handler.
LEMMA HandlerBears ==
  ASSUME NEW s, Good(s), NEW t \in Threads, s.status[t] # "END",
         s.op[t] = "HUP" => Sink[t] # FD,
         NEW got \in Got(s, t), NEW put \in Put(s, t), NEW u, u = Handler(s, t, got, put)
  PROVE  /\ Bears(s, u, t)
         /\ s.op[t] = "TX_CLOSE" => u.status[t] # "WAIT" /\ (Sink[t] = FD => u.closed[t])
<1>1. s.op[t] \in Ops \cup {"NONE"}
  BY DEF Good, IsProcess
<1>7. CASE s.op[t] = "FORWARD"
  <2>1. u = HandleForward(s, t, got, put)
    BY <1>7 DEF Handler
  <2> QED
    BY <1>7, <2>1, HandleForwardBears
<1>2. CASE s.op[t] = "NONE"
  BY <1>2, BearsSelf DEF Handler
<1>3. CASE s.op[t] \in {"WRITE", "FLUSH"}
  <2>1. u = HandleWrite(s, t, put)
    BY <1>3 DEF Handler
  <2> QED
    BY <1>3, <2>1, HandleWriteBears
<1>4. CASE s.op[t] \in {"READ", "POLLREAD"}
  <2>1. u = HandleReadOp(s, t, got, put)
    BY <1>4 DEF Handler
  <2> QED
    BY <1>4, <2>1, HandleReadOpBears
<1>5. CASE s.op[t] = "HUP"
  <2>1. u = HandleHup(s, t)
    BY <1>5 DEF Handler
  <2> QED
    BY <1>5, <2>1, HandleHupBears
<1>6. CASE s.op[t] = "TX_CLOSE"
  <2>1. u = HandleTxClose(s, t)
    BY <1>6 DEF Handler
  <2> QED
    BY <2>1, HandleTxCloseBears, HandleTxCloseShift
<1> QED
  BY <1>1, <1>2, <1>3, <1>4, <1>5, <1>6, <1>7 DEF Ops

----------------------------------------------------------------------------
(* What a turn leaves as it was *)

\* Coroutine x may have been woken, and its rings moved, but is where it was.
Stays(s, u, x) ==
  /\ u.op[x] = s.op[x] /\ u.need[x] = s.need[x] /\ u.inside[x] = s.inside[x]
  /\ u.status[x] = s.status[x] \/ u.status[x] = "RUN"
  /\ s.tx[x].data = << >> => u.tx[x].data = << >>

\* And a sleeper has what it had to read.
Undisturbed(s, u, x) == Stays(s, u, x) /\ (u.status[x] = "WAIT" => u.rx[x].data = s.rx[x].data)

\* Whatever t did, the others stay where they were, and are queued if woken.
Beside(s, u, t) ==
  /\ \A x \in Threads \ {t} :
       /\ Stays(s, u, x) /\ u.tx[x].eof = s.tx[x].eof
       /\ u.status[x] = s.status[x] \/ u.run_enq[x]
       /\ s.run_enq[x] => u.run_enq[x]
       /\ s.blocked_enq[x] => u.blocked_enq[x]
  /\ \A x \in Threads : s.closed[x] => u.closed[x]
  /\ u.running = s.running

\* But for a forward into a pipe, they are undisturbed.
Others(s, u, t) == Beside(s, u, t) /\ \A x \in Threads \ {t} : Undisturbed(s, u, x)

\* t forwards from a descriptor into a pipe.
Copies(s, t) == s.op[t] = "FORWARD" /\ Source[t] = FD /\ Sink[t] # FD

\* The operation of t, once it has moved what it could in c, is over or was
\* attempted and goes on.
Went(c, u, t) ==
  /\ u.op[t] = c.op[t] /\ u.need[t] = c.need[t] /\ u.status[t] \in {"RUN", "WAIT"}
  /\ \A r \in Threads : Source[r] # FD => Flow(u, r) = Flow(c, r)
  /\ c.tx[t].data = << >> => u.tx[t].data = << >>
  /\ u.tx[t].eof = c.tx[t].eof \/ (c.op[t] = "TX_CLOSE" /\ Sink[t] # FD)
  /\ u.status[t] = "WAIT" => /\ u.inside[t] /\ c.op[t] # "TX_CLOSE"
                             /\ Copies(c, t) \/ (u.rx[t].data = c.rx[t].data /\ u.tx[t].data = c.tx[t].data)
  /\ \/ ~ u.inside[t] /\ u.rx = c.rx /\ u.tx = c.tx
     \/ u.inside[t] /\ (c.op[t] = "TX_CLOSE" /\ Sink[t] = FD => u.closed[t])

\* What t sleeps on is not in the process: unless the poller will retry it,
\* nothing comes to it through its pipe, and all it wrote was sent.
Dry(u, t) ==
  u.status[t] = "WAIT" /\ ~ u.blocked_enq[t] => Flow(u, t) = << >> /\ u.tx[t].data = << >>

\* An own change leaves the others undisturbed.
LEMMA OwnOthers ==
  ASSUME NEW s, NEW u, NEW t, Own(s, u, t)
  PROVE  Others(s, u, t)
BY DEF Own, Others, Beside, Undisturbed, Stays

LEMMA BesideTransitive ==
  ASSUME NEW s, NEW u, NEW v, NEW t, Beside(s, u, t), Beside(u, v, t)
  PROVE  Beside(s, v, t)
<1>1. ASSUME NEW x \in Threads \ {t} PROVE Stays(s, v, x)
  BY <1>1 DEF Beside, Stays
<1> QED
  BY <1>1 DEF Beside

LEMMA OthersTransitive ==
  ASSUME NEW s, NEW u, NEW v, NEW t, Others(s, u, t), Others(u, v, t)
  PROVE  Others(s, v, t)
<1>1. Beside(s, v, t)
  BY BesideTransitive DEF Others
<1>2. ASSUME NEW x \in Threads \ {t} PROVE Undisturbed(s, v, x)
  BY <1>2 DEF Others, Undisturbed, Stays
<1> QED
  BY <1>1, <1>2 DEF Others

\* An attempt does,
LEMMA TriedOthers ==
  ASSUME NEW s, NEW u, NEW t \in Threads, Tried(s, u, t), Bears(s, u, t)
  PROVE  /\ Beside(s, u, t) /\ (~ Copies(s, t) => Others(s, u, t))
         /\ Stays(s, u, t)
         /\ ~ Copies(s, t) => Undisturbed(s, u, t)
<1>1. /\ Steady(s, u, t) /\ (~ Copies(s, t) => Noticed(s, u))
      /\ \A x \in Threads \ {t} : u.tx[x].eof = s.tx[x].eof
  BY DEF Tried, Shift, Copies
<1>2. \A x \in Threads : Stays(s, u, x)
  BY <1>1 DEF Steady, Bears, Stays
<1>3. ~ Copies(s, t) => \A x \in Threads : Undisturbed(s, u, x)
  BY <1>1, <1>2 DEF Noticed, Undisturbed
<1>4. Beside(s, u, t)
  BY <1>1, <1>2 DEF Beside, Bears, Steady
<1> QED
  BY <1>2, <1>3, <1>4 DEF Others

\* and who sleeps on a pipe found nothing in it.
LEMMA TriedWaits ==
  ASSUME NEW s, NEW u, NEW t, Tried(s, u, t), u.status[t] = "WAIT", Source[t] # FD,
         s.op[t] \in Reading \cup {"FORWARD"}
  PROVE  /\ Room(s.rx[t]) = 0 \/ s.tx[Source[t]].data = << >>
         /\ s.op[t] = "FORWARD" /\ Sink[t] = FD /\ s.tx[t].data # << >> => u.blocked_enq[t]
BY DEF Tried, Reading

\* vk_wait.
LEMMA WaitBears ==
  ASSUME NEW s, Good(s), NEW t \in Threads, s.status[t] = "RUN", s.op[t] = "HUP" => Sink[t] # FD,
         Wait(s, t), NEW d, d = [s EXCEPT !.status[t] = "WAIT"]
  PROVE  /\ Bears(d, p', t)
         /\ d.op[t] = "TX_CLOSE" => p'.status[t] # "WAIT" /\ (Sink[t] = FD => p'.closed[t])
         /\ s.op[t] \in Reading /\ Source[t] # FD /\ Sink[t] = FD /\ s.rx[t].data = << >> =>
              (p'.status[t] = "WAIT" /\ ~ p'.blocked_enq[t] => s.tx[t].data = << >>)
<1>1. /\ Good(d) /\ d.rx = s.rx /\ d.tx = s.tx /\ d.op = s.op /\ d.status[t] = "WAIT"
  BY WaitTried
<1>2. PICK got \in Got(s, t), put \in Put(s, t) : p' = Handler(d, t, got, put)
  BY DEF Wait
<1>3. got \in Got(d, t) /\ put \in Put(d, t)
  BY <1>1, <1>2 DEF Got, Put, Room
<1>4. /\ Bears(d, p', t)
      /\ d.op[t] = "TX_CLOSE" => p'.status[t] # "WAIT" /\ (Sink[t] = FD => p'.closed[t])
  BY <1>1, <1>2, <1>3, HandlerBears
<1>5. ASSUME s.op[t] \in Reading, Source[t] # FD, Sink[t] = FD, s.rx[t].data = << >>,
             p'.status[t] = "WAIT", ~ p'.blocked_enq[t]
      PROVE  s.tx[t].data = << >>
  <2>1. p' = HandleReadOp(d, t, got, put)
    BY <1>1, <1>2, <1>5 DEF Handler, Reading
  <2>2. d.status[t] # "END" /\ d.rx[t].data = << >>
    BY <1>1, <1>5
  <2>3. d.tx[t].data = << >>
    BY <1>1, <1>3, <1>5, <2>1, <2>2, LazyFlush
  <2> QED
    BY <1>1, <2>3
<1> QED
  BY <1>4, <1>5

\* and so does the end of an operation, or an attempt at it.
LEMMA GoesOnBeside ==
  ASSUME QueueInv, NEW t \in Threads, NEW c, Own(p, c, t), OwnOK(c, t), c.status[t] = "RUN",
         c.inside[t], c.op[t] \in Program[t] \cup {"NONE"}, c.op[t] = "HUP" => Sink[t] # FD,
         p' = Finish(c, t) \/ (Wait(c, t) /\ Rests(c, t)),
         phase = "execute", UNCHANGED << phase, retry, ended >>, msg' \in Messages
  PROVE  /\ QueueInv' /\ (SleepInv(p, {}) => SleepInv(p', {}))
         /\ Beside(p, p', t) /\ (~ Copies(c, t) => Others(p, p', t)) /\ Went(c, p', t)
         /\ (Wait(c, t) => p'.inside[t]) /\ (p' = Finish(c, t) => ~ p'.inside[t])
         /\ Source[t] # FD /\ Sink[t] = FD /\ c.op[t] \in Reading \cup {"FORWARD"} => Dry(p', t)
<1>1. Good(p) /\ Good(c)
  BY OwnGood DEF QueueInv
<1>0. (Wait(c, t) => p'.inside[t]) /\ (p' = Finish(c, t) => ~ p'.inside[t])
  <2>1. ASSUME Wait(c, t) PROVE p'.inside[t]
    <3> DEFINE d == [c EXCEPT !.status[t] = "WAIT"]
    <3>1. /\ Own(c, d, t) /\ Good(d) /\ d.rx = c.rx /\ d.tx = c.tx /\ d.op = c.op /\ d.inside = c.inside
          /\ d.need = c.need /\ d.status[t] = "WAIT" /\ Tried(d, p', t)
      BY <1>1, <2>1, WaitTried, ZenonT(40)
    <3> HIDE DEF d
    <3> QED
      BY <3>1 DEF Tried, Shift, Steady
  <2>2. p' = Finish(c, t) => ~ p'.inside[t]
    BY <1>1 DEF Finish, Good, IsProcess
  <2> QED
    BY <2>1, <2>2
<1>2. PICK e : Stepped(t, e)
  BY <1>1, GoesOn
<1>3. QueueInv' /\ (SleepInv(p, {}) => SleepInv(p', {}))
  BY <1>2, StepQueue, StepSleep DEF Messages
<1>4. Others(p, c, t) /\ Beside(p, c, t)
  BY OwnOthers DEF Others
<1>5. CASE p' = Finish(c, t)
  <2>1. /\ Own(c, p', t) /\ p'.rx = c.rx /\ p'.tx = c.tx /\ p'.op = c.op /\ ~ p'.inside[t]
        /\ p'.status[t] = "RUN"
    BY <1>1, <1>5, FinishOwn
  <2>2. p'.need = c.need
    BY <1>1, <1>5 DEF Finish, Good, IsProcess
  <2>3. Went(c, p', t) /\ Dry(p', t)
    BY <2>1, <2>2 DEF Went, Flow, Dry
  <2>4. Others(p, p', t) /\ Beside(p, p', t)
    <3>1. Others(p, p', t)
      BY <1>4, <2>1, OwnOthers, OthersTransitive
    <3> QED
      BY <3>1 DEF Others
  <2> QED
    BY <1>0, <1>3, <2>3, <2>4
<1>6. CASE Wait(c, t) /\ Rests(c, t)
  <2> DEFINE d == [c EXCEPT !.status[t] = "WAIT"]
  <2>0. d = [c EXCEPT !.status[t] = "WAIT"]
    OBVIOUS
  <2>1. /\ Own(c, d, t) /\ Good(d) /\ d.rx = c.rx /\ d.tx = c.tx /\ d.op = c.op /\ d.inside = c.inside
        /\ d.need = c.need /\ d.status[t] = "WAIT" /\ Tried(d, p', t)
    BY <1>1, <1>6, WaitTried, ZenonT(40)
  <2> HIDE DEF d
  <2>2. /\ Bears(d, p', t)
        /\ d.op[t] = "TX_CLOSE" => p'.status[t] # "WAIT" /\ (Sink[t] = FD => p'.closed[t])
        /\ c.op[t] \in Reading /\ Source[t] # FD /\ Sink[t] = FD /\ c.rx[t].data = << >> =>
             (p'.status[t] = "WAIT" /\ ~ p'.blocked_enq[t] => c.tx[t].data = << >>)
    BY <1>1, <1>6, <2>0, WaitBears
  <2>3. /\ Beside(d, p', t) /\ Stays(d, p', t)
        /\ ~ Copies(c, t) => Others(d, p', t) /\ Undisturbed(d, p', t)
    <3>1. Copies(d, t) <=> Copies(c, t)
      BY <2>1 DEF Copies
    <3> QED
      BY <2>1, <2>2, <3>1, TriedOthers
  <2>4. Beside(p, p', t) /\ (~ Copies(c, t) => Others(p, p', t))
    <3>1. Others(p, d, t) /\ Beside(p, d, t)
      <4>1. Others(p, d, t)
        BY <1>4, <2>1, OwnOthers, OthersTransitive
      <4> QED
        BY <4>1 DEF Others
    <3> QED
      BY <2>3, <3>1, BesideTransitive, OthersTransitive
  <2>5. /\ ~ Copies(c, t) => Noticed(d, p')
        /\ p'.tx[t].eof = d.tx[t].eof \/ (d.op[t] = "TX_CLOSE" /\ Sink[t] # FD)
    BY <2>1 DEF Tried, Copies
  <2>6. \A r \in Threads : Source[r] # FD => Flow(p', r) = Flow(c, r)
    BY <2>1, <2>2 DEF Bears, Flow
  <2>7. Went(c, p', t)
    BY <1>0, <1>6, <2>1, <2>2, <2>3, <2>5, <2>6 DEF Went, Stays, Noticed
  <2>8. ASSUME Source[t] # FD, Sink[t] = FD, c.op[t] \in Reading \cup {"FORWARD"} PROVE Dry(p', t)
    <3> SUFFICES ASSUME p'.status[t] = "WAIT", ~ p'.blocked_enq[t]
                 PROVE  Flow(p', t) = << >> /\ p'.tx[t].data = << >>
      BY DEF Dry
    <3>1. ~ Copies(c, t) /\ p'.tx[t].data = c.tx[t].data
      <4>1. ~ Copies(c, t)
        BY <2>8 DEF Copies
      <4> QED
        BY <2>7, <4>1 DEF Went
    <3>2. CASE c.op[t] \in Reading
      <4>1. c.rx[t].data = << >>
        BY <1>6, <3>2 DEF Rests
      <4>2. Room(c.rx[t]) = BufLen
        BY <4>1, BufLenAssumption DEF Room
      <4>3. Room(d.rx[t]) = 0 \/ d.tx[Source[t]].data = << >>
        BY <2>1, <2>8, <3>2, TriedWaits
      <4>4. c.tx[Source[t]].data = << >>
        BY <2>1, <4>2, <4>3, BufLenAssumption
      <4>5. Flow(c, t) = << >>
        BY <4>1, <4>4 DEF Flow
      <4> QED
        BY <2>2, <2>6, <2>8, <3>1, <3>2, <4>1, <4>5
    <3>3. CASE c.op[t] = "FORWARD"
      <4>1. c.tx[t].data = << >>
        BY <2>1, <2>8, <3>3, TriedWaits
      <4>2. c.rx[t].data = << >>
        BY <1>6, <3>3, <4>1 DEF Rests
      <4>3. Room(c.rx[t]) = BufLen
        BY <4>2, BufLenAssumption DEF Room
      <4>4. Room(d.rx[t]) = 0 \/ d.tx[Source[t]].data = << >>
        BY <2>1, <2>8, <3>3, TriedWaits
      <4>5. c.tx[Source[t]].data = << >>
        BY <2>1, <4>3, <4>4, BufLenAssumption
      <4>6. Flow(c, t) = << >>
        BY <4>2, <4>5 DEF Flow
      <4> QED
        BY <2>6, <2>8, <3>1, <4>1, <4>6
    <3> QED
      BY <2>8, <3>2, <3>3
  <2> QED
    BY <1>0, <1>3, <2>4, <2>7, <2>8
<1> QED
  BY <1>0, <1>5, <1>6

\* But for a forward, the others are undisturbed.
LEMMA GoesOnBears ==
  ASSUME QueueInv, NEW t \in Threads, NEW c, Own(p, c, t), OwnOK(c, t), c.status[t] = "RUN",
         c.inside[t], c.op[t] \in (Program[t] \cup {"NONE"}) \ {"FORWARD"}, c.op[t] = "HUP" => Sink[t] # FD,
         p' = Finish(c, t) \/ (Wait(c, t) /\ Rests(c, t)),
         phase = "execute", UNCHANGED << phase, retry, ended >>, msg' \in Messages
  PROVE  /\ QueueInv' /\ (SleepInv(p, {}) => SleepInv(p', {}))
         /\ Others(p, p', t) /\ Went(c, p', t)
         /\ (Wait(c, t) => p'.inside[t]) /\ (p' = Finish(c, t) => ~ p'.inside[t])
         /\ Source[t] # FD /\ Sink[t] = FD /\ c.op[t] \in Reading => Dry(p', t)
<1>1. ~ Copies(c, t)
  BY DEF Copies
<1> QED
  BY <1>1, GoesOnBeside

----------------------------------------------------------------------------
(* What each operation does *)

\* The step leaves the queues and the sleepers in order.
Orderly == QueueInv' /\ (SleepInv(p, {}) => SleepInv(p', {}))

\* Every pipe but the one to r carries what it carried.
SameFlow(s, u, r) == \A x \in Threads \ {r} : Source[x] # FD => Flow(u, x) = Flow(s, x)

\* t is inside of the same operation or has left it.
StaysIn(s, u, t) ==
  /\ u.op[t] = s.op[t] /\ u.status[t] \in {"RUN", "WAIT"} /\ u.tx[t].eof = s.tx[t].eof
  /\ u.status[t] = "WAIT" => u.inside[t]

\* vk_read takes bytes off the front; it ends with all of them, or at the
\* end of the stream.
LEMMA ReadTurn ==
  ASSUME QueueInv, NEW t \in Threads, Read(t)
  PROVE  LET f == SubSeq(p.rx[t].data, 1, p.need[t] - p'.need[t])
         IN /\ Orderly /\ Others(p, p', t) /\ StaysIn(p, p', t)
            /\ f \in Seq(Byte) /\ Len(f) = p.need[t] - p'.need[t] /\ p'.need[t] \in Nat
            /\ SameFlow(p, p', t) /\ (Source[t] # FD => Flow(p, t) = f \o Flow(p', t))
            /\ p.tx[t].data = << >> => p'.tx[t].data = << >>
            /\ p'.status[t] = "WAIT" => p'.rx[t].data = << >> /\ p'.need[t] # 0
            /\ \/ p'.inside[t] \/ p'.need[t] = 0
               \/ Pollhup(p', t) /\ (Source[t] # FD => Flow(p', t) = << >> /\ p.tx[Source[t]].eof)
            /\ Source[t] # FD /\ Sink[t] = FD => Dry(p', t)
<1> DEFINE n == Smaller(p.need[t], Len(p.rx[t].data))
           c == Took(p, t)
           g == p.rx[t]
           f == SubSeq(g.data, 1, n)
<1>1. c = Took(p, t)
  OBVIOUS
<1> HIDE DEF c
<1>2. /\ Own(p, c, t) /\ OwnOK(c, t)
      /\ c.status = p.status /\ c.op = p.op /\ c.inside = p.inside /\ c.tx = p.tx
      /\ n \in 0 .. Len(g.data) /\ c.rx[t] = Pop(g, n) /\ c.need[t] = p.need[t] - n
      /\ \/ p' = Finish(c, t) /\ (c.need[t] = 0 \/ Pollhup(c, t))
         \/ c.need[t] # 0 /\ Wait(c, t) /\ Rests(c, t)
  BY <1>1, ReadOwn
<1>3. /\ p.status[t] = "RUN" /\ p.inside[t] /\ p.op[t] = "READ" /\ phase = "execute"
      /\ UNCHANGED << phase, retry, ended, msg >>
  BY DEF Read, Inside, Active
<1>4. IsProcess(p) /\ p.op[t] \in Program[t] \cup {"NONE"} /\ msg' \in Messages /\ IsRing(g)
  BY <1>3 DEF QueueInv, Good, IsProcess, Messages
<1>5. /\ Orderly /\ Others(p, p', t) /\ Went(c, p', t)
      /\ (Wait(c, t) => p'.inside[t]) /\ (p' = Finish(c, t) => ~ p'.inside[t])
      /\ Source[t] # FD /\ Sink[t] = FD => Dry(p', t)
  BY <1>2, <1>3, <1>4, GoesOnBears DEF Orderly, Reading
<1> HIDE DEF n, g
<1>6. f \in Seq(Byte) /\ Len(f) = n /\ f \o c.rx[t].data = g.data /\ c.rx[t].data \in Seq(Byte)
  <2>1. g.data \in Seq(Byte)
    BY <1>4 DEF IsRing
  <2> QED
    BY <1>2, <1>4, <2>1, PopBytes, FirstBytes
<1>7. n = p.need[t] - p'.need[t] /\ p'.need[t] \in Nat
  <2>1. p.need[t] \in Int /\ n \in Int /\ p'.need[t] = p.need[t] - n
    BY <1>2, <1>4, <1>5 DEF Went, Copies, IsProcess
  <2>2. c.need[t] \in Nat
    BY <1>2, BufLenAssumption DEF OwnOK
  <2> QED
    BY <1>2, <2>1, <2>2
<1>8. StaysIn(p, p', t)
  BY <1>2, <1>3, <1>5 DEF StaysIn, Went, Copies
<1>9. \A x \in Threads \ {t} : Source[x] # FD => Flow(c, x) = Flow(p, x)
  BY <1>2 DEF Own, Flow
<1>10. SameFlow(p, p', t)
  BY <1>5, <1>9 DEF SameFlow, Went, Copies
<1>11. ASSUME Source[t] # FD PROVE Flow(p, t) = f \o Flow(p', t)
  <2>1. Source[t] \in Threads
    BY <1>11, PipeAssumption
  <2> DEFINE h == p.tx[Source[t]].data
             q == c.rx[t].data
  <2>2. h \in Seq(Byte)
    BY <1>4, <2>1 DEF IsProcess, IsRing
  <2>3. Flow(p', t) = q \o h
    BY <1>2, <1>5, <1>11 DEF Went, Copies, Flow
  <2>4. Flow(p, t) = (f \o q) \o h
    BY <1>6 DEF Flow, g
  <2>5. f \in Seq(Byte) /\ q \in Seq(Byte)
    BY <1>6
  <2> HIDE DEF h, q, f
  <2>6. (f \o q) \o h = f \o (q \o h)
    BY <2>2, <2>5, Regrouped
  <2> QED
    BY <2>3, <2>4, <2>6, Zenon
<1>12. p'.status[t] = "WAIT" => p'.rx[t].data = << >> /\ p'.need[t] # 0
  <2> SUFFICES ASSUME p'.status[t] = "WAIT" PROVE p'.rx[t].data = << >> /\ p'.need[t] # 0
    OBVIOUS
  <2>1. p'.inside[t] /\ p'.rx[t].data = c.rx[t].data
    BY <1>2, <1>3, <1>5 DEF Went, Copies
  <2>3. Rests(c, t) /\ c.need[t] # 0
    BY <1>2, <1>5, <2>1
  <2>4. p'.need[t] = c.need[t] /\ c.op[t] = "READ"
    BY <1>2, <1>3, <1>5 DEF Went, Copies
  <2> QED
    BY <2>1, <2>3, <2>4 DEF Rests, Reading
<1>13. \/ p'.inside[t] \/ p'.need[t] = 0
       \/ Pollhup(p', t) /\ (Source[t] # FD => Flow(p', t) = << >> /\ p.tx[Source[t]].eof)
  <2> SUFFICES ASSUME ~ p'.inside[t], p'.need[t] # 0
               PROVE  Pollhup(p', t) /\ (Source[t] # FD => Flow(p', t) = << >> /\ p.tx[Source[t]].eof)
    OBVIOUS
  <2>1. Pollhup(c, t) /\ p'.rx = c.rx /\ p'.tx = c.tx
    BY <1>2, <1>5 DEF Went
  <2>4. Pollhup(p', t)
    BY <2>1 DEF Pollhup
  <2> SUFFICES ASSUME Source[t] # FD PROVE Flow(p', t) = << >> /\ p.tx[Source[t]].eof
    BY <2>4
  <2>2. c.rx[t].data = << >> /\ c.tx[Source[t]].data = << >> /\ c.tx[Source[t]].eof
    BY <2>1 DEF Pollhup
  <2>3. Flow(c, t) = << >>
    BY <2>2 DEF Flow
  <2> QED
    BY <1>2, <1>5, <2>2, <2>3 DEF Went
<1>14. p.tx[t].data = << >> => p'.tx[t].data = << >>
  BY <1>2, <1>5 DEF Went, Copies
<1> QED
  BY <1>5, <1>6, <1>7, <1>8, <1>10, <1>11, <1>12, <1>13, <1>14 DEF g

\* vk_write puts bytes at the end of the ring; it ends with all of them.
LEMMA WriteTurn ==
  ASSUME QueueInv, NEW t \in Threads, NEW v \in Byte, WriteAs(t, v)
  PROVE  LET n == p.need[t] - p'.need[t]
         IN /\ Orderly /\ Others(p, p', t) /\ StaysIn(p, p', t)
            /\ n \in Nat /\ p'.need[t] \in Nat /\ (p'.inside[t] \/ p'.need[t] = 0)
            /\ \A r \in Threads : Source[r] # FD =>
                 Flow(p', r) = IF Source[r] = t THEN Flow(p, r) \o Bytes(n, v) ELSE Flow(p, r)
<1> DEFINE n == Smaller(p.need[t], Room(p.tx[t]))
           c == Sent(p, t, v)
<1>1. c = Sent(p, t, v)
  OBVIOUS
<1> HIDE DEF c
<1>2. /\ Own(p, c, t) /\ OwnOK(c, t) /\ (v = msg[t].writes => MovesWithin(c, t))
      /\ c.status = p.status /\ c.op = p.op /\ c.inside = p.inside /\ c.rx = p.rx
      /\ n \in Nat /\ n <= p.need[t] /\ c.need[t] = p.need[t] - n
      /\ c.tx[t].data = p.tx[t].data \o Bytes(n, v) /\ c.tx[t].eof = p.tx[t].eof
      /\ \/ p' = Finish(c, t) /\ c.need[t] = 0
         \/ c.need[t] # 0 /\ Wait(c, t) /\ Rests(c, t)
  BY <1>1, WriteOwn, ZenonT(60)
<1>3. /\ p.status[t] = "RUN" /\ p.inside[t] /\ p.op[t] = "WRITE" /\ phase = "execute"
      /\ UNCHANGED << phase, retry, ended, msg >>
  BY DEF WriteAs, Inside, Active
<1>4. IsProcess(p) /\ p.op[t] \in Program[t] \cup {"NONE"} /\ msg' \in Messages
  BY <1>3 DEF QueueInv, Good, Messages
<1>5. /\ Orderly /\ Others(p, p', t) /\ Went(c, p', t)
      /\ (Wait(c, t) => p'.inside[t]) /\ (p' = Finish(c, t) => ~ p'.inside[t])
  BY <1>2, <1>3, <1>4, GoesOnBears DEF Orderly
<1> HIDE DEF n
<1>7. n = p.need[t] - p'.need[t] /\ p'.need[t] \in Nat
  <2>1. p.need[t] \in Int /\ n \in Int /\ p'.need[t] = p.need[t] - n
    BY <1>2, <1>4, <1>5 DEF Went, Copies, IsProcess
  <2>2. c.need[t] \in Nat
    BY <1>2, BufLenAssumption DEF OwnOK
  <2> QED
    BY <1>2, <2>1, <2>2
<1>8. StaysIn(p, p', t)
  BY <1>2, <1>3, <1>5 DEF StaysIn, Went, Copies
<1>9. p'.inside[t] \/ p'.need[t] = 0
  BY <1>2, <1>5 DEF Went, Copies
<1>10. ASSUME NEW r \in Threads, Source[r] # FD
       PROVE  Flow(p', r) = IF Source[r] = t THEN Flow(p, r) \o Bytes(n, v) ELSE Flow(p, r)
  <2>1. Flow(p', r) = Flow(c, r) /\ Source[r] \in Threads
    BY <1>5, <1>10, PipeAssumption DEF Went, Copies
  <2>2. CASE Source[r] = t
    <3> DEFINE a == p.rx[r].data
               b == p.tx[t].data
               d == Bytes(n, v)
    <3>1. a \in Seq(Byte) /\ b \in Seq(Byte) /\ d \in Seq(Byte)
      BY <1>2, <1>4, BytesOf DEF IsProcess, IsRing
    <3>2. Flow(c, r) = a \o (b \o d)
      BY <1>2, <2>2 DEF Flow
    <3>3. Flow(p, r) = a \o b
      BY <2>2 DEF Flow
    <3> HIDE DEF a, b, d
    <3>4. (a \o b) \o d = a \o (b \o d)
      BY <3>1, Regrouped
    <3> QED
      BY <2>1, <2>2, <3>2, <3>3, <3>4, Zenon DEF d
  <2>3. CASE Source[r] # t
    BY <1>2, <2>1, <2>3 DEF Flow, Own
  <2> QED
    BY <2>2, <2>3
<1> QED
  BY <1>2, <1>5, <1>7, <1>8, <1>9, <1>10

\* Every pipe carries what it carried.
SameFlows(s, u) == \A x \in Threads : Source[x] # FD => Flow(u, x) = Flow(s, x)

\* An operation that needs no byte goes on.
LEMMA TurnGoesOn ==
  ASSUME QueueInv, NEW t \in Threads, p.status[t] = "RUN", p.inside[t],
         p.op[t] # "FORWARD", p' = Finish(p, t) \/ (Wait(p, t) /\ Rests(p, t)),
         phase = "execute", UNCHANGED << phase, retry, ended, msg >>
  PROVE  /\ Orderly /\ Others(p, p', t) /\ Went(p, p', t) /\ SameFlows(p, p')
         /\ (Wait(p, t) => p'.inside[t]) /\ (p' = Finish(p, t) => ~ p'.inside[t])
         /\ Source[t] # FD /\ Sink[t] = FD /\ p.op[t] \in Reading => Dry(p', t)
<1>1. Own(p, p, t) /\ OwnOK(p, t)
  BY OwnSelf DEF QueueInv
<1>2. p.op[t] \in Program[t] \cup {"NONE"} /\ (p.op[t] = "HUP" => Sink[t] # FD) /\ msg' \in Messages
  BY DEF QueueInv, Messages
<1>3. /\ Orderly /\ Others(p, p', t) /\ Went(p, p', t)
      /\ (Wait(p, t) => p'.inside[t]) /\ (p' = Finish(p, t) => ~ p'.inside[t])
      /\ Source[t] # FD /\ Sink[t] = FD /\ p.op[t] \in Reading => Dry(p', t)
  BY <1>1, <1>2, GoesOnBears DEF Orderly
<1> QED
  BY <1>3 DEF Went, Copies, SameFlows

\* vk_flush.
LEMMA FlushTurn ==
  ASSUME QueueInv, NEW t \in Threads, Flush(t)
  PROVE  /\ Orderly /\ Others(p, p', t) /\ StaysIn(p, p', t) /\ SameFlows(p, p')
         /\ p'.need[t] = p.need[t] /\ (p'.inside[t] \/ p'.tx[t].data = << >>)
         /\ p.tx[t].data = << >> => p'.tx[t].data = << >>
<1>1. /\ p.status[t] = "RUN" /\ p.inside[t] /\ p.op[t] = "FLUSH" /\ phase = "execute"
      /\ UNCHANGED << phase, retry, ended, msg >>
  BY DEF Flush, Inside, Active
<1>2. \/ p.tx[t].data = << >> /\ p' = Finish(p, t)
      \/ Wait(p, t) /\ Rests(p, t)
  BY <1>1 DEF Flush, Rests, Reading
<1>3. /\ Orderly /\ Others(p, p', t) /\ Went(p, p', t) /\ SameFlows(p, p')
      /\ (Wait(p, t) => p'.inside[t]) /\ (p' = Finish(p, t) => ~ p'.inside[t])
  BY <1>1, <1>2, TurnGoesOn
<1> QED
  BY <1>1, <1>2, <1>3 DEF Went, Copies, StaysIn

\* vk_pollread takes nothing.
LEMMA PollreadTurn ==
  ASSUME QueueInv, NEW t \in Threads, Pollread(t)
  PROVE  /\ Orderly /\ Others(p, p', t) /\ StaysIn(p, p', t) /\ SameFlows(p, p')
         /\ p'.need[t] = p.need[t]
         /\ p.tx[t].data = << >> => p'.tx[t].data = << >>
         /\ Source[t] # FD /\ Sink[t] = FD => Dry(p', t)
<1>1. /\ p.status[t] = "RUN" /\ p.inside[t] /\ p.op[t] = "POLLREAD" /\ phase = "execute"
      /\ UNCHANGED << phase, retry, ended, msg >>
  BY DEF Pollread, Inside, Active
<1>2. p' = Finish(p, t) \/ (Wait(p, t) /\ Rests(p, t))
  BY <1>1 DEF Pollread, Rests, Writing
<1>3. /\ Orderly /\ Others(p, p', t) /\ Went(p, p', t) /\ SameFlows(p, p')
      /\ (Wait(p, t) => p'.inside[t]) /\ (p' = Finish(p, t) => ~ p'.inside[t])
      /\ Source[t] # FD /\ Sink[t] = FD => Dry(p', t)
  BY <1>1, <1>2, TurnGoesOn DEF Reading
<1> QED
  BY <1>1, <1>2, <1>3 DEF Went, StaysIn

\* vk_forward takes bytes off the front and puts as many at the end; it ends
\* with all of them, or at the end of the stream.
LEMMA ForwardTurn ==
  ASSUME QueueInv, NEW t \in Threads, NEW v \in Byte, ForwardAs(t, v)
  PROVE  \E n \in Nat :
            /\ Orderly /\ Beside(p, p', t) /\ (Sink[t] = FD => Others(p, p', t)) /\ StaysIn(p, p', t)
            /\ p'.need[t] = p.need[t] - n /\ p'.need[t] \in Nat
            /\ \A r \in Threads \ {t} : Source[r] # FD =>
                 Flow(p', r) = IF Source[r] = t THEN Flow(p, r) \o Bytes(n, v) ELSE Flow(p, r)
            /\ Source[t] \notin {FD, t} =>
                 \E f \in Seq(Byte) : Len(f) = n /\ Flow(p, t) = f \o Flow(p', t)
            /\ p'.inside[t] \/ p'.need[t] = 0 \/ (Pollhup(p, t) /\ n = 0)
            /\ Source[t] # FD /\ Sink[t] = FD =>
                 Dry(p', t) /\ (p'.status[t] = "WAIT" /\ ~ p'.blocked_enq[t] => p'.need[t] # 0)
<1> DEFINE n == Smaller(p.need[t], Smaller(Len(p.rx[t].data), Room(p.tx[t])))
           c == Forwarded(p, t, v)
           g == p.rx[t]
           f == SubSeq(g.data, 1, n)
<1>1. c = Forwarded(p, t, v)
  OBVIOUS
<1> HIDE DEF c
<1>2. /\ Own(p, c, t) /\ OwnOK(c, t)
      /\ c.status = p.status /\ c.op = p.op /\ c.inside = p.inside
      /\ n \in Nat /\ n <= p.need[t] /\ n <= Len(g.data) /\ c.need[t] = p.need[t] - n
      /\ c.rx[t] = Pop(g, n)
      /\ c.tx[t].data = p.tx[t].data \o Bytes(n, v) /\ c.tx[t].eof = p.tx[t].eof
      /\ \/ p' = Finish(p, t) /\ (Pollhup(p, t) \/ p.need[t] = 0)
         \/ p' = Finish(c, t) /\ c.need[t] = 0
         \/ p.need[t] # 0 /\ Wait(c, t) /\ Rests(c, t)
  BY <1>1, ForwardOwn, ZenonT(60)
<1>3. /\ p.status[t] = "RUN" /\ p.inside[t] /\ p.op[t] = "FORWARD" /\ phase = "execute"
      /\ UNCHANGED << phase, retry, ended, msg >>
  BY DEF ForwardAs, Inside, Active
<1>4. /\ IsProcess(p) /\ p.op[t] \in Program[t] \cup {"NONE"} /\ msg' \in Messages /\ IsRing(g)
      /\ p.need[t] \in Nat
  BY <1>3, BufLenAssumption DEF QueueInv, Good, IsProcess, Messages
<1>5. ASSUME NEW r \in Threads, Source[r] # FD PROVE Source[r] \in Threads
  BY <1>5, PipeAssumption
<1> HIDE DEF n
<1>6. CASE p' = Finish(p, t) /\ (Pollhup(p, t) \/ p.need[t] = 0)
  <2>1. /\ Orderly /\ Others(p, p', t) /\ Beside(p, p', t) /\ Went(p, p', t) /\ ~ p'.inside[t]
    <3>1. Own(p, p, t) /\ OwnOK(p, t)
      BY <1>3, OwnSelf DEF QueueInv
    <3>2. /\ Orderly /\ Went(p, p', t) /\ ~ p'.inside[t]
      BY <1>3, <1>4, <1>6, <3>1, GoesOnBeside DEF Orderly
    <3>3. Own(p, p', t)
      BY <1>3, <1>6, FinishOwn DEF QueueInv
    <3> QED
      BY <3>2, <3>3, OwnOthers DEF Others
  <2>2. p'.need[t] = p.need[t] - 0 /\ p'.need[t] \in Nat
    BY <1>4, <2>1 DEF Went
  <2>3. Bytes(0, v) = << >>
    BY DEF Bytes
  <2>4. ASSUME NEW r \in Threads, Source[r] # FD PROVE Flow(p, r) \in Seq(Byte) /\ Flow(p', r) = Flow(p, r)
    <3>1. p.rx[r].data \in Seq(Byte) /\ p.tx[Source[r]].data \in Seq(Byte)
      BY <1>4, <1>5, <2>4 DEF IsProcess, IsRing
    <3>2. Flow(p, r) \in Seq(Byte)
      BY <3>1 DEF Flow
    <3> QED
      BY <2>1, <2>4, <3>2 DEF Went
  <2>5. ASSUME NEW r \in Threads, Source[r] # FD PROVE Flow(p, r) \o << >> = Flow(p, r) /\ << >> \o Flow(p, r) = Flow(p, r)
    <3> HIDE DEF Flow
    <3> QED
      BY <2>4, <2>5
  <2>6. << >> \in Seq(Byte) /\ Len(<< >>) = 0
    OBVIOUS
  <2>7. StaysIn(p, p', t) /\ Dry(p', t) /\ p'.status[t] # "WAIT"
    BY <1>3, <2>1 DEF StaysIn, Went, Dry
  <2> HIDE DEF Flow, Bytes
  <2>8. \A r \in Threads \ {t} : Source[r] # FD =>
          Flow(p', r) = IF Source[r] = t THEN Flow(p, r) \o Bytes(0, v) ELSE Flow(p, r)
    BY <2>3, <2>4, <2>5
  <2>9. Source[t] \notin {FD, t} => \E e \in Seq(Byte) : Len(e) = 0 /\ Flow(p, t) = e \o Flow(p', t)
    BY <2>4, <2>5, <2>6
  <2>10. 0 \in Nat
    OBVIOUS
  <2> WITNESS 0 \in Nat
  <2> QED
    BY <1>6, <2>1, <2>2, <2>7, <2>8, <2>9, <2>10
<1>7. CASE (p' = Finish(c, t) /\ c.need[t] = 0) \/ (p.need[t] # 0 /\ Wait(c, t) /\ Rests(c, t))
  <2>1. /\ Orderly /\ Beside(p, p', t) /\ (~ Copies(c, t) => Others(p, p', t)) /\ Went(c, p', t)
        /\ (Wait(c, t) => p'.inside[t]) /\ (p' = Finish(c, t) => ~ p'.inside[t])
        /\ Source[t] # FD /\ Sink[t] = FD => Dry(p', t)
    BY <1>2, <1>3, <1>4, <1>7, GoesOnBeside DEF Orderly
  <2>2. Sink[t] = FD => Others(p, p', t)
    BY <2>1 DEF Copies
  <2>3. /\ f \in Seq(Byte) /\ Len(f) = n /\ f \o c.rx[t].data = g.data /\ c.rx[t].data \in Seq(Byte)
        /\ Bytes(n, v) \in Seq(Byte) /\ Len(Bytes(n, v)) = n
    <3>1. g.data \in Seq(Byte) /\ n \in 0 .. Len(g.data)
      BY <1>2, <1>4 DEF IsRing
    <3> QED
      BY <1>2, <1>4, <3>1, PopBytes, FirstBytes, BytesOf
  <2> HIDE DEF f
  <2>4. p'.need[t] = p.need[t] - n /\ p'.need[t] \in Nat
    <3>1. p'.need[t] = p.need[t] - n
      BY <1>2, <1>4, <2>1 DEF Went
    <3>2. c.need[t] \in Nat
      BY <1>2, BufLenAssumption DEF OwnOK
    <3> QED
      BY <1>2, <3>1, <3>2
  <2>5. StaysIn(p, p', t)
    BY <1>2, <1>3, <2>1 DEF StaysIn, Went
  <2>6. ASSUME NEW r \in Threads \ {t}, Source[r] # FD
        PROVE  Flow(p', r) = IF Source[r] = t THEN Flow(p, r) \o Bytes(n, v) ELSE Flow(p, r)
    <3>1. Flow(p', r) = Flow(c, r) /\ Source[r] \in Threads /\ c.rx[r] = p.rx[r]
      BY <1>2, <1>5, <2>1, <2>6 DEF Went, Own
    <3>2. CASE Source[r] = t
      <4> DEFINE a == p.rx[r].data
                 b == p.tx[t].data
                 d == Bytes(n, v)
      <4>1. a \in Seq(Byte) /\ b \in Seq(Byte) /\ d \in Seq(Byte)
        BY <1>4, <2>3 DEF IsProcess, IsRing
      <4>2. Flow(c, r) = a \o (b \o d)
        BY <1>2, <3>1, <3>2 DEF Flow
      <4>3. Flow(p, r) = a \o b
        BY <3>2 DEF Flow
      <4> HIDE DEF a, b, d
      <4>4. (a \o b) \o d = a \o (b \o d)
        BY <4>1, Regrouped
      <4> QED
        BY <3>1, <3>2, <4>2, <4>3, <4>4, Zenon DEF d
    <3>3. CASE Source[r] # t
      BY <1>2, <3>1, <3>3 DEF Flow, Own
    <3> QED
      BY <3>2, <3>3
  <2>7. ASSUME Source[t] \notin {FD, t} PROVE Flow(p, t) = f \o Flow(p', t)
    <3>1. Source[t] \in Threads
      BY <1>5, <2>7
    <3> DEFINE h == p.tx[Source[t]].data
               q == c.rx[t].data
    <3>2. h \in Seq(Byte) /\ c.tx[Source[t]] = p.tx[Source[t]]
      BY <1>2, <1>4, <2>7, <3>1 DEF IsProcess, IsRing, Own
    <3>3. Flow(p', t) = q \o h
      BY <2>1, <2>7, <3>2 DEF Went, Flow
    <3>4. Flow(p, t) = (f \o q) \o h
      BY <2>3 DEF Flow
    <3>5. f \in Seq(Byte) /\ q \in Seq(Byte)
      BY <2>3
    <3> HIDE DEF h, q
    <3>6. (f \o q) \o h = f \o (q \o h)
      BY <3>2, <3>5, Regrouped
    <3> QED
      BY <3>3, <3>4, <3>6, Zenon
  <2>8. p'.inside[t] \/ p'.need[t] = 0
    BY <1>7, <2>1 DEF Went
  <2>9. ASSUME Source[t] # FD, Sink[t] = FD, p'.status[t] = "WAIT", ~ p'.blocked_enq[t]
        PROVE  p'.need[t] # 0
    <3> SUFFICES ASSUME p'.need[t] = 0 PROVE FALSE
      OBVIOUS
    <3>1. p'.tx[t].data = << >> /\ p'.tx[t].data = c.tx[t].data
      BY <2>1, <2>9 DEF Dry, Went, Copies
    <3>5. p.need[t] # 0
      BY <1>7, <2>1, <2>9 DEF Went
    <3>2. n = p.need[t] /\ n # 0
      BY <1>2, <1>4, <2>4, <3>5
    <3> DEFINE b == p.tx[t].data
               d == Bytes(n, v)
    <3>3. b \in Seq(Byte) /\ d \in Seq(Byte) /\ Len(d) = n /\ b \o d = << >>
      BY <1>2, <1>4, <2>3, <3>1 DEF IsProcess, IsRing
    <3> HIDE DEF b, d
    <3>4. Len(b \o d) = Len(b) + Len(d) /\ Len(b) \in Nat /\ Len(<< >>) = 0
      BY <3>3
    <3> QED
      BY <1>2, <3>2, <3>3, <3>4
  <2> HIDE DEF Flow
  <2> QED
    BY <1>2, <2>1, <2>2, <2>3, <2>4, <2>5, <2>6, <2>7, <2>8, <2>9
<1> QED
  BY <1>2, <1>6, <1>7

\* vk_hup, whose pipe nothing is left on and no EOF marks.
LEMMA HupTurn ==
  ASSUME QueueInv, NEW t \in Threads, Hup(t), ~ p.tx[t].eof
  PROVE  /\ Orderly /\ Others(p, p', t) /\ SameFlows(p, p')
         /\ p'.op[t] = "HUP" /\ p'.inside[t] /\ p'.status[t] \in {"RUN", "WAIT"}
         /\ p'.tx[t].data = << >> /\ p'.tx[t].eof
<1>1. Good(p) /\ IsProcess(p) /\ msg' \in Messages
  BY DEF QueueInv, Good, Messages, Hup
<1>2. /\ p.status[t] = "RUN" /\ ~ p.inside[t] /\ phase = "execute"
      /\ "HUP" \in Program[t] /\ Sink[t] # FD /\ p.tx[t].data = << >>
  BY DEF Hup, Between, Active
<1>3. UNCHANGED << phase, retry, ended, msg >>
  BY DEF Hup
<1> DEFINE g == SetEof(p.tx[t], TRUE)
           c == [p EXCEPT !.tx[t] = SetEof(@, TRUE), !.op[t] = "HUP", !.need[t] = 1, !.inside[t] = TRUE]
<1>4. Wait(c, t)
  BY DEF Hup
<1>5. g = SetEof(p.tx[t], TRUE) /\ c = [p EXCEPT !.tx[t] = g, !.op[t] = "HUP", !.need[t] = 1, !.inside[t] = TRUE]
  BY <1>1 DEF IsProcess
<1> HIDE DEF c, g
<1>6. IsRing(g) /\ g.data = p.tx[t].data /\ g.eof
  <2>1. IsRing(p.tx[t])
    BY <1>1 DEF IsProcess
  <2> QED
    BY <1>5, <2>1, MarkEof
<1>7. /\ DOMAIN c = DOMAIN p /\ c.status = p.status /\ c.rx = p.rx
      /\ c.op[t] = "HUP" /\ c.need[t] = 1 /\ c.tx[t] = g
      /\ DOMAIN c.op = Threads /\ DOMAIN c.need = Threads /\ DOMAIN c.inside = Threads /\ DOMAIN c.tx = Threads
      /\ \A x \in Threads \ {t} : c.op[x] = p.op[x] /\ c.need[x] = p.need[x] /\ c.tx[x] = p.tx[x]
  BY <1>1, <1>5 DEF IsProcess
<1>8. /\ c.run_q = p.run_q /\ c.run_enq = p.run_enq /\ c.run = p.run
      /\ c.blocked_q = p.blocked_q /\ c.blocked_enq = p.blocked_enq /\ c.blocked = p.blocked
      /\ c.running = p.running /\ c.closed = p.closed
  BY <1>1, <1>5 DEF IsProcess
<1>9. c.inside[t] = TRUE
  BY <1>1, <1>5 DEF IsProcess
<1>10. \A x \in Threads \ {t} : c.inside[x] = p.inside[x]
  BY <1>1, <1>5 DEF IsProcess
<1>11. Own(p, c, t)
  BY <1>1, <1>7, <1>8, <1>10 DEF Own, IsProcess
<1>12. 1 \in 0 .. MaxLen
  BY BufLenAssumption
<1>13. OwnOK(c, t)
  BY <1>1, <1>2, <1>6, <1>7, <1>9, <1>12 DEF OwnOK, IsProcess, Ops
<1>14. Rests(c, t)
  BY <1>7 DEF Rests, Reading, Writing
<1>15. /\ Orderly /\ Others(p, p', t) /\ Went(c, p', t) /\ p'.inside[t]
  <2>1. c.op[t] \in (Program[t] \cup {"NONE"}) \ {"FORWARD"}
    BY <1>2, <1>7
  <2>2. c.status[t] = "RUN" /\ c.inside[t] /\ (c.op[t] = "HUP" => Sink[t] # FD)
    BY <1>2, <1>7, <1>9
  <2> QED
    BY <1>1, <1>2, <1>3, <1>4, <1>11, <1>13, <1>14, <2>1, <2>2, GoesOnBears DEF Orderly
<1>16. SameFlows(p, p')
  <2>1. \A x \in Threads : c.rx[x] = p.rx[x] /\ c.tx[x].data = p.tx[x].data
    BY <1>6, <1>7
  <2>2. \A x \in Threads : Source[x] # FD => Source[x] \in Threads
    BY PipeAssumption
  <2> QED
    BY <1>15, <2>1, <2>2 DEF Went, Copies, SameFlows, Flow
<1> QED
  BY <1>2, <1>6, <1>7, <1>15, <1>16 DEF Went, Copies

\* t has one field changed, its need.
LEMMA NeedOwn ==
  ASSUME Good(p), NEW t \in Threads, p.status[t] = "RUN", NEW c, c = [p EXCEPT !.need[t] = 0]
  PROVE  /\ Own(p, c, t) /\ OwnOK(c, t) /\ c.need[t] = 0
         /\ c.status = p.status /\ c.op = p.op /\ c.inside = p.inside /\ c.rx = p.rx /\ c.tx = p.tx
<1>1. IsProcess(p)
  BY DEF Good
<1>2. /\ DOMAIN c = DOMAIN p /\ c.status = p.status /\ c.rx = p.rx /\ c.tx = p.tx /\ c.op = p.op
      /\ c.inside = p.inside /\ c.need[t] = 0 /\ DOMAIN c.need = Threads
      /\ \A x \in Threads \ {t} : c.need[x] = p.need[x]
  BY <1>1 DEF IsProcess
<1>3. /\ c.run_q = p.run_q /\ c.run_enq = p.run_enq /\ c.run = p.run
      /\ c.blocked_q = p.blocked_q /\ c.blocked_enq = p.blocked_enq /\ c.blocked = p.blocked
      /\ c.running = p.running /\ c.closed = p.closed
  BY <1>1 DEF IsProcess
<1>4. Own(p, c, t)
  BY <1>1, <1>2, <1>3 DEF Own, IsProcess
<1>5. 0 \in 0 .. MaxLen
  BY BufLenAssumption
<1>6. OwnOK(c, t)
  BY <1>1, <1>2, <1>5 DEF OwnOK, IsProcess
<1> QED
  BY <1>2, <1>4, <1>6

\* vk_hup waits for the reader.
LEMMA HupReturnsTurn ==
  ASSUME QueueInv, NEW t \in Threads, HupReturns(t)
  PROVE  /\ Orderly /\ Others(p, p', t) /\ StaysIn(p, p', t) /\ SameFlows(p, p')
         /\ p.tx[t].data = << >> => p'.tx[t].data = << >>
         /\ p.tx[t].eof => p'.inside[t]
<1>1. Good(p) /\ msg \in Messages /\ p.op[t] \in Program[t] \cup {"NONE"}
  BY DEF QueueInv, Messages
<1>2. p.status[t] = "RUN" /\ p.inside[t] /\ phase = "execute" /\ p.op[t] = "HUP"
  BY DEF HupReturns, Inside, Active
<1>3. UNCHANGED << phase, retry, ended >> /\ Sink[t] # FD
  BY <1>2 DEF HupReturns, QueueInv
<1>4. CASE p.tx[t].eof
  <2>1. Wait(p, t) /\ UNCHANGED msg /\ Rests(p, t)
    BY <1>2, <1>4 DEF HupReturns, Rests, Reading, Writing
  <2>2. /\ Orderly /\ Others(p, p', t) /\ Went(p, p', t) /\ SameFlows(p, p')
        /\ (Wait(p, t) => p'.inside[t])
    BY <1>2, <1>3, <2>1, TurnGoesOn
  <2> QED
    BY <1>2, <2>1, <2>2 DEF Went, Copies, StaysIn
<1>5. CASE ~ p.tx[t].eof
  <2> DEFINE c == [p EXCEPT !.need[t] = 0]
  <2>1. p' = Finish(c, t) /\ msg' = [msg EXCEPT ![t].writes = 1 - @]
    BY <1>5 DEF HupReturns
  <2>2. c = [p EXCEPT !.need[t] = 0]
    OBVIOUS
  <2> HIDE DEF c
  <2>3. /\ Own(p, c, t) /\ OwnOK(c, t) /\ c.need[t] = 0
        /\ c.status = p.status /\ c.op = p.op /\ c.inside = p.inside /\ c.rx = p.rx /\ c.tx = p.tx
    BY <1>1, <1>2, <2>2, NeedOwn
  <2>4. msg' \in Messages
    BY <1>1, <2>1, NextWrittenIs DEF NextWritten
  <2>5. /\ Orderly /\ Others(p, p', t) /\ Went(c, p', t)
    <3>1. c.op[t] \in (Program[t] \cup {"NONE"}) \ {"FORWARD"}
      BY <1>1, <1>2, <2>3
    <3>2. c.status[t] = "RUN" /\ c.inside[t] /\ (c.op[t] = "HUP" => Sink[t] # FD)
      BY <1>2, <1>3, <2>3
    <3> QED
      BY <1>2, <1>3, <2>1, <2>3, <2>4, <3>1, <3>2, GoesOnBears DEF Orderly
  <2> QED
    BY <1>2, <1>5, <2>3, <2>5 DEF Went, Copies, StaysIn, SameFlows, Flow
<1> QED
  BY <1>4, <1>5

\* vk_tx_close is attempted, and then over.
LEMMA TxCloseTurn ==
  ASSUME QueueInv, NEW t \in Threads, TxClose(t)
  PROVE  /\ Orderly /\ Others(p, p', t) /\ SameFlows(p, p')
         /\ p'.op[t] = "TX_CLOSE" /\ p'.status[t] = "RUN" /\ p'.need[t] = 0
         /\ Sink[t] = FD => p'.tx[t].eof = p.tx[t].eof /\ (p.need[t] # 0 => p'.closed[t])
         /\ p.tx[t].data = << >> => p'.tx[t].data = << >>
<1>1. Good(p) /\ msg \in Messages /\ p.op[t] \in Program[t] \cup {"NONE"}
  BY DEF QueueInv, Messages
<1>2. p.status[t] = "RUN" /\ p.inside[t] /\ phase = "execute" /\ p.op[t] = "TX_CLOSE"
  BY DEF TxClose, Inside, Active
<1>3. UNCHANGED << phase, retry, ended >>
  BY DEF TxClose
<1>4. CASE p.need[t] = 0
  <2>1. p' = Finish(p, t) /\ UNCHANGED msg
    BY <1>4 DEF TxClose
  <2>2. /\ Orderly /\ Others(p, p', t) /\ Went(p, p', t) /\ SameFlows(p, p')
        /\ (p' = Finish(p, t) => ~ p'.inside[t])
    BY <1>2, <1>3, <2>1, TurnGoesOn
  <2> QED
    BY <1>2, <1>4, <2>1, <2>2 DEF Went, Copies
<1>5. CASE p.need[t] # 0
  <2> DEFINE c == [p EXCEPT !.need[t] = 0]
  <2>1. Wait(c, t)
    BY <1>5 DEF TxClose
  <2>2. c = [p EXCEPT !.need[t] = 0]
    OBVIOUS
  <2> HIDE DEF c
  <2>3. /\ Own(p, c, t) /\ OwnOK(c, t) /\ c.need[t] = 0
        /\ c.status = p.status /\ c.op = p.op /\ c.inside = p.inside /\ c.rx = p.rx /\ c.tx = p.tx
    BY <1>1, <1>2, <2>2, NeedOwn
  <2>4. msg' \in Messages
    <3>1. msg' = msg \/ msg' = [msg EXCEPT ![t].writes = 1 - @]
      BY DEF TxClose
    <3> QED
      BY <1>1, <3>1, NextWrittenIs DEF NextWritten
  <2>5. Rests(c, t)
    BY <1>2, <2>3 DEF Rests, Reading, Writing
  <2>6. /\ Orderly /\ Others(p, p', t) /\ Went(c, p', t) /\ (Wait(c, t) => p'.inside[t])
    <3>1. c.op[t] \in (Program[t] \cup {"NONE"}) \ {"FORWARD"}
      BY <1>1, <1>2, <2>3
    <3>2. c.status[t] = "RUN" /\ c.inside[t] /\ (c.op[t] = "HUP" => Sink[t] # FD)
      BY <1>2, <2>3
    <3> QED
      BY <1>2, <1>3, <2>1, <2>3, <2>4, <2>5, <3>1, <3>2, GoesOnBears DEF Orderly
  <2> QED
    BY <1>2, <2>1, <2>3, <2>6 DEF Went, Copies, SameFlows, Flow
<1> QED
  BY <1>4, <1>5

\* The EOF goes through both rings.
LEMMA ReadhupBears ==
  ASSUME NEW s, Good(s), NEW t \in Threads, s.status[t] = "RUN", Source[t] # FD, s.tx[Source[t]].eof,
         NEW u, u = Hungup(s, t)
  PROVE  Bears(s, u, t)
<1> DEFINE w == Source[t]
           g == SetEof(s.tx[w], FALSE)
           h == SetEof(s.rx[t], TRUE)
           c == [s EXCEPT !.tx[w] = g]
           a == [c EXCEPT !.rx[t] = h]
           b == EnqueueRead(a, t)
           d == EnqueueReadWriter(b, t)
           e == HandleBlock(d, t)
           k == SetEof(e.rx[t], FALSE)
<1>1. w \in Threads
  BY PipeAssumption
<1>2. IsProcess(s) /\ IsRing(s.tx[w]) /\ IsRing(s.rx[t])
  BY <1>1 DEF Good, IsProcess
<1>3. e = HandleReadhup(s, t)
  <2>1. a = [s EXCEPT !.tx[w] = g, !.rx[t] = h]
    OBVIOUS
  <2> HIDE DEF a
  <2>2. s.tx[w].eof
    OBVIOUS
  <2> QED
    BY <2>1, <2>2 DEF HandleReadhup
<1>4. u = WithRx(e, t, k)
  BY <1>3 DEF Hungup, WithRx
<1>5. c = WithTx(s, w, g) /\ a = WithRx(c, t, h)
  BY DEF WithRx, WithTx
<1>16. b = EnqueueRead(a, t) /\ d = EnqueueReadWriter(b, t) /\ e = HandleBlock(d, t)
  OBVIOUS
<1>17. IsRing(g) /\ g.data = s.tx[w].data
  BY <1>2, DrainEof
<1>6. IsRing(h) /\ h.data = s.rx[t].data
  BY <1>2, MarkEof
<1> HIDE DEF g, h, c, a, b, d, e, w
<1>7. IsRing(e.rx[t]) => IsRing(k) /\ k.data = e.rx[t].data
  BY DrainEof
<1> HIDE DEF k
<1>8. /\ Good(c) /\ SameQueues(s, c) /\ c.rx = s.rx /\ c.tx[w] = g
      /\ \A y \in Threads \ {w} : c.tx[y] = s.tx[y]
  BY <1>1, <1>5, <1>17, SetTx
<1>9. /\ Good(a) /\ SameQueues(c, a) /\ a.tx = c.tx /\ a.rx[t] = h
      /\ \A y \in Threads \ {t} : a.rx[y] = c.rx[y]
  BY <1>5, <1>6, <1>8, SetRx
<1>10. \A r \in Threads : Source[r] # FD => Source[r] \in Threads
  BY PipeAssumption
<1>11. Bears(s, a, t)
  <2>1. \A x \in Threads : a.rx[x].data = s.rx[x].data /\ a.tx[x].data = s.tx[x].data
    BY <1>6, <1>8, <1>9, <1>17
  <2> QED
    BY <1>8, <1>9, <1>10, <2>1 DEF Bears, Flow, SameQueues
<1>12. Good(b) /\ Bears(a, b, t)
  BY <1>16, <1>9, EnqueueReadWakes, EnqueueReadBears DEF Waked
<1>13. Good(d) /\ Bears(b, d, t)
  BY <1>16, <1>12, EnqueueReadWriterWakes, EnqueueReadWriterBears DEF Waked
<1>14. Good(e) /\ Bears(d, e, t)
  <2>1. Steady(a, b, t) /\ Steady(b, d, t)
    BY <1>16, <1>9, <1>12, EnqueueReadWakes, EnqueueReadWriterWakes DEF Waked
  <2>2. d.status[t] # "END"
    BY <1>8, <1>9, <2>1 DEF Steady, SameQueues
  <2> QED
    BY <1>16, <1>13, <2>2, HandleBlockQuiet, HandleBlockBears DEF Quiet
<1>15. Bears(e, u, t)
  <2>1. IsRing(k) /\ k.data = e.rx[t].data
    BY <1>7, <1>14 DEF Good, IsProcess
  <2>2. /\ SameQueues(e, u) /\ u.tx = e.tx /\ u.rx[t] = k
        /\ \A y \in Threads \ {t} : u.rx[y] = e.rx[y]
    BY <1>4, <1>14, <2>1, SetRx
  <2>3. \A x \in Threads : u.rx[x].data = e.rx[x].data
    BY <2>1, <2>2
  <2> QED
    BY <1>10, <2>2, <2>3 DEF Bears, Flow, SameQueues
<1> QED
  BY <1>11, <1>12, <1>13, <1>14, <1>15, BearsTransitive

\* vk_readhup, when there is nothing left to read.
LEMMA ReadhupTurn ==
  ASSUME QueueInv, NEW t \in Threads, Readhup(t), Pollhup(p, t)
  PROVE  /\ Orderly /\ SameFlows(p, p')
         /\ \A x \in Threads \ {t} : /\ Undisturbed(p, p', x)
                                     /\ p'.status[x] = p.status[x] \/ p'.run_enq[x]
                                     /\ p.run_enq[x] => p'.run_enq[x]
                                     /\ p.blocked_enq[x] => p'.blocked_enq[x]
         /\ \A x \in Threads : p.closed[x] => p'.closed[x]
         /\ p'.running = p.running
         /\ ~ p'.tx[Source[t]].eof /\ \A x \in Threads \ {Source[t]} : p'.tx[x].eof = p.tx[x].eof
         /\ p'.op[t] = p.op[t] /\ p'.need[t] = p.need[t] /\ p'.inside[t] = p.inside[t]
         /\ p'.status[t] = "RUN"
         /\ p.tx[t].data = << >> => p'.tx[t].data = << >>
<1>1. Good(p) /\ p.status[t] = "RUN" /\ Source[t] # FD
  BY DEF QueueInv, Readhup, Between, Active
<1>2. p' = Hungup(p, t)
  BY DEF Readhup, Hungup
<1>3. p.tx[Source[t]].eof
  BY <1>1 DEF Pollhup
<1>4. Orderly
  BY ReadhupKeeps DEF Keeps, Orderly
<1>5. /\ Shift(p, p', t) /\ Noticed(p, p') /\ ~ p'.tx[Source[t]].eof
      /\ \A x \in Threads \ {Source[t]} : p'.tx[x].eof = p.tx[x].eof
  BY <1>1, <1>2, <1>3, ReadhupShift
<1>6. Bears(p, p', t)
  BY <1>1, <1>2, <1>3, ReadhupBears
<1>7. Steady(p, p', t)
  BY <1>5 DEF Shift
<1>8. p'.status[t] = "RUN" /\ p'.running = p.running
  BY <1>1, <1>7 DEF Steady
<1>9. ASSUME NEW x \in Threads \ {t}
      PROVE  /\ Undisturbed(p, p', x)
             /\ p'.status[x] = p.status[x] \/ p'.run_enq[x]
             /\ p.run_enq[x] => p'.run_enq[x]
             /\ p.blocked_enq[x] => p'.blocked_enq[x]
  BY <1>5, <1>6, <1>7 DEF Undisturbed, Stays, Steady, Bears, Noticed
<1> QED
  BY <1>4, <1>5, <1>6, <1>7, <1>8, <1>9 DEF Steady, Bears, SameFlows

----------------------------------------------------------------------------
(* Steps without an attempt *)

\* s has the parts a process has.
HasParts(s) ==
  /\ DOMAIN s = {"run_q", "run_enq", "run", "blocked_q", "blocked_enq", "blocked", "running",
                 "status", "op", "need", "inside", "closed", "rx", "tx"}
  /\ DOMAIN s.run_enq = Threads /\ DOMAIN s.blocked_enq = Threads

\* Everybody's rings and place are as they were.
SamePlace(s, u) ==
  /\ u.op = s.op /\ u.need = s.need /\ u.inside = s.inside /\ u.rx = s.rx /\ u.tx = s.tx
  /\ u.closed = s.closed

\* A coroutine leaves a queue.
LEMMA DropLeaves ==
  ASSUME NEW s, HasParts(s), NEW t \in Threads
  PROVE  /\ \A u : u = DropBlocked(s, t) => /\ HasParts(u) /\ SamePlace(s, u) /\ u.running = s.running
                                            /\ u.status = s.status /\ u.run_enq = s.run_enq
                                            /\ \A x \in Threads \ {t} : u.blocked_enq[x] = s.blocked_enq[x]
         /\ \A u : u = DropRun(s, t) => /\ SamePlace(s, u) /\ u.running = s.running /\ u.status = s.status
                                        /\ \A x \in Threads \ {t} : u.run_enq[x] = s.run_enq[x]
                                        /\ u.blocked_enq = s.blocked_enq
<1>1. ASSUME NEW u, u = DropBlocked(s, t)
      PROVE  /\ HasParts(u) /\ SamePlace(s, u) /\ u.running = s.running
             /\ u.status = s.status /\ u.run_enq = s.run_enq
             /\ \A x \in Threads \ {t} : u.blocked_enq[x] = s.blocked_enq[x]
  BY <1>1 DEF DropBlocked, HasParts, SamePlace
<1>2. ASSUME NEW u, u = DropRun(s, t)
      PROVE  /\ SamePlace(s, u) /\ u.running = s.running /\ u.status = s.status
             /\ \A x \in Threads \ {t} : u.run_enq[x] = s.run_enq[x]
             /\ u.blocked_enq = s.blocked_enq
  BY <1>2 DEF DropRun, HasParts, SamePlace
<1> QED
  BY <1>1, <1>2

\* An operation begins, and is not refused.
LEMMA BeginTurn ==
  ASSUME QueueInv, NEW t \in Threads, NEW o \in Ops \ {"HUP"}, NEW n \in 0 .. MaxLen, Begin(t, o, n),
         o = "TX_CLOSE" => n # 0, o = "WRITE" => ~ p.tx[t].eof
  PROVE  /\ Orderly /\ Others(p, p', t)
         /\ p'.op[t] = o /\ p'.need[t] = n /\ p'.inside[t] /\ p'.status[t] = "RUN"
         /\ p'.rx = p.rx /\ p'.tx = p.tx /\ p'.closed = p.closed
<1>1. IsProcess(p) /\ p.status[t] = "RUN" /\ phase = "execute" /\ UNCHANGED << phase, retry, ended, msg >>
  BY DEF QueueInv, Good, Begin, Between, Active
<1>2. Orderly
  BY <1>1, BeginAlone, AloneQueue, AloneSleep DEF Orderly
<1>3. p' = [p EXCEPT !.op[t] = o, !.need[t] = n, !.inside[t] = TRUE]
  BY DEF Begin
<1>4. /\ p'.op[t] = o /\ p'.need[t] = n /\ p'.inside[t] /\ p'.status = p.status
      /\ p'.rx = p.rx /\ p'.tx = p.tx /\ p'.closed = p.closed /\ p'.running = p.running
      /\ p'.run_enq = p.run_enq /\ p'.blocked_enq = p.blocked_enq
      /\ \A x \in Threads \ {t} : p'.op[x] = p.op[x] /\ p'.need[x] = p.need[x]
  BY <1>1, <1>3 DEF IsProcess
<1>5. \A x \in Threads \ {t} : p'.inside[x] = p.inside[x]
  BY <1>1, <1>3 DEF IsProcess
<1>6. Others(p, p', t)
  BY <1>4, <1>5 DEF Others, Beside, Undisturbed, Stays
<1> QED
  BY <1>1, <1>2, <1>4, <1>6

\* vk_raise between two operations.
LEMMA RaiseTurn ==
  ASSUME QueueInv, NEW t \in Threads, p.status[t] = "RUN", ~ p.inside[t], p' = Raise(p, t),
         phase = "execute", UNCHANGED << phase, retry, ended, msg >>
  PROVE  Orderly /\ Others(p, p', t) /\ SamePlace(p, p') /\ p'.status[t] = "ERR"
<1>1. Orderly
  BY RaiseAlone, AloneQueue, AloneSleep DEF Orderly
<1> DEFINE a == EnqueueRun(p, t)
<1>2. p' = [a EXCEPT !.status[t] = "ERR"] /\ a = EnqueueRun(p, t)
  BY DEF Raise
<1> HIDE DEF a
<1>3. Quiet(p, a, t) /\ Bears(p, a, t) /\ a.closed = p.closed /\ a.running = p.running
      /\ \A y \in Threads \ {t} : a.status[y] = p.status[y]
  BY <1>2, EnqueueRunQuiet, EnqueueRunBears DEF QueueInv
<1>4. IsProcess(a)
  BY <1>3 DEF Quiet, Good
<1>5. /\ p'.status[t] = "ERR" /\ \A y \in Threads \ {t} : p'.status[y] = a.status[y]
      /\ p'.rx = a.rx /\ p'.tx = a.tx /\ p'.closed = a.closed /\ p'.running = a.running
      /\ p'.run_enq = a.run_enq /\ p'.op = a.op /\ p'.need = a.need /\ p'.inside = a.inside
      /\ p'.blocked_enq = a.blocked_enq
  BY <1>2, <1>4 DEF IsProcess
<1>6. SamePlace(p, p')
  BY <1>3, <1>5 DEF SamePlace, Quiet, Steady
<1>7. \A x \in Threads : p.blocked_enq[x] => p'.blocked_enq[x]
  BY <1>3, <1>5 DEF Quiet, Steady
<1> QED
  BY <1>1, <1>3, <1>5, <1>6, <1>7 DEF Others, Beside, Undisturbed, Stays, SamePlace, Bears

\* vk_finally.
LEMMA FinallyTurn ==
  ASSUME QueueInv, NEW t \in Threads, Finally(t)
  PROVE  /\ Orderly /\ Others(p, p', t) /\ p'.status[t] = "RUN" /\ ~ p'.inside[t]
         /\ p'.op = p.op /\ p'.need = p.need /\ p'.rx = p.rx /\ p'.tx = p.tx /\ p'.closed = p.closed
<1>1. IsProcess(p) /\ phase = "execute" /\ UNCHANGED << phase, retry, ended, msg >>
  BY DEF QueueInv, Good, Finally
<1>2. Orderly
  BY <1>1, FinallyAlone, AloneQueue, AloneSleep DEF Orderly
<1>3. p' = [p EXCEPT !.status[t] = "RUN", !.inside[t] = FALSE]
  BY DEF Finally
<1>4. /\ p'.status[t] = "RUN" /\ \A x \in Threads \ {t} : p'.status[x] = p.status[x]
      /\ p'.op = p.op /\ p'.need = p.need /\ p'.rx = p.rx /\ p'.tx = p.tx /\ p'.closed = p.closed
      /\ p'.running = p.running /\ p'.run_enq = p.run_enq /\ p'.blocked_enq = p.blocked_enq
  BY <1>1, <1>3 DEF IsProcess
<1>5. ~ p'.inside[t]
  BY <1>1, <1>3 DEF IsProcess
<1>6. \A x \in Threads \ {t} : p'.inside[x] = p.inside[x]
  BY <1>1, <1>3 DEF IsProcess
<1> QED
  BY <1>2, <1>4, <1>5, <1>6 DEF Others, Beside, Undisturbed, Stays

\* vk_end.
LEMMA EndTurn ==
  ASSUME QueueInv, NEW t \in Threads, End(t)
  PROVE  Orderly /\ Others(p, p', t) /\ SamePlace(p, p') /\ p'.status[t] = "END"
<1>1. IsProcess(p) /\ phase = "execute" /\ UNCHANGED << phase, retry, ended, msg >>
  BY DEF QueueInv, Good, End, Between, Active
<1>2. Orderly
  BY <1>1, EndAlone, AloneQueue, AloneSleep DEF Orderly
<1> DEFINE c == [p EXCEPT !.status[t] = "END"]
           d == DropBlockedFor(c, t)
<1>3. p' = IF d.run_enq[t] THEN DropRun(d, t) ELSE d
  BY DEF End
<1>4. /\ HasParts(c) /\ SamePlace(p, c) /\ c.running = p.running /\ c.run_enq = p.run_enq
      /\ c.blocked_enq = p.blocked_enq
      /\ c.status[t] = "END" /\ \A x \in Threads \ {t} : c.status[x] = p.status[x]
  BY <1>1 DEF IsProcess, HasParts, SamePlace
<1>5. d = c \/ d = DropBlocked(c, t)
  BY DEF DropBlockedFor
<1> HIDE DEF c, d
<1>6. /\ HasParts(d) /\ SamePlace(c, d) /\ d.running = c.running /\ d.run_enq = c.run_enq
      /\ d.status = c.status /\ \A x \in Threads \ {t} : d.blocked_enq[x] = c.blocked_enq[x]
  BY <1>4, <1>5, DropLeaves DEF SamePlace
<1>7. /\ SamePlace(d, p') /\ p'.running = d.running /\ p'.status = d.status
      /\ \A x \in Threads \ {t} : p'.run_enq[x] = d.run_enq[x] /\ p'.blocked_enq[x] = d.blocked_enq[x]
  BY <1>3, <1>6, DropLeaves DEF SamePlace
<1>8. SamePlace(p, p')
  BY <1>4, <1>6, <1>7 DEF SamePlace
<1> QED
  BY <1>2, <1>4, <1>6, <1>7, <1>8 DEF Others, Beside, Undisturbed, Stays, SamePlace

----------------------------------------------------------------------------
(* The executor and the poller *)

\* Coroutines are woken, and queued if they are.
Woken(s, u) ==
  /\ \A x \in Threads : /\ u.status[x] = s.status[x] \/ (u.status[x] = "RUN" /\ u.run_enq[x])
                        /\ s.run_enq[x] => u.run_enq[x]
                        /\ s.blocked_enq[x] => u.blocked_enq[x]

\* vk_play.
LEMMA PlayTurn ==
  ASSUME QueueInv, NEW x \in Threads, p' = EnqueueRun(p, x), phase = "execute",
         UNCHANGED << phase, retry, ended, msg >>
  PROVE  /\ Orderly /\ SamePlace(p, p') /\ Woken(p, p') /\ p'.running = p.running
         /\ p'.status[x] \in {"RUN", "ERR"} => p'.run_enq[x]
<1>1. Quiet(p, p', NoThread)
  BY EnqueueRunQuiet DEF QueueInv
<1>2. /\ Bears(p, p', x) /\ p'.closed = p.closed /\ p'.running = p.running
      /\ p'.status[x] \in {"RUN", "ERR"} => p'.run_enq[x]
      /\ \A y \in Threads \ {x} : p'.status[y] = p.status[y]
  BY EnqueueRunBears DEF QueueInv
<1>3. QueueInv'
  <2>1. retry = << >> /\ Len(retry) = 0 /\ p'.op = p.op /\ Good(p')
    BY <1>1 DEF QueueInv, Quiet, Steady
  <2> QED
    BY <2>1 DEF QueueInv
<1>4. SleepInv(p, {}) => SleepInv(p', {})
  BY <1>1, QuietSleep
<1>5. SamePlace(p, p')
  BY <1>1, <1>2 DEF SamePlace, Quiet, Steady
<1>6. Woken(p, p')
  BY <1>1, <1>2 DEF Woken, Quiet, Steady, Bears
<1> QED
  BY <1>2, <1>3, <1>4, <1>5, <1>6 DEF Orderly

\* vk_call.
LEMMA CallTurn ==
  ASSUME QueueInv, NEW t \in Threads, NEW x \in Threads \ {t}, Call(t, x)
  PROVE  /\ Orderly /\ SamePlace(p, p') /\ p'.running = NoThread /\ p'.status[t] = "RUN"
         /\ \A y \in Threads \ {t} : p'.status[y] = p.status[y] \/ (p'.status[y] = "RUN" /\ p'.run_enq[y])
         /\ \A y \in Threads : /\ p.run_enq[y] => p'.run_enq[y]
                               /\ p.blocked_enq[y] => p'.blocked_enq[y]
         /\ p'.status[x] \in {"RUN", "ERR"} => p'.run_enq[x]
         /\ p'.status[x] # "WAIT"
<1> DEFINE a == EnqueueRun(p, x)
           b == Ready(a, t)
<1>1. Good(p) /\ p.status[t] = "RUN" /\ p' = Resume(b, NoThread)
  BY DEF QueueInv, Call, Between, Active, Resume
<1>2. /\ Quiet(p, a, NoThread) /\ Bears(p, a, x) /\ a.closed = p.closed
      /\ a.status[x] \in {"RUN", "ERR"} => a.run_enq[x]
      /\ a.status[x] # "WAIT"
      /\ \A y \in Threads \ {x} : a.status[y] = p.status[y]
  BY <1>1, EnqueueRunQuiet, EnqueueRunBears
<1> HIDE DEF a
<1>3. Good(a) /\ IsProcess(a) /\ a.status[t] = "RUN"
  BY <1>1, <1>2 DEF Quiet, Good
<1>4. /\ b.status[t] = "RUN" /\ \A y \in Threads \ {t} : b.status[y] = a.status[y]
      /\ SamePlace(a, b) /\ b.run_enq = a.run_enq /\ b.blocked_enq = a.blocked_enq /\ IsProcess(b)
  <2>1. Good(b)
    BY <1>3, ReadyQuiet DEF Quiet
  <2> QED
    BY <1>3, <2>1 DEF Ready, IsProcess, SamePlace, Good
<1> HIDE DEF b
<1>5. /\ SamePlace(b, p') /\ p'.running = NoThread /\ p'.status = b.status /\ p'.run_enq = b.run_enq
      /\ p'.blocked_enq = b.blocked_enq
  BY <1>1, <1>4 DEF Resume, IsProcess, SamePlace
<1>6. Orderly
  BY CallKeeps DEF Keeps, Orderly
<1>7. SamePlace(p, p')
  BY <1>2, <1>4, <1>5 DEF SamePlace, Quiet, Steady
<1>8. \A y \in Threads \ {t} : a.status[y] = p.status[y] \/ (a.status[y] = "RUN" /\ a.run_enq[y])
  BY <1>2 DEF Quiet, Steady
<1>9. \A y \in Threads : p.blocked_enq[y] => p'.blocked_enq[y]
  BY <1>2, <1>4, <1>5 DEF Quiet, Steady
<1> QED
  BY <1>2, <1>4, <1>5, <1>6, <1>7, <1>8, <1>9 DEF Bears

\* The first of the run queue is dispatched,
LEMMA DispatchTurn ==
  ASSUME QueueInv, Dispatch
  PROVE  /\ Orderly /\ SamePlace(p, p') /\ p'.status = p.status /\ p'.blocked_enq = p.blocked_enq
         /\ \A x \in Threads : x = p'.running \/ p'.run_enq[x] = p.run_enq[x]
<1>1. p' = [DequeueRun(p) EXCEPT !.running = Head(p.run_q)] /\ IsProcess(p)
  BY DEF Dispatch, QueueInv, Good
<1>2. Orderly
  BY DispatchKeeps DEF Keeps, Orderly
<1> DEFINE d == DequeueRun(p)
<1>3. /\ SamePlace(p, d) /\ d.status = p.status /\ DOMAIN d = DOMAIN p /\ d.blocked_enq = p.blocked_enq
      /\ \A x \in Threads : x = Head(p.run_q) \/ d.run_enq[x] = p.run_enq[x]
  BY <1>1 DEF DequeueRun, IsProcess, SamePlace
<1> HIDE DEF d
<1>4. /\ SamePlace(d, p') /\ p'.status = d.status /\ p'.run_enq = d.run_enq /\ p'.running = Head(p.run_q)
      /\ p'.blocked_enq = d.blocked_enq
  BY <1>1, <1>3 DEF d, IsProcess, SamePlace
<1> QED
  BY <1>2, <1>3, <1>4 DEF SamePlace

\* and left when it is not ready.
LEMMA LeaveTurn ==
  ASSUME QueueInv, NEW t \in Threads, Leave(t)
  PROVE  /\ Orderly /\ SamePlace(p, p') /\ p'.status = p.status /\ p'.running = NoThread
         /\ p'.run_enq = p.run_enq /\ p'.blocked_enq = p.blocked_enq
         /\ p.running = t /\ p.status[t] \notin {"RUN", "ERR"}
<1>1. Orderly
  BY LeaveKeeps DEF Keeps, Orderly
<1>2. p' = [p EXCEPT !.running = NoThread] /\ IsProcess(p)
  BY DEF Leave, QueueInv, Good
<1>3. /\ SamePlace(p, p') /\ p'.status = p.status /\ p'.running = NoThread /\ p'.run_enq = p.run_enq
      /\ p'.blocked_enq = p.blocked_enq
  BY <1>2 DEF IsProcess, SamePlace
<1> QED
  BY <1>1, <1>3 DEF Leave, IsReady

\* vk_socket_handler once more, when the poller has answered.
LEMMA RetryTurn ==
  ASSUME QueueInv, NEW t \in Threads, RetrySocket(t)
  PROVE  /\ Orderly /\ SameFlows(p, p') /\ p'.running = p.running /\ p'.status[t] # "WAIT"
         /\ \A x \in Threads : /\ Stays(p, p', x) /\ (~ Copies(p, t) => Undisturbed(p, p', x))
                               /\ x # t /\ p.blocked_enq[x] => p'.blocked_enq[x]
                               /\ p'.status[x] = p.status[x] \/ p'.run_enq[x]
                               /\ p.run_enq[x] => p'.run_enq[x]
                               /\ p.closed[x] => p'.closed[x]
                               /\ p'.tx[x].eof = p.tx[x].eof \/ (p.op[x] = "TX_CLOSE" /\ Sink[x] # FD)
<1>1. Good(p) /\ IsProcess(p) /\ retry # << >> /\ t = Head(retry) /\ retry \in Seq(Threads)
  BY DEF QueueInv, RetrySocket, Good
<1>2. t = retry[1] /\ 1 \in 1 .. Len(retry)
  BY <1>1
<1>3. p.status[t] # "END"
  BY <1>2 DEF QueueInv
<1>4. Orderly
  BY RetryKeeps DEF Keeps, Orderly
<1>5. PICK readable \in BOOLEAN, writable \in BOOLEAN :
        LET a == [p EXCEPT !.rx[t].blocked = @ /\ ~ (readable /\ Source[t] = FD),
                           !.tx[t].blocked = @ /\ ~ (writable /\ Sink[t] = FD)]
        IN \E got \in Got(a, t), put \in Put(a, t) :
             p' = EnqueueRun(DropBlocked(Handler(a, t, got, put), t), t)
  BY DEF RetrySocket
<1> DEFINE rb == p.rx[t].blocked /\ ~ (readable /\ Source[t] = FD)
           tb == p.tx[t].blocked /\ ~ (writable /\ Sink[t] = FD)
           a  == Polled(p, t, rb, tb)
<1>6. a = [p EXCEPT !.rx[t].blocked = @ /\ ~ (readable /\ Source[t] = FD),
                    !.tx[t].blocked = @ /\ ~ (writable /\ Sink[t] = FD)]
  BY <1>1 DEF Polled, IsProcess, IsRing
<1>7. PICK got \in Got(a, t), put \in Put(a, t) :
        p' = EnqueueRun(DropBlocked(Handler(a, t, got, put), t), t)
  BY <1>5, <1>6
<1>8. rb \in BOOLEAN /\ tb \in BOOLEAN
  OBVIOUS
<1> HIDE DEF rb, tb
<1>9. a = Polled(p, t, rb, tb)
  OBVIOUS
<1> HIDE DEF a
<1>10. /\ Good(a) /\ Own(p, a, t) /\ a.status = p.status /\ a.op = p.op /\ a.inside = p.inside
       /\ a.rx[t].data = p.rx[t].data /\ a.tx[t].data = p.tx[t].data /\ a.tx[t].eof = p.tx[t].eof
  BY <1>1, <1>3, <1>8, <1>9, PolledOwn
<1>11. a.need = p.need
  BY <1>1, <1>9 DEF Polled, IsProcess
<1> DEFINE b == Handler(a, t, got, put)
           c == DropBlocked(b, t)
<1>12. Tried(a, b, t) /\ Bears(a, b, t)
  <2>1. Good(a) /\ a.status[t] # "END" /\ (a.op[t] = "HUP" => Sink[t] # FD)
    BY <1>3, <1>10 DEF QueueInv
  <2> QED
    BY <1>7, <2>1, HandlerTried, HandlerBears
<1>13. p' = EnqueueRun(c, t)
  BY <1>7
<1> HIDE DEF b
<1>14. Good(b) /\ Steady(a, b, t) /\ (~ Copies(p, t) => Noticed(a, b))
  BY <1>10, <1>12 DEF Tried, Shift, Copies
<1>15. /\ Good(c) /\ SamePlace(b, c) /\ c.running = b.running /\ c.status = b.status /\ c.run_enq = b.run_enq
       /\ \A x \in Threads \ {t} : c.blocked_enq[x] = b.blocked_enq[x]
  <2>1. HasParts(b)
    BY <1>14 DEF Good, IsProcess, HasParts
  <2> QED
    BY <1>14, <2>1, DropLeaves, DropBlockedGood
<1> HIDE DEF c
<1>16. /\ Quiet(c, p', NoThread) /\ p'.status[t] # "WAIT" /\ Bears(c, p', t)
       /\ p'.status[t] \in {"RUN", "ERR"} => p'.run_enq[t]
       /\ \A y \in Threads \ {t} : p'.status[y] = c.status[y]
       /\ p'.closed = c.closed /\ p'.running = c.running
  BY <1>13, <1>15, EnqueueRunQuiet, EnqueueRunBears
<1>17. \A x \in Threads : /\ a.tx[x].eof = p.tx[x].eof /\ a.rx[x].data = p.rx[x].data /\ a.tx[x].data = p.tx[x].data
  BY <1>10 DEF Own
<1>18. SameFlows(p, p')
  <2>1. \A x \in Threads : Source[x] # FD => Source[x] \in Threads
    BY PipeAssumption
  <2>2. SameFlows(p, a)
    BY <1>17, <2>1 DEF SameFlows, Flow
  <2>3. SameFlows(a, b)
    BY <1>12 DEF SameFlows, Bears
  <2>4. p'.rx = b.rx /\ p'.tx = b.tx
    BY <1>15, <1>16 DEF SamePlace, Quiet
  <2> QED
    BY <2>2, <2>3, <2>4 DEF SameFlows, Flow
<1>19. p'.running = p.running
  BY <1>10, <1>14, <1>15, <1>16 DEF Own, Steady
<1> SUFFICES ASSUME NEW x \in Threads
             PROVE  /\ Stays(p, p', x) /\ (~ Copies(p, t) => Undisturbed(p, p', x))
                    /\ x # t /\ p.blocked_enq[x] => p'.blocked_enq[x]
                    /\ p'.status[x] = p.status[x] \/ p'.run_enq[x]
                    /\ p.run_enq[x] => p'.run_enq[x]
                    /\ p.closed[x] => p'.closed[x]
                    /\ p'.tx[x].eof = p.tx[x].eof \/ (p.op[x] = "TX_CLOSE" /\ Sink[x] # FD)
  BY <1>4, <1>16, <1>18, <1>19
<1>20. p'.op = p.op /\ p'.need = p.need /\ p'.inside = p.inside /\ p'.rx = b.rx /\ p'.tx = b.tx
  BY <1>10, <1>11, <1>14, <1>15, <1>16 DEF Steady, SamePlace, Quiet
<1>21. p'.status[x] = p.status[x] \/ p'.status[x] = "RUN"
  BY <1>10, <1>14, <1>15, <1>16 DEF Steady, Quiet
<1>22. ~ Copies(p, t) /\ p'.status[x] = "WAIT" => p'.rx[x].data = p.rx[x].data
  <2> SUFFICES ASSUME ~ Copies(p, t), p'.status[x] = "WAIT" PROVE p'.rx[x].data = p.rx[x].data
    OBVIOUS
  <2>1. b.status[x] = "WAIT"
    BY <1>15, <1>16
  <2> QED
    BY <1>14, <1>17, <1>20, <2>1 DEF Noticed
<1>23. p.tx[x].data = << >> => p'.tx[x].data = << >>
  BY <1>12, <1>17, <1>20 DEF Bears
<1>24. p'.status[x] = p.status[x] \/ p'.run_enq[x]
  <2>1. CASE x = t
    BY <1>3, <1>15, <1>16, <2>1, <1>21 DEF Quiet, Good, IsProcess
  <2>2. CASE x # t
    BY <1>10, <1>12, <1>15, <1>16, <2>2 DEF Bears
  <2> QED
    BY <2>1, <2>2
<1>25. (p.run_enq[x] => p'.run_enq[x]) /\ (p.closed[x] => p'.closed[x])
  BY <1>10, <1>12, <1>15, <1>16 DEF Own, Bears, SamePlace
<1>26. p'.tx[x].eof = p.tx[x].eof \/ (p.op[x] = "TX_CLOSE" /\ Sink[x] # FD)
  BY <1>10, <1>12, <1>17, <1>20 DEF Tried
<1>27. x # t /\ p.blocked_enq[x] => p'.blocked_enq[x]
  BY <1>10, <1>14, <1>15, <1>16 DEF Own, Steady, Quiet
<1> QED
  BY <1>20, <1>21, <1>22, <1>23, <1>24, <1>25, <1>26, <1>27 DEF Undisturbed, Stays

\* The poller's own steps.
LEMMA PollerTurn ==
  ASSUME QueueInv, \/ ExecuteReturns \/ Poll \/ PostpollReturns \/ Free
                   \/ \E t \in Threads : FdEnds(t)
  PROVE  Orderly /\ p' = p
<1>1. Orderly
  BY PollerKeeps DEF Keeps, Orderly
<1> QED
  BY <1>1 DEF ExecuteReturns, Poll, PostpollReturns, Free, FdEnds
=============================================================================
