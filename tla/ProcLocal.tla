----------------------------- MODULE ProcLocal -----------------------------
(***************************************************************************)
(* One micro-process: the coroutines of a struct vk_proc_local, each with  *)
(* one socket, their run queue and blocked queue, the blocking operations  *)
(* of vk_thread_io.h and the handlers of vk_socket.c that satisfy them.    *)
(* A socket reads from a file descriptor or from the socket of another     *)
(* coroutine (a virtual pipe), and writes to either.                       *)
(*                                                                         *)
(* The process is one thread of control: `running' is the coroutine inside *)
(* its function.  A coroutine that waits has its operation attempted once  *)
(* (vk_unblock) before it is left; the others are left alone meanwhile.    *)
(* Rings are byte queues with an EOF mark, as Vectoring shows them to be.  *)
(***************************************************************************)
EXTENDS Integers, Sequences, FiniteSets

CONSTANTS Threads,   \* the coroutines, and their sockets
          FD,        \* the peer of a socket whose pipe is VK_PIPE_OS_FD
          Source,    \* rx_fd: whose transmit ring a socket reads from
          Sink,      \* tx_fd: whose receive ring a socket writes to
          Program,   \* the operations each coroutine may perform
          BufLen,    \* the size of a ring
          MaxLen,    \* the longest read, write or forward asked for
          NoThread   \* no coroutine is running

ASSUME BufLenAssumption == BufLen \in Nat \ {0} /\ MaxLen \in Nat \ {0}
ASSUME PipeAssumption ==
  /\ Threads # {} /\ IsFiniteSet(Threads)
  /\ FD \notin Threads /\ NoThread \notin Threads
  /\ Source \in [Threads -> Threads \cup {FD}]
  /\ Sink   \in [Threads -> Threads \cup {FD}]
  /\ \A t, u \in Threads : Sink[t] = u <=> Source[u] = t

(* Two conditions on the programs: where ForwardNeverHoards and            *)
(* HupBoundary are proved.  The README says which services meet them.      *)

\* A coroutine between a descriptor and a pipe copies, and does not forward.
CopiesIntoPipes ==
  \A t \in Threads : Source[t] = FD /\ Sink[t] # FD => "FORWARD" \notin Program[t]

\* The coroutines that close the pipe they write to,
Closers == {t \in Threads : Sink[t] # FD /\ "TX_CLOSE" \in Program[t]}

\* do not forward, nor read, unless the reader leaves the EOF where it is.
ClosesCleanly ==
  \A t \in Closers : /\ "FORWARD" \notin Program[t]
                     /\ \/ Program[t] \cap {"READ", "POLLREAD"} = {}
                        \/ "READHUP" \notin Program[Sink[t]]

VARIABLES p,      \* the process: queues, coroutines and sockets
          phase,  \* which part of vk_proc_execute the process is in
          retry,  \* the blocked sockets vk_proc_postpoll has still to retry
          ended,  \* whether the stream behind each read descriptor is over
          msg     \* history: the message each coroutine writes and reads

vars == << p, phase, retry, ended, msg >>

Ops     == {"READ", "POLLREAD", "WRITE", "FLUSH", "FORWARD", "HUP", "TX_CLOSE"}
EAGAIN  == -1
Message == {0, 1}    \* messages end with a hup, and are numbered modulo 2

----------------------------------------------------------------------------
(* The run queue.  s is always the state of the process. *)

Ready(s, t) ==
  IF s.status[t] \in {"END", "ERR"} THEN s ELSE [s EXCEPT !.status[t] = "RUN"]

IsReady(s, t) == s.status[t] \in {"RUN", "ERR"}

\* Seeded fault: an ended coroutine with a late effect is queued again.
EnqueueRunAlways(s, t) ==
  IF s.run_enq[t] THEN s
  ELSE [s EXCEPT !.run = TRUE, !.run_q = << t >> \o @, !.run_enq[t] = TRUE]

EnqueueRun(s, t) ==
  LET r == Ready(s, t)
  IN IF IsReady(r, t) /\ ~ r.run_enq[t]
     THEN [r EXCEPT !.run        = IF r.run_q = << >> THEN TRUE ELSE @,
                    !.run_q      = << t >> \o @,
                    !.run_enq[t] = TRUE]
     ELSE r

\* Seeded fault: the run flag outlives the last queued coroutine.
DequeueRunKeepsFlag(s) ==
  [s EXCEPT !.run_q = Tail(@), !.run_enq[Head(s.run_q)] = FALSE]

DequeueRun(s) ==
  LET q == Tail(s.run_q)
  IN [s EXCEPT !.run_q = q, !.run_enq[Head(s.run_q)] = FALSE,
               !.run   = IF q = << >> THEN FALSE ELSE @]

\* SLIST_REMOVE of an element.
Without(q, t) ==
  LET at == CHOOSE i \in DOMAIN q : q[i] = t
  IN [i \in 1 .. Len(q) - 1 |-> IF i < at THEN q[i] ELSE q[i + 1]]

DropRun(s, t) ==
  LET q == IF s.run_enq[t] THEN Without(s.run_q, t) ELSE s.run_q
  IN [s EXCEPT !.run_q = q, !.run_enq[t] = FALSE,
               !.run   = IF q = << >> THEN FALSE ELSE @]

(* The queue of sockets that wait for the poller. *)

EnqueueBlocked(s, t) ==
  IF s.blocked_enq[t] THEN s
  ELSE [s EXCEPT !.blocked        = IF s.blocked_q = << >> THEN TRUE ELSE @,
                 !.blocked_q      = << t >> \o @,
                 !.blocked_enq[t] = TRUE]

DropBlocked(s, t) ==
  LET q == IF s.blocked_enq[t] THEN Without(s.blocked_q, t) ELSE s.blocked_q
  IN [s EXCEPT !.blocked_q = q, !.blocked_enq[t] = FALSE,
               !.blocked   = IF q = << >> THEN FALSE ELSE @]

DropBlockedFor(s, t) ==
  IF \E i \in 1 .. Len(s.blocked_q) : s.blocked_q[i] = t THEN DropBlocked(s, t) ELSE s

----------------------------------------------------------------------------
(* Rings. `blocked' is rx_blocked of a receive ring, tx_blocked of a       *)
(* transmit ring; the code looks at no other combination.                  *)

Room(g) == BufLen - Len(g.data)

Push(g, bytes) ==
  IF bytes = << >> THEN g ELSE [g EXCEPT !.data = @ \o bytes, !.effect = TRUE]

Pop(g, n) ==
  IF n = 0 THEN g ELSE [g EXCEPT !.data = SubSeq(@, n + 1, Len(@)), !.effect = TRUE]

Smaller(m, n) == IF m < n THEN m ELSE n

Bytes(n, m) == [i \in 1 .. n |-> m]     \* n bytes of message m

SetEof(g, b) == IF g.eof = b THEN g ELSE [g EXCEPT !.eof = b, !.effect = TRUE]

\* vk_vectoring_read: got bytes, or EAGAIN.
FdRead(g, got) ==
  IF got = EAGAIN THEN [g EXCEPT !.blocked = TRUE, !.effect = FALSE]
  ELSE Push([g EXCEPT !.blocked = got < Room(g), !.eof = (got = 0)], Bytes(got, 0))

\* vk_vectoring_write: put bytes, or EAGAIN; nothing while already blocked.
FdWrite(g, put) ==
  IF g.blocked THEN g
  ELSE IF put = EAGAIN THEN [g EXCEPT !.blocked = TRUE, !.effect = FALSE]
       ELSE Pop([g EXCEPT !.blocked = put < Len(g.data)], put)

\* Seeded fault: everything is moved, whatever the room.
PipeSpliceAll(s, r, w) ==
  LET n  == Len(s.tx[w].data)
      to == Push(s.rx[r], s.tx[w].data)
      fr == Pop(s.tx[w], n)
  IN [s EXCEPT !.rx[r] = [to EXCEPT !.blocked = n < Room(to)],
               !.tx[w] = [fr EXCEPT !.blocked = FALSE]]

\* vk_vectoring_splice over the virtual pipe from w to r, as much as fits;
\* what was moved is compared with what is left.
PipeSplice(s, r, w) ==
  LET n  == Smaller(Room(s.rx[r]), Len(s.tx[w].data))
      to == Push(s.rx[r], SubSeq(s.tx[w].data, 1, n))
      fr == Pop(s.tx[w], n)
  IN [s EXCEPT !.rx[r] = [to EXCEPT !.blocked = n < Room(to)],
               !.tx[w] = [fr EXCEPT !.blocked = n < Len(fr.data)]]

----------------------------------------------------------------------------
(* Wake-ups: an effect on a ring readies the coroutines at its two ends.   *)

EnqueueRead(s, t) ==
  IF s.rx[t].effect THEN Ready([s EXCEPT !.rx[t].effect = FALSE], t) ELSE s

EnqueueWrite(s, t) ==
  IF s.tx[t].effect THEN Ready([s EXCEPT !.tx[t].effect = FALSE], t) ELSE s

\* Seeded fault: the effect of the read wakes its reader only.
EnqueueReadWriterSelf(s, t) ==
  LET w == Source[t]
  IN IF s.tx[w].effect THEN Ready([s EXCEPT !.tx[w].effect = FALSE], t) ELSE s

EnqueueReadWriter(s, t) ==
  LET w == Source[t]
  IN IF s.tx[w].effect
     THEN Ready(EnqueueRun([s EXCEPT !.tx[w].effect = FALSE], w), t)
     ELSE s

EnqueueWriteReader(s, t) ==
  LET r == Sink[t]
  IN IF s.rx[r].effect
     THEN Ready(EnqueueRun([s EXCEPT !.rx[r].effect = FALSE], r), t)
     ELSE s

\* Seeded fault: only a blocked read registers the socket.
HandleBlockReads(s, t) ==
  IF Source[t] = FD /\ s.rx[t].blocked THEN EnqueueBlocked(s, t) ELSE s

\* A socket with a blocked descriptor is registered for the poller.
HandleBlock(s, t) ==
  IF \/ Source[t] = FD /\ s.rx[t].blocked
     \/ Sink[t]   = FD /\ s.tx[t].blocked
  THEN EnqueueBlocked(s, t) ELSE s

----------------------------------------------------------------------------
(* The handlers of vk_socket.c.  got and put are what the descriptors, if  *)
(* the socket has them, will say to a readv and to a writev.               *)

ReadSide(s, t, got) ==
  IF Source[t] = FD
  THEN EnqueueRead([s EXCEPT !.rx[t] = FdRead(@, got)], t)
  ELSE EnqueueReadWriter(EnqueueRead(PipeSplice(s, t, Source[t]), t), t)

WriteSide(s, t, put) ==
  IF Sink[t] = FD
  THEN EnqueueWrite([s EXCEPT !.tx[t] = FdWrite(@, put)], t)
  ELSE EnqueueWriteReader(EnqueueWrite(PipeSplice(s, Sink[t], t), t), t)

HandleRead(s, t, got)  == HandleBlock(ReadSide(s, t, got), t)
HandleWrite(s, t, put) == HandleBlock(WriteSide(s, t, put), t)

\* Seeded fault: what was written is left for an explicit flush.
HandleReadOpPlain(s, t, got, put) == HandleRead(s, t, got)

\* Auto lazy flush: a read that blocks sends what was written before it.
HandleReadOp(s, t, got, put) ==
  LET r == HandleRead(s, t, got)
  IN IF r.rx[t].blocked /\ ~ r.tx[t].blocked /\ r.tx[t].data # << >>
     THEN HandleWrite(r, t, put) ELSE r

\* From a descriptor into a pipe the reader is woken only if its ring is
\* blocked, and then whether or not the ring changed.
ForwardToPipe(s, t) ==
  LET w == EnqueueWrite(PipeSplice(s, Sink[t], t), t)
  IN IF w.rx[Sink[t]].blocked THEN EnqueueRun(EnqueueWriteReader(w, t), Sink[t]) ELSE w

HandleForward(s, t, got, put) ==
  LET r == ReadSide(s, t, got)
  IN HandleBlock(IF Source[t] = FD /\ Sink[t] # FD THEN ForwardToPipe(r, t)
                                                   ELSE WriteSide(r, t, put), t)

\* Nothing happens until the reader has taken the EOF.
HandleHup(s, t) ==
  HandleBlock(IF s.tx[t].eof THEN s ELSE EnqueueWriteReader(EnqueueWrite(s, t), t), t)

\* The EOF moves from the writer's ring to the reader's, and both wake up.
HandleReadhup(s, t) ==
  LET w     == Source[t]
      moved == [s EXCEPT !.tx[w] = SetEof(@, FALSE), !.rx[t] = SetEof(@, TRUE)]
  IN HandleBlock(IF s.tx[w].eof THEN EnqueueReadWriter(EnqueueRead(moved, t), t) ELSE s, t)

\* A descriptor is closed at once; of a virtual pipe the EOF is marked and
\* its reader may wake up.  Either way the coroutine goes on.
HandleTxClose(s, t) ==
  LET closed == EnqueueWrite([s EXCEPT !.closed[t] = TRUE, !.tx[t].effect = TRUE], t)
      marked == EnqueueWrite([s EXCEPT !.tx[t] = SetEof(@, TRUE)], t)
  IN Ready(HandleBlock(IF Sink[t] = FD THEN closed ELSE EnqueueWriteReader(marked, t), t), t)

\* vk_socket_handler, on the operation last begun on the socket.
Handler(s, t, got, put) ==
  CASE s.op[t] = "NONE"                   -> s
    [] s.op[t] \in {"WRITE", "FLUSH"}     -> HandleWrite(s, t, put)
    [] s.op[t] \in {"READ", "POLLREAD"}   -> HandleReadOp(s, t, got, put)
    [] s.op[t] = "FORWARD"                -> HandleForward(s, t, got, put)
    [] s.op[t] = "HUP"                    -> HandleHup(s, t)
    [] s.op[t] = "TX_CLOSE"               -> HandleTxClose(s, t)

(* What the descriptors of a socket may answer. *)
Got(s, t) ==
  IF Source[t] # FD \/ ended[t] \/ Room(s.rx[t]) = 0 THEN {0}
  ELSE {EAGAIN} \cup 1 .. Room(s.rx[t])

Put(s, t) ==
  IF Sink[t] # FD \/ s.tx[t].data = << >> THEN {0}
  ELSE {EAGAIN} \cup 1 .. Len(s.tx[t].data)

----------------------------------------------------------------------------
(* A coroutine inside its function. *)

\* Seeded fault: EOF is reported while the writer's ring still holds bytes.
PollhupEarly(s, t) ==
  /\ s.rx[t].data = << >>
  /\ IF Source[t] = FD THEN s.rx[t].eof ELSE s.tx[Source[t]].eof

\* vk_socket_pollhup: all was read, and the writer has marked EOF.
Pollhup(s, t) ==
  /\ s.rx[t].data = << >>
  /\ IF Source[t] = FD THEN s.rx[t].eof
     ELSE s.tx[Source[t]].data = << >> /\ s.tx[Source[t]].eof

Active(t)    == phase = "execute" /\ p.running = t /\ p.status[t] = "RUN"
Inside(t, o) == Active(t) /\ p.inside[t] /\ p.op[t] = o
Between(t)   == Active(t) /\ ~ p.inside[t]

Finish(s, t) == [s EXCEPT !.inside[t] = FALSE]

\* vk_wait, and the attempt at the operation that follows at once.
Wait(s, t) ==
  \E got \in Got(s, t), put \in Put(s, t) :
    p' = Handler([s EXCEPT !.status[t] = "WAIT"], t, got, put)

\* vk_raise: the coroutine will go on in its error handler.
Raise(s, t) == [EnqueueRun(s, t) EXCEPT !.status[t] = "ERR"]

Begin(t, o, n) ==
  /\ Between(t) /\ o \in Program[t]
  /\ LET begun == [p EXCEPT !.op[t] = o, !.need[t] = n, !.inside[t] = TRUE]
     IN p' = IF o = "WRITE" /\ p.tx[t].eof THEN Raise(begun, t) ELSE begun
  /\ UNCHANGED << phase, retry, ended, msg >>

Read(t) ==
  /\ Inside(t, "READ")
  /\ LET n    == Smaller(p.need[t], Len(p.rx[t].data))
         took == [p EXCEPT !.rx[t] = Pop(@, n), !.need[t] = @ - n]
     IN IF took.need[t] = 0 \/ Pollhup(took, t)
        THEN p' = Finish(took, t) ELSE Wait(took, t)
  /\ UNCHANGED << phase, retry, ended, msg >>

Pollread(t) ==
  /\ Inside(t, "POLLREAD")
  /\ IF p.rx[t].data # << >> \/ Pollhup(p, t) THEN p' = Finish(p, t) ELSE Wait(p, t)
  /\ UNCHANGED << phase, retry, ended, msg >>

WriteAs(t, m) ==
  /\ Inside(t, "WRITE")
  /\ LET n    == Smaller(p.need[t], Room(p.tx[t]))
         sent == [p EXCEPT !.tx[t] = Push(@, Bytes(n, m)), !.need[t] = @ - n]
     IN IF sent.need[t] = 0 THEN p' = Finish(sent, t) ELSE Wait(sent, t)
  /\ UNCHANGED << phase, retry, ended, msg >>

Write(t) == WriteAs(t, msg[t].writes)

Flush(t) ==
  /\ Inside(t, "FLUSH")
  /\ IF p.tx[t].data = << >> THEN p' = Finish(p, t) ELSE Wait(p, t)
  /\ UNCHANGED << phase, retry, ended, msg >>

ForwardAs(t, m) ==
  /\ Inside(t, "FORWARD")
  /\ LET n     == Smaller(p.need[t], Smaller(Len(p.rx[t].data), Room(p.tx[t])))
         moved == [p EXCEPT !.rx[t] = Pop(@, n), !.need[t] = @ - n,
                            !.tx[t] = Push(@, Bytes(n, m))]
     IN IF Pollhup(p, t) \/ p.need[t] = 0 \/ (Pollhup(moved, t) /\ moved.need[t] = 0)
        THEN p' = Finish(IF Pollhup(p, t) \/ p.need[t] = 0 THEN p ELSE moved, t)
        ELSE Wait(moved, t)
  /\ UNCHANGED << phase, retry, ended, msg >>

Forward(t) == ForwardAs(t, msg[t].writes)

\* vk_hup begins with a flush, which is the FLUSH operation unless there is
\* nothing to flush.  The EOF is marked at once, then waited out.
Hup(t) ==
  /\ Between(t) /\ "HUP" \in Program[t] /\ Sink[t] # FD
  /\ p.tx[t].data = << >>
  /\ LET begun == [p EXCEPT !.tx[t] = SetEof(@, TRUE), !.op[t] = "HUP",
                            !.need[t] = 1, !.inside[t] = TRUE]
     IN IF p.tx[t].eof THEN p' = Raise(p, t) ELSE Wait(begun, t)
  /\ UNCHANGED << phase, retry, ended, msg >>

HupReturns(t) ==
  /\ Inside(t, "HUP")
  /\ IF p.tx[t].eof
     THEN Wait(p, t) /\ UNCHANGED msg
     ELSE /\ p' = Finish([p EXCEPT !.need[t] = 0], t)
          /\ msg' = [msg EXCEPT ![t].writes = 1 - @]
  /\ UNCHANGED << phase, retry, ended >>

\* vk_readhup never waits; it takes the EOF and drains it off the ring.
Readhup(t) ==
  /\ Between(t) /\ "READHUP" \in Program[t] /\ Source[t] # FD
  /\ LET taken == HandleReadhup(p, t)
     IN IF Pollhup(p, t)
        THEN /\ p' = [taken EXCEPT !.rx[t] = SetEof(@, FALSE)]
             /\ msg' = [msg EXCEPT ![t].reads = 1 - @]
        ELSE p' = Raise(p, t) /\ UNCHANGED msg
  /\ UNCHANGED << phase, retry, ended >>

TxClose(t) ==
  /\ Inside(t, "TX_CLOSE")
  /\ IF p.need[t] = 0 THEN p' = Finish(p, t) ELSE Wait([p EXCEPT !.need[t] = 0], t)
  /\ msg' = IF p.need[t] = 0 \/ p.tx[t].eof \/ Sink[t] = FD THEN msg
            ELSE [msg EXCEPT ![t].writes = 1 - @]
  /\ UNCHANGED << phase, retry, ended >>

\* vk_call: play a coroutine and pause this one; it is left ready.
Call(t, u) ==
  /\ Between(t) /\ "CALL" \in Program[t]
  /\ p' = [Ready(EnqueueRun(p, u), t) EXCEPT !.running = NoThread]
  /\ UNCHANGED << phase, retry, ended, msg >>

\* vk_finally, where a raised coroutine goes on.
Finally(t) ==
  /\ phase = "execute" /\ p.running = t /\ p.status[t] = "ERR"
  /\ p' = [p EXCEPT !.status[t] = "RUN", !.inside[t] = FALSE]
  /\ UNCHANGED << phase, retry, ended, msg >>

\* vk_end, and what the executor does for an ended coroutine.
End(t) ==
  /\ Between(t) /\ "END" \in Program[t]
  /\ LET gone == DropBlockedFor([p EXCEPT !.status[t] = "END"], t)
     IN p' = IF gone.run_enq[t] THEN DropRun(gone, t) ELSE gone
  /\ UNCHANGED << phase, retry, ended, msg >>

----------------------------------------------------------------------------
(* The executor and the poller around it. *)

Dispatch ==
  /\ phase = "execute" /\ p.running = NoThread /\ p.run_q # << >>
  /\ p' = [DequeueRun(p) EXCEPT !.running = Head(p.run_q)]
  /\ UNCHANGED << phase, retry, ended, msg >>

\* A coroutine that is not ready is left.
Leave(t) ==
  /\ phase = "execute" /\ p.running = t /\ ~ IsReady(p, t)
  /\ p' = [p EXCEPT !.running = NoThread]
  /\ UNCHANGED << phase, retry, ended, msg >>

ExecuteReturns ==
  /\ phase = "execute" /\ p.running = NoThread /\ p.run_q = << >>
  /\ phase' = "poll"
  /\ UNCHANGED << p, retry, ended, msg >>

\* Some descriptor of the process is ready: all its sockets are retried.
Poll ==
  /\ phase = "poll" /\ p.blocked_q # << >>
  /\ phase' = "postpoll" /\ retry' = p.blocked_q
  /\ UNCHANGED << p, ended, msg >>

RetrySocket(t) ==
  /\ phase = "postpoll" /\ retry # << >> /\ t = Head(retry)
  /\ \E readable, writable \in BOOLEAN :
       LET polled == [p EXCEPT !.rx[t].blocked = @ /\ ~ (readable /\ Source[t] = FD),
                               !.tx[t].blocked = @ /\ ~ (writable /\ Sink[t] = FD)]
       IN \E got \in Got(polled, t), put \in Put(polled, t) :
            p' = EnqueueRun(DropBlocked(Handler(polled, t, got, put), t), t)
  /\ retry' = Tail(retry)
  /\ UNCHANGED << phase, ended, msg >>

PostpollReturns ==
  /\ phase = "postpoll" /\ retry = << >>
  /\ phase' = "execute"
  /\ UNCHANGED << p, retry, ended, msg >>

\* vk_proc_local_is_zombie: nothing runs and nothing is polled for.
Free ==
  /\ phase = "poll" /\ p.run_q = << >> /\ p.blocked_q = << >>
  /\ phase' = "freed"
  /\ UNCHANGED << p, retry, ended, msg >>

\* The peer behind a descriptor closes its side.
FdEnds(t) ==
  /\ Source[t] = FD /\ ~ ended[t]
  /\ ended' = [ended EXCEPT ![t] = TRUE]
  /\ UNCHANGED << p, phase, retry, msg >>

----------------------------------------------------------------------------
EmptyRing == [data |-> << >>, eof |-> FALSE, effect |-> FALSE, blocked |-> FALSE]

\* A new process whose coroutines q were played, the first of q last.
NewProcess(q) ==
  [run_q |-> q, run_enq |-> [t \in Threads |-> \E i \in DOMAIN q : q[i] = t], run |-> TRUE,
   blocked_q |-> << >>, blocked_enq |-> [t \in Threads |-> FALSE], blocked |-> FALSE,
   running |-> NoThread,
   status |-> [t \in Threads |-> "RUN"], op |-> [t \in Threads |-> "NONE"],
   need |-> [t \in Threads |-> 0], inside |-> [t \in Threads |-> FALSE],
   closed |-> [t \in Threads |-> FALSE],
   rx |-> [t \in Threads |-> EmptyRing], tx |-> [t \in Threads |-> EmptyRing]]

Starts(q) ==
  /\ p = NewProcess(q)
  /\ phase = "execute" /\ retry = << >>
  /\ ended = [t \in Threads |-> FALSE]
  /\ msg = [t \in Threads |-> [writes |-> 0, reads |-> 0]]

\* Every coroutine has been played once, in some order.
Init ==
  \E q \in [1 .. Cardinality(Threads) -> Threads] :
    /\ \A i, j \in DOMAIN q : q[i] = q[j] => i = j
    /\ Starts(q)

Begins(t) ==
  \/ \E o \in {"READ", "WRITE", "FORWARD"}, n \in 1 .. MaxLen : Begin(t, o, n)
  \/ Begin(t, "POLLREAD", 1) \/ Begin(t, "FLUSH", 0)
  \/ Begin(t, "TX_CLOSE", 1)

Runs(t) ==
  \/ Read(t) \/ Pollread(t) \/ Write(t) \/ Flush(t) \/ Forward(t)
  \/ Hup(t) \/ HupReturns(t) \/ Readhup(t) \/ TxClose(t)
  \/ Finally(t) \/ End(t)
  \/ \E u \in Threads : Call(t, u)

System == Dispatch \/ ExecuteReturns \/ Poll \/ PostpollReturns \/ Free
          \/ \E t \in Threads : Leave(t) \/ RetrySocket(t)

Next == System \/ \E t \in Threads : Begins(t) \/ Runs(t) \/ FdEnds(t)

Spec == Init /\ [][Next]_vars

\* The executor never stops, and a coroutine's function runs on to its next
\* operation; nothing is assumed of the descriptors.
FairSpec == Spec /\ WF_vars(System) /\ \A t \in Threads : WF_vars(Begins(t) \/ Runs(t))

----------------------------------------------------------------------------
Ring == [data : UNION {[1 .. n -> Message] : n \in 0 .. BufLen},
         eof : BOOLEAN, effect : BOOLEAN, blocked : BOOLEAN]

Process == [run_q : Seq(Threads), run_enq : [Threads -> BOOLEAN], run : BOOLEAN,
            blocked_q : Seq(Threads), blocked_enq : [Threads -> BOOLEAN], blocked : BOOLEAN,
            running : Threads \cup {NoThread},
            status : [Threads -> {"RUN", "WAIT", "ERR", "END"}],
            op : [Threads -> Ops \cup {"NONE"}], need : [Threads -> 0 .. MaxLen],
            inside : [Threads -> BOOLEAN], closed : [Threads -> BOOLEAN],
            rx : [Threads -> Ring], tx : [Threads -> Ring]]

(***************************************************************************)
(* Every part of the process stays in its range; no ring holds more than   *)
(* its buffer does.                                                        *)
(***************************************************************************)
TypeOK ==
  /\ p \in Process
  /\ phase \in {"execute", "poll", "postpoll", "freed"}
  /\ retry \in Seq(Threads)
  /\ ended \in [Threads -> BOOLEAN]
  /\ msg \in [Threads -> [writes : Message, reads : Message]]

\* A queue holds exactly the marked members, each once, and its flag tells
\* whether it holds any.
Queued(q, enq, flag) ==
  /\ \A i, j \in 1 .. Len(q) : q[i] = q[j] => i = j
  /\ \A t \in Threads : enq[t] <=> \E i \in 1 .. Len(q) : q[i] = t
  /\ flag <=> q # << >>

(***************************************************************************)
(* The run queue and the blocked queue agree with the run_enq and          *)
(* blocked_enq marks that keep their entries distinct, and with the run    *)
(* and blocked flags the kernel schedules the process by, whatever order   *)
(* of wake-ups, retries, raises and ends the coroutines go through.        *)
(***************************************************************************)
QueuesAgree ==
  /\ Queued(p.run_q, p.run_enq, p.run)
  /\ Queued(p.blocked_q, p.blocked_enq, p.blocked)

(***************************************************************************)
(* An ended coroutine, whose socket was popped off the stack, is in        *)
(* neither queue: no late effect of its peer can run it or poll for it.    *)
(***************************************************************************)
EndedIsGone ==
  \A t \in Threads : p.status[t] = "END" => ~ p.run_enq[t] /\ ~ p.blocked_enq[t]

Idle == phase \in {"poll", "freed"}
WaitsIn(t, ops) == p.status[t] = "WAIT" /\ p.op[t] \in ops

(***************************************************************************)
(* No wake-up for data is lost: when the process has nothing left to run   *)
(* and a reader waits on a virtual pipe, its writer is not waiting for     *)
(* that reader.  Two coroutines never sleep on each other's bytes.         *)
(***************************************************************************)
DataWakesPeer ==
  \A t \in Threads :
    Idle /\ Sink[t] # FD /\ WaitsIn(t, {"WRITE", "FLUSH"})
      => ~ WaitsIn(Sink[t], {"READ", "POLLREAD"})

(***************************************************************************)
(* A coroutine that forwards to a descriptor never sleeps on bytes it      *)
(* holds, or on a writer that waits for it, unless the poller will retry   *)
(* it: both rings of its socket drain however the descriptor blocks.       *)
(***************************************************************************)
ForwardNeverHoards ==
  \A t \in Threads :
    /\ Idle /\ Sink[t] = FD /\ WaitsIn(t, {"FORWARD"})
    /\ \/ p.rx[t].data # << >> \/ p.tx[t].data # << >>
       \/ Source[t] # FD /\ WaitsIn(Source[t], {"WRITE", "FLUSH"})
    => p.blocked_enq[t]

(***************************************************************************)
(* When the process has nothing left to run, a coroutine that waits for a  *)
(* descriptor is registered with the poller; otherwise nothing would ever  *)
(* retry it.                                                               *)
(***************************************************************************)
FdWaiterPolled ==
  \A t \in Threads :
    Idle /\ \/ Source[t] = FD /\ WaitsIn(t, {"READ", "POLLREAD"})
            \/ Sink[t] = FD /\ WaitsIn(t, {"WRITE", "FLUSH"})
      => p.blocked_enq[t]

(***************************************************************************)
(* hup and readhup are message boundaries: every byte in a virtual pipe    *)
(* belongs to the message its reader is reading.  A reader never sees      *)
(* bytes written after a hup before its readhup, nor leaves bytes from     *)
(* before the hup behind.                                                  *)
(***************************************************************************)
HupBoundary ==
  \A t \in Threads : Source[t] # FD =>
    /\ \A i \in 1 .. Len(p.rx[t].data) : p.rx[t].data[i] = msg[t].reads
    /\ \A i \in 1 .. Len(p.tx[Source[t]].data) : p.tx[Source[t]].data[i] = msg[t].reads

(***************************************************************************)
(* A write or a flush into a virtual pipe whose reader keeps reading is    *)
(* eventually satisfied, through any number of partial splices.            *)
(***************************************************************************)
WriterGoesOn ==
  \A t \in Threads : Sink[t] # FD =>
    (WaitsIn(t, {"WRITE", "FLUSH"}) ~> p.status[t] = "RUN" /\ p.running = t)
=============================================================================
