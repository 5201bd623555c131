-------------------------- MODULE ProcLocalProofs --------------------------
(***************************************************************************)
(* ProcLocal: the queues agree with their marks and hold no ended          *)
(* coroutine, no wake-up for data is lost, and a hup is a message          *)
(* boundary, for any coroutines, any pipes between them and any ring size. *)
(***************************************************************************)
EXTENDS ProcLocal, FiniteSetTheorems, TLAPS

----------------------------------------------------------------------------
(* The inductive invariant *)

\* A byte is told apart by the message or request it belongs to.
Byte == Int

IsRing(g) ==
  /\ DOMAIN g = {"data", "eof", "effect", "blocked"}
  /\ g.data \in Seq(Byte) /\ Len(g.data) <= BufLen
  /\ g.eof \in BOOLEAN /\ g.effect \in BOOLEAN /\ g.blocked \in BOOLEAN

\* Process, field by field.
IsProcess(s) ==
  /\ DOMAIN s = {"run_q", "run_enq", "run", "blocked_q", "blocked_enq", "blocked", "running",
                 "status", "op", "need", "inside", "closed", "rx", "tx"}
  /\ s.run_q \in Seq(Threads) /\ s.run \in BOOLEAN
  /\ s.blocked_q \in Seq(Threads) /\ s.blocked \in BOOLEAN
  /\ s.running \in Threads \cup {NoThread}
  /\ DOMAIN s.run_enq = Threads /\ DOMAIN s.blocked_enq = Threads /\ DOMAIN s.status = Threads
  /\ DOMAIN s.op = Threads /\ DOMAIN s.need = Threads /\ DOMAIN s.inside = Threads
  /\ DOMAIN s.closed = Threads /\ DOMAIN s.rx = Threads /\ DOMAIN s.tx = Threads
  /\ \A t \in Threads :
       /\ s.run_enq[t] \in BOOLEAN /\ s.blocked_enq[t] \in BOOLEAN
       /\ s.status[t] \in {"RUN", "WAIT", "ERR", "END"} /\ s.op[t] \in Ops \cup {"NONE"}
       /\ s.need[t] \in 0 .. MaxLen /\ s.inside[t] \in BOOLEAN /\ s.closed[t] \in BOOLEAN
       /\ IsRing(s.rx[t]) /\ IsRing(s.tx[t])

\* The queues of s agree with their marks, and hold no ended coroutine.
Good(s) ==
  /\ IsProcess(s)
  /\ Queued(s.run_q, s.run_enq, s.run) /\ Queued(s.blocked_q, s.blocked_enq, s.blocked)
  /\ \A t \in Threads : s.status[t] = "END" => ~ s.run_enq[t] /\ ~ s.blocked_enq[t]

\* Between two steps no coroutine to be retried has ended, and a coroutine
\* performs operations of its program.
QueueInv ==
  /\ Good(p)
  /\ phase \in {"execute", "poll", "postpoll", "freed"}
  /\ ended \in [Threads -> BOOLEAN] /\ msg \in [Threads -> [writes : Message, reads : Message]]
  /\ retry \in Seq(Threads) /\ \A i \in 1 .. Len(retry) : p.status[retry[i]] # "END"
  /\ phase # "postpoll" => retry = << >>
  /\ \A t \in Threads : /\ p.op[t] \in Program[t] \cup {"NONE"}
                        /\ p.op[t] = "HUP" => Sink[t] # FD

Sleeps(s, t, ops) == s.status[t] = "WAIT" /\ s.op[t] \in ops
Reading == {"READ", "POLLREAD"}
Writing == {"WRITE", "FLUSH"}

\* What a coroutine x has that sleeps in a read or a write: a reader has no
\* bytes, or a pipe's effect is marked; a writer has some; and who needs the
\* poller has been registered.
Waits(s, x) ==
  /\ Sleeps(s, x, Reading) /\ Source[x] = FD => s.rx[x].data = << >> /\ s.blocked_enq[x]
  /\ Sleeps(s, x, Reading) /\ Source[x] # FD => s.rx[x].data = << >> \/ s.rx[x].effect
  /\ Sleeps(s, x, Writing) => s.tx[x].data # << >>
  /\ Sleeps(s, x, Writing) /\ Sink[x] = FD => s.blocked_enq[x]

\* A writer and its reader both sleep.
Crossed(s, w, r) == Source[r] = w /\ Sleeps(s, w, Writing) /\ Sleeps(s, r, Reading)

\* A coroutine x sleeps in a forward, on bytes the poller does not watch.
Hoards(s, x) ==
  /\ Sleeps(s, x, {"FORWARD"}) /\ Sink[x] = FD /\ (s.rx[x].data # << >> \/ s.tx[x].data # << >>)
  /\ ~ s.blocked_enq[x]

\* The writer w sleeps on a pipe to r that has room.
Stalled(s, w, r) ==
  /\ Source[r] = w /\ Sleeps(s, w, Writing) /\ Sleeps(s, r, {"FORWARD"})
  /\ Room(s.rx[r]) # 0

\* All but the coroutines of X, whose rings a step is working on.
WakeInv(s, X) ==
  /\ \A x \in Threads \ X : Waits(s, x)
  /\ \A w, r \in Threads \ X : ~ Crossed(s, w, r)

HoardInv(s, X) ==
  /\ \A x \in Threads \ X : ~ Hoards(s, x)
  /\ \A w, r \in Threads \ X : ~ Stalled(s, w, r)

SleepInv(s, X) == WakeInv(s, X) /\ (CopiesIntoPipes => HoardInv(s, X))

\* vk_hup is under way in w.
InHup(s, w) == s.inside[w] /\ s.op[w] = "HUP"

\* The bytes in the pipe from w to r are of the message r reads, which is the
\* one w writes unless the EOF between them is on its way.
PipeInv(s, r, reads, writes) ==
  LET w == Source[r]
  IN /\ \A i \in 1 .. Len(s.rx[r].data) : s.rx[r].data[i] = reads
     /\ \A i \in 1 .. Len(s.tx[w].data) : s.tx[w].data[i] = reads
     /\ writes = reads <=> (InHup(s, w) <=> s.tx[w].eof)

\* Nothing of t has the poller look at it.
Unpolled(s, t) == (Source[t] = FD => ~ s.rx[t].blocked) /\ ~ s.blocked_enq[t]

\* The coroutines whose close the reader may take off the pipe with readhup.
Taken == {t \in Closers : "READHUP" \in Program[Sink[t]]}

\* An EOF mark is up while its hup is under way, or after a close: then no
\* write gets past vk_write's check.  Who could close again after the reader
\* took the EOF is never polled for.
HupState(s, m) ==
  /\ \A r \in Threads : Source[r] # FD => PipeInv(s, r, m[r].reads, m[Source[r]].writes)
  /\ \A t \in Threads : InHup(s, t) => s.status[t] # "ERR"
  /\ \A t \in Threads : Sink[t] # FD /\ s.tx[t].eof /\ ~ InHup(s, t) =>
       t \in Closers /\ (s.inside[t] /\ s.op[t] = "WRITE" => s.status[t] = "ERR")
  /\ \A t \in Taken : Unpolled(s, t)

HupInv == HupState(p, msg) /\ \A i \in 1 .. Len(retry) : retry[i] \notin Taken

\* vk_tx_close is begun and not yet attempted.
Closes(s, x) == s.running = x /\ s.status[x] = "RUN" /\ s.inside[x] /\ s.need[x] # 0

\* The pipe of a coroutine x that closed it last stays marked, if the reader
\* takes no EOF: a retry of the close finds its mark.
Shut(s, x) ==
  Sink[x] # FD /\ "READHUP" \notin Program[Sink[x]] /\ s.op[x] = "TX_CLOSE" =>
    s.tx[x].eof \/ Closes(s, x)

CloseInv == (\A x \in Threads : Shut(p, x)) /\ (phase # "execute" => p.running = NoThread)

----------------------------------------------------------------------------
(* The queues *)

\* Nothing but the queues changes: some coroutines wake up, and t may be
\* registered with the poller.
Steady(s, u, t) ==
  /\ u.op = s.op /\ u.need = s.need /\ u.inside = s.inside /\ u.running = s.running
  /\ \A x \in Threads : \/ u.status[x] = s.status[x]
                        \/ u.status[x] = "RUN" /\ s.status[x] \notin {"END", "ERR"}
  /\ \A x \in Threads : s.blocked_enq[x] => u.blocked_enq[x]
  /\ \A x \in Threads : u.blocked_enq[x] => s.blocked_enq[x] \/ x = t

Quiet(s, u, t) == Good(u) /\ Steady(s, u, t) /\ u.rx = s.rx /\ u.tx = s.tx

\* Putting a coroutine in front of a queue it is not on.
LEMMA PushQueued ==
  ASSUME NEW q \in Seq(Threads), NEW enq, DOMAIN enq = Threads, NEW flag, NEW t \in Threads,
         Queued(q, enq, flag), ~ enq[t], NEW set \in BOOLEAN, set <=> flag \/ q = << >>
  PROVE  << t >> \o q \in Seq(Threads) /\ Queued(<< t >> \o q, [enq EXCEPT ![t] = TRUE], set)
<1> DEFINE c == << t >> \o q
           e == [enq EXCEPT ![t] = TRUE]
<1>1. /\ c \in Seq(Threads) /\ Len(c) = Len(q) + 1 /\ c[1] = t /\ Len(q) \in Nat
      /\ \A i \in 2 .. Len(q) + 1 : c[i] = q[i - 1]
  OBVIOUS
<1>2. \A i \in 1 .. Len(q) : c[i + 1] = q[i]
  BY <1>1
<1> HIDE DEF c
<1>3. \A i \in 1 .. Len(q) : q[i] # t
  BY DEF Queued
<1>4. ASSUME NEW i \in 1 .. Len(c), NEW j \in 1 .. Len(c), c[i] = c[j] PROVE i = j
  <2>1. CASE i = 1 \/ j = 1
    BY <1>1, <1>3, <1>4, <2>1
  <2>2. CASE i # 1 /\ j # 1
    <3>1. i - 1 \in 1 .. Len(q) /\ j - 1 \in 1 .. Len(q) /\ q[i - 1] = q[j - 1]
      BY <1>1, <1>4, <2>2
    <3> QED
      BY <1>1, <3>1, SMTT(30) DEF Queued
  <2> QED
    BY <2>1, <2>2
<1>5. ASSUME NEW x \in Threads PROVE e[x] <=> \E i \in 1 .. Len(c) : c[i] = x
  <2>1. CASE x = t
    BY <1>1, <2>1
  <2>2. CASE x # t
    <3>1. e[x] = enq[x]
      BY <2>2
    <3>2. enq[x] <=> \E i \in 1 .. Len(q) : q[i] = x
      BY DEF Queued
    <3>3. (\E i \in 1 .. Len(q) : q[i] = x) <=> \E i \in 1 .. Len(c) : c[i] = x
      <4>1. ASSUME NEW i \in 1 .. Len(q), q[i] = x PROVE \E j \in 1 .. Len(c) : c[j] = x
        BY <1>1, <1>2, <4>1
      <4>2. ASSUME NEW i \in 1 .. Len(c), c[i] = x PROVE \E j \in 1 .. Len(q) : q[j] = x
        <5>1. i # 1 /\ i - 1 \in 1 .. Len(q) /\ q[i - 1] = x
          BY <1>1, <2>2, <4>2
        <5> QED
          BY <5>1
      <4> QED
        BY <4>1, <4>2
    <3> QED
      BY <3>1, <3>2, <3>3
  <2> QED
    BY <2>1, <2>2
<1>6. set <=> c # << >>
  BY <1>1 DEF Queued
<1>7. Queued(c, e, set)
  BY <1>4, <1>5, <1>6 DEF Queued
<1> QED
  BY <1>1, <1>7 DEF c

\* Taking the first off.
LEMMA TailQueued ==
  ASSUME NEW q \in Seq(Threads), NEW enq, DOMAIN enq = Threads, NEW flag,
         Queued(q, enq, flag), q # << >>, NEW set \in BOOLEAN, set <=> flag /\ Tail(q) # << >>
  PROVE  /\ Head(q) \in Threads /\ Tail(q) \in Seq(Threads)
         /\ Queued(Tail(q), [enq EXCEPT ![Head(q)] = FALSE], set)
<1> DEFINE c == Tail(q)
           h == Head(q)
           e == [enq EXCEPT ![h] = FALSE]
<1>1. /\ Len(q) \in Nat \ {0} /\ c \in Seq(Threads) /\ Len(c) = Len(q) - 1
      /\ h = q[1] /\ h \in Threads /\ \A i \in 1 .. Len(c) : c[i] = q[i + 1]
  OBVIOUS
<1> HIDE DEF c, h
<1>2. ASSUME NEW i \in 1 .. Len(c), NEW j \in 1 .. Len(c), c[i] = c[j] PROVE i = j
  <2>1. i + 1 \in 1 .. Len(q) /\ j + 1 \in 1 .. Len(q) /\ q[i + 1] = q[j + 1]
    BY <1>1, <1>2
  <2>2. i + 1 = j + 1
    BY <2>1 DEF Queued
  <2> QED
    BY <1>1, <2>2
<1>3. ASSUME NEW x \in Threads PROVE e[x] <=> \E i \in 1 .. Len(c) : c[i] = x
  <2>1. CASE x = h
    <3>1. ASSUME NEW i \in 1 .. Len(c), c[i] = x PROVE FALSE
      <4>1. i + 1 \in 1 .. Len(q) /\ 1 \in 1 .. Len(q) /\ q[i + 1] = q[1]
        BY <1>1, <2>1, <3>1
      <4>2. i + 1 = 1
        BY <4>1 DEF Queued
      <4> QED
        BY <1>1, <4>2
    <3> QED
      BY <2>1, <3>1
  <2>2. CASE x # h
    <3>1. e[x] = enq[x] /\ (enq[x] <=> \E i \in 1 .. Len(q) : q[i] = x)
      BY <2>2 DEF Queued
    <3>2. ASSUME NEW i \in 1 .. Len(q), q[i] = x PROVE \E j \in 1 .. Len(c) : c[j] = x
      <4>1. i # 1 /\ i - 1 \in 1 .. Len(c) /\ c[i - 1] = x
        BY <1>1, <2>2, <3>2
      <4> QED
        BY <4>1
    <3>3. ASSUME NEW i \in 1 .. Len(c), c[i] = x PROVE \E j \in 1 .. Len(q) : q[j] = x
      <4>1. i + 1 \in 1 .. Len(q) /\ q[i + 1] = x
        BY <1>1, <3>3
      <4> QED
        BY <4>1
    <3> QED
      BY <3>1, <3>2, <3>3
  <2> QED
    BY <2>1, <2>2
<1>4. set <=> c # << >>
  BY DEF Queued, c
<1>5. Queued(c, e, set)
  BY <1>2, <1>3, <1>4 DEF Queued
<1> QED
  BY <1>1, <1>5 DEF c, h

\* SLIST_REMOVE of a coroutine from the queue it is on.
LEMMA WithoutQueued ==
  ASSUME NEW q \in Seq(Threads), NEW enq, DOMAIN enq = Threads, NEW flag, NEW t \in Threads,
         Queued(q, enq, flag), enq[t], NEW set \in BOOLEAN, set <=> flag /\ Without(q, t) # << >>
  PROVE  /\ Without(q, t) \in Seq(Threads)
         /\ Queued(Without(q, t), [enq EXCEPT ![t] = FALSE], set)
<1> DEFINE at == CHOOSE i \in DOMAIN q : q[i] = t
           c  == Without(q, t)
           e  == [enq EXCEPT ![t] = FALSE]
<1>1. Len(q) \in Nat /\ DOMAIN q = 1 .. Len(q) /\ \E i \in DOMAIN q : q[i] = t
  BY DEF Queued
<1>2. at \in 1 .. Len(q) /\ q[at] = t
  BY <1>1
<1> HIDE DEF at
<1>3. c = [i \in 1 .. Len(q) - 1 |-> IF i < at THEN q[i] ELSE q[i + 1]]
  BY DEF Without, at
<1>4. \A i \in 1 .. Len(q) : q[i] \in Threads
  BY <1>1
<1>5. /\ c \in Seq(Threads) /\ Len(c) = Len(q) - 1
      /\ \A i \in 1 .. Len(c) : c[i] = IF i < at THEN q[i] ELSE q[i + 1]
  <2>1. Len(q) - 1 \in Nat
    BY <1>1, <1>2
  <2>2. \A i \in 1 .. Len(q) - 1 : (IF i < at THEN q[i] ELSE q[i + 1]) \in Threads
    BY <1>1, <1>2, <1>4
  <2>3. c \in [1 .. Len(q) - 1 -> Threads]
    BY <1>3, <2>2
  <2>4. c \in Seq(Threads) /\ Len(c) = Len(q) - 1
    BY <2>1, <2>3
  <2> QED
    BY <1>3, <2>4
<1> HIDE DEF c
<1>6. \A i \in 1 .. Len(c) :
        LET k == IF i < at THEN i ELSE i + 1 IN k \in 1 .. Len(q) /\ k # at /\ c[i] = q[k]
  BY <1>1, <1>2, <1>5
<1>7. ASSUME NEW i \in 1 .. Len(c), NEW j \in 1 .. Len(c), c[i] = c[j] PROVE i = j
  <2> DEFINE k == IF i < at THEN i ELSE i + 1
             l == IF j < at THEN j ELSE j + 1
  <2>1. k \in 1 .. Len(q) /\ l \in 1 .. Len(q) /\ q[k] = q[l]
    BY <1>6, <1>7
  <2>2. k = l
    BY <2>1 DEF Queued
  <2> QED
    BY <1>2, <1>5, <2>2
<1>8. ASSUME NEW x \in Threads PROVE e[x] <=> \E i \in 1 .. Len(c) : c[i] = x
  <2>1. CASE x = t
    <3>1. ASSUME NEW i \in 1 .. Len(c), c[i] = x PROVE FALSE
      <4> DEFINE k == IF i < at THEN i ELSE i + 1
      <4>1. k \in 1 .. Len(q) /\ k # at /\ q[k] = q[at]
        BY <1>2, <1>6, <2>1, <3>1
      <4> HIDE DEF k
      <4> QED
        BY <1>2, <4>1 DEF Queued
    <3> QED
      BY <2>1, <3>1
  <2>2. CASE x # t
    <3>1. e[x] = enq[x] /\ (enq[x] <=> \E i \in 1 .. Len(q) : q[i] = x)
      BY <2>2 DEF Queued
    <3>2. ASSUME NEW i \in 1 .. Len(q), q[i] = x PROVE \E j \in 1 .. Len(c) : c[j] = x
      <4>1. i # at
        BY <1>2, <2>2, <3>2
      <4>2. CASE i < at
        <5>1. i \in 1 .. Len(c) /\ c[i] = x
          BY <1>1, <1>2, <1>5, <3>2, <4>2
        <5> QED
          BY <5>1
      <4>3. CASE i > at
        <5>1. i - 1 \in 1 .. Len(c) /\ c[i - 1] = x
          BY <1>1, <1>2, <1>5, <3>2, <4>3
        <5> QED
          BY <5>1
      <4> QED
        BY <1>1, <1>2, <4>1, <4>2, <4>3
    <3>3. ASSUME NEW i \in 1 .. Len(c), c[i] = x PROVE \E j \in 1 .. Len(q) : q[j] = x
      BY <1>6, <3>3
    <3> QED
      BY <3>1, <3>2, <3>3
  <2> QED
    BY <2>1, <2>2
<1>9. set <=> c # << >>
  <2>1. q # << >>
    BY <1>1, <1>2
  <2> QED
    BY <2>1 DEF Queued, c
<1>10. Queued(c, e, set)
  BY <1>7, <1>8, <1>9 DEF Queued
<1> QED
  BY <1>5, <1>10 DEF c

\* vk_ready.
LEMMA ReadyQuiet ==
  ASSUME NEW s, Good(s), NEW t \in Threads, NEW z, NEW u, u = Ready(s, t)
  PROVE  Quiet(s, u, z) /\ u.status[t] # "WAIT"
<1>1. IsProcess(s)
  BY DEF Good
<1>2. CASE s.status[t] \in {"END", "ERR"}
  <2>1. u = s
    BY <1>2 DEF Ready
  <2> QED
    BY <1>2, <2>1 DEF Quiet, Steady
<1>3. CASE s.status[t] \notin {"END", "ERR"}
  <2>1. u = [s EXCEPT !.status[t] = "RUN"]
    BY <1>3 DEF Ready
  <2>2. /\ IsProcess(u) /\ u.run_q = s.run_q /\ u.run_enq = s.run_enq /\ u.run = s.run
        /\ u.blocked_q = s.blocked_q /\ u.blocked_enq = s.blocked_enq /\ u.blocked = s.blocked
        /\ u.op = s.op /\ u.need = s.need /\ u.inside = s.inside /\ u.running = s.running
        /\ u.rx = s.rx /\ u.tx = s.tx
        /\ \A x \in Threads : u.status[x] = IF x = t THEN "RUN" ELSE s.status[x]
    BY <1>1, <2>1 DEF IsProcess
  <2>3. Good(u)
    BY <2>2 DEF Good
  <2> QED
    BY <1>3, <2>2, <2>3 DEF Quiet, Steady
<1> QED
  BY <1>2, <1>3

\* Being quiet twice is being quiet.
LEMMA QuietTransitive ==
  ASSUME NEW s, NEW u, NEW v, NEW t, Quiet(s, u, t), Quiet(u, v, t)
  PROVE  Quiet(s, v, t)
BY DEF Quiet, Steady

\* vk_proc_local_enqueue_run.
LEMMA EnqueueRunQuiet ==
  ASSUME NEW s, Good(s), NEW x \in Threads, NEW t, NEW u, u = EnqueueRun(s, x)
  PROVE  Quiet(s, u, t) /\ u.status[x] # "WAIT"
<1> DEFINE r == Ready(s, x)
<1>1. Quiet(s, r, t) /\ r.status[x] # "WAIT"
  BY ReadyQuiet
<1>4. u = IF IsReady(r, x) /\ ~ r.run_enq[x]
          THEN [r EXCEPT !.run = IF r.run_q = << >> THEN TRUE ELSE @,
                         !.run_q = << x >> \o @, !.run_enq[x] = TRUE]
          ELSE r
  BY DEF EnqueueRun
<1> HIDE DEF r
<1>5. CASE IsReady(r, x) /\ ~ r.run_enq[x]
  <2> DEFINE c == << x >> \o r.run_q
             e == [r.run_enq EXCEPT ![x] = TRUE]
             f == IF r.run_q = << >> THEN TRUE ELSE r.run
  <2>1. IsProcess(r) /\ Queued(r.run_q, r.run_enq, r.run) /\ r.status[x] # "END"
    BY <1>1, <1>5 DEF Quiet, Good, IsReady
  <2>2. c \in Seq(Threads) /\ Queued(c, e, f) /\ f \in BOOLEAN
    <3>1. /\ r.run_q \in Seq(Threads) /\ DOMAIN r.run_enq = Threads /\ f \in BOOLEAN
          /\ f <=> r.run \/ r.run_q = << >>
      BY <2>1 DEF IsProcess
    <3> HIDE DEF f
    <3> QED
      BY <1>5, <2>1, <3>1, PushQueued
  <2>3. u = [r EXCEPT !.run = f, !.run_q = c, !.run_enq = e]
    BY <1>4, <1>5, <2>1 DEF IsProcess
  <2>4. DOMAIN e = Threads /\ \A y \in Threads : e[y] = IF y = x THEN TRUE ELSE r.run_enq[y]
    BY <2>1 DEF IsProcess
  <2> HIDE DEF c, e, f
  <2>5. /\ IsProcess(u) /\ u.run_q = c /\ u.run_enq = e /\ u.run = f
        /\ u.blocked_q = r.blocked_q /\ u.blocked_enq = r.blocked_enq /\ u.blocked = r.blocked
        /\ u.op = r.op /\ u.need = r.need /\ u.inside = r.inside /\ u.running = r.running
        /\ u.rx = r.rx /\ u.tx = r.tx /\ u.status = r.status
    <3>1. /\ DOMAIN u = DOMAIN r /\ u.run_q = c /\ u.run_enq = e /\ u.run = f
          /\ u.blocked_q = r.blocked_q /\ u.blocked_enq = r.blocked_enq /\ u.blocked = r.blocked
          /\ u.op = r.op /\ u.need = r.need /\ u.inside = r.inside /\ u.running = r.running
          /\ u.rx = r.rx /\ u.tx = r.tx /\ u.status = r.status
      BY <2>1, <2>2, <2>3, <2>4 DEF IsProcess
    <3>2. \A y \in Threads : e[y] \in BOOLEAN
      BY <2>1, <2>2, <2>3, <2>4 DEF IsProcess
    <3>3. IsProcess(u)
      BY <2>1, <2>2, <2>3, <2>4, <3>1, <3>2 DEF IsProcess
    <3> QED
      BY <3>1, <3>3
  <2>6. Good(u)
    BY <1>1, <2>1, <2>2, <2>4, <2>5, ZenonT(40) DEF Good, Quiet
  <2>7. Quiet(r, u, t)
    BY <2>5, <2>6 DEF Quiet, Steady
  <2> QED
    BY <1>1, <2>5, <2>7, QuietTransitive
<1>6. CASE ~ (IsReady(r, x) /\ ~ r.run_enq[x])
  BY <1>1, <1>4, <1>6
<1> QED
  BY <1>5, <1>6

\* vk_proc_local_enqueue_blocked.
LEMMA EnqueueBlockedQuiet ==
  ASSUME NEW s, Good(s), NEW t \in Threads, s.status[t] # "END", NEW u, u = EnqueueBlocked(s, t)
  PROVE  Quiet(s, u, t) /\ u.status = s.status /\ u.blocked_enq[t]
<1>1. IsProcess(s)
  BY DEF Good
<1>2. CASE s.blocked_enq[t]
  <2>1. u = s
    BY <1>2 DEF EnqueueBlocked
  <2> QED
    BY <1>2, <2>1 DEF Quiet, Steady
<1>3. CASE ~ s.blocked_enq[t]
  <2> DEFINE c == << t >> \o s.blocked_q
             e == [s.blocked_enq EXCEPT ![t] = TRUE]
             f == IF s.blocked_q = << >> THEN TRUE ELSE s.blocked
  <2>1. c \in Seq(Threads) /\ Queued(c, e, f) /\ f \in BOOLEAN
    <3>1. /\ s.blocked_q \in Seq(Threads) /\ DOMAIN s.blocked_enq = Threads /\ f \in BOOLEAN
          /\ f <=> s.blocked \/ s.blocked_q = << >>
          /\ Queued(s.blocked_q, s.blocked_enq, s.blocked)
      BY <1>1 DEF IsProcess, Good
    <3> HIDE DEF f
    <3> QED
      BY <1>3, <3>1, PushQueued
  <2>2. u = [s EXCEPT !.blocked = f, !.blocked_q = c, !.blocked_enq = e]
    BY <1>1, <1>3 DEF IsProcess, EnqueueBlocked
  <2>3. DOMAIN e = Threads /\ \A y \in Threads : e[y] = IF y = t THEN TRUE ELSE s.blocked_enq[y]
    BY <1>1 DEF IsProcess
  <2> HIDE DEF c, e, f
  <2>4. /\ IsProcess(u) /\ u.blocked_q = c /\ u.blocked_enq = e /\ u.blocked = f
        /\ u.run_q = s.run_q /\ u.run_enq = s.run_enq /\ u.run = s.run
        /\ u.op = s.op /\ u.need = s.need /\ u.inside = s.inside /\ u.running = s.running
        /\ u.rx = s.rx /\ u.tx = s.tx /\ u.status = s.status
    <3>1. /\ DOMAIN u = DOMAIN s /\ u.blocked_q = c /\ u.blocked_enq = e /\ u.blocked = f
          /\ u.run_q = s.run_q /\ u.run_enq = s.run_enq /\ u.run = s.run
          /\ u.op = s.op /\ u.need = s.need /\ u.inside = s.inside /\ u.running = s.running
          /\ u.rx = s.rx /\ u.tx = s.tx /\ u.status = s.status
      BY <1>1, <2>1, <2>2, <2>3 DEF IsProcess
    <3>2. \A y \in Threads : e[y] \in BOOLEAN
      BY <1>1, <2>1, <2>2, <2>3 DEF IsProcess
    <3>3. IsProcess(u)
      BY <1>1, <2>1, <2>2, <2>3, <3>1, <3>2 DEF IsProcess
    <3> QED
      BY <3>1, <3>3
  <2>5. Good(u)
    BY <2>1, <2>3, <2>4 DEF Good
  <2> QED
    BY <2>3, <2>4, <2>5 DEF Quiet, Steady
<1> QED
  BY <1>2, <1>3

\* vk_proc_local_drop_blocked.
LEMMA DropBlockedGood ==
  ASSUME NEW s, Good(s), NEW t \in Threads, NEW u, u = DropBlocked(s, t)
  PROVE  /\ Good(u) /\ u.status = s.status /\ u.op = s.op /\ u.need = s.need
         /\ u.inside = s.inside /\ u.running = s.running /\ u.rx = s.rx /\ u.tx = s.tx
         /\ u.run_enq = s.run_enq /\ ~ u.blocked_enq[t]
         /\ \A x \in Threads \ {t} : u.blocked_enq[x] = s.blocked_enq[x]
<1> DEFINE c == IF s.blocked_enq[t] THEN Without(s.blocked_q, t) ELSE s.blocked_q
           e == [s.blocked_enq EXCEPT ![t] = FALSE]
           f == IF c = << >> THEN FALSE ELSE s.blocked
<1>1. IsProcess(s)
  BY DEF Good
<1>2. /\ s.blocked_q \in Seq(Threads) /\ DOMAIN s.blocked_enq = Threads /\ f \in BOOLEAN
      /\ Queued(s.blocked_q, s.blocked_enq, s.blocked) /\ (f <=> s.blocked /\ c # << >>)
  BY <1>1 DEF IsProcess, Good
<1>3. c \in Seq(Threads) /\ Queued(c, e, f)
  <2>1. CASE s.blocked_enq[t]
    <3>1. c = Without(s.blocked_q, t)
      BY <2>1
    <3> HIDE DEF c, f
    <3> QED
      BY <1>2, <2>1, <3>1, WithoutQueued
  <2>2. CASE ~ s.blocked_enq[t]
    <3>1. c = s.blocked_q
      BY <2>2
    <3>2. \A x \in Threads : e[x] <=> s.blocked_enq[x]
      BY <1>1, <2>2 DEF IsProcess
    <3> HIDE DEF c, f, e
    <3> QED
      BY <1>2, <3>1, <3>2 DEF Queued
  <2> QED
    BY <2>1, <2>2
<1>4. u = [s EXCEPT !.blocked_q = c, !.blocked_enq = e, !.blocked = f]
  BY <1>1 DEF DropBlocked, IsProcess
<1>5. DOMAIN e = Threads /\ \A y \in Threads : e[y] = IF y = t THEN FALSE ELSE s.blocked_enq[y]
  BY <1>1 DEF IsProcess
<1> HIDE DEF c, e, f
<1>6. /\ IsProcess(u) /\ u.blocked_q = c /\ u.blocked_enq = e /\ u.blocked = f
      /\ u.run_q = s.run_q /\ u.run_enq = s.run_enq /\ u.run = s.run
      /\ u.op = s.op /\ u.need = s.need /\ u.inside = s.inside /\ u.running = s.running
      /\ u.rx = s.rx /\ u.tx = s.tx /\ u.status = s.status
  <2>1. /\ DOMAIN u = DOMAIN s /\ u.blocked_q = c /\ u.blocked_enq = e /\ u.blocked = f
        /\ u.run_q = s.run_q /\ u.run_enq = s.run_enq /\ u.run = s.run
        /\ u.op = s.op /\ u.need = s.need /\ u.inside = s.inside /\ u.running = s.running
        /\ u.rx = s.rx /\ u.tx = s.tx /\ u.status = s.status
      BY <1>1, <1>2, <1>3, <1>4, <1>5 DEF IsProcess
  <2>2. \A y \in Threads : e[y] \in BOOLEAN
    BY <1>1, <1>2, <1>3, <1>4, <1>5 DEF IsProcess
  <2>3. IsProcess(u)
    BY <1>1, <1>2, <1>3, <1>4, <1>5, <2>1, <2>2 DEF IsProcess
  <2> QED
    BY <2>1, <2>3
<1>7. Good(u)
  BY <1>3, <1>5, <1>6, ZenonT(40) DEF Good
<1> QED
  BY <1>5, <1>6, <1>7

\* vk_proc_local_drop_run.
LEMMA DropRunGood ==
  ASSUME NEW s, Good(s), NEW t \in Threads, NEW u, u = DropRun(s, t)
  PROVE  /\ Good(u) /\ u.status = s.status /\ u.op = s.op /\ u.need = s.need
         /\ u.inside = s.inside /\ u.running = s.running /\ u.rx = s.rx /\ u.tx = s.tx
         /\ u.blocked_enq = s.blocked_enq /\ ~ u.run_enq[t]
<1> DEFINE c == IF s.run_enq[t] THEN Without(s.run_q, t) ELSE s.run_q
           e == [s.run_enq EXCEPT ![t] = FALSE]
           f == IF c = << >> THEN FALSE ELSE s.run
<1>1. IsProcess(s)
  BY DEF Good
<1>2. /\ s.run_q \in Seq(Threads) /\ DOMAIN s.run_enq = Threads /\ f \in BOOLEAN
      /\ Queued(s.run_q, s.run_enq, s.run) /\ (f <=> s.run /\ c # << >>)
  BY <1>1 DEF IsProcess, Good
<1>3. c \in Seq(Threads) /\ Queued(c, e, f)
  <2>1. CASE s.run_enq[t]
    <3>1. c = Without(s.run_q, t)
      BY <2>1
    <3> HIDE DEF c, f
    <3> QED
      BY <1>2, <2>1, <3>1, WithoutQueued
  <2>2. CASE ~ s.run_enq[t]
    <3>1. c = s.run_q
      BY <2>2
    <3>2. \A x \in Threads : e[x] <=> s.run_enq[x]
      BY <1>1, <2>2 DEF IsProcess
    <3> HIDE DEF c, f, e
    <3> QED
      BY <1>2, <3>1, <3>2 DEF Queued
  <2> QED
    BY <2>1, <2>2
<1>4. u = [s EXCEPT !.run_q = c, !.run_enq = e, !.run = f]
  BY <1>1 DEF DropRun, IsProcess
<1>5. DOMAIN e = Threads /\ \A y \in Threads : e[y] = IF y = t THEN FALSE ELSE s.run_enq[y]
  BY <1>1 DEF IsProcess
<1> HIDE DEF c, e, f
<1>6. /\ IsProcess(u) /\ u.run_q = c /\ u.run_enq = e /\ u.run = f
      /\ u.blocked_q = s.blocked_q /\ u.blocked_enq = s.blocked_enq /\ u.blocked = s.blocked
      /\ u.op = s.op /\ u.need = s.need /\ u.inside = s.inside /\ u.running = s.running
      /\ u.rx = s.rx /\ u.tx = s.tx /\ u.status = s.status
  <2>1. /\ DOMAIN u = DOMAIN s /\ u.run_q = c /\ u.run_enq = e /\ u.run = f
        /\ u.blocked_q = s.blocked_q /\ u.blocked_enq = s.blocked_enq /\ u.blocked = s.blocked
        /\ u.op = s.op /\ u.need = s.need /\ u.inside = s.inside /\ u.running = s.running
        /\ u.rx = s.rx /\ u.tx = s.tx /\ u.status = s.status
      BY <1>1, <1>2, <1>3, <1>4, <1>5 DEF IsProcess
  <2>2. \A y \in Threads : e[y] \in BOOLEAN
    BY <1>1, <1>2, <1>3, <1>4, <1>5 DEF IsProcess
  <2>3. IsProcess(u)
    BY <1>1, <1>2, <1>3, <1>4, <1>5, <2>1, <2>2 DEF IsProcess
  <2> QED
    BY <2>1, <2>3
<1>7. Good(u)
  BY <1>3, <1>5, <1>6, ZenonT(40) DEF Good
<1> QED
  BY <1>5, <1>6, <1>7

\* The first of the run queue is taken off and dispatched.
LEMMA DequeueRunGood ==
  ASSUME NEW s, Good(s), s.run_q # << >>, NEW u,
         u = [DequeueRun(s) EXCEPT !.running = Head(s.run_q)]
  PROVE  /\ Good(u) /\ u.status = s.status /\ u.op = s.op /\ u.need = s.need
         /\ u.inside = s.inside /\ u.rx = s.rx /\ u.tx = s.tx /\ u.blocked_enq = s.blocked_enq
<1> DEFINE c == Tail(s.run_q)
           h == Head(s.run_q)
           e == [s.run_enq EXCEPT ![h] = FALSE]
           f == IF c = << >> THEN FALSE ELSE s.run
<1>1. IsProcess(s)
  BY DEF Good
<1>2. /\ s.run_q \in Seq(Threads) /\ DOMAIN s.run_enq = Threads /\ f \in BOOLEAN
      /\ Queued(s.run_q, s.run_enq, s.run) /\ (f <=> s.run /\ c # << >>)
  BY <1>1 DEF IsProcess, Good
<1>3. c \in Seq(Threads) /\ Queued(c, e, f) /\ h \in Threads
  <2> HIDE DEF f
  <2> QED
    BY <1>2, TailQueued
<1>4. u = [s EXCEPT !.run_q = c, !.run_enq = e, !.run = f, !.running = h]
  BY <1>1 DEF DequeueRun, IsProcess
<1>5. DOMAIN e = Threads /\ \A y \in Threads : e[y] = IF y = h THEN FALSE ELSE s.run_enq[y]
  BY <1>1 DEF IsProcess
<1> HIDE DEF c, e, f, h
<1>6. /\ IsProcess(u) /\ u.run_q = c /\ u.run_enq = e /\ u.run = f
      /\ u.blocked_q = s.blocked_q /\ u.blocked_enq = s.blocked_enq /\ u.blocked = s.blocked
      /\ u.op = s.op /\ u.need = s.need /\ u.inside = s.inside
      /\ u.rx = s.rx /\ u.tx = s.tx /\ u.status = s.status
  <2>1. /\ DOMAIN u = DOMAIN s /\ u.run_q = c /\ u.run_enq = e /\ u.run = f
        /\ u.blocked_q = s.blocked_q /\ u.blocked_enq = s.blocked_enq /\ u.blocked = s.blocked
        /\ u.op = s.op /\ u.need = s.need /\ u.inside = s.inside
        /\ u.rx = s.rx /\ u.tx = s.tx /\ u.status = s.status
  
        /\ u.running = h
    BY <1>1, <1>2, <1>3, <1>4, <1>5 DEF IsProcess
  <2>2. \A y \in Threads : e[y] \in BOOLEAN
    BY <1>1, <1>2, <1>3, <1>4, <1>5 DEF IsProcess
  <2>3. IsProcess(u)
    BY <1>1, <1>2, <1>3, <1>4, <1>5, <2>1, <2>2, ZenonT(40) DEF IsProcess
  <2> QED
    BY <2>1, <2>3
<1>7. Good(u)
  BY <1>3, <1>5, <1>6 DEF Good
<1> QED
  BY <1>6, <1>7

\* A socket that waits for a descriptor is registered.
LEMMA HandleBlockQuiet ==
  ASSUME NEW s, Good(s), NEW t \in Threads, s.status[t] # "END", NEW u, u = HandleBlock(s, t)
  PROVE  /\ Quiet(s, u, t) /\ u.status = s.status
         /\ Source[t] = FD /\ s.rx[t].blocked => u.blocked_enq[t]
         /\ Sink[t] = FD /\ s.tx[t].blocked => u.blocked_enq[t]
         /\ (u.blocked_enq[t] => \/ s.blocked_enq[t]
                                 \/ Source[t] = FD /\ s.rx[t].blocked
                                 \/ Sink[t] = FD /\ s.tx[t].blocked)
<1>1. CASE (Source[t] = FD /\ s.rx[t].blocked) \/ (Sink[t] = FD /\ s.tx[t].blocked)
  <2>1. u = EnqueueBlocked(s, t)
    BY <1>1 DEF HandleBlock
  <2>2. Quiet(s, u, t) /\ u.status = s.status /\ u.blocked_enq[t]
    BY <2>1, EnqueueBlockedQuiet
  <2> QED
    BY <1>1, <2>2
<1>2. CASE ~ ((Source[t] = FD /\ s.rx[t].blocked) \/ (Sink[t] = FD /\ s.tx[t].blocked))
  <2>1. u = s
    BY <1>2 DEF HandleBlock
  <2>2. Quiet(s, u, t)
    BY <2>1 DEF Quiet, Steady
  <2>3. u.status = s.status /\ (u.blocked_enq[t] => s.blocked_enq[t])
    BY <2>1
  <2> QED
    BY <1>2, <2>2, <2>3
<1> QED
  BY <1>1, <1>2

----------------------------------------------------------------------------
(* The rings *)

\* All bytes of q are of message v.
Of(q, v) == \A i \in 1 .. Len(q) : q[i] = v

\* Bytes added to a ring,
LEMMA PushRing ==
  ASSUME NEW g, IsRing(g), NEW bytes \in Seq(Byte), Len(bytes) <= Room(g),
         NEW h, h = Push(g, bytes)
  PROVE  /\ IsRing(h) /\ h.data = g.data \o bytes /\ Len(h.data) = Len(g.data) + Len(bytes)
         /\ h.eof = g.eof /\ h.blocked = g.blocked
         /\ h.data = g.data \/ h.effect
         /\ g.effect => h.effect
         /\ \A v : Of(g.data, v) /\ Of(bytes, v) => Of(h.data, v)
<1> USE BufLenAssumption
<1> DEFINE c == g.data \o bytes
<1>1. /\ c \in Seq(Byte) /\ Len(c) = Len(g.data) + Len(bytes)
      /\ \A i \in 1 .. Len(g.data) : c[i] = g.data[i]
      /\ \A i \in Len(g.data) + 1 .. Len(c) : c[i] = bytes[i - Len(g.data)]
      /\ Len(g.data) \in Nat /\ Len(bytes) \in Nat
  BY DEF IsRing
<1>2. ASSUME NEW v, Of(g.data, v), Of(bytes, v) PROVE Of(c, v)
  <2> SUFFICES ASSUME NEW i \in 1 .. Len(c) PROVE c[i] = v
    BY DEF Of
  <2>1. CASE i <= Len(g.data)
    BY <1>1, <1>2, <2>1 DEF Of
  <2>2. CASE i > Len(g.data)
    <3>1. i - Len(g.data) \in 1 .. Len(bytes) /\ c[i] = bytes[i - Len(g.data)]
      BY <1>1, <2>2
    <3> QED
      BY <1>2, <3>1 DEF Of
  <2> QED
    BY <1>1, <2>1, <2>2
<1>3. CASE bytes = << >>
  <2>1. h = g
    BY <1>3 DEF Push
  <2>2. c = g.data
    BY <1>3 DEF IsRing
  <2> QED
    BY <1>1, <2>1, <2>2
<1>4. CASE bytes # << >>
  <2>1. h = [g EXCEPT !.data = c, !.effect = TRUE]
    BY <1>4 DEF Push
  <2>2. Len(c) <= BufLen
    BY <1>1 DEF Room, IsRing
  <2> HIDE DEF c
  <2>3. IsRing(h) /\ h.data = c /\ h.eof = g.eof /\ h.blocked = g.blocked /\ h.effect
    BY <1>1, <2>1, <2>2 DEF IsRing
  <2> QED
    BY <1>1, <1>2, <2>3 DEF c
<1> QED
  BY <1>3, <1>4

\* and taken off it.
LEMMA PopRing ==
  ASSUME NEW g, IsRing(g), NEW n \in 0 .. Len(g.data), NEW h, h = Pop(g, n)
  PROVE  /\ IsRing(h) /\ Len(h.data) = Len(g.data) - n
         /\ h.eof = g.eof /\ h.blocked = g.blocked
         /\ h.data = g.data \/ h.effect
         /\ \A v : Of(g.data, v) => Of(h.data, v)
<1> USE BufLenAssumption
<1>1. CASE n = 0
  BY <1>1 DEF Pop, IsRing
<1>2. CASE n # 0
  <2> DEFINE c == SubSeq(g.data, n + 1, Len(g.data))
  <2>1. g.data \in Seq(Byte) /\ Len(g.data) \in Nat
    BY DEF IsRing
  <2>2. /\ c \in Seq(Byte) /\ Len(c) = Len(g.data) - n
        /\ \A i \in 1 .. Len(c) : c[i] = g.data[i + n] /\ i + n \in 1 .. Len(g.data)
    <3>1. c \in Seq(Byte) /\ Len(c) = Len(g.data) - n
      BY <2>1
    <3>2. \A i \in 1 .. Len(g.data) - n : c[i] = g.data[i + n]
      BY <2>1
    <3> QED
      BY <2>1, <3>1, <3>2
  <2>3. h = [g EXCEPT !.data = c, !.effect = TRUE]
    BY <1>2 DEF Pop
  <2>4. Len(c) <= BufLen
    BY <2>1, <2>2 DEF IsRing
  <2> HIDE DEF c
  <2>5. IsRing(h) /\ h.data = c /\ h.eof = g.eof /\ h.blocked = g.blocked /\ h.effect
    BY <2>2, <2>3, <2>4 DEF IsRing
  <2>6. \A v : Of(g.data, v) => Of(c, v)
    BY <2>2 DEF Of
  <2> QED
    BY <1>2, <2>2, <2>5, <2>6
<1> QED
  BY <1>1, <1>2

\* The first n bytes.
LEMMA FirstBytes ==
  ASSUME NEW q \in Seq(Byte), NEW n \in 0 .. Len(q)
  PROVE  /\ SubSeq(q, 1, n) \in Seq(Byte) /\ Len(SubSeq(q, 1, n)) = n
         /\ \A v : Of(q, v) => Of(SubSeq(q, 1, n), v)
<1> DEFINE c == SubSeq(q, 1, n)
<1>1. c \in Seq(Byte) /\ Len(c) = n /\ Len(q) \in Nat
  OBVIOUS
<1>2. \A i \in 1 .. n : c[i] = q[i] /\ i \in 1 .. Len(q)
  BY <1>1
<1> HIDE DEF c
<1>3. \A v : Of(q, v) => Of(c, v)
  BY <1>1, <1>2 DEF Of
<1> QED
  BY <1>1, <1>3 DEF c

\* The smaller of two numbers.
LEMMA SmallerIs ==
  ASSUME NEW m \in Nat, NEW n \in Nat
  PROVE  LET k == Smaller(m, n) IN k \in Nat /\ k <= m /\ k <= n /\ (k = m \/ k = n)
BY DEF Smaller

\* n bytes of message m.
LEMMA BytesOf ==
  ASSUME NEW n \in Nat, NEW v \in Byte
  PROVE  Bytes(n, v) \in Seq(Byte) /\ Len(Bytes(n, v)) = n /\ Of(Bytes(n, v), v)
BY DEF Bytes, Of

\* vk_vectoring_read.
LEMMA FdReadRing ==
  ASSUME NEW g, IsRing(g), NEW got, got = EAGAIN \/ got \in 0 .. Room(g), NEW h, h = FdRead(g, got)
  PROVE  /\ IsRing(h) /\ (h.data = g.data \/ h.effect)
         /\ h.data = g.data /\ Room(g) > 0 /\ got # EAGAIN => h.blocked
         /\ got = EAGAIN => h.blocked
<1> USE BufLenAssumption
<1>1. Len(g.data) \in Nat /\ Len(g.data) <= BufLen /\ Room(g) = BufLen - Len(g.data)
  BY DEF IsRing, Room
<1>2. CASE got = EAGAIN
  BY <1>2 DEF FdRead, IsRing, EAGAIN
<1>3. CASE got # EAGAIN
  <2> DEFINE b == got < Room(g)
             e == (got = 0)
             x == [g EXCEPT !.blocked = b, !.eof = e]
  <2>1. got \in 0 .. Room(g) /\ got \in Nat
    BY <1>1, <1>3
  <2>2. h = Push(x, Bytes(got, 0))
    BY <1>3 DEF FdRead
  <2> HIDE DEF b, e
  <2>3. b \in BOOLEAN /\ e \in BOOLEAN
    BY DEF b, e
  <2>4. IsRing(x) /\ x.data = g.data /\ x.blocked = b
    BY <2>3 DEF IsRing
  <2> DEFINE f == Bytes(got, 0)
  <2>5. f \in Seq(Byte) /\ Len(f) = got /\ h = Push(x, f)
    BY <2>1, <2>2, BytesOf DEF Byte
  <2>6. Room(x) = Room(g)
    BY <2>4 DEF Room
  <2> HIDE DEF x, f
  <2>9. Len(f) <= Room(x)
    BY <2>1, <2>5, <2>6
  <2>7. /\ IsRing(h) /\ (h.data = x.data \/ h.effect) /\ h.blocked = x.blocked
        /\ Len(h.data) = Len(x.data) + got
    BY <2>4, <2>5, <2>9, PushRing
  <2>8. h.data = g.data /\ Room(g) > 0 => got = 0 /\ b
    BY <1>1, <2>1, <2>4, <2>7 DEF b
  <2> QED
    BY <1>3, <2>4, <2>7, <2>8
<1> QED
  BY <1>2, <1>3

\* vk_vectoring_write.
LEMMA FdWriteRing ==
  ASSUME NEW g, IsRing(g), NEW put \in {EAGAIN} \cup 0 .. Len(g.data),
         put = 0 => g.data = << >>, NEW h, h = FdWrite(g, put)
  PROVE  /\ IsRing(h) /\ h.eof = g.eof /\ (h.data = g.data \/ h.effect)
         /\ h.data # << >> /\ h.data = g.data => h.blocked
<1>1. Len(g.data) \in Nat /\ g.data \in Seq(Byte) /\ (g.data = << >> <=> Len(g.data) = 0)
  BY DEF IsRing
<1>2. CASE g.blocked
  BY <1>2 DEF FdWrite
<1>3. CASE ~ g.blocked /\ put = EAGAIN
  <2>1. h = [g EXCEPT !.blocked = TRUE, !.effect = FALSE]
    BY <1>3 DEF FdWrite
  <2> QED
    BY <2>1 DEF IsRing
<1>4. CASE ~ g.blocked /\ put # EAGAIN
  <2> DEFINE b == put < Len(g.data)
             x == [g EXCEPT !.blocked = b]
  <2>1. h = Pop(x, put)
    BY <1>4 DEF FdWrite
  <2>2. put \in 0 .. Len(g.data) /\ (put = 0 => g.data = << >>)
    BY <1>1, <1>4
  <2> HIDE DEF b
  <2>3. b \in BOOLEAN
    BY DEF b
  <2>4. IsRing(x) /\ x.data = g.data /\ x.eof = g.eof
    BY <2>3 DEF IsRing
  <2> HIDE DEF x
  <2>5. /\ IsRing(h) /\ h.eof = x.eof /\ (h.data = x.data \/ h.effect)
        /\ Len(h.data) = Len(x.data) - put
    <3>1. put \in 0 .. Len(x.data)
      BY <2>2, <2>4
    <3>2. IsRing(h) /\ h.eof = x.eof /\ (h.data = x.data \/ h.effect)
      BY <2>1, <2>4, <3>1, PopRing
    <3>3. IsRing(x)
      BY <2>4
    <3>4. Len(h.data) = Len(x.data) - put
      BY <2>1, <3>1, <3>3, PopRing
    <3> QED
      BY <3>2, <3>4
  <2> QED
    BY <1>1, <2>2, <2>4, <2>5
<1> QED
  BY <1>2, <1>3, <1>4

\* Nothing but the rings of s may be different in u.
SameQueues(s, u) ==
  /\ DOMAIN u = DOMAIN s
  /\ u.run_q = s.run_q /\ u.run_enq = s.run_enq /\ u.run = s.run
  /\ u.blocked_q = s.blocked_q /\ u.blocked_enq = s.blocked_enq /\ u.blocked = s.blocked
  /\ u.running = s.running /\ u.status = s.status /\ u.op = s.op /\ u.need = s.need
  /\ u.inside = s.inside /\ u.closed = s.closed

\* New rings for old.
LEMMA RingsGood ==
  ASSUME NEW s, Good(s), NEW u, SameQueues(s, u), DOMAIN u.rx = Threads, DOMAIN u.tx = Threads,
         \A x \in Threads : IsRing(u.rx[x]) /\ IsRing(u.tx[x])
  PROVE  Good(u)
<1>1. IsProcess(u)
  BY DEF Good, IsProcess, SameQueues
<1> QED
  BY <1>1 DEF Good, SameQueues

\* Bytes moved over the virtual pipe from w to r.
Spliced(s, u, r, w) ==
  /\ Good(u) /\ SameQueues(s, u)
  /\ \A x \in Threads \ {r} : u.rx[x] = s.rx[x]
  /\ \A x \in Threads \ {w} : u.tx[x] = s.tx[x]
  /\ u.tx[w].eof = s.tx[w].eof
  /\ u.rx[r].data = s.rx[r].data \/ u.rx[r].effect
  /\ s.rx[r].effect => u.rx[r].effect
  /\ u.tx[w].data = s.tx[w].data \/ u.tx[w].effect
  /\ \A v : Of(s.rx[r].data, v) /\ Of(s.tx[w].data, v) => Of(u.rx[r].data, v) /\ Of(u.tx[w].data, v)
  /\ u.rx[r].data = s.rx[r].data => Room(s.rx[r]) = 0 \/ s.tx[w].data = << >>

\* vk_vectoring_splice.
LEMMA SpliceSpliced ==
  ASSUME NEW s, Good(s), NEW r \in Threads, NEW w \in Threads, NEW u, u = PipeSplice(s, r, w)
  PROVE  Spliced(s, u, r, w)
<1> USE BufLenAssumption
<1> DEFINE g  == s.rx[r]
           h  == s.tx[w]
           n  == Smaller(Room(g), Len(h.data))
           to == Push(g, SubSeq(h.data, 1, n))
           fr == Pop(h, n)
           tb == n < Room(to)
           fb == n < Len(fr.data)
           g2 == [to EXCEPT !.blocked = tb]
           h2 == [fr EXCEPT !.blocked = fb]
<1>1. IsProcess(s) /\ IsRing(g) /\ IsRing(h)
  BY DEF Good, IsProcess
<1>2. u = [s EXCEPT !.rx[r] = g2, !.tx[w] = h2]
  BY DEF PipeSplice
<1> HIDE DEF g, h
<1>3. /\ Len(g.data) \in Nat /\ Len(h.data) \in Nat /\ Len(g.data) <= BufLen
      /\ g.data \in Seq(Byte) /\ h.data \in Seq(Byte) /\ Room(g) = BufLen - Len(g.data)
      /\ (h.data = << >> <=> Len(h.data) = 0)
  BY <1>1 DEF IsRing, Room
<1>4. n \in Nat /\ n <= Room(g) /\ n \in 0 .. Len(h.data) /\ (n = 0 => Room(g) = 0 \/ h.data = << >>)
  <2>1. Room(g) \in Nat /\ Len(h.data) \in Nat
    BY <1>3
  <2>2. n \in Nat /\ n <= Room(g) /\ n <= Len(h.data) /\ (n = Room(g) \/ n = Len(h.data))
    BY <2>1, SmallerIs
  <2> HIDE DEF n
  <2>3. n \in 0 .. Len(h.data)
    BY <2>1, <2>2
  <2> QED
    BY <1>3, <2>2, <2>3
<1> HIDE DEF n
<1>5. LET f == SubSeq(h.data, 1, n)
      IN f \in Seq(Byte) /\ Len(f) = n /\ \A v : Of(h.data, v) => Of(f, v)
  BY <1>3, <1>4, FirstBytes
<1>6. /\ IsRing(to) /\ Len(to.data) = Len(g.data) + n /\ (to.data = g.data \/ to.effect)
      /\ g.effect => to.effect
      /\ \A v : Of(g.data, v) /\ Of(h.data, v) => Of(to.data, v)
  <2> DEFINE f == SubSeq(h.data, 1, n)
  <2>1. f \in Seq(Byte) /\ Len(f) = n /\ \A v : Of(h.data, v) => Of(f, v)
    BY <1>5
  <2>2. to = Push(g, f)
    OBVIOUS
  <2> HIDE DEF f, to
  <2>3. Len(f) <= Room(g)
    BY <1>4, <2>1
  <2> QED
    BY <1>1, <2>1, <2>2, <2>3, PushRing
<1>7. /\ IsRing(fr) /\ fr.eof = h.eof /\ (fr.data = h.data \/ fr.effect)
      /\ \A v : Of(h.data, v) => Of(fr.data, v)
  <2> HIDE DEF fr
  <2>1. fr = Pop(h, n)
    BY DEF fr
  <2> QED
    BY <1>1, <1>4, <2>1, PopRing
<1> HIDE DEF to, fr
<1>8. tb \in BOOLEAN /\ fb \in BOOLEAN
  OBVIOUS
<1> HIDE DEF tb, fb
<1>9. /\ IsRing(g2) /\ g2.data = to.data /\ g2.effect = to.effect
      /\ IsRing(h2) /\ h2.data = fr.data /\ h2.effect = fr.effect /\ h2.eof = fr.eof
  BY <1>6, <1>7, <1>8 DEF IsRing
<1> HIDE DEF g2, h2
<1>10. /\ SameQueues(s, u) /\ DOMAIN u.rx = Threads /\ DOMAIN u.tx = Threads
       /\ u.rx[r] = g2 /\ u.tx[w] = h2
       /\ \A x \in Threads \ {r} : u.rx[x] = s.rx[x]
       /\ \A x \in Threads \ {w} : u.tx[x] = s.tx[x]
  BY <1>1, <1>2 DEF SameQueues, IsProcess
<1>11. Good(u)
  <2>1. \A x \in Threads : IsRing(u.rx[x]) /\ IsRing(u.tx[x])
    BY <1>1, <1>9, <1>10, ZenonT(40) DEF IsProcess
  <2> QED
    BY <1>10, <2>1, RingsGood
<1>12. g2.data = g.data => Room(g) = 0 \/ h.data = << >>
  BY <1>3, <1>4, <1>6, <1>9
<1> QED
  BY <1>6, <1>7, <1>9, <1>10, <1>11, <1>12 DEF Spliced, g, h

----------------------------------------------------------------------------
(* Wake-ups *)

\* The rings are the same but for their effect marks.
SameBytes(s, u) ==
  \A x \in Threads :
    /\ u.rx[x].data = s.rx[x].data /\ u.rx[x].eof = s.rx[x].eof /\ u.rx[x].blocked = s.rx[x].blocked
    /\ u.tx[x].data = s.tx[x].data /\ u.tx[x].eof = s.tx[x].eof /\ u.tx[x].blocked = s.tx[x].blocked

Waked(s, u, t) == Good(u) /\ Steady(s, u, t) /\ SameBytes(s, u)

WithRx(s, x, g) == [s EXCEPT !.rx[x] = g]
WithTx(s, x, g) == [s EXCEPT !.tx[x] = g]

\* One ring for another.
LEMMA SetRx ==
  ASSUME NEW s, Good(s), NEW x \in Threads, NEW g, IsRing(g), NEW u, u = WithRx(s, x, g)
  PROVE  /\ Good(u) /\ SameQueues(s, u) /\ u.tx = s.tx /\ u.rx[x] = g
         /\ \A y \in Threads \ {x} : u.rx[y] = s.rx[y]
<1>1. IsProcess(s)
  BY DEF Good
<1>2. /\ SameQueues(s, u) /\ u.tx = s.tx /\ u.rx[x] = g /\ DOMAIN u.rx = Threads
      /\ \A y \in Threads \ {x} : u.rx[y] = s.rx[y]
  BY <1>1 DEF IsProcess, SameQueues, WithRx
<1>3. DOMAIN u.tx = Threads /\ \A y \in Threads : IsRing(u.rx[y]) /\ IsRing(u.tx[y])
  BY <1>1, <1>2 DEF IsProcess
<1> QED
  BY <1>2, <1>3, RingsGood

\* The same of a transmit ring.
LEMMA SetTx ==
  ASSUME NEW s, Good(s), NEW x \in Threads, NEW g, IsRing(g), NEW u, u = WithTx(s, x, g)
  PROVE  /\ Good(u) /\ SameQueues(s, u) /\ u.rx = s.rx /\ u.tx[x] = g
         /\ \A y \in Threads \ {x} : u.tx[y] = s.tx[y]
<1>1. IsProcess(s)
  BY DEF Good
<1>2. /\ SameQueues(s, u) /\ u.rx = s.rx /\ u.tx[x] = g /\ DOMAIN u.tx = Threads
      /\ \A y \in Threads \ {x} : u.tx[y] = s.tx[y]
  BY <1>1 DEF IsProcess, SameQueues, WithTx
<1>3. DOMAIN u.rx = Threads /\ \A y \in Threads : IsRing(u.rx[y]) /\ IsRing(u.tx[y])
  BY <1>1, <1>2 DEF IsProcess
<1> QED
  BY <1>2, <1>3, RingsGood

\* What the queues of the same are is the same.
LEMMA SameSteady ==
  ASSUME NEW s, NEW u, NEW t, SameQueues(s, u)
  PROVE  Steady(s, u, t)
BY DEF Steady, SameQueues

\* An effect mark is taken off a ring.
LEMMA ClearEffect ==
  ASSUME NEW s, Good(s), NEW x \in Threads, NEW t
  PROVE  /\ Waked(s, [s EXCEPT !.rx[x].effect = FALSE], t)
         /\ Waked(s, [s EXCEPT !.tx[x].effect = FALSE], t)
<1> DEFINE g == [s.rx[x] EXCEPT !.effect = FALSE]
           h == [s.tx[x] EXCEPT !.effect = FALSE]
           a == [s EXCEPT !.rx[x] = g]
           b == [s EXCEPT !.tx[x] = h]
<1>1. IsRing(s.rx[x]) /\ IsRing(s.tx[x])
  BY DEF Good, IsProcess
<1>2. /\ IsRing(g) /\ g.data = s.rx[x].data /\ g.eof = s.rx[x].eof /\ g.blocked = s.rx[x].blocked
      /\ IsRing(h) /\ h.data = s.tx[x].data /\ h.eof = s.tx[x].eof /\ h.blocked = s.tx[x].blocked
  BY <1>1 DEF IsRing
<1> HIDE DEF a, b, g, h
<1>0. a = WithRx(s, x, g) /\ b = WithTx(s, x, h)
  BY DEF a, b, WithRx, WithTx
<1>3. /\ Good(a) /\ SameQueues(s, a) /\ a.tx = s.tx /\ a.rx[x] = g
      /\ \A y \in Threads \ {x} : a.rx[y] = s.rx[y]
  BY <1>0, <1>2, SetRx
<1>4. /\ Good(b) /\ SameQueues(s, b) /\ b.rx = s.rx /\ b.tx[x] = h
      /\ \A y \in Threads \ {x} : b.tx[y] = s.tx[y]
  BY <1>0, <1>2, SetTx
<1>5. SameBytes(s, a) /\ SameBytes(s, b)
  BY <1>2, <1>3, <1>4 DEF SameBytes
<1>6. Waked(s, a, t) /\ Waked(s, b, t)
  BY <1>3, <1>4, <1>5, SameSteady DEF Waked
<1> QED
  BY <1>6 DEF a, b, g, h

\* Waking twice is waking.
LEMMA WakedTransitive ==
  ASSUME NEW s, NEW u, NEW v, NEW t, Waked(s, u, t), Waked(u, v, t)
  PROVE  Waked(s, v, t)
BY DEF Waked, Steady, SameBytes

\* What is quiet wakes only.
LEMMA QuietWaked ==
  ASSUME NEW s, NEW u, NEW t, Quiet(s, u, t)
  PROVE  Waked(s, u, t)
BY DEF Quiet, Waked, SameBytes

\* Who has been woken stays awake.
LEMMA StaysAwake ==
  ASSUME NEW s, NEW u, NEW t, Steady(s, u, t), NEW x \in Threads, s.status[x] # "WAIT"
  PROVE  u.status[x] # "WAIT"
BY DEF Steady

\* vk_socket_enqueue_read and vk_socket_enqueue_write wake the socket's own
\* coroutine,
LEMMA EnqueueReadWakes ==
  ASSUME NEW s, Good(s), NEW t \in Threads, NEW z, NEW u, u = EnqueueRead(s, t)
  PROVE  /\ Waked(s, u, z) /\ u.tx = s.tx /\ \A x \in Threads \ {t} : u.rx[x] = s.rx[x]
         /\ ~ s.rx[t].effect \/ u.status[t] # "WAIT"
<1> DEFINE a == [s EXCEPT !.rx[t].effect = FALSE]
<1>1. CASE ~ s.rx[t].effect
  <2>1. u = s
    BY <1>1 DEF EnqueueRead
  <2> QED
    BY <1>1, <2>1 DEF Waked, Steady, SameBytes
<1>2. CASE s.rx[t].effect
  <2>1. u = Ready(a, t)
    BY <1>2 DEF EnqueueRead
  <2>2. Waked(s, a, z)
    BY ClearEffect
  <2>3. a.tx = s.tx /\ \A x \in Threads \ {t} : a.rx[x] = s.rx[x]
    BY DEF Good, IsProcess
  <2> HIDE DEF a
  <2>4. Quiet(a, u, z) /\ u.status[t] # "WAIT"
    BY <2>1, <2>2, ReadyQuiet DEF Waked
  <2>5. u.tx = s.tx /\ \A x \in Threads \ {t} : u.rx[x] = s.rx[x]
    BY <2>3, <2>4 DEF Quiet
  <2> QED
    BY <2>2, <2>4, <2>5, QuietWaked, WakedTransitive
<1> QED
  BY <1>1, <1>2

\* the writer's side,
LEMMA EnqueueWriteWakes ==
  ASSUME NEW s, Good(s), NEW t \in Threads, NEW z, NEW u, u = EnqueueWrite(s, t)
  PROVE  /\ Waked(s, u, z) /\ u.rx = s.rx /\ \A x \in Threads \ {t} : u.tx[x] = s.tx[x]
         /\ ~ s.tx[t].effect \/ u.status[t] # "WAIT"
<1> DEFINE a == [s EXCEPT !.tx[t].effect = FALSE]
<1>1. CASE ~ s.tx[t].effect
  <2>1. u = s
    BY <1>1 DEF EnqueueWrite
  <2> QED
    BY <1>1, <2>1 DEF Waked, Steady, SameBytes
<1>2. CASE s.tx[t].effect
  <2>1. u = Ready(a, t)
    BY <1>2 DEF EnqueueWrite
  <2>2. Waked(s, a, z)
    BY ClearEffect
  <2>3. a.rx = s.rx /\ \A x \in Threads \ {t} : a.tx[x] = s.tx[x]
    BY DEF Good, IsProcess
  <2> HIDE DEF a
  <2>4. Quiet(a, u, z) /\ u.status[t] # "WAIT"
    BY <2>1, <2>2, ReadyQuiet DEF Waked
  <2>5. u.rx = s.rx /\ \A x \in Threads \ {t} : u.tx[x] = s.tx[x]
    BY <2>3, <2>4 DEF Quiet
  <2> QED
    BY <2>2, <2>4, <2>5, QuietWaked, WakedTransitive
<1> QED
  BY <1>1, <1>2

\* the other end of its pipe as well
LEMMA EnqueueReadWriterWakes ==
  ASSUME NEW s, Good(s), NEW t \in Threads, NEW z, Source[t] # FD, NEW u, u = EnqueueReadWriter(s, t)
  PROVE  /\ Waked(s, u, z) /\ u.rx = s.rx
         /\ ~ s.tx[Source[t]].effect \/ (u.status[Source[t]] # "WAIT" /\ u.status[t] # "WAIT")
<1> DEFINE w == Source[t]
           a == [s EXCEPT !.tx[w].effect = FALSE]
           b == EnqueueRun(a, w)
<1>0. w \in Threads
  BY PipeAssumption
<1>1. CASE ~ s.tx[w].effect
  <2>1. u = s
    BY <1>1 DEF EnqueueReadWriter
  <2> QED
    BY <1>1, <2>1 DEF Waked, Steady, SameBytes
<1>2. CASE s.tx[w].effect
  <2>1. u = Ready(b, t)
    BY <1>2 DEF EnqueueReadWriter
  <2> HIDE DEF w
  <2>2. Waked(s, a, z)
    BY <1>0, ClearEffect
  <2>8. a.rx = s.rx
    BY DEF Good, IsProcess
  <2> HIDE DEF a
  <2>3. Quiet(a, b, z) /\ b.status[w] # "WAIT"
    BY <1>0, <2>2, EnqueueRunQuiet DEF Waked
  <2> HIDE DEF b
  <2>4. Quiet(b, u, z) /\ u.status[t] # "WAIT"
    BY <2>1, <2>3, ReadyQuiet DEF Quiet
  <2>5. u.status[w] # "WAIT"
    BY <1>0, <2>3, <2>4, StaysAwake DEF Quiet
  <2>6. Waked(s, u, z)
    BY <2>2, <2>3, <2>4, QuietWaked, WakedTransitive
  <2>7. u.rx = s.rx
    BY <2>3, <2>4, <2>8 DEF Quiet
  <2> QED
    BY <2>4, <2>5, <2>6, <2>7 DEF w
<1> QED
  BY <1>1, <1>2

\* in both directions.
LEMMA EnqueueWriteReaderWakes ==
  ASSUME NEW s, Good(s), NEW t \in Threads, NEW z, Sink[t] # FD, NEW u, u = EnqueueWriteReader(s, t)
  PROVE  /\ Waked(s, u, z) /\ \A x \in Threads \ {Sink[t]} : u.rx[x] = s.rx[x]
         /\ ~ s.rx[Sink[t]].effect \/ (u.status[Sink[t]] # "WAIT" /\ u.status[t] # "WAIT")
<1> DEFINE r == Sink[t]
           a == [s EXCEPT !.rx[r].effect = FALSE]
           b == EnqueueRun(a, r)
<1>0. r \in Threads
  BY PipeAssumption
<1>1. CASE ~ s.rx[r].effect
  <2>1. u = s
    BY <1>1 DEF EnqueueWriteReader
  <2> QED
    BY <1>1, <2>1 DEF Waked, Steady, SameBytes
<1>2. CASE s.rx[r].effect
  <2>1. u = Ready(b, t)
    BY <1>2 DEF EnqueueWriteReader
  <2> HIDE DEF r
  <2>2. Waked(s, a, z)
    BY <1>0, ClearEffect
  <2>7. \A x \in Threads \ {r} : a.rx[x] = s.rx[x]
    BY DEF Good, IsProcess
  <2> HIDE DEF a
  <2>3. Quiet(a, b, z) /\ b.status[r] # "WAIT"
    BY <1>0, <2>2, EnqueueRunQuiet DEF Waked
  <2> HIDE DEF b
  <2>4. Quiet(b, u, z) /\ u.status[t] # "WAIT"
    BY <2>1, <2>3, ReadyQuiet DEF Quiet
  <2>5. u.status[r] # "WAIT"
    BY <1>0, <2>3, <2>4, StaysAwake DEF Quiet
  <2>6. Waked(s, u, z)
    BY <2>2, <2>3, <2>4, QuietWaked, WakedTransitive
  <2>8. \A x \in Threads \ {r} : u.rx[x] = s.rx[x]
    BY <2>3, <2>4, <2>7 DEF Quiet
  <2> QED
    BY <2>4, <2>5, <2>6, <2>8 DEF r
<1> QED
  BY <1>1, <1>2

----------------------------------------------------------------------------
(* The handlers *)

\* Both rings of the pipe to r hold bytes of message v only.
Carries(s, r, v) == Of(s.rx[r].data, v) /\ Of(s.tx[Source[r]].data, v)

\* No pipe gets bytes it did not have, and no descriptor but those of t is
\* found to block.
Shift(s, u, t) ==
  /\ Good(u) /\ Steady(s, u, t)
  /\ \A r \in Threads : Source[r] # FD => \A v : Carries(s, r, v) => Carries(u, r, v)
  /\ \A x \in Threads \ {t} : Source[x] = FD /\ ~ s.rx[x].blocked => ~ u.rx[x].blocked

SameEof(s, u) == \A x \in Threads : u.tx[x].eof = s.tx[x].eof

\* Whoever still sleeps has its rings as they were, and an effect on the pipe
\* it reads from is still marked.
Noticed(s, u) ==
  \A x \in Threads : u.status[x] = "WAIT" =>
    /\ u.rx[x].data = s.rx[x].data /\ u.tx[x].data = s.tx[x].data
    /\ Source[x] # FD /\ s.rx[x].effect => u.rx[x].effect

\* Whoever still sleeps has its transmit ring as it was, and its receive ring
\* too unless a pipe brought bytes: their effect is marked.
Heeded(s, u) ==
  \A x \in Threads : u.status[x] = "WAIT" =>
    /\ u.tx[x].data = s.tx[x].data
    /\ u.rx[x].data = s.rx[x].data \/ (Source[x] # FD /\ u.rx[x].effect)
    /\ Source[x] # FD /\ s.rx[x].effect => u.rx[x].effect

\* Wake-ups move nothing.
LEMMA WakedShift ==
  ASSUME NEW s, NEW u, NEW t, Waked(s, u, t)
  PROVE  Shift(s, u, t) /\ SameEof(s, u)
<1>1. \A r \in Threads : Source[r] # FD => Source[r] \in Threads
  BY PipeAssumption
<1>2. \A r \in Threads : Source[r] # FD => \A v : Carries(s, r, v) => Carries(u, r, v)
  BY <1>1 DEF Waked, SameBytes, Carries
<1> QED
  BY <1>2 DEF Waked, SameBytes, Shift, SameEof

\* Where nothing is moved everything is noticed.
LEMMA QuietShift ==
  ASSUME NEW s, NEW u, NEW t, Quiet(s, u, t)
  PROVE  Shift(s, u, t) /\ SameEof(s, u) /\ Noticed(s, u) /\ Steady(s, u, t)
BY QuietWaked, WakedShift DEF Quiet, Noticed

\* What registers nobody registers at most t.
LEMMA ShiftFor ==
  ASSUME NEW s, NEW u, NEW t, Shift(s, u, NoThread)
  PROVE  Shift(s, u, t)
<1>1. NoThread \notin Threads
  BY PipeAssumption
<1> QED
  BY <1>1 DEF Shift, Steady

\* A shift after a shift.
LEMMA ShiftTransitive ==
  ASSUME NEW s, NEW u, NEW v, NEW t, Shift(s, u, t), Shift(u, v, t)
  PROVE  Shift(s, v, t)
<1>1. Steady(s, v, t)
  BY DEF Shift, Steady
<1> QED
  BY <1>1 DEF Shift

\* What is noticed stays noticed.
LEMMA NoticedTransitive ==
  ASSUME NEW s, NEW u, NEW v, NEW t, Noticed(s, u), Noticed(u, v), Steady(u, v, t)
  PROVE  Noticed(s, v)
BY DEF Noticed, Steady

\* So it is when bytes may have come.
LEMMA HeededTransitive ==
  ASSUME NEW s, NEW u, NEW v, NEW t, Heeded(s, u), Heeded(u, v), Steady(u, v, t)
  PROVE  Heeded(s, v)
<1>1. \A x \in Threads : v.status[x] = "WAIT" => u.status[x] = "WAIT"
  BY DEF Steady
<1> QED
  BY <1>1 DEF Heeded

\* What is noticed is heeded.
LEMMA NoticedHeeded ==
  ASSUME NEW s, NEW u, Noticed(s, u)
  PROVE  Heeded(s, u)
BY DEF Noticed, Heeded

\* The same of the EOF marks.
LEMMA EofTransitive ==
  ASSUME NEW s, NEW u, NEW v, SameEof(s, u), SameEof(u, v)
  PROVE  SameEof(s, v)
BY DEF SameEof

\* The reading half of a handler: what moved was noticed, and a coroutine
\* that sleeps on got nothing, for a reason.
LEMMA ReadSideShift ==
  ASSUME NEW s, Good(s), NEW t \in Threads, NEW got \in Got(s, t), NEW u, u = ReadSide(s, t, got)
  PROVE  /\ Shift(s, u, t) /\ SameEof(s, u) /\ Noticed(s, u)
         /\ Sink[t] = FD => u.tx[t].data = s.tx[t].data
         /\ u.status[t] = "WAIT" =>
              IF Source[t] = FD THEN Room(s.rx[t]) > 0 => u.rx[t].blocked
              ELSE Room(s.rx[t]) = 0 \/ s.tx[Source[t]].data = << >>
<1> USE BufLenAssumption
<1>1. IsRing(s.rx[t]) /\ Room(s.rx[t]) \in Nat
  <2>1. IsRing(s.rx[t])
    BY DEF Good, IsProcess
  <2> QED
    BY <2>1 DEF IsRing, Room
<1>2. CASE Source[t] = FD
  <2> DEFINE g == FdRead(s.rx[t], got)
             a == [s EXCEPT !.rx[t] = g]
  <2>1. u = EnqueueRead(a, t) /\ a = WithRx(s, t, g) /\ g = FdRead(s.rx[t], got)
    BY <1>2 DEF ReadSide, WithRx
  <2>2. got = EAGAIN \/ got \in 0 .. Room(s.rx[t])
    BY <1>1, <1>2 DEF Got
  <2> HIDE DEF g, a
  <2>3. /\ IsRing(g) /\ (g.data = s.rx[t].data \/ g.effect)
        /\ g.data = s.rx[t].data /\ Room(s.rx[t]) > 0 => g.blocked
    BY <1>1, <2>1, <2>2, FdReadRing
  <2>4. /\ Good(a) /\ SameQueues(s, a) /\ a.tx = s.tx /\ a.rx[t] = g
        /\ \A y \in Threads \ {t} : a.rx[y] = s.rx[y]
    BY <2>1, <2>3, SetRx
  <2>5. /\ Waked(a, u, t) /\ u.tx = a.tx /\ \A x \in Threads \ {t} : u.rx[x] = a.rx[x]
        /\ ~ a.rx[t].effect \/ u.status[t] # "WAIT"
    BY <2>1, <2>4, EnqueueReadWakes
  <2>6. Steady(s, u, t) /\ u.rx[t].data = g.data /\ u.rx[t].blocked = g.blocked /\ Good(u)
    BY <2>4, <2>5 DEF Waked, Steady, SameQueues, SameBytes
  <2>7. SameEof(s, u) /\ u.tx = s.tx
    BY <2>4, <2>5 DEF SameEof
  <2>8. Noticed(s, u)
    BY <1>2, <2>3, <2>4, <2>5, <2>6 DEF Noticed
  <2>9. Shift(s, u, t)
    <3>1. \A r \in Threads : Source[r] # FD => u.rx[r] = s.rx[r]
      BY <1>2, <2>4, <2>5
    <3>2. \A r \in Threads : Source[r] # FD => \A v : Carries(s, r, v) => Carries(u, r, v)
      BY <2>7, <3>1 DEF Carries
    <3>3. \A x \in Threads \ {t} : u.rx[x] = s.rx[x]
      BY <2>4, <2>5
    <3> QED
      BY <2>6, <3>2, <3>3 DEF Shift
  <2> QED
    BY <1>2, <2>3, <2>4, <2>5, <2>6, <2>7, <2>8, <2>9
<1>3. CASE Source[t] # FD
  <2> DEFINE w == Source[t]
             a == PipeSplice(s, t, w)
             b == EnqueueRead(a, t)
  <2>1. u = EnqueueReadWriter(b, t) /\ b = EnqueueRead(a, t) /\ a = PipeSplice(s, t, w)
    BY <1>3 DEF ReadSide
  <2>2. w \in Threads /\ (Sink[t] = FD => w # t)
    BY <1>3, PipeAssumption
  <2> HIDE DEF a, b, w
  <2>3. Spliced(s, a, t, w)
    BY <2>1, <2>2, SpliceSpliced
  <2>4. Good(a)
    BY <2>3 DEF Spliced
  <2>5. /\ Waked(a, b, t) /\ b.tx = a.tx /\ (~ a.rx[t].effect \/ b.status[t] # "WAIT")
        /\ \A x \in Threads \ {t} : b.rx[x] = a.rx[x]
    BY <2>1, <2>4, EnqueueReadWakes
  <2>6. /\ Waked(b, u, t) /\ u.rx = b.rx /\ (~ b.tx[w].effect \/ (u.status[w] # "WAIT" /\ u.status[t] # "WAIT"))
    BY <1>3, <2>1, <2>5, EnqueueReadWriterWakes DEF Waked, w
  <2>7. Waked(a, u, t)
    BY <2>5, <2>6, WakedTransitive
  <2>8. /\ a.rx[t].effect => u.status[t] # "WAIT"
        /\ a.tx[w].effect => u.status[w] # "WAIT" /\ u.status[t] # "WAIT"
    BY <2>5, <2>6, StaysAwake DEF Waked
  <2>9. Steady(s, u, t) /\ Good(u)
    BY <2>3, <2>7 DEF Spliced, Waked, Steady, SameQueues
  <2>10. SameEof(s, u)
    <3>1. \A x \in Threads : a.tx[x].eof = s.tx[x].eof
      BY <2>2, <2>3 DEF Spliced
    <3> QED
      BY <2>7, <3>1 DEF Waked, SameBytes, SameEof
  <2>11. \A x \in Threads : u.status[x] = "WAIT" => a.rx[x].data = s.rx[x].data /\ a.tx[x].data = s.tx[x].data
    BY <2>3, <2>8 DEF Spliced
  <2>12. Noticed(s, u)
    <3>1. \A x \in Threads : u.status[x] = "WAIT" /\ s.rx[x].effect => u.rx[x].effect
      BY <2>3, <2>5, <2>6, <2>8 DEF Spliced
    <3> QED
      BY <2>7, <2>11, <3>1 DEF Waked, SameBytes, Noticed
  <2>13. Shift(s, u, t)
    <3>1. ASSUME NEW r \in Threads, Source[r] # FD, NEW v, Carries(s, r, v) PROVE Carries(u, r, v)
      <4>1. CASE r = t
        BY <2>2, <2>3, <2>7, <3>1, <4>1 DEF Spliced, Waked, SameBytes, Carries, w
      <4>2. CASE r # t
        <5>1. Source[r] \in Threads /\ Source[r] # w
          BY <2>2, <3>1, <4>2, PipeAssumption DEF w
        <5> QED
          BY <2>3, <2>7, <3>1, <4>2, <5>1 DEF Spliced, Waked, SameBytes, Carries
      <4> QED
        BY <4>1, <4>2
    <3>2. \A x \in Threads \ {t} : u.rx[x].blocked = s.rx[x].blocked
      BY <2>3, <2>7 DEF Spliced, Waked, SameBytes
    <3> QED
      BY <2>9, <3>1, <3>2 DEF Shift
  <2>14. Sink[t] = FD => u.tx[t].data = s.tx[t].data
    BY <2>2, <2>3, <2>7 DEF Spliced, Waked, SameBytes
  <2>15. u.status[t] = "WAIT" => Room(s.rx[t]) = 0 \/ s.tx[w].data = << >>
    BY <2>3, <2>8 DEF Spliced
  <2> QED
    BY <1>3, <2>10, <2>12, <2>13, <2>14, <2>15 DEF w
<1> QED
  BY <1>2, <1>3

\* The writing half.
LEMMA WriteSideShift ==
  ASSUME NEW s, Good(s), NEW t \in Threads, NEW z, NEW put, Sink[t] = FD => put \in Put(s, t),
         NEW u, u = WriteSide(s, t, put)
  PROVE  /\ Shift(s, u, z) /\ SameEof(s, u) /\ Noticed(s, u)
         /\ \A x \in Threads : Source[x] = FD => u.rx[x].blocked = s.rx[x].blocked
         /\ Sink[t] # FD /\ u.status[Sink[t]] = "WAIT" => ~ s.rx[Sink[t]].effect
         /\ u.status[t] = "WAIT" =>
              IF Sink[t] = FD THEN s.tx[t].data # << >> => u.tx[t].blocked
              ELSE Room(s.rx[Sink[t]]) = 0 \/ s.tx[t].data = << >>
<1>1. IsRing(s.tx[t]) /\ Len(s.tx[t].data) \in Nat /\ s.tx[t].data \in Seq(Byte)
  <2>1. IsRing(s.tx[t])
    BY DEF Good, IsProcess
  <2> QED
    BY <2>1 DEF IsRing
<1>2. CASE Sink[t] = FD
  <2> DEFINE g == FdWrite(s.tx[t], put)
             a == [s EXCEPT !.tx[t] = g]
  <2>1. u = EnqueueWrite(a, t) /\ a = WithTx(s, t, g) /\ g = FdWrite(s.tx[t], put)
    BY <1>2 DEF WriteSide, WithTx
  <2>2. put \in {EAGAIN} \cup 0 .. Len(s.tx[t].data) /\ (put = 0 => s.tx[t].data = << >>)
    BY <1>1, <1>2 DEF Put, EAGAIN
  <2> HIDE DEF g, a
  <2>3. /\ IsRing(g) /\ g.eof = s.tx[t].eof /\ (g.data = s.tx[t].data \/ g.effect)
        /\ g.data # << >> /\ g.data = s.tx[t].data => g.blocked
    BY <1>1, <2>1, <2>2, FdWriteRing
  <2>4. /\ Good(a) /\ SameQueues(s, a) /\ a.rx = s.rx /\ a.tx[t] = g
        /\ \A y \in Threads \ {t} : a.tx[y] = s.tx[y]
    BY <2>1, <2>3, SetTx
  <2>5. /\ Waked(a, u, z) /\ u.rx = a.rx /\ \A x \in Threads \ {t} : u.tx[x] = a.tx[x]
        /\ ~ a.tx[t].effect \/ u.status[t] # "WAIT"
    BY <2>1, <2>4, EnqueueWriteWakes
  <2>6. /\ Steady(s, u, z) /\ u.tx[t].data = g.data /\ u.tx[t].blocked = g.blocked /\ Good(u)
        /\ u.tx[t].eof = g.eof
    BY <2>4, <2>5 DEF Waked, Steady, SameQueues, SameBytes
  <2>7. u.rx = s.rx
    BY <2>4, <2>5
  <2>8. SameEof(s, u)
    BY <2>3, <2>4, <2>5, <2>6 DEF SameEof
  <2>9. Noticed(s, u)
    BY <2>3, <2>4, <2>5, <2>6 DEF Noticed
  <2>10. Shift(s, u, z)
    <3>1. \A r \in Threads : Source[r] # FD => Source[r] \in Threads /\ Source[r] # t
      BY <1>2, PipeAssumption
    <3>2. \A r \in Threads : Source[r] # FD => u.tx[Source[r]] = s.tx[Source[r]]
      BY <2>4, <2>5, <3>1
    <3>3. \A r \in Threads : Source[r] # FD => \A v : Carries(s, r, v) => Carries(u, r, v)
      BY <2>7, <3>2 DEF Carries
    <3> QED
      BY <2>6, <2>7, <3>3 DEF Shift
  <2> QED
    BY <1>2, <2>3, <2>4, <2>5, <2>6, <2>7, <2>8, <2>9, <2>10
<1>3. CASE Sink[t] # FD
  <2> DEFINE r == Sink[t]
             a == PipeSplice(s, r, t)
             b == EnqueueWrite(a, t)
  <2>1. u = EnqueueWriteReader(b, t) /\ b = EnqueueWrite(a, t) /\ a = PipeSplice(s, r, t)
    BY <1>3 DEF WriteSide
  <2>2. r \in Threads /\ Source[r] = t /\ (Source[t] = FD => r # t)
    BY <1>3, PipeAssumption
  <2> HIDE DEF a, b, r
  <2>3. Spliced(s, a, r, t)
    BY <2>1, <2>2, SpliceSpliced
  <2>4. Good(a)
    BY <2>3 DEF Spliced
  <2>5. /\ Waked(a, b, z) /\ b.rx = a.rx /\ (~ a.tx[t].effect \/ b.status[t] # "WAIT")
    BY <2>1, <2>4, EnqueueWriteWakes
  <2>6. /\ Waked(b, u, z) /\ (~ b.rx[r].effect \/ (u.status[r] # "WAIT" /\ u.status[t] # "WAIT"))
        /\ \A x \in Threads \ {r} : u.rx[x] = b.rx[x]
    BY <1>3, <2>1, <2>5, EnqueueWriteReaderWakes DEF Waked, r
  <2>7. Waked(a, u, z)
    BY <2>5, <2>6, WakedTransitive
  <2>8. /\ a.tx[t].effect => u.status[t] # "WAIT"
        /\ a.rx[r].effect => u.status[r] # "WAIT" /\ u.status[t] # "WAIT"
    BY <2>5, <2>6, StaysAwake DEF Waked
  <2>9. Steady(s, u, z) /\ Good(u)
    BY <2>3, <2>7 DEF Spliced, Waked, Steady, SameQueues
  <2>10. SameEof(s, u)
    <3>1. \A x \in Threads : a.tx[x].eof = s.tx[x].eof
      BY <2>2, <2>3 DEF Spliced
    <3> QED
      BY <2>7, <3>1 DEF Waked, SameBytes, SameEof
  <2>11. \A x \in Threads : u.status[x] = "WAIT" => a.rx[x].data = s.rx[x].data /\ a.tx[x].data = s.tx[x].data
    BY <2>3, <2>8 DEF Spliced
  <2>12. Noticed(s, u)
    <3>1. \A x \in Threads : u.status[x] = "WAIT" /\ s.rx[x].effect => u.rx[x].effect
      BY <2>3, <2>5, <2>6, <2>8 DEF Spliced
    <3> QED
      BY <2>7, <2>11, <3>1 DEF Waked, SameBytes, Noticed
  <2>13. \A x \in Threads : Source[x] = FD => u.rx[x].blocked = s.rx[x].blocked
    <3>1. \A x \in Threads : Source[x] = FD => x # r
      BY <2>2, PipeAssumption
    <3> QED
      BY <2>3, <2>7, <3>1 DEF Spliced, Waked, SameBytes
  <2>14. Shift(s, u, z)
    <3>1. ASSUME NEW y \in Threads, Source[y] # FD, NEW v, Carries(s, y, v) PROVE Carries(u, y, v)
      <4>1. CASE y = r
        BY <2>2, <2>3, <2>7, <3>1, <4>1 DEF Spliced, Waked, SameBytes, Carries
      <4>2. CASE y # r
        <5>1. Source[y] \in Threads /\ Source[y] # t
          BY <2>2, <3>1, <4>2, PipeAssumption DEF r
        <5> QED
          BY <2>3, <2>7, <3>1, <4>2, <5>1 DEF Spliced, Waked, SameBytes, Carries
      <4> QED
        BY <4>1, <4>2
    <3> QED
      BY <2>9, <2>13, <3>1 DEF Shift
  <2>15. u.status[t] = "WAIT" => Room(s.rx[r]) = 0 \/ s.tx[t].data = << >>
    BY <2>3, <2>8 DEF Spliced
  <2>16. u.status[r] = "WAIT" => ~ s.rx[r].effect
    BY <2>3, <2>8 DEF Spliced
  <2> QED
    BY <1>3, <2>10, <2>12, <2>13, <2>14, <2>15, <2>16 DEF r
<1> QED
  BY <1>2, <1>3

\* A whole read: a coroutine that sleeps on is registered, or its pipe is
\* full or empty.
LEMMA HandleReadShift ==
  ASSUME NEW s, Good(s), NEW t \in Threads, s.status[t] # "END", NEW got \in Got(s, t),
         NEW u, u = HandleRead(s, t, got)
  PROVE  /\ Shift(s, u, t) /\ SameEof(s, u) /\ Noticed(s, u)
         /\ Sink[t] = FD => u.tx[t].data = s.tx[t].data
         /\ u.status[t] = "WAIT" =>
              IF Source[t] = FD THEN Room(s.rx[t]) > 0 => u.blocked_enq[t]
              ELSE Room(s.rx[t]) = 0 \/ s.tx[Source[t]].data = << >>
<1> DEFINE a == ReadSide(s, t, got)
<1>1. u = HandleBlock(a, t) /\ a = ReadSide(s, t, got)
  BY DEF HandleRead
<1> HIDE DEF a
<1>2. /\ Shift(s, a, t) /\ SameEof(s, a) /\ Noticed(s, a)
      /\ Sink[t] = FD => a.tx[t].data = s.tx[t].data
      /\ a.status[t] = "WAIT" =>
           IF Source[t] = FD THEN Room(s.rx[t]) > 0 => a.rx[t].blocked
           ELSE Room(s.rx[t]) = 0 \/ s.tx[Source[t]].data = << >>
  BY <1>1, ReadSideShift
<1>3. Good(a) /\ a.status[t] # "END"
  BY <1>2 DEF Shift, Steady
<1>4. /\ Quiet(a, u, t) /\ u.status = a.status
      /\ Source[t] = FD /\ a.rx[t].blocked => u.blocked_enq[t]
  BY <1>1, <1>3, HandleBlockQuiet
<1>5. Shift(a, u, t) /\ SameEof(a, u) /\ Noticed(a, u) /\ Steady(a, u, t)
  BY <1>4, QuietShift
<1>6. Shift(s, u, t) /\ SameEof(s, u) /\ Noticed(s, u)
  BY <1>2, <1>5, ShiftTransitive, EofTransitive, NoticedTransitive
<1>7. Sink[t] = FD => u.tx[t].data = s.tx[t].data
  BY <1>2, <1>4 DEF Quiet
<1> QED
  BY <1>2, <1>4, <1>6, <1>7

\* A whole write.
LEMMA HandleWriteShift ==
  ASSUME NEW s, Good(s), NEW t \in Threads, s.status[t] # "END",
         NEW put, Sink[t] = FD => put \in Put(s, t), NEW u, u = HandleWrite(s, t, put)
  PROVE  /\ Shift(s, u, t) /\ SameEof(s, u) /\ Noticed(s, u)
         /\ Sink[t] # FD /\ Unpolled(s, t) => Unpolled(u, t)
         /\ Sink[t] # FD /\ u.status[Sink[t]] = "WAIT" => ~ s.rx[Sink[t]].effect
         /\ u.status[t] = "WAIT" =>
              IF Sink[t] = FD THEN s.tx[t].data # << >> => u.blocked_enq[t]
              ELSE Room(s.rx[Sink[t]]) = 0 \/ s.tx[t].data = << >>
<1> DEFINE a == WriteSide(s, t, put)
<1>1. u = HandleBlock(a, t) /\ a = WriteSide(s, t, put)
  BY DEF HandleWrite
<1> HIDE DEF a
<1>2. /\ Shift(s, a, NoThread) /\ SameEof(s, a) /\ Noticed(s, a)
      /\ \A x \in Threads : Source[x] = FD => a.rx[x].blocked = s.rx[x].blocked
      /\ Sink[t] # FD /\ a.status[Sink[t]] = "WAIT" => ~ s.rx[Sink[t]].effect
      /\ a.status[t] = "WAIT" =>
           IF Sink[t] = FD THEN s.tx[t].data # << >> => a.tx[t].blocked
           ELSE Room(s.rx[Sink[t]]) = 0 \/ s.tx[t].data = << >>
  BY <1>1, WriteSideShift
<1>3. Good(a) /\ a.status[t] # "END" /\ Shift(s, a, t)
  <2>1. Good(a) /\ a.status[t] # "END"
    BY <1>2 DEF Shift, Steady
  <2> QED
    BY <1>2, <2>1, ShiftFor
<1>4. /\ Quiet(a, u, t) /\ u.status = a.status
      /\ Sink[t] = FD /\ a.tx[t].blocked => u.blocked_enq[t]
      /\ (u.blocked_enq[t] => \/ a.blocked_enq[t]
                              \/ Source[t] = FD /\ a.rx[t].blocked
                              \/ Sink[t] = FD /\ a.tx[t].blocked)
  BY <1>1, <1>3, HandleBlockQuiet
<1>5. Shift(a, u, t) /\ SameEof(a, u) /\ Noticed(a, u) /\ Steady(a, u, t)
  BY <1>4, QuietShift
<1>6. Shift(s, u, t) /\ SameEof(s, u) /\ Noticed(s, u)
  BY <1>2, <1>3, <1>5, ShiftTransitive, EofTransitive, NoticedTransitive
<1>7. ASSUME Sink[t] # FD, Unpolled(s, t) PROVE Unpolled(u, t)
  <2>1. Source[t] = FD => ~ a.rx[t].blocked /\ ~ u.rx[t].blocked
    BY <1>2, <1>4, <1>7 DEF Unpolled, Quiet
  <2>2. ~ a.blocked_enq[t]
    BY <1>2, <1>7, PipeAssumption DEF Unpolled, Shift, Steady
  <2> QED
    BY <1>4, <1>7, <2>1, <2>2 DEF Unpolled
<1> QED
  BY <1>2, <1>4, <1>6, <1>7

\* A read with its lazy flush.
LEMMA HandleReadOpShift ==
  ASSUME NEW s, Good(s), NEW t \in Threads, s.status[t] # "END",
         NEW got \in Got(s, t), NEW put \in Put(s, t), NEW u, u = HandleReadOp(s, t, got, put)
  PROVE  /\ Shift(s, u, t) /\ SameEof(s, u) /\ Noticed(s, u)
         /\ u.status[t] = "WAIT" =>
              IF Source[t] = FD THEN Room(s.rx[t]) > 0 => u.blocked_enq[t]
              ELSE Room(s.rx[t]) = 0 \/ s.tx[Source[t]].data = << >>
<1> DEFINE r == HandleRead(s, t, got)
<1>1. (u = HandleWrite(r, t, put) \/ u = r) /\ r = HandleRead(s, t, got)
  BY DEF HandleReadOp
<1> HIDE DEF r
<1>2. /\ Shift(s, r, t) /\ SameEof(s, r) /\ Noticed(s, r)
      /\ Sink[t] = FD => r.tx[t].data = s.tx[t].data
      /\ r.status[t] = "WAIT" =>
           IF Source[t] = FD THEN Room(s.rx[t]) > 0 => r.blocked_enq[t]
           ELSE Room(s.rx[t]) = 0 \/ s.tx[Source[t]].data = << >>
  BY <1>1, HandleReadShift
<1>3. Good(r) /\ r.status[t] # "END" /\ (Sink[t] = FD => put \in Put(r, t))
  BY <1>2 DEF Shift, Steady, Put
<1>4. CASE u = HandleWrite(r, t, put)
  <2>1. Shift(r, u, t) /\ SameEof(r, u) /\ Noticed(r, u)
    BY <1>3, <1>4, HandleWriteShift
  <2>2. Steady(r, u, t)
    BY <2>1 DEF Shift
  <2>3. Shift(s, u, t) /\ SameEof(s, u) /\ Noticed(s, u)
    BY <1>2, <2>1, <2>2, ShiftTransitive, EofTransitive, NoticedTransitive
  <2>4. (u.status[t] = "WAIT" => r.status[t] = "WAIT") /\ (r.blocked_enq[t] => u.blocked_enq[t])
    BY <2>2 DEF Steady
  <2> QED
    BY <1>2, <2>3, <2>4
<1>5. CASE u = r
  BY <1>2, <1>5
<1> QED
  BY <1>1, <1>4, <1>5

\* A splice as such.
LEMMA SplicedShift ==
  ASSUME NEW s, NEW u, NEW r \in Threads, NEW w \in Threads, Source[r] = w, Spliced(s, u, r, w), NEW t
  PROVE  Shift(s, u, t) /\ SameEof(s, u)
<1>1. SameEof(s, u)
  BY DEF Spliced, SameEof
<1>2. Steady(s, u, t) /\ Good(u)
  BY SameSteady DEF Spliced
<1>3. ASSUME NEW y \in Threads, Source[y] # FD, NEW v, Carries(s, y, v) PROVE Carries(u, y, v)
  <2>1. CASE y = r
    BY <1>3, <2>1 DEF Spliced, Carries
  <2>2. CASE y # r
    <3>1. Source[y] \in Threads /\ Source[y] # w
      BY <1>3, <2>2, PipeAssumption
    <3> QED
      BY <1>3, <2>2, <3>1 DEF Spliced, Carries
  <2> QED
    BY <2>1, <2>2
<1>4. \A x \in Threads : Source[x] = FD => u.rx[x] = s.rx[x]
  BY PipeAssumption DEF Spliced
<1> QED
  BY <1>1, <1>2, <1>3, <1>4 DEF Shift

\* A forward from a descriptor into a pipe.
LEMMA ForwardToPipeShift ==
  ASSUME NEW s, Good(s), NEW t \in Threads, Sink[t] # FD, NEW u, u = ForwardToPipe(s, t)
  PROVE  Shift(s, u, t) /\ SameEof(s, u) /\ Heeded(s, u)
<1> DEFINE r == Sink[t]
           a == PipeSplice(s, r, t)
           w == EnqueueWrite(a, t)
           b == EnqueueWriteReader(w, t)
<1>1. /\ a = PipeSplice(s, r, t) /\ w = EnqueueWrite(a, t) /\ b = EnqueueWriteReader(w, t)
      /\ (u = EnqueueRun(b, r) \/ u = w)
  BY DEF ForwardToPipe
<1>2. r \in Threads /\ Source[r] = t
  BY PipeAssumption
<1> HIDE DEF r, a, w, b
<1>3. Spliced(s, a, r, t) /\ Shift(s, a, t) /\ SameEof(s, a)
  <2>1. Spliced(s, a, r, t)
    BY <1>1, <1>2, SpliceSpliced
  <2> QED
    BY <1>2, <2>1, SplicedShift
<1>4. Waked(a, w, t) /\ w.rx = a.rx /\ (~ a.tx[t].effect \/ w.status[t] # "WAIT")
  BY <1>1, <1>3, EnqueueWriteWakes DEF Shift
<1>5. /\ Waked(w, b, t) /\ \A x \in Threads \ {r} : b.rx[x] = w.rx[x]
      /\ ~ w.rx[r].effect \/ (b.status[r] # "WAIT" /\ b.status[t] # "WAIT")
  BY <1>1, <1>4, EnqueueWriteReaderWakes DEF Waked, r
<1>6. Waked(a, u, t)
  <2>1. CASE u = EnqueueRun(b, r)
    <3>1. Quiet(b, u, t)
      BY <1>2, <1>5, <2>1, EnqueueRunQuiet DEF Waked
    <3> QED
      BY <1>4, <1>5, <3>1, QuietWaked, WakedTransitive
  <2>2. CASE u = w
    BY <1>4, <2>2
  <2> QED
    BY <1>1, <2>1, <2>2
<1>7. Shift(a, u, t) /\ SameEof(a, u)
  BY <1>6, WakedShift
<1>8. \A x \in Threads : u.status[x] = "WAIT" =>
        u.rx[x].effect = a.rx[x].effect /\ u.rx[x].data = a.rx[x].data /\ u.tx[x].data = a.tx[x].data
  <2>1. \A x \in Threads : u.rx[x].data = a.rx[x].data /\ u.tx[x].data = a.tx[x].data
    BY <1>6 DEF Waked, SameBytes
  <2>2. CASE u = EnqueueRun(b, r)
    <3>1. Quiet(b, u, t) /\ u.status[r] # "WAIT"
      BY <1>2, <1>5, <2>2, EnqueueRunQuiet DEF Waked
    <3> QED
      BY <1>4, <1>5, <2>1, <3>1 DEF Quiet
  <2>3. CASE u = w
    BY <1>4, <2>1, <2>3
  <2> QED
    BY <1>1, <2>2, <2>3
<1>9. u.status[t] = "WAIT" => ~ a.tx[t].effect
  <2>1. CASE u = EnqueueRun(b, r)
    <3>1. Steady(b, u, t) /\ Steady(w, b, t)
      BY <1>2, <1>5, <2>1, EnqueueRunQuiet DEF Waked, Quiet
    <3> QED
      BY <1>4, <3>1 DEF Steady
  <2>2. CASE u = w
    BY <1>4, <2>2
  <2> QED
    BY <1>1, <2>1, <2>2
<1>10. Heeded(s, u)
  <2>1. \A x \in Threads \ {r} : a.rx[x] = s.rx[x]
    BY <1>3 DEF Spliced
  <2>2. /\ a.rx[r].data = s.rx[r].data \/ a.rx[r].effect
        /\ s.rx[r].effect => a.rx[r].effect
        /\ Source[r] # FD
    BY <1>2, <1>3, PipeAssumption DEF Spliced
  <2>3. \A x \in Threads : u.status[x] = "WAIT" => a.tx[x].data = s.tx[x].data
    BY <1>3, <1>9 DEF Spliced
  <2> QED
    BY <1>8, <2>1, <2>2, <2>3 DEF Heeded
<1> QED
  BY <1>3, <1>7, <1>10, ShiftTransitive, EofTransitive

\* A forward.
LEMMA HandleForwardShift ==
  ASSUME NEW s, Good(s), NEW t \in Threads, s.status[t] # "END",
         NEW got \in Got(s, t), NEW put \in Put(s, t), NEW u, u = HandleForward(s, t, got, put)
  PROVE  /\ Shift(s, u, t) /\ SameEof(s, u) /\ Heeded(s, u)
         /\ ~ (Source[t] = FD /\ Sink[t] # FD) => Noticed(s, u)
         /\ u.status[t] = "WAIT" /\ Sink[t] = FD /\ s.tx[t].data # << >> => u.blocked_enq[t]
         /\ u.status[t] = "WAIT" /\ Source[t] # FD =>
              Room(s.rx[t]) = 0 \/ s.tx[Source[t]].data = << >>
<1> DEFINE r == ReadSide(s, t, got)
           a == IF Source[t] = FD /\ Sink[t] # FD THEN ForwardToPipe(r, t) ELSE WriteSide(r, t, put)
<1>1. u = HandleBlock(a, t) /\ r = ReadSide(s, t, got)
  BY DEF HandleForward
<1> HIDE DEF r
<1>2. /\ Shift(s, r, t) /\ SameEof(s, r) /\ Noticed(s, r)
      /\ Sink[t] = FD => r.tx[t].data = s.tx[t].data
      /\ r.status[t] = "WAIT" /\ Source[t] # FD =>
           Room(s.rx[t]) = 0 \/ s.tx[Source[t]].data = << >>
  BY <1>1, ReadSideShift
<1>3. Good(r) /\ r.status[t] # "END" /\ (Sink[t] = FD => put \in Put(r, t))
  BY <1>2 DEF Shift, Steady, Put
<1>4. /\ Shift(r, a, t) /\ SameEof(r, a) /\ Heeded(r, a)
      /\ ~ (Source[t] = FD /\ Sink[t] # FD) => Noticed(r, a)
      /\ a.status[t] = "WAIT" /\ Sink[t] = FD /\ r.tx[t].data # << >> => a.tx[t].blocked
  <2>1. CASE Source[t] = FD /\ Sink[t] # FD
    <3>1. a = ForwardToPipe(r, t)
      BY <2>1
    <3> HIDE DEF a
    <3> QED
      BY <1>3, <2>1, <3>1, ForwardToPipeShift
  <2>2. CASE ~ (Source[t] = FD /\ Sink[t] # FD)
    <3>1. a = WriteSide(r, t, put)
      BY <2>2
    <3> HIDE DEF a
    <3>2. /\ Shift(r, a, t) /\ SameEof(r, a) /\ Noticed(r, a)
          /\ a.status[t] = "WAIT" =>
               IF Sink[t] = FD THEN r.tx[t].data # << >> => a.tx[t].blocked
               ELSE Room(r.rx[Sink[t]]) = 0 \/ r.tx[t].data = << >>
      BY <1>3, <3>1, WriteSideShift
    <3> QED
      BY <3>2, NoticedHeeded
  <2> QED
    BY <2>1, <2>2
<1> HIDE DEF a
<1>5. Good(a) /\ a.status[t] # "END"
  BY <1>3, <1>4 DEF Shift, Steady
<1>6. /\ Quiet(a, u, t) /\ u.status = a.status
      /\ Sink[t] = FD /\ a.tx[t].blocked => u.blocked_enq[t]
  BY <1>1, <1>5, HandleBlockQuiet
<1>7. Shift(a, u, t) /\ SameEof(a, u) /\ Noticed(a, u) /\ Steady(a, u, t) /\ Steady(r, a, t)
  BY <1>4, <1>6, QuietShift DEF Shift
<1>8. Shift(s, u, t) /\ SameEof(s, u)
  BY <1>2, <1>4, <1>7, ShiftTransitive, EofTransitive
<1>9. ~ (Source[t] = FD /\ Sink[t] # FD) => Noticed(s, u)
  BY <1>2, <1>4, <1>7, NoticedTransitive
<1>10. u.status[t] = "WAIT" => a.status[t] = "WAIT" /\ r.status[t] = "WAIT"
  BY <1>6, <1>7 DEF Steady
<1>11. u.status[t] = "WAIT" /\ Sink[t] = FD /\ s.tx[t].data # << >> => u.blocked_enq[t]
  BY <1>2, <1>4, <1>6, <1>10
<1>12. Heeded(s, u)
  BY <1>2, <1>4, <1>7, NoticedHeeded, HeededTransitive
<1> QED
  BY <1>2, <1>8, <1>9, <1>10, <1>11, <1>12

\* An EOF mark set,
LEMMA MarkEof ==
  ASSUME NEW g, IsRing(g), NEW h, h = SetEof(g, TRUE)
  PROVE  IsRing(h) /\ h.data = g.data /\ h.eof /\ h.blocked = g.blocked
<1>1. CASE g.eof = TRUE
  BY <1>1 DEF SetEof
<1>2. CASE g.eof # TRUE
  <2>1. h = [g EXCEPT !.eof = TRUE, !.effect = TRUE]
    BY <1>2 DEF SetEof
  <2> QED
    BY <2>1 DEF IsRing
<1> QED
  BY <1>1, <1>2

\* and taken off.
LEMMA DrainEof ==
  ASSUME NEW g, IsRing(g), NEW h, h = SetEof(g, FALSE)
  PROVE  IsRing(h) /\ h.data = g.data /\ ~ h.eof /\ h.blocked = g.blocked
<1>1. CASE g.eof = FALSE
  BY <1>1 DEF SetEof
<1>2. CASE g.eof # FALSE
  <2>1. h = [g EXCEPT !.eof = FALSE, !.effect = TRUE]
    BY <1>2 DEF SetEof
  <2> QED
    BY <2>1 DEF IsRing
<1> QED
  BY <1>1, <1>2

\* vk_hup's attempts.
LEMMA HandleHupShift ==
  ASSUME NEW s, Good(s), NEW t \in Threads, s.status[t] # "END", Sink[t] # FD,
         NEW u, u = HandleHup(s, t)
  PROVE  Waked(s, u, t) /\ Noticed(s, u) /\ (Unpolled(s, t) => Unpolled(u, t))
<1> DEFINE a == EnqueueWrite(s, t)
           b == IF s.tx[t].eof THEN s ELSE EnqueueWriteReader(a, t)
<1>1. u = HandleBlock(b, t) /\ a = EnqueueWrite(s, t)
  BY DEF HandleHup
<1> HIDE DEF a
<1>2. Waked(s, b, NoThread) /\ Noticed(s, b)
  <2>1. CASE s.tx[t].eof
    BY <2>1 DEF Waked, Steady, SameBytes, Noticed
  <2>2. CASE ~ s.tx[t].eof
    <3>1. Waked(s, a, NoThread) /\ a.rx = s.rx
      BY <1>1, EnqueueWriteWakes
    <3>2. b = EnqueueWriteReader(a, t)
      BY <2>2
    <3> HIDE DEF b
    <3>3. /\ Waked(a, b, NoThread) /\ \A x \in Threads \ {Sink[t]} : b.rx[x] = a.rx[x]
          /\ ~ a.rx[Sink[t]].effect \/ (b.status[Sink[t]] # "WAIT" /\ b.status[t] # "WAIT")
      BY <3>1, <3>2, EnqueueWriteReaderWakes DEF Waked
    <3>4. Waked(s, b, NoThread)
      BY <3>1, <3>3, WakedTransitive
    <3>5. \A x \in Threads : b.status[x] = "WAIT" /\ s.rx[x].effect => b.rx[x].effect
      BY <3>1, <3>3
    <3> QED
      BY <3>4, <3>5 DEF Waked, SameBytes, Noticed
  <2> QED
    BY <2>1, <2>2
<1> HIDE DEF b
<1>3. Good(b) /\ b.status[t] # "END" /\ Waked(s, b, t)
  BY <1>2, PipeAssumption DEF Waked, Steady
<1>4. /\ Quiet(b, u, t)
      /\ (u.blocked_enq[t] => \/ b.blocked_enq[t]
                              \/ Source[t] = FD /\ b.rx[t].blocked
                              \/ Sink[t] = FD /\ b.tx[t].blocked)
  BY <1>1, <1>3, HandleBlockQuiet
<1>5. Waked(s, u, t) /\ Noticed(s, u)
  <2>1. Noticed(b, u) /\ Steady(b, u, t)
    BY <1>4, QuietShift
  <2> QED
    BY <1>2, <1>3, <1>4, <2>1, QuietWaked, WakedTransitive, NoticedTransitive
<1>6. ASSUME Unpolled(s, t) PROVE Unpolled(u, t)
  <2>1. Source[t] = FD => ~ b.rx[t].blocked /\ ~ u.rx[t].blocked
    BY <1>2, <1>4, <1>6 DEF Unpolled, Waked, SameBytes, Quiet
  <2>2. ~ b.blocked_enq[t]
    BY <1>2, <1>6, PipeAssumption DEF Unpolled, Waked, Steady
  <2> QED
    BY <1>4, <2>1, <2>2 DEF Unpolled
<1> QED
  BY <1>5, <1>6

\* The close of a descriptor, or of a pipe: then the EOF is marked.
LEMMA HandleTxCloseShift ==
  ASSUME NEW s, Good(s), NEW t \in Threads, s.status[t] # "END", NEW u, u = HandleTxClose(s, t)
  PROVE  /\ Shift(s, u, t) /\ Noticed(s, u) /\ u.status[t] # "WAIT"
         /\ Sink[t] = FD => SameEof(s, u)
         /\ Sink[t] # FD => u.tx[t].eof /\ (Unpolled(s, t) => Unpolled(u, t))
         /\ \A x \in Threads \ {t} : u.tx[x].eof = s.tx[x].eof
<1> DEFINE g == IF Sink[t] = FD THEN [s.tx[t] EXCEPT !.effect = TRUE] ELSE SetEof(s.tx[t], TRUE)
           c == IF Sink[t] = FD THEN [s EXCEPT !.closed[t] = TRUE] ELSE s
           a == [c EXCEPT !.tx[t] = g]
           w == EnqueueWrite(a, t)
           b == IF Sink[t] = FD THEN w ELSE EnqueueWriteReader(w, t)
           h == HandleBlock(b, t)
<1>1. IsProcess(s) /\ IsRing(s.tx[t])
  BY DEF Good, IsProcess
<1>2. u = Ready(h, t)
  <2>1. CASE Sink[t] = FD
    <3>1. a = [s EXCEPT !.closed[t] = TRUE, !.tx[t].effect = TRUE]
      BY <1>1, <2>1 DEF IsProcess
    <3> HIDE DEF a
    <3> QED
      BY <2>1, <3>1 DEF HandleTxClose
  <2>2. CASE Sink[t] # FD
    BY <2>2 DEF HandleTxClose
  <2> QED
    BY <2>1, <2>2
<1>3. IsRing(g) /\ g.data = s.tx[t].data /\ g.blocked = s.tx[t].blocked
      /\ (Sink[t] = FD => g.eof = s.tx[t].eof) /\ (Sink[t] # FD => g.eof)
  <2>1. CASE Sink[t] = FD
    BY <1>1, <2>1 DEF IsRing
  <2>2. CASE Sink[t] # FD
    <3>1. g = SetEof(s.tx[t], TRUE)
      BY <2>2
    <3> HIDE DEF g
    <3>2. IsRing(g) /\ g.data = s.tx[t].data /\ g.eof /\ g.blocked = s.tx[t].blocked
      BY <1>1, <3>1, MarkEof
    <3> QED
      BY <2>2, <3>2
  <2> QED
    BY <2>1, <2>2
<1> HIDE DEF g
<1>4. /\ Good(c) /\ c.rx = s.rx /\ c.tx = s.tx /\ Steady(s, c, NoThread)
  <2>1. CASE Sink[t] = FD
    <3>1. c = [s EXCEPT !.closed[t] = TRUE]
      BY <2>1
    <3>2. /\ IsProcess(c) /\ c.rx = s.rx /\ c.tx = s.tx
          /\ c.run_q = s.run_q /\ c.run_enq = s.run_enq /\ c.run = s.run
          /\ c.blocked_q = s.blocked_q /\ c.blocked_enq = s.blocked_enq /\ c.blocked = s.blocked
          /\ c.op = s.op /\ c.need = s.need /\ c.inside = s.inside /\ c.running = s.running
          /\ c.status = s.status
      BY <1>1, <3>1 DEF IsProcess
    <3> HIDE DEF c
    <3> QED
      BY <3>2 DEF Good, Steady
  <2>2. CASE Sink[t] # FD
    BY <2>2 DEF Steady
  <2> QED
    BY <2>1, <2>2
<1>5. a = WithTx(c, t, g)
  BY DEF WithTx
<1> HIDE DEF c, a
<1>6. /\ Good(a) /\ SameQueues(c, a) /\ a.rx = c.rx /\ a.tx[t] = g
      /\ \A y \in Threads \ {t} : a.tx[y] = c.tx[y]
  BY <1>3, <1>4, <1>5, SetTx
<1>7. Waked(a, w, NoThread) /\ w.rx = a.rx
  BY <1>6, EnqueueWriteWakes
<1> HIDE DEF w
<1>8. Waked(a, b, NoThread) /\ \A x \in Threads : b.status[x] = "WAIT" /\ a.rx[x].effect => b.rx[x].effect
  <2>1. CASE Sink[t] = FD
    BY <1>7, <2>1
  <2>2. CASE Sink[t] # FD
    <3>1. b = EnqueueWriteReader(w, t)
      BY <2>2
    <3> HIDE DEF b
    <3>2. /\ Waked(w, b, NoThread) /\ \A x \in Threads \ {Sink[t]} : b.rx[x] = w.rx[x]
          /\ ~ w.rx[Sink[t]].effect \/ (b.status[Sink[t]] # "WAIT" /\ b.status[t] # "WAIT")
      BY <1>7, <2>2, <3>1, EnqueueWriteReaderWakes DEF Waked
    <3>3. \A x \in Threads : b.status[x] = "WAIT" /\ a.rx[x].effect => b.rx[x].effect
      BY <1>7, <3>2
    <3> QED
      BY <1>7, <3>2, <3>3, WakedTransitive
  <2> QED
    BY <2>1, <2>2
<1> HIDE DEF b
<1>9. Good(b) /\ b.status[t] # "END"
  BY <1>4, <1>6, <1>8 DEF Waked, Steady, SameQueues
<1>10. /\ Quiet(b, h, t)
       /\ (h.blocked_enq[t] => \/ b.blocked_enq[t]
                               \/ Source[t] = FD /\ b.rx[t].blocked
                               \/ Sink[t] = FD /\ b.tx[t].blocked)
  BY <1>9, HandleBlockQuiet
<1> HIDE DEF h
<1>11. Quiet(h, u, NoThread) /\ u.status[t] # "WAIT"
  BY <1>2, <1>10, ReadyQuiet DEF Quiet
<1>12. Steady(s, u, t) /\ Good(u)
  BY <1>4, <1>6, <1>8, <1>10, <1>11, PipeAssumption DEF Steady, SameQueues, Waked, Quiet
<1>13. \A x \in Threads :
         /\ u.rx[x].data = s.rx[x].data /\ u.tx[x].data = s.tx[x].data
         /\ u.rx[x].blocked = s.rx[x].blocked
         /\ (x = t => u.tx[x].eof = g.eof) /\ (x # t => u.tx[x].eof = s.tx[x].eof)
  <2>1. u.rx = b.rx /\ u.tx = b.tx
    BY <1>10, <1>11 DEF Quiet
  <2>2. \A x \in Threads :
          /\ a.rx[x].data = s.rx[x].data /\ a.tx[x].data = s.tx[x].data
          /\ a.rx[x].blocked = s.rx[x].blocked
          /\ (x = t => a.tx[x].eof = g.eof) /\ (x # t => a.tx[x].eof = s.tx[x].eof)
    BY <1>3, <1>4, <1>6
  <2> QED
    BY <1>8, <2>1, <2>2 DEF Waked, SameBytes
<1>14. Noticed(s, u)
  <2>1. u.rx = b.rx /\ \A x \in Threads : u.status[x] = "WAIT" => b.status[x] = "WAIT"
    BY <1>10, <1>11 DEF Quiet, Steady
  <2>2. \A x \in Threads : u.status[x] = "WAIT" /\ s.rx[x].effect => u.rx[x].effect
    BY <1>4, <1>6, <1>8, <2>1
  <2> QED
    BY <1>13, <2>2 DEF Noticed
<1>15. Shift(s, u, t)
  <2>1. \A r \in Threads : Source[r] # FD => Source[r] \in Threads
    BY PipeAssumption
  <2>2. \A r \in Threads : Source[r] # FD => \A v : Carries(s, r, v) => Carries(u, r, v)
    BY <1>13, <2>1 DEF Carries
  <2> QED
    BY <1>12, <1>13, <2>2 DEF Shift
<1>16. ASSUME Sink[t] # FD, Unpolled(s, t) PROVE Unpolled(u, t)
  <2>1. Source[t] = FD => ~ b.rx[t].blocked /\ ~ u.rx[t].blocked
    BY <1>4, <1>6, <1>8, <1>13, <1>16 DEF Unpolled, Waked, SameBytes
  <2>2. ~ b.blocked_enq[t]
    BY <1>4, <1>6, <1>8, <1>16, PipeAssumption DEF Unpolled, Waked, Steady, SameQueues
  <2>3. ~ h.blocked_enq[t]
    BY <1>10, <1>16, <2>1, <2>2
  <2>4. ~ u.blocked_enq[t]
    BY <1>11, <2>3, PipeAssumption DEF Quiet, Steady
  <2> QED
    BY <2>1, <2>4 DEF Unpolled
<1>17. Sink[t] = FD => SameEof(s, u)
  BY <1>3, <1>13 DEF SameEof
<1>18. Sink[t] # FD => u.tx[t].eof
  BY <1>3, <1>13
<1> QED
  BY <1>11, <1>13, <1>14, <1>15, <1>16, <1>17, <1>18

Hungup(s, t) == [HandleReadhup(s, t) EXCEPT !.rx[t] = SetEof(@, FALSE)]

\* The reader takes the EOF off its writer's ring and off its own.
LEMMA ReadhupShift ==
  ASSUME NEW s, Good(s), NEW t \in Threads, s.status[t] = "RUN", Source[t] # FD, s.tx[Source[t]].eof,
         NEW u, u = Hungup(s, t)
  PROVE  /\ Shift(s, u, t) /\ Noticed(s, u) /\ ~ u.tx[Source[t]].eof
         /\ \A x \in Threads \ {Source[t]} : u.tx[x].eof = s.tx[x].eof
         /\ Sink[t] # FD /\ Unpolled(s, t) => Unpolled(u, t)
<1> DEFINE w == Source[t]
           g == SetEof(s.tx[w], FALSE)
           h == SetEof(s.rx[t], TRUE)
           c == [s EXCEPT !.tx[w] = g]
           a == [c EXCEPT !.rx[t] = h]
           b == EnqueueRead(a, t)
           d == EnqueueReadWriter(b, t)
           e == HandleBlock(d, t)
           k == SetEof(e.rx[t], FALSE)
<1>1. w \in Threads
  BY PipeAssumption
<1>2. IsProcess(s) /\ IsRing(s.tx[w]) /\ IsRing(s.rx[t])
  BY <1>1 DEF Good, IsProcess
<1>3. e = HandleReadhup(s, t)
  <2>1. a = [s EXCEPT !.tx[w] = g, !.rx[t] = h]
    OBVIOUS
  <2> HIDE DEF a
  <2>2. s.tx[w].eof
    OBVIOUS
  <2> QED
    BY <2>1, <2>2 DEF HandleReadhup
<1>4. u = WithRx(e, t, k)
  BY <1>3 DEF Hungup, WithRx
<1> HIDE DEF e
<1>5. IsRing(g) /\ g.data = s.tx[w].data /\ ~ g.eof /\ g.blocked = s.tx[w].blocked
  BY <1>2, DrainEof
<1>6. IsRing(h) /\ h.data = s.rx[t].data /\ h.blocked = s.rx[t].blocked
  BY <1>2, MarkEof
<1>7. c = WithTx(s, w, g) /\ a = WithRx(c, t, h)
  BY DEF WithRx, WithTx
<1> HIDE DEF g, h, c, a, w
<1>8. /\ Good(c) /\ SameQueues(s, c) /\ c.rx = s.rx /\ c.tx[w] = g
      /\ \A y \in Threads \ {w} : c.tx[y] = s.tx[y]
  BY <1>1, <1>5, <1>7, SetTx
<1>9. /\ Good(a) /\ SameQueues(c, a) /\ a.tx = c.tx /\ a.rx[t] = h
      /\ \A y \in Threads \ {t} : a.rx[y] = c.rx[y]
  BY <1>6, <1>7, <1>8, SetRx
<1>10. Waked(a, b, NoThread) /\ \A x \in Threads \ {t} : b.rx[x] = a.rx[x]
  BY <1>9, EnqueueReadWakes
<1> HIDE DEF b
<1>11. Waked(b, d, NoThread) /\ d.rx = b.rx
  BY <1>10, EnqueueReadWriterWakes DEF Waked
<1>12. Waked(a, d, NoThread)
  BY <1>10, <1>11, WakedTransitive
<1> HIDE DEF d
<1>13. Good(d) /\ d.status[t] # "END"
  BY <1>8, <1>9, <1>12 DEF Waked, Steady, SameQueues
<1>14. /\ Quiet(d, e, t)
       /\ (e.blocked_enq[t] => \/ d.blocked_enq[t]
                               \/ Source[t] = FD /\ d.rx[t].blocked
                               \/ Sink[t] = FD /\ d.tx[t].blocked)
  BY <1>13, HandleBlockQuiet DEF e
<1>15. IsRing(k) /\ k.data = e.rx[t].data /\ k.blocked = e.rx[t].blocked
  <2>1. IsRing(e.rx[t])
    BY <1>14 DEF Quiet, Good, IsProcess
  <2> QED
    BY <2>1, DrainEof
<1> HIDE DEF k
<1>17. /\ Good(u) /\ SameQueues(e, u) /\ u.tx = e.tx /\ u.rx[t] = k
       /\ \A y \in Threads \ {t} : u.rx[y] = e.rx[y]
  <2>1. Good(e)
    BY <1>14 DEF Quiet
  <2> QED
    BY <1>4, <1>15, <2>1, SetRx
<1>18. Steady(s, u, t)
  <2>1. Steady(s, d, NoThread)
    BY <1>8, <1>9, <1>12 DEF Steady, SameQueues, Waked
  <2> QED
    BY <1>14, <1>17, <2>1, PipeAssumption DEF Steady, SameQueues, Quiet
<1>19. \A x \in Threads :
         /\ u.rx[x].data = s.rx[x].data /\ u.tx[x].data = s.tx[x].data
         /\ u.rx[x].blocked = s.rx[x].blocked
         /\ (x = w => ~ u.tx[x].eof) /\ (x # w => u.tx[x].eof = s.tx[x].eof)
  <2>1. \A x \in Threads :
         /\ a.rx[x].data = s.rx[x].data /\ a.tx[x].data = s.tx[x].data
         /\ a.rx[x].blocked = s.rx[x].blocked
         /\ (x = w => ~ a.tx[x].eof) /\ (x # w => a.tx[x].eof = s.tx[x].eof)
    BY <1>1, <1>5, <1>6, <1>8, <1>9
  <2>2. \A x \in Threads :
         /\ d.rx[x].data = a.rx[x].data /\ d.tx[x].data = a.tx[x].data
         /\ d.rx[x].blocked = a.rx[x].blocked /\ d.tx[x].eof = a.tx[x].eof
    BY <1>12 DEF Waked, SameBytes
  <2>3. \A x \in Threads :
         /\ u.rx[x].data = d.rx[x].data /\ u.tx[x].data = d.tx[x].data
         /\ u.rx[x].blocked = d.rx[x].blocked /\ u.tx[x].eof = d.tx[x].eof
    BY <1>14, <1>15, <1>17 DEF Quiet
  <2>4. \A x \in Threads : u.tx[x].eof = a.tx[x].eof
    BY <2>2, <2>3
  <2>5. ASSUME NEW x \in Threads
        PROVE  (x = w => ~ u.tx[x].eof) /\ (x # w => u.tx[x].eof = s.tx[x].eof)
    <3>1. u.tx[x].eof = a.tx[x].eof /\ (x = w => ~ a.tx[x].eof) /\ (x # w => a.tx[x].eof = s.tx[x].eof)
      BY <2>1, <2>4
    <3> QED
      BY <3>1
  <2> QED
    BY <2>1, <2>2, <2>3, <2>5
<1>20. Noticed(s, u)
  <2>1. u.status[t] # "WAIT"
    BY <1>18 DEF Steady
  <2>2. \A x \in Threads \ {t} : u.rx[x] = s.rx[x]
    BY <1>8, <1>9, <1>10, <1>11, <1>14, <1>17 DEF Quiet
  <2> QED
    BY <1>19, <2>1, <2>2 DEF Noticed
<1>21. Shift(s, u, t)
  <2>1. \A r \in Threads : Source[r] # FD => Source[r] \in Threads
    BY PipeAssumption
  <2>2. \A r \in Threads : Source[r] # FD => \A v : Carries(s, r, v) => Carries(u, r, v)
    BY <1>19, <2>1 DEF Carries
  <2> QED
    BY <1>17, <1>18, <1>19, <2>2 DEF Shift
<1>22. ASSUME Sink[t] # FD, Unpolled(s, t) PROVE Unpolled(u, t)
  <2>1. ~ d.blocked_enq[t]
    BY <1>8, <1>9, <1>12, <1>22, PipeAssumption DEF Unpolled, Waked, Steady, SameQueues
  <2>2. ~ u.blocked_enq[t]
    BY <1>14, <1>17, <1>22, <2>1 DEF SameQueues
  <2> QED
    BY <2>2 DEF Unpolled
<1> QED
  BY <1>1, <1>19, <1>20, <1>21, <1>22 DEF w

\* What an attempt at the operation of t leads to.
Tried(s, u, t) ==
  /\ Shift(s, u, t)
  /\ \A x \in Threads : u.tx[x].eof = s.tx[x].eof \/ (x = t /\ s.op[t] = "TX_CLOSE" /\ Sink[t] # FD)
  /\ s.op[t] = "TX_CLOSE" /\ Sink[t] # FD => u.tx[t].eof
  /\ Sink[t] # FD /\ s.op[t] \notin Reading \cup {"FORWARD"} /\ Unpolled(s, t) => Unpolled(u, t)
  /\ Heeded(s, u)
  /\ (s.op[t] = "FORWARD" => ~ (Source[t] = FD /\ Sink[t] # FD)) => Noticed(s, u)
  /\ s.op[t] \in Writing /\ Sink[t] # FD /\ u.status[Sink[t]] = "WAIT" => ~ s.rx[Sink[t]].effect
  /\ u.status[t] = "WAIT" =>
       /\ s.op[t] \in Reading => IF Source[t] = FD THEN Room(s.rx[t]) > 0 => u.blocked_enq[t]
                                 ELSE Room(s.rx[t]) = 0 \/ s.tx[Source[t]].data = << >>
       /\ s.op[t] \in Writing => IF Sink[t] = FD THEN s.tx[t].data # << >> => u.blocked_enq[t]
                                 ELSE Room(s.rx[Sink[t]]) = 0 \/ s.tx[t].data = << >>
       /\ s.op[t] = "FORWARD" => /\ Sink[t] = FD /\ s.tx[t].data # << >> => u.blocked_enq[t]
                                 /\ Source[t] # FD => Room(s.rx[t]) = 0 \/ s.tx[Source[t]].data = << >>

\* vk_socket_handler.
LEMMA HandlerTried ==
  ASSUME NEW s, Good(s), NEW t \in Threads, s.status[t] # "END", s.op[t] = "HUP" => Sink[t] # FD,
         NEW got \in Got(s, t), NEW put \in Put(s, t), NEW u, u = Handler(s, t, got, put)
  PROVE  Tried(s, u, t)
<1>1. s.op[t] \in Ops \cup {"NONE"}
  BY DEF Good, IsProcess
<1>2. CASE s.op[t] = "NONE"
  <2>1. u = s
    BY <1>2 DEF Handler
  <2>2. Quiet(s, u, t)
    BY <2>1 DEF Quiet, Steady
  <2>3. Shift(s, u, t) /\ SameEof(s, u) /\ Noticed(s, u) /\ Heeded(s, u)
    BY <2>2, QuietShift, NoticedHeeded
  <2> QED
    BY <1>2, <2>1, <2>3 DEF Tried, SameEof, Reading, Writing
<1>3. CASE s.op[t] \in {"WRITE", "FLUSH"}
  <2>1. u = HandleWrite(s, t, put)
    BY <1>3 DEF Handler
  <2>2. /\ Shift(s, u, t) /\ SameEof(s, u) /\ Noticed(s, u)
        /\ Sink[t] # FD /\ Unpolled(s, t) => Unpolled(u, t)
        /\ Sink[t] # FD /\ u.status[Sink[t]] = "WAIT" => ~ s.rx[Sink[t]].effect
        /\ u.status[t] = "WAIT" =>
             IF Sink[t] = FD THEN s.tx[t].data # << >> => u.blocked_enq[t]
             ELSE Room(s.rx[Sink[t]]) = 0 \/ s.tx[t].data = << >>
    BY <2>1, HandleWriteShift
  <2> QED
    BY <1>3, <2>2, NoticedHeeded DEF Tried, SameEof, Reading, Writing
<1>4. CASE s.op[t] \in {"READ", "POLLREAD"}
  <2>1. u = HandleReadOp(s, t, got, put)
    BY <1>4 DEF Handler
  <2>2. /\ Shift(s, u, t) /\ SameEof(s, u) /\ Noticed(s, u)
        /\ u.status[t] = "WAIT" =>
             IF Source[t] = FD THEN Room(s.rx[t]) > 0 => u.blocked_enq[t]
             ELSE Room(s.rx[t]) = 0 \/ s.tx[Source[t]].data = << >>
    BY <2>1, HandleReadOpShift
  <2> QED
    BY <1>4, <2>2, NoticedHeeded DEF Tried, SameEof, Reading, Writing
<1>5. CASE s.op[t] = "FORWARD"
  <2>1. u = HandleForward(s, t, got, put)
    BY <1>5 DEF Handler
  <2>2. /\ Shift(s, u, t) /\ SameEof(s, u) /\ Heeded(s, u)
        /\ ~ (Source[t] = FD /\ Sink[t] # FD) => Noticed(s, u)
        /\ u.status[t] = "WAIT" /\ Sink[t] = FD /\ s.tx[t].data # << >> => u.blocked_enq[t]
        /\ u.status[t] = "WAIT" /\ Source[t] # FD =>
             Room(s.rx[t]) = 0 \/ s.tx[Source[t]].data = << >>
    BY <2>1, HandleForwardShift
  <2> QED
    BY <1>5, <2>2 DEF Tried, SameEof, Reading, Writing
<1>6. CASE s.op[t] = "HUP"
  <2>1. u = HandleHup(s, t)
    BY <1>6 DEF Handler
  <2>2. Waked(s, u, t) /\ Noticed(s, u) /\ (Unpolled(s, t) => Unpolled(u, t))
    BY <1>6, <2>1, HandleHupShift
  <2>3. Shift(s, u, t) /\ SameEof(s, u) /\ Heeded(s, u)
    BY <2>2, WakedShift, NoticedHeeded
  <2> QED
    BY <1>6, <2>2, <2>3 DEF Tried, SameEof, Reading, Writing
<1>7. CASE s.op[t] = "TX_CLOSE"
  <2>1. u = HandleTxClose(s, t)
    BY <1>7 DEF Handler
  <2>2. /\ Shift(s, u, t) /\ Noticed(s, u) /\ u.status[t] # "WAIT"
        /\ Sink[t] = FD => SameEof(s, u)
        /\ Sink[t] # FD => u.tx[t].eof /\ (Unpolled(s, t) => Unpolled(u, t))
        /\ \A x \in Threads \ {t} : u.tx[x].eof = s.tx[x].eof
    BY <2>1, HandleTxCloseShift
  <2> QED
    BY <1>7, <2>2, NoticedHeeded DEF Tried, SameEof, Reading, Writing
<1> QED
  BY <1>1, <1>2, <1>3, <1>4, <1>5, <1>6, <1>7 DEF Ops

----------------------------------------------------------------------------
(* A coroutine's own part of a step *)

\* Nothing but what coroutine t has for itself is different in u.
Own(s, u, t) ==
  /\ DOMAIN u = DOMAIN s
  /\ u.run_q = s.run_q /\ u.run_enq = s.run_enq /\ u.run = s.run
  /\ u.blocked_q = s.blocked_q /\ u.blocked_enq = s.blocked_enq /\ u.blocked = s.blocked
  /\ u.running = s.running /\ u.closed = s.closed
  /\ DOMAIN u.status = Threads /\ DOMAIN u.op = Threads /\ DOMAIN u.need = Threads
  /\ DOMAIN u.inside = Threads /\ DOMAIN u.rx = Threads /\ DOMAIN u.tx = Threads
  /\ \A x \in Threads \ {t} :
       /\ u.status[x] = s.status[x] /\ u.op[x] = s.op[x] /\ u.need[x] = s.need[x]
       /\ u.inside[x] = s.inside[x] /\ u.rx[x] = s.rx[x] /\ u.tx[x] = s.tx[x]

\* The part of t is in its range.
OwnOK(u, t) ==
  /\ u.status[t] \in {"RUN", "WAIT", "ERR"} /\ u.op[t] \in Ops \cup {"NONE"}
  /\ u.need[t] \in 0 .. MaxLen /\ u.inside[t] \in BOOLEAN
  /\ IsRing(u.rx[t]) /\ IsRing(u.tx[t])

\* Such a change leaves the queues in order.
LEMMA OwnGood ==
  ASSUME NEW s, Good(s), NEW t \in Threads, NEW u, Own(s, u, t), OwnOK(u, t)
  PROVE  Good(u)
<1>1. IsProcess(s)
  BY DEF Good
<1>2. \A x \in Threads :
        /\ u.status[x] \in {"RUN", "WAIT", "ERR", "END"} /\ u.op[x] \in Ops \cup {"NONE"}
        /\ u.need[x] \in 0 .. MaxLen /\ u.inside[x] \in BOOLEAN
        /\ IsRing(u.rx[x]) /\ IsRing(u.tx[x])
  BY <1>1, ZenonT(40) DEF Own, OwnOK, IsProcess
<1>3. IsProcess(u)
  BY <1>1, <1>2 DEF IsProcess, Own
<1>4. \A x \in Threads : u.status[x] = "END" => s.status[x] = "END"
  BY DEF Own, OwnOK
<1> QED
  BY <1>3, <1>4 DEF Good, Own

\* The others have what they had, and nobody new is registered.
Apart(s, u, t) ==
  /\ \A x \in Threads \ {t} : /\ u.status[x] = s.status[x] /\ u.op[x] = s.op[x] /\ u.inside[x] = s.inside[x]
                              /\ u.rx[x] = s.rx[x] /\ u.tx[x] = s.tx[x]
                              /\ u.blocked_enq[x] <=> s.blocked_enq[x]
  /\ u.blocked_enq[t] => s.blocked_enq[t]

\* An own change sets nobody else in motion.
LEMMA OwnApart ==
  ASSUME NEW s, NEW u, NEW t, Own(s, u, t)
  PROVE  Apart(s, u, t)
BY DEF Own, Apart

\* It lets the others sleep on.
LEMMA ApartSleep ==
  ASSUME NEW s, NEW t, NEW u, Apart(s, u, t), SleepInv(s, {t})
  PROVE  SleepInv(u, {t})
<1>1. \A x \in Threads \ {t} : /\ u.status[x] = s.status[x] /\ u.op[x] = s.op[x]
                               /\ u.rx[x] = s.rx[x] /\ u.tx[x] = s.tx[x]
                               /\ u.blocked_enq[x] <=> s.blocked_enq[x]
  BY DEF Apart
<1>2. WakeInv(u, {t})
  BY <1>1 DEF SleepInv, WakeInv, Waits, Crossed, Sleeps
<1>3. ASSUME CopiesIntoPipes PROVE HoardInv(u, {t})
  BY <1>1, <1>3 DEF SleepInv, HoardInv, Hoards, Stalled, Sleeps, Room
<1> QED
  BY <1>2, <1>3 DEF SleepInv

\* All but one of all.
LEMMA ButSleep ==
  ASSUME NEW s, NEW t, SleepInv(s, {})
  PROVE  SleepInv(s, {t})
BY DEF SleepInv, WakeInv, HoardInv

\* What is awake need not be looked at.
LEMMA AwakeSleep ==
  ASSUME NEW s, NEW t, SleepInv(s, {t}), s.status[t] # "WAIT"
  PROVE  SleepInv(s, {})
<1>1. WakeInv(s, {})
  BY DEF SleepInv, WakeInv, Waits, Crossed, Sleeps
<1>2. ASSUME CopiesIntoPipes PROVE HoardInv(s, {})
  BY <1>2 DEF SleepInv, HoardInv, Hoards, Stalled, Sleeps
<1> QED
  BY <1>1, <1>2 DEF SleepInv

\* Wake-ups and what is heeded let everybody sleep on; a forward, what is
\* noticed.
LEMMA SteadySleep ==
  ASSUME NEW s, NEW X, NEW z, NEW u, Steady(s, u, z), Heeded(s, u), CopiesIntoPipes => Noticed(s, u),
         SleepInv(s, X)
  PROVE  SleepInv(u, X)
<1>1. \A x \in Threads : u.status[x] = "WAIT" =>
        /\ s.status[x] = "WAIT" /\ u.op[x] = s.op[x]
        /\ s.blocked_enq[x] => u.blocked_enq[x]
  BY DEF Steady
<1>2. WakeInv(u, X)
  <2>1. \A x \in Threads : u.status[x] = "WAIT" =>
          /\ u.tx[x].data = s.tx[x].data
          /\ u.rx[x].data = s.rx[x].data \/ (Source[x] # FD /\ u.rx[x].effect)
          /\ Source[x] # FD /\ s.rx[x].effect => u.rx[x].effect
    BY DEF Heeded
  <2>2. ASSUME NEW x \in Threads \ X PROVE Waits(u, x)
    <3>1. Waits(s, x)
      BY DEF SleepInv, WakeInv
    <3> QED
      BY <1>1, <2>1, <3>1 DEF Waits, Sleeps
  <2>3. \A w, r \in Threads \ X : ~ Crossed(u, w, r)
    BY <1>1 DEF SleepInv, WakeInv, Crossed, Sleeps
  <2> QED
    BY <2>2, <2>3 DEF WakeInv
<1>3. ASSUME CopiesIntoPipes PROVE HoardInv(u, X)
  <2>1. \A x \in Threads : u.status[x] = "WAIT" =>
          u.rx[x].data = s.rx[x].data /\ u.tx[x].data = s.tx[x].data
    BY <1>3 DEF Noticed
  <2> QED
    BY <1>1, <1>3, <2>1 DEF SleepInv, HoardInv, Hoards, Stalled, Sleeps, Room
<1> QED
  BY <1>2, <1>3 DEF SleepInv

\* What t has when it begins to wait.
Rests(s, t) ==
  /\ s.op[t] \in Reading => s.rx[t].data = << >>
  /\ s.op[t] \in Writing => s.tx[t].data # << >>
  /\ s.op[t] = "FORWARD" /\ s.tx[t].data = << >> => s.rx[t].data = << >>

\* After an attempt at its operation t may sleep with the others.
LEMMA TriedSleep ==
  ASSUME NEW s, Good(s), NEW t \in Threads, NEW u, Tried(s, u, t), CopiesIntoPipes => Noticed(s, u),
         SleepInv(s, {t}), Rests(s, t)
  PROVE  SleepInv(u, {})
<1>1. Steady(s, u, t) /\ Heeded(s, u) /\ SleepInv(u, {t})
  BY SteadySleep DEF Tried, Shift
<1>2. CASE u.status[t] # "WAIT"
  BY <1>1, <1>2, AwakeSleep
<1>3. CASE u.status[t] = "WAIT"
  <2>1. /\ u.op = s.op /\ u.tx[t].data = s.tx[t].data
        /\ u.rx[t].data = s.rx[t].data \/ (Source[t] # FD /\ u.rx[t].effect)
        /\ \A x \in Threads : u.status[x] = "WAIT" => s.status[x] = "WAIT"
    BY <1>1, <1>3 DEF Steady, Heeded
  <2>2. \A x \in Threads : s.rx[x].data = << >> => Room(s.rx[x]) > 0
    BY BufLenAssumption DEF Room
  <2>3. \A w \in Threads \ {t} : Sleeps(u, w, Writing) => s.tx[w].data # << >>
    BY <2>1 DEF SleepInv, WakeInv, Waits, Sleeps
  <2>4. WakeInv(u, {})
    <3>1. Waits(u, t)
      BY <1>3, <2>1, <2>2 DEF Waits, Sleeps, Tried, Rests
    <3>2. \A r \in Threads \ {t} : ~ Crossed(u, t, r)
      <4> SUFFICES ASSUME NEW r \in Threads \ {t}, Crossed(u, t, r) PROVE FALSE
        OBVIOUS
      <4>1. Sink[t] = r /\ r # FD /\ Source[r] # FD
        BY PipeAssumption DEF Crossed
      <4>2. Sleeps(s, r, Reading) /\ s.op[t] \in Writing /\ u.status[r] = "WAIT"
        BY <2>1 DEF Crossed, Sleeps
      <4>3. Waits(s, r)
        BY DEF SleepInv, WakeInv
      <4>4. s.rx[r].data = << >>
        BY <4>1, <4>2, <4>3 DEF Waits, Tried
      <4> QED
        BY <1>3, <2>2, <4>1, <4>2, <4>4 DEF Tried, Rests
    <3>3. \A w \in Threads \ {t} : ~ Crossed(u, w, t)
      <4> SUFFICES ASSUME NEW w \in Threads \ {t}, Crossed(u, w, t) PROVE FALSE
        OBVIOUS
      <4>1. Source[t] = w /\ w # FD /\ s.op[t] \in Reading
        BY <2>1, PipeAssumption DEF Crossed, Sleeps
      <4>2. s.tx[w].data # << >>
        BY <2>3 DEF Crossed
      <4> QED
        BY <1>3, <2>2, <4>1, <4>2 DEF Tried, Rests
    <3>4. ~ Crossed(u, t, t)
      BY DEF Crossed, Sleeps, Reading, Writing
    <3> QED
      BY <1>1, <3>1, <3>2, <3>3, <3>4 DEF SleepInv, WakeInv
  <2>5. ASSUME CopiesIntoPipes PROVE HoardInv(u, {})
    <3>1. \A x \in Threads : u.status[x] = "WAIT" => u.rx[x].data = s.rx[x].data
      BY <2>5 DEF Noticed
    <3>2. ~ Hoards(u, t)
      BY <1>3, <2>1, <3>1 DEF Hoards, Sleeps, Tried, Rests
    <3>3. \A r \in Threads \ {t} : ~ Stalled(u, t, r)
      <4> SUFFICES ASSUME NEW r \in Threads \ {t}, Stalled(u, t, r) PROVE FALSE
        OBVIOUS
      <4>1. Sink[t] = r /\ r # FD
        BY PipeAssumption DEF Stalled
      <4>2. Room(s.rx[r]) = 0
        BY <1>3, <2>1, <4>1 DEF Tried, Rests, Stalled, Sleeps
      <4> QED
        BY <3>1, <4>2 DEF Stalled, Sleeps, Room
    <3>4. \A w \in Threads \ {t} : ~ Stalled(u, w, t)
      <4> SUFFICES ASSUME NEW w \in Threads \ {t}, Stalled(u, w, t) PROVE FALSE
        OBVIOUS
      <4>1. Source[t] = w /\ w # FD /\ s.op[t] = "FORWARD" /\ s.tx[w].data # << >>
        BY <2>1, <2>3, PipeAssumption DEF Stalled, Sleeps
      <4>2. Room(s.rx[t]) = 0
        BY <1>3, <4>1 DEF Tried
      <4> QED
        BY <1>3, <3>1, <4>2 DEF Stalled, Room
    <3>5. ~ Stalled(u, t, t)
      BY DEF Stalled, Sleeps, Writing
    <3> QED
      BY <1>1, <2>5, <3>2, <3>3, <3>4, <3>5 DEF SleepInv, HoardInv
  <2> QED
    BY <2>4, <2>5 DEF SleepInv
<1> QED
  BY <1>2, <1>3

\* A change of t's own that no message boundary takes part in: it reads off
\* its ring, and writes v, the message it is in, unless the EOF is marked.
Within(s, u, t, v) ==
  /\ u.rx[t].blocked => s.rx[t].blocked
  /\ u.tx[t].eof = s.tx[t].eof
  /\ \A z : Of(s.rx[t].data, z) => Of(u.rx[t].data, z)
  /\ \/ u.tx[t].data = s.tx[t].data
     \/ /\ Sink[t] # FD => ~ s.tx[t].eof /\ ~ InHup(s, t)
        /\ Of(s.tx[t].data, v) => Of(u.tx[t].data, v)
  /\ InHup(u, t) <=> InHup(s, t)
  /\ \/ u.status[t] = s.status[t] /\ u.op[t] = s.op[t] /\ (u.inside[t] <=> s.inside[t])
     \/ /\ InHup(u, t) => u.status[t] # "ERR"
        /\ Sink[t] # FD /\ u.tx[t].eof /\ ~ InHup(u, t) =>
             (u.inside[t] /\ u.op[t] = "WRITE" => u.status[t] = "ERR")

\* Such a change keeps the message boundaries.
LEMMA WithinHup ==
  ASSUME NEW s, NEW m, NEW t \in Threads, NEW u, HupState(s, m), Apart(s, u, t), Within(s, u, t, m[t].writes)
  PROVE  HupState(u, m)
<1>1. \A x \in Threads : /\ InHup(u, x) <=> InHup(s, x)
                         /\ u.tx[x].eof = s.tx[x].eof
  BY DEF Apart, Within, InHup
<1>2. ASSUME NEW r \in Threads, Source[r] # FD
      PROVE  PipeInv(u, r, m[r].reads, m[Source[r]].writes)
  <2> DEFINE w == Source[r]
             v == m[r].reads
  <2>1. w \in Threads /\ (w = t => Sink[t] # FD)
    BY <1>2, PipeAssumption
  <2>2. Of(s.rx[r].data, v) /\ Of(s.tx[w].data, v) /\ (m[w].writes = v <=> (InHup(s, w) <=> s.tx[w].eof))
    BY <1>2 DEF HupState, PipeInv, Of
  <2>3. Of(u.rx[r].data, v)
    <3>1. CASE r = t
      BY <2>2, <3>1 DEF Within
    <3>2. CASE r # t
      BY <2>2, <3>2 DEF Apart
    <3> QED
      BY <3>1, <3>2
  <2>4. Of(u.tx[w].data, v)
    <3>1. CASE w = t
      <4>1. CASE u.tx[t].data = s.tx[t].data
        BY <2>2, <3>1, <4>1
      <4>2. CASE u.tx[t].data # s.tx[t].data
        <5>1. ~ s.tx[t].eof /\ ~ InHup(s, t)
          BY <2>1, <3>1, <4>2 DEF Within
        <5>2. m[t].writes = v
          BY <2>2, <3>1, <5>1
        <5> QED
          BY <2>2, <3>1, <4>2, <5>2 DEF Within
      <4> QED
        BY <4>1, <4>2
    <3>2. CASE w # t
      BY <2>1, <2>2, <3>2 DEF Apart
    <3> QED
      BY <3>1, <3>2
  <2>5. m[w].writes = v <=> (InHup(u, w) <=> u.tx[w].eof)
    BY <1>1, <2>1, <2>2
  <2> QED
    BY <2>3, <2>4, <2>5 DEF PipeInv, Of
<1>3. \A x \in Threads : InHup(u, x) => u.status[x] # "ERR"
  BY <1>1 DEF HupState, Within, Apart
<1>4. ASSUME NEW x \in Threads, Sink[x] # FD, u.tx[x].eof, ~ InHup(u, x)
      PROVE  x \in Closers /\ (u.inside[x] /\ u.op[x] = "WRITE" => u.status[x] = "ERR")
  <2>1. x \in Closers /\ (s.inside[x] /\ s.op[x] = "WRITE" => s.status[x] = "ERR")
    BY <1>1, <1>4 DEF HupState
  <2>2. CASE x = t
    BY <1>4, <2>1, <2>2 DEF Within
  <2>3. CASE x # t
    BY <2>1, <2>3 DEF Apart
  <2> QED
    BY <2>2, <2>3
<1>5. \A x \in Taken : Unpolled(u, x)
  BY DEF HupState, Unpolled, Apart, Within, Closers, Taken
<1> QED
  BY <1>2, <1>3, <1>4, <1>5 DEF HupState

\* What an attempt moves stays within the messages.
LEMMA ShiftHup ==
  ASSUME NEW s, NEW m, NEW t \in Threads, NEW u, HupState(s, m), Shift(s, u, t), SameEof(s, u),
         t \in Taken => Unpolled(u, t)
  PROVE  HupState(u, m)
<1>1. u.inside = s.inside /\ u.op = s.op /\ \A x \in Threads : u.status[x] = "ERR" <=> s.status[x] = "ERR"
  BY DEF Shift, Steady
<1>2. \A x \in Threads : InHup(u, x) <=> InHup(s, x)
  BY <1>1 DEF InHup
<1>3. ASSUME NEW r \in Threads, Source[r] # FD
      PROVE  PipeInv(u, r, m[r].reads, m[Source[r]].writes)
  <2>1. Source[r] \in Threads
    BY <1>3, PipeAssumption
  <2>2. Carries(s, r, m[r].reads)
    BY <1>3 DEF HupState, PipeInv, Carries, Of
  <2>3. Carries(u, r, m[r].reads)
    BY <1>3, <2>2 DEF Shift
  <2>4. m[Source[r]].writes = m[r].reads <=> (InHup(s, Source[r]) <=> s.tx[Source[r]].eof)
    BY <1>3 DEF HupState, PipeInv
  <2>5. m[Source[r]].writes = m[r].reads <=> (InHup(u, Source[r]) <=> u.tx[Source[r]].eof)
    BY <1>2, <2>1, <2>4 DEF SameEof
  <2> QED
    BY <2>3, <2>5 DEF PipeInv, Carries, Of
<1>4. \A x \in Threads : InHup(u, x) => u.status[x] # "ERR"
  BY <1>1, <1>2 DEF HupState
<1>5. \A x \in Threads : Sink[x] # FD /\ u.tx[x].eof /\ ~ InHup(u, x) =>
        x \in Closers /\ (u.inside[x] /\ u.op[x] = "WRITE" => u.status[x] = "ERR")
  BY <1>1, <1>2 DEF HupState, SameEof
<1>6. \A x \in Taken : Unpolled(u, x)
  BY DEF HupState, Unpolled, Shift, Steady, Closers, Taken
<1> QED
  BY <1>3, <1>4, <1>5, <1>6 DEF HupState

\* The operation of t goes on from d: its function runs on, or it waits and
\* the operation is attempted.
Stepped(t, d) ==
  /\ Own(p, d, t) /\ Good(d)
  /\ d.op[t] \in Program[t] \cup {"NONE"} /\ (d.op[t] = "HUP" => Sink[t] # FD)
  /\ \/ p' = d /\ d.status[t] = "RUN"
     \/ d.status[t] = "WAIT" /\ Rests(d, t) /\ Tried(d, p', t)

\* vk_wait.
LEMMA WaitTried ==
  ASSUME NEW s, Good(s), NEW t \in Threads, s.status[t] = "RUN", s.op[t] = "HUP" => Sink[t] # FD,
         Wait(s, t), NEW d, d = [s EXCEPT !.status[t] = "WAIT"]
  PROVE  /\ Own(s, d, t) /\ Good(d) /\ d.rx = s.rx /\ d.tx = s.tx /\ d.op = s.op /\ d.inside = s.inside
         /\ d.need = s.need /\ d.status[t] = "WAIT" /\ Tried(d, p', t)
<1>1. IsProcess(s)
  BY DEF Good
<1>2. /\ DOMAIN d = DOMAIN s /\ d.rx = s.rx /\ d.tx = s.tx /\ d.op = s.op /\ d.inside = s.inside
      /\ d.need = s.need /\ d.status[t] = "WAIT" /\ DOMAIN d.status = Threads
      /\ \A x \in Threads \ {t} : d.status[x] = s.status[x]
  BY <1>1 DEF IsProcess
<1>3. /\ d.run_q = s.run_q /\ d.run_enq = s.run_enq /\ d.run = s.run
      /\ d.blocked_q = s.blocked_q /\ d.blocked_enq = s.blocked_enq /\ d.blocked = s.blocked
      /\ d.running = s.running /\ d.closed = s.closed
  BY <1>1 DEF IsProcess
<1>4. Own(s, d, t)
  BY <1>1, <1>2, <1>3 DEF Own, IsProcess
<1>5. OwnOK(d, t)
  BY <1>1, <1>2 DEF OwnOK, IsProcess
<1>6. Good(d)
  BY <1>4, <1>5, OwnGood
<1>7. PICK got \in Got(s, t), put \in Put(s, t) : p' = Handler(d, t, got, put)
  BY DEF Wait
<1>8. got \in Got(d, t) /\ put \in Put(d, t)
  BY <1>2, <1>7 DEF Got, Put, Room
<1>9. Tried(d, p', t)
  BY <1>2, <1>6, <1>7, <1>8, HandlerTried
<1> QED
  BY <1>2, <1>4, <1>6, <1>9

\* An operation that is over.
LEMMA FinishOwn ==
  ASSUME NEW s, Good(s), NEW t \in Threads, s.status[t] = "RUN", NEW d, d = Finish(s, t)
  PROVE  /\ Own(s, d, t) /\ Good(d) /\ d.rx = s.rx /\ d.tx = s.tx /\ d.op = s.op /\ ~ d.inside[t]
         /\ d.status[t] = "RUN"
<1>1. IsProcess(s)
  BY DEF Good
<1>2. /\ DOMAIN d = DOMAIN s /\ d.rx = s.rx /\ d.tx = s.tx /\ d.op = s.op /\ d.status = s.status
      /\ d.need = s.need /\ DOMAIN d.inside = Threads
  BY <1>1 DEF IsProcess, Finish
<1>3. /\ d.run_q = s.run_q /\ d.run_enq = s.run_enq /\ d.run = s.run
      /\ d.blocked_q = s.blocked_q /\ d.blocked_enq = s.blocked_enq /\ d.blocked = s.blocked
      /\ d.running = s.running /\ d.closed = s.closed
  BY <1>1 DEF IsProcess, Finish
<1>4. ~ d.inside[t] /\ d.inside[t] \in BOOLEAN
  BY <1>1 DEF IsProcess, Finish
<1>5. \A x \in Threads \ {t} : d.inside[x] = s.inside[x]
  BY <1>1 DEF IsProcess, Finish
<1>6. Own(s, d, t)
  BY <1>1, <1>2, <1>3, <1>5 DEF Own, IsProcess
<1>7. OwnOK(d, t)
  BY <1>1, <1>2, <1>4 DEF OwnOK, IsProcess
<1>8. Good(d)
  BY <1>6, <1>7, OwnGood
<1> QED
  BY <1>2, <1>4, <1>6, <1>8

\* Own changes add up.
LEMMA OwnTransitive ==
  ASSUME NEW s, NEW u, NEW v, NEW t, Own(s, u, t), Own(u, v, t)
  PROVE  Own(s, v, t)
<1>1. \A x \in Threads \ {t} :
        /\ v.status[x] = s.status[x] /\ v.op[x] = s.op[x] /\ v.need[x] = s.need[x]
        /\ v.inside[x] = s.inside[x] /\ v.rx[x] = s.rx[x] /\ v.tx[x] = s.tx[x]
  BY DEF Own
<1> QED
  BY <1>1 DEF Own

\* What an operation moved, c, and then its end or its wait.
LEMMA GoesOn ==
  ASSUME Good(p), NEW t \in Threads, NEW c, Own(p, c, t), OwnOK(c, t), c.status[t] = "RUN",
         c.op[t] \in Program[t] \cup {"NONE"}, c.op[t] = "HUP" => Sink[t] # FD,
         p' = Finish(c, t) \/ (Wait(c, t) /\ Rests(c, t))
  PROVE  \E d : /\ Stepped(t, d) /\ d.rx = c.rx /\ d.tx = c.tx /\ d.op = c.op /\ d.status[t] # "ERR"
                /\ ~ d.inside[t] \/ d.inside = c.inside
                /\ d.op[t] # "HUP" \/ ~ d.inside[t] => ~ InHup(d, t)
<1>1. Good(c)
  BY OwnGood
<1>2. CASE p' = Finish(c, t)
  <2>1. /\ Own(c, p', t) /\ Good(p') /\ p'.rx = c.rx /\ p'.tx = c.tx /\ p'.op = c.op /\ ~ p'.inside[t]
        /\ p'.status[t] = "RUN"
    BY <1>1, <1>2, FinishOwn
  <2>2. Own(p, p', t)
    BY <2>1, OwnTransitive
  <2>3. Stepped(t, p')
    BY <2>1, <2>2 DEF Stepped
  <2> QED
    BY <2>1, <2>3 DEF InHup
<1>3. CASE Wait(c, t) /\ Rests(c, t)
  <2> DEFINE d == [c EXCEPT !.status[t] = "WAIT"]
  <2>1. /\ Own(c, d, t) /\ Good(d) /\ d.rx = c.rx /\ d.tx = c.tx /\ d.op = c.op /\ d.inside = c.inside
        /\ d.status[t] = "WAIT" /\ Tried(d, p', t)
    BY <1>1, <1>3, WaitTried, ZenonT(40)
  <2> HIDE DEF d
  <2>2. Own(p, d, t)
    BY <2>1, OwnTransitive
  <2>3. Rests(d, t)
    BY <1>3, <2>1 DEF Rests
  <2>4. Stepped(t, d)
    BY <2>1, <2>2, <2>3 DEF Stepped
  <2> QED
    BY <2>1, <2>4 DEF InHup
<1> QED
  BY <1>2, <1>3

\* A step keeps the queues in order,
LEMMA StepQueue ==
  ASSUME QueueInv, NEW t \in Threads, NEW d, Stepped(t, d), phase = "execute",
         UNCHANGED << phase, retry, ended >>, msg' \in [Threads -> [writes : Message, reads : Message]]
  PROVE  QueueInv'
<1>1. Good(p') /\ \A x \in Threads : p'.op[x] = d.op[x]
  BY DEF Stepped, Tried, Shift, Steady
<1>2. \A x \in Threads : p'.op[x] \in Program[x] \cup {"NONE"} /\ (p'.op[x] = "HUP" => Sink[x] # FD)
  BY <1>1 DEF QueueInv, Stepped, Own
<1>3. retry = << >> /\ Len(retry) = 0
  BY DEF QueueInv
<1> QED
  BY <1>1, <1>2, <1>3 DEF QueueInv

\* lets who sleeps be woken,
LEMMA StepSleep ==
  ASSUME QueueInv, SleepInv(p, {}), NEW t \in Threads, NEW d, Stepped(t, d)
  PROVE  SleepInv(p', {})
<1>1. SleepInv(d, {t})
  BY OwnApart, ButSleep, ApartSleep DEF Stepped
<1>2. CASE p' = d /\ d.status[t] = "RUN"
  BY <1>1, <1>2, AwakeSleep
<1>3. CASE d.status[t] = "WAIT" /\ Rests(d, t) /\ Tried(d, p', t)
  <2>1. CopiesIntoPipes => (d.op[t] = "FORWARD" => ~ (Source[t] = FD /\ Sink[t] # FD))
    BY DEF Stepped, CopiesIntoPipes
  <2>2. CopiesIntoPipes => Noticed(d, p')
    BY <1>3, <2>1 DEF Tried
  <2> QED
    BY <1>1, <1>3, <2>2, TriedSleep DEF Stepped
<1> QED
  BY <1>2, <1>3 DEF Stepped

\* and keeps the message boundaries: an attempt does,
LEMMA TriedHup ==
  ASSUME ClosesCleanly, NEW s, Good(s), NEW m, NEW t \in Threads, NEW u, HupState(s, m), Tried(s, u, t),
         s.op[t] \in Program[t] \cup {"NONE"}, s.op[t] = "TX_CLOSE" /\ Sink[t] # FD => s.tx[t].eof
  PROVE  HupState(u, m)
<1>1. Shift(s, u, t)
  BY DEF Tried
<1>2. SameEof(s, u)
  <2>1. Good(u)
    BY <1>1 DEF Shift
  <2>2. s.tx[t].eof \in BOOLEAN /\ u.tx[t].eof \in BOOLEAN
    BY <2>1 DEF Good, IsProcess, IsRing
  <2>3. u.tx[t].eof = s.tx[t].eof
    <3>1. CASE s.op[t] = "TX_CLOSE" /\ Sink[t] # FD
      <4>1. s.tx[t].eof = TRUE /\ u.tx[t].eof = TRUE
        BY <2>2, <3>1 DEF Tried
      <4> QED
        BY <4>1
    <3>2. CASE ~ (s.op[t] = "TX_CLOSE" /\ Sink[t] # FD)
      BY <3>2 DEF Tried
    <3> QED
      BY <3>1, <3>2
  <2> QED
    BY <2>3 DEF Tried, SameEof
<1>3. t \in Taken => Unpolled(u, t)
  <2> SUFFICES ASSUME t \in Taken PROVE Unpolled(u, t)
    OBVIOUS
  <2>1. Sink[t] # FD /\ s.op[t] \notin Reading \cup {"FORWARD"} /\ Unpolled(s, t)
    BY DEF Closers, Taken, ClosesCleanly, HupState, Reading
  <2> QED
    BY <2>1 DEF Tried
<1> QED
  BY <1>1, <1>2, <1>3, ShiftHup

\* and what comes before it.
LEMMA StepHup ==
  ASSUME QueueInv, ClosesCleanly, HupInv, NEW t \in Threads, NEW d, Stepped(t, d),
         Within(p, d, t, msg[t].writes), d.op[t] # "TX_CLOSE", UNCHANGED << msg, retry >>
  PROVE  HupInv'
<1>1. HupState(d, msg)
  BY OwnApart, WithinHup DEF HupInv, Stepped
<1>2. HupState(p', msg)
  <2>1. CASE p' = d
    BY <1>1, <2>1
  <2>2. CASE p' # d
    BY <1>1, <2>2, TriedHup DEF Stepped
  <2> QED
    BY <2>1, <2>2
<1> QED
  BY <1>2 DEF HupInv

\* Closed pipes stay closed: a coroutine x that is not about to close has
\* its operation and its mark, or is the one that closed.
LEMMA ShutStep ==
  ASSUME CloseInv, phase' # "execute" => p'.running = NoThread,
         \A x \in Threads :
           \/ Shut(p', x)
           \/ /\ ~ Closes(p, x) /\ p'.op[x] = p.op[x]
              /\ p.tx[x].eof => p'.tx[x].eof \/ (Sink[x] # FD /\ "READHUP" \in Program[Sink[x]])
  PROVE  CloseInv'
<1>1. \A x \in Threads : Shut(p', x)
  BY DEF CloseInv, Shut
<1> QED
  BY <1>1 DEF CloseInv, Shut, Closes

\* A step of the running coroutine does not reopen one.
LEMMA StepClose ==
  ASSUME CloseInv, NEW t \in Threads, NEW d, Stepped(t, d), phase = "execute", p.running = t,
         UNCHANGED phase, d.op[t] = "TX_CLOSE" => Tried(d, p', t)
  PROVE  CloseInv'
<1>1. \A x \in Threads : p'.op[x] = d.op[x]
  BY DEF Stepped, Tried, Shift, Steady
<1>2. Shut(p', t)
  BY <1>1 DEF Shut, Tried
<1>3. \A x \in Threads \ {t} : ~ Closes(p, x) /\ p'.op[x] = p.op[x] /\ p'.tx[x].eof = p.tx[x].eof
  BY <1>1 DEF Closes, Stepped, Own, Tried
<1> QED
  BY <1>2, <1>3, ShutStep

\* A step that no message boundary takes part in.
StepsWithin(t) ==
  \E d : /\ Stepped(t, d) /\ d.op[t] # "TX_CLOSE"
         /\ HupInv /\ ClosesCleanly => Within(p, d, t, msg[t].writes)

\* What is moved inside an operation that is not a boundary.
MovesWithin(c, t) ==
  /\ ~ InHup(p, t) /\ c.op[t] \notin {"HUP", "TX_CLOSE"}
  /\ c.rx[t].blocked = p.rx[t].blocked /\ c.tx[t].eof = p.tx[t].eof
  /\ \A z : Of(p.rx[t].data, z) => Of(c.rx[t].data, z)
  /\ c.tx[t].data # p.tx[t].data =>
       /\ HupInv /\ ClosesCleanly /\ Sink[t] # FD => ~ p.tx[t].eof
       /\ \A z : z = msg[t].writes /\ Of(p.tx[t].data, z) => Of(c.tx[t].data, z)
  /\ HupInv /\ c.op[t] = "WRITE" /\ Sink[t] # FD => ~ p.tx[t].eof

\* Then the operation goes on within the message.
LEMMA GoesOnWithin ==
  ASSUME Good(p), NEW t \in Threads, NEW c, Own(p, c, t), OwnOK(c, t), c.status[t] = "RUN",
         c.op[t] \in Program[t] \cup {"NONE"}, p' = Finish(c, t) \/ (Wait(c, t) /\ Rests(c, t)),
         MovesWithin(c, t)
  PROVE  StepsWithin(t)
<1>1. c.op[t] # "HUP"
  BY DEF MovesWithin
<1>2. PICK d : /\ Stepped(t, d) /\ d.rx = c.rx /\ d.tx = c.tx /\ d.op = c.op /\ d.status[t] # "ERR"
               /\ d.op[t] # "HUP" \/ ~ d.inside[t] => ~ InHup(d, t)
  BY <1>1, GoesOn
<1>3. d.op[t] # "TX_CLOSE" /\ ~ InHup(d, t) /\ ~ InHup(p, t)
  BY <1>1, <1>2 DEF MovesWithin
<1>4. ASSUME HupInv, ClosesCleanly PROVE Within(p, d, t, msg[t].writes)
  <2>1. /\ d.rx[t].blocked = p.rx[t].blocked /\ d.tx[t].eof = p.tx[t].eof
        /\ \A z : Of(p.rx[t].data, z) => Of(d.rx[t].data, z)
    BY <1>2 DEF MovesWithin
  <2>2. \/ d.tx[t].data = p.tx[t].data
        \/ /\ Sink[t] # FD => ~ p.tx[t].eof
           /\ Of(p.tx[t].data, msg[t].writes) => Of(d.tx[t].data, msg[t].writes)
    BY <1>2, <1>4 DEF MovesWithin
  <2>3. d.op[t] = "WRITE" /\ Sink[t] # FD => ~ d.tx[t].eof
    BY <1>2, <1>4, <2>1 DEF MovesWithin
  <2> QED
    BY <1>3, <2>1, <2>2, <2>3 DEF Within
<1> QED
  BY <1>2, <1>3, <1>4 DEF StepsWithin

\* What vk_read takes.
Took(s, t) ==
  LET n == Smaller(s.need[t], Len(s.rx[t].data))
  IN [s EXCEPT !.rx[t] = Pop(@, n), !.need[t] = @ - n]

LEMMA ReadOwn ==
  ASSUME QueueInv, NEW t \in Threads, Read(t), NEW c, c = Took(p, t)
  PROVE  LET n == Smaller(p.need[t], Len(p.rx[t].data))
         IN /\ Own(p, c, t) /\ OwnOK(c, t) /\ MovesWithin(c, t)
            /\ c.status = p.status /\ c.op = p.op /\ c.inside = p.inside /\ c.tx = p.tx
            /\ n \in 0 .. Len(p.rx[t].data) /\ c.rx[t] = Pop(p.rx[t], n) /\ c.need[t] = p.need[t] - n
            /\ \/ p' = Finish(c, t) /\ (c.need[t] = 0 \/ Pollhup(c, t))
               \/ c.need[t] # 0 /\ Wait(c, t) /\ Rests(c, t)
<1>1. Good(p) /\ IsProcess(p) /\ p.op[t] \in Program[t] \cup {"NONE"}
  BY DEF QueueInv, Good
<1>2. p.status[t] = "RUN" /\ p.inside[t] /\ p.op[t] = "READ"
  BY DEF Read, Inside, Active
<1> DEFINE n == Smaller(p.need[t], Len(p.rx[t].data))
           g == Pop(p.rx[t], n)
<1>3. \/ p' = Finish(c, t) /\ (c.need[t] = 0 \/ Pollhup(c, t))
      \/ c.need[t] # 0 /\ Wait(c, t)
  BY DEF Read, Took
<1>4. /\ p.need[t] \in 0 .. MaxLen /\ p.need[t] \in Nat /\ MaxLen \in Nat
      /\ IsRing(p.rx[t]) /\ IsRing(p.tx[t]) /\ Len(p.rx[t].data) \in Nat
  BY <1>1, BufLenAssumption DEF IsProcess, IsRing
<1>5. n \in Nat /\ n <= p.need[t] /\ n <= Len(p.rx[t].data) /\ (n = p.need[t] \/ n = Len(p.rx[t].data))
  BY <1>4, SmallerIs
<1>6. g = Pop(p.rx[t], n) /\ c = [p EXCEPT !.rx[t] = g, !.need[t] = p.need[t] - n]
  BY <1>1 DEF IsProcess, Took
<1> HIDE DEF n, g
<1>7. /\ IsRing(g) /\ Len(g.data) = Len(p.rx[t].data) - n
      /\ g.eof = p.rx[t].eof /\ g.blocked = p.rx[t].blocked
      /\ g.data = p.rx[t].data \/ g.effect
      /\ \A v : Of(p.rx[t].data, v) => Of(g.data, v)
  <2> DEFINE h == p.rx[t]
  <2>1. IsRing(h) /\ n \in 0 .. Len(h.data) /\ g = Pop(h, n)
    BY <1>4, <1>5, <1>6
  <2> HIDE DEF h
  <2>2. /\ IsRing(g) /\ Len(g.data) = Len(h.data) - n
        /\ g.eof = h.eof /\ g.blocked = h.blocked
        /\ g.data = h.data \/ g.effect
        /\ \A v : Of(h.data, v) => Of(g.data, v)
    BY <2>1, PopRing
  <2> QED
    BY <2>2 DEF h
<1>8. /\ DOMAIN c = DOMAIN p /\ c.status = p.status /\ c.op = p.op /\ c.tx = p.tx
      /\ c.rx[t] = g /\ c.need[t] = p.need[t] - n /\ DOMAIN c.rx = Threads /\ DOMAIN c.need = Threads
      /\ \A x \in Threads \ {t} : c.rx[x] = p.rx[x] /\ c.need[x] = p.need[x]
  BY <1>1, <1>6 DEF IsProcess
<1>9. /\ c.run_q = p.run_q /\ c.run_enq = p.run_enq /\ c.run = p.run
      /\ c.blocked_q = p.blocked_q /\ c.blocked_enq = p.blocked_enq /\ c.blocked = p.blocked
      /\ c.running = p.running /\ c.closed = p.closed /\ c.inside = p.inside
  BY <1>1, <1>6 DEF IsProcess
<1>10. Own(p, c, t)
  BY <1>1, <1>8, <1>9 DEF Own, IsProcess
<1>11. c.need[t] \in 0 .. MaxLen
  BY <1>4, <1>5, <1>8
<1>12. OwnOK(c, t)
  BY <1>1, <1>2, <1>4, <1>7, <1>8, <1>9, <1>11 DEF OwnOK, IsProcess
<1>13. c.need[t] # 0 => Rests(c, t)
  <2>1. c.need[t] # 0 => Len(g.data) = 0
    BY <1>4, <1>5, <1>7, <1>8
  <2>2. Len(g.data) = 0 => g.data = << >>
    BY <1>7 DEF IsRing
  <2> QED
    BY <1>2, <1>8, <2>1, <2>2 DEF Rests, Writing
<1>14. MovesWithin(c, t)
  BY <1>2, <1>7, <1>8 DEF MovesWithin, InHup
<1>15. n \in 0 .. Len(p.rx[t].data)
  BY <1>4, <1>5
<1> QED
  BY <1>3, <1>6, <1>8, <1>9, <1>10, <1>12, <1>13, <1>14, <1>15 DEF n

\* vk_read.
LEMMA ReadSteps ==
  ASSUME QueueInv, NEW t \in Threads, Read(t)
  PROVE  StepsWithin(t)
<1> DEFINE c == Took(p, t)
<1>1. c = Took(p, t)
  OBVIOUS
<1> HIDE DEF c
<1>2. /\ Own(p, c, t) /\ OwnOK(c, t) /\ MovesWithin(c, t) /\ c.status = p.status /\ c.op = p.op
      /\ p' = Finish(c, t) \/ (Wait(c, t) /\ Rests(c, t))
  BY <1>1, ReadOwn
<1> QED
  BY <1>2, GoesOnWithin DEF QueueInv, Read, Inside, Active

\* Nothing was moved.
LEMMA OwnSelf ==
  ASSUME Good(p), NEW t \in Threads, p.status[t] = "RUN"
  PROVE  Own(p, p, t) /\ OwnOK(p, t)
BY DEF Own, OwnOK, Good, IsProcess

\* vk_pollread.
LEMMA PollreadSteps ==
  ASSUME QueueInv, NEW t \in Threads, Pollread(t)
  PROVE  StepsWithin(t)
<1>1. Good(p) /\ p.op[t] \in Program[t] \cup {"NONE"}
  BY DEF QueueInv
<1>2. p.status[t] = "RUN" /\ p.inside[t] /\ p.op[t] = "POLLREAD"
  BY DEF Pollread, Inside, Active
<1>3. Own(p, p, t) /\ OwnOK(p, t)
  BY <1>1, <1>2, OwnSelf
<1>4. p' = Finish(p, t) \/ (Wait(p, t) /\ Rests(p, t))
  BY <1>2 DEF Pollread, Rests, Writing
<1>5. MovesWithin(p, t)
  BY <1>2 DEF MovesWithin, InHup
<1> QED
  BY <1>1, <1>2, <1>3, <1>4, <1>5, GoesOnWithin

\* vk_flush.
LEMMA FlushSteps ==
  ASSUME QueueInv, NEW t \in Threads, Flush(t)
  PROVE  StepsWithin(t)
<1>1. Good(p) /\ p.op[t] \in Program[t] \cup {"NONE"}
  BY DEF QueueInv
<1>2. p.status[t] = "RUN" /\ p.inside[t] /\ p.op[t] = "FLUSH"
  BY DEF Flush, Inside, Active
<1>3. Own(p, p, t) /\ OwnOK(p, t)
  BY <1>1, <1>2, OwnSelf
<1>4. p' = Finish(p, t) \/ (Wait(p, t) /\ Rests(p, t))
  BY <1>2 DEF Flush, Rests, Reading
<1>5. MovesWithin(p, t)
  BY <1>2 DEF MovesWithin, InHup
<1> QED
  BY <1>1, <1>2, <1>3, <1>4, <1>5, GoesOnWithin

\* What vk_write puts.
Sent(s, t, v) ==
  LET n == Smaller(s.need[t], Room(s.tx[t]))
  IN [s EXCEPT !.tx[t] = Push(@, Bytes(n, v)), !.need[t] = @ - n]

LEMMA WriteOwn ==
  ASSUME QueueInv, NEW t \in Threads, NEW v \in Byte, WriteAs(t, v), NEW c, c = Sent(p, t, v)
  PROVE  LET n == Smaller(p.need[t], Room(p.tx[t]))
         IN /\ Own(p, c, t) /\ OwnOK(c, t) /\ (v = msg[t].writes => MovesWithin(c, t))
            /\ c.status = p.status /\ c.op = p.op /\ c.inside = p.inside /\ c.rx = p.rx
            /\ n \in Nat /\ n <= p.need[t] /\ c.need[t] = p.need[t] - n
            /\ c.tx[t].data = p.tx[t].data \o Bytes(n, v) /\ c.tx[t].eof = p.tx[t].eof
            /\ \/ p' = Finish(c, t) /\ c.need[t] = 0
               \/ c.need[t] # 0 /\ Wait(c, t) /\ Rests(c, t)
<1>1. Good(p) /\ IsProcess(p)
  BY DEF QueueInv, Good
<1>2. p.status[t] = "RUN" /\ p.inside[t] /\ p.op[t] = "WRITE"
  BY DEF WriteAs, Inside, Active
<1> DEFINE n == Smaller(p.need[t], Room(p.tx[t]))
           g == Push(p.tx[t], Bytes(n, v))
<1>3. (p' = Finish(c, t) /\ c.need[t] = 0) \/ (c.need[t] # 0 /\ Wait(c, t))
  BY DEF WriteAs, Sent
<1>4. /\ p.need[t] \in 0 .. MaxLen /\ p.need[t] \in Nat /\ MaxLen \in Nat
      /\ IsRing(p.rx[t]) /\ IsRing(p.tx[t]) /\ Len(p.tx[t].data) \in Nat
  BY <1>1, BufLenAssumption DEF IsProcess, IsRing
<1>5. Room(p.tx[t]) \in Nat /\ Room(p.tx[t]) = BufLen - Len(p.tx[t].data)
  BY <1>4, BufLenAssumption DEF Room, IsRing
<1>6. n \in Nat /\ n <= p.need[t] /\ n <= Room(p.tx[t]) /\ (n = p.need[t] \/ n = Room(p.tx[t]))
  BY <1>4, <1>5, SmallerIs
<1>7. g = Push(p.tx[t], Bytes(n, v)) /\ c = [p EXCEPT !.tx[t] = g, !.need[t] = p.need[t] - n]
  BY <1>1 DEF IsProcess, Sent
<1> HIDE DEF n, g
<1>8. /\ IsRing(g) /\ Len(g.data) = Len(p.tx[t].data) + n /\ g.eof = p.tx[t].eof
      /\ g.data = p.tx[t].data \o Bytes(n, v)
      /\ Of(p.tx[t].data, v) => Of(g.data, v)
  <2> DEFINE h == p.tx[t]
             b == Bytes(n, v)
  <2>1. b \in Seq(Byte) /\ Len(b) = n /\ Of(b, v)
    BY <1>1, <1>6, BytesOf
  <2>2. IsRing(h) /\ n <= Room(h) /\ g = Push(h, b)
    BY <1>4, <1>6, <1>7
  <2> HIDE DEF h, b
  <2>3. /\ IsRing(g) /\ g.data = h.data \o b /\ Len(g.data) = Len(h.data) + Len(b)
        /\ g.eof = h.eof /\ g.blocked = h.blocked
        /\ g.data = h.data \/ g.effect
        /\ \A z : Of(h.data, z) /\ Of(b, z) => Of(g.data, z)
    BY <2>1, <2>2, PushRing
  <2> QED
    BY <2>1, <2>3 DEF h, b
<1>9. /\ DOMAIN c = DOMAIN p /\ c.status = p.status /\ c.op = p.op /\ c.rx = p.rx
      /\ c.tx[t] = g /\ c.need[t] = p.need[t] - n /\ DOMAIN c.tx = Threads /\ DOMAIN c.need = Threads
      /\ \A x \in Threads \ {t} : c.tx[x] = p.tx[x] /\ c.need[x] = p.need[x]
  BY <1>1, <1>7 DEF IsProcess
<1>10. /\ c.run_q = p.run_q /\ c.run_enq = p.run_enq /\ c.run = p.run
       /\ c.blocked_q = p.blocked_q /\ c.blocked_enq = p.blocked_enq /\ c.blocked = p.blocked
       /\ c.running = p.running /\ c.closed = p.closed /\ c.inside = p.inside
  BY <1>1, <1>7 DEF IsProcess
<1>11. Own(p, c, t)
  BY <1>1, <1>9, <1>10 DEF Own, IsProcess
<1>12. c.need[t] \in 0 .. MaxLen
  BY <1>4, <1>6, <1>9
<1>13. OwnOK(c, t)
  BY <1>1, <1>2, <1>4, <1>8, <1>9, <1>10, <1>12 DEF OwnOK, IsProcess
<1>14. c.need[t] # 0 => Rests(c, t)
  <2>1. c.need[t] # 0 => Len(g.data) = BufLen
    BY <1>4, <1>5, <1>6, <1>8, <1>9, BufLenAssumption
  <2>2. g.data = << >> => Len(g.data) # BufLen
    BY BufLenAssumption
  <2> QED
    BY <1>2, <1>9, <2>1, <2>2 DEF Rests, Reading
<1>15. HupInv /\ Sink[t] # FD => ~ p.tx[t].eof
  BY <1>2 DEF HupInv, HupState, InHup
<1>16. v = msg[t].writes => MovesWithin(c, t)
  BY <1>2, <1>8, <1>9, <1>15 DEF MovesWithin, InHup
<1> QED
  BY <1>3, <1>6, <1>8, <1>9, <1>10, <1>11, <1>13, <1>14, <1>16 DEF n

\* vk_write.
LEMMA WriteSteps ==
  ASSUME QueueInv, NEW t \in Threads, Write(t)
  PROVE  StepsWithin(t)
<1> DEFINE v == msg[t].writes
           c == Sent(p, t, v)
<1>1. c = Sent(p, t, v) /\ v \in Byte /\ WriteAs(t, v)
  BY DEF QueueInv, Message, Byte, Write
<1> HIDE DEF c
<1>2. /\ Own(p, c, t) /\ OwnOK(c, t) /\ MovesWithin(c, t) /\ c.status = p.status /\ c.op = p.op
      /\ p' = Finish(c, t) \/ (Wait(c, t) /\ Rests(c, t))
  BY <1>1, WriteOwn
<1> QED
  BY <1>2, GoesOnWithin DEF QueueInv, Write, WriteAs, Inside, Active

\* What vk_forward moves.
Forwarded(s, t, v) ==
  LET n == Smaller(s.need[t], Smaller(Len(s.rx[t].data), Room(s.tx[t])))
  IN [s EXCEPT !.rx[t] = Pop(@, n), !.need[t] = @ - n, !.tx[t] = Push(@, Bytes(n, v))]

LEMMA ForwardOwn ==
  ASSUME QueueInv, NEW t \in Threads, NEW v \in Byte, ForwardAs(t, v), NEW c, c = Forwarded(p, t, v)
  PROVE  LET n == Smaller(p.need[t], Smaller(Len(p.rx[t].data), Room(p.tx[t])))
         IN /\ Own(p, c, t) /\ OwnOK(c, t) /\ (v = msg[t].writes => MovesWithin(c, t))
            /\ c.status = p.status /\ c.op = p.op /\ c.inside = p.inside
            /\ n \in Nat /\ n <= p.need[t] /\ n <= Len(p.rx[t].data) /\ c.need[t] = p.need[t] - n
            /\ c.rx[t] = Pop(p.rx[t], n)
            /\ c.tx[t].data = p.tx[t].data \o Bytes(n, v) /\ c.tx[t].eof = p.tx[t].eof
            /\ \/ p' = Finish(p, t) /\ (Pollhup(p, t) \/ p.need[t] = 0)
               \/ p' = Finish(c, t) /\ c.need[t] = 0
               \/ p.need[t] # 0 /\ Wait(c, t) /\ Rests(c, t)
<1>1. Good(p) /\ IsProcess(p) /\ p.op[t] \in Program[t] \cup {"NONE"}
  BY DEF QueueInv, Good
<1>2. p.status[t] = "RUN" /\ p.inside[t] /\ p.op[t] = "FORWARD"
  BY DEF ForwardAs, Inside, Active
<1>3. HupInv /\ ClosesCleanly /\ Sink[t] # FD => ~ p.tx[t].eof
  <2>1. ClosesCleanly => t \notin Closers
    BY <1>1, <1>2 DEF ClosesCleanly
  <2> QED
    BY <1>2, <2>1 DEF HupInv, HupState, InHup
<1> DEFINE m == Smaller(Len(p.rx[t].data), Room(p.tx[t]))
           n == Smaller(p.need[t], m)
           f == Pop(p.rx[t], n)
           g == Push(p.tx[t], Bytes(n, v))
<1>4. \/ p' = Finish(p, t) /\ (Pollhup(p, t) \/ p.need[t] = 0)
      \/ p' = Finish(c, t) /\ c.need[t] = 0
      \/ p.need[t] # 0 /\ Wait(c, t)
  BY DEF ForwardAs, Forwarded
<1>11. /\ p.need[t] \in 0 .. MaxLen /\ p.need[t] \in Nat /\ MaxLen \in Nat
       /\ IsRing(p.rx[t]) /\ IsRing(p.tx[t]) /\ Len(p.tx[t].data) \in Nat /\ Len(p.rx[t].data) \in Nat
  BY <1>1, BufLenAssumption DEF IsProcess, IsRing
<1>12. Room(p.tx[t]) \in Nat /\ Room(p.tx[t]) = BufLen - Len(p.tx[t].data)
  BY <1>11, BufLenAssumption DEF Room, IsRing
<1>13. /\ m \in Nat /\ m <= Len(p.rx[t].data) /\ m <= Room(p.tx[t])
       /\ m = Len(p.rx[t].data) \/ m = Room(p.tx[t])
  BY <1>11, <1>12, SmallerIs
<1> HIDE DEF m
<1>14. n \in Nat /\ n <= p.need[t] /\ n <= m /\ (n = p.need[t] \/ n = m)
  BY <1>11, <1>13, SmallerIs
<1>15. /\ f = Pop(p.rx[t], n) /\ g = Push(p.tx[t], Bytes(n, v))
       /\ c = [p EXCEPT !.rx[t] = f, !.need[t] = p.need[t] - n, !.tx[t] = g]
  BY <1>1 DEF IsProcess, Forwarded, m
<1> HIDE DEF n, f, g
<1>16. /\ IsRing(g) /\ Len(g.data) = Len(p.tx[t].data) + n /\ g.eof = p.tx[t].eof
       /\ g.data = p.tx[t].data \o Bytes(n, v)
       /\ Of(p.tx[t].data, v) => Of(g.data, v)
  <2> DEFINE h == p.tx[t]
             b == Bytes(n, v)
  <2>1. b \in Seq(Byte) /\ Len(b) = n /\ Of(b, v)
    BY <1>14, BytesOf
  <2>2. n <= Room(h)
    BY <1>12, <1>13, <1>14
  <2>3. IsRing(h) /\ g = Push(h, b)
    BY <1>11, <1>15
  <2> HIDE DEF h, b
  <2>4. /\ IsRing(g) /\ g.data = h.data \o b /\ Len(g.data) = Len(h.data) + Len(b)
        /\ g.eof = h.eof /\ g.blocked = h.blocked
        /\ g.data = h.data \/ g.effect
        /\ \A z : Of(h.data, z) /\ Of(b, z) => Of(g.data, z)
    BY <2>1, <2>2, <2>3, PushRing
  <2> QED
    BY <2>1, <2>4 DEF h, b
<1>17. /\ IsRing(f) /\ Len(f.data) = Len(p.rx[t].data) - n /\ f.blocked = p.rx[t].blocked
       /\ \A z : Of(p.rx[t].data, z) => Of(f.data, z)
  <2> DEFINE h == p.rx[t]
  <2>1. n \in 0 .. Len(h.data)
    BY <1>11, <1>13, <1>14
  <2>2. IsRing(h) /\ f = Pop(h, n)
    BY <1>11, <1>15
  <2> HIDE DEF h
  <2>3. /\ IsRing(f) /\ Len(f.data) = Len(h.data) - n
        /\ f.eof = h.eof /\ f.blocked = h.blocked
        /\ f.data = h.data \/ f.effect
        /\ \A z : Of(h.data, z) => Of(f.data, z)
    BY <2>1, <2>2, PopRing
  <2> QED
    BY <2>3 DEF h
<1>18. /\ DOMAIN c = DOMAIN p /\ c.status = p.status /\ c.op = p.op /\ c.rx[t] = f
       /\ c.tx[t] = g /\ c.need[t] = p.need[t] - n
       /\ DOMAIN c.tx = Threads /\ DOMAIN c.need = Threads /\ DOMAIN c.rx = Threads
       /\ \A x \in Threads \ {t} : c.tx[x] = p.tx[x] /\ c.need[x] = p.need[x] /\ c.rx[x] = p.rx[x]
  BY <1>1, <1>15 DEF IsProcess
<1>19. /\ c.run_q = p.run_q /\ c.run_enq = p.run_enq /\ c.run = p.run
       /\ c.blocked_q = p.blocked_q /\ c.blocked_enq = p.blocked_enq /\ c.blocked = p.blocked
       /\ c.running = p.running /\ c.closed = p.closed /\ c.inside = p.inside
  BY <1>1, <1>15 DEF IsProcess
<1>20. Own(p, c, t)
  BY <1>1, <1>18, <1>19 DEF Own, IsProcess
<1>21. c.need[t] \in 0 .. MaxLen
  BY <1>11, <1>14, <1>18
<1>22. OwnOK(c, t)
  BY <1>1, <1>2, <1>16, <1>17, <1>18, <1>19, <1>21 DEF OwnOK, IsProcess
<1>23. p.need[t] # 0 => Rests(c, t)
  <2>0. Len(g.data) = Len(p.tx[t].data) + n /\ Len(f.data) = Len(p.rx[t].data) - n
    BY <1>16, <1>17
  <2>1. p.need[t] # 0 /\ Len(g.data) = 0 => Len(f.data) = 0
    BY <1>11, <1>12, <1>13, <1>14, <2>0, BufLenAssumption
  <2>2. (f.data = << >> <=> Len(f.data) = 0) /\ (g.data = << >> <=> Len(g.data) = 0)
    BY <1>16, <1>17 DEF IsRing
  <2> QED
    BY <1>2, <1>18, <2>1, <2>2 DEF Rests, Reading, Writing
<1>24. v = msg[t].writes => MovesWithin(c, t)
  BY <1>2, <1>3, <1>16, <1>17, <1>18 DEF MovesWithin, InHup
<1>25. c.tx[t].data = p.tx[t].data \o Bytes(n, v) /\ c.tx[t].eof = p.tx[t].eof
  BY <1>16, <1>18
<1>26. n <= Len(p.rx[t].data) /\ c.rx[t] = Pop(p.rx[t], n)
  BY <1>11, <1>13, <1>14, <1>15, <1>18
<1>27. n = Smaller(p.need[t], Smaller(Len(p.rx[t].data), Room(p.tx[t])))
  BY DEF n, m
<1> QED
  BY <1>4, <1>14, <1>18, <1>19, <1>20, <1>22, <1>23, <1>24, <1>25, <1>26, <1>27

\* vk_forward.
LEMMA ForwardSteps ==
  ASSUME QueueInv, NEW t \in Threads, Forward(t)
  PROVE  StepsWithin(t)
<1>1. /\ Good(p) /\ p.op[t] \in Program[t] \cup {"NONE"} /\ msg[t].writes \in Byte
      /\ ForwardAs(t, msg[t].writes)
  BY DEF QueueInv, Forward, Message, Byte
<1>2. p.status[t] = "RUN" /\ p.inside[t] /\ p.op[t] = "FORWARD"
  BY DEF Forward, ForwardAs, Inside, Active
<1> DEFINE c == Forwarded(p, t, msg[t].writes)
<1>3. c = Forwarded(p, t, msg[t].writes)
  OBVIOUS
<1> HIDE DEF c
<1>4. /\ Own(p, c, t) /\ OwnOK(c, t) /\ MovesWithin(c, t) /\ c.status = p.status /\ c.op = p.op
      /\ p' = Finish(p, t) \/ p' = Finish(c, t) \/ (Wait(c, t) /\ Rests(c, t))
  BY <1>1, <1>3, ForwardOwn, ZenonT(60)
<1>5. CASE p' = Finish(p, t)
  <2>1. Own(p, p, t) /\ OwnOK(p, t)
    BY <1>1, <1>2, OwnSelf
  <2>2. MovesWithin(p, t)
    BY <1>2, <1>4 DEF MovesWithin, InHup, HupInv, HupState
  <2> QED
    BY <1>1, <1>2, <1>5, <2>1, <2>2, GoesOnWithin
<1>6. CASE p' = Finish(c, t) \/ (Wait(c, t) /\ Rests(c, t))
  BY <1>1, <1>2, <1>4, <1>6, GoesOnWithin
<1> QED
  BY <1>4, <1>5, <1>6

----------------------------------------------------------------------------
(* Steps without an attempt at an operation *)

\* Only the queue a coroutine runs from, or who runs, is different.
Kept(s, u) ==
  /\ u.status = s.status /\ u.op = s.op /\ u.inside = s.inside
  /\ u.rx = s.rx /\ u.tx = s.tx /\ u.blocked_enq = s.blocked_enq

\* Who sleeps sleeps on,
LEMMA KeptSleep ==
  ASSUME NEW s, NEW u, Kept(s, u), SleepInv(s, {})
  PROVE  SleepInv(u, {})
BY DEF Kept, SleepInv, WakeInv, HoardInv, Waits, Crossed, Hoards, Stalled, Sleeps

\* and the messages are where they were.
LEMMA KeptHup ==
  ASSUME NEW s, NEW u, NEW m, Kept(s, u), HupState(s, m)
  PROVE  HupState(u, m)
<1>1. \A t : InHup(u, t) <=> InHup(s, t)
  BY DEF Kept, InHup
<1>2. \A t : Unpolled(u, t) <=> Unpolled(s, t)
  BY DEF Kept, Unpolled
<1>3. \A r, a, b : PipeInv(s, r, a, b) => PipeInv(u, r, a, b)
  BY <1>1 DEF Kept, PipeInv
<1> QED
  BY <1>1, <1>2, <1>3 DEF Kept, HupState

Resume(s, x) == [s EXCEPT !.running = x]

\* Another coroutine runs, or none.
LEMMA RunningKept ==
  ASSUME NEW s, Good(s), NEW x \in Threads \cup {NoThread}, NEW u, u = Resume(s, x)
  PROVE  Good(u) /\ Kept(s, u)
<1>1. IsProcess(s)
  BY DEF Good
<1>2. /\ DOMAIN u = DOMAIN s /\ u.running = x
      /\ u.status = s.status /\ u.op = s.op /\ u.inside = s.inside /\ u.need = s.need /\ u.closed = s.closed
      /\ u.rx = s.rx /\ u.tx = s.tx /\ u.run_q = s.run_q /\ u.run_enq = s.run_enq
      /\ u.blocked_q = s.blocked_q /\ u.blocked_enq = s.blocked_enq
  BY <1>1 DEF IsProcess, Resume
<1>3. u.run = s.run /\ u.blocked = s.blocked
  BY <1>1 DEF IsProcess, Resume
<1>4. IsProcess(u)
  BY <1>1, <1>2, <1>3 DEF IsProcess
<1> QED
  BY <1>2, <1>3, <1>4 DEF Good, Kept

\* vk_raise leaves everybody else alone.
LEMMA RaiseApart ==
  ASSUME NEW s, Good(s), NEW t \in Threads, s.status[t] = "RUN", NEW u, u = Raise(s, t)
  PROVE  /\ Good(u) /\ Apart(s, u, t) /\ u.status[t] = "ERR" /\ u.op = s.op /\ u.inside = s.inside
         /\ u.rx = s.rx /\ u.tx = s.tx
<1> DEFINE q == EnqueueRun(s, t)
<1>1. Quiet(s, q, NoThread) /\ q.status[t] # "WAIT"
  BY EnqueueRunQuiet
<1>2. u = [q EXCEPT !.status[t] = "ERR"]
  BY DEF Raise
<1>3. \A x \in Threads \ {t} : q.status[x] = s.status[x]
  <2>1. IsProcess(s)
    BY DEF Good
  <2> DEFINE r == Ready(s, t)
  <2>2. DOMAIN r = DOMAIN s /\ \A x \in Threads \ {t} : r.status[x] = s.status[x]
    BY <2>1 DEF Ready, IsProcess
  <2>3. q = r \/ q = [r EXCEPT !.run = IF r.run_q = << >> THEN TRUE ELSE @,
                               !.run_q = << t >> \o @, !.run_enq[t] = TRUE]
    BY DEF EnqueueRun
  <2> HIDE DEF r, q
  <2>4. q.status = r.status
    BY <2>1, <2>2, <2>3 DEF IsProcess
  <2> QED
    BY <2>2, <2>4
<1> HIDE DEF q
<1>4. Good(q) /\ IsProcess(q)
  BY <1>1 DEF Quiet, Good
<1>5. /\ DOMAIN u = DOMAIN q /\ u.rx = q.rx /\ u.tx = q.tx /\ u.op = q.op /\ u.inside = q.inside
      /\ u.need = q.need /\ u.status[t] = "ERR" /\ DOMAIN u.status = Threads
      /\ \A x \in Threads \ {t} : u.status[x] = q.status[x]
  BY <1>2, <1>4 DEF IsProcess
<1>6. /\ u.run_q = q.run_q /\ u.run_enq = q.run_enq /\ u.run = q.run
      /\ u.blocked_q = q.blocked_q /\ u.blocked_enq = q.blocked_enq /\ u.blocked = q.blocked
      /\ u.running = q.running /\ u.closed = q.closed
  BY <1>2, <1>4 DEF IsProcess
<1>7. Own(q, u, t)
  BY <1>4, <1>5, <1>6 DEF Own, IsProcess
<1>8. OwnOK(u, t)
  BY <1>4, <1>5 DEF OwnOK, IsProcess
<1>9. Good(u)
  BY <1>4, <1>7, <1>8, OwnGood
<1>10. u.op = s.op /\ u.inside = s.inside /\ u.rx = s.rx /\ u.tx = s.tx
  BY <1>1, <1>5 DEF Quiet, Steady
<1>11. \A x \in Threads : u.blocked_enq[x] <=> s.blocked_enq[x]
  BY <1>1, <1>6, PipeAssumption DEF Quiet, Steady
<1>12. Apart(s, u, t)
  BY <1>3, <1>5, <1>10, <1>11 DEF Apart
<1> QED
  BY <1>5, <1>9, <1>10, <1>12

\* A step of t that attempts nothing and goes on within its message.
Alone(t) ==
  /\ Good(p') /\ Apart(p, p', t) /\ p'.status[t] # "WAIT"
  /\ p'.op[t] \in Program[t] \cup {"NONE"} /\ (p'.op[t] = "HUP" => Sink[t] # FD)
  /\ HupInv => Within(p, p', t, msg[t].writes)
  /\ CloseInv => Shut(p', t)

\* It keeps the queues in order,
LEMMA AloneQueue ==
  ASSUME QueueInv, NEW t \in Threads, Alone(t), phase = "execute", UNCHANGED << phase, retry, ended, msg >>
  PROVE  QueueInv'
<1>1. \A x \in Threads : p'.op[x] \in Program[x] \cup {"NONE"} /\ (p'.op[x] = "HUP" => Sink[x] # FD)
  BY DEF QueueInv, Alone, Apart
<1>2. retry = << >> /\ Len(retry) = 0
  BY DEF QueueInv
<1> QED
  BY <1>1, <1>2 DEF QueueInv, Alone

\* lets who sleeps be woken,
LEMMA AloneSleep ==
  ASSUME SleepInv(p, {}), NEW t \in Threads, Alone(t)
  PROVE  SleepInv(p', {})
<1>1. SleepInv(p', {t})
  BY ButSleep, ApartSleep DEF Alone
<1> QED
  BY <1>1, AwakeSleep DEF Alone

\* reopens no pipe,
LEMMA AloneClose ==
  ASSUME CloseInv, NEW t \in Threads, Alone(t), phase = "execute", p.running = t, UNCHANGED phase
  PROVE  CloseInv'
<1>1. \A x \in Threads \ {t} : ~ Closes(p, x) /\ p'.op[x] = p.op[x] /\ p'.tx[x] = p.tx[x]
  BY DEF Alone, Apart, Closes
<1> QED
  BY <1>1, ShutStep DEF Alone

\* and keeps the message boundaries.
LEMMA AloneHup ==
  ASSUME HupInv, NEW t \in Threads, Alone(t), UNCHANGED << msg, retry >>
  PROVE  HupInv'
<1>1. HupState(p', msg)
  BY WithinHup DEF HupInv, Alone
<1> QED
  BY <1>1 DEF HupInv

\* An operation begins; a write after EOF raises.
LEMMA BeginAlone ==
  ASSUME QueueInv, NEW t \in Threads, NEW o \in Ops \ {"HUP"}, NEW n \in 0 .. MaxLen, Begin(t, o, n),
         o = "TX_CLOSE" => n # 0
  PROVE  Alone(t)
<1>1. Good(p) /\ IsProcess(p)
  BY DEF QueueInv, Good
<1>2. p.status[t] = "RUN" /\ ~ p.inside[t] /\ o \in Program[t] /\ p.running = t
  BY DEF Begin, Between, Active
<1> DEFINE c == [p EXCEPT !.op[t] = o, !.need[t] = n, !.inside[t] = TRUE]
<1>3. IF o = "WRITE" /\ p.tx[t].eof THEN p' = Raise(c, t) ELSE p' = c
  BY DEF Begin
<1>4. c = [p EXCEPT !.op[t] = o, !.need[t] = n, !.inside[t] = TRUE]
  OBVIOUS
<1> HIDE DEF c
<1>5. /\ DOMAIN c = DOMAIN p /\ c.status = p.status /\ c.rx = p.rx /\ c.tx = p.tx
      /\ c.op[t] = o /\ c.need[t] = n /\ DOMAIN c.op = Threads /\ DOMAIN c.need = Threads
      /\ DOMAIN c.inside = Threads
      /\ \A x \in Threads \ {t} : c.op[x] = p.op[x] /\ c.need[x] = p.need[x]
  BY <1>1, <1>4 DEF IsProcess
<1>6. /\ c.run_q = p.run_q /\ c.run_enq = p.run_enq /\ c.run = p.run
      /\ c.blocked_q = p.blocked_q /\ c.blocked_enq = p.blocked_enq /\ c.blocked = p.blocked
      /\ c.running = p.running /\ c.closed = p.closed
  BY <1>1, <1>4 DEF IsProcess
<1>7. c.inside[t] = TRUE
  BY <1>1, <1>4 DEF IsProcess
<1>8. \A x \in Threads \ {t} : c.inside[x] = p.inside[x]
  BY <1>1, <1>4 DEF IsProcess
<1>9. Own(p, c, t)
  BY <1>1, <1>5, <1>6, <1>8 DEF Own, IsProcess
<1>10. OwnOK(c, t)
  BY <1>1, <1>2, <1>5, <1>7 DEF OwnOK, IsProcess
<1>11. Good(c) /\ Apart(p, c, t)
  BY <1>1, <1>9, <1>10, OwnGood, OwnApart
<1>12. ~ InHup(p, t) /\ ~ InHup(c, t)
  BY <1>2, <1>5 DEF InHup
<1>13. CASE o = "WRITE" /\ p.tx[t].eof
  <2>1. /\ Good(p') /\ Apart(c, p', t) /\ p'.status[t] = "ERR" /\ p'.op = c.op /\ p'.inside = c.inside
        /\ p'.rx = c.rx /\ p'.tx = c.tx
    BY <1>2, <1>3, <1>5, <1>11, <1>13, RaiseApart
  <2>2. Apart(p, p', t)
    BY <1>11, <2>1 DEF Apart
  <2>3. ~ InHup(p', t)
    BY <1>12, <2>1 DEF InHup
  <2>4. Within(p, p', t, msg[t].writes)
    BY <1>5, <1>12, <2>1, <2>3 DEF Within
  <2>5. Shut(p', t)
    BY <1>5, <1>13, <2>1 DEF Shut
  <2> QED
    BY <1>2, <1>5, <2>1, <2>2, <2>4, <2>5 DEF Alone
<1>14. CASE ~ (o = "WRITE" /\ p.tx[t].eof)
  <2>1. p' = c
    BY <1>3, <1>14
  <2>2. Within(p, c, t, msg[t].writes)
    BY <1>5, <1>12, <1>14 DEF Within
  <2>3. Shut(c, t)
    BY <1>2, <1>5, <1>6, <1>7 DEF Shut, Closes
  <2> QED
    BY <1>2, <1>5, <1>11, <2>1, <2>2, <2>3 DEF Alone
<1> QED
  BY <1>13, <1>14

\* A raise between two operations.
LEMMA RaiseAlone ==
  ASSUME QueueInv, NEW t \in Threads, p.status[t] = "RUN", ~ p.inside[t], p' = Raise(p, t)
  PROVE  Alone(t)
<1>1. Good(p)
  BY DEF QueueInv
<1>2. /\ Good(p') /\ Apart(p, p', t) /\ p'.status[t] = "ERR" /\ p'.op = p.op /\ p'.inside = p.inside
      /\ p'.rx = p.rx /\ p'.tx = p.tx
  BY <1>1, RaiseApart
<1>3. ~ InHup(p, t) /\ ~ InHup(p', t)
  BY <1>2 DEF InHup
<1>4. Within(p, p', t, msg[t].writes)
  BY <1>2, <1>3 DEF Within
<1>5. CloseInv => Shut(p', t)
  BY <1>2 DEF CloseInv, Shut, Closes
<1> QED
  BY <1>2, <1>4, <1>5 DEF Alone, QueueInv

\* vk_finally.
LEMMA FinallyAlone ==
  ASSUME QueueInv, NEW t \in Threads, Finally(t)
  PROVE  Alone(t)
<1>1. Good(p) /\ IsProcess(p)
  BY DEF QueueInv, Good
<1> DEFINE c == [p EXCEPT !.status[t] = "RUN", !.inside[t] = FALSE]
<1>2. p' = c /\ p.status[t] = "ERR"
  BY DEF Finally
<1>3. c = [p EXCEPT !.status[t] = "RUN", !.inside[t] = FALSE]
  OBVIOUS
<1> HIDE DEF c
<1>4. /\ DOMAIN c = DOMAIN p /\ c.op = p.op /\ c.need = p.need /\ c.rx = p.rx /\ c.tx = p.tx
      /\ c.status[t] = "RUN" /\ DOMAIN c.status = Threads /\ DOMAIN c.inside = Threads
      /\ \A x \in Threads \ {t} : c.status[x] = p.status[x]
  BY <1>1, <1>3 DEF IsProcess
<1>5. /\ c.run_q = p.run_q /\ c.run_enq = p.run_enq /\ c.run = p.run
      /\ c.blocked_q = p.blocked_q /\ c.blocked_enq = p.blocked_enq /\ c.blocked = p.blocked
      /\ c.running = p.running /\ c.closed = p.closed
  BY <1>1, <1>3 DEF IsProcess
<1>6. c.inside[t] = FALSE
  BY <1>1, <1>3 DEF IsProcess
<1>7. \A x \in Threads \ {t} : c.inside[x] = p.inside[x]
  BY <1>1, <1>3 DEF IsProcess
<1>8. Own(p, c, t)
  BY <1>1, <1>4, <1>5, <1>7 DEF Own, IsProcess
<1>9. OwnOK(c, t)
  BY <1>1, <1>4, <1>6 DEF OwnOK, IsProcess
<1>10. Good(c) /\ Apart(p, c, t)
  BY <1>1, <1>8, <1>9, OwnGood, OwnApart
<1>11. ~ InHup(c, t) /\ (HupInv => ~ InHup(p, t))
  BY <1>2, <1>6 DEF InHup, HupInv, HupState
<1>12. HupInv => Within(p, c, t, msg[t].writes)
  BY <1>4, <1>6, <1>11 DEF Within
<1>13. CloseInv => Shut(c, t)
  BY <1>2, <1>4 DEF CloseInv, Shut, Closes
<1> QED
  BY <1>2, <1>4, <1>10, <1>12, <1>13 DEF Alone, QueueInv

\* u is s with coroutine t ended.
Ending(s, u, t) ==
  /\ DOMAIN u = DOMAIN s
  /\ u.run_q = s.run_q /\ u.run_enq = s.run_enq /\ u.run = s.run
  /\ u.blocked_q = s.blocked_q /\ u.blocked_enq = s.blocked_enq /\ u.blocked = s.blocked
  /\ u.running = s.running /\ u.closed = s.closed
  /\ u.op = s.op /\ u.need = s.need /\ u.inside = s.inside /\ u.rx = s.rx /\ u.tx = s.tx
  /\ DOMAIN u.status = Threads /\ u.status[t] = "END"
  /\ \A x \in Threads \ {t} : u.status[x] = s.status[x]

\* Ending first or dropping first is the same,
LEMMA EndingDropBlocked ==
  ASSUME NEW s, IsProcess(s), NEW t \in Threads, NEW u, Ending(s, u, t)
  PROVE  Ending(DropBlocked(s, t), DropBlocked(u, t), t)
<1> DEFINE q == IF s.blocked_enq[t] THEN Without(s.blocked_q, t) ELSE s.blocked_q
           e == [s.blocked_enq EXCEPT ![t] = FALSE]
           f == IF q = << >> THEN FALSE ELSE s.blocked
           a == DropBlocked(s, t)
           b == DropBlocked(u, t)
<1>1. a = [s EXCEPT !.blocked_q = q, !.blocked_enq = e, !.blocked = f]
  BY DEF DropBlocked, IsProcess
<1>2. u.blocked_enq = s.blocked_enq /\ u.blocked_q = s.blocked_q /\ u.blocked = s.blocked /\ DOMAIN u = DOMAIN s
  BY DEF Ending
<1>3. b = [u EXCEPT !.blocked_q = q, !.blocked_enq = e, !.blocked = f]
  BY <1>2 DEF DropBlocked, IsProcess
<1> HIDE DEF q, e, f, a, b
<1>4. /\ DOMAIN b = DOMAIN a /\ b.run_q = a.run_q /\ b.run_enq = a.run_enq
      /\ b.blocked_q = a.blocked_q /\ b.blocked_enq = a.blocked_enq
      /\ b.running = a.running /\ b.closed = a.closed
      /\ b.op = a.op /\ b.need = a.need /\ b.inside = a.inside /\ b.rx = a.rx /\ b.tx = a.tx
      /\ b.status = u.status /\ a.status = s.status
  BY <1>1, <1>2, <1>3 DEF Ending, IsProcess
<1>5. b.run = a.run
  BY <1>1, <1>2, <1>3 DEF Ending, IsProcess
<1>6. b.blocked = a.blocked
  BY <1>1, <1>2, <1>3 DEF IsProcess
<1>7. Ending(a, b, t)
  BY <1>4, <1>5, <1>6 DEF Ending
<1> QED
  BY <1>7 DEF a, b

\* for either queue.
LEMMA EndingDropRun ==
  ASSUME NEW s, IsProcess(s), NEW t \in Threads, NEW u, Ending(s, u, t)
  PROVE  Ending(DropRun(s, t), DropRun(u, t), t)
<1> DEFINE q == IF s.run_enq[t] THEN Without(s.run_q, t) ELSE s.run_q
           e == [s.run_enq EXCEPT ![t] = FALSE]
           f == IF q = << >> THEN FALSE ELSE s.run
           a == DropRun(s, t)
           b == DropRun(u, t)
<1>1. a = [s EXCEPT !.run_q = q, !.run_enq = e, !.run = f]
  BY DEF DropRun, IsProcess
<1>2. u.run_enq = s.run_enq /\ u.run_q = s.run_q /\ u.run = s.run /\ DOMAIN u = DOMAIN s
  BY DEF Ending
<1>3. b = [u EXCEPT !.run_q = q, !.run_enq = e, !.run = f]
  BY <1>2 DEF DropRun, IsProcess
<1> HIDE DEF q, e, f, a, b
<1>4. /\ DOMAIN b = DOMAIN a /\ b.run_q = a.run_q /\ b.run_enq = a.run_enq
      /\ b.blocked_q = a.blocked_q /\ b.blocked_enq = a.blocked_enq
      /\ b.running = a.running /\ b.closed = a.closed
      /\ b.op = a.op /\ b.need = a.need /\ b.inside = a.inside /\ b.rx = a.rx /\ b.tx = a.tx
      /\ b.status = u.status /\ a.status = s.status
  BY <1>1, <1>2, <1>3 DEF Ending, IsProcess
<1>5. b.run = a.run
  BY <1>1, <1>2, <1>3 DEF IsProcess
<1>6. b.blocked = a.blocked
  BY <1>1, <1>2, <1>3 DEF Ending, IsProcess
<1>7. Ending(a, b, t)
  BY <1>4, <1>5, <1>6 DEF Ending
<1> QED
  BY <1>7 DEF a, b

\* Nothing but the queues is different, and t is off some.
Dropped(s, u, t) ==
  /\ Good(u) /\ u.status = s.status /\ u.op = s.op /\ u.inside = s.inside /\ u.rx = s.rx /\ u.tx = s.tx
  /\ u.blocked_enq[t] => s.blocked_enq[t]
  /\ \A x \in Threads \ {t} : u.blocked_enq[x] <=> s.blocked_enq[x]

\* vk_end.
LEMMA EndAlone ==
  ASSUME QueueInv, NEW t \in Threads, End(t)
  PROVE  Alone(t)
<1>1. Good(p) /\ IsProcess(p)
  BY DEF QueueInv, Good
<1>2. p.status[t] = "RUN" /\ ~ p.inside[t]
  BY DEF End, Between, Active
<1> DEFINE c == [p EXCEPT !.status[t] = "END"]
           d == DropBlockedFor(c, t)
           a == DropBlockedFor(p, t)
           b == IF a.run_enq[t] THEN DropRun(a, t) ELSE a
<1>3. p' = IF d.run_enq[t] THEN DropRun(d, t) ELSE d
  BY DEF End
<1>4. Ending(p, c, t)
  <2>1. /\ DOMAIN c = DOMAIN p /\ c.run_q = p.run_q /\ c.run_enq = p.run_enq
        /\ c.blocked_q = p.blocked_q /\ c.blocked_enq = p.blocked_enq
        /\ c.running = p.running /\ c.closed = p.closed
        /\ c.op = p.op /\ c.need = p.need /\ c.inside = p.inside /\ c.rx = p.rx /\ c.tx = p.tx
        /\ DOMAIN c.status = Threads /\ c.status[t] = "END"
        /\ \A x \in Threads \ {t} : c.status[x] = p.status[x]
    BY <1>1 DEF IsProcess
  <2>2. c.run = p.run /\ c.blocked = p.blocked
    BY <1>1 DEF IsProcess
  <2> QED
    BY <2>1, <2>2 DEF Ending
<1> HIDE DEF c
<1>5. Ending(a, d, t) /\ Dropped(p, a, t) /\ ~ a.blocked_enq[t]
  <2>1. p.blocked_enq[t] <=> \E i \in 1 .. Len(p.blocked_q) : p.blocked_q[i] = t
    BY <1>1 DEF Good, Queued
  <2>2. c.blocked_q = p.blocked_q
    BY <1>4 DEF Ending
  <2>3. CASE p.blocked_enq[t]
    <3>1. a = DropBlocked(p, t) /\ d = DropBlocked(c, t)
      BY <2>1, <2>2, <2>3 DEF DropBlockedFor
    <3>2. Ending(a, d, t)
      BY <1>1, <1>4, <3>1, EndingDropBlocked
    <3> HIDE DEF a, d
    <3>3. /\ Good(a) /\ a.status = p.status /\ a.op = p.op /\ a.inside = p.inside /\ a.rx = p.rx /\ a.tx = p.tx
          /\ ~ a.blocked_enq[t] /\ \A x \in Threads \ {t} : a.blocked_enq[x] = p.blocked_enq[x]
      BY <1>1, <3>1, DropBlockedGood
    <3> QED
      BY <3>2, <3>3 DEF Dropped
  <2>4. CASE ~ p.blocked_enq[t]
    <3>1. a = p /\ d = c
      BY <2>1, <2>2, <2>4 DEF DropBlockedFor
    <3> QED
      BY <1>1, <1>4, <2>4, <3>1 DEF Dropped
  <2> QED
    BY <2>3, <2>4
<1> HIDE DEF a, d
<1>6. Ending(b, p', t) /\ Dropped(p, b, t) /\ ~ b.blocked_enq[t] /\ ~ b.run_enq[t]
  <2>1. Good(a) /\ IsProcess(a) /\ d.run_enq = a.run_enq
    BY <1>5 DEF Dropped, Good, Ending
  <2>2. CASE a.run_enq[t]
    <3>1. b = DropRun(a, t) /\ p' = DropRun(d, t)
      BY <1>3, <2>1, <2>2
    <3>2. Ending(b, p', t)
      BY <1>5, <2>1, <3>1, EndingDropRun
    <3> HIDE DEF b
    <3>3. /\ Good(b) /\ b.status = a.status /\ b.op = a.op /\ b.inside = a.inside /\ b.rx = a.rx /\ b.tx = a.tx
          /\ b.blocked_enq = a.blocked_enq /\ ~ b.run_enq[t]
      BY <2>1, <3>1, DropRunGood
    <3> QED
      BY <1>5, <3>2, <3>3 DEF Dropped
  <2>3. CASE ~ a.run_enq[t]
    <3>1. b = a /\ p' = d
      BY <1>3, <2>1, <2>3
    <3> QED
      BY <1>5, <2>3, <3>1
  <2> QED
    BY <2>2, <2>3
<1> HIDE DEF b
<1>7. IsProcess(b) /\ Good(b)
  BY <1>6 DEF Dropped, Good
<1>8. \A x \in Threads : p'.status[x] \in {"RUN", "WAIT", "ERR", "END"}
  BY <1>6, <1>7 DEF Ending, IsProcess
<1>9. IsProcess(p')
  BY <1>6, <1>7, <1>8 DEF Ending, IsProcess
<1>10. \A x \in Threads : p'.status[x] = "END" => ~ p'.run_enq[x] /\ ~ p'.blocked_enq[x]
  BY <1>6, <1>7 DEF Ending, Good
<1>11. Good(p')
  BY <1>6, <1>7, <1>9, <1>10 DEF Good, Ending
<1>12. Apart(p, p', t)
  BY <1>6 DEF Apart, Ending, Dropped
<1>13. p'.op = p.op /\ p'.inside = p.inside /\ p'.rx = p.rx /\ p'.tx = p.tx /\ p'.status[t] = "END"
  BY <1>6 DEF Ending, Dropped
<1>14. ~ InHup(p, t) /\ ~ InHup(p', t) /\ ~ p'.inside[t]
  BY <1>2, <1>13 DEF InHup
<1>15. Within(p, p', t, msg[t].writes)
  BY <1>13, <1>14 DEF Within
<1>16. CloseInv => Shut(p', t)
  BY <1>2, <1>13 DEF CloseInv, Shut, Closes
<1> QED
  BY <1>11, <1>12, <1>13, <1>15, <1>16 DEF Alone, QueueInv

----------------------------------------------------------------------------
(* The message boundaries *)

Messages == [Threads -> [writes : Message, reads : Message]]

\* The next message is the other one.
LEMMA OtherMessage ==
  ASSUME NEW a \in Message, NEW b \in Message
  PROVE  1 - a \in Message /\ (1 - a = b <=> a # b)
BY DEF Message

\* m with the next message for t to write,
NextWritten(m, n, t) ==
  /\ n \in Messages /\ n[t].writes = 1 - m[t].writes
  /\ \A x \in Threads : n[x].reads = m[x].reads
  /\ \A x \in Threads \ {t} : n[x].writes = m[x].writes

\* or to read.
NextRead(m, n, t) ==
  /\ n \in Messages /\ n[t].reads = 1 - m[t].reads
  /\ \A x \in Threads : n[x].writes = m[x].writes
  /\ \A x \in Threads \ {t} : n[x].reads = m[x].reads

\* What the history of a boundary is.
LEMMA NextWrittenIs ==
  ASSUME NEW m \in Messages, NEW t \in Threads, NEW n, n = [m EXCEPT ![t].writes = 1 - @]
  PROVE  NextWritten(m, n, t)
<1>1. m[t].writes \in Message /\ m[t].reads \in Message
  BY DEF Messages
<1>2. 1 - m[t].writes \in Message
  BY <1>1, OtherMessage
<1> QED
  BY <1>1, <1>2 DEF NextWritten, Messages

\* The same of the reader.
LEMMA NextReadIs ==
  ASSUME NEW m \in Messages, NEW t \in Threads, NEW n, n = [m EXCEPT ![t].reads = 1 - @]
  PROVE  NextRead(m, n, t)
<1>1. m[t].writes \in Message /\ m[t].reads \in Message
  BY DEF Messages
<1>2. 1 - m[t].reads \in Message
  BY <1>1, OtherMessage
<1> QED
  BY <1>1, <1>2 DEF NextRead, Messages

\* The EOF is marked and the hup under way: the message is still the same.
LEMMA HupMarks ==
  ASSUME NEW s, NEW m, NEW t \in Threads, NEW u, HupState(s, m), Apart(s, u, t),
         u.rx[t] = s.rx[t], u.tx[t].data = s.tx[t].data, ~ s.tx[t].eof, u.tx[t].eof,
         ~ InHup(s, t), InHup(u, t), u.status[t] # "ERR"
  PROVE  HupState(u, m)
<1>1. \A x \in Threads \ {t} : (InHup(u, x) <=> InHup(s, x)) /\ u.tx[x].eof = s.tx[x].eof
  BY DEF Apart, InHup
<1>2. \A x \in Threads : u.rx[x].data = s.rx[x].data /\ u.tx[x].data = s.tx[x].data
  BY DEF Apart
<1>3. ASSUME NEW r \in Threads, Source[r] # FD
      PROVE  PipeInv(u, r, m[r].reads, m[Source[r]].writes)
  <2>1. Source[r] \in Threads /\ PipeInv(s, r, m[r].reads, m[Source[r]].writes)
    BY <1>3, PipeAssumption DEF HupState
  <2>2. m[Source[r]].writes = m[r].reads <=> (InHup(u, Source[r]) <=> u.tx[Source[r]].eof)
    <3>1. CASE Source[r] = t
      BY <2>1, <3>1 DEF PipeInv
    <3>2. CASE Source[r] # t
      BY <1>1, <2>1, <3>2 DEF PipeInv
    <3> QED
      BY <3>1, <3>2
  <2> QED
    BY <1>2, <2>1, <2>2 DEF PipeInv
<1>4. \A x \in Threads : InHup(u, x) => u.status[x] # "ERR"
  BY <1>1 DEF HupState, Apart
<1>5. \A x \in Threads : Sink[x] # FD /\ u.tx[x].eof /\ ~ InHup(u, x) =>
        x \in Closers /\ (u.inside[x] /\ u.op[x] = "WRITE" => u.status[x] = "ERR")
  BY <1>1 DEF HupState, Apart
<1>6. \A x \in Taken : Unpolled(u, x)
  BY DEF HupState, Unpolled, Apart, Closers, Taken
<1> QED
  BY <1>3, <1>4, <1>5, <1>6 DEF HupState

\* The reader has taken the EOF, and the hup returns: the writer is in the
\* next message, as its reader is.
LEMMA HupClears ==
  ASSUME NEW s, NEW m \in Messages, NEW n, NEW t \in Threads, NEW u, HupState(s, m), Apart(s, u, t),
         u.rx[t] = s.rx[t], u.tx[t] = s.tx[t], ~ s.tx[t].eof,
         InHup(s, t), ~ InHup(u, t), NextWritten(m, n, t)
  PROVE  HupState(u, n)
<1>1. \A x \in Threads \ {t} : InHup(u, x) <=> InHup(s, x)
  BY DEF Apart, InHup
<1>2. \A x \in Threads : u.rx[x] = s.rx[x] /\ u.tx[x] = s.tx[x]
  BY DEF Apart
<1>3. ASSUME NEW r \in Threads, Source[r] # FD
      PROVE  PipeInv(u, r, n[r].reads, n[Source[r]].writes)
  <2>1. Source[r] \in Threads /\ PipeInv(s, r, m[r].reads, m[Source[r]].writes) /\ n[r].reads = m[r].reads
    BY <1>3, PipeAssumption DEF HupState, NextWritten
  <2>2. n[Source[r]].writes = m[r].reads <=> (InHup(u, Source[r]) <=> u.tx[Source[r]].eof)
    <3>1. CASE Source[r] = t
      <4>1. m[t].writes # m[r].reads
        BY <2>1, <3>1 DEF PipeInv
      <4>2. n[t].writes = m[r].reads
        BY <4>1, OtherMessage DEF NextWritten, Messages
      <4> QED
        BY <1>2, <3>1, <4>2
    <3>2. CASE Source[r] # t
      BY <1>1, <1>2, <2>1, <3>2 DEF PipeInv, NextWritten
    <3> QED
      BY <3>1, <3>2
  <2> QED
    BY <1>2, <2>1, <2>2 DEF PipeInv
<1>4. \A x \in Threads : InHup(u, x) => u.status[x] # "ERR"
  BY <1>1 DEF HupState, Apart
<1>5. \A x \in Threads : Sink[x] # FD /\ u.tx[x].eof /\ ~ InHup(u, x) =>
        x \in Closers /\ (u.inside[x] /\ u.op[x] = "WRITE" => u.status[x] = "ERR")
  BY <1>1 DEF HupState, Apart
<1>6. \A x \in Taken : Unpolled(u, x)
  BY DEF HupState, Unpolled, Apart, Closers, Taken
<1> QED
  BY <1>3, <1>4, <1>5, <1>6 DEF HupState

\* A close marks the EOF and the writer is past it.
LEMMA CloseMarks ==
  ASSUME NEW s, NEW m \in Messages, NEW n, NEW t \in Closers, NEW u, HupState(s, m), Shift(s, u, t),
         u.tx[t].eof, ~ s.tx[t].eof, \A x \in Threads \ {t} : u.tx[x].eof = s.tx[x].eof,
         s.op[t] = "TX_CLOSE", t \in Taken => Unpolled(u, t), NextWritten(m, n, t)
  PROVE  HupState(u, n)
<1>0. t \in Threads
  BY DEF Closers
<1>1. u.inside = s.inside /\ u.op = s.op /\ \A x \in Threads : u.status[x] = "ERR" <=> s.status[x] = "ERR"
  BY DEF Shift, Steady
<1>2. ~ InHup(s, t) /\ \A x \in Threads : InHup(u, x) <=> InHup(s, x)
  BY <1>1 DEF InHup
<1>3. ASSUME NEW r \in Threads, Source[r] # FD
      PROVE  PipeInv(u, r, n[r].reads, n[Source[r]].writes)
  <2>1. Source[r] \in Threads /\ n[r].reads = m[r].reads
    BY <1>3, PipeAssumption DEF NextWritten
  <2>2. Carries(s, r, m[r].reads)
    BY <1>3 DEF HupState, PipeInv, Carries, Of
  <2>3. Carries(u, r, m[r].reads)
    BY <1>3, <2>2 DEF Shift
  <2>4. m[Source[r]].writes = m[r].reads <=> (InHup(s, Source[r]) <=> s.tx[Source[r]].eof)
    BY <1>3 DEF HupState, PipeInv
  <2>5. n[Source[r]].writes = m[r].reads <=> (InHup(u, Source[r]) <=> u.tx[Source[r]].eof)
    <3>1. CASE Source[r] = t
      <4>1. m[t].writes = m[r].reads
        BY <1>2, <2>4, <3>1
      <4>2. n[t].writes # m[r].reads
        BY <1>0, <4>1, OtherMessage DEF NextWritten, Messages
      <4> QED
        BY <1>2, <1>0, <3>1, <4>2
    <3>2. CASE Source[r] # t
      BY <1>2, <2>1, <2>4, <3>2 DEF NextWritten
    <3> QED
      BY <3>1, <3>2
  <2> QED
    BY <2>1, <2>3, <2>5 DEF PipeInv, Carries, Of
<1>4. \A x \in Threads : InHup(u, x) => u.status[x] # "ERR"
  BY <1>1, <1>2 DEF HupState
<1>5. \A x \in Threads : Sink[x] # FD /\ u.tx[x].eof /\ ~ InHup(u, x) =>
        x \in Closers /\ (u.inside[x] /\ u.op[x] = "WRITE" => u.status[x] = "ERR")
  BY <1>1, <1>2 DEF HupState
<1>6. \A x \in Taken : Unpolled(u, x)
  BY DEF HupState, Unpolled, Shift, Steady, Closers, Taken
<1> QED
  BY <1>3, <1>4, <1>5, <1>6 DEF HupState

\* The reader takes the EOF off a pipe that is empty, and is in the next
\* message.
LEMMA ReadhupTakes ==
  ASSUME NEW s, NEW m \in Messages, NEW n, NEW t \in Threads, NEW u, HupState(s, m), Shift(s, u, t),
         Source[t] # FD, s.rx[t].data = << >>, s.tx[Source[t]].data = << >>, s.tx[Source[t]].eof,
         ~ u.tx[Source[t]].eof, \A x \in Threads \ {Source[t]} : u.tx[x].eof = s.tx[x].eof,
         t \in Taken => Unpolled(u, t), NextRead(m, n, t)
  PROVE  HupState(u, n)
<1>1. u.inside = s.inside /\ u.op = s.op /\ \A x \in Threads : u.status[x] = "ERR" <=> s.status[x] = "ERR"
  BY DEF Shift, Steady
<1>2. \A x \in Threads : InHup(u, x) <=> InHup(s, x)
  BY <1>1 DEF InHup
<1>3. Source[t] \in Threads
  BY PipeAssumption
<1>4. ASSUME NEW r \in Threads, Source[r] # FD
      PROVE  PipeInv(u, r, n[r].reads, n[Source[r]].writes)
  <2>1. Source[r] \in Threads /\ n[Source[r]].writes = m[Source[r]].writes
    BY <1>4, PipeAssumption DEF NextRead
  <2>2. Carries(s, r, n[r].reads)
    <3>1. CASE r = t
      BY <3>1 DEF Carries, Of
    <3>2. CASE r # t
      BY <1>4, <3>2 DEF HupState, PipeInv, Carries, Of, NextRead
    <3> QED
      BY <3>1, <3>2
  <2>3. Carries(u, r, n[r].reads)
    BY <1>4, <2>2 DEF Shift
  <2>4. m[Source[r]].writes = m[r].reads <=> (InHup(s, Source[r]) <=> s.tx[Source[r]].eof)
    BY <1>4 DEF HupState, PipeInv
  <2>5. m[Source[r]].writes = n[r].reads <=> (InHup(u, Source[r]) <=> u.tx[Source[r]].eof)
    <3>1. CASE r = t
      <4>1. m[Source[t]].writes \in Message /\ m[t].reads \in Message
        BY <1>3 DEF Messages
      <4>2. n[t].reads = m[Source[t]].writes <=> m[t].reads # m[Source[t]].writes
        BY <4>1, OtherMessage DEF NextRead
      <4>3. m[Source[t]].writes = m[t].reads <=> InHup(s, Source[t])
        BY <2>4, <3>1
      <4> QED
        BY <1>2, <1>3, <3>1, <4>2, <4>3
    <3>2. CASE r # t
      <4>1. Source[r] # Source[t]
        BY <1>3, <1>4, <2>1, <3>2, PipeAssumption
      <4> QED
        BY <1>2, <2>1, <2>4, <3>2, <4>1 DEF NextRead
    <3> QED
      BY <3>1, <3>2
  <2> QED
    BY <2>1, <2>3, <2>5 DEF PipeInv, Carries, Of
<1>5. \A x \in Threads : InHup(u, x) => u.status[x] # "ERR"
  BY <1>1, <1>2 DEF HupState
<1>6. \A x \in Threads : Sink[x] # FD /\ u.tx[x].eof /\ ~ InHup(u, x) =>
        x \in Closers /\ (u.inside[x] /\ u.op[x] = "WRITE" => u.status[x] = "ERR")
  BY <1>1, <1>2, <1>3 DEF HupState
<1>7. \A x \in Taken : Unpolled(u, x)
  BY DEF HupState, Unpolled, Shift, Steady, Closers, Taken
<1> QED
  BY <1>4, <1>5, <1>6, <1>7 DEF HupState

----------------------------------------------------------------------------
(* The actions *)

\* The invariant, in its parts.
Keeps ==
  /\ QueueInv'
  /\ SleepInv(p, {}) => SleepInv(p', {})
  /\ CloseInv => CloseInv'
  /\ ClosesCleanly /\ CloseInv /\ HupInv => HupInv'

\* Operations within a message.
LEMMA WithinKeeps ==
  ASSUME QueueInv, NEW t \in Threads, StepsWithin(t), phase = "execute", p.running = t,
         UNCHANGED << phase, retry, ended, msg >>
  PROVE  Keeps
<1>1. PICK d : /\ Stepped(t, d) /\ d.op[t] # "TX_CLOSE"
               /\ HupInv /\ ClosesCleanly => Within(p, d, t, msg[t].writes)
  BY DEF StepsWithin
<1>2. QueueInv'
  BY <1>1, StepQueue DEF QueueInv
<1>3. ASSUME SleepInv(p, {}) PROVE SleepInv(p', {})
  BY <1>1, <1>3, StepSleep
<1>4. CloseInv => CloseInv'
  BY <1>1, StepClose
<1>5. ASSUME ClosesCleanly, HupInv PROVE HupInv'
  BY <1>1, <1>5, StepHup
<1> QED
  BY <1>2, <1>3, <1>4, <1>5 DEF Keeps

\* Steps without an attempt.
LEMMA AloneKeeps ==
  ASSUME QueueInv, NEW t \in Threads, Alone(t), phase = "execute", p.running = t,
         UNCHANGED << phase, retry, ended, msg >>
  PROVE  Keeps
BY AloneQueue, AloneSleep, AloneClose, AloneHup DEF Keeps

\* vk_hup.
LEMMA HupKeeps ==
  ASSUME QueueInv, NEW t \in Threads, Hup(t)
  PROVE  Keeps
<1>1. Good(p) /\ IsProcess(p) /\ msg \in Messages
  BY DEF QueueInv, Good, Messages
<1>2. /\ p.status[t] = "RUN" /\ ~ p.inside[t] /\ phase = "execute" /\ p.running = t
      /\ "HUP" \in Program[t] /\ Sink[t] # FD
  BY DEF Hup, Between, Active
<1>3. UNCHANGED << phase, retry, ended, msg >>
  BY DEF Hup
<1> DEFINE g == SetEof(p.tx[t], TRUE)
           c == [p EXCEPT !.tx[t] = SetEof(@, TRUE), !.op[t] = "HUP", !.need[t] = 1, !.inside[t] = TRUE]
<1>4. CASE p.tx[t].eof
  <2>1. p' = Raise(p, t)
    BY <1>4 DEF Hup
  <2> QED
    BY <1>2, <1>3, <2>1, RaiseAlone, AloneKeeps
<1>5. CASE ~ p.tx[t].eof
  <2>1. Wait(c, t)
    BY <1>5 DEF Hup
  <2>2. g = SetEof(p.tx[t], TRUE) /\ c = [p EXCEPT !.tx[t] = g, !.op[t] = "HUP", !.need[t] = 1, !.inside[t] = TRUE]
    BY <1>1 DEF IsProcess
  <2> HIDE DEF c, g
  <2>3. IsRing(g) /\ g.data = p.tx[t].data /\ g.eof
    <3>1. IsRing(p.tx[t])
      BY <1>1 DEF IsProcess
    <3> QED
      BY <2>2, <3>1, MarkEof
  <2>4. /\ DOMAIN c = DOMAIN p /\ c.status = p.status /\ c.rx = p.rx
        /\ c.op[t] = "HUP" /\ c.need[t] = 1 /\ c.tx[t] = g
        /\ DOMAIN c.op = Threads /\ DOMAIN c.need = Threads /\ DOMAIN c.inside = Threads /\ DOMAIN c.tx = Threads
        /\ \A x \in Threads \ {t} : c.op[x] = p.op[x] /\ c.need[x] = p.need[x] /\ c.tx[x] = p.tx[x]
    BY <1>1, <2>2 DEF IsProcess
  <2>5. /\ c.run_q = p.run_q /\ c.run_enq = p.run_enq /\ c.run = p.run
        /\ c.blocked_q = p.blocked_q /\ c.blocked_enq = p.blocked_enq /\ c.blocked = p.blocked
        /\ c.running = p.running /\ c.closed = p.closed
    BY <1>1, <2>2 DEF IsProcess
  <2>6. c.inside[t] = TRUE
    BY <1>1, <2>2 DEF IsProcess
  <2>7. \A x \in Threads \ {t} : c.inside[x] = p.inside[x]
    BY <1>1, <2>2 DEF IsProcess
  <2>8. Own(p, c, t)
    BY <1>1, <2>4, <2>5, <2>7 DEF Own, IsProcess
  <2>9. 1 \in 0 .. MaxLen
    BY BufLenAssumption
  <2>10. OwnOK(c, t)
    BY <1>1, <1>2, <2>3, <2>4, <2>6, <2>9 DEF OwnOK, IsProcess, Ops
  <2>11. Good(c)
    BY <1>1, <2>8, <2>10, OwnGood
  <2> DEFINE d == [c EXCEPT !.status[t] = "WAIT"]
  <2>12. /\ Own(c, d, t) /\ Good(d) /\ d.rx = c.rx /\ d.tx = c.tx /\ d.op = c.op /\ d.inside = c.inside
         /\ d.status[t] = "WAIT" /\ Tried(d, p', t)
    <3>1. Good(c) /\ c.status[t] = "RUN" /\ (c.op[t] = "HUP" => Sink[t] # FD) /\ Wait(c, t)
      BY <1>2, <2>1, <2>4, <2>11
    <3> QED
      BY <3>1, WaitTried, ZenonT(40)
  <2> HIDE DEF d
  <2>13. Own(p, d, t) /\ Apart(p, d, t)
    BY <2>8, <2>12, OwnTransitive, OwnApart
  <2>14. Rests(d, t)
    BY <2>4, <2>12 DEF Rests, Reading, Writing
  <2>15. Stepped(t, d)
    BY <1>2, <2>4, <2>12, <2>13, <2>14 DEF Stepped
  <2>16. InHup(d, t) /\ ~ InHup(p, t)
    BY <1>2, <2>4, <2>6, <2>12 DEF InHup
  <2>17. HupInv => HupState(d, msg)
    BY <1>5, <2>3, <2>4, <2>12, <2>13, <2>16, HupMarks DEF HupInv
  <2>18. ClosesCleanly /\ HupInv => HupState(p', msg)
    BY <1>2, <2>4, <2>12, <2>17, TriedHup
  <2>19. ClosesCleanly /\ HupInv => HupInv'
    BY <1>3, <2>18 DEF HupInv
  <2>20. CloseInv => CloseInv'
    BY <1>2, <1>3, <2>12, <2>15, StepClose
  <2> QED
    BY <1>1, <1>2, <1>3, <2>15, <2>19, <2>20, StepQueue, StepSleep DEF Keeps, Messages
<1> QED
  BY <1>4, <1>5

\* vk_hup waits on, or returns.
LEMMA HupReturnsKeeps ==
  ASSUME QueueInv, NEW t \in Threads, HupReturns(t)
  PROVE  Keeps
<1>1. Good(p) /\ IsProcess(p) /\ msg \in Messages /\ p.op[t] \in Program[t] \cup {"NONE"}
  BY DEF QueueInv, Good, Messages
<1>2. p.status[t] = "RUN" /\ p.inside[t] /\ phase = "execute" /\ p.running = t /\ p.op[t] = "HUP"
  BY DEF HupReturns, Inside, Active
<1>3. UNCHANGED << phase, retry, ended >> /\ Sink[t] # FD
  BY <1>2 DEF HupReturns, QueueInv
<1>4. CASE p.tx[t].eof
  <2>1. Wait(p, t) /\ UNCHANGED msg
    BY <1>4 DEF HupReturns
  <2> DEFINE d == [p EXCEPT !.status[t] = "WAIT"]
  <2>2. /\ Own(p, d, t) /\ Good(d) /\ d.rx = p.rx /\ d.tx = p.tx /\ d.op = p.op /\ d.inside = p.inside
        /\ d.status[t] = "WAIT" /\ Tried(d, p', t)
    <3>1. Good(p) /\ p.status[t] = "RUN" /\ (p.op[t] = "HUP" => Sink[t] # FD) /\ Wait(p, t)
      BY <1>1, <1>2, <1>3, <2>1
    <3> QED
      BY <3>1, WaitTried, ZenonT(40)
  <2> HIDE DEF d
  <2>3. Rests(d, t)
    BY <1>2, <2>2 DEF Rests, Reading, Writing
  <2>4. Stepped(t, d)
    BY <1>1, <1>3, <2>2, <2>3 DEF Stepped
  <2>5. InHup(p, t) /\ InHup(d, t)
    BY <1>2, <2>2 DEF InHup
  <2>6. Within(p, d, t, msg[t].writes)
    BY <2>2, <2>5 DEF Within
  <2>7. StepsWithin(t)
    BY <1>2, <2>2, <2>4, <2>6 DEF StepsWithin
  <2> QED
    BY <1>2, <1>3, <2>1, <2>7, WithinKeeps
<1>5. CASE ~ p.tx[t].eof
  <2> DEFINE c == [p EXCEPT !.need[t] = 0]
  <2>1. p' = Finish(c, t) /\ msg' = [msg EXCEPT ![t].writes = 1 - @]
    BY <1>5 DEF HupReturns
  <2>2. c = [p EXCEPT !.need[t] = 0]
    OBVIOUS
  <2> HIDE DEF c
  <2>3. /\ DOMAIN c = DOMAIN p /\ c.status = p.status /\ c.rx = p.rx /\ c.tx = p.tx /\ c.op = p.op
        /\ c.inside = p.inside /\ c.need[t] = 0 /\ DOMAIN c.need = Threads
        /\ \A x \in Threads \ {t} : c.need[x] = p.need[x]
    BY <1>1, <2>2 DEF IsProcess
  <2>4. /\ c.run_q = p.run_q /\ c.run_enq = p.run_enq /\ c.run = p.run
        /\ c.blocked_q = p.blocked_q /\ c.blocked_enq = p.blocked_enq /\ c.blocked = p.blocked
        /\ c.running = p.running /\ c.closed = p.closed
    BY <1>1, <2>2 DEF IsProcess
  <2>5. Own(p, c, t)
    BY <1>1, <2>3, <2>4 DEF Own, IsProcess
  <2>6. 0 \in 0 .. MaxLen
    BY BufLenAssumption
  <2>7. OwnOK(c, t)
    BY <1>1, <1>2, <2>3, <2>6 DEF OwnOK, IsProcess
  <2>8. Good(c)
    BY <1>1, <2>5, <2>7, OwnGood
  <2>9. /\ Own(c, p', t) /\ Good(p') /\ p'.rx = c.rx /\ p'.tx = c.tx /\ p'.op = c.op /\ ~ p'.inside[t]
        /\ p'.status[t] = "RUN"
    BY <1>2, <2>1, <2>3, <2>8, FinishOwn
  <2>10. Own(p, p', t) /\ Apart(p, p', t)
    BY <2>5, <2>9, OwnTransitive, OwnApart
  <2>11. Stepped(t, p')
    BY <1>1, <1>3, <2>3, <2>9, <2>10 DEF Stepped
  <2>12. InHup(p, t) /\ ~ InHup(p', t)
    BY <1>2, <2>9 DEF InHup
  <2>13. NextWritten(msg, msg', t)
    BY <1>1, <2>1, NextWrittenIs
  <2>14. HupInv => HupState(p', msg')
    BY <1>1, <1>5, <2>3, <2>9, <2>10, <2>12, <2>13, HupClears DEF HupInv
  <2>15. HupInv => HupInv'
    BY <1>3, <2>14 DEF HupInv
  <2>16. msg' \in Messages
    BY <2>13 DEF NextWritten
  <2>17. p'.op[t] # "TX_CLOSE"
    BY <1>2, <2>3, <2>9
  <2>18. CloseInv => CloseInv'
    BY <1>2, <1>3, <2>11, <2>17, StepClose
  <2> QED
    BY <1>2, <1>3, <2>11, <2>15, <2>16, <2>18, StepQueue, StepSleep DEF Keeps, Messages
<1> QED
  BY <1>4, <1>5

\* vk_tx_close.
LEMMA TxCloseKeeps ==
  ASSUME QueueInv, NEW t \in Threads, TxClose(t)
  PROVE  Keeps
<1>1. Good(p) /\ IsProcess(p) /\ msg \in Messages /\ p.op[t] \in Program[t] \cup {"NONE"}
  BY DEF QueueInv, Good, Messages
<1>2. p.status[t] = "RUN" /\ p.inside[t] /\ phase = "execute" /\ p.running = t /\ p.op[t] = "TX_CLOSE"
  BY DEF TxClose, Inside, Active
<1>3. UNCHANGED << phase, retry, ended >>
  BY DEF TxClose
<1>4. CASE p.need[t] = 0
  <2>1. p' = Finish(p, t) /\ UNCHANGED msg
    BY <1>4 DEF TxClose
  <2>2. /\ Own(p, p', t) /\ Good(p') /\ p'.rx = p.rx /\ p'.tx = p.tx /\ p'.op = p.op /\ ~ p'.inside[t]
        /\ p'.status[t] = "RUN"
    BY <1>1, <1>2, <2>1, FinishOwn
  <2>3. ~ InHup(p, t) /\ ~ InHup(p', t)
    BY <1>2, <2>2 DEF InHup
  <2>4. Within(p, p', t, msg[t].writes)
    BY <2>2, <2>3 DEF Within
  <2>5. Apart(p, p', t)
    BY <2>2, OwnApart
  <2>6. CloseInv => Shut(p', t)
    BY <1>4, <2>2 DEF CloseInv, Shut, Closes
  <2>7. Alone(t)
    BY <1>1, <1>2, <2>2, <2>4, <2>5, <2>6 DEF Alone
  <2> QED
    BY <1>2, <1>3, <2>1, <2>7, AloneKeeps
<1>5. CASE p.need[t] # 0
  <2> DEFINE c == [p EXCEPT !.need[t] = 0]
  <2>1. Wait(c, t)
    BY <1>5 DEF TxClose
  <2>2. c = [p EXCEPT !.need[t] = 0]
    OBVIOUS
  <2> HIDE DEF c
  <2>3. /\ DOMAIN c = DOMAIN p /\ c.status = p.status /\ c.rx = p.rx /\ c.tx = p.tx /\ c.op = p.op
        /\ c.inside = p.inside /\ c.need[t] = 0 /\ DOMAIN c.need = Threads
        /\ \A x \in Threads \ {t} : c.need[x] = p.need[x]
    BY <1>1, <2>2 DEF IsProcess
  <2>4. /\ c.run_q = p.run_q /\ c.run_enq = p.run_enq /\ c.run = p.run
        /\ c.blocked_q = p.blocked_q /\ c.blocked_enq = p.blocked_enq /\ c.blocked = p.blocked
        /\ c.running = p.running /\ c.closed = p.closed
    BY <1>1, <2>2 DEF IsProcess
  <2>5. Own(p, c, t)
    BY <1>1, <2>3, <2>4 DEF Own, IsProcess
  <2>6. 0 \in 0 .. MaxLen
    BY BufLenAssumption
  <2>7. OwnOK(c, t)
    BY <1>1, <1>2, <2>3, <2>6 DEF OwnOK, IsProcess
  <2>8. Good(c)
    BY <1>1, <2>5, <2>7, OwnGood
  <2> DEFINE d == [c EXCEPT !.status[t] = "WAIT"]
  <2>9. /\ Own(c, d, t) /\ Good(d) /\ d.rx = c.rx /\ d.tx = c.tx /\ d.op = c.op /\ d.inside = c.inside
        /\ d.status[t] = "WAIT" /\ Tried(d, p', t)
    <3>1. Good(c) /\ c.status[t] = "RUN" /\ (c.op[t] = "HUP" => Sink[t] # FD) /\ Wait(c, t)
      BY <1>2, <2>1, <2>3, <2>8
    <3> QED
      BY <3>1, WaitTried, ZenonT(40)
  <2> HIDE DEF d
  <2>10. Own(p, d, t) /\ Apart(p, d, t)
    BY <2>5, <2>9, OwnTransitive, OwnApart
  <2>11. Rests(d, t)
    BY <1>2, <2>3, <2>9 DEF Rests, Reading, Writing
  <2>12. Stepped(t, d)
    BY <1>1, <1>2, <2>3, <2>9, <2>10, <2>11 DEF Stepped
  <2>13. ~ InHup(p, t) /\ ~ InHup(d, t)
    BY <1>2, <2>3, <2>9 DEF InHup
  <2>14. Within(p, d, t, msg[t].writes)
    BY <1>2, <2>3, <2>9, <2>13 DEF Within
  <2>15. HupInv => HupState(d, msg)
    BY <2>10, <2>14, WithinHup DEF HupInv
  <2>16. msg' \in Messages /\ (p.tx[t].eof \/ Sink[t] = FD \/ NextWritten(msg, msg', t))
                           /\ (p.tx[t].eof \/ Sink[t] = FD => msg' = msg)
    <3>1. CASE p.tx[t].eof \/ Sink[t] = FD
      BY <1>1, <3>1 DEF TxClose
    <3>2. CASE ~ (p.tx[t].eof \/ Sink[t] = FD)
      <4>1. msg' = [msg EXCEPT ![t].writes = 1 - @]
        BY <1>5, <3>2 DEF TxClose
      <4>2. NextWritten(msg, msg', t)
        BY <1>1, <4>1, NextWrittenIs
      <4> QED
        BY <3>2, <4>2 DEF NextWritten
    <3> QED
      BY <3>1, <3>2
  <2>17. ASSUME ClosesCleanly, HupInv PROVE HupState(p', msg')
    <3>1. CASE Sink[t] = FD \/ p.tx[t].eof
      <4>1. d.op[t] \in Program[t] \cup {"NONE"} /\ (Sink[t] # FD => d.tx[t].eof)
        BY <1>1, <2>3, <2>9, <3>1
      <4> QED
        BY <2>9, <2>15, <2>16, <2>17, <3>1, <4>1, TriedHup
    <3>2. CASE ~ (Sink[t] = FD \/ p.tx[t].eof)
      <4>1. t \in Closers
        BY <1>1, <1>2, <3>2 DEF Closers
      <4>2. t \in Taken => Unpolled(d, t)
        BY <2>15, <2>17 DEF HupState
      <4>3. d.op[t] = "TX_CLOSE" /\ d.op[t] \notin Reading \cup {"FORWARD"}
        BY <1>2, <2>3, <2>9 DEF Reading
      <4>4. /\ Shift(d, p', t) /\ p'.tx[t].eof /\ (t \in Taken => Unpolled(p', t))
            /\ \A x \in Threads \ {t} : p'.tx[x].eof = d.tx[x].eof
        BY <2>9, <3>2, <4>2, <4>3 DEF Tried
      <4>5. NextWritten(msg, msg', t) /\ ~ d.tx[t].eof /\ HupState(d, msg)
        BY <2>3, <2>9, <2>15, <2>16, <2>17, <3>2
      <4> QED
        BY <1>1, <4>1, <4>3, <4>4, <4>5, CloseMarks
    <3> QED
      BY <3>1, <3>2
  <2>18. ClosesCleanly /\ HupInv => HupInv'
    BY <1>3, <2>17 DEF HupInv
  <2>19. CloseInv => CloseInv'
    BY <1>2, <1>3, <2>9, <2>12, StepClose
  <2> QED
    BY <1>2, <1>3, <2>12, <2>16, <2>18, <2>19, StepQueue, StepSleep DEF Keeps, Messages
<1> QED
  BY <1>4, <1>5

\* A step that keeps everything but who runs and the run queue.
LEMMA KeptKeeps ==
  ASSUME QueueInv, Good(p'), Kept(p, p'), phase = "execute", \A x \in Threads : ~ Closes(p, x),
         UNCHANGED << phase, retry, ended, msg >>
  PROVE  Keeps
<1>1. QueueInv'
  <2>1. retry = << >> /\ Len(retry) = 0 /\ p'.op = p.op
    BY DEF QueueInv, Kept
  <2> QED
    BY <2>1 DEF QueueInv
<1>2. SleepInv(p, {}) => SleepInv(p', {})
  BY KeptSleep
<1>3. HupInv => HupInv'
  BY KeptHup DEF HupInv
<1>4. CloseInv => CloseInv'
  BY ShutStep DEF Kept
<1> QED
  BY <1>1, <1>2, <1>3, <1>4 DEF Keeps

\* The first of the run queue is dispatched,
LEMMA DispatchKeeps ==
  ASSUME QueueInv, Dispatch
  PROVE  Keeps
<1>1. Good(p) /\ p.run_q # << >> /\ p' = [DequeueRun(p) EXCEPT !.running = Head(p.run_q)]
  BY DEF Dispatch, QueueInv
<1>2. Good(p') /\ Kept(p, p')
  BY <1>1, DequeueRunGood DEF Kept
<1>3. \A x \in Threads : ~ Closes(p, x)
  BY PipeAssumption DEF Dispatch, Closes
<1> QED
  BY <1>2, <1>3, KeptKeeps DEF Dispatch

\* and left when it is not ready.
LEMMA LeaveKeeps ==
  ASSUME QueueInv, NEW t \in Threads, Leave(t)
  PROVE  Keeps
<1>1. Good(p) /\ p' = Resume(p, NoThread)
  BY DEF Leave, QueueInv, Resume
<1>2. Good(p') /\ Kept(p, p')
  BY <1>1, RunningKept
<1>3. \A x \in Threads : ~ Closes(p, x)
  BY DEF Leave, IsReady, Closes
<1> QED
  BY <1>2, <1>3, KeptKeeps DEF Leave

\* Wake-ups alone.
LEMMA QuietSleep ==
  ASSUME NEW s, NEW u, NEW X, NEW z, Quiet(s, u, z), SleepInv(s, X)
  PROVE  SleepInv(u, X)
<1>1. Noticed(s, u) /\ Heeded(s, u) /\ Steady(s, u, z)
  BY QuietShift, NoticedHeeded
<1> QED
  BY <1>1, SteadySleep

\* They move nothing over a pipe.
LEMMA QuietHup ==
  ASSUME NEW s, NEW u, NEW m, NEW t \in Threads, Quiet(s, u, NoThread), HupState(s, m)
  PROVE  HupState(u, m)
<1>1. Shift(s, u, NoThread) /\ SameEof(s, u)
  BY QuietWaked, WakedShift
<1>2. Shift(s, u, t)
  BY <1>1, ShiftFor
<1>3. t \in Taken => Unpolled(u, t)
  BY PipeAssumption DEF HupState, Unpolled, Quiet, Steady
<1> QED
  BY <1>1, <1>2, <1>3, ShiftHup

\* vk_call.
LEMMA CallKeeps ==
  ASSUME QueueInv, NEW t \in Threads, NEW x \in Threads, Call(t, x)
  PROVE  Keeps
<1> DEFINE a == EnqueueRun(p, x)
           b == Ready(a, t)
<1>1. Good(p) /\ phase = "execute" /\ UNCHANGED << phase, retry, ended, msg >> /\ p' = Resume(b, NoThread)
  BY DEF QueueInv, Call, Between, Active, Resume
<1>2. Quiet(p, a, NoThread)
  BY <1>1, EnqueueRunQuiet
<1> HIDE DEF a
<1>3. Good(a)
  BY <1>2 DEF Quiet
<1>4. Quiet(a, b, NoThread)
  BY <1>3, ReadyQuiet
<1> HIDE DEF b
<1>5. Quiet(p, b, NoThread)
  BY <1>2, <1>4, QuietTransitive
<1>6. Good(b)
  BY <1>5 DEF Quiet
<1>7. Good(p') /\ Kept(b, p')
  BY <1>1, <1>6, RunningKept
<1>8. QueueInv'
  <2>1. retry = << >> /\ Len(retry) = 0 /\ p'.op = p.op
    BY <1>1, <1>5, <1>7 DEF QueueInv, Kept, Quiet, Steady
  <2> QED
    BY <1>1, <1>7, <2>1 DEF QueueInv
<1>9. SleepInv(p, {}) => SleepInv(p', {})
  BY <1>5, <1>7, QuietSleep, KeptSleep
<1>10. HupInv => HupInv'
  BY <1>1, <1>5, <1>7, QuietHup, KeptHup DEF HupInv
<1>11. CloseInv => CloseInv'
  <2>1. \A y \in Threads : ~ Closes(p, y)
    BY DEF Call, Between, Active, Closes
  <2>2. p'.op = p.op /\ p'.tx = p.tx
    BY <1>5, <1>7 DEF Kept, Quiet, Steady
  <2> QED
    BY <1>1, <2>1, <2>2, ShutStep
<1> QED
  BY <1>8, <1>9, <1>10, <1>11 DEF Keeps

\* vk_readhup.
LEMMA ReadhupKeeps ==
  ASSUME QueueInv, NEW t \in Threads, Readhup(t)
  PROVE  Keeps
<1>1. Good(p) /\ msg \in Messages
  BY DEF QueueInv, Messages
<1>2. /\ p.status[t] = "RUN" /\ ~ p.inside[t] /\ phase = "execute" /\ p.running = t
      /\ Source[t] # FD /\ "READHUP" \in Program[t]
  BY DEF Readhup, Between, Active
<1>3. UNCHANGED << phase, retry, ended >>
  BY DEF Readhup
<1>4. CASE ~ Pollhup(p, t)
  <2>1. p' = Raise(p, t) /\ UNCHANGED msg
    BY <1>4 DEF Readhup
  <2> QED
    BY <1>2, <1>3, <2>1, RaiseAlone, AloneKeeps
<1>5. CASE Pollhup(p, t)
  <2>1. p' = Hungup(p, t) /\ msg' = [msg EXCEPT ![t].reads = 1 - @]
    BY <1>5 DEF Readhup, Hungup
  <2>2. p.rx[t].data = << >> /\ p.tx[Source[t]].data = << >> /\ p.tx[Source[t]].eof
    BY <1>2, <1>5 DEF Pollhup
  <2>3. p.status[t] # "END"
    BY <1>2
  <2>4. /\ Shift(p, p', t) /\ Noticed(p, p') /\ ~ p'.tx[Source[t]].eof
        /\ \A x \in Threads \ {Source[t]} : p'.tx[x].eof = p.tx[x].eof
        /\ Sink[t] # FD /\ Unpolled(p, t) => Unpolled(p', t)
    BY <1>1, <1>2, <2>1, <2>2, <2>3, ReadhupShift
  <2>5. NextRead(msg, msg', t)
    BY <1>1, <2>1, NextReadIs
  <2>6. HupInv => HupState(p', msg')
    <3> SUFFICES ASSUME HupState(p, msg) PROVE HupState(p', msg')
      BY DEF HupInv
    <3>1. t \in Taken => Unpolled(p', t)
      BY <2>4 DEF HupState, Closers, Taken
    <3> QED
      BY <1>1, <1>2, <2>2, <2>4, <2>5, <3>1, ReadhupTakes
  <2>7. HupInv => HupInv'
    BY <1>3, <2>6 DEF HupInv
  <2>8. SleepInv(p, {}) => SleepInv(p', {})
    BY <2>4, NoticedHeeded, SteadySleep DEF Shift
  <2>9. QueueInv'
    <3>1. retry = << >> /\ Len(retry) = 0 /\ p'.op = p.op /\ Good(p') /\ msg' \in Messages
      BY <1>2, <2>4, <2>5 DEF QueueInv, Shift, Steady, NextRead
    <3> QED
      BY <1>3, <3>1 DEF QueueInv, Messages
  <2>10. CloseInv => CloseInv'
    <3>1. \A x \in Threads : ~ Closes(p, x) /\ p'.op[x] = p.op[x]
      BY <1>2, <2>4 DEF Closes, Shift, Steady
    <3>2. Source[t] \in Threads /\ Sink[Source[t]] = t /\ t # FD
      BY <1>2, PipeAssumption
    <3>3. \A x \in Threads : p.tx[x].eof => p'.tx[x].eof \/ (Sink[x] # FD /\ "READHUP" \in Program[Sink[x]])
      BY <1>2, <2>4, <3>2
    <3> QED
      BY <1>2, <1>3, <3>1, <3>3, ShutStep
  <2> QED
    BY <2>7, <2>8, <2>9, <2>10 DEF Keeps
<1> QED
  BY <1>4, <1>5

Polled(s, t, rb, tb) == [s EXCEPT !.rx[t].blocked = rb, !.tx[t].blocked = tb]

\* What the poller said of the descriptors of t.
LEMMA PolledOwn ==
  ASSUME NEW s, Good(s), NEW t \in Threads, s.status[t] # "END", NEW rb \in BOOLEAN, NEW tb \in BOOLEAN,
         NEW u, u = Polled(s, t, rb, tb)
  PROVE  /\ Good(u) /\ Own(s, u, t) /\ u.status = s.status /\ u.op = s.op /\ u.inside = s.inside
         /\ u.rx[t].data = s.rx[t].data /\ u.tx[t].data = s.tx[t].data /\ u.tx[t].eof = s.tx[t].eof
         /\ u.rx[t].blocked = rb
<1>1. IsProcess(s)
  BY DEF Good
<1> DEFINE g == [s.rx[t] EXCEPT !.blocked = rb]
           h == [s.tx[t] EXCEPT !.blocked = tb]
<1>2. u = [s EXCEPT !.rx[t] = g, !.tx[t] = h]
  BY <1>1 DEF IsProcess, Polled
<1>3. IsRing(s.rx[t]) /\ IsRing(s.tx[t])
  BY <1>1 DEF IsProcess
<1>4. /\ IsRing(g) /\ g.data = s.rx[t].data
      /\ IsRing(h) /\ h.data = s.tx[t].data
  BY <1>3 DEF IsRing
<1>5. g.blocked = rb /\ h.eof = s.tx[t].eof
  BY <1>3 DEF IsRing
<1> HIDE DEF g, h
<1>6. /\ DOMAIN u = DOMAIN s /\ u.status = s.status /\ u.op = s.op /\ u.need = s.need
      /\ u.rx[t] = g /\ u.tx[t] = h /\ DOMAIN u.rx = Threads /\ DOMAIN u.tx = Threads
      /\ \A x \in Threads \ {t} : u.rx[x] = s.rx[x] /\ u.tx[x] = s.tx[x]
  BY <1>1, <1>2 DEF IsProcess
<1>7. /\ u.run_q = s.run_q /\ u.run_enq = s.run_enq /\ u.run = s.run
      /\ u.blocked_q = s.blocked_q /\ u.blocked_enq = s.blocked_enq /\ u.blocked = s.blocked
      /\ u.running = s.running /\ u.closed = s.closed /\ u.inside = s.inside
  BY <1>1, <1>2 DEF IsProcess
<1>8. Own(s, u, t)
  BY <1>1, <1>6, <1>7 DEF Own, IsProcess
<1>9. OwnOK(u, t)
  BY <1>1, <1>4, <1>6, <1>7 DEF OwnOK, IsProcess
<1>10. Good(u)
  BY <1>8, <1>9, OwnGood
<1> QED
  BY <1>4, <1>5, <1>6, <1>7, <1>8, <1>10

\* vk_proc_postpoll retries a socket.
LEMMA RetryKeeps ==
  ASSUME QueueInv, NEW t \in Threads, RetrySocket(t)
  PROVE  Keeps
<1>1. /\ Good(p) /\ phase = "postpoll" /\ retry # << >> /\ t = Head(retry) /\ retry' = Tail(retry)
      /\ UNCHANGED << phase, ended, msg >> /\ retry \in Seq(Threads)
  BY DEF QueueInv, RetrySocket
<1>2. /\ t = retry[1] /\ 1 \in 1 .. Len(retry) /\ retry' \in Seq(Threads) /\ Len(retry) \in Nat
      /\ Len(retry') = Len(retry) - 1
      /\ \A i \in 1 .. Len(retry') : retry'[i] = retry[i + 1] /\ i + 1 \in 1 .. Len(retry)
  <2>1. Len(retry) \in Nat /\ Len(retry) >= 1 /\ retry' \in Seq(Threads) /\ Len(retry') = Len(retry) - 1
    BY <1>1
  <2>2. t = retry[1]
    BY <1>1
  <2>3. \A i \in 1 .. Len(retry) - 1 : retry'[i] = retry[i + 1]
    BY <1>1
  <2> QED
    BY <2>1, <2>2, <2>3
<1>3. p.status[t] # "END"
  BY <1>2 DEF QueueInv
<1>4. PICK readable \in BOOLEAN, writable \in BOOLEAN :
        LET a == Polled(p, t, p.rx[t].blocked /\ ~ (readable /\ Source[t] = FD),
                              p.tx[t].blocked /\ ~ (writable /\ Sink[t] = FD))
        IN \E got \in Got(a, t), put \in Put(a, t) :
             p' = EnqueueRun(DropBlocked(Handler(a, t, got, put), t), t)
  <2>1. IsProcess(p)
    BY <1>1 DEF Good
  <2>2. PICK readable \in BOOLEAN, writable \in BOOLEAN :
        LET a == [p EXCEPT !.rx[t].blocked = @ /\ ~ (readable /\ Source[t] = FD),
                           !.tx[t].blocked = @ /\ ~ (writable /\ Sink[t] = FD)]
        IN \E got \in Got(a, t), put \in Put(a, t) :
             p' = EnqueueRun(DropBlocked(Handler(a, t, got, put), t), t)
    BY DEF RetrySocket
  <2> DEFINE a == [p EXCEPT !.rx[t].blocked = @ /\ ~ (readable /\ Source[t] = FD),
                            !.tx[t].blocked = @ /\ ~ (writable /\ Sink[t] = FD)]
             b == Polled(p, t, p.rx[t].blocked /\ ~ (readable /\ Source[t] = FD),
                               p.tx[t].blocked /\ ~ (writable /\ Sink[t] = FD))
  <2>3. a = b
    BY <2>1 DEF Polled, IsProcess, IsRing
  <2> QED
    BY <2>2, <2>3
<1> DEFINE rb == p.rx[t].blocked /\ ~ (readable /\ Source[t] = FD)
           tb == p.tx[t].blocked /\ ~ (writable /\ Sink[t] = FD)
           a  == Polled(p, t, rb, tb)
<1>5. PICK got \in Got(a, t), put \in Put(a, t) :
        p' = EnqueueRun(DropBlocked(Handler(a, t, got, put), t), t)
  BY <1>4
<1>6. rb \in BOOLEAN /\ tb \in BOOLEAN /\ (rb => p.rx[t].blocked)
  OBVIOUS
<1> HIDE DEF rb, tb
<1>7. a = Polled(p, t, rb, tb)
  OBVIOUS
<1> HIDE DEF a
<1>8. /\ Good(a) /\ Own(p, a, t) /\ a.status = p.status /\ a.op = p.op /\ a.inside = p.inside
      /\ a.rx[t].data = p.rx[t].data /\ a.tx[t].data = p.tx[t].data /\ a.tx[t].eof = p.tx[t].eof
      /\ a.rx[t].blocked = rb
  BY <1>1, <1>3, <1>6, <1>7, PolledOwn
<1> DEFINE b == Handler(a, t, got, put)
           c == DropBlocked(b, t)
<1>9. Tried(a, b, t)
  <2>1. Good(a) /\ a.status[t] # "END" /\ (a.op[t] = "HUP" => Sink[t] # FD)
    BY <1>3, <1>8 DEF QueueInv
  <2> QED
    BY <1>5, <2>1, HandlerTried
<1>10. p' = EnqueueRun(c, t)
  BY <1>5
<1> HIDE DEF b
<1>11. Good(b)
  BY <1>9 DEF Tried, Shift
<1>12. /\ Good(c) /\ c.status = b.status /\ c.op = b.op /\ c.inside = b.inside /\ c.rx = b.rx /\ c.tx = b.tx
       /\ ~ c.blocked_enq[t] /\ (\A x \in Threads \ {t} : c.blocked_enq[x] = b.blocked_enq[x])
       /\ c.running = b.running
  BY <1>11, DropBlockedGood
<1> HIDE DEF c
<1>13. Quiet(c, p', NoThread) /\ p'.status[t] # "WAIT"
  BY <1>10, <1>12, EnqueueRunQuiet
<1>14. Apart(p, a, t) /\ Apart(b, c, t)
  <2>1. Apart(p, a, t)
    BY <1>8, OwnApart
  <2>2. Apart(b, c, t)
    BY <1>12 DEF Apart
  <2> QED
    BY <2>1, <2>2
<1>15. QueueInv'
  <2>1. p'.op = p.op
    BY <1>8, <1>9, <1>12, <1>13 DEF Tried, Shift, Steady, Quiet
  <2>2. \A x \in Threads : p'.status[x] = "END" => p.status[x] = "END"
    BY <1>8, <1>9, <1>12, <1>13 DEF Tried, Shift, Steady, Quiet
  <2>3. \A i \in 1 .. Len(retry') : p'.status[retry'[i]] # "END"
    <3> TAKE i \in 1 .. Len(retry')
    <3>1. retry'[i] = retry[i + 1] /\ i + 1 \in 1 .. Len(retry)
      BY <1>2
    <3>2. retry[i + 1] \in Threads
      BY <1>1, <3>1
    <3>3. p.status[retry[i + 1]] # "END"
      BY <3>1 DEF QueueInv
    <3> QED
      BY <2>2, <3>1, <3>2, <3>3
  <2>4. Good(p')
    BY <1>13 DEF Quiet
  <2> QED
    BY <1>1, <1>2, <2>1, <2>3, <2>4 DEF QueueInv
<1>16. ASSUME SleepInv(p, {}) PROVE SleepInv(p', {})
  <2>1. SleepInv(a, {t})
    BY <1>14, <1>16, ButSleep, ApartSleep
  <2>2. p.op[t] \in Program[t] \cup {"NONE"}
    BY DEF QueueInv
  <2>3. CopiesIntoPipes => (a.op[t] = "FORWARD" => ~ (Source[t] = FD /\ Sink[t] # FD))
    BY <1>8, <2>2 DEF CopiesIntoPipes
  <2>4. Heeded(a, b) /\ (CopiesIntoPipes => Noticed(a, b)) /\ Steady(a, b, t)
    BY <1>9, <2>3 DEF Tried, Shift
  <2>5. SleepInv(b, {t})
    BY <2>1, <2>4, SteadySleep
  <2>6. SleepInv(c, {t})
    BY <1>14, <2>5, ApartSleep
  <2>7. SleepInv(p', {t})
    BY <1>13, <2>6, QuietSleep
  <2> QED
    BY <1>13, <2>7, AwakeSleep
<1>17. ASSUME ClosesCleanly, CloseInv, HupInv PROVE HupInv'
  <2>1. InHup(a, t) <=> InHup(p, t)
    BY <1>8 DEF InHup
  <2>2. Within(p, a, t, msg[t].writes)
    BY <1>6, <1>8, <2>1 DEF Within
  <2>3. HupState(a, msg)
    BY <1>14, <1>17, <2>2, WithinHup DEF HupInv
  <2>4. t \notin Taken /\ ~ Closes(p, t)
    BY <1>1, <1>2, <1>17, PipeAssumption DEF HupInv, CloseInv, Closes
  <2>5. a.op[t] \in Program[t] \cup {"NONE"} /\ (a.op[t] = "TX_CLOSE" /\ Sink[t] # FD => a.tx[t].eof)
    BY <1>8, <1>17, <2>4 DEF QueueInv, CloseInv, Shut, Closers, Taken
  <2>6. HupState(b, msg)
    BY <1>8, <1>9, <1>17, <2>3, <2>5, TriedHup
  <2>7. InHup(c, t) <=> InHup(b, t)
    BY <1>12 DEF InHup
  <2>8. Within(b, c, t, msg[t].writes)
    BY <1>12, <2>7 DEF Within
  <2>9. HupState(c, msg)
    BY <1>14, <2>6, <2>8, WithinHup
  <2>10. HupState(p', msg')
    BY <1>1, <1>13, <2>9, QuietHup
  <2>11. \A i \in 1 .. Len(retry') : retry'[i] \notin Taken
    BY <1>2, <1>17 DEF HupInv
  <2> QED
    BY <2>10, <2>11 DEF HupInv
<1>18. ASSUME CloseInv PROVE CloseInv'
  <2>1. p.running = NoThread /\ \A x \in Threads : ~ Closes(p, x)
    BY <1>1, <1>18, PipeAssumption DEF CloseInv, Closes
  <2>2. p'.running = p.running /\ p'.op = p.op
    BY <1>8, <1>9, <1>12, <1>13 DEF Own, Tried, Shift, Steady, Quiet
  <2>3. \A x \in Threads : p.tx[x].eof => p'.tx[x].eof
    <3>1. \A x \in Threads : p'.tx[x] = b.tx[x] /\ a.tx[x].eof = p.tx[x].eof
      BY <1>8, <1>12, <1>13 DEF Own, Quiet
    <3>2. \A x \in Threads : a.tx[x].eof => b.tx[x].eof
      BY <1>9 DEF Tried
    <3> QED
      BY <3>1, <3>2
  <2> QED
    BY <1>18, <2>1, <2>2, <2>3, ShutStep
<1> QED
  BY <1>15, <1>16, <1>17, <1>18 DEF Keeps

\* The poller's steps leave the process alone.
LEMMA PollerKeeps ==
  ASSUME QueueInv,
         \/ ExecuteReturns \/ Poll \/ PostpollReturns \/ Free
         \/ \E t \in Threads : FdEnds(t)
  PROVE  Keeps
<1>1. p' = p /\ msg' = msg /\ Good(p)
  BY DEF ExecuteReturns, Poll, PostpollReturns, Free, FdEnds, QueueInv
<1>2. /\ SleepInv(p, {}) => SleepInv(p', {})
      /\ CloseInv => CloseInv'
  <2>1. CloseInv => (phase' # "execute" => p'.running = NoThread)
    BY <1>1 DEF ExecuteReturns, Poll, PostpollReturns, Free, FdEnds, CloseInv
  <2> QED
    BY <1>1, <2>1 DEF CloseInv, Shut, Closes
<1>3. CASE Poll
  <2>1. retry' = p.blocked_q /\ p.blocked_q \in Seq(Threads) /\ phase' = "postpoll" /\ ended' = ended
    BY <1>1, <1>3 DEF Poll, Good, IsProcess
  <2>2. \A i \in 1 .. Len(p.blocked_q) : p.blocked_q[i] \in Threads /\ p.blocked_enq[p.blocked_q[i]]
    BY <1>1, <2>1 DEF Good, Queued
  <2>3. \A i \in 1 .. Len(p.blocked_q) : p.status[p.blocked_q[i]] # "END"
    BY <1>1, <2>2 DEF Good
  <2>4. QueueInv'
    BY <1>1, <2>1, <2>3 DEF QueueInv
  <2>5. HupInv => HupInv'
    BY <1>1, <2>1, <2>2 DEF HupInv, HupState, Unpolled
  <2> QED
    BY <1>2, <2>4, <2>5 DEF Keeps
<1>4. CASE ExecuteReturns \/ PostpollReturns \/ Free
  <2>1. /\ retry' = retry /\ ended' = ended /\ phase' \in {"execute", "poll", "freed"}
        /\ retry = << >> /\ retry \in Seq(Threads) /\ Len(retry) = 0
    BY <1>4 DEF ExecuteReturns, PostpollReturns, Free, QueueInv
  <2>2. QueueInv'
    BY <1>1, <2>1 DEF QueueInv
  <2>3. HupInv => HupInv'
    BY <1>1, <2>1 DEF HupInv
  <2> QED
    BY <1>2, <2>2, <2>3 DEF Keeps
<1>5. CASE \E t \in Threads : FdEnds(t)
  <2>1. retry' = retry /\ phase' = phase /\ ended' \in [Threads -> BOOLEAN]
    BY <1>5 DEF FdEnds, QueueInv
  <2>2. QueueInv'
    BY <1>1, <2>1 DEF QueueInv
  <2>3. HupInv => HupInv'
    BY <1>1, <2>1 DEF HupInv
  <2> QED
    BY <1>2, <2>2, <2>3 DEF Keeps
<1> QED
  BY <1>3, <1>4, <1>5

\* Every step keeps the invariant.
LEMMA NextKeeps ==
  ASSUME QueueInv, [Next]_vars
  PROVE  Keeps
<1>1. CASE UNCHANGED vars
  <2>1. p' = p /\ phase' = phase /\ retry' = retry /\ ended' = ended /\ msg' = msg
    BY <1>1 DEF vars
  <2>2. QueueInv'
    BY <2>1 DEF QueueInv
  <2>3. (HupInv => HupInv') /\ (CloseInv => CloseInv')
    BY <2>1 DEF HupInv, CloseInv
  <2> QED
    BY <2>1, <2>2, <2>3 DEF Keeps
<1>2. CASE System
  <2>1. CASE Dispatch
    BY <2>1, DispatchKeeps
  <2>2. CASE ExecuteReturns \/ Poll \/ PostpollReturns \/ Free
    BY <2>2, PollerKeeps
  <2>3. ASSUME NEW t \in Threads, Leave(t) PROVE Keeps
    BY <2>3, LeaveKeeps
  <2>4. ASSUME NEW t \in Threads, RetrySocket(t) PROVE Keeps
    BY <2>4, RetryKeeps
  <2> QED
    BY <1>2, <2>1, <2>2, <2>3, <2>4 DEF System
<1>3. ASSUME NEW t \in Threads, Begins(t) PROVE Keeps
  <2>1. \E o \in Ops \ {"HUP"}, n \in 0 .. MaxLen : Begin(t, o, n) /\ (o = "TX_CLOSE" => n # 0)
    <3>1. 0 \in 0 .. MaxLen /\ 1 \in 0 .. MaxLen /\ \A n \in 1 .. MaxLen : n \in 0 .. MaxLen
      BY BufLenAssumption
    <3>2. {"READ", "WRITE", "FORWARD", "POLLREAD", "FLUSH", "TX_CLOSE"} \subseteq Ops \ {"HUP"}
      BY DEF Ops
    <3> QED
      BY <1>3, <3>1, <3>2 DEF Begins
  <2>2. PICK o \in Ops \ {"HUP"}, n \in 0 .. MaxLen : Begin(t, o, n) /\ (o = "TX_CLOSE" => n # 0)
    BY <2>1
  <2>3. Alone(t)
    BY <2>2, BeginAlone
  <2>4. phase = "execute" /\ p.running = t /\ UNCHANGED << phase, retry, ended, msg >>
    BY <2>2 DEF Begin, Between, Active
  <2> QED
    BY <2>3, <2>4, AloneKeeps
<1>4. ASSUME NEW t \in Threads, Runs(t) PROVE Keeps
  <2>1. CASE Read(t)
    <3>1. phase = "execute" /\ p.running = t /\ UNCHANGED << phase, retry, ended, msg >>
      BY <2>1 DEF Read, Inside, Active
    <3> QED
      BY <2>1, <3>1, ReadSteps, WithinKeeps
  <2>2. CASE Pollread(t)
    <3>1. phase = "execute" /\ p.running = t /\ UNCHANGED << phase, retry, ended, msg >>
      BY <2>2 DEF Pollread, Inside, Active
    <3> QED
      BY <2>2, <3>1, PollreadSteps, WithinKeeps
  <2>3. CASE Write(t)
    <3>1. phase = "execute" /\ p.running = t /\ UNCHANGED << phase, retry, ended, msg >>
      BY <2>3 DEF Write, WriteAs, Inside, Active
    <3> QED
      BY <2>3, <3>1, WriteSteps, WithinKeeps
  <2>4. CASE Flush(t)
    <3>1. phase = "execute" /\ p.running = t /\ UNCHANGED << phase, retry, ended, msg >>
      BY <2>4 DEF Flush, Inside, Active
    <3> QED
      BY <2>4, <3>1, FlushSteps, WithinKeeps
  <2>5. CASE Forward(t)
    <3>1. phase = "execute" /\ p.running = t /\ UNCHANGED << phase, retry, ended, msg >>
      BY <2>5 DEF Forward, ForwardAs, Inside, Active
    <3> QED
      BY <2>5, <3>1, ForwardSteps, WithinKeeps
  <2>6. CASE Hup(t)
    BY <2>6, HupKeeps
  <2>7. CASE HupReturns(t)
    BY <2>7, HupReturnsKeeps
  <2>8. CASE Readhup(t)
    BY <2>8, ReadhupKeeps
  <2>9. CASE TxClose(t)
    BY <2>9, TxCloseKeeps
  <2>10. CASE Finally(t)
    <3>1. phase = "execute" /\ p.running = t /\ UNCHANGED << phase, retry, ended, msg >>
      BY <2>10 DEF Finally
    <3> QED
      BY <2>10, <3>1, FinallyAlone, AloneKeeps
  <2>11. CASE End(t)
    <3>1. phase = "execute" /\ p.running = t /\ UNCHANGED << phase, retry, ended, msg >>
      BY <2>11 DEF End, Between, Active
    <3> QED
      BY <2>11, <3>1, EndAlone, AloneKeeps
  <2>12. ASSUME NEW x \in Threads, Call(t, x) PROVE Keeps
    BY <2>12, CallKeeps
  <2> QED
    BY <1>4, <2>1, <2>2, <2>3, <2>4, <2>5, <2>6, <2>7, <2>8, <2>9, <2>10, <2>11, <2>12 DEF Runs
<1>5. ASSUME NEW t \in Threads, FdEnds(t) PROVE Keeps
  BY <1>5, PollerKeeps
<1> QED
  BY <1>1, <1>2, <1>3, <1>4, <1>5 DEF Next

\* Coroutines played once each are in order, and nobody did anything yet.
LEMMA StartKeeps ==
  ASSUME NEW q \in Seq(Threads), q # << >>, \A i, j \in DOMAIN q : q[i] = q[j] => i = j, Starts(q)
  PROVE  /\ QueueInv /\ SleepInv(p, {}) /\ CloseInv /\ HupInv
         /\ p.run_q = q /\ p.running = NoThread /\ phase = "execute"
         /\ \A t \in Threads :
              /\ p.status[t] = "RUN" /\ p.op[t] = "NONE" /\ p.need[t] = 0 /\ ~ p.inside[t]
              /\ p.rx[t].data = << >> /\ p.tx[t].data = << >> /\ ~ p.tx[t].eof
              /\ p.run_enq[t] <=> \E i \in DOMAIN q : q[i] = t
<1>1. \A i, j \in DOMAIN q : q[i] = q[j] => i = j
  OBVIOUS
<1>3. DOMAIN q = 1 .. Len(q) /\ q \in Seq(Threads) /\ q # << >>
  OBVIOUS
<1>4. /\ p = NewProcess(q) /\ phase = "execute" /\ retry = << >>
      /\ ended = [t \in Threads |-> FALSE] /\ msg = [t \in Threads |-> [writes |-> 0, reads |-> 0]]
  BY DEF Starts
<1>5. IsRing(EmptyRing)
  <2>1. << >> \in Seq(Byte) /\ Len(<< >>) = 0
    OBVIOUS
  <2> QED
    BY <2>1, BufLenAssumption DEF EmptyRing, IsRing
<1>6. /\ DOMAIN p = {"run_q", "run_enq", "run", "blocked_q", "blocked_enq", "blocked", "running",
                 "status", "op", "need", "inside", "closed", "rx", "tx"}
      /\ p.run_q = q /\ p.blocked_q = << >> /\ p.running = NoThread
      /\ p.status = [t \in Threads |-> "RUN"] /\ p.op = [t \in Threads |-> "NONE"]
      /\ p.need = [t \in Threads |-> 0]
      /\ p.rx = [t \in Threads |-> EmptyRing] /\ p.tx = [t \in Threads |-> EmptyRing]
      /\ p.inside = [t \in Threads |-> FALSE] /\ p.closed = [t \in Threads |-> FALSE]
      /\ p.blocked_enq = [t \in Threads |-> FALSE]
      /\ p.run_enq = [t \in Threads |-> \E i \in DOMAIN q : q[i] = t]
  BY <1>4 DEF NewProcess
<1>7. p.run = TRUE /\ p.blocked = FALSE
  BY <1>4 DEF NewProcess
<1>8. << >> \in Seq(Threads) /\ Len(<< >>) = 0 /\ 0 \in 0 .. MaxLen
  BY BufLenAssumption
<1>9. \A t \in Threads : p.run_enq[t] \in BOOLEAN /\ (p.run_enq[t] <=> \E i \in 1 .. Len(q) : q[i] = t)
  BY <1>3, <1>6
<1>10. \A t \in Threads : p.inside[t] = FALSE /\ p.closed[t] = FALSE /\ p.blocked_enq[t] = FALSE
  BY <1>6
<1>11. \A t \in Threads : /\ p.status[t] = "RUN" /\ p.op[t] = "NONE" /\ p.need[t] = 0
                          /\ p.rx[t] = EmptyRing /\ p.tx[t] = EmptyRing
  BY <1>6
<1>12. /\ DOMAIN p.run_enq = Threads /\ DOMAIN p.blocked_enq = Threads /\ DOMAIN p.status = Threads
       /\ DOMAIN p.op = Threads /\ DOMAIN p.need = Threads /\ DOMAIN p.inside = Threads
       /\ DOMAIN p.closed = Threads /\ DOMAIN p.rx = Threads /\ DOMAIN p.tx = Threads
       /\ p.run_q \in Seq(Threads) /\ p.blocked_q \in Seq(Threads)
  BY <1>3, <1>6, <1>8
<1>13. IsProcess(p)
  <2>1. \A t \in Threads : /\ p.run_enq[t] \in BOOLEAN /\ p.blocked_enq[t] \in BOOLEAN
                           /\ p.inside[t] \in BOOLEAN /\ p.closed[t] \in BOOLEAN
    BY <1>9, <1>10
  <2>2. \A t \in Threads : /\ p.status[t] \in {"RUN", "WAIT", "ERR", "END"} /\ p.op[t] \in Ops \cup {"NONE"}
                           /\ p.need[t] \in 0 .. MaxLen /\ IsRing(p.rx[t]) /\ IsRing(p.tx[t])
    BY <1>5, <1>8, <1>11
  <2>3. p.run \in BOOLEAN /\ p.blocked \in BOOLEAN /\ p.running \in Threads \cup {NoThread}
    BY <1>6, <1>7
  <2> QED
    BY <1>6, <1>12, <2>1, <2>2, <2>3 DEF IsProcess
<1>14. Queued(p.run_q, p.run_enq, p.run)
  <2>1. \A i, j \in 1 .. Len(p.run_q) : p.run_q[i] = p.run_q[j] => i = j
    BY <1>1, <1>3, <1>6
  <2> QED
    BY <1>3, <1>6, <1>7, <1>9, <2>1 DEF Queued
<1>15. Queued(p.blocked_q, p.blocked_enq, p.blocked)
  <2>1. p.blocked_q = << >> /\ Len(p.blocked_q) = 0
    BY <1>6, <1>8
  <2> QED
    BY <1>7, <1>10, <2>1 DEF Queued
<1>16. Good(p)
  BY <1>11, <1>13, <1>14, <1>15 DEF Good
<1>17. msg \in Messages /\ \A t \in Threads : msg[t].writes = 0 /\ msg[t].reads = 0
  BY <1>4 DEF Messages, Message
<1>18. QueueInv
  BY <1>4, <1>8, <1>11, <1>16, <1>17 DEF QueueInv, Messages
<1>19. SleepInv(p, {})
  BY <1>11 DEF SleepInv, WakeInv, HoardInv, Waits, Crossed, Hoards, Stalled, Sleeps
<1>20. \A t \in Threads : p.tx[t].eof = FALSE /\ p.rx[t].blocked = FALSE
  BY <1>11 DEF EmptyRing
<1>21. \A t \in Threads : Len(p.tx[t].data) = 0 /\ Len(p.rx[t].data) = 0
  BY <1>8, <1>11 DEF EmptyRing
<1>22. \A t \in Threads : ~ InHup(p, t)
  BY <1>10 DEF InHup
<1>23. \A r \in Threads : Source[r] # FD => PipeInv(p, r, msg[r].reads, msg[Source[r]].writes)
  BY <1>17, <1>20, <1>21, <1>22, PipeAssumption DEF PipeInv
<1>24. HupState(p, msg)
  BY <1>10, <1>20, <1>22, <1>23 DEF HupState, Unpolled, Closers, Taken
<1>25. HupInv
  BY <1>4, <1>8, <1>24 DEF HupInv
<1>26. CloseInv
  BY <1>4, <1>11 DEF CloseInv, Shut
<1>27. \A t \in Threads : p.tx[t].data = << >> /\ p.rx[t].data = << >>
  BY <1>11 DEF EmptyRing
<1> QED
  BY <1>4, <1>6, <1>10, <1>11, <1>18, <1>19, <1>20, <1>25, <1>26, <1>27

LEMMA InitKeeps ==
  ASSUME Init
  PROVE  QueueInv /\ SleepInv(p, {}) /\ CloseInv /\ HupInv
<1>1. PICK q \in [1 .. Cardinality(Threads) -> Threads] :
        (\A i, j \in DOMAIN q : q[i] = q[j] => i = j) /\ Starts(q)
  BY DEF Init
<1>2. Cardinality(Threads) \in Nat /\ Cardinality(Threads) # 0
  BY PipeAssumption, FS_CardinalityType, FS_EmptySet
<1>3. q \in Seq(Threads) /\ q # << >>
  BY <1>1, <1>2
<1> QED
  BY <1>1, <1>3, StartKeeps

----------------------------------------------------------------------------
(* The theorems *)

\* Every part of the process stays in its range and no ring overflows; both
\* queues are in order, and who is retried has not ended.
THEOREM QueueInvHolds == Spec => []QueueInv
<1>1. Init => QueueInv
  BY InitKeeps
<1>2. QueueInv /\ [Next]_vars => QueueInv'
  BY NextKeeps DEF Keeps
<1> QED
  BY <1>1, <1>2, PTL DEF Spec

\* vk_proc_local's queues agree with their marks and flags.
THEOREM QueuesAgreeHolds == Spec => []QueuesAgree
<1>1. QueueInv => QueuesAgree
  BY DEF QueueInv, Good, QueuesAgree
<1> QED
  BY <1>1, QueueInvHolds, PTL

\* A coroutine that has ended is on neither queue.
THEOREM EndedIsGoneHolds == Spec => []EndedIsGone
<1>1. QueueInv => EndedIsGone
  BY DEF QueueInv, Good, EndedIsGone
<1> QED
  BY <1>1, QueueInvHolds, PTL

\* Who sleeps will be woken, by its peer or by the poller.
LEMMA SleepInvHolds == Spec => [](QueueInv /\ SleepInv(p, {}))
<1>1. Init => QueueInv /\ SleepInv(p, {})
  BY InitKeeps
<1>2. QueueInv /\ SleepInv(p, {}) /\ [Next]_vars => QueueInv' /\ SleepInv(p, {})'
  BY NextKeeps DEF Keeps
<1> QED
  BY <1>1, <1>2, PTL DEF Spec

\* A writer and a reader never sleep on each other's bytes: what the writer
\* sent, or an effect that was still marked, would have woken the reader.
THEOREM DataWakesPeerHolds == Spec => []DataWakesPeer
<1>1. SleepInv(p, {}) => DataWakesPeer
  <2> SUFFICES ASSUME SleepInv(p, {}), NEW t \in Threads, Sink[t] # FD, WaitsIn(t, {"WRITE", "FLUSH"}),
                      WaitsIn(Sink[t], {"READ", "POLLREAD"})
               PROVE  FALSE
    BY DEF DataWakesPeer
  <2>1. Sink[t] \in Threads /\ Source[Sink[t]] = t
    BY PipeAssumption
  <2>2. Crossed(p, t, Sink[t])
    BY <2>1 DEF Crossed, WaitsIn, Sleeps, Reading, Writing
  <2> QED
    BY <2>1, <2>2 DEF SleepInv, WakeInv
<1> QED
  BY <1>1, SleepInvHolds, PTL

\* Who waits for a descriptor is registered with the poller.
THEOREM FdWaiterPolledHolds == Spec => []FdWaiterPolled
<1>1. SleepInv(p, {}) => FdWaiterPolled
  BY DEF FdWaiterPolled, SleepInv, WakeInv, Waits, WaitsIn, Sleeps, Reading, Writing
<1> QED
  BY <1>1, SleepInvHolds, PTL

\* A forward to a descriptor sleeps on nothing the poller does not watch.
THEOREM ForwardNeverHoardsHolds == CopiesIntoPipes => (Spec => []ForwardNeverHoards)
<1> SUFFICES ASSUME CopiesIntoPipes PROVE Spec => []ForwardNeverHoards
  OBVIOUS
<1>1. SleepInv(p, {}) => ForwardNeverHoards
  <2> SUFFICES ASSUME SleepInv(p, {}), NEW t \in Threads, Sink[t] = FD, WaitsIn(t, {"FORWARD"}),
                      \/ p.rx[t].data # << >> \/ p.tx[t].data # << >>
                      \/ Source[t] # FD /\ WaitsIn(Source[t], {"WRITE", "FLUSH"})
               PROVE  p.blocked_enq[t]
    BY DEF ForwardNeverHoards
  <2>1. Sleeps(p, t, {"FORWARD"})
    BY DEF WaitsIn, Sleeps
  <2>2. p.rx[t].data # << >> \/ p.tx[t].data # << >>
    <3>1. CASE Source[t] # FD /\ WaitsIn(Source[t], {"WRITE", "FLUSH"})
      <4>1. Source[t] \in Threads /\ Sleeps(p, Source[t], Writing)
        BY <3>1, PipeAssumption DEF WaitsIn, Sleeps, Writing
      <4>2. Room(p.rx[t]) = 0
        BY <2>1, <4>1 DEF SleepInv, HoardInv, Stalled
      <4> QED
        BY <4>2, BufLenAssumption DEF Room
    <3> QED
      BY <3>1
  <2> QED
    BY <2>1, <2>2 DEF SleepInv, HoardInv, Hoards
<1> QED
  BY <1>1, SleepInvHolds, PTL

\* hup and readhup bound messages: what is in a pipe is of the message its
\* reader is in.
THEOREM HupBoundaryHolds == ClosesCleanly => (Spec => []HupBoundary)
<1> SUFFICES ASSUME ClosesCleanly PROVE Spec => []HupBoundary
  OBVIOUS
<1>1. Init => QueueInv /\ CloseInv /\ HupInv
  BY InitKeeps
<1>2. QueueInv /\ CloseInv /\ HupInv /\ [Next]_vars => QueueInv' /\ CloseInv' /\ HupInv'
  BY NextKeeps DEF Keeps
<1>3. HupInv => HupBoundary
  BY DEF HupInv, HupState, PipeInv, HupBoundary
<1> QED
  BY <1>1, <1>2, <1>3, PTL DEF Spec


----------------------------------------------------------------------------
(* The type *)

\* A ring of bytes of messages, and a process of such rings.
MessageRing ==
  {g \in [data : Seq(Message), eof : BOOLEAN, effect : BOOLEAN, blocked : BOOLEAN] :
     Len(g.data) <= BufLen}

MessageProcess ==
  [run_q : Seq(Threads), run_enq : [Threads -> BOOLEAN], run : BOOLEAN,
   blocked_q : Seq(Threads), blocked_enq : [Threads -> BOOLEAN], blocked : BOOLEAN,
   running : Threads \cup {NoThread},
   status : [Threads -> {"RUN", "WAIT", "ERR", "END"}],
   op : [Threads -> Ops \cup {"NONE"}], need : [Threads -> 0 .. MaxLen],
   inside : [Threads -> BOOLEAN], closed : [Threads -> BOOLEAN],
   rx : [Threads -> MessageRing], tx : [Threads -> MessageRing]]

LEMMA MessageBytes ==
  ASSUME NEW q \in Seq(Message)
  PROVE  q \in Seq(Byte)
BY DEF Message, Byte

LEMMA MessageIsRing ==
  ASSUME NEW g \in MessageRing
  PROVE  /\ IsRing(g) /\ g.data \in Seq(Message) /\ Len(g.data) \in Nat
         /\ Room(g) \in Nat
<1>1. g.data \in Seq(Message) /\ Len(g.data) <= BufLen
  BY DEF MessageRing
<1>2. g.data \in Seq(Byte) /\ Len(g.data) \in Nat
  BY <1>1, MessageBytes
<1>3. IsRing(g)
  BY <1>1, <1>2 DEF MessageRing, IsRing
<1> QED
  BY <1>1, <1>2, <1>3, BufLenAssumption DEF Room

\* Other bytes, marks and flags in a ring.
LEMMA MessageSet ==
  ASSUME NEW g \in MessageRing, NEW d \in Seq(Message), Len(d) <= BufLen,
         NEW e \in BOOLEAN, NEW b \in BOOLEAN
  PROVE  /\ [g EXCEPT !.data = d, !.effect = TRUE] \in MessageRing
         /\ [g EXCEPT !.eof = e, !.effect = TRUE] \in MessageRing
         /\ [g EXCEPT !.blocked = b, !.eof = e] \in MessageRing
         /\ [g EXCEPT !.blocked = b, !.effect = e] \in MessageRing
         /\ [g EXCEPT !.blocked = b] \in MessageRing /\ [g EXCEPT !.effect = e] \in MessageRing
BY DEF MessageRing

LEMMA MessagePush ==
  ASSUME NEW g \in MessageRing, NEW bytes \in Seq(Message), Len(bytes) <= Room(g)
  PROVE  Push(g, bytes) \in MessageRing
<1>1. IsRing(g) /\ g.data \in Seq(Message) /\ bytes \in Seq(Byte)
  BY MessageIsRing, MessageBytes
<1>2. g.data \o bytes \in Seq(Message) /\ Len(g.data \o bytes) = Len(g.data) + Len(bytes)
  BY <1>1
<1>3. Len(g.data \o bytes) <= BufLen
  BY <1>1, <1>2, BufLenAssumption DEF Room, IsRing
<1> QED
  BY <1>2, <1>3, MessageSet DEF Push

LEMMA MessagePop ==
  ASSUME NEW g \in MessageRing, NEW n \in Nat
  PROVE  Pop(g, n) \in MessageRing
<1> DEFINE c == SubSeq(g.data, n + 1, Len(g.data))
<1>1. g.data \in Seq(Message) /\ Len(g.data) \in Nat /\ Len(g.data) <= BufLen
  BY MessageIsRing DEF IsRing
<1>2. c \in Seq(Message) /\ Len(c) <= Len(g.data)
  BY <1>1
<1>3. Len(c) <= BufLen
  BY <1>1, <1>2, BufLenAssumption
<1> QED
  BY <1>2, <1>3, MessageSet DEF Pop

LEMMA MessageBytesOf ==
  ASSUME NEW n \in Nat, NEW v \in Message
  PROVE  Bytes(n, v) \in Seq(Message) /\ Len(Bytes(n, v)) = n
BY DEF Bytes

LEMMA MessageEof ==
  ASSUME NEW g \in MessageRing, NEW b \in BOOLEAN
  PROVE  SetEof(g, b) \in MessageRing
<1>1. [g EXCEPT !.eof = b, !.effect = TRUE] \in MessageRing
  BY DEF MessageRing
<1> QED
  BY <1>1 DEF SetEof

LEMMA MessageFdRead ==
  ASSUME NEW g \in MessageRing, NEW got, got = EAGAIN \/ got \in 0 .. Room(g)
  PROVE  FdRead(g, got) \in MessageRing
<1>1. CASE got = EAGAIN
  <2>1. [g EXCEPT !.blocked = TRUE, !.effect = FALSE] \in MessageRing
    BY DEF MessageRing
  <2> QED
    BY <1>1, <2>1 DEF FdRead
<1>2. CASE got # EAGAIN
  <2> DEFINE b == got < Room(g)
             e == (got = 0)
             x == [g EXCEPT !.blocked = b, !.eof = e]
  <2>1. got \in 0 .. Room(g) /\ got \in Nat /\ Room(g) \in Nat
    BY <1>2, MessageIsRing
  <2>2. b \in BOOLEAN /\ e \in BOOLEAN
    OBVIOUS
  <2>3. FdRead(g, got) = Push(x, Bytes(got, 0))
    BY <1>2 DEF FdRead
  <2> HIDE DEF b, e
  <2>4. x \in MessageRing /\ Room(x) = Room(g)
    BY <2>2 DEF MessageRing, Room
  <2>5. Bytes(got, 0) \in Seq(Message) /\ Len(Bytes(got, 0)) = got
    BY <2>1, MessageBytesOf DEF Message
  <2> HIDE DEF x
  <2>6. Len(Bytes(got, 0)) <= Room(x)
    BY <2>1, <2>4, <2>5
  <2> QED
    BY <2>3, <2>4, <2>5, <2>6, MessagePush
<1> QED
  BY <1>1, <1>2

LEMMA MessageFdWrite ==
  ASSUME NEW g \in MessageRing, NEW put, put = EAGAIN \/ put \in Nat
  PROVE  FdWrite(g, put) \in MessageRing
<1>1. CASE g.blocked
  BY <1>1 DEF FdWrite
<1>2. CASE ~ g.blocked /\ put = EAGAIN
  <2>1. [g EXCEPT !.blocked = TRUE, !.effect = FALSE] \in MessageRing
    BY DEF MessageRing
  <2> QED
    BY <1>2, <2>1 DEF FdWrite
<1>3. CASE ~ g.blocked /\ put # EAGAIN
  <2> DEFINE b == put < Len(g.data)
  <2>1. b \in BOOLEAN
    OBVIOUS
  <2>2. FdWrite(g, put) = Pop([g EXCEPT !.blocked = b], put)
    BY <1>3 DEF FdWrite
  <2> HIDE DEF b
  <2>3. [g EXCEPT !.blocked = b] \in MessageRing
    BY <2>1 DEF MessageRing
  <2> QED
    BY <1>3, <2>2, <2>3, MessagePop
<1> QED
  BY <1>1, <1>2, <1>3

\* Another value in one field of a process.
LEMMA MessageField ==
  ASSUME NEW s \in MessageProcess, NEW t \in Threads
  PROVE  /\ \A v \in {"RUN", "WAIT", "ERR", "END"} : [s EXCEPT !.status[t] = v] \in MessageProcess
         /\ \A g \in MessageRing : [s EXCEPT !.rx[t] = g] \in MessageProcess
         /\ \A g \in MessageRing : [s EXCEPT !.tx[t] = g] \in MessageProcess
         /\ \A n \in 0 .. MaxLen : [s EXCEPT !.need[t] = n] \in MessageProcess
         /\ \A o \in Ops : [s EXCEPT !.op[t] = o] \in MessageProcess
         /\ \A b \in BOOLEAN : [s EXCEPT !.inside[t] = b] \in MessageProcess
         /\ \A b \in BOOLEAN : [s EXCEPT !.closed[t] = b] \in MessageProcess
         /\ \A x \in Threads \cup {NoThread} : [s EXCEPT !.running = x] \in MessageProcess
<1>1. ASSUME NEW v \in {"RUN", "WAIT", "ERR", "END"} PROVE [s EXCEPT !.status[t] = v] \in MessageProcess
  BY DEF MessageProcess
<1>2. ASSUME NEW g \in MessageRing PROVE [s EXCEPT !.rx[t] = g] \in MessageProcess
  BY DEF MessageProcess
<1>3. ASSUME NEW g \in MessageRing PROVE [s EXCEPT !.tx[t] = g] \in MessageProcess
  BY DEF MessageProcess
<1>4. ASSUME NEW n \in 0 .. MaxLen PROVE [s EXCEPT !.need[t] = n] \in MessageProcess
  BY DEF MessageProcess
<1>5. ASSUME NEW o \in Ops PROVE [s EXCEPT !.op[t] = o] \in MessageProcess
  BY DEF MessageProcess
<1>6. ASSUME NEW b \in BOOLEAN PROVE [s EXCEPT !.inside[t] = b] \in MessageProcess
  BY DEF MessageProcess
<1>7. ASSUME NEW b \in BOOLEAN PROVE [s EXCEPT !.closed[t] = b] \in MessageProcess
  BY DEF MessageProcess
<1>8. ASSUME NEW x \in Threads \cup {NoThread} PROVE [s EXCEPT !.running = x] \in MessageProcess
  BY DEF MessageProcess
<1> QED
  BY <1>1, <1>2, <1>3, <1>4, <1>5, <1>6, <1>7, <1>8

LEMMA MessageRings ==
  ASSUME NEW s \in MessageProcess, NEW t \in Threads
  PROVE  /\ s.rx[t] \in MessageRing /\ s.tx[t] \in MessageRing /\ s.need[t] \in 0 .. MaxLen
         /\ [s EXCEPT !.rx[t].effect = FALSE] \in MessageProcess
         /\ [s EXCEPT !.tx[t].effect = FALSE] \in MessageProcess
<1>1. s.rx[t] \in MessageRing /\ s.tx[t] \in MessageRing /\ s.need[t] \in 0 .. MaxLen
  BY DEF MessageProcess
<1>2. \A g \in MessageRing : [g EXCEPT !.effect = FALSE] \in MessageRing
  BY DEF MessageRing
<1>3. /\ [s EXCEPT !.rx[t].effect = FALSE] = [s EXCEPT !.rx[t] = [s.rx[t] EXCEPT !.effect = FALSE]]
      /\ [s EXCEPT !.tx[t].effect = FALSE] = [s EXCEPT !.tx[t] = [s.tx[t] EXCEPT !.effect = FALSE]]
  BY DEF MessageProcess
<1>4. /\ [s EXCEPT !.rx[t] = [s.rx[t] EXCEPT !.effect = FALSE]] \in MessageProcess
      /\ [s EXCEPT !.tx[t] = [s.tx[t] EXCEPT !.effect = FALSE]] \in MessageProcess
  BY <1>1, <1>2, MessageField
<1> QED
  BY <1>1, <1>3, <1>4

\* Other queues.
LEMMA MessageQueues ==
  ASSUME NEW s \in MessageProcess, NEW q \in Seq(Threads), NEW e \in [Threads -> BOOLEAN],
         NEW b \in BOOLEAN
  PROVE  /\ [s EXCEPT !.run_q = q, !.run_enq = e, !.run = b] \in MessageProcess
         /\ [s EXCEPT !.blocked_q = q, !.blocked_enq = e, !.blocked = b] \in MessageProcess
<1>1. [s EXCEPT !.run_q = q, !.run_enq = e, !.run = b] \in MessageProcess
  BY DEF MessageProcess
<1>2. [s EXCEPT !.blocked_q = q, !.blocked_enq = e, !.blocked = b] \in MessageProcess
  BY DEF MessageProcess
<1> QED
  BY <1>1, <1>2

LEMMA MessageReady ==
  ASSUME NEW s \in MessageProcess, NEW t \in Threads
  PROVE  Ready(s, t) \in MessageProcess
BY MessageField DEF Ready

LEMMA MessageMarks ==
  ASSUME NEW s \in MessageProcess, NEW t \in Threads, NEW b \in BOOLEAN
  PROVE  /\ s.run_q \in Seq(Threads) /\ s.run \in BOOLEAN
         /\ s.blocked_q \in Seq(Threads) /\ s.blocked \in BOOLEAN
         /\ << t >> \o s.run_q \in Seq(Threads) /\ << t >> \o s.blocked_q \in Seq(Threads)
         /\ [s.run_enq EXCEPT ![t] = b] \in [Threads -> BOOLEAN]
         /\ [s.blocked_enq EXCEPT ![t] = b] \in [Threads -> BOOLEAN]
<1>1. /\ s.run_q \in Seq(Threads) /\ s.run \in BOOLEAN
      /\ s.blocked_q \in Seq(Threads) /\ s.blocked \in BOOLEAN
      /\ s.run_enq \in [Threads -> BOOLEAN] /\ s.blocked_enq \in [Threads -> BOOLEAN]
  BY DEF MessageProcess
<1>2. << t >> \o s.run_q \in Seq(Threads) /\ << t >> \o s.blocked_q \in Seq(Threads)
  BY <1>1
<1>3. /\ [s.run_enq EXCEPT ![t] = b] \in [Threads -> BOOLEAN]
      /\ [s.blocked_enq EXCEPT ![t] = b] \in [Threads -> BOOLEAN]
  BY <1>1
<1> QED
  BY <1>1, <1>2, <1>3

LEMMA MessageEnqueueRun ==
  ASSUME NEW s \in MessageProcess, NEW t \in Threads
  PROVE  EnqueueRun(s, t) \in MessageProcess
<1> DEFINE r == Ready(s, t)
           q == << t >> \o r.run_q
           e == [r.run_enq EXCEPT ![t] = TRUE]
           b == IF r.run_q = << >> THEN TRUE ELSE r.run
<1>1. r \in MessageProcess
  BY MessageReady
<1>2. EnqueueRun(s, t) = r \/
      EnqueueRun(s, t) = [r EXCEPT !.run = b, !.run_q = q, !.run_enq[t] = TRUE]
  BY DEF EnqueueRun
<1> HIDE DEF r
<1>3. q \in Seq(Threads) /\ e \in [Threads -> BOOLEAN] /\ r.run \in BOOLEAN
  BY <1>1, MessageMarks
<1>4. b \in BOOLEAN
  BY <1>3
<1> HIDE DEF q, b
<1>5. [r EXCEPT !.run = b, !.run_q = q, !.run_enq[t] = TRUE] =
        [r EXCEPT !.run_q = q, !.run_enq = e, !.run = b]
  BY <1>1 DEF MessageProcess
<1> HIDE DEF e
<1>6. [r EXCEPT !.run_q = q, !.run_enq = e, !.run = b] \in MessageProcess
  BY <1>1, <1>3, <1>4, MessageQueues
<1> QED
  BY <1>1, <1>2, <1>5, <1>6

LEMMA MessageEnqueueBlocked ==
  ASSUME NEW s \in MessageProcess, NEW t \in Threads
  PROVE  EnqueueBlocked(s, t) \in MessageProcess
<1> DEFINE q == << t >> \o s.blocked_q
           e == [s.blocked_enq EXCEPT ![t] = TRUE]
           b == IF s.blocked_q = << >> THEN TRUE ELSE s.blocked
<1>1. EnqueueBlocked(s, t) = s \/
      EnqueueBlocked(s, t) = [s EXCEPT !.blocked = b, !.blocked_q = q, !.blocked_enq[t] = TRUE]
  BY DEF EnqueueBlocked
<1>2. q \in Seq(Threads) /\ e \in [Threads -> BOOLEAN] /\ s.blocked \in BOOLEAN
  BY MessageMarks
<1>3. b \in BOOLEAN
  BY <1>2
<1> HIDE DEF q, b
<1>4. [s EXCEPT !.blocked = b, !.blocked_q = q, !.blocked_enq[t] = TRUE] =
        [s EXCEPT !.blocked_q = q, !.blocked_enq = e, !.blocked = b]
  BY DEF MessageProcess
<1> HIDE DEF e
<1>5. [s EXCEPT !.blocked_q = q, !.blocked_enq = e, !.blocked = b] \in MessageProcess
  BY <1>2, <1>3, MessageQueues
<1> QED
  BY <1>1, <1>4, <1>5

\* Where the queue that is left has its type.
LEMMA MessageDrop ==
  ASSUME NEW s \in MessageProcess, NEW t \in Threads
  PROVE  /\ DropBlocked(s, t).blocked_q \in Seq(Threads) => DropBlocked(s, t) \in MessageProcess
         /\ DropRun(s, t).run_q \in Seq(Threads) => DropRun(s, t) \in MessageProcess
<1>1. ASSUME DropBlocked(s, t).blocked_q \in Seq(Threads) PROVE DropBlocked(s, t) \in MessageProcess
  <2> DEFINE q == IF s.blocked_enq[t] THEN Without(s.blocked_q, t) ELSE s.blocked_q
             e == [s.blocked_enq EXCEPT ![t] = FALSE]
             b == IF q = << >> THEN FALSE ELSE s.blocked
  <2>1. DropBlocked(s, t) = [s EXCEPT !.blocked_q = q, !.blocked_enq[t] = FALSE, !.blocked = b]
    BY DEF DropBlocked
  <2>2. e \in [Threads -> BOOLEAN] /\ s.blocked \in BOOLEAN
    BY MessageMarks
  <2>3. b \in BOOLEAN
    BY <2>2
  <2> HIDE DEF q, b
  <2>4. /\ DropBlocked(s, t) = [s EXCEPT !.blocked_q = q, !.blocked_enq = e, !.blocked = b]
        /\ DropBlocked(s, t).blocked_q = q
    BY <2>1 DEF MessageProcess
  <2> HIDE DEF e
  <2>5. [s EXCEPT !.blocked_q = q, !.blocked_enq = e, !.blocked = b] \in MessageProcess
    BY <1>1, <2>2, <2>3, <2>4, MessageQueues
  <2> QED
    BY <2>4, <2>5
<1>2. ASSUME DropRun(s, t).run_q \in Seq(Threads) PROVE DropRun(s, t) \in MessageProcess
  <2> DEFINE q == IF s.run_enq[t] THEN Without(s.run_q, t) ELSE s.run_q
             e == [s.run_enq EXCEPT ![t] = FALSE]
             b == IF q = << >> THEN FALSE ELSE s.run
  <2>1. DropRun(s, t) = [s EXCEPT !.run_q = q, !.run_enq[t] = FALSE, !.run = b]
    BY DEF DropRun
  <2>2. e \in [Threads -> BOOLEAN] /\ s.run \in BOOLEAN
    BY MessageMarks
  <2>3. b \in BOOLEAN
    BY <2>2
  <2> HIDE DEF q, b
  <2>4. /\ DropRun(s, t) = [s EXCEPT !.run_q = q, !.run_enq = e, !.run = b]
        /\ DropRun(s, t).run_q = q
    BY <2>1 DEF MessageProcess
  <2> HIDE DEF e
  <2>5. [s EXCEPT !.run_q = q, !.run_enq = e, !.run = b] \in MessageProcess
    BY <1>2, <2>2, <2>3, <2>4, MessageQueues
  <2> QED
    BY <2>4, <2>5
<1> QED
  BY <1>1, <1>2

LEMMA MessageSplice ==
  ASSUME NEW s \in MessageProcess, NEW r \in Threads, NEW w \in Threads
  PROVE  PipeSplice(s, r, w) \in MessageProcess
<1> DEFINE n  == Smaller(Room(s.rx[r]), Len(s.tx[w].data))
           d  == SubSeq(s.tx[w].data, 1, n)
           to == Push(s.rx[r], d)
           fr == Pop(s.tx[w], n)
           b  == n < Room(to)
           c  == n < Len(fr.data)
           g  == [to EXCEPT !.blocked = b]
           h  == [fr EXCEPT !.blocked = c]
<1>1. /\ s.rx[r] \in MessageRing /\ Room(s.rx[r]) \in Nat
      /\ s.tx[w] \in MessageRing /\ s.tx[w].data \in Seq(Message) /\ Len(s.tx[w].data) \in Nat
  BY MessageRings, MessageIsRing
<1>2. n \in Nat /\ n <= Room(s.rx[r]) /\ n <= Len(s.tx[w].data)
  BY <1>1, SmallerIs
<1>3. PipeSplice(s, r, w) = [s EXCEPT !.rx[r] = g, !.tx[w] = h]
  BY DEF PipeSplice
<1>4. b \in BOOLEAN /\ c \in BOOLEAN
  OBVIOUS
<1> HIDE DEF n, b, c
<1>5. d \in Seq(Message) /\ Len(d) = n
  BY <1>1, <1>2
<1> HIDE DEF d
<1>6. to \in MessageRing /\ fr \in MessageRing
  BY <1>1, <1>2, <1>5, MessagePush, MessagePop
<1> HIDE DEF to, fr
<1>7. g \in MessageRing /\ h \in MessageRing
  BY <1>4, <1>6 DEF MessageRing
<1> HIDE DEF g, h
<1>8. [s EXCEPT !.rx[r] = g, !.tx[w] = h] = [[s EXCEPT !.rx[r] = g] EXCEPT !.tx[w] = h]
  BY DEF MessageProcess
<1>9. [s EXCEPT !.rx[r] = g] \in MessageProcess
  BY <1>7, MessageField
<1> DEFINE u == [s EXCEPT !.rx[r] = g]
<1> HIDE DEF u
<1>10. [u EXCEPT !.tx[w] = h] \in MessageProcess
  BY <1>7, <1>9, MessageField DEF u
<1> QED
  BY <1>3, <1>8, <1>10 DEF u

LEMMA MessageWakes ==
  ASSUME NEW s \in MessageProcess, NEW t \in Threads
  PROVE  /\ EnqueueRead(s, t) \in MessageProcess /\ EnqueueWrite(s, t) \in MessageProcess
         /\ Source[t] # FD => EnqueueReadWriter(s, t) \in MessageProcess
         /\ Sink[t] # FD => EnqueueWriteReader(s, t) \in MessageProcess
         /\ HandleBlock(s, t) \in MessageProcess
<1>1. EnqueueRead(s, t) \in MessageProcess
  BY MessageRings, MessageReady DEF EnqueueRead
<1>2. EnqueueWrite(s, t) \in MessageProcess
  BY MessageRings, MessageReady DEF EnqueueWrite
<1>3. ASSUME Source[t] # FD PROVE EnqueueReadWriter(s, t) \in MessageProcess
  <2>1. Source[t] \in Threads
    BY <1>3, PipeAssumption
  <2>2. [s EXCEPT !.tx[Source[t]].effect = FALSE] \in MessageProcess
    BY <2>1, MessageRings
  <2>3. EnqueueRun([s EXCEPT !.tx[Source[t]].effect = FALSE], Source[t]) \in MessageProcess
    BY <2>1, <2>2, MessageEnqueueRun
  <2> QED
    BY <2>3, MessageReady DEF EnqueueReadWriter
<1>4. ASSUME Sink[t] # FD PROVE EnqueueWriteReader(s, t) \in MessageProcess
  <2>1. Sink[t] \in Threads
    BY <1>4, PipeAssumption
  <2>2. [s EXCEPT !.rx[Sink[t]].effect = FALSE] \in MessageProcess
    BY <2>1, MessageRings
  <2>3. EnqueueRun([s EXCEPT !.rx[Sink[t]].effect = FALSE], Sink[t]) \in MessageProcess
    BY <2>1, <2>2, MessageEnqueueRun
  <2> QED
    BY <2>3, MessageReady DEF EnqueueWriteReader
<1>5. HandleBlock(s, t) \in MessageProcess
  BY MessageEnqueueBlocked DEF HandleBlock
<1> QED
  BY <1>1, <1>2, <1>3, <1>4, <1>5

\* What the descriptors of t may say.
Says(s, t, got, put) ==
  /\ Source[t] = FD => got = EAGAIN \/ got \in 0 .. Room(s.rx[t])
  /\ put = EAGAIN \/ put \in Nat

LEMMA MessageSides ==
  ASSUME NEW s \in MessageProcess, NEW t \in Threads, NEW got, NEW put, Says(s, t, got, put)
  PROVE  /\ ReadSide(s, t, got) \in MessageProcess
         /\ WriteSide(s, t, put) \in MessageProcess
<1>1. s.rx[t] \in MessageRing /\ s.tx[t] \in MessageRing
  BY MessageRings
<1>2. ASSUME Source[t] = FD PROVE ReadSide(s, t, got) \in MessageProcess
  <2>1. [s EXCEPT !.rx[t] = FdRead(@, got)] = [s EXCEPT !.rx[t] = FdRead(s.rx[t], got)]
    BY DEF MessageProcess
  <2>2. FdRead(s.rx[t], got) \in MessageRing
    BY <1>1, <1>2, MessageFdRead DEF Says
  <2>3. [s EXCEPT !.rx[t] = FdRead(@, got)] \in MessageProcess
    BY <2>1, <2>2, MessageField
  <2> QED
    BY <1>2, <2>3, MessageWakes DEF ReadSide
<1>3. ASSUME Source[t] # FD PROVE ReadSide(s, t, got) \in MessageProcess
  <2>1. PipeSplice(s, t, Source[t]) \in MessageProcess
    BY <1>3, PipeAssumption, MessageSplice
  <2>2. EnqueueRead(PipeSplice(s, t, Source[t]), t) \in MessageProcess
    BY <2>1, MessageWakes
  <2> QED
    BY <1>3, <2>2, MessageWakes DEF ReadSide
<1>4. ASSUME Sink[t] = FD PROVE WriteSide(s, t, put) \in MessageProcess
  <2>1. [s EXCEPT !.tx[t] = FdWrite(@, put)] = [s EXCEPT !.tx[t] = FdWrite(s.tx[t], put)]
    BY DEF MessageProcess
  <2>2. FdWrite(s.tx[t], put) \in MessageRing
    BY <1>1, MessageFdWrite DEF Says
  <2>3. [s EXCEPT !.tx[t] = FdWrite(@, put)] \in MessageProcess
    BY <2>1, <2>2, MessageField
  <2> QED
    BY <1>4, <2>3, MessageWakes DEF WriteSide
<1>5. ASSUME Sink[t] # FD PROVE WriteSide(s, t, put) \in MessageProcess
  <2>1. PipeSplice(s, Sink[t], t) \in MessageProcess
    BY <1>5, PipeAssumption, MessageSplice
  <2>2. EnqueueWrite(PipeSplice(s, Sink[t], t), t) \in MessageProcess
    BY <2>1, MessageWakes
  <2> QED
    BY <1>5, <2>2, MessageWakes DEF WriteSide
<1> QED
  BY <1>2, <1>3, <1>4, <1>5

LEMMA MessageWriteSide ==
  ASSUME NEW s \in MessageProcess, NEW t \in Threads, NEW put, put = EAGAIN \/ put \in Nat
  PROVE  WriteSide(s, t, put) \in MessageProcess
<1>1. Says(s, t, EAGAIN, put)
  BY DEF Says
<1> QED
  BY <1>1, MessageSides

\* A ring with the EOF mark set or taken off.
LEMMA MessageMark ==
  ASSUME NEW s \in MessageProcess, NEW t \in Threads, NEW b \in BOOLEAN
  PROVE  /\ [s EXCEPT !.tx[t] = SetEof(@, b)] \in MessageProcess
         /\ [s EXCEPT !.rx[t] = SetEof(@, b)] \in MessageProcess
         /\ [s EXCEPT !.closed[t] = TRUE, !.tx[t].effect = TRUE] \in MessageProcess
<1>1. SetEof(s.tx[t], b) \in MessageRing /\ SetEof(s.rx[t], b) \in MessageRing
  BY MessageRings, MessageEof
<1>2. /\ [s EXCEPT !.tx[t] = SetEof(@, b)] = [s EXCEPT !.tx[t] = SetEof(s.tx[t], b)]
      /\ [s EXCEPT !.rx[t] = SetEof(@, b)] = [s EXCEPT !.rx[t] = SetEof(s.rx[t], b)]
  BY DEF MessageProcess
<1>3. /\ [s EXCEPT !.tx[t] = SetEof(@, b)] \in MessageProcess
      /\ [s EXCEPT !.rx[t] = SetEof(@, b)] \in MessageProcess
  BY <1>1, <1>2, MessageField
<1> DEFINE g == [s.tx[t] EXCEPT !.effect = TRUE]
           u == [s EXCEPT !.tx[t] = g]
<1>4. g \in MessageRing
  <2>1. s.tx[t] \in MessageRing
    BY MessageRings
  <2> QED
    BY <2>1 DEF MessageRing
<1>5. [s EXCEPT !.closed[t] = TRUE, !.tx[t].effect = TRUE] = [u EXCEPT !.closed[t] = TRUE]
  BY DEF MessageProcess
<1> HIDE DEF g
<1>6. u \in MessageProcess
  BY <1>4, MessageField
<1> HIDE DEF u
<1>7. [u EXCEPT !.closed[t] = TRUE] \in MessageProcess
  BY <1>6, MessageField
<1> QED
  BY <1>3, <1>5, <1>7

LEMMA MessageReadhup ==
  ASSUME NEW s \in MessageProcess, NEW t \in Threads, Source[t] # FD
  PROVE  HandleReadhup(s, t) \in MessageProcess
<1> DEFINE w     == Source[t]
           u     == [s EXCEPT !.tx[w] = SetEof(@, FALSE)]
           moved == [s EXCEPT !.tx[w] = SetEof(@, FALSE), !.rx[t] = SetEof(@, TRUE)]
<1>1. w \in Threads
  BY PipeAssumption
<1>2. u \in MessageProcess
  BY <1>1, MessageMark
<1>3. moved = [u EXCEPT !.rx[t] = SetEof(@, TRUE)]
  BY DEF MessageProcess
<1> HIDE DEF u
<1>4. moved \in MessageProcess
  BY <1>2, <1>3, MessageMark
<1>5. HandleReadhup(s, t) =
        HandleBlock(IF s.tx[w].eof THEN EnqueueReadWriter(EnqueueRead(moved, t), t) ELSE s, t)
  BY DEF HandleReadhup
<1> HIDE DEF moved, w
<1>6. EnqueueReadWriter(EnqueueRead(moved, t), t) \in MessageProcess
  <2>1. EnqueueRead(moved, t) \in MessageProcess
    BY <1>4, MessageWakes
  <2> QED
    BY <2>1, MessageWakes
<1> QED
  BY <1>5, <1>6, MessageWakes

LEMMA MessageHandler ==
  ASSUME NEW s \in MessageProcess, NEW t \in Threads, NEW got, NEW put, Says(s, t, got, put),
         s.op[t] = "HUP" => Sink[t] # FD
  PROVE  Handler(s, t, got, put) \in MessageProcess
<1>1. HandleRead(s, t, got) \in MessageProcess
  <2>1. ReadSide(s, t, got) \in MessageProcess
    BY MessageSides
  <2> QED
    BY <2>1, MessageWakes DEF HandleRead
<1>2. \A u \in MessageProcess : HandleWrite(u, t, put) \in MessageProcess
  <2>1. ASSUME NEW u \in MessageProcess PROVE HandleWrite(u, t, put) \in MessageProcess
    <3>1. WriteSide(u, t, put) \in MessageProcess
      BY MessageWriteSide DEF Says
    <3> QED
      BY <3>1, MessageWakes DEF HandleWrite
  <2> QED
    BY <2>1
<1>3. HandleReadOp(s, t, got, put) \in MessageProcess
  BY <1>1, <1>2 DEF HandleReadOp
<1>4. HandleForward(s, t, got, put) \in MessageProcess
  <2> DEFINE r == ReadSide(s, t, got)
  <2>1. r \in MessageProcess
    BY MessageSides
  <2>2. HandleForward(s, t, got, put) =
          HandleBlock(IF Source[t] = FD /\ Sink[t] # FD THEN ForwardToPipe(r, t)
                                                        ELSE WriteSide(r, t, put), t)
    BY DEF HandleForward
  <2> HIDE DEF r
  <2>3. WriteSide(r, t, put) \in MessageProcess
    BY <2>1, MessageWriteSide DEF Says
  <2>4. ASSUME Sink[t] # FD PROVE ForwardToPipe(r, t) \in MessageProcess
    <3> DEFINE w == EnqueueWrite(PipeSplice(r, Sink[t], t), t)
    <3>1. Sink[t] \in Threads
      BY <2>4, PipeAssumption
    <3>2. PipeSplice(r, Sink[t], t) \in MessageProcess
      BY <2>1, <3>1, MessageSplice
    <3>3. w \in MessageProcess
      BY <3>2, MessageWakes
    <3>4. ForwardToPipe(r, t) = IF w.rx[Sink[t]].blocked
                                THEN EnqueueRun(EnqueueWriteReader(w, t), Sink[t]) ELSE w
      BY DEF ForwardToPipe
    <3> HIDE DEF w
    <3>5. EnqueueWriteReader(w, t) \in MessageProcess
      BY <2>4, <3>3, MessageWakes
    <3> QED
      BY <3>1, <3>3, <3>4, <3>5, MessageEnqueueRun
  <2> QED
    BY <2>2, <2>3, <2>4, MessageWakes
<1>5. ASSUME Sink[t] # FD PROVE HandleHup(s, t) \in MessageProcess
  <2>1. EnqueueWrite(s, t) \in MessageProcess
    BY MessageWakes
  <2>2. EnqueueWriteReader(EnqueueWrite(s, t), t) \in MessageProcess
    BY <1>5, <2>1, MessageWakes
  <2> QED
    BY <2>2, MessageWakes DEF HandleHup
<1>6. HandleTxClose(s, t) \in MessageProcess
  <2> DEFINE closed == EnqueueWrite([s EXCEPT !.closed[t] = TRUE, !.tx[t].effect = TRUE], t)
             marked == EnqueueWrite([s EXCEPT !.tx[t] = SetEof(@, TRUE)], t)
             x == IF Sink[t] = FD THEN closed ELSE EnqueueWriteReader(marked, t)
  <2>1. [s EXCEPT !.closed[t] = TRUE, !.tx[t].effect = TRUE] \in MessageProcess
        /\ [s EXCEPT !.tx[t] = SetEof(@, TRUE)] \in MessageProcess
    BY MessageMark
  <2>2. closed \in MessageProcess /\ marked \in MessageProcess
    BY <2>1, MessageWakes
  <2>3. HandleTxClose(s, t) = Ready(HandleBlock(x, t), t)
    BY DEF HandleTxClose
  <2> HIDE DEF closed, marked
  <2>4. x \in MessageProcess
    BY <2>2, MessageWakes
  <2> HIDE DEF x
  <2>5. HandleBlock(x, t) \in MessageProcess
    BY <2>4, MessageWakes
  <2> QED
    BY <2>3, <2>5, MessageReady
<1>7. s.op[t] \in Ops \cup {"NONE"}
  BY DEF MessageProcess
<1> QED
  BY <1>1, <1>2, <1>3, <1>4, <1>5, <1>6, <1>7 DEF Handler, Ops

LEMMA MessageWait ==
  ASSUME NEW s \in MessageProcess, NEW t \in Threads, s.op[t] = "HUP" => Sink[t] # FD, Wait(s, t)
  PROVE  p' \in MessageProcess
<1> DEFINE d == [s EXCEPT !.status[t] = "WAIT"]
<1>1. PICK got \in Got(s, t), put \in Put(s, t) : p' = Handler(d, t, got, put)
  BY DEF Wait
<1>2. d \in MessageProcess
  BY MessageField
<1>3. d.rx = s.rx /\ d.op = s.op
  BY DEF MessageProcess
<1>4. Room(s.rx[t]) \in Nat /\ Len(s.tx[t].data) \in Nat
  BY MessageRings, MessageIsRing
<1>5. Says(s, t, got, put)
  BY <1>1, <1>4 DEF Says, Got, Put, EAGAIN
<1>6. Says(d, t, got, put)
  BY <1>3, <1>5 DEF Says
<1> HIDE DEF d
<1> QED
  BY <1>1, <1>2, <1>3, <1>6, MessageHandler

LEMMA MessageFinish ==
  ASSUME NEW s \in MessageProcess, NEW t \in Threads
  PROVE  Finish(s, t) \in MessageProcess
BY MessageField DEF Finish

LEMMA MessageRaise ==
  ASSUME NEW s \in MessageProcess, NEW t \in Threads
  PROVE  Raise(s, t) \in MessageProcess
BY MessageEnqueueRun, MessageField DEF Raise

\* n bytes read of need, and as many written.
LEMMA MessageTook ==
  ASSUME NEW s \in MessageProcess, NEW t \in Threads, NEW n \in Nat, n <= s.need[t]
  PROVE  [s EXCEPT !.rx[t] = Pop(@, n), !.need[t] = @ - n] \in MessageProcess
<1> DEFINE g == Pop(s.rx[t], n)
           m == s.need[t] - n
           u == [s EXCEPT !.rx[t] = g]
<1>1. s.rx[t] \in MessageRing /\ s.need[t] \in 0 .. MaxLen
  BY MessageRings
<1>2. g \in MessageRing /\ m \in 0 .. MaxLen
  BY <1>1, MessagePop, BufLenAssumption
<1>3. [s EXCEPT !.rx[t] = Pop(@, n), !.need[t] = @ - n] = [u EXCEPT !.need[t] = m]
  BY DEF MessageProcess
<1> HIDE DEF g, m
<1>4. u \in MessageProcess
  BY <1>2, MessageField
<1> HIDE DEF u
<1>5. [u EXCEPT !.need[t] = m] \in MessageProcess
  BY <1>2, <1>4, MessageField
<1> QED
  BY <1>3, <1>5

LEMMA MessageSent ==
  ASSUME NEW s \in MessageProcess, NEW t \in Threads, NEW n \in Nat, n <= Room(s.tx[t]),
         NEW v \in Message
  PROVE  /\ [s EXCEPT !.tx[t] = Push(@, Bytes(n, v))] \in MessageProcess
         /\ n <= s.need[t] =>
              [s EXCEPT !.tx[t] = Push(@, Bytes(n, v)), !.need[t] = @ - n] \in MessageProcess
<1> DEFINE g == Push(s.tx[t], Bytes(n, v))
           m == s.need[t] - n
           u == [s EXCEPT !.tx[t] = g]
<1>1. s.tx[t] \in MessageRing /\ s.need[t] \in 0 .. MaxLen
  BY MessageRings
<1>2. g \in MessageRing
  <2>1. Bytes(n, v) \in Seq(Message) /\ Len(Bytes(n, v)) <= Room(s.tx[t])
    BY MessageBytesOf
  <2> QED
    BY <1>1, <2>1, MessagePush
<1>3. n <= s.need[t] => m \in 0 .. MaxLen
  BY <1>1, BufLenAssumption
<1>4. /\ [s EXCEPT !.tx[t] = Push(@, Bytes(n, v))] = u
      /\ [s EXCEPT !.tx[t] = Push(@, Bytes(n, v)), !.need[t] = @ - n] = [u EXCEPT !.need[t] = m]
  BY DEF MessageProcess
<1> HIDE DEF g, m
<1>5. u \in MessageProcess
  BY <1>2, MessageField
<1> HIDE DEF u
<1>6. n <= s.need[t] => [u EXCEPT !.need[t] = m] \in MessageProcess
  BY <1>3, <1>5, MessageField
<1> QED
  BY <1>4, <1>5, <1>6

\* A step of the coroutine t inside of an operation.
LEMMA MessageTurn ==
  ASSUME QueueInv, p \in MessageProcess, NEW t \in Threads,
         Read(t) \/ Pollread(t) \/ Write(t) \/ Flush(t) \/ Forward(t)
  PROVE  p' \in MessageProcess
<1>1. p.op[t] = "HUP" => Sink[t] # FD
  BY DEF QueueInv
<1>2. /\ p.need[t] \in Nat /\ Len(p.rx[t].data) \in Nat /\ Room(p.tx[t]) \in Nat
  <2>1. p.rx[t] \in MessageRing /\ p.tx[t] \in MessageRing /\ p.need[t] \in 0 .. MaxLen
    BY MessageRings
  <2> QED
    BY <2>1, MessageIsRing, BufLenAssumption
<1>3. msg[t].writes \in Message
  BY DEF QueueInv
<1>4. \A s \in MessageProcess : Finish(s, t) \in MessageProcess
  BY MessageFinish
<1>5. CASE Read(t)
  <2> DEFINE n    == Smaller(p.need[t], Len(p.rx[t].data))
             took == [p EXCEPT !.rx[t] = Pop(@, n), !.need[t] = @ - n]
  <2>1. n \in Nat /\ n <= p.need[t]
    BY <1>2, SmallerIs
  <2>2. p' = Finish(took, t) \/ Wait(took, t)
    BY <1>5 DEF Read
  <2>3. took.op = p.op
    BY DEF MessageProcess
  <2> HIDE DEF n
  <2>4. took \in MessageProcess
    BY <2>1, MessageTook
  <2> HIDE DEF took
  <2> QED
    BY <1>1, <1>4, <2>2, <2>3, <2>4, MessageWait
<1>6. CASE Pollread(t)
  <2>1. p' = Finish(p, t) \/ Wait(p, t)
    BY <1>6 DEF Pollread
  <2> QED
    BY <1>1, <1>4, <2>1, MessageWait
<1>7. CASE Write(t)
  <2> DEFINE n    == Smaller(p.need[t], Room(p.tx[t]))
             v    == msg[t].writes
             sent == [p EXCEPT !.tx[t] = Push(@, Bytes(n, v)), !.need[t] = @ - n]
  <2>1. n \in Nat /\ n <= p.need[t] /\ n <= Room(p.tx[t]) /\ v \in Message
    BY <1>2, <1>3, SmallerIs
  <2>2. p' = Finish(sent, t) \/ Wait(sent, t)
    BY <1>7 DEF Write, WriteAs
  <2>3. sent.op = p.op
    BY DEF MessageProcess
  <2> HIDE DEF n, v
  <2>4. sent \in MessageProcess
    BY <2>1, MessageSent
  <2> HIDE DEF sent
  <2> QED
    BY <1>1, <1>4, <2>2, <2>3, <2>4, MessageWait
<1>8. CASE Flush(t)
  <2>1. p' = Finish(p, t) \/ Wait(p, t)
    BY <1>8 DEF Flush
  <2> QED
    BY <1>1, <1>4, <2>1, MessageWait
<1>9. CASE Forward(t)
  <2> DEFINE k     == Smaller(Len(p.rx[t].data), Room(p.tx[t]))
             n     == Smaller(p.need[t], k)
             v     == msg[t].writes
             took  == [p EXCEPT !.rx[t] = Pop(@, n), !.need[t] = @ - n]
             moved == [p EXCEPT !.rx[t] = Pop(@, n), !.need[t] = @ - n,
                                !.tx[t] = Push(@, Bytes(n, v))]
  <2>1. k \in Nat /\ k <= Room(p.tx[t])
    BY <1>2, SmallerIs
  <2> HIDE DEF k
  <2>2. n \in Nat /\ n <= p.need[t] /\ n <= k /\ v \in Message
    BY <1>2, <1>3, <2>1, SmallerIs
  <2>3. n <= Room(p.tx[t])
    BY <1>2, <2>1, <2>2
  <2>4. p' = Finish(p, t) \/ p' = Finish(moved, t) \/ Wait(moved, t)
    BY <1>9 DEF Forward, ForwardAs, k
  <2> HIDE DEF n, v
  <2>5. moved = [took EXCEPT !.tx[t] = Push(@, Bytes(n, v))] /\ moved.op = p.op /\ took.tx = p.tx
    BY DEF MessageProcess
  <2>6. took \in MessageProcess
    BY <2>2, MessageTook
  <2> HIDE DEF took, moved
  <2>7. moved \in MessageProcess
    BY <2>2, <2>3, <2>5, <2>6, MessageSent
  <2> QED
    BY <1>1, <1>4, <2>4, <2>5, <2>7, MessageWait
<1> QED
  BY <1>5, <1>6, <1>7, <1>8, <1>9

\* A step of t between two operations, or out of one that waits for no bytes.
LEMMA MessageBegin ==
  ASSUME QueueInv, p \in MessageProcess, NEW t \in Threads, Begins(t)
  PROVE  p' \in MessageProcess
<1>1. PICK o \in Ops, n \in 0 .. MaxLen : Begin(t, o, n)
  <2>1. 0 \in 0 .. MaxLen /\ 1 \in 0 .. MaxLen /\ \A n \in 1 .. MaxLen : n \in 0 .. MaxLen
    BY BufLenAssumption
  <2> QED
    BY <2>1 DEF Begins, Ops
<1> DEFINE u     == [p EXCEPT !.op[t] = o]
           v     == [u EXCEPT !.need[t] = n]
           begun == [v EXCEPT !.inside[t] = TRUE]
<1>2. begun = [p EXCEPT !.op[t] = o, !.need[t] = n, !.inside[t] = TRUE]
  BY DEF MessageProcess
<1>3. p' = Raise(begun, t) \/ p' = begun
  BY <1>1, <1>2 DEF Begin
<1>4. u \in MessageProcess
  BY MessageField
<1> HIDE DEF u
<1>5. v \in MessageProcess
  BY <1>4, MessageField
<1> HIDE DEF v
<1>6. begun \in MessageProcess
  BY <1>5, MessageField
<1> QED
  BY <1>3, <1>6, MessageRaise

LEMMA MessageRun ==
  ASSUME QueueInv, QueueInv', p \in MessageProcess, NEW t \in Threads,
         Hup(t) \/ HupReturns(t) \/ Readhup(t) \/ TxClose(t) \/ Finally(t) \/ End(t)
           \/ \E u \in Threads : Call(t, u)
  PROVE  p' \in MessageProcess
<1>1. p.op[t] = "HUP" => Sink[t] # FD
  BY DEF QueueInv
<1>2. 0 \in 0 .. MaxLen /\ 1 \in 0 .. MaxLen /\ "HUP" \in Ops
  BY BufLenAssumption DEF Ops
<1>3. CASE Hup(t)
  <2> DEFINE u     == [p EXCEPT !.tx[t] = SetEof(@, TRUE)]
             v     == [u EXCEPT !.op[t] = "HUP"]
             w     == [v EXCEPT !.need[t] = 1]
             begun == [w EXCEPT !.inside[t] = TRUE]
  <2>1. begun = [p EXCEPT !.tx[t] = SetEof(@, TRUE), !.op[t] = "HUP", !.need[t] = 1,
                          !.inside[t] = TRUE]
    BY DEF MessageProcess
  <2>2. Sink[t] # FD /\ (p' = Raise(p, t) \/ Wait(begun, t))
    BY <1>3, <2>1 DEF Hup
  <2>3. u \in MessageProcess
    BY MessageMark
  <2> HIDE DEF u
  <2>4. v \in MessageProcess
    BY <1>2, <2>3, MessageField
  <2> HIDE DEF v
  <2>5. w \in MessageProcess
    BY <1>2, <2>4, MessageField
  <2> HIDE DEF w
  <2>6. begun \in MessageProcess
    BY <2>5, MessageField
  <2> HIDE DEF begun
  <2> QED
    BY <2>2, <2>6, MessageRaise, MessageWait
<1>4. CASE HupReturns(t)
  <2>1. Wait(p, t) \/ p' = Finish([p EXCEPT !.need[t] = 0], t)
    BY <1>4 DEF HupReturns
  <2>2. [p EXCEPT !.need[t] = 0] \in MessageProcess
    BY <1>2, MessageField
  <2>3. Finish([p EXCEPT !.need[t] = 0], t) \in MessageProcess
    BY <2>2, MessageFinish
  <2> QED
    BY <1>1, <2>1, <2>3, MessageWait
<1>5. CASE Readhup(t)
  <2> DEFINE u == HandleReadhup(p, t)
  <2>1. Source[t] # FD /\ (p' = [u EXCEPT !.rx[t] = SetEof(@, FALSE)] \/ p' = Raise(p, t))
    BY <1>5 DEF Readhup
  <2>2. u \in MessageProcess
    BY <2>1, MessageReadhup
  <2> HIDE DEF u
  <2>3. [u EXCEPT !.rx[t] = SetEof(@, FALSE)] \in MessageProcess
    BY <2>2, MessageMark
  <2> QED
    BY <2>1, <2>3, MessageRaise
<1>6. CASE TxClose(t)
  <2> DEFINE u == [p EXCEPT !.need[t] = 0]
  <2>1. p' = Finish(p, t) \/ Wait(u, t)
    BY <1>6 DEF TxClose
  <2>2. u \in MessageProcess
    BY <1>2, MessageField
  <2>3. u.op = p.op
    BY DEF MessageProcess
  <2> HIDE DEF u
  <2>4. Finish(p, t) \in MessageProcess
    BY MessageFinish
  <2> QED
    BY <1>1, <2>1, <2>2, <2>3, <2>4, MessageWait
<1>7. CASE Finally(t)
  <2> DEFINE u == [p EXCEPT !.status[t] = "RUN"]
  <2>1. p' = [u EXCEPT !.inside[t] = FALSE]
    BY <1>7 DEF Finally, MessageProcess
  <2>2. u \in MessageProcess
    BY MessageField
  <2> HIDE DEF u
  <2> QED
    BY <2>1, <2>2, MessageField
<1>8. CASE End(t)
  <2> DEFINE u    == [p EXCEPT !.status[t] = "END"]
             gone == DropBlockedFor(u, t)
  <2>1. p' = IF gone.run_enq[t] THEN DropRun(gone, t) ELSE gone
    BY <1>8 DEF End
  <2>2. u \in MessageProcess
    BY MessageField
  <2>3. p'.run_q \in Seq(Threads) /\ p'.blocked_q \in Seq(Threads)
    BY DEF QueueInv, Good, IsProcess
  <2> HIDE DEF u
  <2>4. DOMAIN gone = DOMAIN u
    BY DEF DropBlockedFor, DropBlocked
  <2>5. "blocked_q" \in DOMAIN u
    BY <2>2 DEF MessageProcess
  <2>6. gone = u \/ gone = DropBlocked(u, t)
    BY DEF DropBlockedFor
  <2> HIDE DEF gone
  <2>7. DropRun(gone, t).blocked_q = gone.blocked_q
    BY <2>4, <2>5 DEF DropRun
  <2>8. gone.blocked_q \in Seq(Threads)
    BY <2>1, <2>3, <2>7
  <2>9. gone \in MessageProcess
    BY <2>2, <2>6, <2>8, MessageDrop
  <2> QED
    BY <2>1, <2>3, <2>9, MessageDrop
<1>9. ASSUME NEW u \in Threads, Call(t, u) PROVE p' \in MessageProcess
  <2> DEFINE r == Ready(EnqueueRun(p, u), t)
  <2>1. p' = [r EXCEPT !.running = NoThread]
    BY <1>9 DEF Call
  <2>2. r \in MessageProcess
    BY MessageEnqueueRun, MessageReady
  <2> HIDE DEF r
  <2> QED
    BY <2>1, <2>2, MessageField
<1> QED
  BY <1>3, <1>4, <1>5, <1>6, <1>7, <1>8, <1>9

LEMMA MessageRetry ==
  ASSUME QueueInv, QueueInv', p \in MessageProcess, NEW t \in Threads, RetrySocket(t)
  PROVE  p' \in MessageProcess
<1>1. PICK readable \in BOOLEAN, writable \in BOOLEAN :
        LET polled == [p EXCEPT !.rx[t].blocked = @ /\ ~ (readable /\ Source[t] = FD),
                                !.tx[t].blocked = @ /\ ~ (writable /\ Sink[t] = FD)]
        IN \E got \in Got(polled, t), put \in Put(polled, t) :
             p' = EnqueueRun(DropBlocked(Handler(polled, t, got, put), t), t)
  BY DEF RetrySocket
<1> DEFINE a == [p EXCEPT !.rx[t].blocked = @ /\ ~ (readable /\ Source[t] = FD),
                          !.tx[t].blocked = @ /\ ~ (writable /\ Sink[t] = FD)]
<1>2. PICK got \in Got(a, t), put \in Put(a, t) :
        p' = EnqueueRun(DropBlocked(Handler(a, t, got, put), t), t)
  BY <1>1
<1>3. a \in MessageProcess /\ a.op = p.op
  <2> DEFINE b == p.rx[t].blocked /\ ~ (readable /\ Source[t] = FD)
             c == p.tx[t].blocked /\ ~ (writable /\ Sink[t] = FD)
             g == [p.rx[t] EXCEPT !.blocked = b]
             h == [p.tx[t] EXCEPT !.blocked = c]
             u == [p EXCEPT !.rx[t] = g]
  <2>1. b \in BOOLEAN /\ c \in BOOLEAN /\ p.rx[t] \in MessageRing /\ p.tx[t] \in MessageRing
    BY MessageRings
  <2>2. a = [u EXCEPT !.tx[t] = h]
    <3>1. "blocked" \in DOMAIN p.rx[t] /\ "blocked" \in DOMAIN p.tx[t]
      BY <2>1 DEF MessageRing
    <3> QED
      BY <3>1 DEF MessageProcess
  <2>3. [u EXCEPT !.tx[t] = h].op = p.op
    BY DEF MessageProcess
  <2> HIDE DEF b, c, a
  <2>4. g \in MessageRing /\ h \in MessageRing
    BY <2>1 DEF MessageRing
  <2> HIDE DEF g, h
  <2>5. u \in MessageProcess
    BY <2>4, MessageField
  <2> HIDE DEF u
  <2> QED
    BY <2>2, <2>3, <2>4, <2>5, MessageField
<1> HIDE DEF a
<1> DEFINE b == Handler(a, t, got, put)
           c == DropBlocked(b, t)
<1>4. b \in MessageProcess
  <2>1. Room(a.rx[t]) \in Nat /\ Len(a.tx[t].data) \in Nat
    BY <1>3, MessageRings, MessageIsRing
  <2>2. Says(a, t, got, put)
    BY <1>2, <2>1 DEF Says, Got, Put, EAGAIN
  <2>3. a.op[t] = "HUP" => Sink[t] # FD
    BY <1>3 DEF QueueInv
  <2> QED
    BY <1>3, <2>2, <2>3, MessageHandler
<1>5. p' = EnqueueRun(c, t)
  BY <1>2
<1> HIDE DEF b
<1>6. DOMAIN c = DOMAIN b
  BY DEF DropBlocked
<1>7. {"blocked_q", "status", "run", "run_q", "run_enq"} \subseteq DOMAIN b
  BY <1>4 DEF MessageProcess
<1> HIDE DEF c
<1>8. p'.blocked_q = c.blocked_q
  <2>1. DOMAIN Ready(c, t) = DOMAIN c /\ Ready(c, t).blocked_q = c.blocked_q
    BY <1>6, <1>7 DEF Ready
  <2> QED
    BY <1>5, <1>6, <1>7, <2>1 DEF EnqueueRun
<1>9. c \in MessageProcess
  <2>1. c.blocked_q \in Seq(Threads)
    BY <1>8 DEF QueueInv, Good, IsProcess
  <2> QED
    BY <1>4, <2>1, MessageDrop DEF c
<1> QED
  BY <1>5, <1>9, MessageEnqueueRun

LEMMA MessageNext ==
  ASSUME QueueInv, QueueInv', p \in MessageProcess, [Next]_vars
  PROVE  p' \in MessageProcess
<1>1. CASE UNCHANGED vars
  BY <1>1 DEF vars
<1>2. CASE Dispatch
  <2> DEFINE x == Head(p.run_q)
             q == Tail(p.run_q)
             e == [p.run_enq EXCEPT ![x] = FALSE]
             b == IF q = << >> THEN FALSE ELSE p.run
             d == DequeueRun(p)
  <2>1. p' = [d EXCEPT !.running = x] /\ p.run_q # << >> /\ p.run_q \in Seq(Threads)
    BY <1>2 DEF Dispatch, MessageProcess
  <2>2. x \in Threads /\ q \in Seq(Threads)
    BY <2>1
  <2>3. d = [p EXCEPT !.run_q = q, !.run_enq[x] = FALSE, !.run = b]
    BY DEF DequeueRun
  <2> HIDE DEF x, q
  <2>4. e \in [Threads -> BOOLEAN] /\ p.run \in BOOLEAN
    BY <2>2, MessageMarks
  <2>5. b \in BOOLEAN
    BY <2>4
  <2> HIDE DEF b, d
  <2>6. d = [p EXCEPT !.run_q = q, !.run_enq = e, !.run = b]
    BY <2>3 DEF MessageProcess
  <2> HIDE DEF e
  <2>7. [p EXCEPT !.run_q = q, !.run_enq = e, !.run = b] \in MessageProcess
    BY <2>2, <2>4, <2>5, MessageQueues
  <2>8. d \in MessageProcess
    BY <2>6, <2>7
  <2> QED
    BY <2>1, <2>2, <2>8, MessageField
<1>3. CASE ExecuteReturns \/ Poll \/ PostpollReturns \/ Free
  BY <1>3 DEF ExecuteReturns, Poll, PostpollReturns, Free
<1>4. ASSUME NEW t \in Threads, Leave(t) PROVE p' \in MessageProcess
  BY <1>4, MessageField DEF Leave
<1>5. ASSUME NEW t \in Threads, RetrySocket(t) PROVE p' \in MessageProcess
  BY <1>5, MessageRetry
<1>6. ASSUME NEW t \in Threads, Begins(t) PROVE p' \in MessageProcess
  BY <1>6, MessageBegin
<1>7. ASSUME NEW t \in Threads, Runs(t) PROVE p' \in MessageProcess
  BY <1>7, MessageTurn, MessageRun DEF Runs
<1>8. ASSUME NEW t \in Threads, FdEnds(t) PROVE p' \in MessageProcess
  BY <1>8 DEF FdEnds
<1> QED
  BY <1>1, <1>2, <1>3, <1>4, <1>5, <1>6, <1>7, <1>8 DEF Next, System

LEMMA MessageInit ==
  ASSUME Init, QueueInv
  PROVE  p \in MessageProcess
<1>1. PICK q \in [1 .. Cardinality(Threads) -> Threads] : p = NewProcess(q)
  BY DEF Init, Starts
<1>2. q \in Seq(Threads)
  BY <1>1, PipeAssumption, FS_CardinalityType
<1>3. EmptyRing \in MessageRing
  <2>1. << >> \in Seq(Message) /\ Len(<< >>) <= BufLen
    BY BufLenAssumption
  <2> QED
    BY <2>1 DEF EmptyRing, MessageRing
<1>4. 0 \in 0 .. MaxLen
  BY BufLenAssumption
<1>5. [t \in Threads |-> \E i \in DOMAIN q : q[i] = t] \in [Threads -> BOOLEAN]
  OBVIOUS
<1>6. << >> \in Seq(Threads)
  OBVIOUS
<1> QED
  BY <1>1, <1>2, <1>3, <1>4, <1>5, <1>6 DEF NewProcess, MessageProcess

\* A ring of bytes of messages is one of the type.
LEMMA MessageTyped ==
  ASSUME NEW s \in MessageProcess
  PROVE  s \in Process
<1>1. MessageRing \subseteq Ring
  <2>1. ASSUME NEW g \in MessageRing PROVE g \in Ring
    <3>1. /\ g \in [data : Seq(Message), eof : BOOLEAN, effect : BOOLEAN, blocked : BOOLEAN]
          /\ g.data \in Seq(Message) /\ Len(g.data) <= BufLen
      BY DEF MessageRing
    <3>2. Len(g.data) \in 0 .. BufLen /\ g.data \in [1 .. Len(g.data) -> Message]
      BY <3>1, BufLenAssumption
    <3>3. g.data \in UNION {[1 .. n -> Message] : n \in 0 .. BufLen}
      BY <3>2
    <3> QED
      BY <3>1, <3>3 DEF Ring
  <2> QED
    BY <2>1
<1> QED
  BY <1>1 DEF MessageProcess, Process

\* Every part of the process stays in its range, and no ring holds more than
\* its buffer does.
THEOREM TypeOKHolds == Spec => []TypeOK
<1>1. Init => QueueInv /\ p \in MessageProcess
  BY InitKeeps, MessageInit
<1>2. QueueInv /\ p \in MessageProcess /\ [Next]_vars => (QueueInv /\ p \in MessageProcess)'
  BY NextKeeps, MessageNext DEF Keeps
<1>3. QueueInv /\ p \in MessageProcess => TypeOK
  BY MessageTyped DEF QueueInv, TypeOK
<1> QED
  BY <1>1, <1>2, <1>3, PTL DEF Spec

=============================================================================
