---------------------------- MODULE EpollProofs -----------------------------
(***************************************************************************)
(* For every pool of processes and every descriptor table: the event loop  *)
(* over epoll dispatches nothing that was freed, loses no edge, and with   *)
(* edge-triggered registrations is never refused one.                      *)
(*                                                                         *)
(* The argument.  What epoll has registered is allocated or a zombie, so   *)
(* that a report concerns a live process or is cleaned away.  Then as in   *)
(* KernProofs, with what epoll watches taking the place of a dirty         *)
(* descriptor: what a process is blocked on was not ready when it tried,   *)
(* and what became ready since is in epoll's list until its process is     *)
(* roused.  A descriptor that accept() returns was closed, so that epoll   *)
(* has forgotten it when its added flag is reset.                          *)
(***************************************************************************)
EXTENDS KernProofs, Epoll, FiniteSetTheorems

----------------------------------------------------------------------------
(* The list of epoll *)

\* A list of descriptors without duplicates.
List(q) == q \in Seq(FDs) /\ Once(q)

LEMMA WaitingIn ==
  ASSUME queue \in Seq(FDs)
  PROVE  \A f : Waiting(f) <=> In(queue, f)
BY DEF Waiting, In

(* What enters the list is in it once. *)
LEMMA QueuedIs ==
  ASSUME List(queue), NEW S \in SUBSET FDs, NEW q \in Queued(S)
  PROVE  List(q) /\ \A f \in FDs : In(q, f) <=> In(queue, f) \/ f \in S
<1> DEFINE T == {f \in S : ~ Waiting(f)}
           n == Cardinality(T)
<1>1. PICK s \in Orders(T) : q = queue \o s
  BY DEF Queued
<1>2. IsFiniteSet(T)
  BY EpollAssumption, FS_Subset
<1>3. n \in Nat
  BY <1>2, FS_CardinalityType
<1>4. T \subseteq FDs /\ \A f \in S : f \notin T <=> In(queue, f)
  BY WaitingIn DEF List
<1> HIDE DEF T, n
<1>5. /\ s \in [1 .. n -> T]
      /\ \A i, j \in 1 .. n : s[i] = s[j] => i = j
      /\ \A f \in T : \E i \in 1 .. n : s[i] = f
  BY <1>1 DEF Orders, Bijection, Injection, IsInjective, Surjection, n
<1>6. s \in Seq(FDs) /\ Len(s) = n
  <2>1. s \in [1 .. n -> FDs]
    BY <1>4, <1>5
  <2> QED
    BY <1>3, <2>1
<1> DEFINE m == Len(queue)
<1>7. /\ m \in Nat /\ Len(q) = m + n /\ q \in Seq(FDs)
      /\ \A i \in 1 .. m : q[i] = queue[i]
      /\ \A i \in 1 .. n : q[m + i] = s[i]
  <2>1. queue \in Seq(FDs)
    BY DEF List
  <2>2. m \in Nat /\ Len(q) = m + Len(s) /\ q \in Seq(FDs)
    <3>1. q = queue \o s /\ s \in Seq(FDs)
      BY <1>1, <1>6
    <3>2. m \in Nat
      BY <2>1
    <3>3. Len(q) = m + Len(s)
      BY <2>1, <3>1
    <3>4. q \in Seq(FDs)
      BY <2>1, <3>1
    <3> QED
      BY <3>2, <3>3, <3>4
  <2>3. \A i \in 1 .. m : q[i] = queue[i]
    BY <1>1, <1>6, <2>1
  <2>4. \A i \in 1 .. Len(s) : q[m + i] = s[i]
    BY <1>1, <1>6, <2>1
  <2> QED
    BY <1>6, <2>2, <2>3, <2>4
<1>8. \A i \in 1 .. Len(q) : i \in 1 .. m \/ (i - m \in 1 .. n /\ q[i] = s[i - m])
  <2> SUFFICES ASSUME NEW i \in 1 .. Len(q), i \notin 1 .. m
               PROVE  i - m \in 1 .. n /\ q[i] = s[i - m]
    OBVIOUS
  <2>1. i - m \in 1 .. n /\ m + (i - m) = i
    BY <1>3, <1>7
  <2> QED
    BY <1>7, <2>1
<1>9. \A i \in 1 .. n : m + i \in 1 .. Len(q)
  BY <1>3, <1>7
<1>10. \A i \in 1 .. m : i \in 1 .. Len(q)
  BY <1>3, <1>7
<1> HIDE DEF m
<1>11. ASSUME NEW i \in 1 .. m, NEW j \in 1 .. n PROVE queue[i] # s[j]
  <2>1. s[j] \in T /\ s[j] \in S
    BY <1>5 DEF T
  <2>2. ~ In(queue, s[j])
    BY <1>4, <2>1
  <2> QED
    BY <2>2 DEF In, m
<1>12. Once(q)
  <2> SUFFICES ASSUME NEW i \in 1 .. Len(q), NEW j \in 1 .. Len(q), q[i] = q[j] PROVE i = j
    BY DEF Once
  <2>1. CASE i \in 1 .. m /\ j \in 1 .. m
    BY <1>7, <2>1 DEF List, Once, m
  <2>2. CASE i \notin 1 .. m /\ j \notin 1 .. m
    <3>1. i - m = j - m
      BY <1>5, <1>8, <2>2
    <3> QED
      BY <1>7, <3>1
  <2>3. CASE i \in 1 .. m /\ j \notin 1 .. m
    BY <1>7, <1>8, <1>11, <2>3
  <2>4. CASE i \notin 1 .. m /\ j \in 1 .. m
    BY <1>7, <1>8, <1>11, <2>4
  <2> QED
    BY <2>1, <2>2, <2>3, <2>4
<1>13. ASSUME NEW f \in FDs, In(q, f) PROVE In(queue, f) \/ f \in S
  <2>1. PICK i \in 1 .. Len(q) : q[i] = f
    BY <1>13 DEF In
  <2>2. CASE i \in 1 .. m
    BY <1>7, <2>1, <2>2 DEF In, m
  <2>3. CASE i \notin 1 .. m
    <3>1. f \in T
      BY <1>5, <1>8, <2>1, <2>3
    <3> QED
      BY <3>1 DEF T
  <2> QED
    BY <2>2, <2>3
<1>14. ASSUME NEW f \in FDs, In(queue, f) PROVE In(q, f)
  BY <1>7, <1>10, <1>14 DEF In, m
<1>15. ASSUME NEW f \in S PROVE In(q, f)
  <2>1. CASE f \in T
    <3>1. PICK i \in 1 .. n : s[i] = f
      BY <1>5, <2>1
    <3> QED
      BY <1>7, <1>9, <3>1 DEF In
  <2>2. CASE f \notin T
    BY <1>4, <1>14, <2>2
  <2> QED
    BY <2>1, <2>2
<1> QED
  BY <1>7, <1>12, <1>13, <1>14, <1>15 DEF List

(* What leaves the list is in it no more. *)
LEMMA UnqueuedIs ==
  ASSUME List(queue), NEW f, NEW q, q = Unqueued(f)
  PROVE  List(q) /\ \A g \in FDs : In(q, g) <=> In(queue, g) /\ g # f
<1>1. CASE ~ Waiting(f)
  <2>1. q = queue /\ ~ In(queue, f)
    BY <1>1, WaitingIn DEF Unqueued, List
  <2> QED
    BY <2>1
<1>2. CASE Waiting(f)
  <2> DEFINE i == CHOOSE j \in DOMAIN queue : queue[j] = f
             m == Len(queue)
  <2>1. i \in 1 .. m /\ queue[i] = f /\ m \in Nat /\ queue \in Seq(FDs)
    BY <1>2 DEF Waiting, List
  <2>2. q = [j \in 1 .. m - 1 |-> IF j < i THEN queue[j] ELSE queue[j + 1]]
    BY <1>2 DEF Unqueued
  <2> HIDE DEF i
  <2>3. q \in Seq(FDs) /\ Len(q) = m - 1
    BY <2>1, <2>2
  <2>4. \A j \in 1 .. Len(q) : q[j] = IF j < i THEN queue[j] ELSE queue[j + 1]
    BY <2>2, <2>3
  <2> HIDE DEF m
  <2> DEFINE At(j) == IF j < i THEN j ELSE j + 1
  <2>5. \A j \in 1 .. Len(q) : At(j) \in 1 .. m /\ At(j) # i /\ q[j] = queue[At(j)]
    BY <2>1, <2>3, <2>4
  <2>6. \A j, h \in 1 .. Len(q) : At(j) = At(h) => j = h
    BY <2>1, <2>3
  <2>7. \A h \in 1 .. m : h # i => \E j \in 1 .. Len(q) : At(j) = h
    <3> SUFFICES ASSUME NEW h \in 1 .. m, h # i PROVE \E j \in 1 .. Len(q) : At(j) = h
      OBVIOUS
    <3>1. CASE h < i
      <4>1. h \in 1 .. Len(q) /\ At(h) = h
        BY <2>1, <2>3, <3>1
      <4> QED
        BY <4>1
    <3>2. CASE ~ (h < i)
      <4>1. h - 1 \in 1 .. Len(q) /\ At(h - 1) = h
        BY <2>1, <2>3, <3>2
      <4> QED
        BY <4>1
    <3> QED
      BY <3>1, <3>2
  <2> HIDE DEF At
  <2>8. \A h \in 1 .. m : queue[h] = f => h = i
    BY <2>1 DEF List, Once, m
  <2>9. Once(q)
    BY <2>5, <2>6 DEF List, Once, m
  <2>10. ASSUME NEW g \in FDs, In(q, g) PROVE In(queue, g) /\ g # f
    <3>1. PICK j \in 1 .. Len(q) : q[j] = g
      BY <2>10 DEF In
    <3> QED
      BY <2>5, <2>8, <3>1 DEF In, m
  <2>11. ASSUME NEW g \in FDs, In(queue, g), g # f PROVE In(q, g)
    <3>1. PICK h \in 1 .. m : queue[h] = g
      BY <2>11 DEF In, m
    <3>2. h # i
      BY <2>1, <2>11, <3>1
    <3>3. PICK j \in 1 .. Len(q) : At(j) = h
      BY <2>7, <3>2
    <3> QED
      BY <2>5, <3>1, <3>3 DEF In
  <2> QED
    BY <2>3, <2>9, <2>10, <2>11 DEF List
<1> QED
  BY <1>1, <1>2

(* What epoll_wait has not looked at stays in the list. *)
LEMMA LookedIs ==
  ASSUME List(queue), NEW n \in 1 .. Len(queue), NEW q, q = SubSeq(queue, n + 1, Len(queue))
  PROVE  /\ List(q) /\ \A f \in FDs : In(q, f) => In(queue, f)
         /\ \A f \in FDs : In(queue, f) => In(q, f) \/ \E i \in 1 .. n : queue[i] = f
<1> DEFINE m == Len(queue)
<1>1. queue \in Seq(FDs) /\ m \in Nat /\ n \in Nat /\ n <= m /\ n >= 1
  BY DEF List
<1>2. q \in Seq(FDs) /\ Len(q) = m - n
  BY <1>1
<1>3. \A j \in 1 .. Len(q) : q[j] = queue[n + j]
  BY <1>1, <1>2
<1> HIDE DEF m
<1>4. \A j \in 1 .. Len(q) : n + j \in 1 .. m
  BY <1>1, <1>2
<1>5. Once(q)
  <2> SUFFICES ASSUME NEW i \in 1 .. Len(q), NEW j \in 1 .. Len(q), q[i] = q[j] PROVE i = j
    BY DEF Once
  <2>1. n + i = n + j
    BY <1>3, <1>4 DEF List, Once, m
  <2> QED
    BY <1>1, <1>2, <2>1
<1>6. \A f \in FDs : In(q, f) => In(queue, f)
  BY <1>3, <1>4 DEF In, m
<1>7. ASSUME NEW f \in FDs, In(queue, f), ~ \E i \in 1 .. n : queue[i] = f PROVE In(q, f)
  <2>1. PICK h \in 1 .. m : queue[h] = f
    BY <1>7 DEF In, m
  <2>2. h \notin 1 .. n
    BY <1>7, <2>1
  <2>3. h - n \in 1 .. Len(q) /\ n + (h - n) = h
    BY <1>1, <1>2, <2>2
  <2> QED
    BY <1>3, <2>1, <2>3 DEF In
<1> QED
  BY <1>2, <1>5, <1>6, <1>7 DEF List

----------------------------------------------------------------------------
(* The descriptor table *)

\* f belongs to a process, or did when it was freed.
Held(t, f) == t.fd[f].allocated \/ t.fd[f].zombie

\* r has what t holds.
Holds(t, r) ==
  r \in TableType /\ r.polled = t.polled /\ \A f \in FDs : Held(t, f) => Held(r, f)

(* A registered descriptor is allocated, whoever had it. *)
LEMMA PrepollFdHolds ==
  ASSUME NEW t \in TableType, NEW f \in FDs, NEW ev \in SUBSET Events, NEW p \in Procs,
         NEW r, r = PrepollBlockedFd(t, f, ev, p)
  PROVE  Holds(t, r)
<1> DEFINE a == Allocate(t, f, p)
           b == [a EXCEPT !.fd[f] = [@ EXCEPT !.events = ev, !.shut = FALSE]]
<1>1. /\ a \in TableType /\ a.polled = t.polled
      /\ (\A g \in FDs \ {f} : a.fd[g] = t.fd[g]) /\ a.fd[f].allocated
  <2>1. CASE t.fd[f].allocated
    BY <2>1 DEF Allocate
  <2>2. CASE ~ t.fd[f].allocated
    BY <2>2, ZenonT(40) DEF Allocate, TableType, Descriptor
  <2> QED
    BY <2>1, <2>2
<1> HIDE DEF a
<1>2. /\ b \in TableType /\ b.polled = t.polled
      /\ (\A g \in FDs \ {f} : b.fd[g] = t.fd[g]) /\ b.fd[f].allocated
  BY <1>1, ZenonT(40) DEF TableType, Descriptor
<1>3. r = IF ev # {} THEN [b EXCEPT !.dirty = @ \cup {f}] ELSE b
  BY DEF PrepollBlockedFd, a
<1> HIDE DEF b
<1>4. r \in TableType /\ r.fd = b.fd /\ r.polled = b.polled
  BY <1>2, <1>3 DEF TableType
<1> QED
  BY <1>2, <1>4 DEF Held, Holds

LEMMA PrepollSocketHolds ==
  ASSUME NEW t \in TableType, NEW b \in Blocked, NEW p \in Procs,
         NEW r, r = PrepollBlockedSocket(t, b, p)
  PROVE  Holds(t, r)
<1> DEFINE e == IF b.rx # NoFD THEN PrepollBlockedFd(t, b.rx, b.ev \cap {"IN"}, p) ELSE t
           x == b.ev \cap {"IN"}
           y == b.ev \cap {"OUT"}
<1>1. /\ b.rx \in FDs \cup {NoFD} /\ b.tx \in FDs \cup {NoFD}
      /\ x \in SUBSET Events /\ y \in SUBSET Events
  BY DEF Blocked, Events
<1>2. r = IF b.tx # NoFD /\ b.tx # b.rx THEN PrepollBlockedFd(e, b.tx, y, p) ELSE e
  BY DEF PrepollBlockedSocket
<1>3. e = IF b.rx # NoFD THEN PrepollBlockedFd(t, b.rx, x, p) ELSE t
  OBVIOUS
<1> HIDE DEF e, x, y
<1>4. Holds(t, e)
  BY <1>1, <1>3, PrepollFdHolds DEF Holds
<1>5. CASE b.tx # NoFD /\ b.tx # b.rx
  <2>1. PICK f \in FDs : f = b.tx
    BY <1>1, <1>5
  <2>3. y \in SUBSET Events /\ e \in TableType /\ r = PrepollBlockedFd(e, f, y, p)
    BY <1>1, <1>2, <1>4, <1>5, <2>1 DEF Holds
  <2>2. Holds(e, r)
    BY <2>3, PrepollFdHolds
  <2> QED
    BY <1>4, <2>2 DEF Holds
<1>6. CASE ~ (b.tx # NoFD /\ b.tx # b.rx)
  BY <1>2, <1>4, <1>6
<1> QED
  BY <1>5, <1>6

(* A reported descriptor becomes fresh, or leaves the lists with its       *)
(* process; the table changes in nothing else.                             *)
LEMMA ProcessToldIs ==
  ASSUME NEW t \in TableType, NEW told \in SUBSET FDs, NEW u, u = ProcessTold(t, told)
  PROVE  /\ u \in TableType /\ u.polled = t.polled /\ u.dirty \subseteq t.dirty
         /\ u.fresh \subseteq t.fresh \cup {f \in told : ~ t.fd[f].zombie}
         /\ {f \in told : ~ t.fd[f].zombie} \subseteq u.fresh
         /\ \A f \in FDs : ~ t.fd[f].zombie => u.fd[f] = t.fd[f]
         /\ \A f \in FDs : /\ u.fd[f].allocated = t.fd[f].allocated
                            /\ u.fd[f].zombie = t.fd[f].zombie
                            /\ u.fd[f].shut = t.fd[f].shut
                            /\ u.fd[f].proc_id = t.fd[f].proc_id
<1> DEFINE dead == {f \in told : t.fd[f].zombie}
           c == [f \in FDs |-> IF f \in dead THEN [t.fd[f] EXCEPT !.closed = TRUE] ELSE t.fd[f]]
           n == EnqueueFresh(t, told)
<1>1. t.fd \in [FDs -> Descriptor] /\ dead \subseteq FDs
  BY DEF TableType
<1>2. /\ n.fd = t.fd /\ n.dirty = t.dirty /\ n.polled = t.polled
      /\ n.fresh = t.fresh \cup told /\ n \in TableType
  BY DEF EnqueueFresh, TableType
<1>3. u = [DropFresh(DropDirty(n, dead), dead) EXCEPT !.fd = c]
  BY <1>2 DEF ProcessTold, Clean
<1>4. /\ \A f \in dead : /\ c[f] \in Descriptor /\ c[f].allocated = t.fd[f].allocated
                          /\ c[f].zombie = t.fd[f].zombie /\ c[f].shut = t.fd[f].shut
                          /\ c[f].proc_id = t.fd[f].proc_id
      /\ \A f \in FDs \ dead : c[f] = t.fd[f]
  BY <1>1 DEF Descriptor
<1>5. c \in [FDs -> Descriptor] /\ \A f \in dead : t.fd[f].zombie
  BY <1>1, <1>4
<1>6. \A f \in told : f \in dead <=> t.fd[f].zombie
  OBVIOUS
<1> HIDE DEF c, dead, n
<1>7. /\ u.fd = c /\ u.dirty = t.dirty \ dead /\ u.fresh = (t.fresh \cup told) \ dead
      /\ u.polled = t.polled
  BY <1>2, <1>3 DEF DropFresh, DropDirty, TableType
<1>8. u \in TableType
  <2> DEFINE d == DropDirty(n, dead)
             v == DropFresh(d, dead)
  <2>1. d \in TableType
    BY <1>2 DEF DropDirty, TableType
  <2> HIDE DEF d
  <2>2. v \in TableType
    BY <2>1 DEF DropFresh, TableType
  <2>3. u = [v EXCEPT !.fd = c]
    BY <1>3 DEF d
  <2> HIDE DEF v
  <2> QED
    BY <1>5, <2>2, <2>3 DEF TableType
<1>9. {f \in told : ~ t.fd[f].zombie} \subseteq u.fresh
  BY <1>6, <1>7, <1>5
<1>10. u.fresh \subseteq t.fresh \cup {f \in told : ~ t.fd[f].zombie}
  BY <1>6, <1>7
<1> QED
  BY <1>4, <1>5, <1>7, <1>8, <1>9, <1>10

----------------------------------------------------------------------------
(* What epoll knows *)

\* What is registered is open and held, what is listed is registered, and
\* there is nothing left to register when the loop waits.
SysInv ==
  /\ method \in {"EDGE", "ONESHOT"}
  /\ table.polled = {} /\ (phase = "wait" => table.dirty = {})
  /\ Registered \subseteq open /\ \A f \in Registered : Held(table, f)
  /\ List(queue) /\ \A f \in FDs : In(queue, f) => f \in Registered

(* It holds when the loop starts. *)
LEMMA InitSys == EpollInit => SysInv
<1> SUFFICES ASSUME EpollInit PROVE SysInv
  OBVIOUS
<1>1. method \in {"EDGE", "ONESHOT"}
  BY EpollAssumption DEF EpollInit
<1>2. table.polled = {} /\ phase # "wait"
  BY DEF EpollInit, Init
<1>3. Registered = {}
  BY DEF EpollInit, Registered
<1>4. List(queue) /\ \A f \in FDs : ~ In(queue, f)
  BY DEF EpollInit, List, Once, In
<1> QED
  BY <1>1, <1>2, <1>3, <1>4 DEF SysInv

\* The steps Epoll has in common with Kern.
KernStep ==
  Postpoll \/ DispatchReturns \/ ExecuteReturns \/ PrepollSocket \/ Close \/ Accept \/ AcceptFails

(* They lose no held descriptor, and do not wait. *)
LEMMA StepHolds ==
  ASSUME IInv, KernStep
  PROVE  /\ phase' # "wait" /\ table'.polled = table.polled
         /\ \A f \in FDs : Held(table, f) => Held(table', f)
<1>1. table \in TableType /\ k \in KernType /\ TableInv(table, k.proc)
  BY DEF IInv, TableInv, QueueInv
<1>2. CASE PostpollFresh
  <2>1. PICK f \in table.fresh : table' = [table EXCEPT !.fresh = @ \ {f}]
    BY <1>2 DEF PostpollFresh
  <2>2. table'.fd = table.fd /\ table'.polled = table.polled
    BY <1>1, <2>1 DEF TableType
  <2> QED
    BY <1>2, <2>2 DEF Held, PostpollFresh
<1>3. CASE UNCHANGED table /\ phase' # "wait"
  BY <1>3
<1>4. CASE Dispatch \/ PostpollReturns \/ Close \/ Accept \/ AcceptFails
  BY <1>3, <1>4 DEF Dispatch, PostpollReturns, Close, Accept, AcceptFails, Listening
<1>5. CASE ExecuteReturns
  <2>1. cur \in Procs /\ table' = PrepollClosed(table, cur) /\ phase' = "register"
    BY <1>5 DEF ExecuteReturns, IInv, TypeOK
  <2>2. table'.fd = table.fd /\ table'.polled = table.polled
    BY <1>1, <2>1, ClosedIs
  <2> QED
    BY <2>1, <2>2 DEF Held
<1>6. CASE PrepollSocket
  <2>1. /\ cur \in Procs /\ todo \in Seq(Blocked) /\ todo # << >>
        /\ table' = PrepollBlockedSocket(table, Head(todo), cur) /\ phase' = "register"
    BY <1>6 DEF PrepollSocket, IInv, TypeOK
  <2>2. PICK b \in Blocked : b = Head(todo)
    BY <2>1
  <2>3. table' = PrepollBlockedSocket(table, b, cur)
    BY <2>1, <2>2
  <2>4. Holds(table, table')
    BY <1>1, <2>1, <2>3, PrepollSocketHolds
  <2> QED
    BY <2>1, <2>4 DEF Holds
<1>7. CASE DispatchReturns
  <2>1. phase' = "postpoll" /\ table' \in {table, PrepollZombie(table, cur)}
    BY <1>7 DEF DispatchReturns
  <2>2. CASE table' = table
    BY <2>1, <2>2
  <2>3. CASE table' = PrepollZombie(table, cur)
    <3> DEFINE G == AllocatedTo(table, cur)
               e == [f \in FDs |-> IF f \in G
                                   THEN [table.fd[f] EXCEPT !.shut = TRUE, !.zombie = TRUE,
                                                            !.allocated = FALSE]
                                   ELSE table.fd[f]]
    <3>1. table'.fd = e /\ table'.polled = table.polled
      BY <1>1, <2>3 DEF PrepollZombie, TableType
    <3>2. \A f \in FDs : e[f] = table.fd[f] \/ e[f].zombie
      BY <1>1 DEF TableType, Descriptor
    <3> HIDE DEF e
    <3> QED
      BY <2>1, <3>1, <3>2 DEF Held
  <2> QED
    BY <2>1, <2>2, <2>3
<1> QED
  BY <1>2, <1>4, <1>5, <1>6, <1>7 DEF KernStep, Postpoll

(* Of these steps only a close tells epoll anything. *)
LEMMA SysKept ==
  ASSUME IInv, SysInv, KernStep, open \subseteq open', UNCHANGED << method, watch, queue >>
  PROVE  SysInv'
<1>1. /\ phase' # "wait" /\ table'.polled = table.polled
      /\ \A f \in FDs : Held(table, f) => Held(table', f)
  BY StepHolds
<1>2. Registered' = Registered /\ Registered \subseteq FDs
  BY DEF Registered, SysInv, IInv, TypeOK
<1> QED
  BY <1>1, <1>2 DEF SysInv

LEMMA SysCloses ==
  ASSUME IInv, SysInv, Closes
  PROVE  SysInv'
<1>1. PICK f \in open \ open' : /\ watch' = [g \in Registered \ {f} |-> watch[g]]
                                /\ queue' = Unqueued(f)
  BY DEF Closes
<1>2. /\ phase' # "wait" /\ table'.polled = table.polled
      /\ \A g \in FDs : Held(table, g) => Held(table', g)
  BY StepHolds DEF Closes, KernStep
<1>3. Registered' = Registered \ {f} /\ Registered \subseteq FDs
  BY <1>1 DEF Registered, SysInv, IInv, TypeOK
<1>4. open' = open \ {f}
  BY <1>1 DEF Closes, Close
<1>5. List(queue') /\ \A g \in FDs : In(queue', g) <=> In(queue, g) /\ g # f
  BY <1>1, UnqueuedIs DEF SysInv
<1>6. method' = method
  BY DEF Closes
<1> QED
  BY <1>2, <1>3, <1>4, <1>5, <1>6 DEF SysInv

(* What Register leaves: refused, or with nothing dirty. *)
LEMMA RegisterIs ==
  ASSUME IInv, Register
  PROVE  /\ phase = "prepoll" /\ cur = NoProc /\ table.fresh = {}
         /\ UNCHANGED << k, open, cur, todo, looping, signo, shutdown, method, ready >>
         /\ \/ phase' = "done" /\ UNCHANGED << table, added, watch, queue >>
            \/ /\ phase' = "wait" /\ \A f \in ToRegister : ~ Refused(f)
               /\ table' \in TableType /\ table'.fd = table.fd /\ table'.dirty = {}
               /\ table'.fresh = {} /\ table'.polled = table.polled
               /\ added' = added \cup ToRegister
               /\ Registered' = Registered \cup ToRegister
               /\ \A f \in ToRegister : watch'[f] = EventsOf(f)
               /\ \A f \in Registered \ ToRegister : watch'[f] = watch[f]
               /\ queue' \in Queued({f \in ToRegister : Now(f) \cap EventsOf(f) # {}})
<1>1. /\ phase = "prepoll" /\ cur = NoProc /\ table.fresh = {}
      /\ UNCHANGED << k, open, cur, todo, looping, signo, shutdown, method, ready >>
  BY DEF Register, IInv, TypeOK, PhaseInv
<1>2. CASE \E f \in ToRegister : Refused(f)
  BY <1>1, <1>2 DEF Register
<1>3. CASE ~ \E f \in ToRegister : Refused(f)
  <2>1. /\ phase' = "wait" /\ table' = DropDirty(table, table.dirty)
        /\ added' = added \cup ToRegister
        /\ watch' = Watching([f \in ToRegister |-> EventsOf(f)])
        /\ queue' \in Queued({f \in ToRegister : Now(f) \cap EventsOf(f) # {}})
    BY <1>3 DEF Register
  <2>2. /\ table' \in TableType /\ table'.fd = table.fd /\ table'.dirty = {}
        /\ table'.fresh = {} /\ table'.polled = table.polled
    BY <1>1, <2>1 DEF DropDirty, TableType, IInv, TableInv
  <2> DEFINE w == [f \in ToRegister |-> EventsOf(f)]
  <2>3. DOMAIN w = ToRegister /\ \A f \in ToRegister : w[f] = EventsOf(f)
    OBVIOUS
  <2>4. watch' = [f \in Registered \cup DOMAIN w |-> IF f \in DOMAIN w THEN w[f] ELSE watch[f]]
    BY <2>1 DEF Watching
  <2> HIDE DEF w
  <2>5. /\ Registered' = Registered \cup ToRegister
        /\ \A f \in ToRegister : watch'[f] = EventsOf(f)
        /\ \A f \in Registered \ ToRegister : watch'[f] = watch[f]
    BY <2>3, <2>4 DEF Registered
  <2> QED
    BY <1>1, <1>3, <2>1, <2>2, <2>5
<1> QED
  BY <1>2, <1>3

(* What is registered is dirty, hence held, and was not refused.           *)
LEMMA RegisterSound ==
  ASSUME IInv, SysInv, Register
  PROVE  IInv' /\ SysInv'
<1>1. /\ phase = "prepoll" /\ cur = NoProc /\ table.fresh = {}
      /\ UNCHANGED << k, open, cur, todo, looping, signo, shutdown, method, ready >>
  BY RegisterIs
<1>2. CASE phase' = "done" /\ UNCHANGED << table, added, watch, queue >>
  <2>1. IInv'
    BY <1>1, <1>2 DEF IInv, TypeOK, PhaseInv
  <2>2. SysInv'
    BY <1>1, <1>2 DEF SysInv, Registered
  <2> QED
    BY <2>1, <2>2
<1>3. CASE /\ phase' = "wait" /\ \A f \in ToRegister : ~ Refused(f)
           /\ table' \in TableType /\ table'.fd = table.fd /\ table'.dirty = {}
           /\ table'.fresh = {} /\ table'.polled = table.polled
           /\ Registered' = Registered \cup ToRegister
           /\ queue' \in Queued({f \in ToRegister : Now(f) \cap EventsOf(f) # {}})
  <2>1. TableInv(table', k'.proc)
    BY <1>1, <1>3 DEF IInv, TableInv
  <2>2. PhaseInv'
    BY <1>1, <1>3, KernAssumption DEF PhaseInv, SysInv
  <2>3. TypeOK'
    BY <1>1, <1>3 DEF IInv, TypeOK, TableType
  <2>4. IInv'
    BY <1>1, <2>1, <2>2, <2>3 DEF IInv
  <2> DEFINE S == {f \in ToRegister : Now(f) \cap EventsOf(f) # {}}
  <2>5. /\ S \subseteq ToRegister /\ ToRegister \subseteq table.dirty
        /\ table.dirty \subseteq FDs
    BY DEF ToRegister, IInv, TableInv, TableType
  <2>6. queue' \in Queued(S) /\ S \in SUBSET FDs /\ List(queue)
    BY <1>3, <2>5 DEF SysInv
  <2> HIDE DEF S
  <2>7. List(queue') /\ \A f \in FDs : In(queue', f) <=> In(queue, f) \/ f \in S
    BY <2>6, QueuedIs
  <2>8. \A f \in ToRegister : f \in open /\ Held(table, f)
    BY <1>3, <2>5 DEF Refused, IInv, TableInv, Held
  <2>9. SysInv'
    BY <1>1, <1>3, <2>5, <2>7, <2>8 DEF SysInv, Held
  <2> QED
    BY <2>4, <2>9
<1> QED
  BY <1>2, <1>3, RegisterIs

(* What epoll_wait reports is registered. *)
LEMMA ToldIs ==
  ASSUME SysInv, IInv, NEW n \in 1 .. Len(queue), NEW T, T = Told(n)
  PROVE  /\ T \subseteq Registered /\ T \subseteq FDs
         /\ \A f \in FDs : (\E i \in 1 .. n : queue[i] = f) /\ Now(f) \cap watch[f] # {} => f \in T
<1>1. queue \in Seq(FDs) /\ Len(queue) \in Nat
  BY DEF SysInv, List
<1>2. \A i \in 1 .. n : i \in 1 .. Len(queue) /\ queue[i] \in FDs /\ In(queue, queue[i])
  BY <1>1 DEF In
<1>3. \A i \in 1 .. n : queue[i] \in Registered
  BY <1>2 DEF SysInv
<1>4. T = {queue[i] : i \in {j \in 1 .. n : Now(queue[j]) \cap watch[queue[j]] # {}}}
  BY DEF Told
<1> QED
  BY <1>2, <1>3, <1>4

(* What WaitReturns leaves. *)
LEMMA WaitReturnsIs ==
  ASSUME IInv, SysInv, WaitReturns
  PROVE  /\ phase = "wait" /\ phase' = "postpoll" /\ cur = NoProc /\ table.dirty = {}
         /\ table.fresh = {} /\ ReceiveSignal
         /\ UNCHANGED << k, open, cur, todo, looping, method, added, ready >>
         /\ table' \in TableType /\ table'.polled = {} /\ table'.dirty = {}
         /\ \A f \in FDs : ~ table.fd[f].zombie => table'.fd[f] = table.fd[f]
         /\ \A f \in FDs : /\ table'.fd[f].allocated = table.fd[f].allocated
                           /\ table'.fd[f].zombie = table.fd[f].zombie
                           /\ table'.fd[f].shut = table.fd[f].shut
                           /\ table'.fd[f].proc_id = table.fd[f].proc_id
         /\ List(queue') /\ \A f \in FDs : In(queue', f) => In(queue, f)
         /\ Registered' = Registered
         /\ \A f \in table'.fresh : f \in Registered /\ ~ table.fd[f].zombie
         /\ \A f \in Registered :
              ~ table.fd[f].zombie => f \in table'.fresh \/ watch'[f] = watch[f]
         /\ method = "EDGE" => \A f \in Registered : watch'[f] = watch[f]
         /\ \A f \in Registered : watch'[f] \subseteq watch[f]
         /\ \A f \in FDs : /\ In(queue, f) /\ Now(f) \cap watch[f] # {} /\ ~ table.fd[f].zombie
                           => In(queue', f) \/ f \in table'.fresh
<1>1. /\ phase = "wait" /\ phase' = "postpoll" /\ cur = NoProc /\ table.dirty = {}
      /\ table.fresh = {} /\ ReceiveSignal
      /\ UNCHANGED << k, open, cur, todo, looping, method, added, ready >>
  BY DEF WaitReturns, IInv, TypeOK, PhaseInv, SysInv
<1>2. PICK n \in 1 .. Len(queue) :
         /\ table' = ProcessTold(table, Told(n))
         /\ queue' = SubSeq(queue, n + 1, Len(queue))
         /\ watch' = [f \in Registered |->
                        IF f \in Told(n) /\ method = "ONESHOT" THEN {} ELSE watch[f]]
  BY DEF WaitReturns
<1>3. PICK T : T = Told(n)
  OBVIOUS
<1>4. /\ T \subseteq Registered /\ T \subseteq FDs
      /\ \A f \in FDs : (\E i \in 1 .. n : queue[i] = f) /\ Now(f) \cap watch[f] # {} => f \in T
  BY <1>3, ToldIs
<1>5. /\ table' = ProcessTold(table, T) /\ table \in TableType /\ T \in SUBSET FDs
      /\ watch' = [f \in Registered |-> IF f \in T /\ method = "ONESHOT" THEN {} ELSE watch[f]]
  BY <1>2, <1>3, <1>4 DEF IInv, TableInv
<1>6. /\ table' \in TableType /\ table'.polled = table.polled /\ table'.dirty \subseteq table.dirty
      /\ table'.fresh \subseteq table.fresh \cup {f \in T : ~ table.fd[f].zombie}
      /\ {f \in T : ~ table.fd[f].zombie} \subseteq table'.fresh
      /\ \A f \in FDs : ~ table.fd[f].zombie => table'.fd[f] = table.fd[f]
      /\ \A f \in FDs : /\ table'.fd[f].allocated = table.fd[f].allocated
                        /\ table'.fd[f].zombie = table.fd[f].zombie
                        /\ table'.fd[f].shut = table.fd[f].shut
                        /\ table'.fd[f].proc_id = table.fd[f].proc_id
  BY <1>5, ProcessToldIs
<1>7. /\ List(queue') /\ \A f \in FDs : In(queue', f) => In(queue, f)
      /\ \A f \in FDs : In(queue, f) => In(queue', f) \/ \E i \in 1 .. n : queue[i] = f
  BY <1>2, LookedIs DEF SysInv
<1>8. /\ Registered' = Registered
      /\ \A f \in Registered : watch'[f] = IF f \in T /\ method = "ONESHOT" THEN {} ELSE watch[f]
  BY <1>5 DEF Registered
<1>9. \A f \in table'.fresh : f \in Registered /\ ~ table.fd[f].zombie
  BY <1>1, <1>4, <1>6
<1>10. \A f \in Registered : ~ table.fd[f].zombie => f \in table'.fresh \/ watch'[f] = watch[f]
  BY <1>6, <1>8
<1>11. /\ method = "EDGE" => \A f \in Registered : watch'[f] = watch[f]
       /\ \A f \in Registered : watch'[f] \subseteq watch[f]
  BY <1>8
<1>12. \A f \in FDs : In(queue, f) /\ Now(f) \cap watch[f] # {} /\ ~ table.fd[f].zombie
                        => In(queue', f) \/ f \in table'.fresh
  BY <1>4, <1>6, <1>7
<1>13. table'.polled = {} /\ table'.dirty = {}
  BY <1>1, <1>6 DEF SysInv
<1> QED
  BY <1>1, <1>6, <1>7, <1>8, <1>9, <1>10, <1>11, <1>12, <1>13

(* What is told of is held: allocated, or cleaned away. *)
LEMMA WaitReturnsSound ==
  ASSUME IInv, SysInv, WaitReturns
  PROVE  IInv' /\ SysInv'
<1>1. /\ phase = "wait" /\ phase' = "postpoll" /\ cur = NoProc /\ ReceiveSignal
      /\ UNCHANGED << k, open, cur, todo, looping, method, added, ready >>
      /\ table' \in TableType /\ table'.polled = {} /\ table'.dirty = {}
      /\ \A f \in FDs : ~ table.fd[f].zombie => table'.fd[f] = table.fd[f]
      /\ \A f \in FDs : /\ table'.fd[f].allocated = table.fd[f].allocated
                        /\ table'.fd[f].zombie = table.fd[f].zombie
                        /\ table'.fd[f].shut = table.fd[f].shut
                        /\ table'.fd[f].proc_id = table.fd[f].proc_id
      /\ List(queue') /\ \A f \in FDs : In(queue', f) => In(queue, f)
      /\ Registered' = Registered
      /\ \A f \in table'.fresh : f \in Registered /\ ~ table.fd[f].zombie
  BY WaitReturnsIs
<1>2. \A f \in FDs : table.fd[f].allocated =>
         /\ k.proc[table.fd[f].proc_id].alive /\ ~ table.fd[f].zombie /\ ~ table.fd[f].closed
  BY DEF IInv, TableInv
<1>3. \A f \in FDs : table.fd[f].shut => table.fd[f].zombie
  BY DEF IInv, TableInv
<1>4. Registered \subseteq FDs /\ \A f \in Registered : Held(table, f)
  BY DEF SysInv, IInv, TypeOK
<1>5. \A f \in FDs : table'.fd[f].allocated =>
         /\ k'.proc[table'.fd[f].proc_id].alive /\ ~ table'.fd[f].zombie /\ ~ table'.fd[f].closed
  BY <1>1, <1>2
<1>6. \A f \in table'.fresh : table'.fd[f].allocated
  BY <1>1, <1>4 DEF Held
<1>7. TableInv(table', k'.proc)
  BY <1>1, <1>3, <1>5, <1>6 DEF TableInv
<1>8. PhaseInv'
  BY <1>1, KernAssumption DEF PhaseInv
<1>9. TypeOK'
  BY <1>1 DEF IInv, TypeOK, TableType, ReceiveSignal
<1>10. IInv'
  BY <1>1, <1>7, <1>8, <1>9 DEF IInv
<1>11. SysInv'
  BY <1>1, <1>4 DEF SysInv, Held
<1> QED
  BY <1>10, <1>11

(* Every step keeps both. *)
LEMMA NextSys ==
  ASSUME IInv, SysInv, [EpollNext]_<< vars, epvars >>
  PROVE  IInv' /\ SysInv'
<1>1. KernStep => IInv'
  BY NextIInv DEF KernStep, Next, Execute
<1>2. CASE (Around /\ UNCHANGED epvars) \/ Returns \/ Prepolls
  <2>1. KernStep /\ UNCHANGED << method, watch, queue >>
    BY <1>2 DEF Around, epvars, Returns, Prepolls, KernStep
  <2>2. open' = open
    BY <1>2 DEF Around, Postpoll, PostpollFresh, Dispatch, PostpollReturns, DispatchReturns,
               Returns, ExecuteReturns, Prepolls, PrepollSocket
  <2> QED
    BY <1>1, <2>1, <2>2, SysKept
<1>3. CASE Accepts
  <2>1. KernStep /\ UNCHANGED << method, watch, queue >> /\ open \subseteq open'
    BY <1>3 DEF Accepts, KernStep, Accept, AcceptFails
  <2> QED
    BY <1>1, <2>1, SysKept
<1>4. CASE Closes
  <2>1. KernStep
    BY <1>4 DEF Closes, KernStep
  <2> QED
    BY <1>1, <1>4, <2>1, SysCloses
<1>5. CASE Register
  BY <1>5, RegisterSound
<1>6. CASE WaitReturns
  BY <1>6, WaitReturnsSound
<1>7. CASE Drain \/ UNCHANGED << vars, epvars >>
  <2>1. UNCHANGED << vars, method, watch, queue >>
    BY <1>7 DEF Drain, epvars
  <2>2. IInv'
    BY <2>1, NextIInv DEF vars
  <2>3. SysInv'
    BY <2>1 DEF SysInv, vars, Registered
  <2> QED
    BY <2>2, <2>3
<1>8. CASE Arrive
  <2>1. UNCHANGED << vars, method, watch >>
    BY <1>8 DEF Arrive
  <2>2. IInv'
    BY <2>1, NextIInv DEF vars
  <2>3. PICK f \in open, e \in Events :
          queue' \in IF f \in Registered /\ e \in watch[f] THEN Queued({f}) ELSE {queue}
    BY <1>8 DEF Arrive
  <2>4. {f} \in SUBSET FDs /\ List(queue)
    BY DEF IInv, TypeOK, SysInv
  <2>5. CASE f \in Registered /\ e \in watch[f]
    <3>1. queue' \in Queued({f})
      BY <2>3, <2>5
    <3>2. List(queue') /\ \A g \in FDs : In(queue', g) <=> In(queue, g) \/ g \in {f}
      BY <2>4, <3>1, QueuedIs
    <3>3. SysInv'
      BY <2>1, <2>5, <3>2 DEF SysInv, vars, Registered
    <3> QED
      BY <2>2, <3>3
  <2>6. CASE ~ (f \in Registered /\ e \in watch[f])
    <3>1. queue' = queue
      BY <2>3, <2>6
    <3> QED
      BY <2>1, <2>2, <3>1 DEF SysInv, vars, Registered
  <2> QED
    BY <2>5, <2>6
<1> QED
  BY <1>2, <1>3, <1>4, <1>5, <1>6, <1>7, <1>8 DEF EpollNext, EpollLoop

(* So both are invariants of the loop over epoll. *)
THEOREM EpollInvariant == EpollSpec => [](IInv /\ SysInv)
<1>1. EpollInit => IInv /\ SysInv
  BY InitIInv, InitSys DEF EpollInit
<1>2. (IInv /\ SysInv) /\ [EpollNext]_<< vars, epvars >> => (IInv /\ SysInv)'
  BY NextSys
<1> QED
  BY <1>1, <1>2, PTL DEF EpollSpec

(* With epoll too, edge-triggered or one-shot, nothing that was freed is   *)
(* listed or dispatched, although epoll reports descriptors of processes   *)
(* that are gone.                                                          *)
THEOREM EpollFreedNeverDispatched == EpollSpec => []FreedNeverDispatched
<1>1. IInv => FreedNeverDispatched
  BY KernAssumption DEF IInv, QueueInv, PhaseInv, FreedNeverDispatched, Listed, In
<1> QED
  BY <1>1, EpollInvariant, PTL

----------------------------------------------------------------------------
(* No edge is lost: the inductive invariant *)

\* What epoll watches.
Watches == {x \in FDs \X Events : x[1] \in Registered /\ x[2] \in watch[x[1]]}

\* The descriptor a blocked socket waits on for e.
Side(b, e) == IF e = "IN" THEN b.rx ELSE b.tx

\* With edges, an added descriptor stays watched until it is closed.
EdgeInv ==
  method = "EDGE" =>
    \A f \in FDs : table.fd[f].allocated /\ f \in added /\ f \in open =>
                     f \in Registered /\ watch[f] = Events

\* What is ready and watched will be reported, or p was told.
Noted(p, f, e) ==
  << f, e >> \in ready /\ f \in Registered /\ e \in watch[f] => In(queue, f) \/ Roused(k, table, p)

\* Nothing a process waits for passes unnoticed.
QuietInv ==
  \A p \in Procs : \A i \in 1 .. Len(k.proc[p].blocked) :
    \A e \in k.proc[p].blocked[i].ev : Noted(p, Side(k.proc[p].blocked[i], e), e)

EdgeWaitInv == WaitInv(Watches) /\ EdgeInv /\ QuietInv

LEMMA WatchesAre ==
  ASSUME IInv, SysInv, NEW f, NEW e \in Events
  PROVE  << f, e >> \in Watches <=> f \in Registered /\ e \in watch[f]
<1>1. Registered \subseteq FDs
  BY DEF SysInv, IInv, TypeOK
<1> QED
  BY <1>1 DEF Watches

(* The descriptor a blocked socket waits on is one of its process. *)
LEMMA SideIs ==
  ASSUME NEW p \in Procs, NEW b \in Blocked, Sound(k, p, b), NEW e \in b.ev, NEW f, f = Side(b, e)
  PROVE  /\ f \in FDs /\ f \in Descriptors(Base(k, p)) /\ f \in {b.rx, b.tx} \ {NoFD}
         /\ e \in Events /\ k.proc[p].alive
<1>1. /\ e \in Events /\ SocketOf(b) \in Base(k, p) /\ SocketOf(b)[1] = b.rx /\ SocketOf(b)[2] = b.tx
      /\ k.proc[p].alive
  BY DEF Blocked, Sound, SocketOf
<1>2. f \in FDs /\ f \in {b.rx, b.tx}
  BY <1>1 DEF Side, Sound, Events
<1> QED
  BY <1>1, <1>2, KernAssumption DEF Descriptors

(* The elements of a blocked queue are sound. *)
LEMMA BlockedAre ==
  ASSUME IInv, SocketsInv, NEW p \in Procs, NEW i \in 1 .. Len(k.proc[p].blocked)
  PROVE  k.proc[p].blocked[i] \in Blocked /\ Sound(k, p, k.proc[p].blocked[i])
<1>1. k.proc[p].blocked \in Seq(Blocked)
  BY DEF IInv, QueueInv, KernType, Process
<1> QED
  BY <1>1 DEF SocketsInv, SoundQueue

(* A blocked socket that was served is served by a poller that watches at  *)
(* least what it waits for.                                                *)
LEMMA ServedFor ==
  ASSUME NEW W, NEW V, NEW s, NEW t, NEW x, NEW rest, NEW p, NEW b, Served(s, t, x, rest, p, b, W),
         "IN" \in b.ev /\ << b.rx, "IN" >> \in W => << b.rx, "IN" >> \in V,
         "OUT" \in b.ev /\ << b.tx, "OUT" >> \in W => << b.tx, "OUT" >> \in V
  PROVE  Served(s, t, x, rest, p, b, V)
<1>1. Interest(t, b, W) => Interest(t, b, V)
  BY DEF Interest
<1> QED
  BY <1>1 DEF Served

(* A step of Kern's leaves a process blocked and roused as it was, unless  *)
(* it is the one that returns.                                             *)
LEMMA RousedKept ==
  ASSUME NEW W, IInv, WaitInv(W), KernStep, NEW p \in Procs,
         k'.proc[p].blocked # << >>, ~ (ExecuteReturns /\ p = cur)
  PROVE  /\ k'.proc[p].blocked = k.proc[p].blocked
         /\ Roused(k, table, p) => Roused(k', table', p)
<1>1. CASE PostpollFresh
  <2>1. PICK f \in table.fresh : LET q == table.fd[f].proc_id IN
           /\ SameProcs(k, k')
           /\ ~ k.proc[q].run_qed => In(k'.run_procs, q)
           /\ \A r \in Procs : In(k.run_procs, r) => In(k'.run_procs, r)
           /\ table'.fresh = table.fresh \ {f} /\ table'.fd = table.fd
    BY <1>1, FreshIs
  <2>2. k'.proc[p].blocked = k.proc[p].blocked /\ k.proc[p].blocked # << >>
    BY <2>1 DEF SameProcs
  <2> QED
    BY <2>1, <2>2 DEF Roused, WaitInv, LoopInv
<1>2. CASE Dispatch
  <2>1. /\ k'.proc[cur'].blocked = << >> /\ table.fresh = {} /\ table' = table
        /\ \A r \in Procs \ {cur'} : k'.proc[r] = k.proc[r]
        /\ \A r \in Procs \ {cur'} : In(k.run_procs, r) => In(k'.run_procs, r)
    BY <1>2, DispatchIs
  <2> QED
    BY <2>1 DEF Roused
<1>3. CASE PostpollReturns \/ Close
  BY <1>3 DEF PostpollReturns, Close
<1>4. CASE Accept
  <2>1. PICK f \in Accepted \ open, q \in Procs :
           /\ k'.proc[q].blocked = << >>
           /\ \A r \in Procs \ {q} : Kept(k.proc[r], k'.proc[r])
           /\ k'.run_procs = << q >> \o k.run_procs
    BY <1>4, AcceptIs
  <2>2. k.run_procs \in Seq(Procs) /\ table' = table
    BY <1>4 DEF Accept, IInv, QueueInv, KernType
  <2>3. \A r \in Procs : In(k.run_procs, r) => In(k'.run_procs, r)
    BY <2>1, <2>2, InsertedIn
  <2> QED
    BY <2>1, <2>2, <2>3 DEF Kept, Roused
<1>5. CASE AcceptFails
  <2>1. k' = StopListening(k) /\ k \in KernType /\ table' = table
    BY <1>5 DEF AcceptFails, IInv, QueueInv
  <2>2. k'.run_procs = k.run_procs /\ \A r \in Procs : Kept(k.proc[r], k'.proc[r])
    BY <2>1, StopIs
  <2> QED
    BY <2>1, <2>2 DEF Kept, Roused
<1>6. CASE ExecuteReturns
  <2>1. (\A r \in Procs \ {cur} : k'.proc[r] = k.proc[r]) /\ k'.run_procs = k.run_procs
    BY <1>6, ReturnIs
  <2>2. cur \in Procs /\ table' = PrepollClosed(table, cur) /\ TableInv(table, k.proc)
    BY <1>6 DEF ExecuteReturns, IInv, TypeOK
  <2>3. table'.fd = table.fd /\ table'.fresh = table.fresh
    BY <2>2, ClosedIs
  <2> QED
    BY <1>6, <2>1, <2>3 DEF Roused
<1>7. CASE PrepollSocket
  <2>1. k' = k /\ table.fresh = {}
    BY <1>7 DEF PrepollSocket, IInv, PhaseInv
  <2> QED
    BY <2>1 DEF Roused
<1>8. CASE DispatchReturns
  <2>1. table.fresh = {} /\ k.run_procs \in Seq(Procs) /\ cur \in Procs
    BY <1>8 DEF DispatchReturns, IInv, PhaseInv, QueueInv, KernType, TypeOK
  <2>2. /\ \A r \in Procs \ {cur} : Kept(k.proc[r], k'.proc[r])
        /\ \/ k'.proc[cur] = FreeSlot /\ k'.run_procs = k.run_procs
           \/ /\ k'.proc[cur].blocked = k.proc[cur].blocked
              /\ k'.run_procs = IF k.proc[cur].run THEN << cur >> \o k.run_procs
                                ELSE k.run_procs
    BY <1>8, DoneIs
  <2>3. k'.proc[p].blocked = k.proc[p].blocked
    BY <2>1, <2>2 DEF Kept, FreeSlot
  <2>4. \A r \in Procs : In(k.run_procs, r) => In(k'.run_procs, r)
    BY <2>1, <2>2, InsertedIn
  <2> QED
    BY <2>1, <2>3, <2>4 DEF Roused
<1> QED
  BY <1>1, <1>2, <1>3, <1>4, <1>5, <1>6, <1>7, <1>8 DEF KernStep, Postpoll

(* Only prepoll allocates. *)
LEMMA AllocatedBefore ==
  ASSUME IInv, KernStep, ~ PrepollSocket
  PROVE  \A f \in FDs : table'.fd[f].allocated =>
                          table.fd[f].allocated /\ table'.fd[f] = table.fd[f]
<1>1. table \in TableType /\ TableInv(table, k.proc)
  BY DEF IInv, TableInv
<1>2. CASE PostpollFresh
  <2>1. table'.fd = table.fd
    BY <1>2, FreshIs
  <2> QED
    BY <2>1
<1>3. CASE Dispatch \/ PostpollReturns \/ Close \/ Accept \/ AcceptFails
  BY <1>3 DEF Dispatch, PostpollReturns, Close, Accept, AcceptFails
<1>4. CASE ExecuteReturns
  <2>1. cur \in Procs /\ table' = PrepollClosed(table, cur)
    BY <1>4 DEF ExecuteReturns, IInv, TypeOK
  <2>2. table'.fd = table.fd
    BY <1>1, <2>1, ClosedIs
  <2> QED
    BY <2>2
<1>5. CASE DispatchReturns
  <2>1. cur \in Procs /\ table' \in {table, PrepollZombie(table, cur)}
    BY <1>5 DEF DispatchReturns, IInv, TypeOK
  <2>2. CASE table' = PrepollZombie(table, cur)
    <3>1. /\ \A f \in FDs : ~ (table.fd[f].allocated /\ table.fd[f].proc_id = cur) =>
               table'.fd[f] = table.fd[f]
          /\ \A f \in FDs : table.fd[f].allocated /\ table.fd[f].proc_id = cur =>
               ~ table'.fd[f].allocated
      BY <1>1, <2>1, <2>2, ZombieIs
    <3> QED
      BY <3>1
  <2> QED
    BY <2>1, <2>2
<1> QED
  BY <1>2, <1>3, <1>4, <1>5 DEF KernStep, Postpoll

(* An accepted descriptor is none of a live process. *)
LEMMA AcceptedFree ==
  ASSUME SocketsApart, OwnInv, cur = Main, NEW f \in Accepted \ open,
         NEW r \in Procs, k.proc[r].alive
  PROVE  f \notin Descriptors(Base(k, r))
<1>1. CASE r # Main
  BY <1>1 DEF OwnInv
<1>2. CASE r = Main
  BY <1>2 DEF Base, Descriptors, SocketsApart
<1> QED
  BY <1>1, <1>2

(* Neither is one the executing process closes, but for that process. *)
LEMMA ClosedOwn ==
  ASSUME IInv, OwnInv, Close, NEW f \in open \ open'
  PROVE  /\ open' = open \ {f} /\ f \in FDs /\ cur \in Procs
         /\ f \in Descriptors(k.proc[cur].sockets) /\ f \in Descriptors(Base(k, cur))
         /\ \A r \in Procs : k.proc[r].alive /\ r # cur => f \notin Descriptors(Base(k, r))
<1>1. PICK g \in Descriptors(k.proc[cur].sockets) : open' = open \ {g}
  BY DEF Close
<1>2. g = f /\ f \in FDs
  BY <1>1 DEF IInv, TypeOK
<1>3. cur \in Procs /\ k.proc[cur].alive
  BY KernAssumption DEF Close, IInv, TypeOK, PhaseInv
<1>4. k.proc[cur].sockets \subseteq Base(k, cur)
  BY DEF OwnInv, Base
<1>5. f \in Descriptors(Base(k, cur))
  BY <1>1, <1>2, <1>4 DEF Descriptors
<1> QED
  BY <1>1, <1>2, <1>3, <1>5 DEF OwnInv

----------------------------------------------------------------------------
(* It is kept *)

(* What epoll watches stays the same in a step of Kern's that is no close. *)
LEMMA WatchesKept ==
  ASSUME ~ Lingers, SocketsApart, IInv, IInv', WaitInv(Watches), KernStep, UNCHANGED watch
  PROVE  WaitInv(Watches)'
<1>1. PICK W : W = Watches
  OBVIOUS
<1>2. WaitInv(W)
  BY <1>1
<1>3. [Next]_vars
  BY DEF KernStep, Next, Execute
<1>4. WaitInv(W)'
  BY <1>2, <1>3, NextWait
<1>5. Watches' = W
  BY <1>1 DEF Watches, Registered
<1> QED
  BY <1>4, <1>5 DEF WaitInv, ServedInv

(* Then nothing passes unnoticed, *)
LEMMA QuietKept ==
  ASSUME NEW W, IInv, WaitInv(W), QuietInv, KernStep, ~ ExecuteReturns,
         UNCHANGED << ready, watch, queue >>
  PROVE  QuietInv'
<1> SUFFICES ASSUME NEW p \in Procs, NEW i \in 1 .. Len(k'.proc[p].blocked),
                    NEW e \in k'.proc[p].blocked[i].ev, NEW f, f = Side(k'.proc[p].blocked[i], e)
             PROVE  Noted(p, f, e)'
  BY DEF QuietInv, Noted
<1>1. k'.proc[p].blocked # << >>
  OBVIOUS
<1>2. /\ k'.proc[p].blocked = k.proc[p].blocked
      /\ Roused(k, table, p) => Roused(k', table', p)
  BY <1>1, RousedKept
<1>3. Noted(p, f, e)
  BY <1>2 DEF QuietInv
<1> QED
  BY <1>2, <1>3 DEF Noted, Registered

(* also when a process returns, blocked on what was not ready. *)
LEMMA QuietReturns ==
  ASSUME NEW W, IInv, WaitInv(W), QuietInv, Returns
  PROVE  QuietInv'
<1> SUFFICES ASSUME NEW p \in Procs, NEW i \in 1 .. Len(k'.proc[p].blocked),
                    NEW e \in k'.proc[p].blocked[i].ev, NEW f, f = Side(k'.proc[p].blocked[i], e)
             PROVE  Noted(p, f, e)'
  BY DEF QuietInv, Noted
<1>1. ExecuteReturns /\ UNCHANGED << ready, watch, queue >> /\ KernStep
  BY DEF Returns, epvars, KernStep
<1>2. CASE p = cur
  <2>1. todo' = k'.proc[cur].blocked /\ todo' \in Seq(Blocked)
    BY <1>1, ReturnIs
  <2>2. i \in DOMAIN todo' /\ todo'[i] \in Blocked
    BY <1>2, <2>1
  <2>3. /\ "IN" \in todo'[i].ev => "IN" \notin Now(todo'[i].rx)
        /\ "OUT" \in todo'[i].ev => "OUT" \notin Now(todo'[i].tx)
    BY <2>2 DEF Returns
  <2>4. e \in Events /\ e \in todo'[i].ev
    BY <1>2, <2>1, <2>2 DEF Blocked
  <2>5. << f, e >> \notin ready
    BY <1>2, <2>1, <2>3, <2>4 DEF Now, Side, Events
  <2> QED
    BY <1>1, <2>5 DEF Noted
<1>3. CASE p # cur
  <2>1. k'.proc[p].blocked # << >>
    OBVIOUS
  <2>2. /\ k'.proc[p].blocked = k.proc[p].blocked
        /\ Roused(k, table, p) => Roused(k', table', p)
    BY <1>1, <1>3, <2>1, RousedKept
  <2>3. Noted(p, f, e)
    BY <2>2 DEF QuietInv
  <2> QED
    BY <1>1, <2>2, <2>3 DEF Noted, Registered
<1> QED
  BY <1>2, <1>3

(* The loop between two epoll_wait. *)
LEMMA EdgeAround ==
  ASSUME ~ Lingers, SocketsApart, IInv, IInv', EdgeWaitInv,
         (Around /\ UNCHANGED epvars) \/ Returns \/ Prepolls
  PROVE  EdgeWaitInv'
<1>1. /\ KernStep /\ UNCHANGED << open, method, watch, queue, ready >>
      /\ added' \subseteq added
  BY DEF Around, epvars, Returns, Prepolls, KernStep, Postpoll, PostpollFresh, Dispatch,
         PostpollReturns, DispatchReturns, ExecuteReturns, PrepollSocket
<1>2. WaitInv(Watches)'
  BY <1>1, WatchesKept DEF EdgeWaitInv
<1>3. QuietInv'
  <2>1. PICK W : W = Watches
    OBVIOUS
  <2>2. WaitInv(W) /\ QuietInv
    BY <2>1 DEF EdgeWaitInv
  <2>3. CASE Returns
    BY <2>2, <2>3, QuietReturns
  <2>4. CASE ~ Returns
    <3>1. ~ ExecuteReturns
      BY <2>4 DEF Around, Prepolls, PrepollSocket, Postpoll, PostpollFresh, Dispatch,
                  PostpollReturns, DispatchReturns, ExecuteReturns
    <3> QED
      BY <1>1, <2>2, <3>1, QuietKept
  <2> QED
    BY <2>3, <2>4
<1>4. EdgeInv'
  <2> SUFFICES ASSUME method = "EDGE", NEW f \in FDs, table'.fd[f].allocated, f \in added', f \in open
               PROVE  f \in Registered /\ watch[f] = Events
    BY <1>1 DEF EdgeInv, Registered
  <2>1. table.fd[f].allocated
    <3>1. CASE PrepollSocket
      <4>1. Prepolls
        BY <3>1 DEF Around, Returns, PrepollSocket, Postpoll, PostpollFresh, Dispatch,
                    PostpollReturns, DispatchReturns, ExecuteReturns
      <4> QED
        BY <4>1 DEF Prepolls
    <3>2. CASE ~ PrepollSocket
      BY <1>1, <3>2, AllocatedBefore
    <3> QED
      BY <3>1, <3>2
  <2> QED
    BY <1>1, <2>1 DEF EdgeWaitInv, EdgeInv
<1> QED
  BY <1>2, <1>3, <1>4 DEF EdgeWaitInv

(* Nobody waits on the descriptor that is accepted. *)
LEMMA EdgeAccepts ==
  ASSUME ~ Lingers, SocketsApart, IInv, IInv', EdgeWaitInv, Accepts
  PROVE  EdgeWaitInv'
<1>1. /\ KernStep /\ UNCHANGED << method, added, watch, queue, table >>
      /\ ready' = ready \cup {<< f, "OUT" >> : f \in open' \ open}
      /\ cur = Main /\ ~ ExecuteReturns /\ ~ PrepollSocket
  BY DEF Accepts, KernStep, Accept, AcceptFails, Listening, ExecuteReturns, PrepollSocket
<1>2. PICK g \in Accepted \ open : open' = open \cup {g}
  BY DEF Accepts, Accept, AcceptFails
<1>3. WaitInv(Watches)'
  BY <1>1, WatchesKept DEF EdgeWaitInv
<1>4. OwnInv /\ SocketsInv
  BY DEF EdgeWaitInv, WaitInv
<1>5. \A r \in Procs : k.proc[r].alive => g \notin Descriptors(Base(k, r))
  BY <1>1, <1>4, AcceptedFree
<1>6. QuietInv'
  <2> SUFFICES ASSUME NEW p \in Procs, NEW i \in 1 .. Len(k'.proc[p].blocked),
                      NEW e \in k'.proc[p].blocked[i].ev, NEW f, f = Side(k'.proc[p].blocked[i], e)
               PROVE  Noted(p, f, e)'
    BY DEF QuietInv, Noted
  <2> DEFINE b == k.proc[p].blocked[i]
  <2>1. PICK W : W = Watches
    OBVIOUS
  <2>2. WaitInv(W) /\ k'.proc[p].blocked # << >>
    BY <2>1 DEF EdgeWaitInv
  <2>3. /\ k'.proc[p].blocked = k.proc[p].blocked
        /\ Roused(k, table, p) => Roused(k', table', p)
    BY <1>1, <2>2, RousedKept
  <2>4. Noted(p, f, e) /\ f = Side(b, e) /\ e \in b.ev
    BY <2>3 DEF QuietInv, EdgeWaitInv
  <2>5. b \in Blocked /\ Sound(k, p, b)
    BY <1>4, <2>3, BlockedAre
  <2> HIDE DEF b
  <2>6. f \in Descriptors(Base(k, p)) /\ k.proc[p].alive
    BY <2>4, <2>5, SideIs
  <2>7. f # g
    BY <1>5, <2>6
  <2>8. << f, e >> \in ready' => << f, e >> \in ready
    BY <1>1, <1>2, <2>7
  <2> QED
    BY <1>1, <2>3, <2>4, <2>8 DEF Noted, Registered
<1>7. EdgeInv'
  <2> SUFFICES ASSUME method = "EDGE", NEW f \in FDs, table.fd[f].allocated, f \in added, f \in open'
               PROVE  f \in Registered /\ watch[f] = Events
    BY <1>1 DEF EdgeInv, Registered
  <2>1. table.fd[f].proc_id \in Procs /\ k.proc[table.fd[f].proc_id].alive
    BY DEF IInv, TableInv, TableType, Descriptor
  <2>2. f # g
    BY <1>4, <1>5, <2>1 DEF OwnInv
  <2> QED
    BY <1>2, <2>2 DEF EdgeWaitInv, EdgeInv
<1> QED
  BY <1>3, <1>6, <1>7 DEF EdgeWaitInv

(* Nobody else waits on the descriptor a process closes, and it waits for  *)
(* nothing itself.                                                         *)
LEMMA EdgeCloses ==
  ASSUME IInv, IInv', SysInv, SysInv', EdgeWaitInv, Closes
  PROVE  EdgeWaitInv'
<1>1. PICK g \in open \ open' : /\ watch' = [h \in Registered \ {g} |-> watch[h]]
                                /\ queue' = Unqueued(g) /\ ready' = ready \ ({g} \X Events)
  BY DEF Closes
<1>2. /\ Close /\ phase = "execute" /\ UNCHANGED << method, added >>
      /\ UNCHANGED << k, table, phase, cur, todo, looping, signo, shutdown >>
  BY DEF Closes, Close
<1>3. OwnInv /\ SocketsInv /\ LoopInv
  BY DEF EdgeWaitInv, WaitInv
<1>4. /\ open' = open \ {g} /\ g \in FDs /\ cur \in Procs
      /\ \A r \in Procs : k.proc[r].alive /\ r # cur => g \notin Descriptors(Base(k, r))
  BY <1>2, <1>3, ClosedOwn
<1>5. List(queue') /\ \A h \in FDs : In(queue', h) <=> In(queue, h) /\ h # g
  BY <1>1, UnqueuedIs DEF SysInv
<1>6. Registered' = Registered \ {g} /\ \A h \in Registered \ {g} : watch'[h] = watch[h]
  BY <1>1 DEF Registered
<1>7. ASSUME NEW p \in Procs, NEW i \in 1 .. Len(k.proc[p].blocked),
             NEW e \in k.proc[p].blocked[i].ev, NEW f, f = Side(k.proc[p].blocked[i], e)
      PROVE  f \in FDs /\ f # g /\ e \in Events
  <2>1. k.proc[p].blocked[i] \in Blocked /\ Sound(k, p, k.proc[p].blocked[i])
    BY <1>3, BlockedAre
  <2>2. f \in FDs /\ f \in Descriptors(Base(k, p)) /\ k.proc[p].alive /\ e \in Events
    BY <1>7, <2>1, SideIs
  <2>3. p # cur
    BY <1>2, <1>3 DEF LoopInv
  <2> QED
    BY <1>4, <2>2, <2>3
<1>8. WaitInv(Watches)'
  <2>1. PICK W : W = Watches
    OBVIOUS
  <2>2. WaitInv(W)
    BY <2>1 DEF EdgeWaitInv
  <2>3. WaitInv(W)'
    BY <1>2, <2>2, WaitClose
  <2>4. PICK V : V = Watches'
    OBVIOUS
  <2>5. ASSUME NEW p \in Procs, NEW i \in 1 .. Len(k'.proc[p].blocked)
        PROVE  Served(k', table', cur', todo', p, k'.proc[p].blocked[i], V)
    <3> DEFINE b == k'.proc[p].blocked[i]
    <3>1. Served(k', table', cur', todo', p, b, W)
      BY <2>3 DEF WaitInv, ServedInv
    <3>2. ASSUME NEW e \in b.ev, << Side(b, e), e >> \in W PROVE << Side(b, e), e >> \in V
      <4>1. Side(b, e) \in FDs /\ Side(b, e) # g /\ e \in Events
        BY <1>2, <1>7
      <4>2. Side(b, e) \in Registered /\ e \in watch[Side(b, e)]
        BY <2>1, <3>2, <4>1, WatchesAre
      <4>3. Side(b, e) \in Registered' /\ e \in watch'[Side(b, e)]
        BY <1>6, <4>1, <4>2
      <4> QED
        BY <2>4, <4>1, <4>3 DEF Watches
    <3>3. /\ "IN" \in b.ev /\ << b.rx, "IN" >> \in W => << b.rx, "IN" >> \in V
          /\ "OUT" \in b.ev /\ << b.tx, "OUT" >> \in W => << b.tx, "OUT" >> \in V
      BY <3>2 DEF Side
    <3> HIDE DEF b
    <3>4. Served(k', table', cur', todo', p, b, V)
      BY <3>1, <3>3, ServedFor
    <3> QED
      BY <3>4 DEF b
  <2> QED
    BY <2>3, <2>4, <2>5 DEF WaitInv, ServedInv
<1>9. QuietInv'
  <2> SUFFICES ASSUME NEW p \in Procs, NEW i \in 1 .. Len(k.proc[p].blocked),
                      NEW e \in k.proc[p].blocked[i].ev
               PROVE  Noted(p, Side(k.proc[p].blocked[i], e), e)'
    BY <1>2 DEF QuietInv
  <2>1. PICK f : f = Side(k.proc[p].blocked[i], e)
    OBVIOUS
  <2>2. f \in FDs /\ f # g /\ e \in Events
    BY <1>7, <2>1
  <2>3. Noted(p, f, e)
    BY <2>1 DEF EdgeWaitInv, QuietInv
  <2>4. Noted(p, f, e)'
    BY <1>1, <1>2, <1>5, <1>6, <2>2, <2>3 DEF Noted
  <2> QED
    BY <1>2, <2>1, <2>4 DEF Noted
<1>10. EdgeInv'
  BY <1>2, <1>4, <1>6 DEF EdgeWaitInv, EdgeInv
<1> QED
  BY <1>8, <1>9, <1>10 DEF EdgeWaitInv

(* With nothing to run, a process is served by what is registered for it. *)
LEMMA ServedNow ==
  ASSUME NEW W, IInv, WaitInv(W), phase \in {"prepoll", "wait"},
         NEW p \in Procs, NEW i \in 1 .. Len(k.proc[p].blocked), NEW b, b = k.proc[p].blocked[i]
  PROVE  /\ OwnedBy(table, p, b) /\ Interest(table, b, W) /\ ~ Roused(k, table, p)
         /\ b \in Blocked /\ Sound(k, p, b)
<1>1. cur = NoProc /\ table.fresh = {} /\ k.run_procs = << >> /\ NoProc \notin Procs
  BY KernAssumption DEF IInv, TypeOK, PhaseInv, WaitInv, LoopInv
<1>2. Served(k, table, cur, todo, p, b, W) /\ b \in Blocked /\ Sound(k, p, b)
  BY BlockedAre DEF WaitInv, ServedInv
<1> QED
  BY <1>1, <1>2 DEF Served, Roused, In

(* What is dirty is registered, unless it is watched for all already. *)
LEMMA RegisteredNow ==
  ASSUME IInv, SysInv, WaitInv(Watches), EdgeInv, Register, phase' = "wait", SysInv',
         NEW p \in Procs, NEW i \in 1 .. Len(k.proc[p].blocked), NEW b, b = k.proc[p].blocked[i],
         NEW e \in b.ev, NEW f, f = Side(b, e), e = "OUT" => b.tx # b.rx
  PROVE  f \in Registered' /\ e \in watch'[f]
<1>1. /\ phase = "prepoll" /\ cur = NoProc
      /\ Registered' = Registered \cup ToRegister
      /\ \A g \in ToRegister : watch'[g] = EventsOf(g)
      /\ \A g \in Registered \ ToRegister : watch'[g] = watch[g]
  BY RegisterIs
<1>2. PICK W : W = Watches
  OBVIOUS
<1>3. WaitInv(W)
  BY <1>2
<1>4. OwnedBy(table, p, b) /\ Interest(table, b, W) /\ b \in Blocked /\ Sound(k, p, b)
  BY <1>1, <1>3, ServedNow
<1>5. /\ f \in FDs /\ f \in Descriptors(Base(k, p)) /\ f \in {b.rx, b.tx} \ {NoFD}
      /\ e \in Events /\ k.proc[p].alive
  BY <1>4, SideIs
<1>6. table.fd[f].allocated
  BY <1>4, <1>5 DEF OwnedBy
<1>7. f \in open
  <2>1. p # cur
    BY <1>1, KernAssumption
  <2> QED
    BY <1>3, <1>5, <2>1 DEF WaitInv, OwnInv
<1>8. /\ e \in EventsOf(f)
      /\ f \in table.dirty \/ << f, e >> \in W
  BY <1>4, <1>5 DEF Interest, Side, EventsOf, Events
<1>9. CASE f \in ToRegister
  BY <1>1, <1>8, <1>9
<1>10. CASE f \notin ToRegister /\ << f, e >> \in W
  BY <1>1, <1>2, <1>5, <1>10, WatchesAre
<1>11. CASE f \notin ToRegister /\ f \in table.dirty
  <2>1. ~ table.fd[f].closed
    BY <1>5, <1>6 DEF IInv, TableInv
  <2>2. method = "EDGE" /\ f \in added
    BY <1>11, <2>1 DEF ToRegister
  <2>3. f \in Registered /\ watch[f] = Events
    BY <1>5, <1>6, <1>7, <2>2 DEF EdgeInv
  <2> QED
    BY <1>1, <1>5, <1>11, <2>3
<1> QED
  BY <1>8, <1>9, <1>10, <1>11

(* What becomes watched while it is ready is reported at once. *)
LEMMA EdgeRegister ==
  ASSUME IInv, IInv', SysInv, SysInv', EdgeWaitInv, Register
  PROVE  EdgeWaitInv'
<1>1. /\ phase = "prepoll" /\ cur = NoProc /\ table.fresh = {}
      /\ UNCHANGED << k, open, cur, todo, looping, signo, shutdown, method, ready >>
      /\ \/ phase' = "done" /\ UNCHANGED << table, added, watch, queue >>
         \/ /\ phase' = "wait" /\ table'.fd = table.fd /\ table'.dirty = {}
            /\ table'.fresh = {} /\ table'.polled = table.polled
            /\ added' = added \cup ToRegister
            /\ Registered' = Registered \cup ToRegister
            /\ \A f \in ToRegister : watch'[f] = EventsOf(f)
            /\ \A f \in Registered \ ToRegister : watch'[f] = watch[f]
            /\ queue' \in Queued({f \in ToRegister : Now(f) \cap EventsOf(f) # {}})
  BY RegisterIs
<1>2. PICK W : W = Watches
  OBVIOUS
<1>3. WaitInv(W) /\ WaitInv(Watches) /\ EdgeInv /\ QuietInv
  BY <1>2 DEF EdgeWaitInv
<1>4. OwnInv' /\ SocketsInv'
  <2>1. table'.fd = table.fd /\ phase' # "register" /\ phase # "register"
    BY <1>1
  <2> QED
    BY <1>1, <1>3, <2>1 DEF WaitInv, OwnInv, SocketsInv
<1>5. LoopInv'
  <2>1. phase' = "wait" => table'.dirty = {} /\ table'.polled = {}
    BY <1>1 DEF SysInv
  <2>2. phase' \in {"wait", "done"} /\ k.run_procs = << >>
    BY <1>1, <1>3 DEF WaitInv, LoopInv
  <2> QED
    BY <1>1, <1>3, <2>1, <2>2 DEF WaitInv, LoopInv
<1>6. CASE phase' = "done" /\ UNCHANGED << table, added, watch, queue >>
  <2>1. Watches' = W
    BY <1>2, <1>6 DEF Watches, Registered
  <2>2. ServedInv(W)'
    BY <1>1, <1>3, <1>6 DEF WaitInv, ServedInv, Served, Roused
  <2>3. WaitInv(Watches)'
    BY <1>4, <1>5, <2>1, <2>2 DEF WaitInv, ServedInv
  <2>4. QuietInv'
    BY <1>1, <1>3, <1>6 DEF QuietInv, Noted, Roused, Registered
  <2>5. EdgeInv'
    BY <1>1, <1>3, <1>6 DEF EdgeInv, Registered
  <2> QED
    BY <2>3, <2>4, <2>5 DEF EdgeWaitInv
<1>7. CASE phase' = "wait"
  <2>1. PICK V : V = Watches'
    OBVIOUS
  <2>2. ASSUME NEW p \in Procs, NEW i \in 1 .. Len(k'.proc[p].blocked)
        PROVE  Served(k', table', cur', todo', p, k'.proc[p].blocked[i], V)
    <3>1. PICK b : b = k.proc[p].blocked[i]
      OBVIOUS
    <3>2. i \in 1 .. Len(k.proc[p].blocked) /\ b = k'.proc[p].blocked[i]
      BY <1>1, <3>1
    <3>3. OwnedBy(table, p, b) /\ Interest(table, b, W) /\ b \in Blocked /\ Sound(k, p, b)
      BY <1>1, <1>3, <3>1, <3>2, ServedNow
    <3>4. ASSUME NEW e \in b.ev, e = "OUT" => b.tx # b.rx
          PROVE  << Side(b, e), e >> \in V
      <4>1. PICK f : f = Side(b, e)
        OBVIOUS
      <4>2. f \in Registered' /\ e \in watch'[f]
        BY <1>3, <1>7, <3>1, <3>2, <3>4, <4>1, RegisteredNow
      <4>3. f \in FDs /\ e \in Events
        BY <3>3, <4>1, SideIs
      <4> QED
        BY <2>1, <4>1, <4>2, <4>3 DEF Watches
    <3>5. /\ "IN" \in b.ev => << b.rx, "IN" >> \in V
          /\ "OUT" \in b.ev /\ b.tx # b.rx => << b.tx, "OUT" >> \in V
      BY <3>4 DEF Side
    <3>6. table'.fd = table.fd
      BY <1>1, <1>7
    <3>7. OwnedBy(table', p, b) /\ Interest(table', b, V)
      BY <3>3, <3>5, <3>6 DEF OwnedBy, Interest
    <3> QED
      BY <3>2, <3>7 DEF Served
  <2>3. WaitInv(Watches)'
    BY <1>4, <1>5, <2>1, <2>2 DEF WaitInv, ServedInv
  <2> DEFINE S == {f \in ToRegister : Now(f) \cap EventsOf(f) # {}}
  <2>4. queue' \in Queued(S) /\ List(queue) /\ S \in SUBSET FDs
    <3>1. table.dirty \subseteq FDs
      BY DEF IInv, TableInv, TableType
    <3> QED
      BY <1>1, <1>7, <3>1 DEF SysInv, ToRegister
  <2>5. \A f \in ToRegister, e \in Events : << f, e >> \in ready /\ e \in EventsOf(f) => f \in S
    BY DEF Now
  <2> HIDE DEF S
  <2>6. \A f \in FDs : In(queue', f) <=> In(queue, f) \/ f \in S
    BY <2>4, QueuedIs
  <2>7. QuietInv'
    <3> SUFFICES ASSUME NEW p \in Procs, NEW i \in 1 .. Len(k'.proc[p].blocked),
                        NEW e \in k'.proc[p].blocked[i].ev, NEW f, f = Side(k'.proc[p].blocked[i], e)
                 PROVE  Noted(p, f, e)'
      BY DEF QuietInv, Noted
    <3>1. Noted(p, f, e)
      BY <1>1, <1>3 DEF QuietInv
    <3>2. PICK b : b = k.proc[p].blocked[i]
      OBVIOUS
    <3>3. ~ Roused(k, table, p) /\ b \in Blocked /\ Sound(k, p, b)
      BY <1>1, <1>3, <3>2, ServedNow
    <3>4. e \in b.ev /\ f = Side(b, e)
      BY <1>1, <3>2
    <3>5. f \in FDs /\ e \in Events
      BY <3>3, <3>4, SideIs
    <3>6. CASE f \in ToRegister
      <4>1. watch'[f] = EventsOf(f) /\ ready' = ready
        BY <1>1, <1>7, <3>6
      <4> QED
        BY <2>5, <2>6, <3>5, <3>6, <4>1 DEF Noted
    <3>7. CASE f \notin ToRegister
      <4>1. ready' = ready /\ (f \in Registered' => f \in Registered /\ watch'[f] = watch[f])
        BY <1>1, <1>7, <3>7
      <4> QED
        BY <2>6, <3>1, <3>3, <3>5, <4>1 DEF Noted
    <3> QED
      BY <3>6, <3>7
  <2>8. EdgeInv'
    <3> SUFFICES ASSUME method' = "EDGE", NEW f \in FDs, table'.fd[f].allocated, f \in added', f \in open'
                 PROVE  f \in Registered' /\ watch'[f] = Events
      BY DEF EdgeInv
    <3>1. /\ method = "EDGE" /\ table.fd[f].allocated /\ f \in open
          /\ f \in added \/ f \in ToRegister
      BY <1>1, <1>7
    <3>2. CASE f \in ToRegister
      BY <1>1, <1>7, <3>1, <3>2 DEF EventsOf
    <3>3. CASE f \notin ToRegister
      BY <1>1, <1>3, <1>7, <3>1, <3>3 DEF EdgeInv
    <3> QED
      BY <3>2, <3>3
  <2> QED
    BY <2>3, <2>7, <2>8 DEF EdgeWaitInv
<1> QED
  BY <1>1, <1>6, <1>7

(* What is reported rouses its process; the rest stays watched and listed. *)
LEMMA EdgeWaitReturns ==
  ASSUME IInv, IInv', SysInv, SysInv', EdgeWaitInv, WaitReturns
  PROVE  EdgeWaitInv'
<1>1. /\ phase = "wait" /\ phase' = "postpoll" /\ cur = NoProc /\ table.fresh = {}
      /\ UNCHANGED << k, open, cur, todo, looping, method, added, ready >>
      /\ \A f \in FDs : ~ table.fd[f].zombie => table'.fd[f] = table.fd[f]
      /\ \A f \in FDs : /\ table'.fd[f].allocated = table.fd[f].allocated
                        /\ table'.fd[f].proc_id = table.fd[f].proc_id
      /\ Registered' = Registered
      /\ \A f \in Registered : ~ table.fd[f].zombie => f \in table'.fresh \/ watch'[f] = watch[f]
      /\ method = "EDGE" => \A f \in Registered : watch'[f] = watch[f]
      /\ \A f \in Registered : watch'[f] \subseteq watch[f]
      /\ \A f \in FDs : /\ In(queue, f) /\ Now(f) \cap watch[f] # {} /\ ~ table.fd[f].zombie
                        => In(queue', f) \/ f \in table'.fresh
  BY WaitReturnsIs
<1>2. PICK W : W = Watches
  OBVIOUS
<1>3. WaitInv(W) /\ EdgeInv /\ QuietInv
  BY <1>2 DEF EdgeWaitInv
<1>4. \A f \in FDs : table.fd[f].allocated => ~ table.fd[f].zombie
  BY DEF IInv, TableInv
<1>5. OwnInv' /\ SocketsInv'
  BY <1>1, <1>3 DEF WaitInv, OwnInv, SocketsInv
<1>6. LoopInv'
  BY <1>1, <1>3 DEF WaitInv, LoopInv
<1>7. ASSUME NEW p \in Procs, NEW i \in 1 .. Len(k.proc[p].blocked), NEW b, b = k.proc[p].blocked[i]
      PROVE  /\ OwnedBy(table, p, b) /\ Interest(table, b, W) /\ ~ Roused(k, table, p)
             /\ b \in Blocked /\ Sound(k, p, b)
  BY <1>1, <1>3, <1>7, ServedNow
<1>8. ASSUME NEW p \in Procs, NEW i \in 1 .. Len(k.proc[p].blocked), NEW b, b = k.proc[p].blocked[i],
             NEW e \in b.ev, NEW f, f = Side(b, e)
      PROVE  /\ f \in FDs /\ e \in Events /\ ~ table.fd[f].zombie /\ table'.fd[f] = table.fd[f]
             /\ f \in table'.fresh => Roused(k', table', p)
  <2>1. f \in FDs /\ e \in Events /\ f \in {b.rx, b.tx} \ {NoFD}
    BY <1>7, <1>8, SideIs
  <2>2. table.fd[f].allocated /\ table.fd[f].proc_id = p
    BY <1>7, <1>8, <2>1 DEF OwnedBy
  <2> QED
    BY <1>1, <1>4, <2>1, <2>2 DEF Roused
<1>9. PICK V : V = Watches'
  OBVIOUS
<1>10. ASSUME NEW p \in Procs, NEW i \in 1 .. Len(k'.proc[p].blocked)
       PROVE  Served(k', table', cur', todo', p, k'.proc[p].blocked[i], V)
  <2>1. PICK b : b = k.proc[p].blocked[i]
    OBVIOUS
  <2>2. i \in 1 .. Len(k.proc[p].blocked) /\ b = k'.proc[p].blocked[i]
    BY <1>1, <2>1
  <2>3. OwnedBy(table, p, b) /\ Interest(table, b, W) /\ b \in Blocked /\ Sound(k, p, b)
    BY <1>7, <2>1, <2>2
  <2>4. OwnedBy(table', p, b)
    <3>1. \A f \in {b.rx, b.tx} \ {NoFD} : f \in FDs
      BY <2>3 DEF Blocked
    <3> QED
      BY <1>1, <2>3, <3>1 DEF OwnedBy
  <2>5. ASSUME ~ Roused(k', table', p), NEW e \in b.ev, e = "OUT" => b.tx # b.rx
        PROVE  << Side(b, e), e >> \in V /\ table'.fd[Side(b, e)] = table.fd[Side(b, e)]
    <3>1. PICK f : f = Side(b, e)
      OBVIOUS
    <3>2. /\ f \in FDs /\ e \in Events /\ ~ table.fd[f].zombie /\ table'.fd[f] = table.fd[f]
          /\ f \notin table'.fresh
      <4>1. e \in b.ev
        BY <2>5
      <4> HIDE <2>5
      <4>2. i \in 1 .. Len(k.proc[p].blocked)
        BY <2>2
      <4>3. /\ f \in FDs /\ e \in Events /\ ~ table.fd[f].zombie /\ table'.fd[f] = table.fd[f]
            /\ f \in table'.fresh => Roused(k', table', p)
        BY ONLY <1>8, <2>1, <3>1, <4>1, <4>2, p \in Procs, SMTT(60)
      <4> QED
        BY <2>5, <4>3
    <3>3. << f, e >> \in W
      <4>1. table.dirty = {}
        BY <1>1 DEF SysInv
      <4>2. e \in {"IN", "OUT"}
        BY <3>2 DEF Events
      <4>3. Interest(table, b, W) /\ e \in b.ev
        BY <2>3, <2>5
      <4>4. CASE e = "IN"
        <5>1. f = b.rx
          BY <3>1, <4>4 DEF Side
        <5> QED
          BY <4>1, <4>3, <4>4, <5>1 DEF Interest
      <4>5. CASE e = "OUT"
        <5>1. f = b.tx /\ b.tx # b.rx
          BY <2>5, <3>1, <4>5 DEF Side
        <5> QED
          BY <4>1, <4>3, <4>5, <5>1 DEF Interest
      <4> QED
        BY <4>2, <4>4, <4>5
    <3>4. f \in Registered /\ e \in watch[f]
      BY <1>2, <3>2, <3>3, WatchesAre
    <3>5. f \in Registered' /\ e \in watch'[f]
      BY <1>1, <3>2, <3>4
    <3> QED
      BY <1>9, <3>1, <3>2, <3>5 DEF Watches
  <2>6. CASE Roused(k', table', p)
    BY <2>2, <2>4, <2>6 DEF Served
  <2>7. CASE ~ Roused(k', table', p)
    <3>1. /\ "IN" \in b.ev => << b.rx, "IN" >> \in V /\ table'.fd[b.rx] = table.fd[b.rx]
          /\ "OUT" \in b.ev /\ b.tx # b.rx => << b.tx, "OUT" >> \in V /\ table'.fd[b.tx] = table.fd[b.tx]
      BY <2>5, <2>7 DEF Side
    <3>2. Interest(table', b, V)
      BY <2>3, <3>1 DEF Interest
    <3> QED
      BY <2>2, <2>4, <3>2 DEF Served
  <2> QED
    BY <2>6, <2>7
<1>11. WaitInv(Watches)'
  BY <1>5, <1>6, <1>9, <1>10 DEF WaitInv, ServedInv
<1>12. QuietInv'
  <2> SUFFICES ASSUME NEW p \in Procs, NEW i \in 1 .. Len(k'.proc[p].blocked),
                      NEW e \in k'.proc[p].blocked[i].ev, NEW f, f = Side(k'.proc[p].blocked[i], e)
               PROVE  Noted(p, f, e)'
    BY DEF QuietInv, Noted
  <2>1. PICK b : b = k.proc[p].blocked[i]
    OBVIOUS
  <2>2. i \in 1 .. Len(k.proc[p].blocked) /\ e \in b.ev /\ f = Side(b, e)
    BY <1>1, <2>1
  <2>3. /\ f \in FDs /\ e \in Events /\ ~ table.fd[f].zombie
        /\ f \in table'.fresh => Roused(k', table', p)
    BY ONLY <1>8, <2>1, <2>2, p \in Procs, SMTT(60)
  <2>4. Noted(p, f, e) /\ ~ Roused(k, table, p)
    BY <1>3, <1>7, <2>1, <2>2 DEF QuietInv
  <2>5. ASSUME << f, e >> \in ready, f \in Registered, e \in watch[f]
        PROVE  In(queue, f) /\ Now(f) \cap watch[f] # {}
    <3>1. In(queue, f)
      BY <2>4, <2>5 DEF Noted
    <3>2. e \in Now(f)
      BY <2>3, <2>5 DEF Now
    <3> QED
      BY <2>5, <3>1, <3>2
  <2> QED
    BY <1>1, <2>3, <2>5 DEF Noted
<1>13. EdgeInv'
  BY <1>1, <1>3 DEF EdgeInv
<1> QED
  BY <1>11, <1>12, <1>13 DEF EdgeWaitInv

(* An arrival is listed where it is watched for. *)
LEMMA EdgeArrive ==
  ASSUME IInv, SysInv, EdgeWaitInv, Arrive
  PROVE  EdgeWaitInv'
<1>1. UNCHANGED << k, table, open, phase, cur, todo, looping, signo, shutdown >>
      /\ UNCHANGED << method, added, watch >>
  BY DEF Arrive, vars
<1>2. PICK g \in open, a \in Events :
        /\ ready' = ready \cup {<< g, a >>}
        /\ queue' \in IF g \in Registered /\ a \in watch[g] THEN Queued({g}) ELSE {queue}
  BY DEF Arrive
<1>3. g \in FDs /\ List(queue)
  BY DEF IInv, TypeOK, SysInv
<1>4. /\ \A f \in FDs : In(queue, f) => In(queue', f)
      /\ g \in Registered /\ a \in watch[g] => In(queue', g)
  <2>1. CASE g \in Registered /\ a \in watch[g]
    <3>1. queue' \in Queued({g}) /\ {g} \in SUBSET FDs
      BY <1>2, <1>3, <2>1
    <3>2. \A f \in FDs : In(queue', f) <=> In(queue, f) \/ f \in {g}
      BY <1>3, <3>1, QueuedIs
    <3> QED
      BY <1>3, <3>2
  <2>2. CASE ~ (g \in Registered /\ a \in watch[g])
    BY <1>2, <2>2
  <2> QED
    BY <2>1, <2>2
<1>5. WaitInv(Watches)'
  BY <1>1 DEF EdgeWaitInv, WaitInv, OwnInv, SocketsInv, ServedInv, LoopInv, Watches, Registered
<1>6. QuietInv'
  <2> SUFFICES ASSUME NEW p \in Procs, NEW i \in 1 .. Len(k.proc[p].blocked),
                      NEW e \in k.proc[p].blocked[i].ev
               PROVE  Noted(p, Side(k.proc[p].blocked[i], e), e)'
    BY <1>1 DEF QuietInv
  <2>1. PICK f : f = Side(k.proc[p].blocked[i], e)
    OBVIOUS
  <2>2. PICK b : b = k.proc[p].blocked[i]
    OBVIOUS
  <2>3. b \in Blocked /\ Sound(k, p, b)
    BY <2>2, BlockedAre DEF EdgeWaitInv, WaitInv
  <2>4. f \in FDs /\ e \in Events
    <3>1. e \in b.ev /\ f = Side(b, e)
      BY <2>1, <2>2
    <3> QED
      BY <2>3, <3>1, SideIs
  <2>5. Noted(p, f, e)
    BY <2>1 DEF EdgeWaitInv, QuietInv
  <2>6. Noted(p, f, e)'
    BY <1>1, <1>2, <1>4, <2>4, <2>5 DEF Noted, Registered
  <2> QED
    BY <1>1, <2>1, <2>6 DEF Noted
<1>7. EdgeInv'
  BY <1>1 DEF EdgeWaitInv, EdgeInv, Registered
<1> QED
  BY <1>5, <1>6, <1>7 DEF EdgeWaitInv

(* What is drained need not be reported. *)
LEMMA EdgeDrain ==
  ASSUME EdgeWaitInv, Drain \/ UNCHANGED << vars, epvars >>
  PROVE  EdgeWaitInv'
<1>1. /\ UNCHANGED << k, table, open, phase, cur, todo, looping, signo, shutdown >>
      /\ UNCHANGED << method, added, watch, queue >> /\ ready' \subseteq ready
  BY DEF Drain, vars, epvars
<1>2. WaitInv(Watches)'
  BY <1>1 DEF EdgeWaitInv, WaitInv, OwnInv, SocketsInv, ServedInv, LoopInv, Watches, Registered
<1>3. QuietInv'
  BY <1>1 DEF EdgeWaitInv, QuietInv, Noted, Registered
<1>4. EdgeInv'
  BY <1>1 DEF EdgeWaitInv, EdgeInv, Registered
<1> QED
  BY <1>2, <1>3, <1>4 DEF EdgeWaitInv

(* Nobody waits when the loop starts. *)
LEMMA InitEdge == EpollInit => EdgeWaitInv
<1> SUFFICES ASSUME EpollInit PROVE EdgeWaitInv
  OBVIOUS
<1>1. WaitInv(Watches)
  <2>1. PICK W : W = Watches
    OBVIOUS
  <2>2. WaitInv(W)
    BY InitWait DEF EpollInit
  <2> QED
    BY <2>1, <2>2
<1>2. ready = {} /\ added = {}
  BY DEF EpollInit
<1> QED
  BY <1>1, <1>2 DEF EdgeWaitInv, EdgeInv, QuietInv, Noted

(* Every step keeps it. *)
LEMMA NextEdge ==
  ASSUME ~ Lingers, SocketsApart, IInv, IInv', SysInv, SysInv', EdgeWaitInv,
         [EpollNext]_<< vars, epvars >>
  PROVE  EdgeWaitInv'
BY EdgeAround, EdgeAccepts, EdgeCloses, EdgeRegister, EdgeWaitReturns, EdgeArrive, EdgeDrain
   DEF EpollNext, EpollLoop

(* So it is an invariant of a loop whose processes end once they closed a  *)
(* descriptor.                                                             *)
THEOREM EpollEdgeInvariant == ~ Lingers /\ SocketsApart => (EpollSpec => []EdgeWaitInv)
<1> SUFFICES ASSUME ~ Lingers, SocketsApart PROVE EpollSpec => []EdgeWaitInv
  OBVIOUS
<1>1. EpollInit => EdgeWaitInv
  BY InitEdge
<1>2. (IInv /\ SysInv) /\ (IInv /\ SysInv)' /\ EdgeWaitInv /\ [EpollNext]_<< vars, epvars >>
        => EdgeWaitInv'
  BY NextEdge
<1> QED
  BY <1>1, <1>2, EpollInvariant, PTL DEF EpollSpec

(* Where processes end once they closed a descriptor, no edge is lost,     *)
(* edge-triggered or one-shot, for any number of processes and descriptors *)
(* and any VK_EV_MAX: while the loop is in epoll_wait, whatever a process  *)
(* waits for is watched, reported next if it is ready, and reported to     *)
(* that process.                                                           *)
THEOREM EpollEdgeKept == ~ Lingers /\ SocketsApart => (EpollSpec => []EdgeKept)
<1> SUFFICES ASSUME ~ Lingers, SocketsApart PROVE EpollSpec => []EdgeKept
  OBVIOUS
<1>1. IInv /\ SysInv /\ EdgeWaitInv => EdgeKept
  <2> SUFFICES ASSUME IInv, SysInv, EdgeWaitInv, phase = "wait",
                      NEW p \in k.blocked_procs, NEW x \in Expected(p)
               PROVE  /\ x[1] \in Registered /\ x[2] \in watch[x[1]]
                      /\ x \in ready => Waiting(x[1])
                      /\ table.fd[x[1]].allocated /\ table.fd[x[1]].proc_id = p
    BY DEF EdgeKept
  <2>1. p \in Procs
    BY DEF IInv, QueueInv, KernType
  <2>2. k.proc[p].blocked \in Seq(Blocked)
    BY <2>1 DEF IInv, QueueInv, KernType, Process
  <2>3. PICK i \in 1 .. Len(k.proc[p].blocked) :
          LET b == k.proc[p].blocked[i]
          IN /\ x[2] \in b.ev /\ x[1] = IF x[2] = "IN" THEN b.rx ELSE b.tx
             /\ x[2] = "OUT" /\ b.tx = b.rx => method = "EDGE" /\ x[1] \in added
    BY <2>2 DEF Expected
  <2>4. PICK b : b = k.proc[p].blocked[i]
    OBVIOUS
  <2>5. PICK f, e : f = x[1] /\ e = x[2] /\ x = << f, e >>
    BY DEF Expected
  <2>6. /\ e \in b.ev /\ f = Side(b, e)
        /\ e = "OUT" /\ b.tx = b.rx => method = "EDGE" /\ f \in added
    BY <2>3, <2>4, <2>5 DEF Side
  <2>7. PICK W : W = Watches
    OBVIOUS
  <2>8. WaitInv(W) /\ EdgeInv /\ QuietInv
    BY <2>7 DEF EdgeWaitInv
  <2>9. /\ OwnedBy(table, p, b) /\ Interest(table, b, W) /\ ~ Roused(k, table, p)
        /\ b \in Blocked /\ Sound(k, p, b)
    BY <2>1, <2>4, <2>8, ServedNow
  <2>10. /\ f \in FDs /\ f \in Descriptors(Base(k, p)) /\ f \in {b.rx, b.tx} \ {NoFD}
         /\ e \in Events /\ k.proc[p].alive
    BY <2>1, <2>6, <2>9, SideIs
  <2>11. table.fd[f].allocated /\ table.fd[f].proc_id = p
    BY <2>9, <2>10 DEF OwnedBy
  <2>12. f \in open
    <3>1. p # cur
      <4>1. cur = NoProc
        BY KernAssumption DEF IInv, TypeOK, PhaseInv
      <4> QED
        BY <2>1, <4>1, KernAssumption
    <3> QED
      BY <2>1, <2>8, <2>10, <3>1 DEF WaitInv, OwnInv
  <2>13. f \in Registered /\ e \in watch[f]
    <3>1. CASE e = "OUT" /\ b.tx = b.rx
      BY <2>6, <2>8, <2>10, <2>11, <2>12, <3>1 DEF EdgeInv
    <3>2. CASE ~ (e = "OUT" /\ b.tx = b.rx)
      <4>1. table.dirty = {}
        BY DEF SysInv
      <4>2. << f, e >> \in W
        BY <2>6, <2>9, <2>10, <3>2, <4>1 DEF Interest, Side, Events
      <4> QED
        BY <2>7, <2>10, <4>2, WatchesAre
    <3> QED
      BY <3>1, <3>2
  <2>14. << f, e >> \in ready => Waiting(f)
    <3>1. Noted(p, f, e)
      BY <2>1, <2>4, <2>6, <2>8 DEF QuietInv
    <3>2. << f, e >> \in ready => In(queue, f)
      BY <2>9, <2>13, <3>1 DEF Noted
    <3>3. queue \in Seq(FDs)
      BY DEF SysInv, List
    <3> QED
      BY <3>2, <3>3, WaitingIn
  <2> QED
    BY <2>5, <2>11, <2>13, <2>14
<1>2. EpollSpec => []EdgeWaitInv
  BY EpollEdgeInvariant
<1> QED
  BY <1>1, <1>2, EpollInvariant, PTL

----------------------------------------------------------------------------
(* No epoll_ctl is refused: the inductive invariant *)

\* p will be dispatched before the loop registers what is dirty; or it is,
\* and may end.
Busy(p) == Roused(k, table, p) \/ (p = cur /\ (phase = "execute" \/ k.proc[p].blocked = << >>))

\* The listener's descriptors are open, and its own as long as it is alive.
ListenerInv ==
  /\ Descriptors(MainSockets) \subseteq open
  /\ k.proc[Main].alive => \A f \in Descriptors(MainSockets) : ~ table.fd[f].zombie

\* An allocated descriptor that was not added is not registered,
Unadded ==
  \A f \in FDs : table.fd[f].allocated /\ f \notin added => f \notin Registered

\* a registered one that was freed is none of a live process,
Forgotten ==
  \A f \in Registered : ~ table.fd[f].allocated =>
    \A p \in Procs : k.proc[p].alive => f \notin Descriptors(Base(k, p))

\* a connection's was added when its process is dispatched again,
Settled == \A p \in Procs \ {Main} : Busy(p) => AllocatedTo(table, p) \subseteq added

\* and of what was freed only the listener's are left to add.
Gone ==
  \A f \in table.dirty : table.fd[f].zombie =>
    f \in added \/ (f \in Descriptors(MainSockets) /\ f \notin Registered)

RefuseInv == ListenerInv /\ (method = "EDGE" => Unadded /\ Forgotten /\ Settled /\ Gone)

----------------------------------------------------------------------------
(* The steps of Kern's *)

LEMMA InsertedOnly ==
  ASSUME NEW q \in Seq(Procs), NEW p \in Procs, NEW h, h = << p >> \o q, NEW r, In(h, r)
  PROVE  r = p \/ In(q, r)
<1>1. Len(h) = Len(q) + 1 /\ Len(q) \in Nat /\ h[1] = p
  OBVIOUS
<1>2. \A i \in 1 .. Len(q) : h[i + 1] = q[i]
  OBVIOUS
<1>3. PICK i \in 1 .. Len(h) : h[i] = r
  BY DEF In
<1>4. CASE i = 1
  BY <1>1, <1>3, <1>4
<1>5. CASE i # 1
  <2>1. i - 1 \in 1 .. Len(q) /\ (i - 1) + 1 = i
    BY <1>1, <1>5
  <2>2. q[i - 1] = r
    BY <1>2, <1>3, <2>1
  <2> QED
    BY <2>1, <2>2 DEF In
<1> QED
  BY <1>4, <1>5

(* A connection has one descriptor. *)
LEMMA OneDescriptor ==
  ASSUME OwnInv, NEW p \in Procs \ {Main}, k.proc[p].alive
  PROVE  \E g \in Accepted : Descriptors(Base(k, p)) = {g}
<1>1. PICK g \in Accepted : k.proc[p].sockets = {<< g, g >>}
  BY DEF OwnInv
<1>2. g \in FDs
  BY KernAssumption
<1>3. Base(k, p) = {<< g, g >>}
  BY <1>1 DEF Base
<1>4. Descriptors({<< g, g >>}) = {g}
  BY <1>2 DEF Descriptors
<1> QED
  BY <1>3, <1>4

(* Who is busy was, or has just been started. *)
LEMMA BusyBefore ==
  ASSUME NEW W, IInv, IInv', WaitInv(W), KernStep, NEW p \in Procs, Busy(p)'
  PROVE  Busy(p) \/ ~ k.proc[p].alive
<1>1. Roused(k', table', p) \/ (p = cur' /\ (phase' = "execute" \/ k'.proc[p].blocked = << >>))
  BY DEF Busy
<1>2. k \in KernType /\ k.run_procs \in Seq(Procs) /\ TableInv(table, k.proc)
  BY DEF IInv, QueueInv, KernType
<1>3. CASE PostpollFresh
  <2>1. PICK f \in table.fresh : /\ table'.fresh = table.fresh \ {f}
                                 /\ k' = EnqueueRun(k, table.fd[f].proc_id)
    BY <1>2, <1>3 DEF PostpollFresh, TableInv, TableType
  <2>2. PICK q : q = table.fd[f].proc_id
    OBVIOUS
  <2>3. q \in Procs
    BY <1>2, <2>2 DEF TableInv, TableType, Descriptor
  <2>4. k' = EnqueueRun(k, q)
    BY <2>1, <2>2
  <2>5. k'.run_procs = IF k.proc[q].run_qed THEN k.run_procs ELSE << q >> \o k.run_procs
    BY <1>2, <2>3, <2>4, EnqueueRunIs
  <2>6. In(k'.run_procs, p) => p = q \/ In(k.run_procs, p)
    BY <1>2, <2>3, <2>5, InsertedOnly
  <2>7. table'.fd = table.fd /\ cur' = cur /\ cur = NoProc
    BY <1>3, FreshIs
  <2> QED
    BY <1>1, <2>1, <2>2, <2>6, <2>7, KernAssumption DEF Roused, Busy
<1>4. CASE Dispatch
  <2>1. /\ cur' = Head(k.run_procs) /\ k.run_procs # << >> /\ k'.run_procs = Tail(k.run_procs)
        /\ table' = table
    BY <1>2, <1>4 DEF Dispatch, KernType
  <2>2. In(k.run_procs, cur') /\ (In(k'.run_procs, p) => In(k.run_procs, p))
    BY <1>2, <2>1, RemoveHead DEF IInv, QueueInv
  <2> QED
    BY <1>1, <2>1, <2>2 DEF Roused, Busy
<1>5. CASE PostpollReturns
  BY <1>1, <1>5, KernAssumption DEF PostpollReturns, Busy, IInv, TypeOK
<1>6. CASE Close
  BY <1>1, <1>6 DEF Close, Busy
<1>7. CASE Accept
  <2>1. PICK q \in Procs : ~ k.proc[q].alive /\ k'.run_procs = << q >> \o k.run_procs
    BY <1>7, AcceptIs
  <2>2. table' = table /\ cur' = cur /\ phase = "execute"
    BY <1>7 DEF Accept, Listening
  <2>3. In(k'.run_procs, p) => p = q \/ In(k.run_procs, p)
    BY <1>2, <2>1, InsertedOnly
  <2> QED
    BY <1>1, <2>1, <2>2, <2>3 DEF Roused, Busy
<1>8. CASE AcceptFails
  <2>1. k' = StopListening(k) /\ table' = table /\ cur' = cur /\ phase = "execute"
    BY <1>8 DEF AcceptFails, Listening
  <2>2. k'.run_procs = k.run_procs
    BY <1>2, <2>1, StopIs
  <2> QED
    BY <1>1, <2>1, <2>2 DEF Roused, Busy
<1>9. CASE ExecuteReturns
  <2>1. /\ k'.run_procs = k.run_procs /\ cur' = cur /\ phase = "execute" /\ cur \in Procs
        /\ table' = PrepollClosed(table, cur)
    BY <1>9, ReturnIs DEF ExecuteReturns, IInv, TypeOK
  <2>2. table'.fd = table.fd /\ table'.fresh = table.fresh
    BY <1>2, <2>1, ClosedIs
  <2> QED
    BY <1>1, <2>1, <2>2 DEF Roused, Busy
<1>10. CASE PrepollSocket
  <2>1. /\ k' = k /\ cur' = cur /\ phase' = "register" /\ table'.fresh = {}
    BY <1>10 DEF PrepollSocket, IInv, PhaseInv
  <2> QED
    BY <1>1, <2>1 DEF Roused, Busy
<1>11. CASE DispatchReturns
  <2>1. /\ phase = "register" /\ cur' = NoProc /\ table.fresh = {} /\ cur \in Procs
        /\ table' \in {table, PrepollZombie(table, cur)}
    BY <1>11 DEF DispatchReturns, IInv, PhaseInv, TypeOK
  <2>2. table'.fresh = {}
    BY <1>2, <2>1, ZombieIs DEF TableInv
  <2>3. ~ k.proc[cur].run
    BY <2>1 DEF WaitInv, OwnInv
  <2>4. k'.run_procs = k.run_procs
    BY <1>11, <2>3, DoneIs
  <2> QED
    BY <1>1, <2>1, <2>2, <2>4, KernAssumption DEF Roused, Busy
<1> QED
  BY <1>3, <1>4, <1>5, <1>6, <1>7, <1>8, <1>9, <1>10, <1>11 DEF KernStep, Postpoll

(* The live processes keep their descriptors; a new one has an accepted    *)
(* descriptor.                                                             *)
LEMMA BaseStep ==
  ASSUME IInv, KernStep, NEW p \in Procs, k'.proc[p].alive
  PROVE  \/ k.proc[p].alive /\ Base(k', p) = Base(k, p)
         \/ /\ ~ k.proc[p].alive /\ p # Main
            /\ \E g \in Accepted \ open : Descriptors(Base(k', p)) = {g}
<1>1. k \in KernType
  BY DEF IInv, QueueInv
<1>2. CASE PostpollFresh
  <2>1. SameProcs(k, k')
    BY <1>2, FreshIs
  <2> QED
    BY <2>1 DEF SameProcs, Base
<1>3. CASE Dispatch
  <2>1. /\ k.proc[cur'].alive /\ k'.proc[cur'].sockets = k.proc[cur'].sockets
        /\ \A r \in Procs \ {cur'} : k'.proc[r] = k.proc[r]
    BY <1>3, DispatchIs
  <2> QED
    BY <2>1 DEF Base
<1>4. CASE PostpollReturns \/ Close \/ PrepollSocket
  BY <1>4 DEF PostpollReturns, Close, PrepollSocket, Base
<1>5. CASE Accept
  <2>1. PICK g \in Accepted \ open, q \in Procs :
           /\ ~ k.proc[q].alive /\ q # Main /\ k'.proc[q].sockets = {<< g, g >>}
           /\ \A r \in Procs \ {q} : Kept(k.proc[r], k'.proc[r])
           /\ \A r \in Procs \ {q, Main} : k'.proc[r].sockets = k.proc[r].sockets
    BY <1>5, AcceptIs
  <2>2. CASE p = q
    <3>1. Base(k', p) = {<< g, g >>}
      BY <2>1, <2>2 DEF Base
    <3>2. Descriptors({<< g, g >>}) = {g}
      BY KernAssumption DEF Descriptors
    <3> QED
      BY <2>1, <2>2, <3>1, <3>2
  <2>3. CASE p # q
    BY <2>1, <2>3 DEF Kept, Base
  <2> QED
    BY <2>2, <2>3
<1>6. CASE AcceptFails
  <2>1. k' = StopListening(k)
    BY <1>6 DEF AcceptFails
  <2>2. /\ \A r \in Procs : Kept(k.proc[r], k'.proc[r])
        /\ \A r \in Procs \ {Main} : k'.proc[r].sockets = k.proc[r].sockets
    BY <1>1, <2>1, StopIs
  <2> QED
    BY <2>2 DEF Kept, Base
<1>7. CASE ExecuteReturns
  <2>1. /\ k.proc[cur].alive /\ k'.proc[cur].sockets = k.proc[cur].sockets
        /\ \A r \in Procs \ {cur} : k'.proc[r] = k.proc[r]
    BY <1>7, ReturnIs
  <2> QED
    BY <2>1 DEF Base
<1>8. CASE DispatchReturns
  <2>1. /\ \A r \in Procs \ {cur} : k'.proc[r].sockets = k.proc[r].sockets
        /\ \A r \in Procs \ {cur} : Kept(k.proc[r], k'.proc[r])
        /\ \/ k'.proc[cur] = FreeSlot
           \/ /\ k'.proc[cur].alive = k.proc[cur].alive
              /\ k'.proc[cur].sockets = k.proc[cur].sockets
    BY <1>8, DoneIs
  <2>2. ~ FreeSlot.alive
    BY DEF FreeSlot
  <2> QED
    BY <2>1, <2>2 DEF Kept, Base
<1> QED
  BY <1>2, <1>3, <1>4, <1>5, <1>6, <1>7, <1>8 DEF KernStep, Postpoll

\* What a step does to a descriptor: nothing,
FdKept(f) == table'.fd[f] = table.fd[f] /\ (f \in table'.dirty => f \in table.dirty)

\* prepoll registers it for the executing process,
FdTaken(f) ==
  /\ PrepollSocket /\ cur \in Procs /\ f \in Descriptors(Base(k, cur))
  /\ table'.fd[f].allocated /\ table'.fd[f].proc_id = cur
  /\ table.fd[f].allocated => table.fd[f].proc_id = cur

\* or it is freed with that process.
FdFreed(f) ==
  /\ DispatchReturns /\ cur \in Procs /\ f \in AllocatedTo(table, cur)
  /\ k.proc[cur].blocked = << >> /\ ~ k'.proc[cur].alive /\ ~ table'.fd[f].allocated

LEMMA FdPrepoll ==
  ASSUME NEW W, SocketsApart, IInv, WaitInv(W), PrepollSocket, NEW f \in FDs
  PROVE  FdKept(f) \/ FdTaken(f)
<1>1. PICK b : b = Head(todo)
  OBVIOUS
<1>2. /\ todo # << >> /\ table' = PrepollBlockedSocket(table, b, cur) /\ phase = "register"
  BY <1>1 DEF PrepollSocket
<1>3. /\ cur \in Procs /\ k.proc[cur].alive /\ todo \in Seq(Blocked) /\ table \in TableType
  BY <1>2, KernAssumption DEF IInv, TypeOK, PhaseInv, TableInv
<1>4. b \in Blocked /\ \E i \in 1 .. Len(todo) : todo[i] = b
  BY <1>1, <1>2, <1>3
<1>5. PICK n \in 1 .. Len(k.proc[cur].blocked) : k.proc[cur].blocked[n] = b
  BY <1>4 DEF WaitInv, LoopInv, In
<1>6. Sound(k, cur, b)
  BY <1>3, <1>5 DEF WaitInv, SocketsInv, SoundQueue
<1>7. {b.rx, b.tx} \ {NoFD} \subseteq Descriptors(Base(k, cur))
  <2>1. /\ b.rx \in FDs \cup {NoFD} /\ b.tx \in FDs \cup {NoFD}
        /\ SocketOf(b) \in Base(k, cur) /\ SocketOf(b)[1] = b.rx /\ SocketOf(b)[2] = b.tx
    BY <1>4, <1>6 DEF Blocked, Sound, SocketOf
  <2> QED
    BY <2>1 DEF Descriptors
<1>8. ASSUME NEW g \in {b.rx, b.tx} \ {NoFD} PROVE FreeFor(table, g, cur)
  <2> SUFFICES ASSUME table.fd[g].allocated, table.fd[g].proc_id # cur PROVE FALSE
    BY DEF FreeFor
  <2>1. g \in FDs /\ g \in Descriptors(Base(k, cur))
    BY <1>7 DEF Descriptors
  <2>2. /\ table.fd[g].proc_id \in Procs /\ k.proc[table.fd[g].proc_id].alive
        /\ g \in Descriptors(Base(k, table.fd[g].proc_id))
    BY <2>1 DEF WaitInv, OwnInv, IInv, TableInv, TableType, Descriptor
  <2> QED
    BY <1>3, <2>1, <2>2 DEF WaitInv, OwnInv
<1>9. /\ "IN" \in b.ev => b.rx \in FDs
      /\ "OUT" \in b.ev => b.tx \in FDs
  BY <1>6 DEF Sound
<1>10. /\ OwnedBy(table', cur, b)
       /\ \A g \in FDs \ {b.rx, b.tx} : table'.fd[g] = table.fd[g]
       /\ table'.dirty \subseteq table.dirty \cup {b.rx, b.tx}
  <2>1. \A g \in {b.rx, b.tx} \ {NoFD} : FreeFor(table, g, cur)
    BY <1>8
  <2> QED
    BY <1>2, <1>3, <1>4, <1>9, <2>1, PrepollSocketIs
<1>11. CASE f \in {b.rx, b.tx}
  <2>1. f \in {b.rx, b.tx} \ {NoFD}
    BY <1>11, KernAssumption
  <2>2. FreeFor(table, f, cur)
    BY <1>8, <2>1
  <2> QED
    BY <1>3, <1>7, <1>10, <2>1, <2>2 DEF FdTaken, OwnedBy, FreeFor
<1>12. CASE f \notin {b.rx, b.tx}
  BY <1>10, <1>12 DEF FdKept
<1> QED
  BY <1>11, <1>12

LEMMA FdDone ==
  ASSUME IInv, DispatchReturns, NEW f \in FDs
  PROVE  FdKept(f) \/ FdFreed(f)
<1>1. table \in TableType /\ cur \in Procs
  BY DEF DispatchReturns, IInv, TableInv, TypeOK
<1>2. CASE table' = table
  BY <1>2 DEF FdKept
<1>3. CASE table' # table
  <2>1. /\ k'.proc[cur] = FreeSlot /\ k.proc[cur].blocked = << >>
        /\ table' = PrepollZombie(table, cur)
    BY <1>3, DoneIs
  <2>2. /\ \A g \in FDs : ~ (table.fd[g].allocated /\ table.fd[g].proc_id = cur) =>
             table'.fd[g] = table.fd[g]
        /\ \A g \in FDs : table.fd[g].allocated /\ table.fd[g].proc_id = cur =>
             ~ table'.fd[g].allocated
    BY <1>1, <2>1, ZombieIs
  <2>3. table'.dirty = table.dirty \cup AllocatedTo(table, cur)
    BY <1>1, <2>1 DEF PrepollZombie, TableType
  <2>4. ~ k'.proc[cur].alive
    BY <2>1 DEF FreeSlot
  <2> QED
    BY <1>1, <2>1, <2>2, <2>3, <2>4 DEF FdKept, FdFreed, AllocatedTo
<1> QED
  BY <1>2, <1>3

LEMMA FdStep ==
  ASSUME NEW W, SocketsApart, IInv, WaitInv(W), KernStep, NEW f \in FDs
  PROVE  FdKept(f) \/ FdTaken(f) \/ FdFreed(f)
<1>1. CASE PostpollFresh
  <2>1. table'.fd = table.fd /\ table'.dirty = table.dirty
    BY <1>1, FreshIs
  <2> QED
    BY <2>1 DEF FdKept
<1>2. CASE Dispatch \/ PostpollReturns \/ Close \/ Accept \/ AcceptFails
  BY <1>2 DEF Dispatch, PostpollReturns, Close, Accept, AcceptFails, FdKept
<1>3. CASE ExecuteReturns
  <2>1. cur \in Procs /\ table' = PrepollClosed(table, cur) /\ TableInv(table, k.proc)
    BY <1>3 DEF ExecuteReturns, IInv, TypeOK
  <2>2. table'.fd = table.fd /\ table'.dirty = table.dirty
    BY <2>1, ClosedIs
  <2> QED
    BY <2>2 DEF FdKept
<1> QED
  BY <1>1, <1>2, <1>3, FdPrepoll, FdDone DEF KernStep, Postpoll

----------------------------------------------------------------------------
(* It is kept *)

(* Between two epoll_wait, but for a close: epoll is told nothing, and     *)
(* added is reset for what is newly allocated.                             *)
LEMMA RefuseStep ==
  ASSUME NEW W, SocketsApart, IInv, IInv', SysInv, WaitInv(W), RefuseInv, KernStep,
         open \subseteq open', UNCHANGED << method, watch >>,
         \A f \in FDs : f \in added =>
           f \in added' \/ (~ table.fd[f].allocated /\ table'.fd[f].allocated)
  PROVE  RefuseInv'
<1>1. Registered' = Registered /\ Registered \subseteq open /\ Registered \subseteq FDs
  BY DEF Registered, SysInv, IInv, TypeOK
<1>2. /\ \A f \in FDs : table.fd[f].allocated =>
           /\ table.fd[f].proc_id \in Procs /\ k.proc[table.fd[f].proc_id].alive
           /\ f \in Descriptors(Base(k, table.fd[f].proc_id))
      /\ \A p, q \in Procs : k.proc[p].alive /\ k.proc[q].alive /\ p # q =>
           Descriptors(Base(k, p)) \cap Descriptors(Base(k, q)) = {}
  BY DEF IInv, TableInv, TableType, Descriptor, WaitInv, OwnInv
<1>3. \A f \in FDs : table'.fd[f].allocated => ~ table'.fd[f].zombie
  BY DEF IInv, TableInv
<1>4. cur \in Procs => k.proc[cur].alive /\ ~ k.proc[cur].run_qed
  BY KernAssumption DEF IInv, PhaseInv
<1>5. \A f \in FDs : FdKept(f) \/ FdTaken(f) \/ FdFreed(f)
  BY FdStep
<1>6. table'.dirty \subseteq FDs
  BY DEF IInv, TableInv, TableType
<1>7. ASSUME NEW f \in FDs, FdFreed(f), NEW p \in Procs, k.proc[p].alive, k'.proc[p].alive
      PROVE  f \notin Descriptors(Base(k, p))
  <2>1. /\ cur \in Procs /\ table.fd[f].allocated /\ table.fd[f].proc_id = cur
        /\ ~ k'.proc[cur].alive
    BY <1>7 DEF FdFreed, AllocatedTo
  <2> QED
    BY <1>2, <1>4, <1>7, <2>1
<1>8. ListenerInv'
  <2>1. ASSUME k'.proc[Main].alive, NEW f \in Descriptors(MainSockets)
        PROVE  ~ table'.fd[f].zombie
    <3>1. k.proc[Main].alive /\ Main \in Procs
      BY <2>1, KernAssumption, BaseStep
    <3>2. f \in FDs /\ f \in Descriptors(Base(k, Main)) /\ ~ table.fd[f].zombie
      BY <2>1, <3>1 DEF Descriptors, Base, RefuseInv, ListenerInv
    <3>3. ~ FdFreed(f)
      BY <1>7, <2>1, <3>1, <3>2
    <3>4. CASE FdKept(f)
      BY <3>2, <3>4 DEF FdKept
    <3>5. CASE FdTaken(f)
      BY <1>3, <3>2, <3>5 DEF FdTaken
    <3> QED
      BY <1>5, <3>2, <3>3, <3>4, <3>5
  <2> QED
    BY <2>1 DEF RefuseInv, ListenerInv
<1>9. CASE method # "EDGE"
  BY <1>8, <1>9 DEF RefuseInv
<1>10. CASE method = "EDGE"
  <2>1. Unadded /\ Forgotten /\ Settled /\ Gone
    BY <1>10 DEF RefuseInv
  <2>2. Unadded'
    <3> SUFFICES ASSUME NEW f \in FDs, table'.fd[f].allocated, f \notin added', f \in Registered
                 PROVE  FALSE
      BY <1>1 DEF Unadded
    <3>1. ~ table.fd[f].allocated
      BY <2>1 DEF Unadded
    <3>2. FdTaken(f)
      <4>1. ~ FdKept(f) /\ ~ FdFreed(f)
        BY <3>1 DEF FdKept, FdFreed, AllocatedTo
      <4> QED
        BY <1>5, <4>1
    <3>3. cur \in Procs /\ k.proc[cur].alive /\ f \in Descriptors(Base(k, cur))
      BY <1>4, <3>2 DEF FdTaken
    <3> QED
      BY <2>1, <3>1, <3>3 DEF Forgotten
  <2>3. Forgotten'
    <3> SUFFICES ASSUME NEW f \in Registered, ~ table'.fd[f].allocated,
                        NEW p \in Procs, k'.proc[p].alive, f \in Descriptors(Base(k', p))
                 PROVE  FALSE
      BY <1>1 DEF Forgotten
    <3>1. f \in FDs /\ f \in open
      BY <1>1
    <3>2. k.proc[p].alive /\ f \in Descriptors(Base(k, p))
      BY <3>1, BaseStep
    <3>3. ~ FdFreed(f)
      BY <1>7, <3>1, <3>2
    <3>4. ~ FdTaken(f)
      BY DEF FdTaken
    <3>5. ~ table.fd[f].allocated
      BY <1>5, <3>1, <3>3, <3>4 DEF FdKept
    <3> QED
      BY <2>1, <3>2, <3>5 DEF Forgotten
  <2>4. Settled'
    <3> SUFFICES ASSUME NEW p \in Procs \ {Main}, Busy(p)', NEW f \in FDs,
                        table'.fd[f].allocated, table'.fd[f].proc_id = p
                 PROVE  f \in added'
      BY DEF Settled, AllocatedTo
    <3>1. Busy(p) \/ ~ k.proc[p].alive
      BY BusyBefore
    <3>2. CASE FdKept(f)
      <4>1. table.fd[f].allocated /\ table.fd[f].proc_id = p
        BY <3>2 DEF FdKept
      <4>2. Busy(p)
        BY <1>2, <3>1, <4>1
      <4> QED
        BY <2>1, <4>1, <4>2 DEF Settled, AllocatedTo
    <3>3. CASE FdTaken(f)
      <4>1. p = cur /\ PrepollSocket
        BY <3>3 DEF FdTaken
      <4>2. /\ phase' = "register" /\ k' = k /\ todo # << >> /\ phase = "register"
            /\ todo \in Seq(Blocked)
        BY <4>1 DEF PrepollSocket, IInv, TypeOK
      <4>3. table'.fresh = {}
        BY <4>2 DEF IInv, PhaseInv
      <4>4. k.proc[cur].blocked # << >>
        <5>1. 1 \in 1 .. Len(todo)
          BY <4>2
        <5>2. In(k.proc[cur].blocked, todo[1])
          BY <5>1 DEF WaitInv, LoopInv
        <5> QED
          BY <5>2 DEF In
      <4>5. ~ In(k.run_procs, cur)
        BY <1>4, <4>1 DEF IInv, QueueInv
      <4>6. cur' = cur
        BY <4>1 DEF PrepollSocket
      <4> QED
        BY <4>1, <4>2, <4>3, <4>4, <4>5, <4>6 DEF Busy, Roused
    <3>4. ~ FdFreed(f)
      BY DEF FdFreed
    <3> QED
      BY <1>5, <3>2, <3>3, <3>4
  <2>5. Gone'
    <3> SUFFICES ASSUME NEW f \in table'.dirty, table'.fd[f].zombie
                 PROVE  f \in added' \/ (f \in Descriptors(MainSockets) /\ f \notin Registered)
      BY <1>1 DEF Gone
    <3>1. f \in FDs /\ ~ table'.fd[f].allocated
      BY <1>3, <1>6
    <3>2. CASE FdKept(f)
      BY <2>1, <3>1, <3>2 DEF FdKept, Gone
    <3>3. ~ FdTaken(f)
      BY <3>1 DEF FdTaken
    <3>4. CASE FdFreed(f)
      <4>1. /\ cur \in Procs /\ table.fd[f].allocated /\ table.fd[f].proc_id = cur
            /\ k.proc[cur].blocked = << >>
        BY <3>4 DEF FdFreed, AllocatedTo
      <4>2. CASE cur = Main
        <5>1. f \in Descriptors(MainSockets)
          BY <1>2, <3>1, <4>1, <4>2 DEF Base
        <5> QED
          BY <2>1, <3>1, <4>1, <5>1 DEF Unadded
      <4>3. CASE cur # Main
        <5>1. Busy(cur)
          BY <4>1 DEF Busy
        <5>2. f \in added
          BY <2>1, <3>1, <4>1, <4>3, <5>1 DEF Settled, AllocatedTo
        <5> QED
          BY <3>1, <5>2
      <4> QED
        BY <4>2, <4>3
    <3> QED
      BY <1>5, <3>1, <3>2, <3>3, <3>4
  <2> QED
    BY <1>8, <2>2, <2>3, <2>4, <2>5 DEF RefuseInv
<1> QED
  BY <1>9, <1>10

(* A close is of an accepted descriptor. *)
LEMMA RefuseCloses ==
  ASSUME SocketsApart, IInv, OwnInv, RefuseInv, Closes
  PROVE  RefuseInv'
<1>1. /\ cur # Main /\ Close /\ phase = "execute" /\ UNCHANGED << method, added >>
      /\ UNCHANGED << k, table, phase, cur, todo, looping, signo, shutdown >>
  BY DEF Closes, Close
<1>2. Registered' \subseteq Registered
  BY DEF Closes, Registered
<1>3. PICK g \in Descriptors(k.proc[cur].sockets) : open' = open \ {g}
  BY <1>1 DEF Close
<1>4. cur \in Procs \ {Main} /\ k.proc[cur].alive
  BY <1>1, KernAssumption DEF IInv, TypeOK, PhaseInv
<1>5. g \in Accepted
  <2>1. PICK h \in Accepted : Descriptors(Base(k, cur)) = {h}
    BY <1>4, OneDescriptor
  <2> QED
    BY <1>1, <1>3, <2>1 DEF Base
<1>6. g \notin Descriptors(MainSockets)
  BY <1>5 DEF SocketsApart, Descriptors
<1>7. ListenerInv'
  BY <1>1, <1>3, <1>6 DEF RefuseInv, ListenerInv
<1>8. Unadded /\ Forgotten /\ Settled /\ Gone => (Unadded /\ Forgotten /\ Settled /\ Gone)'
  BY <1>1, <1>2 DEF Unadded, Forgotten, Settled, Gone, Busy, Roused
<1> QED
  BY <1>1, <1>7, <1>8 DEF RefuseInv

(* What is registered is allocated, or the listener's that has ended.      *)
LEMMA RefuseRegister ==
  ASSUME SocketsApart, IInv, OwnInv, RefuseInv, Register
  PROVE  RefuseInv'
<1>1. /\ cur = NoProc /\ table.fresh = {}
      /\ UNCHANGED << k, open, cur, method >>
      /\ \/ phase' = "done" /\ UNCHANGED << table, added, watch, queue >>
         \/ /\ phase' = "wait" /\ table'.fd = table.fd /\ table'.dirty = {} /\ table'.fresh = {}
            /\ added' = added \cup ToRegister
            /\ Registered' = Registered \cup ToRegister
  BY RegisterIs
<1>2. cur \notin Procs
  BY <1>1, KernAssumption
<1>3. Registered' = Registered \/ phase' = "wait"
  BY <1>1 DEF Registered
<1>4. table'.fd = table.fd /\ table'.fresh = table.fresh /\ added \subseteq added'
  BY <1>1
<1>5. ListenerInv'
  BY <1>1, <1>4 DEF RefuseInv, ListenerInv
<1>6. CASE method # "EDGE"
  BY <1>1, <1>5, <1>6 DEF RefuseInv
<1>7. CASE method = "EDGE"
  <2>1. Unadded /\ Forgotten /\ Settled /\ Gone
    BY <1>7 DEF RefuseInv
  <2>2. ASSUME NEW f \in ToRegister, ~ table.fd[f].allocated, NEW p \in Procs, k.proc[p].alive
        PROVE  f \notin Descriptors(Base(k, p))
    <3>1. f \in table.dirty /\ f \notin added /\ f \in FDs
      BY <1>7 DEF ToRegister, IInv, TableInv, TableType
    <3>2. table.fd[f].zombie
      BY <2>2, <3>1 DEF IInv, TableInv
    <3>3. f \in Descriptors(MainSockets)
      BY <2>1, <3>1, <3>2 DEF Gone
    <3>4. p # Main
      BY <2>2, <3>2, <3>3 DEF RefuseInv, ListenerInv
    <3>5. PICK g \in Accepted : Descriptors(Base(k, p)) = {g}
      BY <2>2, <3>4, OneDescriptor
    <3>6. g \notin Descriptors(MainSockets)
      BY DEF SocketsApart, Descriptors
    <3> QED
      BY <3>3, <3>5, <3>6
  <2>3. Settled'
    BY <1>1, <1>2, <1>4, <2>1 DEF Settled, Busy, Roused, AllocatedTo
  <2>4. CASE phase' = "wait" /\ table'.dirty = {} /\ added' = added \cup ToRegister
             /\ Registered' = Registered \cup ToRegister
    <3>1. Unadded'
      BY <1>4, <2>1, <2>4 DEF Unadded
    <3>2. Forgotten'
      BY <1>1, <1>4, <2>1, <2>2, <2>4 DEF Forgotten
    <3>3. Gone'
      BY <2>4 DEF Gone
    <3> QED
      BY <1>5, <2>3, <3>1, <3>2, <3>3 DEF RefuseInv
  <2>5. CASE UNCHANGED << table, added, watch, queue >>
    <3>1. Registered' = Registered
      BY <2>5 DEF Registered
    <3>2. Unadded' /\ Forgotten' /\ Gone'
      BY <1>1, <2>1, <2>5, <3>1 DEF Unadded, Forgotten, Gone
    <3> QED
      BY <1>5, <2>3, <3>2 DEF RefuseInv
  <2> QED
    BY <1>1, <2>4, <2>5
<1> QED
  BY <1>6, <1>7

(* What is reported was added, and is all its process has. *)
LEMMA RefuseWaitReturns ==
  ASSUME IInv, SysInv, OwnInv, RefuseInv, WaitReturns
  PROVE  RefuseInv'
<1>1. /\ cur = NoProc /\ UNCHANGED << k, open, cur, method, added >>
      /\ table'.dirty = {} /\ Registered' = Registered
      /\ \A f \in FDs : /\ table'.fd[f].allocated = table.fd[f].allocated
                        /\ table'.fd[f].zombie = table.fd[f].zombie
                        /\ table'.fd[f].proc_id = table.fd[f].proc_id
      /\ \A f \in table'.fresh : f \in Registered /\ ~ table.fd[f].zombie
  BY WaitReturnsIs
<1>2. Registered \subseteq FDs /\ (\A f \in Registered : Held(table, f)) /\ cur \notin Procs
  BY <1>1, KernAssumption DEF SysInv, IInv, TypeOK
<1>3. ListenerInv'
  BY <1>1 DEF RefuseInv, ListenerInv, Descriptors
<1>4. CASE method # "EDGE"
  BY <1>1, <1>3, <1>4 DEF RefuseInv
<1>5. CASE method = "EDGE"
  <2>1. Unadded /\ Forgotten /\ Settled
    BY <1>5 DEF RefuseInv
  <2>2. Unadded' /\ Forgotten' /\ Gone'
    BY <1>1, <1>2, <2>1 DEF Unadded, Forgotten, Gone
  <2>3. Settled'
    <3> SUFFICES ASSUME NEW p \in Procs \ {Main}, Busy(p)', NEW f \in FDs,
                        table.fd[f].allocated, table.fd[f].proc_id = p
                 PROVE  f \in added
      BY <1>1 DEF Settled, AllocatedTo
    <3>1. Roused(k', table', p)
      BY <1>1, <1>2 DEF Busy
    <3>2. CASE In(k.run_procs, p)
      BY <2>1, <3>2 DEF Settled, Busy, Roused, AllocatedTo
    <3>3. CASE ~ In(k.run_procs, p)
      <4>1. PICK g \in table'.fresh : table'.fd[g].proc_id = p
        BY <1>1, <3>1, <3>3 DEF Roused
      <4>2. g \in FDs /\ g \in Registered /\ table.fd[g].allocated /\ table.fd[g].proc_id = p
        BY <1>1, <1>2, <4>1 DEF Held
      <4>3. k.proc[p].alive /\ f \in Descriptors(Base(k, p)) /\ g \in Descriptors(Base(k, p))
        BY <4>2 DEF OwnInv, IInv, TableInv
      <4>4. f = g
        BY <4>3, OneDescriptor
      <4> QED
        BY <2>1, <4>2, <4>4 DEF Unadded
    <3> QED
      BY <3>2, <3>3
  <2> QED
    BY <1>3, <2>2, <2>3 DEF RefuseInv
<1> QED
  BY <1>4, <1>5

(* It holds when the loop starts, *)
LEMMA InitRefuse == EpollInit => RefuseInv
<1> SUFFICES ASSUME EpollInit PROVE RefuseInv
  OBVIOUS
<1>1. /\ open = Descriptors(MainSockets) /\ Registered = {} /\ cur = NoProc
      /\ table.dirty = {} /\ table.fd = [f \in FDs |-> FreeFd]
  BY DEF EpollInit, Init, Registered
<1>2. \A f \in FDs : ~ table.fd[f].allocated /\ ~ table.fd[f].zombie
  BY <1>1 DEF FreeFd
<1>3. ListenerInv
  BY <1>1, <1>2 DEF ListenerInv, Descriptors
<1>4. Unadded /\ Forgotten /\ Settled /\ Gone
  BY <1>1, <1>2 DEF Unadded, Forgotten, Settled, Gone, AllocatedTo
<1> QED
  BY <1>3, <1>4 DEF RefuseInv

(* and every step keeps it. *)
LEMMA NextRefuse ==
  ASSUME SocketsApart, IInv, IInv', SysInv, EdgeWaitInv, RefuseInv,
         [EpollNext]_<< vars, epvars >>
  PROVE  RefuseInv'
<1>1. PICK W : W = Watches
  OBVIOUS
<1>2. WaitInv(W) /\ OwnInv
  BY <1>1 DEF EdgeWaitInv, WaitInv
<1>3. CASE (Around /\ UNCHANGED epvars) \/ Returns
  <2>1. KernStep /\ UNCHANGED << open, method, watch, added >>
    BY <1>3 DEF Around, epvars, Returns, KernStep, Postpoll, PostpollFresh, Dispatch,
                PostpollReturns, DispatchReturns, ExecuteReturns
  <2> QED
    BY <1>2, <2>1, RefuseStep
<1>4. CASE Prepolls
  <2>1. /\ KernStep /\ UNCHANGED << open, method, watch >>
        /\ \A f \in FDs : f \in added =>
             f \in added' \/ (~ table.fd[f].allocated /\ table'.fd[f].allocated)
    BY <1>4 DEF Prepolls, KernStep, PrepollSocket
  <2> QED
    BY <1>2, <2>1, RefuseStep
<1>5. CASE Accepts
  <2>1. KernStep /\ UNCHANGED << method, watch, added >> /\ open \subseteq open'
    BY <1>5 DEF Accepts, KernStep, Accept, AcceptFails
  <2> QED
    BY <1>2, <2>1, RefuseStep
<1>6. CASE Arrive \/ Drain \/ UNCHANGED << vars, epvars >>
  <2>1. UNCHANGED << k, table, open, phase, cur, method, added, watch >>
    BY <1>6 DEF Arrive, Drain, vars, epvars
  <2> QED
    BY <2>1 DEF RefuseInv, ListenerInv, Unadded, Forgotten, Settled, Gone, Busy, Roused, Registered
<1> QED
  BY <1>2, <1>3, <1>4, <1>5, <1>6, RefuseCloses, RefuseRegister, RefuseWaitReturns
     DEF EpollNext, EpollLoop

THEOREM EpollRefuseInvariant == ~ Lingers /\ SocketsApart => (EpollSpec => []RefuseInv)
<1> SUFFICES ASSUME ~ Lingers, SocketsApart PROVE EpollSpec => []RefuseInv
  OBVIOUS
<1>1. EpollInit => RefuseInv
  BY InitRefuse
<1>2. (IInv /\ SysInv) /\ (IInv /\ SysInv)' /\ EdgeWaitInv /\ RefuseInv
        /\ [EpollNext]_<< vars, epvars >> => RefuseInv'
  BY NextRefuse
<1>3. EpollSpec => []EdgeWaitInv
  BY EpollEdgeInvariant
<1> QED
  BY <1>1, <1>2, <1>3, EpollInvariant, PTL DEF EpollSpec

(* There, with edges, no epoll_ctl is refused: what the loop registers is  *)
(* open and not registered, although neither a close nor a descriptor      *)
(* number that comes back is told to the table.                            *)
THEOREM EpollEdgeNeverRefused ==
  ~ Lingers /\ SocketsApart => (EpollSpec => []EdgeNeverRefused)
<1> SUFFICES ASSUME ~ Lingers, SocketsApart PROVE EpollSpec => []EdgeNeverRefused
  OBVIOUS
<1>1. IInv /\ SysInv /\ EdgeWaitInv /\ RefuseInv => EdgeNeverRefused
  <2> SUFFICES ASSUME IInv, SysInv, EdgeWaitInv, RefuseInv, method = "EDGE", phase = "prepoll",
                      NEW f \in ToRegister
               PROVE  ~ Refused(f)
    BY DEF EdgeNeverRefused
  <2>1. Unadded /\ Gone /\ Descriptors(MainSockets) \subseteq open
    BY DEF RefuseInv, ListenerInv
  <2>2. f \in table.dirty /\ f \notin added /\ f \in FDs
    BY DEF ToRegister, IInv, TableInv, TableType
  <2>3. CASE table.fd[f].allocated
    <3>1. cur = NoProc
      BY KernAssumption DEF IInv, TypeOK, PhaseInv
    <3>2. PICK p \in Procs : p = table.fd[f].proc_id
      BY <2>2 DEF IInv, TableInv, TableType, Descriptor
    <3>3. k.proc[p].alive /\ p # cur /\ f \in Descriptors(Base(k, p))
      BY <2>2, <2>3, <3>1, <3>2, KernAssumption DEF IInv, TableInv, EdgeWaitInv, WaitInv, OwnInv
    <3>4. f \in open
      BY <3>3 DEF EdgeWaitInv, WaitInv, OwnInv
    <3> QED
      BY <2>1, <2>2, <2>3, <3>4 DEF Unadded, Refused
  <2>4. CASE ~ table.fd[f].allocated
    <3>1. table.fd[f].zombie
      BY <2>2, <2>4 DEF IInv, TableInv
    <3> QED
      BY <2>1, <2>2, <3>1 DEF Gone, Refused
  <2> QED
    BY <2>3, <2>4
<1>2. EpollSpec => []EdgeWaitInv
  BY EpollEdgeInvariant
<1>3. EpollSpec => []RefuseInv
  BY EpollRefuseInvariant
<1> QED
  BY <1>1, <1>2, <1>3, EpollInvariant, PTL
=============================================================================
