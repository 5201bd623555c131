----------------------------- MODULE KernProofs -----------------------------
(***************************************************************************)
(* For every pool of processes and every descriptor table: the lists of    *)
(* the kernel are sound, and nothing that was freed is dispatched.         *)
(*                                                                         *)
(* The argument.  A queued process is alive; the executing process is      *)
(* alive and on no run list, so that freeing it when neither flag is set   *)
(* leaves no reference in the lists.  A descriptor can only produce news   *)
(* while it is allocated, an allocated descriptor belongs to a live        *)
(* process, and a process is only freed when there is no news (fresh is    *)
(* drained before the first dispatch).                                     *)
(***************************************************************************)
EXTENDS Kern, TLAPS

In(q, p) == \E i \in 1 .. Len(q) : q[i] = p
Once(q)  == \A i, j \in 1 .. Len(q) : q[i] = q[j] => i = j

KernType == [run_procs : Seq(Procs), blocked_procs : SUBSET Procs, proc : [Procs -> Process]]
TableType == [fd : [FDs -> Descriptor], dirty : SUBSET FDs, fresh : SUBSET FDs,
              polled : SUBSET FDs]

\* What the queues of the kernel satisfy between any two of its calls.
QueueInv(s) ==
  /\ s \in KernType
  /\ Once(s.run_procs)
  /\ \A p \in Procs : In(s.run_procs, p) => s.proc[p].run_qed
  /\ \A p \in Procs : p \in s.blocked_procs <=> s.proc[p].blocked_qed
  /\ \A p \in Procs : s.proc[p].run_qed \/ s.proc[p].blocked_qed => s.proc[p].alive

\* What the descriptor table satisfies, given the processes.
TableInv(t, proc) ==
  /\ t \in TableType
  /\ \A f \in FDs : t.fd[f].allocated =>
                      proc[t.fd[f].proc_id].alive /\ ~ t.fd[f].zombie /\ ~ t.fd[f].closed
  /\ \A f \in FDs : t.fd[f].shut => t.fd[f].zombie
  /\ \A f \in t.dirty : t.fd[f].allocated \/ t.fd[f].zombie
  /\ \A f \in t.fresh : t.fd[f].allocated

PhaseInv ==
  /\ phase # "postpoll" => table.fresh = {}
  /\ phase = "wait" => \A f \in table.polled : table.fd[f].allocated
  /\ cur # NoProc => k.proc[cur].alive /\ ~ k.proc[cur].run_qed

IInv == TypeOK /\ QueueInv(k) /\ TableInv(table, k.proc) /\ PhaseInv

----------------------------------------------------------------------------
(* Sequences *)

(* SLIST_INSERT_HEAD of a process that is not listed keeps the list free   *)
(* of duplicates and adds that process only.                               *)
LEMMA InsertHead ==
  ASSUME NEW q \in Seq(Procs), NEW p \in Procs, Once(q), ~ In(q, p)
  PROVE  /\ << p >> \o q \in Seq(Procs)
         /\ Once(<< p >> \o q)
         /\ \A r \in Procs : In(<< p >> \o q, r) => r = p \/ In(q, r)
<1> DEFINE h == << p >> \o q
<1>1. h \in Seq(Procs) /\ Len(h) = Len(q) + 1 /\ Len(q) \in Nat
  OBVIOUS
<1>2. \A i \in 1 .. Len(h) : h[i] = IF i = 1 THEN p ELSE q[i - 1]
  OBVIOUS
<1>3. \A i \in 2 .. Len(h) : i - 1 \in 1 .. Len(q) /\ h[i] = q[i - 1]
  BY <1>1, <1>2
<1> HIDE DEF h
<1>4. Once(h)
  <2> SUFFICES ASSUME NEW i \in 1 .. Len(h), NEW j \in 1 .. Len(h), h[i] = h[j]
               PROVE  i = j
    BY DEF Once
  <2>1. CASE i = 1 /\ j = 1
    BY <2>1
  <2>2. CASE i = 1 /\ j # 1
    <3>1. h[i] = p
      BY <2>2, <1>2
    <3>2. j \in 2 .. Len(h)
      BY <2>2, <1>1
    <3>3. j - 1 \in 1 .. Len(q) /\ q[j - 1] = p
      BY <3>1, <3>2, <1>3
    <3> QED BY <3>3 DEF In
  <2>3. CASE i # 1 /\ j = 1
    <3>1. h[j] = p
      BY <2>3, <1>2
    <3>2. i \in 2 .. Len(h)
      BY <2>3, <1>1
    <3>3. i - 1 \in 1 .. Len(q) /\ q[i - 1] = p
      BY <3>1, <3>2, <1>3
    <3> QED BY <3>3 DEF In
  <2>4. CASE i # 1 /\ j # 1
    <3>1. i - 1 = j - 1
      BY <2>4, <1>1, <1>3 DEF Once
    <3> QED BY <3>1, <1>1
  <2> QED BY <2>1, <2>2, <2>3, <2>4
<1>5. ASSUME NEW r \in Procs, In(h, r) PROVE r = p \/ In(q, r)
  <2>1. PICK i \in 1 .. Len(h) : h[i] = r
    BY <1>5 DEF In
  <2>2. CASE i = 1
    BY <2>1, <2>2, <1>2
  <2>3. CASE i # 1
    BY <2>1, <2>3, <1>1, <1>3 DEF In
  <2> QED BY <2>2, <2>3
<1> QED BY <1>1, <1>4, <1>5 DEF h

(* SLIST_REMOVE_HEAD: the head is gone from a list without duplicates.     *)
LEMMA RemoveHead ==
  ASSUME NEW q \in Seq(Procs), q # << >>, Once(q)
  PROVE  /\ Head(q) \in Procs /\ In(q, Head(q))
         /\ Tail(q) \in Seq(Procs) /\ Once(Tail(q))
         /\ ~ In(Tail(q), Head(q))
         /\ \A r \in Procs : In(Tail(q), r) => In(q, r)
<1> DEFINE t == Tail(q)
<1>1. t \in Seq(Procs) /\ Len(t) = Len(q) - 1 /\ Len(q) \in Nat /\ Len(q) # 0
  OBVIOUS
<1>2. \A i \in 1 .. Len(t) : i + 1 \in 1 .. Len(q) /\ t[i] = q[i + 1]
  OBVIOUS
<1>3. Head(q) = q[1] /\ 1 \in 1 .. Len(q) /\ Head(q) \in Procs
  OBVIOUS
<1> HIDE DEF t
<1>4. Once(t)
  <2> SUFFICES ASSUME NEW i \in 1 .. Len(t), NEW j \in 1 .. Len(t), t[i] = t[j]
               PROVE  i = j
    BY DEF Once
  <2>1. i + 1 = j + 1
    BY <1>2 DEF Once
  <2> QED BY <2>1, <1>1
<1>5. ~ In(t, Head(q))
  <2> SUFFICES ASSUME NEW i \in 1 .. Len(t), t[i] = Head(q) PROVE FALSE
    BY DEF In
  <2>1. i + 1 = 1
    BY <1>2, <1>3 DEF Once
  <2> QED BY <2>1, <1>1
<1>6. \A r \in Procs : In(t, r) => In(q, r)
  BY <1>2 DEF In
<1> QED BY <1>1, <1>3, <1>4, <1>5, <1>6 DEF t, In

----------------------------------------------------------------------------
(* The queue operations *)

(* vk_kern_enqueue_run of a live process keeps the queues sound, and       *)
(* changes the run flag of that process only.                              *)
LEMMA EnqueueRunSound ==
  ASSUME NEW s, NEW p \in Procs, QueueInv(s), s.proc[p].alive
  PROVE  /\ QueueInv(EnqueueRun(s, p))
         /\ EnqueueRun(s, p).proc[p].run_qed
         /\ \A r \in Procs :
              /\ EnqueueRun(s, p).proc[r].alive = s.proc[r].alive
              /\ r # p => EnqueueRun(s, p).proc[r].run_qed = s.proc[r].run_qed
         /\ EnqueueRun(s, p).proc[p].blocked = s.proc[p].blocked
         /\ EnqueueRun(s, p).proc[p].blocked_qed = s.proc[p].blocked_qed
<1>1. CASE s.proc[p].run_qed
  BY <1>1 DEF EnqueueRun
<1>2. CASE ~ s.proc[p].run_qed
  <2> DEFINE q == s.run_procs
             e == [s EXCEPT !.proc[p].run_qed = TRUE, !.run_procs = << p >> \o @]
  <2>1. s \in KernType /\ q \in Seq(Procs) /\ Once(q) /\ ~ In(q, p)
    BY <1>2 DEF QueueInv, KernType
  <2>2. /\ << p >> \o q \in Seq(Procs)
        /\ Once(<< p >> \o q)
        /\ \A r \in Procs : In(<< p >> \o q, r) => r = p \/ In(q, r)
    BY <2>1, InsertHead
  <2>3. /\ e.run_procs = << p >> \o q
        /\ e.blocked_procs = s.blocked_procs
        /\ e.proc = [s.proc EXCEPT ![p].run_qed = TRUE]
    BY <2>1 DEF KernType
  <2>5. [s.proc EXCEPT ![p].run_qed = TRUE] \in [Procs -> Process]
    BY <2>1 DEF KernType, Process
  <2>6. e \in KernType
    BY <2>1, <2>2, <2>5 DEF KernType
  <2>7. /\ \A r \in Procs \ {p} : e.proc[r] = s.proc[r]
        /\ e.proc[p].run_qed
        /\ e.proc[p].alive = s.proc[p].alive
        /\ e.proc[p].blocked_qed = s.proc[p].blocked_qed
        /\ e.proc[p].blocked = s.proc[p].blocked
    BY <2>1, <2>3 DEF KernType, Process
  <2> HIDE DEF e, q
  <2>8. QueueInv(e)
    BY <2>2, <2>3, <2>6, <2>7 DEF QueueInv, q
  <2>9. EnqueueRun(s, p) = e
    BY <1>2 DEF EnqueueRun, e
  <2> QED BY <2>7, <2>8, <2>9
<1> QED BY <1>1, <1>2

(* vk_kern_enqueue_blocked and vk_kern_drop_blocked keep the queues sound  *)
(* and change the blocked flag of that process only.                       *)
LEMMA EnqueueBlockedSound ==
  ASSUME NEW s, NEW p \in Procs, QueueInv(s), s.proc[p].alive
  PROVE  /\ QueueInv(EnqueueBlocked(s, p))
         /\ EnqueueBlocked(s, p).proc[p].blocked_qed
         /\ \A r \in Procs : /\ EnqueueBlocked(s, p).proc[r].alive = s.proc[r].alive
                             /\ EnqueueBlocked(s, p).proc[r].run_qed = s.proc[r].run_qed
<1>1. CASE s.proc[p].blocked_qed
  BY <1>1 DEF EnqueueBlocked
<1>2. CASE ~ s.proc[p].blocked_qed
  <2> DEFINE e == [s EXCEPT !.proc[p].blocked_qed = TRUE, !.blocked_procs = @ \cup {p}]
  <2>1. s \in KernType
    BY DEF QueueInv
  <2>2. /\ e.run_procs = s.run_procs
        /\ e.blocked_procs = s.blocked_procs \cup {p}
        /\ e.proc = [s.proc EXCEPT ![p].blocked_qed = TRUE]
    BY <2>1 DEF KernType
  <2>3. [s.proc EXCEPT ![p].blocked_qed = TRUE] \in [Procs -> Process]
    BY <2>1 DEF KernType, Process
  <2>4. e \in KernType
    BY <2>1, <2>2, <2>3 DEF KernType
  <2>5. /\ \A r \in Procs \ {p} : e.proc[r] = s.proc[r]
        /\ e.proc[p].blocked_qed
        /\ e.proc[p].alive = s.proc[p].alive
        /\ e.proc[p].run_qed = s.proc[p].run_qed
    BY <2>1, <2>2, ZenonT(40) DEF KernType, Process
  <2>6. e.run_procs = s.run_procs /\ e.blocked_procs = s.blocked_procs \cup {p}
    BY <2>2
  <2> HIDE DEF e
  <2>7. QueueInv(e)
    BY <2>4, <2>5, <2>6 DEF QueueInv
  <2>8. EnqueueBlocked(s, p) = e
    BY <1>2 DEF EnqueueBlocked, e
  <2> QED BY <2>5, <2>7, <2>8
<1> QED BY <1>1, <1>2

LEMMA DropBlockedSound ==
  ASSUME NEW s, NEW p \in Procs, QueueInv(s)
  PROVE  /\ QueueInv(DropBlocked(s, p))
         /\ ~ DropBlocked(s, p).proc[p].blocked_qed
         /\ \A r \in Procs : /\ DropBlocked(s, p).proc[r].alive = s.proc[r].alive
                             /\ DropBlocked(s, p).proc[r].run_qed = s.proc[r].run_qed
<1>1. CASE ~ s.proc[p].blocked_qed
  BY <1>1 DEF DropBlocked
<1>2. CASE s.proc[p].blocked_qed
  <2> DEFINE e == [s EXCEPT !.proc[p].blocked_qed = FALSE, !.blocked_procs = @ \ {p}]
  <2>1. s \in KernType
    BY DEF QueueInv
  <2>2. /\ e.run_procs = s.run_procs
        /\ e.blocked_procs = s.blocked_procs \ {p}
        /\ e.proc = [s.proc EXCEPT ![p].blocked_qed = FALSE]
    BY <2>1 DEF KernType
  <2>3. [s.proc EXCEPT ![p].blocked_qed = FALSE] \in [Procs -> Process]
    BY <2>1 DEF KernType, Process
  <2>4. e \in KernType
    BY <2>1, <2>2, <2>3 DEF KernType
  <2>5. /\ \A r \in Procs \ {p} : e.proc[r] = s.proc[r]
        /\ ~ e.proc[p].blocked_qed
        /\ e.proc[p].alive = s.proc[p].alive
        /\ e.proc[p].run_qed = s.proc[p].run_qed
    BY <2>1, <2>2 DEF KernType, Process
  <2>6. e.run_procs = s.run_procs /\ e.blocked_procs = s.blocked_procs \ {p}
    BY <2>2
  <2> HIDE DEF e
  <2>7. QueueInv(e)
    BY <2>4, <2>5, <2>6 DEF QueueInv
  <2>8. DropBlocked(s, p) = e
    BY <1>2 DEF DropBlocked, e
  <2> QED BY <2>5, <2>7, <2>8
<1> QED BY <1>1, <1>2

(* The end of the listener's loop touches no queue and frees nothing.      *)
LEMMA StopListeningSound ==
  ASSUME NEW s, QueueInv(s)
  PROVE  /\ QueueInv(StopListening(s))
         /\ \A r \in Procs : /\ StopListening(s).proc[r].alive = s.proc[r].alive
                             /\ StopListening(s).proc[r].run_qed = s.proc[r].run_qed
<1> DEFINE n == [s.proc[Main] EXCEPT !.sockets = {}]
           e == StopListening(s)
<1>1. s \in KernType /\ Main \in Procs /\ s.proc[Main] \in Process
  BY KernAssumption DEF QueueInv, KernType
<1>2. /\ n \in Process /\ n.alive = s.proc[Main].alive /\ n.run_qed = s.proc[Main].run_qed
      /\ n.blocked_qed = s.proc[Main].blocked_qed
  BY <1>1 DEF Process
<1>3. e = [s EXCEPT !.proc[Main] = n]
  BY <1>1 DEF StopListening, KernType
<1> HIDE DEF n, e
<1>4. /\ e \in KernType /\ e.run_procs = s.run_procs /\ e.blocked_procs = s.blocked_procs
      /\ e.proc = [s.proc EXCEPT ![Main] = n]
  BY <1>1, <1>2, <1>3 DEF KernType
<1>5. \A r \in Procs : /\ e.proc[r].alive = s.proc[r].alive
                       /\ e.proc[r].run_qed = s.proc[r].run_qed
                       /\ e.proc[r].blocked_qed = s.proc[r].blocked_qed
  BY <1>1, <1>2, <1>4 DEF KernType
<1>6. QueueInv(e)
  BY <1>4, <1>5 DEF QueueInv
<1> QED BY <1>5, <1>6 DEF e

(* vk_kern_flush_proc_queues of a live process that is not queued to run   *)
(* without being runnable keeps the queues sound, frees nothing, and       *)
(* touches the run flag of no other process.                               *)
LEMMA FlushSound ==
  ASSUME NEW s, NEW p \in Procs, QueueInv(s), s.proc[p].alive,
         s.proc[p].run \/ ~ s.proc[p].run_qed
  PROVE  /\ QueueInv(FlushProcQueues(s, p))
         /\ \A r \in Procs :
              /\ FlushProcQueues(s, p).proc[r].alive = s.proc[r].alive
              /\ r # p => FlushProcQueues(s, p).proc[r].run_qed = s.proc[r].run_qed
<1> DEFINE e == IF s.proc[p].run THEN EnqueueRun(s, p) ELSE DropRun(s, p)
<1>1. /\ QueueInv(e)
      /\ \A r \in Procs : /\ e.proc[r].alive = s.proc[r].alive
                          /\ r # p => e.proc[r].run_qed = s.proc[r].run_qed
  BY EnqueueRunSound DEF DropRun
<1>2. FlushProcQueues(s, p) =
        IF e.proc[p].blocked # << >> THEN EnqueueBlocked(e, p) ELSE DropBlocked(e, p)
  BY DEF FlushProcQueues
<1> HIDE DEF e
<1> QED BY <1>1, <1>2, EnqueueBlockedSound, DropBlockedSound

----------------------------------------------------------------------------
(* The descriptor table *)

(* Registering a blocked descriptor for a live process: it is allocated,   *)
(* to that process or to the live one that has it already.                 *)
LEMMA PrepollFdSound ==
  ASSUME NEW t, NEW proc, NEW f \in FDs, NEW ev \in SUBSET Events, NEW p \in Procs,
         TableInv(t, proc), proc[p].alive
  PROVE  TableInv(PrepollBlockedFd(t, f, ev, p), proc)
         /\ PrepollBlockedFd(t, f, ev, p).fresh = t.fresh
<1> DEFINE a == Allocate(t, f, p)
           b == [a EXCEPT !.fd[f] = [@ EXCEPT !.events = ev, !.shut = FALSE]]
           r == PrepollBlockedFd(t, f, ev, p)
<1>1. t \in TableType
  BY DEF TableInv
<1>2. /\ a \in TableType /\ a.dirty = t.dirty /\ a.fresh = t.fresh /\ a.polled = t.polled
      /\ \A g \in FDs \ {f} : a.fd[g] = t.fd[g]
      /\ a.fd[f].allocated
      /\ proc[a.fd[f].proc_id].alive /\ ~ a.fd[f].zombie /\ ~ a.fd[f].closed
  <2>1. CASE t.fd[f].allocated
    BY <1>1, <2>1 DEF Allocate, TableInv, TableType
  <2>2. CASE ~ t.fd[f].allocated
    BY <1>1, <2>2, ZenonT(40) DEF Allocate, TableType, Descriptor
  <2> QED BY <2>1, <2>2
<1> HIDE DEF a
<1>3. /\ b \in TableType /\ b.dirty = t.dirty /\ b.fresh = t.fresh /\ b.polled = t.polled
      /\ \A g \in FDs \ {f} : b.fd[g] = t.fd[g]
      /\ b.fd[f].allocated /\ ~ b.fd[f].shut
      /\ proc[b.fd[f].proc_id].alive /\ ~ b.fd[f].zombie /\ ~ b.fd[f].closed
  BY <1>2 DEF TableType, Descriptor
<1> HIDE DEF b
<1>4. r = IF ev # {} THEN [b EXCEPT !.dirty = @ \cup {f}] ELSE b
  BY DEF PrepollBlockedFd, a, b
<1> HIDE DEF r
<1>5. /\ r \in TableType /\ r.fd = b.fd /\ r.fresh = b.fresh
      /\ r.dirty \subseteq b.dirty \cup {f}
  BY <1>3, <1>4 DEF TableType
<1>6. TableInv(r, proc)
  BY <1>1, <1>3, <1>5 DEF TableInv, TableType
<1> QED BY <1>3, <1>5, <1>6 DEF r

LEMMA PrepollSocketSound ==
  ASSUME NEW t, NEW proc, NEW b \in Blocked, NEW p \in Procs,
         TableInv(t, proc), proc[p].alive
  PROVE  TableInv(PrepollBlockedSocket(t, b, p), proc)
         /\ PrepollBlockedSocket(t, b, p).fresh = t.fresh
<1> DEFINE r == IF b.rx # NoFD THEN PrepollBlockedFd(t, b.rx, b.ev \cap {"IN"}, p) ELSE t
<1>1. /\ b.rx \in FDs \cup {NoFD} /\ b.tx \in FDs \cup {NoFD}
      /\ b.ev \cap {"IN"} \in SUBSET Events /\ b.ev \cap {"OUT"} \in SUBSET Events
  BY DEF Blocked, Events
<1>2. TableInv(r, proc) /\ r.fresh = t.fresh
  BY <1>1, PrepollFdSound
<1>3. PrepollBlockedSocket(t, b, p) =
        IF b.tx # NoFD /\ b.tx # b.rx
        THEN PrepollBlockedFd(r, b.tx, b.ev \cap {"OUT"}, p) ELSE r
  BY DEF PrepollBlockedSocket
<1> HIDE DEF r
<1> QED BY <1>1, <1>2, <1>3, PrepollFdSound

(* A zombie's descriptors leave it, and none of the others change hands.   *)
LEMMA PrepollZombieSound ==
  ASSUME NEW t, NEW proc, NEW after, NEW p \in Procs, TableInv(t, proc), t.fresh = {},
         \A r \in Procs \ {p} : after[r].alive = proc[r].alive
  PROVE  TableInv(PrepollZombie(t, p), after) /\ PrepollZombie(t, p).fresh = {}
<1> DEFINE G == AllocatedTo(t, p)
           e == [f \in FDs |-> IF f \in G
                               THEN [t.fd[f] EXCEPT !.shut = TRUE, !.zombie = TRUE,
                                                    !.allocated = FALSE]
                               ELSE t.fd[f]]
           z == PrepollZombie(t, p)
<1>1. t \in TableType /\ t.fd \in [FDs -> Descriptor]
  BY DEF TableInv, TableType
<1>2. \A f \in G : /\ e[f] \in Descriptor /\ e[f].shut /\ e[f].zombie
                   /\ ~ e[f].allocated
  BY <1>1 DEF Descriptor, AllocatedTo
<1>3. \A f \in FDs \ G : e[f] = t.fd[f] /\ e[f] \in Descriptor
  BY <1>1
<1>4. G \subseteq FDs /\ e \in [FDs -> Descriptor]
  BY <1>2, <1>3 DEF AllocatedTo
<1>5. /\ z.fd = e /\ z.fresh = t.fresh /\ z.polled = t.polled /\ z.dirty = t.dirty \cup G
      /\ z \in TableType
  BY <1>1, <1>4 DEF PrepollZombie, TableType
<1>6. \A f \in FDs : t.fd[f].allocated /\ f \notin G => t.fd[f].proc_id \in Procs \ {p}
  BY <1>1 DEF AllocatedTo, Descriptor
<1> HIDE DEF e, G, z
<1>7. ASSUME NEW f \in FDs, z.fd[f].allocated
      PROVE  after[z.fd[f].proc_id].alive /\ ~ z.fd[f].zombie /\ ~ z.fd[f].closed
  <2>1. f \notin G /\ z.fd[f] = t.fd[f]
    BY <1>2, <1>3, <1>5, <1>7
  <2>2. t.fd[f].proc_id \in Procs \ {p} /\ proc[t.fd[f].proc_id].alive
    BY <2>1, <1>6, <1>7 DEF TableInv
  <2> QED BY <2>1, <2>2, <1>7 DEF TableInv
<1>8. \A f \in FDs : z.fd[f].shut => z.fd[f].zombie
  BY <1>2, <1>3, <1>5 DEF TableInv
<1>9. \A f \in z.dirty : z.fd[f].allocated \/ z.fd[f].zombie
  BY <1>1, <1>2, <1>3, <1>4, <1>5 DEF TableInv, TableType
<1>10. TableInv(z, after)
  BY <1>5, <1>7, <1>8, <1>9 DEF TableInv
<1> QED BY <1>5, <1>10 DEF z

(* No allocated descriptor is marked closed: there is nothing to deallocate*)
(* before a live process is registered.                                    *)
LEMMA PrepollClosedSound ==
  ASSUME NEW t, NEW proc, NEW p \in Procs, TableInv(t, proc)
  PROVE  TableInv(PrepollClosed(t, p), proc) /\ PrepollClosed(t, p).fresh = t.fresh
<1> DEFINE e == [f \in FDs |-> t.fd[f]]
           c == PrepollClosed(t, p)
<1>1. t \in TableType /\ t.fd \in [FDs -> Descriptor]
  BY DEF TableInv, TableType
<1>2. {f \in AllocatedTo(t, p) : t.fd[f].closed} = {}
  BY DEF AllocatedTo, TableInv
<1>3. c.fd = t.fd /\ c.dirty = t.dirty /\ c.fresh = t.fresh /\ c.polled = t.polled
      /\ c \in TableType
  BY <1>1, <1>2 DEF PrepollClosed, TableType
<1> HIDE DEF c
<1>4. TableInv(c, proc)
  BY <1>3 DEF TableInv
<1> QED BY <1>3, <1>4 DEF c

(* Cleaning drops the zombies: what goes into the poll array is allocated. *)
LEMMA CleanSound ==
  ASSUME NEW t, NEW proc, TableInv(t, proc), t.fresh = {}
  PROVE  /\ TableInv(CleanFds(t), proc) /\ CleanFds(t).fresh = {}
         /\ \A f \in CleanFds(t).polled : CleanFds(t).fd[f].allocated
<1> DEFINE D == {f \in t.dirty : t.fd[f].zombie}
           S == {f \in t.dirty : ~ t.fd[f].closed /\ (t.fd[f].zombie \/ t.fd[f].shut)}
           e == [f \in FDs |-> IF f \in S THEN [t.fd[f] EXCEPT !.closed = TRUE]
                               ELSE t.fd[f]]
           P == {f \in t.dirty : ~ e[f].closed /\ e[f].events # {}}
<1>1. t \in TableType /\ t.fd \in [FDs -> Descriptor] /\ t.dirty \subseteq FDs
  BY DEF TableInv, TableType
<1>2. S \subseteq D /\ D \subseteq FDs
  BY <1>1 DEF TableInv
<1>3. \A f \in S : /\ e[f] \in Descriptor /\ e[f].closed
                   /\ e[f].shut = t.fd[f].shut /\ e[f].zombie = t.fd[f].zombie
                   /\ e[f].allocated = t.fd[f].allocated /\ e[f].proc_id = t.fd[f].proc_id
  BY <1>1 DEF Descriptor
<1>4. \A f \in FDs \ S : e[f] = t.fd[f] /\ e[f] \in Descriptor
  BY <1>1
<1>5. e \in [FDs -> Descriptor]
  BY <1>3, <1>4
<1>6. CleanFds(t) = [fd |-> e, dirty |-> t.dirty \ (D \cup S),
                     fresh |-> (t.fresh \ D) \cup (S \ D), polled |-> P]
  BY DEF CleanFds
<1>7. (t.fresh \ D) \cup (S \ D) = {}
  BY <1>2
<1>8. \A f \in D : ~ t.fd[f].allocated
  BY <1>2 DEF TableInv
<1>9. \A f \in P : f \notin D /\ t.fd[f].allocated /\ e[f] = t.fd[f]
  <2> SUFFICES ASSUME NEW f \in P PROVE f \notin D /\ t.fd[f].allocated /\ e[f] = t.fd[f]
    OBVIOUS
  <2>1. f \in FDs /\ f \in t.dirty /\ ~ e[f].closed
    BY <1>1
  <2>2. f \notin S
    BY <2>1, <1>3
  <2>3. e[f] = t.fd[f] /\ ~ t.fd[f].closed
    BY <2>1, <2>2, <1>4
  <2>4. ~ t.fd[f].zombie
    BY <2>1, <2>2, <2>3
  <2> QED BY <2>1, <2>3, <2>4 DEF TableInv
<1>10. P \subseteq FDs
  BY <1>1
<1> HIDE DEF D, S, e, P
<1> DEFINE c == CleanFds(t)
<1>11. /\ c.fd = e /\ c.dirty = t.dirty \ (D \cup S) /\ c.fresh = {} /\ c.polled = P
       /\ c \in TableType
  BY <1>1, <1>5, <1>6, <1>7, <1>10 DEF TableType
<1> HIDE DEF c
<1>12. TableInv(c, proc)
  BY <1>1, <1>2, <1>3, <1>4, <1>8, <1>11 DEF TableInv
<1> QED BY <1>9, <1>11, <1>12 DEF c

(* Only descriptors of the poll array become fresh.                        *)
LEMMA ProcessSound ==
  ASSUME NEW t, NEW proc, NEW rev, TableInv(t, proc),
         \A f \in t.polled : t.fd[f].allocated
  PROVE  TableInv(ProcessFds(t, rev), proc)
<1> DEFINE M == {f \in t.polled : t.fd[f].events \subseteq rev[f]}
           N == {f \in t.polled : rev[f] # {}}
           e == [f \in FDs |-> IF f \in M THEN [t.fd[f] EXCEPT !.events = {}] ELSE t.fd[f]]
           c == ProcessFds(t, rev)
<1>1. t \in TableType /\ t.fd \in [FDs -> Descriptor] /\ N \subseteq FDs
  BY DEF TableInv, TableType
<1>2. \A f \in FDs : /\ e[f] \in Descriptor /\ e[f].closed = t.fd[f].closed
                     /\ e[f].shut = t.fd[f].shut /\ e[f].zombie = t.fd[f].zombie
                     /\ e[f].allocated = t.fd[f].allocated /\ e[f].proc_id = t.fd[f].proc_id
  BY <1>1 DEF Descriptor
<1>3. e \in [FDs -> Descriptor] /\ \A f \in N : t.fd[f].allocated
  BY <1>2
<1>4. /\ c.fd = e /\ c.dirty = t.dirty \ M /\ c.fresh = t.fresh \cup N
      /\ c.polled = t.polled /\ c \in TableType
  BY <1>1, <1>3 DEF ProcessFds, TableType
<1> HIDE DEF c, e, M, N
<1>5. TableInv(c, proc)
  BY <1>1, <1>2, <1>3, <1>4 DEF TableInv, TableType
<1> QED BY <1>5 DEF c

----------------------------------------------------------------------------
(* The inductive invariant *)

(* It holds when the loop starts. *)
LEMMA InitIInv == Init => IInv
<1> SUFFICES ASSUME Init PROVE IInv
  OBVIOUS
<1> USE KernAssumption
<1> DEFINE s == [run_procs |-> << >>, blocked_procs |-> {},
                 proc |-> [p \in Procs |-> IF p = Main THEN NewProc(MainSockets) ELSE FreeSlot]]
<1>1. << >> \in Seq(Blocked) /\ MainSockets \in SUBSET Sockets
  BY DEF Sockets
<1>2. /\ FreeSlot \in Process /\ ~ FreeSlot.run_qed /\ ~ FreeSlot.blocked_qed
      /\ NewProc(MainSockets) \in Process /\ NewProc(MainSockets).alive
      /\ NewProc(MainSockets).run /\ ~ NewProc(MainSockets).run_qed
      /\ ~ NewProc(MainSockets).blocked_qed
  BY <1>1 DEF FreeSlot, NewProc, Process
<1>3. QueueInv(s) /\ s.proc[Main].alive /\ s.proc[Main].run
  BY <1>2 DEF QueueInv, KernType, Once, In
<1> HIDE DEF s
<1>4. QueueInv(k)
  BY <1>3, FlushSound DEF Init, s
<1>5. k \in KernType
  BY <1>4 DEF QueueInv
<1>6. FreeFd \in Descriptor /\ ~ FreeFd.allocated /\ ~ FreeFd.shut
  BY DEF FreeFd, Descriptor
<1>7. TableInv(table, k.proc)
  BY <1>6 DEF Init, TableInv, TableType
<1>8. PhaseInv
  BY DEF Init, PhaseInv
<1>9. open \subseteq FDs
  BY DEF Init, Descriptors
<1>10. TypeOK
  BY <1>1, <1>5, <1>7, <1>9 DEF Init, TypeOK, KernType, TableInv, TableType
<1> QED BY <1>4, <1>7, <1>8, <1>10 DEF IInv

(* The queues a process may be left with are queues of blocked sockets. *)
LEMMA BlockedQueuesType ==
  ASSUME NEW socks, NEW q \in BlockedQueues(socks)
  PROVE  q \in Seq(Blocked)
<1> DEFINE w == UNION {Waits(s) : s \in socks}
<1>1. w \subseteq Blocked
  BY DEF Waits
<1>2. \/ q = << >> \/ \E b \in w : q = << b >> \/ q \in w \X w
  BY DEF BlockedQueues
<1> HIDE DEF w
<1>3. CASE q = << >>
  BY <1>3
<1>4. CASE \E b \in w : q = << b >>
  BY <1>1, <1>4
<1>5. CASE q \in w \X w
  BY <1>1, <1>5
<1> QED BY <1>2, <1>3, <1>4, <1>5

(* It is kept by every step of the loop, of a process and of a signal. *)
LEMMA NextIInv == IInv /\ [Next]_vars => IInv'
<1> SUFFICES ASSUME IInv, [Next]_vars PROVE IInv'
  OBVIOUS
<1> USE KernAssumption
<1>1. TypeOK /\ QueueInv(k) /\ TableInv(table, k.proc) /\ PhaseInv
  BY DEF IInv
<1>2. k \in KernType /\ table \in TableType /\ k.proc \in [Procs -> Process]
  BY <1>1 DEF QueueInv, TableInv, KernType
<1>3. ASSUME QueueInv(k'), TableInv(table', k'.proc), PhaseInv',
             open' \subseteq FDs,
             phase' \in {"postpoll", "execute", "register", "prepoll", "wait", "done"},
             cur' \in Procs \cup {NoProc},
             cur' = NoProc <=> phase' \notin {"execute", "register"},
             todo' \in Seq(Blocked), looping' \in BOOLEAN,
             signo' \in {"NONE", "TERM", "USR1"}, shutdown' \in BOOLEAN
      PROVE  IInv'
  <2>1. k' \in KernType /\ table' \in TableType
    BY <1>3 DEF QueueInv, TableInv
  <2> QED BY <1>3, <2>1 DEF IInv, TypeOK, KernType, TableType
<1>4. ReceiveSignal => /\ signo' \in {"NONE", "TERM", "USR1"}
                       /\ shutdown' \in BOOLEAN
  BY <1>1 DEF ReceiveSignal, TypeOK
<1>5. ASSUME PostpollFresh PROVE IInv'
  <2>1. PICK f \in table.fresh : /\ table' = [table EXCEPT !.fresh = @ \ {f}]
                                 /\ k' = EnqueueRun(k, table.fd[f].proc_id)
    BY <1>5 DEF PostpollFresh
  <2>2. f \in FDs /\ table.fd[f].allocated /\ table.fd[f].proc_id \in Procs
        /\ k.proc[table.fd[f].proc_id].alive
    BY <1>1, <1>2 DEF TableInv, TableType, Descriptor
  <2>3. QueueInv(k') /\ \A r \in Procs : k'.proc[r].alive = k.proc[r].alive
    BY <1>1, <2>1, <2>2, EnqueueRunSound
  <2>4. /\ table'.fd = table.fd /\ table'.dirty = table.dirty
        /\ table'.fresh = table.fresh \ {f} /\ table'.polled = table.polled
        /\ table' \in TableType
    BY <1>2, <2>1 DEF TableType
  <2>5. \A g \in FDs : table.fd[g].proc_id \in Procs
    BY <1>2 DEF TableType, Descriptor
  <2>6. TableInv(table', k'.proc)
    BY <1>1, <2>3, <2>4, <2>5 DEF TableInv
  <2>7. phase = "postpoll" /\ cur = NoProc
    BY <1>1, <1>5 DEF PostpollFresh, TypeOK
  <2> QED BY <1>1, <1>3, <1>5, <2>3, <2>6, <2>7 DEF PostpollFresh, TypeOK, PhaseInv
<1>6. ASSUME Dispatch PROVE IInv'
  <2> DEFINE p == Head(k.run_procs)
             n == Retried(k.proc[p])
  <2>1. /\ p \in Procs /\ In(k.run_procs, p) /\ Tail(k.run_procs) \in Seq(Procs)
        /\ Once(Tail(k.run_procs)) /\ ~ In(Tail(k.run_procs), p)
        /\ \A r \in Procs : In(Tail(k.run_procs), r) => In(k.run_procs, r)
    BY <1>1, <1>2, <1>6, RemoveHead DEF Dispatch, QueueInv, KernType
  <2>2. k.proc[p].alive /\ k.proc[p] \in Process
    BY <1>1, <1>2, <2>1 DEF QueueInv
  <2>3. /\ n \in Process /\ n.alive = k.proc[p].alive /\ ~ n.run_qed
        /\ n.blocked_qed = k.proc[p].blocked_qed
    <3>1. (k.proc[p].run \/ k.proc[p].blocked # << >>) \in BOOLEAN /\ << >> \in Seq(Blocked)
      OBVIOUS
    <3> QED BY <2>2, <3>1 DEF Process, Retried
  <2>4. k' = [k EXCEPT !.run_procs = Tail(@), !.proc[p] = n]
    BY <1>6 DEF Dispatch
  <2> HIDE DEF p, n
  <2>5. /\ k'.run_procs = Tail(k.run_procs) /\ k'.blocked_procs = k.blocked_procs
        /\ k'.proc = [k.proc EXCEPT ![p] = n] /\ k' \in KernType
    BY <1>2, <2>1, <2>3, <2>4 DEF KernType
  <2>6. k'.proc[p] = n /\ \A r \in Procs \ {p} : k'.proc[r] = k.proc[r]
    BY <1>2, <2>1, <2>5
  <2>7. QueueInv(k') /\ \A r \in Procs : k'.proc[r].alive = k.proc[r].alive
    BY <1>1, <2>1, <2>2, <2>3, <2>5, <2>6 DEF QueueInv
  <2>8. table' = table /\ \A g \in FDs : table.fd[g].proc_id \in Procs
    BY <1>2, <1>6 DEF Dispatch, TableType, Descriptor
  <2>9. TableInv(table', k'.proc)
    BY <1>1, <2>7, <2>8 DEF TableInv
  <2>10. cur' = p /\ phase' = "execute" /\ table.fresh = {} /\ ReceiveSignal
    BY <1>6 DEF Dispatch, p
  <2>11. PhaseInv'
    BY <2>2, <2>3, <2>6, <2>8, <2>10 DEF PhaseInv
  <2>12. UNCHANGED << open, todo, looping >>
    BY <1>6 DEF Dispatch
  <2> QED BY <1>1, <1>3, <1>4, <2>1, <2>7, <2>9, <2>10, <2>11, <2>12 DEF TypeOK
<1>7. ASSUME PostpollReturns PROVE IInv'
  <2>1. /\ phase = "postpoll" /\ table.fresh = {} /\ phase' \in {"done", "prepoll"}
        /\ looping' = TRUE /\ k' = k /\ table' = table /\ cur' = cur
        /\ UNCHANGED << open, todo, signo, shutdown >>
    BY <1>7 DEF PostpollReturns
  <2>2. cur = NoProc
    BY <1>1, <2>1 DEF TypeOK
  <2>3. PhaseInv'
    BY <2>1, <2>2 DEF PhaseInv
  <2> QED BY <1>1, <1>3, <2>1, <2>2, <2>3 DEF TypeOK
<1>8. ASSUME Accept PROVE IInv'
  <2>1. PICK f \in Accepted \ open, p \in {q \in Procs : ~ k.proc[q].alive} :
          LET started == FlushProcQueues([k EXCEPT !.proc[p] = NewProc({<< f, f >>})], p)
          IN /\ open' = open \cup {f}
             /\ k' = IF shutdown THEN StopListening(started) ELSE started
    BY <1>8 DEF Accept
  <2>2. /\ phase = "execute"
        /\ UNCHANGED << table, phase, cur, todo, looping, signo, shutdown >>
    BY <1>8 DEF Accept, Listening
  <2> DEFINE n == NewProc({<< f, f >>})
             s == [k EXCEPT !.proc[p] = n]
             e == FlushProcQueues(s, p)
  <2>3. n \in Process /\ n.alive /\ n.run /\ ~ n.run_qed /\ ~ n.blocked_qed
    <3>1. << >> \in Seq(Blocked) /\ {<< f, f >>} \in SUBSET Sockets
      BY DEF Sockets
    <3> QED BY <3>1 DEF NewProc, FreeSlot, Process
  <2> HIDE DEF n
  <2>4. /\ s \in KernType /\ s.run_procs = k.run_procs /\ s.blocked_procs = k.blocked_procs
        /\ s.proc = [k.proc EXCEPT ![p] = n]
    BY <1>2, <2>3 DEF KernType
  <2>5. s.proc[p] = n /\ \A r \in Procs \ {p} : s.proc[r] = k.proc[r]
    BY <1>2, <2>4
  <2> HIDE DEF s
  <2>6. ~ k.proc[p].run_qed /\ ~ k.proc[p].blocked_qed
    BY <1>1 DEF QueueInv
  <2>7. QueueInv(s)
    BY <1>1, <2>3, <2>4, <2>5, <2>6 DEF QueueInv
  <2>8. /\ QueueInv(k')
        /\ \A r \in Procs : /\ k'.proc[r].alive = s.proc[r].alive
                            /\ r # p => k'.proc[r].run_qed = s.proc[r].run_qed
    <3>1. /\ QueueInv(e)
          /\ \A r \in Procs : /\ e.proc[r].alive = s.proc[r].alive
                              /\ r # p => e.proc[r].run_qed = s.proc[r].run_qed
      BY <2>3, <2>5, <2>7, FlushSound
    <3>2. k' = IF shutdown THEN StopListening(e) ELSE e
      BY <2>1 DEF e, s, n
    <3> HIDE DEF e
    <3> QED BY <3>1, <3>2, StopListeningSound
  <2>9. \A g \in FDs : table.fd[g].allocated =>
                          table.fd[g].proc_id \in Procs \ {p}
    BY <1>1, <1>2 DEF TableInv, TableType, Descriptor
  <2>10. TableInv(table', k'.proc)
    BY <1>1, <2>2, <2>5, <2>8, <2>9 DEF TableInv
  <2>11. cur \in Procs \ {p} /\ k.proc[cur].alive /\ ~ k.proc[cur].run_qed
    BY <1>1, <2>2 DEF TypeOK, PhaseInv
  <2>12. PhaseInv'
    BY <1>1, <2>2, <2>5, <2>8, <2>11 DEF PhaseInv
  <2>13. open' \subseteq FDs
    BY <1>1, <2>1 DEF TypeOK
  <2> QED BY <1>1, <1>3, <2>2, <2>8, <2>10, <2>12, <2>13 DEF TypeOK
<1>9. ASSUME Close PROVE IInv'
  <2>1. /\ UNCHANGED << k, table, phase, cur, todo, looping, signo, shutdown >>
        /\ open' \subseteq open
    BY <1>9 DEF Close
  <2>2. PhaseInv'
    BY <1>1, <2>1 DEF PhaseInv
  <2> QED BY <1>1, <1>3, <2>1, <2>2 DEF TypeOK
<1>10. ASSUME RequestShutdown PROVE IInv'
  <2>1. /\ UNCHANGED << k, table, open, phase, cur, todo, looping, signo >>
        /\ shutdown' = TRUE
    BY <1>10 DEF RequestShutdown
  <2>2. PhaseInv'
    BY <1>1, <2>1 DEF PhaseInv
  <2> QED BY <1>1, <1>3, <2>1, <2>2 DEF TypeOK
<1>11. ASSUME ExecuteReturns PROVE IInv'
  <2>1. PICK q \in BlockedQueues(k.proc[cur].sockets) :
          /\ k' = [k EXCEPT !.proc[cur] = [@ EXCEPT !.run = FALSE, !.blocked = q]]
          /\ todo' = q
    BY <1>11 DEF ExecuteReturns
  <2>2. /\ phase = "execute" /\ phase' = "register"
        /\ table' = PrepollClosed(table, cur)
        /\ UNCHANGED << open, cur, looping, signo, shutdown >>
    BY <1>11 DEF ExecuteReturns
  <2>3. q \in Seq(Blocked) /\ cur \in Procs /\ cur # NoProc
    BY <1>1, <2>2, BlockedQueuesType DEF TypeOK
  <2> DEFINE n == [k.proc[cur] EXCEPT !.run = FALSE, !.blocked = q]
  <2>4. /\ n \in Process /\ n.alive = k.proc[cur].alive /\ n.run_qed = k.proc[cur].run_qed
        /\ n.blocked_qed = k.proc[cur].blocked_qed
    BY <1>2, <2>3 DEF Process
  <2>5. k' = [k EXCEPT !.proc[cur] = n]
    BY <2>1
  <2> HIDE DEF n
  <2>6. /\ k' \in KernType /\ k'.run_procs = k.run_procs
        /\ k'.blocked_procs = k.blocked_procs /\ k'.proc = [k.proc EXCEPT ![cur] = n]
    BY <1>2, <2>3, <2>4, <2>5 DEF KernType
  <2>7. \A r \in Procs : /\ k'.proc[r].alive = k.proc[r].alive
                         /\ k'.proc[r].run_qed = k.proc[r].run_qed
                         /\ k'.proc[r].blocked_qed = k.proc[r].blocked_qed
    BY <1>2, <2>3, <2>4, <2>6
  <2>8. QueueInv(k')
    BY <1>1, <2>6, <2>7 DEF QueueInv
  <2>9. TableInv(table', k.proc) /\ table'.fresh = table.fresh
    BY <1>1, <2>2, <2>3, PrepollClosedSound
  <2>10. \A g \in FDs : table'.fd[g].proc_id \in Procs
    BY <2>9 DEF TableInv, TableType, Descriptor
  <2>11. TableInv(table', k'.proc)
    BY <2>7, <2>9, <2>10 DEF TableInv
  <2>12. PhaseInv'
    BY <1>1, <2>2, <2>3, <2>7, <2>9 DEF PhaseInv
  <2> QED BY <1>1, <1>3, <2>1, <2>2, <2>3, <2>8, <2>11, <2>12 DEF TypeOK
<1>12. ASSUME PrepollSocket PROVE IInv'
  <2>1. /\ phase = "register" /\ todo # << >> /\ todo' = Tail(todo)
        /\ table' = PrepollBlockedSocket(table, Head(todo), cur)
        /\ UNCHANGED << k, open, phase, cur, looping, signo, shutdown >>
    BY <1>12 DEF PrepollSocket
  <2>2. /\ todo \in Seq(Blocked) /\ cur \in Procs /\ cur # NoProc /\ k.proc[cur].alive
        /\ looping \in BOOLEAN
    BY <1>1, <2>1 DEF TypeOK, PhaseInv
  <2>3. Head(todo) \in Blocked /\ Tail(todo) \in Seq(Blocked)
    BY <2>1, <2>2
  <2>4. TableInv(table', k.proc) /\ table'.fresh = table.fresh
    BY <1>1, <2>1, <2>2, <2>3, PrepollSocketSound
  <2>5. PhaseInv'
    BY <1>1, <2>1, <2>4 DEF PhaseInv
  <2> QED BY <1>1, <1>3, <2>1, <2>3, <2>4, <2>5 DEF TypeOK
<1>13. ASSUME DispatchReturns PROVE IInv'
  <2> DEFINE s == FlushProcQueues(k, cur)
  <2>1. /\ phase = "register" /\ phase' = "postpoll" /\ cur' = NoProc /\ ReceiveSignal
        /\ UNCHANGED << open, todo, looping >>
    BY <1>13 DEF DispatchReturns
  <2>2. /\ cur \in Procs /\ cur # NoProc /\ k.proc[cur].alive /\ ~ k.proc[cur].run_qed
        /\ table.fresh = {}
    BY <1>1, <2>1 DEF TypeOK, PhaseInv
  <2>3. QueueInv(s) /\ \A r \in Procs : s.proc[r].alive = k.proc[r].alive
    BY <1>1, <2>2, FlushSound
  <2>4. \A g \in FDs : table.fd[g].proc_id \in Procs
    BY <1>2 DEF TableType, Descriptor
  <2>5. \/ /\ IsZombie(s, cur) /\ table' = PrepollZombie(table, cur)
           /\ k' = [s EXCEPT !.proc[cur] = FreeSlot]
        \/ k' = s /\ table' = table
    BY <1>13 DEF DispatchReturns
  <2> HIDE DEF s
  <2>6. QueueInv(k') /\ TableInv(table', k'.proc) /\ table'.fresh = {}
    <3>1. CASE k' = s /\ table' = table
      BY <1>1, <2>2, <2>3, <2>4, <3>1 DEF TableInv
    <3>2. CASE /\ IsZombie(s, cur) /\ table' = PrepollZombie(table, cur)
               /\ k' = [s EXCEPT !.proc[cur] = FreeSlot]
      <4>1. s \in KernType /\ ~ s.proc[cur].run_qed /\ ~ s.proc[cur].blocked_qed
        BY <2>3, <3>2 DEF QueueInv, IsZombie
      <4>2. FreeSlot \in Process /\ ~ FreeSlot.run_qed /\ ~ FreeSlot.blocked_qed
        <5>1. << >> \in Seq(Blocked)
          OBVIOUS
        <5> QED BY <5>1 DEF FreeSlot, Process
      <4>3. /\ k' \in KernType /\ k'.run_procs = s.run_procs
            /\ k'.blocked_procs = s.blocked_procs /\ k'.proc = [s.proc EXCEPT ![cur] = FreeSlot]
        BY <2>2, <3>2, <4>1, <4>2 DEF KernType
      <4>4. k'.proc[cur] = FreeSlot /\ \A r \in Procs \ {cur} : k'.proc[r] = s.proc[r]
        BY <2>2, <4>1, <4>3 DEF KernType
      <4>5. QueueInv(k')
        BY <2>3, <4>1, <4>2, <4>3, <4>4 DEF QueueInv
      <4>6. \A r \in Procs \ {cur} : k'.proc[r].alive = k.proc[r].alive
        BY <2>3, <4>4
      <4>7. TableInv(table', k'.proc) /\ table'.fresh = {}
        BY <1>1, <2>2, <3>2, <4>6, PrepollZombieSound
      <4> QED BY <4>5, <4>7
    <3> QED BY <2>5, <3>1, <3>2
  <2>7. PhaseInv'
    BY <2>1, <2>6 DEF PhaseInv
  <2> QED BY <1>1, <1>3, <1>4, <2>1, <2>6, <2>7 DEF TypeOK
<1>14. ASSUME PrepollInterrupt PROVE IInv'
  <2>1. PICK p \in k.blocked_procs : k' = Interrupt(k, p)
    BY <1>14 DEF PrepollInterrupt
  <2>2. /\ phase = "prepoll"
        /\ UNCHANGED << table, open, phase, cur, todo, looping, signo, shutdown >>
    BY <1>14 DEF PrepollInterrupt
  <2>3. p \in Procs /\ k.proc[p].alive /\ k.proc[p] \in Process
    BY <1>1, <1>2 DEF KernType, QueueInv
  <2> DEFINE n == [k.proc[p] EXCEPT !.run_qed = TRUE, !.blocked = << >>, !.run = TRUE]
             s == [k EXCEPT !.proc[p] = n]
  <2>4. /\ n \in Process /\ n.alive = k.proc[p].alive /\ n.run_qed /\ n.run
        /\ n.blocked_qed = k.proc[p].blocked_qed
    <3>1. << >> \in Seq(Blocked)
      OBVIOUS
    <3> QED BY <2>3, <3>1 DEF Process
  <2>5. k' = FlushProcQueues(s, p)
    BY <2>1 DEF Interrupt
  <2> HIDE DEF n
  <2>6. /\ s \in KernType /\ s.run_procs = k.run_procs
        /\ s.blocked_procs = k.blocked_procs /\ s.proc = [k.proc EXCEPT ![p] = n]
    BY <1>2, <2>3, <2>4 DEF KernType
  <2> HIDE DEF s
  <2>7. s.proc[p] = n /\ \A r \in Procs \ {p} : s.proc[r] = k.proc[r]
    BY <1>2, <2>3, <2>6
  <2>8. QueueInv(s)
    BY <1>1, <2>3, <2>4, <2>6, <2>7 DEF QueueInv
  <2>9. QueueInv(k') /\ \A r \in Procs : k'.proc[r].alive = s.proc[r].alive
    BY <2>3, <2>4, <2>5, <2>7, <2>8, FlushSound
  <2>10. \A r \in Procs : k'.proc[r].alive = k.proc[r].alive
    BY <2>3, <2>4, <2>7, <2>9
  <2>11. \A g \in FDs : table.fd[g].proc_id \in Procs
    BY <1>2 DEF TableType, Descriptor
  <2>12. TableInv(table', k'.proc)
    BY <1>1, <2>2, <2>10, <2>11 DEF TableInv
  <2>13. PhaseInv'
    BY <1>1, <2>2 DEF PhaseInv, TypeOK
  <2> QED BY <1>1, <1>3, <2>2, <2>9, <2>12, <2>13 DEF TypeOK
<1>15. ASSUME Poll PROVE IInv'
  <2>1. /\ phase = "prepoll" /\ phase' \in {"wait", "postpoll"} /\ table' = CleanFds(table)
        /\ UNCHANGED << k, open, cur, todo, looping, signo, shutdown >>
    BY <1>15 DEF Poll
  <2>2. table.fresh = {} /\ cur = NoProc
    BY <1>1, <2>1 DEF PhaseInv, TypeOK
  <2>3. /\ TableInv(table', k.proc) /\ table'.fresh = {}
        /\ \A f \in table'.polled : table'.fd[f].allocated
    BY <1>1, <2>1, <2>2, CleanSound
  <2>4. PhaseInv'
    BY <2>1, <2>2, <2>3 DEF PhaseInv
  <2> QED BY <1>1, <1>3, <2>1, <2>2, <2>3, <2>4 DEF TypeOK
<1>16. ASSUME PollAgain PROVE IInv'
  <2>1. UNCHANGED << k, table, open, phase, cur, todo, looping >> /\ ReceiveSignal
    BY <1>16 DEF PollAgain
  <2>2. PhaseInv'
    BY <1>1, <2>1 DEF PhaseInv
  <2> QED BY <1>1, <1>3, <1>4, <2>1, <2>2 DEF TypeOK
<1>17. ASSUME PollReturns PROVE IInv'
  <2>1. PICK rev : table' = ProcessFds(table, rev)
    BY <1>17 DEF PollReturns
  <2>2. /\ phase = "wait" /\ phase' = "postpoll" /\ ReceiveSignal
        /\ UNCHANGED << k, open, cur, todo, looping >>
    BY <1>17 DEF PollReturns
  <2>3. TableInv(table', k.proc) /\ cur = NoProc
    BY <1>1, <2>1, <2>2, ProcessSound DEF PhaseInv, TypeOK
  <2>4. PhaseInv'
    BY <2>2, <2>3 DEF PhaseInv
  <2> QED BY <1>1, <1>3, <1>4, <2>2, <2>3, <2>4 DEF TypeOK
<1>18. ASSUME NEW sig \in Requests \cap {"TERM", "USR1"}, Signal(sig) PROVE IInv'
  <2>1. /\ UNCHANGED << k, table, open, phase, cur, todo, looping, shutdown >>
        /\ signo' \in {"NONE", "TERM", "USR1"}
    BY <1>1, <1>18 DEF Signal, TypeOK
  <2>2. PhaseInv'
    BY <1>1, <2>1 DEF PhaseInv
  <2> QED BY <1>1, <1>3, <2>1, <2>2 DEF TypeOK
<1>19. ASSUME UNCHANGED vars PROVE IInv'
  <2>1. PhaseInv'
    BY <1>1, <1>19 DEF PhaseInv, vars
  <2> QED BY <1>1, <1>3, <1>19, <2>1 DEF TypeOK, vars
<1>20. ASSUME AcceptFails PROVE IInv'
  <2>1. /\ phase = "execute" /\ k' = StopListening(k) /\ open' \subseteq open \cup Accepted
        /\ UNCHANGED << table, phase, cur, todo, looping, signo, shutdown >>
    BY <1>20 DEF AcceptFails, Listening
  <2>2. QueueInv(k') /\ \A r \in Procs : /\ k'.proc[r].alive = k.proc[r].alive
                                         /\ k'.proc[r].run_qed = k.proc[r].run_qed
    BY <1>1, <2>1, StopListeningSound
  <2>3. \A g \in FDs : table.fd[g].proc_id \in Procs
    BY <1>2 DEF TableType, Descriptor
  <2>4. TableInv(table', k'.proc)
    BY <1>1, <2>1, <2>2, <2>3 DEF TableInv
  <2>5. PhaseInv'
    BY <1>1, <2>1, <2>2 DEF PhaseInv, TypeOK
  <2>6. open' \subseteq FDs
    BY <1>1, <2>1, KernAssumption DEF TypeOK
  <2> QED BY <1>1, <1>3, <2>1, <2>2, <2>4, <2>5, <2>6 DEF TypeOK
<1> QED BY <1>5, <1>6, <1>7, <1>8, <1>9, <1>10, <1>11, <1>12, <1>13, <1>14, <1>15, <1>16,
           <1>17, <1>18, <1>19, <1>20 DEF Next, Postpoll, Execute

----------------------------------------------------------------------------
(* The theorems *)

(* IInv is an invariant of the event loop. *)
THEOREM KernInvariant == Spec => []IInv
BY InitIInv, NextIInv, PTL DEF Spec

(* The state of the kernel and of its descriptor table keeps its type. *)
THEOREM KernTypes == Spec => []TypeOK
<1>1. IInv => TypeOK
  BY DEF IInv
<1> QED BY <1>1, KernInvariant, PTL

(* The run and blocked lists and their flags stay sound, for any number of *)
(* processes, whatever they do and whenever a shutdown interrupts them.    *)
THEOREM KernListsSound == Spec => []ListsAreSound
<1>1. IInv => ListsAreSound
  BY DEF IInv, QueueInv, ListsAreSound, Once, In, Listed
<1> QED BY <1>1, KernInvariant, PTL

(* No event of a descriptor brings back a process that was freed, even     *)
(* though descriptor numbers and process slots are reused.                 *)
THEOREM KernFreedNeverDispatched == Spec => []FreedNeverDispatched
<1>1. IInv => FreedNeverDispatched
  <2> SUFFICES ASSUME IInv, NEW p \in Procs, Listed(p) \/ p \in k.blocked_procs \/ p = cur
               PROVE  k.proc[p].alive
    BY DEF FreedNeverDispatched
  <2>1. NoProc \notin Procs
    BY KernAssumption
  <2> QED BY <2>1 DEF IInv, QueueInv, PhaseInv, In, Listed
<1> QED BY <1>1, KernInvariant, PTL

----------------------------------------------------------------------------
(***************************************************************************)
(* For every pool of processes and every descriptor table: no process is   *)
(* lost, what a process waits for is watched while the loop is in poll(),  *)
(* and its events reach it.                                                *)
(*                                                                         *)
(* The argument.  Where a process that closes a descriptor ends, the       *)
(* descriptors of the live processes are apart and open, so that a number  *)
(* accept() returns belongs to nobody, and prepoll allocates it to its     *)
(* process.  What prepoll registered stays dirty until poll() meets it;    *)
(* then its process is on the run list before the loop polls again.        *)
(***************************************************************************)

(* The inductive invariant *)

\* The sockets a process is started with.
Base(s, p) == IF p = Main THEN MainSockets ELSE s.proc[p].sockets

\* The socket of a blocked queue's element.
SocketOf(b) == << b.rx, b.tx >>

\* The descriptors of live processes are apart, and open but for what the
\* executing process closed; then it will not block again.  A descriptor is
\* allocated to the process that has it.
OwnInv ==
  /\ k.proc[Main].sockets \in {MainSockets, {}}
  /\ \A p \in Procs \ {Main} : k.proc[p].alive => \E f \in Accepted : k.proc[p].sockets = {<< f, f >>}
  /\ \A p, q \in Procs : k.proc[p].alive /\ k.proc[q].alive /\ p # q =>
       Descriptors(Base(k, p)) \cap Descriptors(Base(k, q)) = {}
  /\ \A p \in Procs : k.proc[p].alive /\ p # cur => Descriptors(Base(k, p)) \subseteq open
  /\ \A f \in FDs : table.fd[f].allocated => f \in Descriptors(Base(k, table.fd[f].proc_id))
  /\ phase = "register" => /\ ~ k.proc[cur].run
                           /\ Descriptors(Base(k, cur)) \subseteq open \/ k.proc[cur].blocked = << >>

\* A blocked socket is one of its process, with the descriptors it waits for.
Sound(s, p, b) ==
  /\ s.proc[p].alive /\ SocketOf(b) \in Base(s, p) /\ b.ev # {}
  /\ "IN" \in b.ev => b.rx \in FDs
  /\ "OUT" \in b.ev => b.tx \in FDs

SoundQueue(s, p) ==
  /\ \A i \in 1 .. Len(s.proc[p].blocked) : Sound(s, p, s.proc[p].blocked[i])
  /\ \A i, j \in 1 .. Len(s.proc[p].blocked) :
       SocketOf(s.proc[p].blocked[i]) = SocketOf(s.proc[p].blocked[j]) => i = j

SocketsInv == \A p \in Procs : SoundQueue(k, p)

\* The descriptors of b are those of p,
OwnedBy(t, p, b) ==
  \A f \in {b.rx, b.tx} \ {NoFD} : t.fd[f].allocated /\ t.fd[f].proc_id = p

\* and it will be polled for what b waits for, being dirty; or it is watched
\* already: W is what the poller watches by itself, and empty for poll().
Interest(t, b, W) ==
  /\ "IN" \in b.ev => /\ "IN" \in t.fd[b.rx].events
                      /\ b.rx \in t.dirty \/ << b.rx, "IN" >> \in W
  /\ "OUT" \in b.ev /\ b.tx # b.rx => /\ t.fd[b.tx].events = {"OUT"}
                                      /\ b.tx \in t.dirty \/ << b.tx, "OUT" >> \in W

\* p will be dispatched before the loop polls.
Roused(s, t, p) == In(s.run_procs, p) \/ \E f \in t.fresh : t.fd[f].proc_id = p

\* prepoll has yet to register b, or has.
Served(s, t, executing, rest, p, b, W) ==
  \/ p = executing /\ In(rest, b)
  \/ OwnedBy(t, p, b) /\ (Roused(s, t, p) \/ Interest(t, b, W))

ServedInv(W) ==
  \A p \in Procs : \A i \in 1 .. Len(k.proc[p].blocked) :
    Served(k, table, cur, todo, p, k.proc[p].blocked[i], W)

\* Where the loop is.
LoopInv ==
  /\ \A i \in 1 .. Len(todo) : In(k.proc[cur].blocked, todo[i])
  /\ phase = "execute" => k.proc[cur].blocked = << >>
  /\ phase # "register" => todo = << >>
  /\ \A p \in Procs : k.proc[p].blocked # << >> /\ k.proc[p].run_qed => In(k.run_procs, p)
  /\ phase \in {"prepoll", "wait"} => k.run_procs = << >>
  /\ phase = "wait" =>
       /\ \A f \in table.dirty : table.fd[f].allocated /\ table.fd[f].events # {} => f \in table.polled
       /\ \A f \in table.polled : table.fd[f].events # {}

WaitInv(W) == OwnInv /\ SocketsInv /\ ServedInv(W) /\ LoopInv

----------------------------------------------------------------------------
(* The queues *)

(* SLIST_INSERT_HEAD leaves who is listed listed. *)
LEMMA InsertedIn ==
  ASSUME NEW q \in Seq(Procs), NEW p \in Procs
  PROVE  In(<< p >> \o q, p) /\ \A r \in Procs : In(q, r) => In(<< p >> \o q, r)
<1> DEFINE h == << p >> \o q
<1>1. Len(h) = Len(q) + 1 /\ Len(q) \in Nat /\ h[1] = p
  OBVIOUS
<1>2. \A i \in 1 .. Len(q) : i + 1 \in 1 .. Len(h) /\ h[i + 1] = q[i]
  OBVIOUS
<1> HIDE DEF h
<1>3. In(h, p)
  <2>1. 1 \in 1 .. Len(h)
    BY <1>1
  <2> QED
    BY <1>1, <2>1 DEF In
<1>4. ASSUME NEW r \in Procs, In(q, r) PROVE In(h, r)
  BY <1>2, <1>4 DEF In
<1> QED
  BY <1>3, <1>4 DEF h

(* The tail has all but the head. *)
LEMMA RemovedIn ==
  ASSUME NEW S, NEW q \in Seq(S), q # << >>
  PROVE  \A r : In(q, r) => r = Head(q) \/ In(Tail(q), r)
<1> DEFINE t == Tail(q)
<1>1. Len(t) = Len(q) - 1 /\ Len(q) \in Nat /\ Len(q) # 0 /\ Head(q) = q[1]
  OBVIOUS
<1>2. \A i \in 1 .. Len(t) : t[i] = q[i + 1]
  OBVIOUS
<1> HIDE DEF t
<1>3. ASSUME NEW r, In(q, r) PROVE r = Head(q) \/ In(t, r)
  <2>1. PICK i \in 1 .. Len(q) : q[i] = r
    BY <1>3 DEF In
  <2>2. CASE i = 1
    BY <1>1, <2>1, <2>2
  <2>3. CASE i # 1
    <3>1. i - 1 \in 1 .. Len(t) /\ t[i - 1] = q[(i - 1) + 1] /\ (i - 1) + 1 = i
      BY <1>1, <1>2, <2>3
    <3> QED
      BY <2>1, <3>1 DEF In
  <2> QED
    BY <2>2, <2>3
<1> QED
  BY <1>3 DEF t

\* u has the processes of s, but for their flags.
SameProcs(s, u) ==
  \A r \in Procs : /\ u.proc[r].alive = s.proc[r].alive /\ u.proc[r].sockets = s.proc[r].sockets
                   /\ u.proc[r].run = s.proc[r].run /\ u.proc[r].blocked = s.proc[r].blocked

(* vk_kern_enqueue_run, *)
LEMMA EnqueueRunIs ==
  ASSUME NEW s \in KernType, NEW p \in Procs, NEW u, u = EnqueueRun(s, p)
  PROVE  /\ SameProcs(s, u) /\ u \in KernType
         /\ \A r \in Procs : /\ u.proc[r].blocked_qed = s.proc[r].blocked_qed
                             /\ r # p => u.proc[r].run_qed = s.proc[r].run_qed
         /\ u.proc[p].run_qed
         /\ u.blocked_procs = s.blocked_procs
         /\ u.run_procs = IF s.proc[p].run_qed THEN s.run_procs ELSE << p >> \o s.run_procs
<1>1. CASE s.proc[p].run_qed
  BY <1>1 DEF EnqueueRun, SameProcs
<1>2. CASE ~ s.proc[p].run_qed
  <2> DEFINE n == [s.proc[p] EXCEPT !.run_qed = TRUE]
  <2>1. s.proc[p] \in Process /\ << p >> \o s.run_procs \in Seq(Procs)
    BY DEF KernType
  <2>2. /\ n \in Process /\ n.alive = s.proc[p].alive /\ n.sockets = s.proc[p].sockets
        /\ n.run = s.proc[p].run /\ n.blocked = s.proc[p].blocked /\ n.run_qed
        /\ n.blocked_qed = s.proc[p].blocked_qed
    BY <2>1 DEF Process
  <2> DEFINE q == << p >> \o s.run_procs
  <2>3. u = [s EXCEPT !.proc[p] = n, !.run_procs = q]
    BY <1>2 DEF EnqueueRun, KernType
  <2>4. n \in Process /\ q \in Seq(Procs)
    BY <2>1, <2>2
  <2> HIDE DEF n, q
  <2>5. /\ u.run_procs = q /\ u.blocked_procs = s.blocked_procs
        /\ u.proc = [s.proc EXCEPT ![p] = n]
    BY <2>3 DEF KernType
  <2>6. u \in KernType
    BY <2>3, <2>4 DEF KernType
  <2>7. u.proc[p] = n /\ (\A r \in Procs \ {p} : u.proc[r] = s.proc[r])
    BY <2>5 DEF KernType
  <2>8. u.run_procs = << p >> \o s.run_procs
    BY <2>5 DEF q
  <2>9. SameProcs(s, u)
    BY <2>2, <2>7 DEF SameProcs
  <2>10. \A r \in Procs : /\ u.proc[r].blocked_qed = s.proc[r].blocked_qed
                           /\ r # p => u.proc[r].run_qed = s.proc[r].run_qed
    BY <2>2, <2>7
  <2> QED
    BY <1>2, <2>2, <2>5, <2>6, <2>7, <2>8, <2>9, <2>10
<1> QED
  BY <1>1, <1>2

(* vk_kern_enqueue_blocked and vk_kern_drop_blocked. *)
LEMMA BlockedIs ==
  ASSUME NEW s \in KernType, NEW p \in Procs, NEW u,
         u = IF s.proc[p].blocked # << >> THEN EnqueueBlocked(s, p) ELSE DropBlocked(s, p)
  PROVE  /\ SameProcs(s, u) /\ u \in KernType /\ u.run_procs = s.run_procs
         /\ \A r \in Procs : /\ u.proc[r].run_qed = s.proc[r].run_qed
                             /\ r # p => u.proc[r].blocked_qed = s.proc[r].blocked_qed
         /\ u.proc[p].blocked_qed <=> s.proc[p].blocked # << >>
<1> DEFINE same == s.proc[p].blocked_qed <=> s.proc[p].blocked # << >>
<1>1. CASE same
  <2>1. u = s
    BY <1>1 DEF EnqueueBlocked, DropBlocked
  <2> QED
    BY <1>1, <2>1 DEF SameProcs
<1>2. CASE ~ same
  <2>1. s.proc[p] \in Process
    BY DEF KernType
  <2>2. PICK f \in BOOLEAN, B \in SUBSET Procs :
          /\ u = [s EXCEPT !.proc[p].blocked_qed = f, !.blocked_procs = B]
          /\ f <=> s.proc[p].blocked # << >>
    <3>1. CASE s.proc[p].blocked # << >>
      <4>1. u = [s EXCEPT !.proc[p].blocked_qed = TRUE, !.blocked_procs = s.blocked_procs \cup {p}]
        BY <1>2, <3>1 DEF EnqueueBlocked
      <4>2. s.blocked_procs \cup {p} \in SUBSET Procs
        BY DEF KernType
      <4> QED
        BY <3>1, <4>1, <4>2
    <3>2. CASE ~ (s.proc[p].blocked # << >>)
      <4>1. u = [s EXCEPT !.proc[p].blocked_qed = FALSE, !.blocked_procs = s.blocked_procs \ {p}]
        BY <1>2, <3>2 DEF DropBlocked
      <4>2. s.blocked_procs \ {p} \in SUBSET Procs
        BY DEF KernType
      <4> QED
        BY <3>2, <4>1, <4>2
    <3> QED
      BY <3>1, <3>2
  <2> DEFINE n == [s.proc[p] EXCEPT !.blocked_qed = f]
  <2>3. /\ n \in Process /\ n.alive = s.proc[p].alive /\ n.sockets = s.proc[p].sockets
        /\ n.run = s.proc[p].run /\ n.blocked = s.proc[p].blocked
        /\ n.run_qed = s.proc[p].run_qed /\ n.blocked_qed = f
    BY <2>1 DEF Process
  <2>4. u = [s EXCEPT !.proc[p] = n, !.blocked_procs = B]
    BY <2>2 DEF KernType
  <2> HIDE DEF n
  <2>5. /\ u \in KernType /\ u.proc[p] = n /\ (\A r \in Procs \ {p} : u.proc[r] = s.proc[r])
        /\ u.run_procs = s.run_procs
    BY <2>3, <2>4, ZenonT(40) DEF KernType
  <2> QED
    BY <2>2, <2>3, <2>5 DEF SameProcs
<1> QED
  BY <1>1, <1>2

(* vk_kern_flush_proc_queues. *)
LEMMA FlushIs ==
  ASSUME NEW s \in KernType, NEW p \in Procs, s.proc[p].run \/ ~ s.proc[p].run_qed,
         NEW u, u = FlushProcQueues(s, p)
  PROVE  /\ SameProcs(s, u) /\ u \in KernType
         /\ \A r \in Procs \ {p} : /\ u.proc[r].run_qed = s.proc[r].run_qed
                                   /\ u.proc[r].blocked_qed = s.proc[r].blocked_qed
         /\ u.proc[p].run_qed <=> s.proc[p].run
         /\ u.proc[p].blocked_qed <=> s.proc[p].blocked # << >>
         /\ u.run_procs = IF s.proc[p].run /\ ~ s.proc[p].run_qed THEN << p >> \o s.run_procs
                          ELSE s.run_procs
<1> DEFINE e == IF s.proc[p].run THEN EnqueueRun(s, p) ELSE DropRun(s, p)
<1>1. /\ SameProcs(s, e) /\ e \in KernType
      /\ \A r \in Procs \ {p} : /\ e.proc[r].run_qed = s.proc[r].run_qed
                                /\ e.proc[r].blocked_qed = s.proc[r].blocked_qed
      /\ e.proc[p].run_qed <=> s.proc[p].run
      /\ e.run_procs = IF s.proc[p].run /\ ~ s.proc[p].run_qed THEN << p >> \o s.run_procs
                       ELSE s.run_procs
  <2>1. CASE s.proc[p].run
    <3>1. e = EnqueueRun(s, p)
      BY <2>1
    <3> HIDE DEF e
    <3> QED
      BY <2>1, <3>1, EnqueueRunIs
  <2>2. CASE ~ s.proc[p].run
    <3>1. e = s
      BY <2>2 DEF DropRun
    <3> QED
      BY <2>2, <3>1 DEF SameProcs
  <2> QED
    BY <2>1, <2>2
<1>2. u = IF e.proc[p].blocked # << >> THEN EnqueueBlocked(e, p) ELSE DropBlocked(e, p)
  BY DEF FlushProcQueues
<1> HIDE DEF e
<1>3. /\ SameProcs(e, u) /\ u \in KernType /\ u.run_procs = e.run_procs
      /\ \A r \in Procs : /\ u.proc[r].run_qed = e.proc[r].run_qed
                          /\ r # p => u.proc[r].blocked_qed = e.proc[r].blocked_qed
      /\ u.proc[p].blocked_qed <=> e.proc[p].blocked # << >>
  BY <1>1, <1>2, BlockedIs
<1>4. SameProcs(s, u)
  BY <1>1, <1>3 DEF SameProcs
<1> QED
  BY <1>1, <1>3, <1>4 DEF SameProcs
\* The process b is the process a, but for its sockets.
Kept(a, b) ==
  /\ b.alive = a.alive /\ b.run_qed = a.run_qed /\ b.blocked_qed = a.blocked_qed
  /\ b.run = a.run /\ b.blocked = a.blocked

(* The end of the listener's loop. *)
LEMMA StopIs ==
  ASSUME NEW s \in KernType, NEW u, u = StopListening(s)
  PROVE  /\ u \in KernType /\ u.run_procs = s.run_procs /\ u.blocked_procs = s.blocked_procs
         /\ \A r \in Procs : Kept(s.proc[r], u.proc[r])
         /\ u.proc[Main].sockets = {}
         /\ \A r \in Procs \ {Main} : u.proc[r].sockets = s.proc[r].sockets
<1> DEFINE n == [s.proc[Main] EXCEPT !.sockets = {}]
<1>1. Main \in Procs /\ s.proc[Main] \in Process
  BY KernAssumption DEF KernType
<1>2. n \in Process /\ Kept(s.proc[Main], n) /\ n.sockets = {}
  BY <1>1 DEF Process, Kept
<1>3. u = [s EXCEPT !.proc[Main] = n]
  BY <1>1 DEF StopListening, KernType
<1> HIDE DEF n
<1>4. /\ u \in KernType /\ u.run_procs = s.run_procs /\ u.blocked_procs = s.blocked_procs
      /\ u.proc = [s.proc EXCEPT ![Main] = n]
  BY <1>1, <1>2, <1>3 DEF KernType
<1>5. u.proc[Main] = n /\ \A r \in Procs \ {Main} : u.proc[r] = s.proc[r]
  BY <1>1, <1>4 DEF KernType
<1> QED
  BY <1>2, <1>4, <1>5 DEF Kept

----------------------------------------------------------------------------
(* What the steps do to the processes *)

(* A process is started on the accepted descriptor; the listener may end. *)
LEMMA AcceptIs ==
  ASSUME IInv, Accept
  PROVE  \E f \in Accepted \ open, p \in Procs :
           /\ open' = open \cup {f} /\ ~ k.proc[p].alive /\ p # cur /\ p # Main
           /\ k'.proc[p].alive /\ k'.proc[p].run_qed
           /\ k'.proc[p].blocked = << >> /\ k'.proc[p].sockets = {<< f, f >>}
           /\ \A r \in Procs \ {p} : Kept(k.proc[r], k'.proc[r])
           /\ \A r \in Procs \ {p, Main} : k'.proc[r].sockets = k.proc[r].sockets
           /\ k'.proc[Main].sockets \in {k.proc[Main].sockets, {}}
           /\ k'.run_procs = << p >> \o k.run_procs
<1>1. PICK f \in Accepted \ open, p \in {q \in Procs : ~ k.proc[q].alive} :
          LET started == FlushProcQueues([k EXCEPT !.proc[p] = NewProc({<< f, f >>})], p)
          IN /\ open' = open \cup {f}
             /\ k' = IF shutdown THEN StopListening(started) ELSE started
  BY DEF Accept
<1>2. /\ k \in KernType /\ cur = Main /\ k.proc[cur].alive /\ Main \in Procs /\ p \in Procs
      /\ f \in FDs /\ ~ k.proc[p].run_qed /\ p # Main
  BY <1>1, KernAssumption DEF Accept, Listening, IInv, QueueInv, PhaseInv
<1> DEFINE n == NewProc({<< f, f >>})
           s == [k EXCEPT !.proc[p] = n]
           e == FlushProcQueues(s, p)
<1>3. /\ n \in Process /\ n.alive /\ n.run /\ ~ n.run_qed /\ ~ n.blocked_qed
      /\ n.blocked = << >> /\ n.sockets = {<< f, f >>}
  <2>1. << >> \in Seq(Blocked) /\ {<< f, f >>} \in SUBSET Sockets
    BY <1>2 DEF Sockets
  <2> QED
    BY <2>1 DEF NewProc, FreeSlot, Process
<1> HIDE DEF n
<1>4. /\ s \in KernType /\ s.run_procs = k.run_procs
      /\ s.proc = [k.proc EXCEPT ![p] = n]
  BY <1>2, <1>3 DEF KernType
<1>5. s.proc[p] = n /\ \A r \in Procs \ {p} : s.proc[r] = k.proc[r]
  BY <1>2, <1>4 DEF KernType
<1> HIDE DEF s
<1>6. s \in KernType /\ p \in Procs /\ (s.proc[p].run \/ ~ s.proc[p].run_qed)
  BY <1>2, <1>3, <1>4, <1>5
<1>7. k' = IF shutdown THEN StopListening(e) ELSE e
  BY <1>1 DEF e, s, n
<1>8. e = FlushProcQueues(s, p)
  OBVIOUS
<1> HIDE DEF e
<1>9. /\ SameProcs(s, e) /\ e \in KernType
      /\ \A r \in Procs \ {p} : /\ e.proc[r].run_qed = s.proc[r].run_qed
                                /\ e.proc[r].blocked_qed = s.proc[r].blocked_qed
      /\ e.proc[p].run_qed <=> s.proc[p].run
      /\ e.run_procs = IF s.proc[p].run /\ ~ s.proc[p].run_qed THEN << p >> \o s.run_procs
                       ELSE s.run_procs
  BY <1>6, <1>8, FlushIs
<1>10. /\ e.proc[p].alive /\ e.proc[p].run_qed
       /\ e.proc[p].blocked = << >> /\ e.proc[p].sockets = {<< f, f >>}
       /\ e.run_procs = << p >> \o k.run_procs
  BY <1>2, <1>3, <1>4, <1>5, <1>9 DEF SameProcs
<1>11. \A r \in Procs \ {p} : /\ Kept(k.proc[r], e.proc[r])
                              /\ e.proc[r].sockets = k.proc[r].sockets
  BY <1>5, <1>9 DEF SameProcs, Kept
<1>12. /\ k'.proc[p].alive /\ k'.proc[p].run_qed
       /\ k'.proc[p].blocked = << >> /\ k'.proc[p].sockets = {<< f, f >>}
       /\ \A r \in Procs \ {p} : Kept(k.proc[r], k'.proc[r])
       /\ \A r \in Procs \ {p, Main} : k'.proc[r].sockets = k.proc[r].sockets
       /\ k'.proc[Main].sockets \in {k.proc[Main].sockets, {}}
       /\ k'.run_procs = << p >> \o k.run_procs
  <2>1. CASE k' = e
    BY <1>2, <1>10, <1>11, <2>1
  <2>2. CASE k' = StopListening(e)
    <3>1. /\ k'.run_procs = e.run_procs
          /\ \A r \in Procs : Kept(e.proc[r], k'.proc[r])
          /\ k'.proc[Main].sockets = {}
          /\ \A r \in Procs \ {Main} : k'.proc[r].sockets = e.proc[r].sockets
      BY <1>9, <2>2, StopIs
    <3> QED
      BY <1>2, <1>10, <1>11, <3>1 DEF Kept
  <2> QED
    BY <1>7, <2>1, <2>2
<1> QED
  BY <1>1, <1>2, <1>12

(* The head of the run list executes, and retries what it was blocked on. *)
LEMMA DispatchIs ==
  ASSUME IInv, Dispatch
  PROVE  /\ cur' \in Procs /\ phase = "postpoll" /\ phase' = "execute" /\ cur = NoProc
         /\ k.proc[cur'].alive /\ k'.proc[cur'].alive
         /\ ~ k'.proc[cur'].run_qed /\ k'.proc[cur'].blocked = << >>
         /\ k'.proc[cur'].sockets = k.proc[cur'].sockets
         /\ \A r \in Procs \ {cur'} : k'.proc[r] = k.proc[r]
         /\ \A r \in Procs \ {cur'} : In(k.run_procs, r) => In(k'.run_procs, r)
         /\ table.fresh = {}
         /\ UNCHANGED << table, open, todo, looping >>
<1> DEFINE p == cur'
           n == Retried(k.proc[p])
<1>1. /\ p = Head(k.run_procs) /\ k.run_procs # << >> /\ phase = "postpoll" /\ phase' = "execute"
      /\ k' = [k EXCEPT !.run_procs = Tail(@), !.proc[p] = Retried(@)]
      /\ table.fresh = {} /\ UNCHANGED << table, open, todo, looping >>
  BY DEF Dispatch
<1>2. k \in KernType /\ k.run_procs \in Seq(Procs) /\ cur = NoProc
  BY <1>1 DEF IInv, QueueInv, KernType, TypeOK
<1>3. p \in Procs /\ k.proc[p].alive
  <2>1. p \in Procs /\ In(k.run_procs, p)
    BY <1>1, <1>2, RemoveHead DEF IInv, QueueInv
  <2> QED
    BY <2>1 DEF IInv, QueueInv
<1>4. k.proc[p] \in Process
  BY <1>2, <1>3 DEF KernType
<1>5. /\ n.alive = k.proc[p].alive /\ ~ n.run_qed /\ n.blocked = << >>
      /\ n.sockets = k.proc[p].sockets
  BY <1>4 DEF Retried, Process
<1>6. k'.run_procs = Tail(k.run_procs) /\ k'.proc = [k.proc EXCEPT ![p] = n]
  BY <1>1, <1>2 DEF KernType
<1> HIDE DEF n
<1>7. k'.proc[p] = n /\ \A r \in Procs \ {p} : k'.proc[r] = k.proc[r]
  BY <1>2, <1>3, <1>6 DEF KernType
<1>8. \A r \in Procs \ {p} : In(k.run_procs, r) => In(k'.run_procs, r)
  BY <1>1, <1>2, <1>6, RemovedIn
<1> QED
  BY <1>1, <1>2, <1>3, <1>5, <1>7, <1>8

(* The executing process waits, for what it is left with. *)
LEMMA ReturnIs ==
  ASSUME IInv, ExecuteReturns
  PROVE  \E q \in BlockedQueues(k.proc[cur].sockets) :
           /\ Descriptors(k.proc[cur].sockets) \subseteq open \/ Lingers \/ q = << >>
           /\ todo' = q /\ k'.proc[cur].blocked = q /\ q \in Seq(Blocked)
           /\ ~ k'.proc[cur].run /\ ~ k'.proc[cur].run_qed
           /\ k'.proc[cur].alive /\ k.proc[cur].alive
           /\ k'.proc[cur].sockets = k.proc[cur].sockets
           /\ \A r \in Procs \ {cur} : k'.proc[r] = k.proc[r]
           /\ k'.run_procs = k.run_procs
<1>1. PICK q \in BlockedQueues(k.proc[cur].sockets) :
        /\ Descriptors(k.proc[cur].sockets) \subseteq open \/ Lingers \/ q = << >>
        /\ k' = [k EXCEPT !.proc[cur] = [@ EXCEPT !.run = FALSE, !.blocked = q]]
        /\ todo' = q
  BY DEF ExecuteReturns
<1>2. cur \in Procs /\ k \in KernType /\ k.proc[cur].alive /\ ~ k.proc[cur].run_qed
  BY KernAssumption DEF ExecuteReturns, IInv, TypeOK, QueueInv, PhaseInv
<1>3. q \in Seq(Blocked) /\ k.proc[cur] \in Process
  BY <1>2, BlockedQueuesType DEF KernType
<1> DEFINE n == [k.proc[cur] EXCEPT !.run = FALSE, !.blocked = q]
<1>4. /\ n.alive = k.proc[cur].alive /\ n.run_qed = k.proc[cur].run_qed
      /\ n.sockets = k.proc[cur].sockets /\ ~ n.run /\ n.blocked = q
  BY <1>3 DEF Process
<1>5. k'.run_procs = k.run_procs /\ k'.proc = [k.proc EXCEPT ![cur] = n]
  BY <1>1, <1>2 DEF KernType
<1> HIDE DEF n
<1>6. k'.proc[cur] = n /\ \A r \in Procs \ {cur} : k'.proc[r] = k.proc[r]
  BY <1>2, <1>5 DEF KernType
<1> QED
  BY <1>1, <1>2, <1>3, <1>4, <1>5, <1>6

(* The executed process is queued, or freed when nothing would queue it. *)
LEMMA DoneIs ==
  ASSUME IInv, DispatchReturns
  PROVE  /\ cur \in Procs /\ cur' = NoProc /\ phase = "register" /\ phase' = "postpoll"
         /\ \A r \in Procs \ {cur} : k'.proc[r].sockets = k.proc[r].sockets
         /\ \A r \in Procs \ {cur} : Kept(k.proc[r], k'.proc[r])
         /\ \/ /\ k'.proc[cur] = FreeSlot /\ k'.run_procs = k.run_procs
               /\ ~ k.proc[cur].run /\ k.proc[cur].blocked = << >>
               /\ table' = PrepollZombie(table, cur)
            \/ /\ k.proc[cur].run \/ k.proc[cur].blocked # << >>
               /\ k'.proc[cur].run_qed <=> k.proc[cur].run
               /\ k'.proc[cur].blocked_qed <=> k.proc[cur].blocked # << >>
               /\ k'.proc[cur].alive = k.proc[cur].alive
               /\ k'.proc[cur].sockets = k.proc[cur].sockets
               /\ k'.proc[cur].blocked = k.proc[cur].blocked
               /\ table' = table
               /\ k'.run_procs = IF k.proc[cur].run THEN << cur >> \o k.run_procs
                                 ELSE k.run_procs
<1> DEFINE s == FlushProcQueues(k, cur)
<1>1. /\ phase = "register" /\ phase' = "postpoll" /\ cur' = NoProc
      /\ \/ /\ IsZombie(s, cur) /\ table' = PrepollZombie(table, cur)
            /\ k' = [s EXCEPT !.proc[cur] = FreeSlot]
         \/ ~ IsZombie(s, cur) /\ k' = s /\ table' = table
  BY DEF DispatchReturns
<1>2. cur \in Procs /\ k \in KernType /\ ~ k.proc[cur].run_qed
  BY <1>1, KernAssumption DEF IInv, TypeOK, QueueInv, PhaseInv
<1>3. s = FlushProcQueues(k, cur)
  OBVIOUS
<1> HIDE DEF s
<1>4. /\ SameProcs(k, s) /\ s \in KernType
      /\ \A r \in Procs \ {cur} : /\ s.proc[r].run_qed = k.proc[r].run_qed
                                  /\ s.proc[r].blocked_qed = k.proc[r].blocked_qed
      /\ s.proc[cur].run_qed <=> k.proc[cur].run
      /\ s.proc[cur].blocked_qed <=> k.proc[cur].blocked # << >>
      /\ s.run_procs = IF k.proc[cur].run /\ ~ k.proc[cur].run_qed THEN << cur >> \o k.run_procs
                       ELSE k.run_procs
  BY <1>2, <1>3, FlushIs
<1>5. \A r \in Procs \ {cur} : /\ Kept(k.proc[r], s.proc[r])
                               /\ s.proc[r].sockets = k.proc[r].sockets
  BY <1>4 DEF SameProcs, Kept
<1>6. CASE ~ IsZombie(s, cur) /\ k' = s /\ table' = table
  <2>1. k.proc[cur].run \/ k.proc[cur].blocked # << >>
    BY <1>4, <1>6 DEF IsZombie
  <2>2. /\ s.proc[cur].alive = k.proc[cur].alive
        /\ s.proc[cur].sockets = k.proc[cur].sockets
        /\ s.proc[cur].blocked = k.proc[cur].blocked
    BY <1>2, <1>4 DEF SameProcs
  <2> QED
    BY <1>1, <1>2, <1>4, <1>5, <1>6, <2>1, <2>2
<1>7. CASE /\ IsZombie(s, cur) /\ table' = PrepollZombie(table, cur)
           /\ k' = [s EXCEPT !.proc[cur] = FreeSlot]
  <2>1. ~ k.proc[cur].run /\ k.proc[cur].blocked = << >>
    BY <1>4, <1>7 DEF IsZombie
  <2>2. k'.run_procs = s.run_procs /\ k'.proc = [s.proc EXCEPT ![cur] = FreeSlot]
    BY <1>4, <1>7 DEF KernType
  <2>3. k'.proc[cur] = FreeSlot /\ \A r \in Procs \ {cur} : k'.proc[r] = s.proc[r]
    BY <1>2, <1>4, <2>2 DEF KernType
  <2>4. k'.run_procs = k.run_procs
    BY <1>4, <2>1, <2>2
  <2> QED
    BY <1>1, <1>2, <1>5, <1>7, <2>1, <2>3, <2>4
<1> QED
  BY <1>1, <1>6, <1>7
(* The process of a fresh descriptor is queued. *)
LEMMA FreshIs ==
  ASSUME IInv, PostpollFresh
  PROVE  \E f \in table.fresh : LET p == table.fd[f].proc_id IN
           /\ p \in Procs /\ phase = "postpoll" /\ cur = NoProc
           /\ SameProcs(k, k') /\ k'.proc[p].run_qed
           /\ \A r \in Procs : /\ k'.proc[r].blocked_qed = k.proc[r].blocked_qed
                               /\ r # p => k'.proc[r].run_qed = k.proc[r].run_qed
           /\ ~ k.proc[p].run_qed => In(k'.run_procs, p)
           /\ \A r \in Procs : In(k.run_procs, r) => In(k'.run_procs, r)
           /\ table'.fresh = table.fresh \ {f} /\ table'.fd = table.fd
           /\ table'.dirty = table.dirty
           /\ UNCHANGED << open, phase, cur, todo, looping, signo, shutdown >>
<1>1. PICK f \in table.fresh : /\ table' = [table EXCEPT !.fresh = @ \ {f}]
                               /\ k' = EnqueueRun(k, table.fd[f].proc_id)
  BY DEF PostpollFresh
<1> DEFINE p == table.fd[f].proc_id
<1>2. /\ table \in TableType /\ k \in KernType /\ p \in Procs /\ phase = "postpoll"
      /\ cur = NoProc /\ k.run_procs \in Seq(Procs)
  BY <1>1 DEF PostpollFresh, IInv, TableInv, QueueInv, TypeOK, TableType, KernType, Descriptor
<1>3. /\ table'.fresh = table.fresh \ {f} /\ table'.fd = table.fd
      /\ table'.dirty = table.dirty
  BY <1>1, <1>2 DEF TableType
<1>4. k' = EnqueueRun(k, p)
  BY <1>1
<1>5. UNCHANGED << open, phase, cur, todo, looping, signo, shutdown >>
  BY DEF PostpollFresh
<1> HIDE DEF p
<1>6. /\ SameProcs(k, k') /\ k'.proc[p].run_qed
      /\ \A r \in Procs : /\ k'.proc[r].blocked_qed = k.proc[r].blocked_qed
                          /\ r # p => k'.proc[r].run_qed = k.proc[r].run_qed
      /\ k'.run_procs = IF k.proc[p].run_qed THEN k.run_procs ELSE << p >> \o k.run_procs
  BY <1>2, <1>4, EnqueueRunIs
<1>7. /\ ~ k.proc[p].run_qed => In(k'.run_procs, p)
      /\ \A r \in Procs : In(k.run_procs, r) => In(k'.run_procs, r)
  BY <1>2, <1>6, InsertedIn
<1> QED
  BY <1>2, <1>3, <1>5, <1>6, <1>7 DEF p

----------------------------------------------------------------------------
(* No process is lost *)

\* Without a shutdown the flags of the processes tell where they are.
ListedInv ==
  /\ ~ shutdown /\ signo # "TERM"
  /\ \A p \in Procs : k.proc[p].alive /\ p # cur => k.proc[p].run_qed \/ k.proc[p].blocked_qed
  /\ \A p \in Procs : k.proc[p].run_qed => In(k.run_procs, p)

(* It holds when the loop starts, *)
LEMMA InitListed == Init => ListedInv
<1> SUFFICES ASSUME Init PROVE ListedInv
  OBVIOUS
<1> DEFINE s == [run_procs |-> << >>, blocked_procs |-> {},
                 proc |-> [p \in Procs |-> IF p = Main THEN NewProc(MainSockets) ELSE FreeSlot]]
<1>1. Main \in Procs /\ << >> \in Seq(Blocked) /\ MainSockets \in SUBSET Sockets
  BY KernAssumption DEF Sockets
<1>2. /\ FreeSlot \in Process /\ ~ FreeSlot.run_qed /\ ~ FreeSlot.alive
      /\ NewProc(MainSockets) \in Process
      /\ NewProc(MainSockets).run /\ ~ NewProc(MainSockets).run_qed
  BY <1>1 DEF FreeSlot, NewProc, Process
<1>3. /\ s \in KernType /\ s.proc[Main].run /\ ~ s.proc[Main].run_qed
      /\ \A r \in Procs \ {Main} : ~ s.proc[r].alive /\ ~ s.proc[r].run_qed
      /\ s.run_procs = << >>
  BY <1>1, <1>2 DEF KernType
<1>4. k = FlushProcQueues(s, Main) /\ ~ shutdown /\ signo = "NONE"
  BY DEF Init
<1> HIDE DEF s
<1>5. /\ SameProcs(s, k)
      /\ \A r \in Procs \ {Main} : k.proc[r].run_qed = s.proc[r].run_qed
      /\ k.proc[Main].run_qed <=> s.proc[Main].run
      /\ k.run_procs = IF s.proc[Main].run /\ ~ s.proc[Main].run_qed THEN << Main >> \o s.run_procs
                       ELSE s.run_procs
  <2>1. s \in KernType /\ Main \in Procs /\ (s.proc[Main].run \/ ~ s.proc[Main].run_qed)
    BY <1>1, <1>3
  <2> QED
    BY <1>4, <2>1, FlushIs
<1>6. k.run_procs = << Main >> \o s.run_procs /\ s.run_procs \in Seq(Procs)
  BY <1>3, <1>5
<1>7. In(k.run_procs, Main)
  BY <1>1, <1>6, InsertedIn
<1> QED
  BY <1>3, <1>4, <1>5, <1>7 DEF ListedInv, SameProcs

(* and every step keeps it, unless a shutdown is requested. *)
LEMMA NextListed ==
  ASSUME Requests \subseteq {"USR1"}, IInv, ListedInv, [Next]_vars
  PROVE  ListedInv'
<1> USE KernAssumption
<1>1. ASSUME UNCHANGED << k, cur >>, signo' \in {signo, "NONE", "USR1"}, shutdown' = shutdown
      PROVE  ListedInv'
  BY <1>1 DEF ListedInv
<1>2. ReceiveSignal => signo' = "NONE" /\ shutdown' = shutdown
  BY DEF ReceiveSignal, ListedInv, IInv, TypeOK
<1>3. CASE PostpollFresh
  <2>1. PICK f \in table.fresh : LET p == table.fd[f].proc_id IN
           /\ p \in Procs /\ phase = "postpoll" /\ cur = NoProc
           /\ SameProcs(k, k') /\ k'.proc[p].run_qed
           /\ \A r \in Procs : /\ k'.proc[r].blocked_qed = k.proc[r].blocked_qed
                               /\ r # p => k'.proc[r].run_qed = k.proc[r].run_qed
           /\ ~ k.proc[p].run_qed => In(k'.run_procs, p)
           /\ \A r \in Procs : In(k.run_procs, r) => In(k'.run_procs, r)
           /\ UNCHANGED << cur, signo, shutdown >>
    BY <1>3, FreshIs
  <2> QED
    BY <2>1 DEF ListedInv, SameProcs
<1>4. CASE Dispatch
  <2>1. /\ cur' \in Procs /\ cur = NoProc /\ ~ k'.proc[cur'].run_qed
        /\ \A r \in Procs \ {cur'} : k'.proc[r] = k.proc[r]
        /\ \A r \in Procs \ {cur'} : In(k.run_procs, r) => In(k'.run_procs, r)
    BY <1>4, DispatchIs
  <2>2. signo' = "NONE" /\ shutdown' = shutdown
    BY <1>2, <1>4 DEF Dispatch
  <2> QED
    BY <2>1, <2>2 DEF ListedInv
<1>5. CASE PostpollReturns \/ PrepollSocket \/ Close \/ Poll
  BY <1>1, <1>5 DEF PostpollReturns, PrepollSocket, Close, Poll
<1>6. CASE PollAgain \/ PollReturns
  <2>1. UNCHANGED << k, cur >> /\ ReceiveSignal
    BY <1>6 DEF PollAgain, PollReturns
  <2> QED
    BY <1>1, <1>2, <2>1
<1>7. CASE Accept
  <2>1. PICK f \in Accepted \ open, p \in Procs :
           /\ k'.proc[p].run_qed
           /\ \A r \in Procs \ {p} : Kept(k.proc[r], k'.proc[r])
           /\ k'.run_procs = << p >> \o k.run_procs
    BY <1>7, AcceptIs
  <2>2. /\ UNCHANGED << cur, signo, shutdown >> /\ k.run_procs \in Seq(Procs)
    BY <1>7 DEF Accept, IInv, QueueInv, KernType
  <2>3. In(k'.run_procs, p) /\ \A r \in Procs : In(k.run_procs, r) => In(k'.run_procs, r)
    BY <2>1, <2>2, InsertedIn
  <2> QED
    BY <2>1, <2>2, <2>3 DEF ListedInv, Kept
<1>8. CASE AcceptFails
  <2>1. k' = StopListening(k) /\ UNCHANGED << cur, signo, shutdown >> /\ k \in KernType
    BY <1>8 DEF AcceptFails, IInv, QueueInv
  <2>2. k'.run_procs = k.run_procs /\ \A r \in Procs : Kept(k.proc[r], k'.proc[r])
    BY <2>1, StopIs
  <2> QED
    BY <2>1, <2>2 DEF ListedInv, Kept
<1>9. CASE RequestShutdown \/ PrepollInterrupt
  BY <1>9 DEF RequestShutdown, PrepollInterrupt, ListedInv
<1>10. CASE ExecuteReturns
  <2>1. /\ ~ k'.proc[cur].run_qed /\ k'.run_procs = k.run_procs
        /\ \A r \in Procs \ {cur} : k'.proc[r] = k.proc[r]
    BY <1>10, ReturnIs
  <2>2. UNCHANGED << cur, signo, shutdown >>
    BY <1>10 DEF ExecuteReturns
  <2> QED
    BY <2>1, <2>2 DEF ListedInv
<1>11. CASE DispatchReturns
  <2>1. signo' = "NONE" /\ shutdown' = shutdown
    BY <1>2, <1>11 DEF DispatchReturns
  <2>2. /\ cur \in Procs /\ cur' = NoProc
        /\ \A r \in Procs \ {cur} : Kept(k.proc[r], k'.proc[r])
    BY <1>11, DoneIs
  <2>3. k.run_procs \in Seq(Procs) /\ phase = "register"
    BY <1>11, DoneIs DEF IInv, QueueInv, KernType
  <2>4. CASE k'.proc[cur] = FreeSlot /\ k'.run_procs = k.run_procs
    <3>1. ~ k'.proc[cur].alive /\ ~ k'.proc[cur].run_qed
      BY <2>4 DEF FreeSlot
    <3> QED
      BY <2>1, <2>2, <2>4, <3>1 DEF ListedInv, Kept
  <2>5. CASE /\ k.proc[cur].run \/ k.proc[cur].blocked # << >>
             /\ k'.proc[cur].run_qed <=> k.proc[cur].run
             /\ k'.proc[cur].blocked_qed <=> k.proc[cur].blocked # << >>
             /\ k'.run_procs = IF k.proc[cur].run THEN << cur >> \o k.run_procs
                               ELSE k.run_procs
    <3>1. /\ k.proc[cur].run => In(k'.run_procs, cur)
          /\ \A r \in Procs : In(k.run_procs, r) => In(k'.run_procs, r)
      BY <2>2, <2>3, <2>5, InsertedIn
    <3> QED
      BY <2>1, <2>2, <2>5, <3>1 DEF ListedInv, Kept
  <2> QED
    BY <1>11, <2>4, <2>5, DoneIs
<1>12. CASE \E sig \in Requests \cap {"TERM", "USR1"} : Signal(sig)
  BY <1>1, <1>12 DEF Signal
<1>13. CASE UNCHANGED vars
  BY <1>1, <1>13 DEF vars
<1> QED
  BY <1>3, <1>4, <1>5, <1>6, <1>7, <1>8, <1>9, <1>10, <1>11, <1>12, <1>13
     DEF Next, Postpoll, Execute

(* As long as no shutdown is requested, every live process is executing or *)
(* listed: vk_kern_flush_proc_queues puts it back after each dispatch.     *)
(* (A shutdown may mark a process to run that is on no list.)              *)
THEOREM KernLiveProcListed == Requests \subseteq {"USR1"} => (Spec => []LiveProcListed)
<1> SUFFICES ASSUME Requests \subseteq {"USR1"} PROVE Spec => []LiveProcListed
  OBVIOUS
<1>1. Init => ListedInv
  BY InitListed
<1>2. IInv /\ ListedInv /\ [Next]_vars => ListedInv'
  BY NextListed
<1>3. IInv /\ ListedInv => LiveProcListed
  BY DEF IInv, QueueInv, ListedInv, LiveProcListed, Listed, In
<1> QED
  BY <1>1, <1>2, <1>3, KernInvariant, PTL DEF Spec
----------------------------------------------------------------------------
(* What the steps do to the descriptors *)

\* f is allocated to p, or to nobody.
FreeFor(t, f, p) == t.fd[f].allocated => t.fd[f].proc_id = p

\* r is t after f was registered.
Prepolled(t, r, f, ev, p) ==
  /\ r \in TableType /\ r.fresh = t.fresh /\ r.polled = t.polled
  /\ \A g \in FDs \ {f} : r.fd[g] = t.fd[g]
  /\ r.fd[f].allocated /\ r.fd[f].proc_id = p /\ r.fd[f].events = ev
  /\ t.dirty \subseteq r.dirty /\ (ev # {} => f \in r.dirty) /\ r.dirty \subseteq t.dirty \cup {f}

(* A blocked descriptor is allocated to its process, for its events. *)
LEMMA PrepollFdIs ==
  ASSUME NEW t \in TableType, NEW f \in FDs, NEW ev \in SUBSET Events, NEW p \in Procs,
         FreeFor(t, f, p), NEW r, r = PrepollBlockedFd(t, f, ev, p)
  PROVE  Prepolled(t, r, f, ev, p)
<1> DEFINE a == Allocate(t, f, p)
           b == [a EXCEPT !.fd[f] = [@ EXCEPT !.events = ev, !.shut = FALSE]]
<1>1. /\ a \in TableType /\ a.dirty = t.dirty /\ a.fresh = t.fresh /\ a.polled = t.polled
      /\ \A g \in FDs \ {f} : a.fd[g] = t.fd[g]
      /\ a.fd[f].allocated /\ a.fd[f].proc_id = p
  <2>1. CASE t.fd[f].allocated
    BY <2>1 DEF Allocate, FreeFor
  <2>2. CASE ~ t.fd[f].allocated
    BY <2>2, ZenonT(40) DEF Allocate, TableType, Descriptor
  <2> QED
    BY <2>1, <2>2
<1> HIDE DEF a
<1>2. /\ b \in TableType /\ b.dirty = t.dirty /\ b.fresh = t.fresh /\ b.polled = t.polled
      /\ \A g \in FDs \ {f} : b.fd[g] = t.fd[g]
      /\ b.fd[f].allocated /\ b.fd[f].proc_id = p /\ b.fd[f].events = ev
  BY <1>1, ZenonT(40) DEF TableType, Descriptor
<1>3. r = IF ev # {} THEN [b EXCEPT !.dirty = @ \cup {f}] ELSE b
  BY DEF PrepollBlockedFd, a
<1> HIDE DEF b
<1>4. /\ r \in TableType /\ r.fd = b.fd /\ r.fresh = b.fresh /\ r.polled = b.polled
      /\ b.dirty \subseteq r.dirty /\ (ev # {} => f \in r.dirty) /\ r.dirty \subseteq b.dirty \cup {f}
  BY <1>2, <1>3 DEF TableType
<1> QED
  BY <1>2, <1>4 DEF Prepolled

(* So are those of a blocked socket. *)
LEMMA PrepollSocketIs ==
  ASSUME NEW t \in TableType, NEW b \in Blocked, NEW p \in Procs,
         \A f \in {b.rx, b.tx} \ {NoFD} : FreeFor(t, f, p),
         "IN" \in b.ev => b.rx \in FDs, "OUT" \in b.ev => b.tx \in FDs,
         NEW r, r = PrepollBlockedSocket(t, b, p)
  PROVE  /\ OwnedBy(r, p, b) /\ (\A W : Interest(r, b, W)) /\ r.fresh = t.fresh
         /\ \A g \in FDs \ {b.rx, b.tx} : r.fd[g] = t.fd[g]
         /\ t.dirty \subseteq r.dirty /\ r.dirty \subseteq t.dirty \cup {b.rx, b.tx}
         /\ r.polled = t.polled
<1> DEFINE e == IF b.rx # NoFD THEN PrepollBlockedFd(t, b.rx, b.ev \cap {"IN"}, p) ELSE t
           x == b.ev \cap {"IN"}
           y == b.ev \cap {"OUT"}
<1>1. /\ b.rx \in FDs \cup {NoFD} /\ b.tx \in FDs \cup {NoFD} /\ NoFD \notin FDs
      /\ x \in SUBSET Events /\ y \in SUBSET Events
      /\ ("IN" \in b.ev <=> "IN" \in x) /\ ("OUT" \in b.ev => y = {"OUT"})
  BY KernAssumption DEF Blocked, Events
<1>2. r = IF b.tx # NoFD /\ b.tx # b.rx THEN PrepollBlockedFd(e, b.tx, y, p) ELSE e
  BY DEF PrepollBlockedSocket
<1>3. e = IF b.rx # NoFD THEN PrepollBlockedFd(t, b.rx, x, p) ELSE t
  OBVIOUS
<1> HIDE DEF e, x, y
<1>4. /\ e \in TableType /\ e.fresh = t.fresh /\ e.polled = t.polled
      /\ \A g \in FDs \ {b.rx} : e.fd[g] = t.fd[g]
      /\ b.rx # NoFD => /\ e.fd[b.rx].allocated /\ e.fd[b.rx].proc_id = p
                        /\ e.fd[b.rx].events = x
      /\ t.dirty \subseteq e.dirty /\ (b.rx # NoFD /\ x # {} => b.rx \in e.dirty)
      /\ e.dirty \subseteq t.dirty \cup {b.rx}
  <2>1. CASE b.rx = NoFD
    BY <1>3, <2>1
  <2>2. CASE b.rx # NoFD
    <3>1. PICK f \in FDs : f = b.rx
      BY <1>1, <2>2
    <3>2. FreeFor(t, f, p)
      BY <2>2, <3>1
    <3>3. e = PrepollBlockedFd(t, f, x, p) /\ x \in SUBSET Events
      BY <1>1, <1>3, <2>2, <3>1
    <3>4. Prepolled(t, e, f, x, p)
      BY <3>2, <3>3, PrepollFdIs
    <3> QED
      BY <3>1, <3>4 DEF Prepolled
  <2> QED
    BY <2>1, <2>2
<1>5. CASE b.tx = NoFD \/ b.tx = b.rx
  <2>1. r = e
    BY <1>2, <1>5
  <2>2. OwnedBy(r, p, b)
    BY <1>4, <1>5, <2>1 DEF OwnedBy
  <2>3. \A W : Interest(r, b, W)
    BY <1>1, <1>4, <1>5, <2>1 DEF Interest
  <2> QED
    BY <1>4, <2>1, <2>2, <2>3
<1>6. CASE b.tx # NoFD /\ b.tx # b.rx
  <2>1. PICK f \in FDs : f = b.tx
    BY <1>1, <1>6
  <2>2. FreeFor(t, f, p)
    BY <1>6, <2>1
  <2>3. FreeFor(e, f, p)
    BY <1>4, <1>6, <2>1, <2>2 DEF FreeFor
  <2>4. r = PrepollBlockedFd(e, f, y, p) /\ y \in SUBSET Events /\ e \in TableType
    BY <1>1, <1>2, <1>4, <1>6, <2>1
  <2>5. Prepolled(e, r, f, y, p)
    BY <2>3, <2>4, PrepollFdIs
  <2>6. /\ r.fresh = e.fresh /\ r.polled = e.polled /\ r.dirty \subseteq e.dirty \cup {b.tx}
        /\ \A g \in FDs \ {b.tx} : r.fd[g] = e.fd[g]
        /\ r.fd[b.tx].allocated /\ r.fd[b.tx].proc_id = p /\ r.fd[b.tx].events = y
        /\ e.dirty \subseteq r.dirty /\ (y # {} => b.tx \in r.dirty)
    BY <2>1, <2>5 DEF Prepolled
  <2>7. b.rx # NoFD => b.rx \in FDs \ {b.tx}
    BY <1>1, <1>6
  <2>8. OwnedBy(r, p, b)
    BY <1>4, <2>7, <2>6 DEF OwnedBy
  <2>9. \A W : Interest(r, b, W)
    BY <1>1, <1>4, <2>7, <2>6 DEF Interest
  <2> QED
    BY <1>4, <2>8, <2>9, <2>6
<1> QED
  BY <1>5, <1>6

(* There is nothing to deallocate before a live process is registered. *)
LEMMA ClosedIs ==
  ASSUME NEW t, NEW proc, NEW p \in Procs, TableInv(t, proc), NEW c, c = PrepollClosed(t, p)
  PROVE  c.fd = t.fd /\ c.dirty = t.dirty /\ c.fresh = t.fresh /\ c.polled = t.polled
<1>1. t \in TableType /\ t.fd \in [FDs -> Descriptor]
  BY DEF TableInv, TableType
<1>2. {f \in AllocatedTo(t, p) : t.fd[f].closed} = {}
  BY DEF AllocatedTo, TableInv
<1> QED
  BY <1>1, <1>2 DEF PrepollClosed, TableType

(* A zombie takes its own descriptors with it. *)
LEMMA ZombieIs ==
  ASSUME NEW t \in TableType, NEW p \in Procs, NEW z, z = PrepollZombie(t, p)
  PROVE  /\ z.fresh = t.fresh /\ t.dirty \subseteq z.dirty
         /\ \A f \in FDs : ~ (t.fd[f].allocated /\ t.fd[f].proc_id = p) => z.fd[f] = t.fd[f]
         /\ \A f \in FDs : t.fd[f].allocated /\ t.fd[f].proc_id = p => ~ z.fd[f].allocated
<1> DEFINE G == AllocatedTo(t, p)
           e == [f \in FDs |-> IF f \in G
                               THEN [t.fd[f] EXCEPT !.shut = TRUE, !.zombie = TRUE,
                                                    !.allocated = FALSE]
                               ELSE t.fd[f]]
<1>1. t.fd \in [FDs -> Descriptor] /\ \A f \in FDs : f \in G <=> t.fd[f].allocated /\ t.fd[f].proc_id = p
  BY DEF TableType, AllocatedTo
<1>2. z.fd = e /\ z.fresh = t.fresh /\ z.dirty = t.dirty \cup G
  BY <1>1 DEF PrepollZombie, TableType
<1>3. \A f \in G : ~ e[f].allocated
  BY <1>1 DEF Descriptor, AllocatedTo
<1>4. \A f \in FDs \ G : e[f] = t.fd[f]
  OBVIOUS
<1> HIDE DEF e, G
<1> QED
  BY <1>1, <1>2, <1>3, <1>4

(* What is allocated and dirty stays so, and goes into the poll array. *)
LEMMA CleanIs ==
  ASSUME NEW t, NEW proc, TableInv(t, proc), NEW c, c = CleanFds(t)
  PROVE  /\ \A f \in FDs : c.fd[f].allocated = t.fd[f].allocated
         /\ \A f \in FDs : t.fd[f].allocated => c.fd[f] = t.fd[f]
         /\ \A f \in t.dirty : t.fd[f].allocated => f \in c.dirty
         /\ c.dirty \subseteq t.dirty
         /\ \A f \in t.dirty : t.fd[f].allocated /\ t.fd[f].events # {} => f \in c.polled
         /\ \A f \in c.polled : c.fd[f].events # {}
<1> DEFINE D == {f \in t.dirty : t.fd[f].zombie}
           S == {f \in t.dirty : ~ t.fd[f].closed /\ (t.fd[f].zombie \/ t.fd[f].shut)}
           e == [f \in FDs |-> IF f \in S THEN [t.fd[f] EXCEPT !.closed = TRUE]
                               ELSE t.fd[f]]
           P == {f \in t.dirty : ~ e[f].closed /\ e[f].events # {}}
<1>1. t.fd \in [FDs -> Descriptor] /\ t.dirty \subseteq FDs
  BY DEF TableInv, TableType
<1>2. \A f \in FDs : t.fd[f].allocated => f \notin D /\ f \notin S /\ ~ t.fd[f].closed
  BY DEF TableInv
<1>3. \A f \in FDs : e[f].allocated = t.fd[f].allocated
  BY <1>1 DEF Descriptor
<1>4. \A f \in FDs : t.fd[f].allocated => e[f] = t.fd[f]
  BY <1>2
<1>5. c.fd = e /\ c.dirty = t.dirty \ (D \cup S) /\ c.polled = P
  BY DEF CleanFds
<1>6. \A f \in t.dirty : t.fd[f].allocated /\ t.fd[f].events # {} => f \in P
  BY <1>1, <1>2, <1>4
<1> HIDE DEF e, D, S
<1>7. \A f \in P : e[f].events # {}
  OBVIOUS
<1> HIDE DEF P
<1> QED
  BY <1>1, <1>2, <1>3, <1>4, <1>5, <1>6, <1>7

(* Of the poll array, what was not reported stays as it was. *)
LEMMA ProcessIs ==
  ASSUME NEW t \in TableType, NEW rev, NEW c, c = ProcessFds(t, rev)
  PROVE  /\ \A f \in FDs : /\ c.fd[f].allocated = t.fd[f].allocated
                           /\ c.fd[f].proc_id = t.fd[f].proc_id
         /\ \A f \in t.polled : rev[f] # {} => f \in c.fresh
         /\ \A f \in FDs : f \notin t.polled \/ ~ (t.fd[f].events \subseteq rev[f]) =>
              c.fd[f] = t.fd[f] /\ (f \in t.dirty => f \in c.dirty)
<1> DEFINE M == {f \in t.polled : t.fd[f].events \subseteq rev[f]}
           N == {f \in t.polled : rev[f] # {}}
           e == [f \in FDs |-> IF f \in M THEN [t.fd[f] EXCEPT !.events = {}] ELSE t.fd[f]]
<1>1. t.fd \in [FDs -> Descriptor]
  BY DEF TableType
<1>2. \A f \in FDs : e[f].allocated = t.fd[f].allocated /\ e[f].proc_id = t.fd[f].proc_id
  BY <1>1 DEF Descriptor
<1>3. c.fd = e /\ c.dirty = t.dirty \ M /\ c.fresh = t.fresh \cup N
  BY <1>1 DEF ProcessFds, TableType
<1>4. \A f \in FDs : f \notin t.polled \/ ~ (t.fd[f].events \subseteq rev[f]) =>
        f \notin M /\ e[f] = t.fd[f]
  OBVIOUS
<1>5. \A f \in t.polled : rev[f] # {} => f \in N
  OBVIOUS
<1> HIDE DEF e, M, N
<1> QED
  BY <1>2, <1>3, <1>4, <1>5
----------------------------------------------------------------------------
(* The descriptors of the processes *)

(* What keeps the descriptors apart: no process or descriptor comes, and   *)
(* whoever is left alive by the loop has its descriptors open.             *)
LEMMA OwnKept ==
  ASSUME IInv, IInv', OwnInv, phase' # "register", open \subseteq open',
         \A p \in Procs : k'.proc[p].alive => k.proc[p].alive /\ Base(k', p) = Base(k, p),
         k'.proc[Main].sockets \in {k.proc[Main].sockets, {}},
         \A f \in FDs : table'.fd[f].allocated =>
           table.fd[f].allocated /\ table'.fd[f].proc_id = table.fd[f].proc_id,
         \A p \in Procs : k'.proc[p].alive /\ p # cur' =>
           p # cur \/ Descriptors(Base(k, p)) \subseteq open
  PROVE  OwnInv'
<1>1. k'.proc[Main].sockets \in {MainSockets, {}}
  BY DEF OwnInv
<1>2. ASSUME NEW p \in Procs \ {Main}, k'.proc[p].alive
      PROVE  \E f \in Accepted : k'.proc[p].sockets = {<< f, f >>}
  <2>1. k.proc[p].alive /\ k'.proc[p].sockets = k.proc[p].sockets
    BY <1>2 DEF Base
  <2> QED
    BY <2>1 DEF OwnInv
<1>3. ASSUME NEW p \in Procs, NEW q \in Procs, k'.proc[p].alive, k'.proc[q].alive, p # q
      PROVE  Descriptors(Base(k', p)) \cap Descriptors(Base(k', q)) = {}
  BY <1>3 DEF OwnInv
<1>4. ASSUME NEW p \in Procs, k'.proc[p].alive, p # cur'
      PROVE  Descriptors(Base(k', p)) \subseteq open'
  <2>1. Descriptors(Base(k, p)) \subseteq open
    BY <1>4 DEF OwnInv
  <2> QED
    BY <1>4, <2>1
<1>5. ASSUME NEW f \in FDs, table'.fd[f].allocated
      PROVE  f \in Descriptors(Base(k', table'.fd[f].proc_id))
  <2>1. table'.fd[f].proc_id \in Procs /\ k'.proc[table'.fd[f].proc_id].alive
    BY <1>5 DEF IInv, TableInv, TableType, Descriptor
  <2>2. f \in Descriptors(Base(k, table.fd[f].proc_id))
    BY <1>5 DEF OwnInv
  <2> QED
    BY <1>5, <2>1, <2>2
<1> QED
  BY <1>1, <1>2, <1>3, <1>4, <1>5 DEF OwnInv

(* Two blocked sockets share no descriptor. *)
LEMMA SocketsDisjoint ==
  ASSUME SocketsApart, OwnInv, NEW p \in Procs, NEW q \in Procs,
         NEW b \in Blocked, NEW c \in Blocked, Sound(k, p, b), Sound(k, q, c),
         p # q \/ SocketOf(b) # SocketOf(c)
  PROVE  {b.rx, b.tx} \cap {c.rx, c.tx} \subseteq {NoFD}
<1>1. /\ {b.rx, b.tx} \ {NoFD} \subseteq Descriptors(Base(k, p))
      /\ {c.rx, c.tx} \ {NoFD} \subseteq Descriptors(Base(k, q))
  <2>1. ASSUME NEW r \in Procs, NEW d \in Blocked, Sound(k, r, d)
        PROVE  {d.rx, d.tx} \ {NoFD} \subseteq Descriptors(Base(k, r))
    <3>1. /\ d.rx \in FDs \cup {NoFD} /\ d.tx \in FDs \cup {NoFD}
          /\ SocketOf(d) \in Base(k, r) /\ SocketOf(d)[1] = d.rx /\ SocketOf(d)[2] = d.tx
      BY <2>1 DEF Blocked, Sound, SocketOf
    <3> QED
      BY <3>1 DEF Descriptors
  <2> QED
    BY <2>1
<1>2. CASE p # q
  <2>1. Descriptors(Base(k, p)) \cap Descriptors(Base(k, q)) = {}
    BY <1>2 DEF OwnInv, Sound
  <2> QED
    BY <1>1, <2>1
<1>3. CASE p = q /\ p = Main /\ SocketOf(b) # SocketOf(c)
  <2>1. SocketOf(b) \in MainSockets /\ SocketOf(c) \in MainSockets
    BY <1>3 DEF Sound, Base
  <2>2. /\ SocketOf(b)[1] = b.rx /\ SocketOf(b)[2] = b.tx
        /\ SocketOf(c)[1] = c.rx /\ SocketOf(c)[2] = c.tx
    BY DEF SocketOf
  <2> QED
    BY <1>3, <2>1, <2>2 DEF SocketsApart
<1>4. CASE p = q /\ p # Main /\ SocketOf(b) # SocketOf(c)
  <2>1. PICK f \in Accepted : k.proc[p].sockets = {<< f, f >>}
    BY <1>4 DEF Sound, OwnInv
  <2> QED
    BY <1>4, <2>1 DEF Sound, Base
<1> QED
  BY <1>2, <1>3, <1>4

(* What keeps a process served: its descriptors stay as they are. *)
LEMMA ServedKept ==
  ASSUME NEW W, NEW p \in Procs, NEW b \in Blocked, Sound(k, p, b),
         OwnedBy(table, p, b), Roused(k, table, p) \/ Interest(table, b, W),
         \A f \in {b.rx, b.tx} \ {NoFD} : table'.fd[f] = table.fd[f],
         table.dirty \subseteq table'.dirty, Roused(k, table, p) => Roused(k', table', p)
  PROVE  Served(k', table', cur', todo', p, b, W)
<1>1. OwnedBy(table', p, b)
  BY DEF OwnedBy
<1>2. Interest(table, b, W) => Interest(table', b, W)
  <2>1. /\ "IN" \in b.ev => b.rx \in {b.rx, b.tx} \ {NoFD}
        /\ "OUT" \in b.ev => b.tx \in {b.rx, b.tx} \ {NoFD}
    BY KernAssumption DEF Sound
  <2> QED
    BY <2>1 DEF Interest
<1> QED
  BY <1>1, <1>2 DEF Served

(* A process keeps its blocked sockets, or gives them up. *)
LEMMA SoundKept ==
  ASSUME NEW s, NEW u, NEW p \in Procs, SoundQueue(s, p),
         \/ u.proc[p].blocked = << >>
         \/ /\ u.proc[p].alive <=> s.proc[p].alive
            /\ u.proc[p].blocked = s.proc[p].blocked /\ Base(u, p) = Base(s, p)
  PROVE  SoundQueue(u, p)
<1>1. CASE u.proc[p].blocked = << >>
  BY <1>1 DEF SoundQueue
<1>2. CASE /\ u.proc[p].alive <=> s.proc[p].alive
           /\ u.proc[p].blocked = s.proc[p].blocked /\ Base(u, p) = Base(s, p)
  BY <1>2 DEF SoundQueue, Sound
<1> QED
  BY <1>1, <1>2

(* The sockets a process may be left blocked on. *)
LEMMA BlockedQueuesAre ==
  ASSUME NEW socks, NEW q \in BlockedQueues(socks)
  PROVE  /\ \A i \in 1 .. Len(q) :
              /\ SocketOf(q[i]) \in socks /\ q[i].ev # {}
              /\ "IN" \in q[i].ev => q[i].rx \in open
              /\ "OUT" \in q[i].ev => q[i].tx \in open
         /\ \A i, j \in 1 .. Len(q) : SocketOf(q[i]) = SocketOf(q[j]) => i = j
<1> DEFINE w == UNION {Waits(s) : s \in socks}
           Fine(b) == /\ SocketOf(b) \in socks /\ b.ev # {} /\ ("IN" \in b.ev => b.rx \in open)
                      /\ ("OUT" \in b.ev => b.tx \in open)
<1>1. \A b \in w : Fine(b)
  BY DEF Waits, SocketOf
<1>2. \/ q = << >> \/ \E b \in w : q = << b >>
      \/ q \in w \X w /\ SocketOf(q[1]) # SocketOf(q[2])
  BY DEF BlockedQueues, SocketOf
<1> HIDE DEF w, Fine
<1>3. CASE q = << >>
  BY <1>3
<1>4. CASE \E b \in w : q = << b >>
  <2>1. PICK b \in w : q = << b >>
    BY <1>4
  <2>2. Len(q) = 1 /\ q[1] = b
    BY <2>1
  <2> QED
    BY <1>1, <2>2 DEF Fine
<1>5. CASE q \in w \X w /\ SocketOf(q[1]) # SocketOf(q[2])
  <2>1. Len(q) = 2 /\ q[1] \in w /\ q[2] \in w
    BY <1>5
  <2> QED
    BY <1>1, <1>5, <2>1 DEF Fine
<1> QED
  BY <1>2, <1>3, <1>4, <1>5

----------------------------------------------------------------------------
(* WaitInv is kept *)

(* It holds when the loop starts. *)
LEMMA InitWait ==
  ASSUME NEW W
  PROVE  Init => WaitInv(W)
<1> SUFFICES ASSUME Init PROVE WaitInv(W)
  OBVIOUS
<1> DEFINE s == [run_procs |-> << >>, blocked_procs |-> {},
                 proc |-> [p \in Procs |-> IF p = Main THEN NewProc(MainSockets) ELSE FreeSlot]]
<1>1. Main \in Procs /\ << >> \in Seq(Blocked) /\ MainSockets \in SUBSET Sockets
  BY KernAssumption DEF Sockets
<1>2. /\ FreeSlot \in Process /\ ~ FreeSlot.alive /\ FreeSlot.blocked = << >>
      /\ NewProc(MainSockets) \in Process /\ NewProc(MainSockets).blocked = << >>
      /\ NewProc(MainSockets).run /\ NewProc(MainSockets).sockets = MainSockets
  BY <1>1 DEF FreeSlot, NewProc, Process
<1>3. /\ s \in KernType /\ s.proc[Main].run /\ s.proc[Main].sockets = MainSockets
      /\ s.proc[Main].blocked = << >>
      /\ \A r \in Procs \ {Main} : ~ s.proc[r].alive /\ s.proc[r].blocked = << >>
  BY <1>1, <1>2 DEF KernType
<1>4. k = FlushProcQueues(s, Main)
  BY DEF Init
<1> HIDE DEF s
<1>5. s \in KernType /\ Main \in Procs /\ (s.proc[Main].run \/ ~ s.proc[Main].run_qed)
  BY <1>1, <1>3
<1>6. SameProcs(s, k)
  BY <1>4, <1>5, FlushIs
<1>7. /\ k.proc[Main].sockets = MainSockets
      /\ \A r \in Procs : k.proc[r].blocked = << >> /\ (k.proc[r].alive => r = Main)
  BY <1>1, <1>3, <1>6 DEF SameProcs
<1>8. \A f \in FDs : ~ table.fd[f].allocated
  BY DEF Init, FreeFd
<1>9. OwnInv
  BY <1>7, <1>8 DEF Init, OwnInv, Base
<1>10. SocketsInv /\ ServedInv(W)
  BY <1>7 DEF SocketsInv, SoundQueue, ServedInv
<1>11. LoopInv
  BY <1>7 DEF LoopInv, Init
<1> QED
  BY <1>9, <1>10, <1>11 DEF WaitInv
(* A step that leaves the processes, the descriptors and the loop alone,   *)
(* or starts to prepare the poll once nobody is left to run.               *)
LEMMA WaitIdle ==
  ASSUME NEW W, WaitInv(W), UNCHANGED << k, table, open, cur, todo >>,
         phase' = phase \/ (phase = "postpoll" /\ phase' \in {"prepoll", "done"} /\ k.run_procs = << >>)
  PROVE  WaitInv(W)'
<1>1. OwnInv'
  BY DEF WaitInv, OwnInv
<1>2. SocketsInv' /\ ServedInv(W)'
  BY DEF WaitInv, SocketsInv, ServedInv, Served, Roused
<1>3. LoopInv'
  BY DEF WaitInv, LoopInv
<1> QED
  BY <1>1, <1>2, <1>3 DEF WaitInv

(* A woken process is on the run list. *)
LEMMA WaitFresh ==
  ASSUME NEW W, IInv, IInv', WaitInv(W), PostpollFresh
  PROVE  WaitInv(W)'
<1>1. PICK f \in table.fresh : LET p == table.fd[f].proc_id IN
           /\ p \in Procs /\ phase = "postpoll" /\ cur = NoProc
           /\ SameProcs(k, k') /\ k'.proc[p].run_qed
           /\ \A r \in Procs : /\ k'.proc[r].blocked_qed = k.proc[r].blocked_qed
                               /\ r # p => k'.proc[r].run_qed = k.proc[r].run_qed
           /\ ~ k.proc[p].run_qed => In(k'.run_procs, p)
           /\ \A r \in Procs : In(k.run_procs, r) => In(k'.run_procs, r)
           /\ table'.fresh = table.fresh \ {f} /\ table'.fd = table.fd
           /\ table'.dirty = table.dirty
           /\ UNCHANGED << open, phase, cur, todo, looping, signo, shutdown >>
  BY FreshIs
<1>2. OwnInv'
  <2>1. OwnInv /\ k'.proc[Main].sockets = k.proc[Main].sockets
    BY <1>1, KernAssumption DEF SameProcs, WaitInv
  <2>2. \A p \in Procs : k'.proc[p].alive => k.proc[p].alive /\ Base(k', p) = Base(k, p)
    BY <1>1 DEF SameProcs, Base
  <2> QED
    BY <1>1, <2>1, <2>2, OwnKept
<1>3. SocketsInv'
  BY <1>1, SoundKept DEF WaitInv, SocketsInv, SameProcs, Base
<1>4. LoopInv'
  <2>1. \A p \in Procs : k'.proc[p].blocked # << >> /\ k'.proc[p].run_qed => In(k'.run_procs, p)
    BY <1>1 DEF WaitInv, LoopInv, SameProcs
  <2>2. todo = << >>
    BY <1>1 DEF WaitInv, LoopInv
  <2> QED
    BY <1>1, <2>1, <2>2 DEF LoopInv
<1>5. ASSUME NEW p \in Procs, NEW i \in 1 .. Len(k'.proc[p].blocked)
      PROVE  Served(k', table', cur', todo', p, k'.proc[p].blocked[i], W)
  <2> DEFINE b == k.proc[p].blocked[i]
  <2>1. k'.proc[p].blocked = k.proc[p].blocked
    BY <1>1 DEF SameProcs
  <2>2. Served(k, table, cur, todo, p, b, W)
    BY <1>5, <2>1 DEF WaitInv, ServedInv
  <2>3. OwnedBy(table, p, b) /\ (Roused(k, table, p) \/ Interest(table, b, W))
    BY <1>1, <2>2, KernAssumption DEF Served
  <2>4. k.proc[p].blocked # << >>
    BY <1>5, <2>1
  <2>5. Roused(k, table, p) => Roused(k', table', p)
    BY <1>1, <2>4 DEF Roused, WaitInv, LoopInv
  <2>6. OwnedBy(table', p, b) /\ (Interest(table, b, W) => Interest(table', b, W))
    BY <1>1, <2>3 DEF OwnedBy, Interest
  <2> HIDE DEF b
  <2>7. Served(k', table', cur', todo', p, b, W)
    BY <2>3, <2>5, <2>6 DEF Served
  <2> QED
    BY <2>1, <2>7 DEF b
<1> QED
  BY <1>2, <1>3, <1>4, <1>5 DEF WaitInv, ServedInv

(* The dispatched process is blocked on nothing. *)
LEMMA WaitDispatch ==
  ASSUME NEW W, IInv, IInv', WaitInv(W), Dispatch
  PROVE  WaitInv(W)'
<1>1. /\ cur' \in Procs /\ phase = "postpoll" /\ phase' = "execute" /\ cur = NoProc
      /\ k.proc[cur'].alive /\ k'.proc[cur'].alive
      /\ ~ k'.proc[cur'].run_qed /\ k'.proc[cur'].blocked = << >>
      /\ k'.proc[cur'].sockets = k.proc[cur'].sockets
      /\ \A r \in Procs \ {cur'} : k'.proc[r] = k.proc[r]
      /\ \A r \in Procs \ {cur'} : In(k.run_procs, r) => In(k'.run_procs, r)
      /\ table.fresh = {}
      /\ UNCHANGED << table, open, todo, looping >>
  BY DispatchIs
<1>2. \A p \in Procs : (k'.proc[p].alive <=> k.proc[p].alive) /\ Base(k', p) = Base(k, p)
  BY <1>1 DEF Base
<1>3. OwnInv'
  <2>1. OwnInv /\ k'.proc[Main].sockets = k.proc[Main].sockets
    BY <1>1, KernAssumption DEF WaitInv
  <2>2. \A p \in Procs : k'.proc[p].alive => k.proc[p].alive /\ Base(k', p) = Base(k, p)
    BY <1>2
  <2>3. \A p \in Procs : p # cur
    BY <1>1, KernAssumption
  <2> QED
    BY <1>1, <2>1, <2>2, <2>3, OwnKept
<1>4. SocketsInv'
  BY <1>1, <1>2, SoundKept DEF WaitInv, SocketsInv
<1>5. LoopInv'
  <2>1. todo = << >>
    BY <1>1 DEF WaitInv, LoopInv
  <2> QED
    BY <1>1, <2>1 DEF WaitInv, LoopInv
<1>6. ASSUME NEW p \in Procs, NEW i \in 1 .. Len(k'.proc[p].blocked)
      PROVE  Served(k', table', cur', todo', p, k'.proc[p].blocked[i], W)
  <2> DEFINE b == k.proc[p].blocked[i]
  <2>1. p # cur' /\ k'.proc[p].blocked = k.proc[p].blocked
    BY <1>1, <1>6
  <2>2. Served(k, table, cur, todo, p, b, W)
    BY <1>6, <2>1 DEF WaitInv, ServedInv
  <2>3. OwnedBy(table, p, b) /\ (Roused(k, table, p) \/ Interest(table, b, W))
    BY <1>1, <2>2, KernAssumption DEF Served
  <2>4. Roused(k, table, p) => Roused(k', table', p)
    BY <1>1, <2>1 DEF Roused
  <2> HIDE DEF b
  <2>5. Served(k', table', cur', todo', p, b, W)
    BY <1>1, <2>3, <2>4 DEF Served
  <2> QED
    BY <2>1, <2>5 DEF b
<1> QED
  BY <1>3, <1>4, <1>5, <1>6 DEF WaitInv, ServedInv

(* The accepted descriptor is nobody's. *)
LEMMA WaitAccept ==
  ASSUME NEW W, SocketsApart, IInv, IInv', WaitInv(W), Accept
  PROVE  WaitInv(W)'
<1>1. PICK f \in Accepted \ open, p \in Procs :
        /\ open' = open \cup {f} /\ ~ k.proc[p].alive /\ p # cur /\ p # Main
        /\ k'.proc[p].alive /\ k'.proc[p].run_qed
        /\ k'.proc[p].blocked = << >> /\ k'.proc[p].sockets = {<< f, f >>}
        /\ \A r \in Procs \ {p} : Kept(k.proc[r], k'.proc[r])
        /\ \A r \in Procs \ {p, Main} : k'.proc[r].sockets = k.proc[r].sockets
        /\ k'.proc[Main].sockets \in {k.proc[Main].sockets, {}}
        /\ k'.run_procs = << p >> \o k.run_procs
  BY AcceptIs
<1>2. /\ phase = "execute" /\ cur = Main /\ k.run_procs \in Seq(Procs)
      /\ UNCHANGED << table, phase, cur, todo, looping, signo, shutdown >>
  BY DEF Accept, Listening, IInv, QueueInv, KernType
<1>3. \A r \in Procs : In(k.run_procs, r) => In(k'.run_procs, r)
  BY <1>1, <1>2, InsertedIn
<1>4. /\ Base(k', p) = {<< f, f >>}
      /\ \A r \in Procs \ {p} : Base(k', r) = Base(k, r) /\ k'.proc[r].alive = k.proc[r].alive
  BY <1>1 DEF Base, Kept
<1>5. \A r \in Procs : k.proc[r].alive => f \notin Descriptors(Base(k, r))
  <2>1. ASSUME NEW r \in Procs, k.proc[r].alive, r # cur PROVE f \notin Descriptors(Base(k, r))
    BY <1>1, <2>1 DEF WaitInv, OwnInv
  <2>2. f \notin Descriptors(Base(k, Main))
    BY <1>1 DEF Base, Descriptors, SocketsApart
  <2> QED
    BY <1>2, <2>1, <2>2
<1>6. Descriptors({<< f, f >>}) \subseteq {f}
  BY DEF Descriptors
<1>7. OwnInv'
  <2>1. k'.proc[Main].sockets \in {MainSockets, {}}
    BY <1>1 DEF WaitInv, OwnInv
  <2>2. ASSUME NEW r \in Procs \ {Main}, k'.proc[r].alive
        PROVE  \E g \in Accepted : k'.proc[r].sockets = {<< g, g >>}
    <3>1. CASE r = p
      BY <1>1, <3>1
    <3>2. CASE r # p
      <4>1. k.proc[r].alive /\ k'.proc[r].sockets = k.proc[r].sockets
        BY <1>1, <1>4, <2>2, <3>2
      <4> QED
        BY <4>1 DEF WaitInv, OwnInv
    <3> QED
      BY <3>1, <3>2
  <2>3. ASSUME NEW r \in Procs, NEW q \in Procs, k'.proc[r].alive, k'.proc[q].alive, r # q
        PROVE  Descriptors(Base(k', r)) \cap Descriptors(Base(k', q)) = {}
    <3>1. CASE r # p /\ q # p
      BY <1>4, <2>3, <3>1 DEF WaitInv, OwnInv
    <3>2. CASE r = p
      <4>1. q \in Procs \ {p}
        BY <2>3, <3>2
      <4>2. k.proc[q].alive /\ Base(k', q) = Base(k, q)
        BY <1>4, <2>3, <4>1
      <4> QED
        <5>1. f \notin Descriptors(Base(k, q))
          BY <1>5, <4>1, <4>2
        <5>2. Descriptors(Base(k', r)) \subseteq {f}
          BY <1>4, <1>6, <3>2
        <5> QED
          BY <4>2, <5>1, <5>2
    <3>3. CASE q = p
      <4>1. r \in Procs \ {p}
        BY <2>3, <3>3
      <4>2. k.proc[r].alive /\ Base(k', r) = Base(k, r)
        BY <1>4, <2>3, <4>1
      <4> QED
        <5>1. f \notin Descriptors(Base(k, r))
          BY <1>5, <4>1, <4>2
        <5>2. Descriptors(Base(k', q)) \subseteq {f}
          BY <1>4, <1>6, <3>3
        <5> QED
          BY <4>2, <5>1, <5>2
    <3> QED
      BY <3>1, <3>2, <3>3
  <2>4. ASSUME NEW r \in Procs, k'.proc[r].alive, r # cur'
        PROVE  Descriptors(Base(k', r)) \subseteq open'
    <3>1. CASE r = p
      BY <1>1, <1>4, <1>6, <3>1
    <3>2. CASE r # p
      BY <1>1, <1>2, <1>4, <2>4, <3>2 DEF WaitInv, OwnInv
    <3> QED
      BY <3>1, <3>2
  <2>5. ASSUME NEW g \in FDs, table'.fd[g].allocated
        PROVE  g \in Descriptors(Base(k', table'.fd[g].proc_id))
    <3>1. table.fd[g].proc_id \in Procs /\ k.proc[table.fd[g].proc_id].alive
      BY <1>2, <2>5 DEF IInv, TableInv, TableType, Descriptor
    <3>2. g \in Descriptors(Base(k, table.fd[g].proc_id)) /\ table.fd[g].proc_id # p
      BY <1>1, <1>2, <2>5, <3>1 DEF WaitInv, OwnInv
    <3> QED
      BY <1>2, <1>4, <3>1, <3>2
  <2>6. phase' # "register"
    BY <1>2
  <2> QED
    BY <2>1, <2>2, <2>3, <2>4, <2>5, <2>6 DEF OwnInv
<1>8. SocketsInv'
  BY <1>1, <1>4, SoundKept DEF WaitInv, SocketsInv, Kept
<1>9. LoopInv'
  <2>1. \A r \in Procs : k'.proc[r].blocked # << >> /\ k'.proc[r].run_qed => In(k'.run_procs, r)
    BY <1>1, <1>3 DEF WaitInv, LoopInv, Kept
  <2>2. todo = << >> /\ k'.proc[cur].blocked = << >>
    BY <1>1, <1>2, KernAssumption DEF WaitInv, LoopInv, Kept
  <2> QED
    BY <1>2, <2>1, <2>2 DEF LoopInv
<1>10. ASSUME NEW r \in Procs, NEW i \in 1 .. Len(k'.proc[r].blocked)
      PROVE  Served(k', table', cur', todo', r, k'.proc[r].blocked[i], W)
  <2> DEFINE b == k.proc[r].blocked[i]
  <2>1. r # p /\ k'.proc[r].blocked = k.proc[r].blocked
    BY <1>1, <1>10 DEF Kept
  <2>2. Served(k, table, cur, todo, r, b, W)
    BY <1>10, <2>1 DEF WaitInv, ServedInv
  <2>3. Roused(k, table, r) => Roused(k', table', r)
    BY <1>2, <1>3 DEF Roused
  <2> HIDE DEF b
  <2>4. Served(k', table', cur', todo', r, b, W)
    BY <1>2, <2>2, <2>3 DEF Served
  <2> QED
    BY <2>1, <2>4 DEF b
<1> QED
  BY <1>7, <1>8, <1>9, <1>10 DEF WaitInv, ServedInv
(* The listener gives up; what it accepted stays open. *)
LEMMA WaitAcceptFails ==
  ASSUME NEW W, IInv, IInv', WaitInv(W), AcceptFails
  PROVE  WaitInv(W)'
<1>1. /\ k' = StopListening(k) /\ open \subseteq open' /\ phase = "execute" /\ k \in KernType
      /\ UNCHANGED << table, phase, cur, todo, looping, signo, shutdown >>
  BY DEF AcceptFails, Listening, IInv, QueueInv
<1>2. /\ k'.run_procs = k.run_procs
      /\ \A r \in Procs : Kept(k.proc[r], k'.proc[r])
      /\ k'.proc[Main].sockets = {}
      /\ \A r \in Procs \ {Main} : k'.proc[r].sockets = k.proc[r].sockets
  BY <1>1, StopIs
<1>3. \A r \in Procs : Base(k', r) = Base(k, r) /\ (k'.proc[r].alive <=> k.proc[r].alive)
  BY <1>2 DEF Base, Kept
<1>4. OwnInv'
  <2>1. OwnInv /\ phase' # "register"
    BY <1>1 DEF WaitInv
  <2> QED
    BY <1>1, <1>2, <1>3, <2>1, OwnKept
<1>5. SocketsInv'
  BY <1>2, <1>3, SoundKept DEF WaitInv, SocketsInv, Kept
<1>6. LoopInv'
  <2>1. cur \in Procs
    BY <1>1 DEF IInv, TypeOK
  <2> QED
    BY <1>1, <1>2, <2>1 DEF WaitInv, LoopInv, Kept
<1>7. ServedInv(W)'
  BY <1>1, <1>2 DEF WaitInv, ServedInv, Served, Roused, Kept
<1> QED
  BY <1>4, <1>5, <1>6, <1>7 DEF WaitInv

(* Nobody else has the descriptor a process closes. *)
LEMMA WaitClose ==
  ASSUME NEW W, IInv, IInv', WaitInv(W), Close
  PROVE  WaitInv(W)'
<1>1. /\ phase = "execute"
      /\ UNCHANGED << k, table, phase, cur, todo, looping, signo, shutdown >>
  BY DEF Close
<1>2. PICK f \in Descriptors(k.proc[cur].sockets) : open' = open \ {f}
  BY DEF Close
<1>3. cur \in Procs /\ k.proc[cur].alive
  BY <1>1, KernAssumption DEF IInv, TypeOK, PhaseInv
<1>4. f \in Descriptors(Base(k, cur))
  <2>1. k.proc[cur].sockets \subseteq Base(k, cur)
    BY DEF WaitInv, OwnInv, Base
  <2> QED
    BY <2>1 DEF Descriptors
<1>5. \A r \in Procs : k.proc[r].alive /\ r # cur => Descriptors(Base(k, r)) \subseteq open'
  <2> SUFFICES ASSUME NEW r \in Procs, k.proc[r].alive, r # cur
               PROVE  Descriptors(Base(k, r)) \subseteq open'
    OBVIOUS
  <2>1. Descriptors(Base(k, r)) \subseteq open /\ f \notin Descriptors(Base(k, r))
    BY <1>3, <1>4 DEF WaitInv, OwnInv
  <2> QED
    BY <1>2, <2>1
<1>6. OwnInv'
  BY <1>1, <1>5 DEF WaitInv, OwnInv
<1>7. SocketsInv' /\ ServedInv(W)' /\ LoopInv'
  BY <1>1 DEF WaitInv, SocketsInv, ServedInv, LoopInv
<1> QED
  BY <1>6, <1>7 DEF WaitInv

(* The process is left blocked on open sockets of its own; a process that  *)
(* closed a descriptor ends.                                               *)
LEMMA WaitReturn ==
  ASSUME NEW W, ~ Lingers, IInv, IInv', WaitInv(W), ExecuteReturns
  PROVE  WaitInv(W)'
<1>1. PICK q \in BlockedQueues(k.proc[cur].sockets) :
        /\ Descriptors(k.proc[cur].sockets) \subseteq open \/ Lingers \/ q = << >>
        /\ todo' = q /\ k'.proc[cur].blocked = q /\ q \in Seq(Blocked)
        /\ ~ k'.proc[cur].run /\ ~ k'.proc[cur].run_qed
        /\ k'.proc[cur].alive /\ k.proc[cur].alive
        /\ k'.proc[cur].sockets = k.proc[cur].sockets
        /\ \A r \in Procs \ {cur} : k'.proc[r] = k.proc[r]
        /\ k'.run_procs = k.run_procs
  BY ReturnIs
<1>2. /\ phase = "execute" /\ phase' = "register" /\ table' = PrepollClosed(table, cur)
      /\ UNCHANGED << open, cur, looping, signo, shutdown >>
  BY DEF ExecuteReturns
<1>3. cur \in Procs /\ open \subseteq FDs /\ TableInv(table, k.proc)
  BY <1>2 DEF IInv, TypeOK
<1>4. table'.fd = table.fd /\ table'.dirty = table.dirty /\ table'.fresh = table.fresh
  BY <1>2, <1>3, ClosedIs
<1>5. \A r \in Procs : Base(k', r) = Base(k, r) /\ (k'.proc[r].alive <=> k.proc[r].alive)
  BY <1>1 DEF Base
<1>6. /\ \A i \in 1 .. Len(q) :
           /\ SocketOf(q[i]) \in k.proc[cur].sockets /\ q[i].ev # {}
           /\ "IN" \in q[i].ev => q[i].rx \in open
           /\ "OUT" \in q[i].ev => q[i].tx \in open
      /\ \A i, j \in 1 .. Len(q) : SocketOf(q[i]) = SocketOf(q[j]) => i = j
  BY BlockedQueuesAre
<1>7. k.proc[cur].sockets = Base(k, cur) \/ q = << >>
  <2>1. CASE k.proc[cur].sockets = {}
    <3>1. ~ \E i \in 1 .. Len(q) : TRUE
      BY <1>6, <2>1
    <3>2. Len(q) \in Nat /\ (Len(q) = 0 => q = << >>)
      BY <1>1
    <3> QED
      BY <3>1, <3>2
  <2>2. CASE k.proc[cur].sockets # {}
    BY <2>2 DEF WaitInv, OwnInv, Base
  <2> QED
    BY <2>1, <2>2
<1>8. OwnInv'
  <2>1. k'.proc[Main].sockets \in {MainSockets, {}}
    BY <1>1, KernAssumption DEF WaitInv, OwnInv
  <2>2. \A r \in Procs : k'.proc[r].sockets = k.proc[r].sockets
    BY <1>1
  <2>3. /\ \A p \in Procs \ {Main} :
             k'.proc[p].alive => \E f \in Accepted : k'.proc[p].sockets = {<< f, f >>}
        /\ \A p, r \in Procs : k'.proc[p].alive /\ k'.proc[r].alive /\ p # r =>
             Descriptors(Base(k', p)) \cap Descriptors(Base(k', r)) = {}
        /\ \A p \in Procs : k'.proc[p].alive /\ p # cur' => Descriptors(Base(k', p)) \subseteq open'
    BY <1>2, <1>5, <2>2 DEF WaitInv, OwnInv
  <2>4. \A f \in FDs : table'.fd[f].allocated => f \in Descriptors(Base(k', table'.fd[f].proc_id))
    <3>1. \A f \in FDs : table.fd[f].proc_id \in Procs
      BY <1>3 DEF TableInv, TableType, Descriptor
    <3> QED
      BY <1>4, <1>5, <3>1 DEF WaitInv, OwnInv
  <2>5. Descriptors(Base(k', cur')) \subseteq open' \/ k'.proc[cur'].blocked = << >>
    BY <1>1, <1>2, <1>3, <1>5, <1>7
  <2>6. ~ k'.proc[cur'].run
    BY <1>1, <1>2
  <2> QED
    BY <2>1, <2>3, <2>4, <2>5, <2>6 DEF OwnInv
<1>9. SocketsInv'
  <2>1. ASSUME NEW r \in Procs \ {cur} PROVE SoundQueue(k', r)
    BY <1>1, <1>5, SoundKept DEF WaitInv, SocketsInv
  <2>2. ASSUME NEW i \in 1 .. Len(q) PROVE Sound(k', cur, q[i])
    BY <1>1, <1>3, <1>5, <1>6, <1>7, <2>2 DEF Sound
  <2>3. SoundQueue(k', cur)
    BY <1>1, <1>6, <2>2 DEF SoundQueue
  <2> QED
    BY <2>1, <2>3 DEF SocketsInv
<1>10. LoopInv'
  <2>1. \A i \in 1 .. Len(todo') : In(k'.proc[cur'].blocked, todo'[i])
    BY <1>1, <1>2 DEF In
  <2>2. \A r \in Procs : k'.proc[r].blocked # << >> /\ k'.proc[r].run_qed => In(k'.run_procs, r)
    BY <1>1 DEF WaitInv, LoopInv
  <2> QED
    BY <1>2, <2>1, <2>2 DEF LoopInv
<1>11. ASSUME NEW r \in Procs, NEW i \in 1 .. Len(k'.proc[r].blocked)
      PROVE  Served(k', table', cur', todo', r, k'.proc[r].blocked[i], W)
  <2>1. CASE r = cur
    BY <1>1, <1>2, <1>11, <2>1 DEF Served, In
  <2>2. CASE r # cur
    <3> DEFINE b == k.proc[r].blocked[i]
    <3>1. k'.proc[r].blocked = k.proc[r].blocked
      BY <1>1, <2>2
    <3>2. Served(k, table, cur, todo, r, b, W)
      BY <1>11, <3>1 DEF WaitInv, ServedInv
    <3> HIDE DEF b
    <3>3. OwnedBy(table, r, b) /\ (Roused(k, table, r) \/ Interest(table, b, W))
      BY <2>2, <3>2 DEF Served
    <3>4. Served(k', table', cur', todo', r, b, W)
      BY <1>1, <1>4, <3>3 DEF Served, Roused, OwnedBy, Interest
    <3> QED
      BY <3>1, <3>4 DEF b
  <2> QED
    BY <2>1, <2>2
<1> QED
  BY <1>8, <1>9, <1>10, <1>11 DEF WaitInv, ServedInv
(* prepoll registers the next socket, and disturbs no other. *)
LEMMA WaitPrepoll ==
  ASSUME NEW W, SocketsApart, IInv, IInv', WaitInv(W), PrepollSocket
  PROVE  WaitInv(W)'
<1> DEFINE b == Head(todo)
<1>1. /\ phase = "register" /\ todo # << >> /\ todo' = Tail(todo)
      /\ table' = PrepollBlockedSocket(table, b, cur)
      /\ UNCHANGED << k, open, phase, cur, looping, signo, shutdown >>
  BY DEF PrepollSocket
<1>2. /\ cur \in Procs /\ k.proc[cur].alive /\ todo \in Seq(Blocked)
      /\ table \in TableType /\ k \in KernType
  BY <1>1, KernAssumption DEF IInv, TypeOK, PhaseInv, TableInv, QueueInv
<1>3. b \in Blocked /\ In(todo, b)
  <2>1. Len(todo) \in Nat /\ Len(todo) # 0 /\ b = todo[1] /\ todo[1] \in Blocked
    BY <1>1, <1>2
  <2> QED
    BY <2>1 DEF In
<1>4. \A c : In(todo, c) => c = b \/ In(todo', c)
  BY <1>1, <1>2, RemovedIn
<1>5. PICK n \in 1 .. Len(k.proc[cur].blocked) : k.proc[cur].blocked[n] = b
  BY <1>3 DEF WaitInv, LoopInv, In
<1>6. Sound(k, cur, b)
  BY <1>2, <1>5 DEF WaitInv, SocketsInv, SoundQueue
<1> HIDE DEF b
<1>7. {b.rx, b.tx} \ {NoFD} \subseteq Descriptors(Base(k, cur))
  <2>1. /\ b.rx \in FDs \cup {NoFD} /\ b.tx \in FDs \cup {NoFD}
        /\ SocketOf(b) \in Base(k, cur) /\ SocketOf(b)[1] = b.rx /\ SocketOf(b)[2] = b.tx
    BY <1>3, <1>6 DEF Blocked, Sound, SocketOf
  <2> QED
    BY <2>1 DEF Descriptors
<1>8. ASSUME NEW f \in {b.rx, b.tx} \ {NoFD} PROVE FreeFor(table, f, cur)
  <2> SUFFICES ASSUME table.fd[f].allocated, table.fd[f].proc_id # cur PROVE FALSE
    BY DEF FreeFor
  <2>1. f \in FDs /\ f \in Descriptors(Base(k, cur))
    BY <1>7 DEF Descriptors
  <2>2. /\ table.fd[f].proc_id \in Procs /\ k.proc[table.fd[f].proc_id].alive
        /\ f \in Descriptors(Base(k, table.fd[f].proc_id))
    BY <2>1 DEF WaitInv, OwnInv, IInv, TableInv, TableType, Descriptor
  <2> QED
    BY <1>2, <2>1, <2>2 DEF WaitInv, OwnInv
<1>9. /\ "IN" \in b.ev => b.rx \in FDs
      /\ "OUT" \in b.ev => b.tx \in FDs
  BY <1>6 DEF Sound
<1>10. /\ OwnedBy(table', cur, b) /\ Interest(table', b, W) /\ table'.fresh = table.fresh
       /\ \A g \in FDs \ {b.rx, b.tx} : table'.fd[g] = table.fd[g]
       /\ table.dirty \subseteq table'.dirty
  <2>1. \A f \in {b.rx, b.tx} \ {NoFD} : FreeFor(table, f, cur)
    BY <1>8
  <2>2. table' = PrepollBlockedSocket(table, b, cur) /\ table \in TableType /\ cur \in Procs
    BY <1>1, <1>2
  <2>3. /\ OwnedBy(table', cur, b) /\ (\A V : Interest(table', b, V)) /\ table'.fresh = table.fresh
        /\ \A g \in FDs \ {b.rx, b.tx} : table'.fd[g] = table.fd[g]
        /\ table.dirty \subseteq table'.dirty
    BY <1>3, <1>9, <2>1, <2>2, PrepollSocketIs
  <2> QED
    BY <2>3
<1>11. OwnInv'
  <2>1. ASSUME NEW f \in FDs, table'.fd[f].allocated
        PROVE  f \in Descriptors(Base(k, table'.fd[f].proc_id))
    <3>1. CASE f \in {b.rx, b.tx}
      <4>1. f \in {b.rx, b.tx} \ {NoFD}
        BY <3>1, KernAssumption
      <4> QED
        BY <1>7, <1>10, <4>1 DEF OwnedBy
    <3>2. CASE f \notin {b.rx, b.tx}
      BY <1>10, <2>1, <3>2 DEF WaitInv, OwnInv
    <3> QED
      BY <3>1, <3>2
  <2> QED
    BY <1>1, <2>1 DEF WaitInv, OwnInv
<1>12. SocketsInv'
  BY <1>1 DEF WaitInv, SocketsInv
<1>13. LoopInv'
  <2>1. \A i \in 1 .. Len(todo') : In(todo, todo'[i])
    <3>1. /\ Len(todo') = Len(todo) - 1 /\ Len(todo) \in Nat
          /\ \A i \in 1 .. Len(todo') : todo'[i] = todo[i + 1]
      BY <1>1, <1>2
    <3>2. \A i \in 1 .. Len(todo') : i + 1 \in 1 .. Len(todo)
      BY <3>1
    <3> QED
      BY <3>1, <3>2 DEF In
  <2>2. \A c : In(todo, c) => In(k.proc[cur].blocked, c)
    <3>1. \A i \in 1 .. Len(todo) : In(k.proc[cur].blocked, todo[i])
      BY DEF WaitInv, LoopInv
    <3>2. ASSUME NEW c, In(todo, c) PROVE \E i \in 1 .. Len(todo) : todo[i] = c
      BY <3>2 DEF In
    <3> QED
      BY <3>1, <3>2
  <2> QED
    BY <1>1, <2>1, <2>2 DEF WaitInv, LoopInv
<1>14. ASSUME NEW p \in Procs, NEW i \in 1 .. Len(k.proc[p].blocked)
       PROVE  Served(k', table', cur', todo', p, k.proc[p].blocked[i], W)
  <2> DEFINE c == k.proc[p].blocked[i]
  <2>1. Served(k, table, cur, todo, p, c, W) /\ Sound(k, p, c)
    BY <1>14 DEF WaitInv, ServedInv, SocketsInv, SoundQueue
  <2>2. k.proc[p].blocked \in Seq(Blocked)
    BY <1>2 DEF KernType, Process
  <2>3. c \in Blocked
    BY <1>14, <2>2
  <2>4. p = cur /\ SocketOf(c) = SocketOf(b) => c = b
    BY <1>2, <1>5, <1>14 DEF WaitInv, SocketsInv, SoundQueue
  <2> SUFFICES Served(k', table', cur', todo', p, c, W)
    OBVIOUS
  <2> HIDE DEF c
  <2>5. CASE p = cur /\ c = b
    BY <1>1, <1>10, <2>5 DEF Served
  <2>6. CASE p = cur /\ In(todo, c) /\ c # b
    BY <1>1, <1>4, <2>6 DEF Served
  <2>7. CASE ~ (p = cur /\ c = b) /\ OwnedBy(table, p, c) /\ (Roused(k, table, p) \/ Interest(table, c, W))
    <3>1. p # cur \/ SocketOf(c) # SocketOf(b)
      BY <2>4, <2>7
    <3>2. {c.rx, c.tx} \cap {b.rx, b.tx} \subseteq {NoFD}
      BY <1>2, <1>3, <1>6, <2>1, <2>3, <3>1, SocketsDisjoint DEF WaitInv
    <3>3. \A f \in {c.rx, c.tx} \ {NoFD} : f \in FDs
      BY <2>3 DEF Blocked
    <3>4. \A f \in {c.rx, c.tx} \ {NoFD} : table'.fd[f] = table.fd[f]
      BY <1>10, <3>2, <3>3
    <3>5. Roused(k, table, p) => Roused(k', table', p)
      <4> SUFFICES ASSUME NEW f \in table.fresh, table.fd[f].proc_id = p PROVE FALSE
        BY <1>1 DEF Roused
      <4> QED
        BY <1>1 DEF IInv, PhaseInv
    <3> QED
      BY <1>10, <2>1, <2>3, <2>7, <3>4, <3>5, ServedKept
  <2> QED
    BY <2>1, <2>5, <2>6, <2>7 DEF Served
<1> QED
  BY <1>1, <1>11, <1>12, <1>13, <1>14 DEF WaitInv, ServedInv

(* A registered process is queued; a freed one takes nothing of another    *)
(* with it.                                                                *)
LEMMA WaitDone ==
  ASSUME NEW W, IInv, IInv', WaitInv(W), DispatchReturns
  PROVE  WaitInv(W)'
<1>1. /\ cur \in Procs /\ cur' = NoProc /\ phase = "register" /\ phase' = "postpoll"
      /\ \A r \in Procs \ {cur} : k'.proc[r].sockets = k.proc[r].sockets
      /\ \A r \in Procs \ {cur} : Kept(k.proc[r], k'.proc[r])
  BY DoneIs
<1>2. todo = << >> /\ UNCHANGED << open, todo, looping >>
  BY DEF DispatchReturns
<1>3. k.run_procs \in Seq(Procs) /\ table \in TableType /\ k \in KernType
  BY DEF IInv, QueueInv, KernType, TableInv
<1>4. \A r \in Procs \ {cur} : Base(k', r) = Base(k, r) /\ (k'.proc[r].alive <=> k.proc[r].alive)
  BY <1>1 DEF Base, Kept
<1>5. \A p \in Procs : \A i \in 1 .. Len(k.proc[p].blocked) :
        LET b == k.proc[p].blocked[i]
        IN OwnedBy(table, p, b) /\ (Roused(k, table, p) \/ Interest(table, b, W))
  BY <1>2 DEF WaitInv, ServedInv, Served, In
<1>6. ~ k.proc[cur].run /\ (Descriptors(Base(k, cur)) \subseteq open \/ k.proc[cur].blocked = << >>)
  BY <1>1 DEF WaitInv, OwnInv
<1>7. CASE /\ k'.proc[cur] = FreeSlot /\ k'.run_procs = k.run_procs
           /\ table' = PrepollZombie(table, cur)
  <2>1. ~ k'.proc[cur].alive /\ ~ k'.proc[cur].run_qed /\ k'.proc[cur].blocked = << >>
        /\ k'.proc[cur].sockets = {}
    BY <1>7 DEF FreeSlot
  <2>2. /\ table'.fresh = table.fresh /\ table.dirty \subseteq table'.dirty
        /\ \A f \in FDs : ~ (table.fd[f].allocated /\ table.fd[f].proc_id = cur) =>
             table'.fd[f] = table.fd[f]
        /\ \A f \in FDs : table.fd[f].allocated /\ table.fd[f].proc_id = cur =>
             ~ table'.fd[f].allocated
    BY <1>1, <1>3, <1>7, ZombieIs
  <2>3. OwnInv'
    <3>1. \A p \in Procs : k'.proc[p].alive => k.proc[p].alive /\ Base(k', p) = Base(k, p)
      BY <1>4, <2>1
    <3>2. k'.proc[Main].sockets \in {k.proc[Main].sockets, {}}
      BY <1>1, <2>1, KernAssumption
    <3>3. \A f \in FDs : table'.fd[f].allocated =>
            table.fd[f].allocated /\ table'.fd[f].proc_id = table.fd[f].proc_id
      BY <2>2
    <3>4. \A p \in Procs : k'.proc[p].alive /\ p # cur' =>
            p # cur \/ Descriptors(Base(k, p)) \subseteq open
      BY <2>1
    <3>5. OwnInv /\ phase' # "register" /\ open \subseteq open'
      BY <1>1, <1>2 DEF WaitInv
    <3> QED
      BY <3>1, <3>2, <3>3, <3>4, <3>5, OwnKept
  <2>4. SocketsInv'
    BY <1>1, <1>4, <2>1, SoundKept DEF WaitInv, SocketsInv, Kept
  <2>5. LoopInv'
    <3>1. \A r \in Procs : k'.proc[r].blocked # << >> /\ k'.proc[r].run_qed => In(k'.run_procs, r)
      BY <1>1, <1>7, <2>1 DEF WaitInv, LoopInv, Kept
    <3> QED
      BY <1>1, <1>2, <3>1 DEF LoopInv
  <2>6. ASSUME NEW p \in Procs, NEW i \in 1 .. Len(k'.proc[p].blocked)
        PROVE  Served(k', table', cur', todo', p, k'.proc[p].blocked[i], W)
    <3> DEFINE b == k.proc[p].blocked[i]
    <3>1. p # cur /\ k'.proc[p].blocked = k.proc[p].blocked
      BY <1>1, <2>1, <2>6 DEF Kept
    <3>2. OwnedBy(table, p, b) /\ (Roused(k, table, p) \/ Interest(table, b, W)) /\ Sound(k, p, b)
      BY <1>5, <2>6, <3>1 DEF WaitInv, SocketsInv, SoundQueue
    <3>3. b \in Blocked
      <4>1. k.proc[p].blocked \in Seq(Blocked)
        BY <1>3 DEF KernType, Process
      <4> QED
        BY <2>6, <3>1, <4>1
    <3> HIDE DEF b
    <3>4. \A f \in {b.rx, b.tx} \ {NoFD} : table'.fd[f] = table.fd[f]
      BY <2>2, <3>1, <3>2, <3>3 DEF OwnedBy, Blocked
    <3>5. Roused(k, table, p) => Roused(k', table', p)
      <4> SUFFICES ASSUME NEW f \in table.fresh, table.fd[f].proc_id = p PROVE FALSE
        BY <1>7 DEF Roused
      <4> QED
        BY <1>1 DEF IInv, PhaseInv
    <3>6. Served(k', table', cur', todo', p, b, W)
      BY <2>2, <3>2, <3>3, <3>4, <3>5, ServedKept
    <3> QED
      BY <3>1, <3>6 DEF b
  <2> QED
    BY <2>3, <2>4, <2>5, <2>6 DEF WaitInv, ServedInv
<1>8. CASE /\ k.proc[cur].run \/ k.proc[cur].blocked # << >>
           /\ k'.proc[cur].run_qed <=> k.proc[cur].run
           /\ k'.proc[cur].alive = k.proc[cur].alive
           /\ k'.proc[cur].sockets = k.proc[cur].sockets
           /\ k'.proc[cur].blocked = k.proc[cur].blocked
           /\ table' = table
           /\ k'.run_procs = IF k.proc[cur].run THEN << cur >> \o k.run_procs
                             ELSE k.run_procs
  <2>1. k'.run_procs = k.run_procs /\ Descriptors(Base(k, cur)) \subseteq open
    BY <1>6, <1>8
  <2>2. \A r \in Procs : /\ Base(k', r) = Base(k, r) /\ (k'.proc[r].alive <=> k.proc[r].alive)
                         /\ k'.proc[r].blocked = k.proc[r].blocked
    BY <1>1, <1>4, <1>8 DEF Base, Kept
  <2>3. OwnInv'
    <3>1. \A p \in Procs : k'.proc[p].alive => k.proc[p].alive /\ Base(k', p) = Base(k, p)
      BY <2>2
    <3>2. k'.proc[Main].sockets \in {k.proc[Main].sockets, {}}
      BY <1>1, <1>8, KernAssumption
    <3>3. \A p \in Procs : k'.proc[p].alive /\ p # cur' =>
            p # cur \/ Descriptors(Base(k, p)) \subseteq open
      BY <2>1
    <3>4. OwnInv /\ phase' # "register" /\ open \subseteq open'
      BY <1>1, <1>2 DEF WaitInv
    <3> QED
      BY <1>8, <3>1, <3>2, <3>3, <3>4, OwnKept
  <2>4. SocketsInv'
    BY <2>2, SoundKept DEF WaitInv, SocketsInv
  <2>5. LoopInv'
    <3>1. \A r \in Procs : k'.proc[r].blocked # << >> /\ k'.proc[r].run_qed => In(k'.run_procs, r)
      BY <1>1, <1>6, <1>8, <2>1 DEF WaitInv, LoopInv, Kept
    <3> QED
      BY <1>1, <1>2, <3>1 DEF LoopInv
  <2>6. ServedInv(W)'
    BY <1>5, <1>8, <2>1, <2>2 DEF ServedInv, Served, Roused
  <2> QED
    BY <2>3, <2>4, <2>5, <2>6 DEF WaitInv
<1> QED
  BY <1>7, <1>8, DoneIs
(* An interrupted process waits for nothing. *)
LEMMA WaitInterrupt ==
  ASSUME NEW W, IInv, IInv', WaitInv(W), PrepollInterrupt
  PROVE  WaitInv(W)'
<1>1. PICK p \in k.blocked_procs : k' = Interrupt(k, p)
  BY DEF PrepollInterrupt
<1>2. /\ phase = "prepoll"
      /\ UNCHANGED << table, open, phase, cur, todo, looping, signo, shutdown >>
  BY DEF PrepollInterrupt
<1>3. k \in KernType /\ p \in Procs /\ k.proc[p].alive /\ k.proc[p] \in Process
  <2>1. k \in KernType /\ p \in Procs
    BY DEF IInv, QueueInv, KernType
  <2> QED
    BY <2>1 DEF IInv, QueueInv, KernType
<1> DEFINE n == [k.proc[p] EXCEPT !.run_qed = TRUE, !.blocked = << >>, !.run = TRUE]
           s == [k EXCEPT !.proc[p] = n]
<1>4. /\ n \in Process /\ n.alive = k.proc[p].alive /\ n.run_qed /\ n.run
      /\ n.blocked = << >> /\ n.sockets = k.proc[p].sockets
  <2>1. << >> \in Seq(Blocked)
    OBVIOUS
  <2> QED
    BY <1>3, <2>1 DEF Process
<1>5. k' = FlushProcQueues(s, p)
  BY <1>1 DEF Interrupt
<1> HIDE DEF n
<1>6. /\ s \in KernType /\ s.run_procs = k.run_procs /\ s.proc = [k.proc EXCEPT ![p] = n]
  BY <1>3, <1>4 DEF KernType
<1> HIDE DEF s
<1>7. s.proc[p] = n /\ \A r \in Procs \ {p} : s.proc[r] = k.proc[r]
  BY <1>3, <1>6 DEF KernType
<1>8. s \in KernType /\ p \in Procs /\ (s.proc[p].run \/ ~ s.proc[p].run_qed)
  BY <1>3, <1>4, <1>6, <1>7
<1>9. /\ SameProcs(s, k')
      /\ \A r \in Procs \ {p} : k'.proc[r].run_qed = s.proc[r].run_qed
      /\ k'.run_procs = IF s.proc[p].run /\ ~ s.proc[p].run_qed THEN << p >> \o s.run_procs
                        ELSE s.run_procs
  BY <1>5, <1>8, FlushIs
<1>10. /\ k'.run_procs = k.run_procs /\ k'.proc[p].blocked = << >> /\ k'.proc[p].alive
       /\ \A r \in Procs : k'.proc[r].sockets = k.proc[r].sockets
       /\ \A r \in Procs \ {p} : /\ k'.proc[r].blocked = k.proc[r].blocked
                                 /\ k'.proc[r].alive <=> k.proc[r].alive
                                 /\ k'.proc[r].run_qed <=> k.proc[r].run_qed
  BY <1>3, <1>4, <1>6, <1>7, <1>9, ZenonT(40) DEF SameProcs
<1>11. \A r \in Procs : Base(k', r) = Base(k, r) /\ (k'.proc[r].alive <=> k.proc[r].alive)
  BY <1>3, <1>10 DEF Base
<1>12. OwnInv'
  <2>1. OwnInv /\ phase' # "register" /\ open \subseteq open'
    BY <1>2 DEF WaitInv
  <2>2. k'.proc[Main].sockets \in {k.proc[Main].sockets, {}}
    BY <1>10, KernAssumption
  <2> QED
    BY <1>2, <1>11, <2>1, <2>2, OwnKept
<1>13. SocketsInv'
  BY <1>10, <1>11, SoundKept DEF WaitInv, SocketsInv
<1>14. LoopInv'
  <2>1. \A r \in Procs : k'.proc[r].blocked # << >> /\ k'.proc[r].run_qed => In(k'.run_procs, r)
    BY <1>10 DEF WaitInv, LoopInv
  <2>2. todo = << >> /\ k.run_procs = << >>
    BY <1>2 DEF WaitInv, LoopInv
  <2> QED
    BY <1>2, <1>10, <2>1, <2>2 DEF LoopInv
<1>15. ServedInv(W)'
  BY <1>2, <1>10 DEF WaitInv, ServedInv, Served, Roused
<1> QED
  BY <1>12, <1>13, <1>14, <1>15 DEF WaitInv

(* What a process waits for goes into the poll array. *)
LEMMA WaitPoll ==
  ASSUME NEW W, IInv, IInv', WaitInv(W), Poll
  PROVE  WaitInv(W)'
<1>1. /\ phase = "prepoll" /\ phase' \in {"wait", "postpoll"} /\ table' = CleanFds(table)
      /\ UNCHANGED << k, open, cur, todo, looping, signo, shutdown >>
  BY DEF Poll
<1>2. /\ table.fresh = {} /\ cur = NoProc /\ TableInv(table, k.proc) /\ k.run_procs = << >>
      /\ table'.fresh \subseteq FDs /\ k \in KernType /\ todo = << >>
      /\ table.dirty \subseteq FDs
  BY <1>1 DEF IInv, PhaseInv, TypeOK, WaitInv, LoopInv, TableInv, TableType, QueueInv
<1>3. /\ \A f \in FDs : table'.fd[f].allocated = table.fd[f].allocated
      /\ \A f \in FDs : table.fd[f].allocated => table'.fd[f] = table.fd[f]
      /\ \A f \in table.dirty : table.fd[f].allocated => f \in table'.dirty
      /\ table'.dirty \subseteq table.dirty
      /\ \A f \in table.dirty : table.fd[f].allocated /\ table.fd[f].events # {} => f \in table'.polled
      /\ \A f \in table'.polled : table'.fd[f].events # {}
  BY <1>1, <1>2, CleanIs
<1>4. OwnInv'
  <2>1. OwnInv /\ phase' # "register" /\ open \subseteq open'
    BY <1>1 DEF WaitInv
  <2>2. \A f \in FDs : table'.fd[f].allocated =>
          table.fd[f].allocated /\ table'.fd[f].proc_id = table.fd[f].proc_id
    BY <1>3
  <2>3. \A p \in Procs : k'.proc[p].alive => k.proc[p].alive /\ Base(k', p) = Base(k, p)
    BY <1>1
  <2>4. /\ k'.proc[Main].sockets \in {k.proc[Main].sockets, {}}
        /\ \A p \in Procs : k'.proc[p].alive /\ p # cur' =>
             p # cur \/ Descriptors(Base(k, p)) \subseteq open
    BY <1>1
  <2> QED
    BY <2>1, <2>2, <2>3, <2>4, OwnKept
<1>5. SocketsInv'
  BY <1>1 DEF WaitInv, SocketsInv
<1>6. LoopInv'
  <2>1. \A f \in table'.dirty : table'.fd[f].allocated /\ table'.fd[f].events # {} => f \in table'.polled
    BY <1>2, <1>3
  <2> QED
    BY <1>1, <1>2, <1>3, <2>1 DEF WaitInv, LoopInv
<1>7. ASSUME NEW p \in Procs, NEW i \in 1 .. Len(k.proc[p].blocked)
      PROVE  Served(k', table', cur', todo', p, k.proc[p].blocked[i], W)
  <2> DEFINE b == k.proc[p].blocked[i]
  <2>1. Served(k, table, cur, todo, p, b, W) /\ Sound(k, p, b)
    BY <1>7 DEF WaitInv, ServedInv, SocketsInv, SoundQueue
  <2>2. b \in Blocked
    <3>1. k.proc[p].blocked \in Seq(Blocked)
      BY <1>2 DEF KernType, Process
    <3> QED
      BY <1>7, <3>1
  <2> SUFFICES Served(k', table', cur', todo', p, b, W)
    OBVIOUS
  <2> HIDE DEF b
  <2>3. OwnedBy(table, p, b) /\ Interest(table, b, W)
    BY <1>2, <2>1, KernAssumption DEF Served, Roused, In
  <2>4. \A f \in {b.rx, b.tx} \ {NoFD} :
          f \in FDs /\ table.fd[f].allocated /\ table'.fd[f] = table.fd[f]
    BY <1>3, <2>2, <2>3 DEF Blocked, OwnedBy
  <2>5. OwnedBy(table', p, b)
    BY <2>3, <2>4 DEF OwnedBy
  <2>6. Interest(table', b, W)
    <3>1. /\ "IN" \in b.ev => b.rx \in {b.rx, b.tx} \ {NoFD}
          /\ "OUT" \in b.ev => b.tx \in {b.rx, b.tx} \ {NoFD}
      BY <2>1, KernAssumption DEF Sound
    <3> QED
      BY <1>3, <2>3, <2>4, <3>1 DEF Interest
  <2> QED
    BY <2>5, <2>6 DEF Served
<1> QED
  BY <1>1, <1>4, <1>5, <1>6, <1>7 DEF WaitInv, ServedInv

(* A descriptor leaves the poll array only with news for its process. *)
LEMMA WaitPollReturns ==
  ASSUME NEW W, IInv, IInv', WaitInv(W), PollReturns
  PROVE  WaitInv(W)'
<1>1. PICK rev : table' = ProcessFds(table, rev)
  BY DEF PollReturns
<1>2. /\ phase = "wait" /\ phase' = "postpoll" /\ UNCHANGED << k, open, cur, todo, looping >>
  BY DEF PollReturns
<1>3. /\ table.fresh = {} /\ cur = NoProc /\ table \in TableType /\ k.run_procs = << >>
      /\ k \in KernType /\ todo = << >> /\ table.polled \subseteq FDs
  BY <1>2 DEF IInv, PhaseInv, TypeOK, WaitInv, LoopInv, TableInv, TableType, QueueInv
<1>4. /\ \A f \in FDs : /\ table'.fd[f].allocated = table.fd[f].allocated
                        /\ table'.fd[f].proc_id = table.fd[f].proc_id
      /\ \A f \in table.polled : rev[f] # {} => f \in table'.fresh
      /\ \A f \in FDs : f \notin table.polled \/ ~ (table.fd[f].events \subseteq rev[f]) =>
           table'.fd[f] = table.fd[f] /\ (f \in table.dirty => f \in table'.dirty)
  BY <1>1, <1>3, ProcessIs
<1>5. \A f \in table.polled : table.fd[f].events \subseteq rev[f] => rev[f] # {}
  BY <1>2 DEF WaitInv, LoopInv
<1>6. OwnInv'
  <2>1. OwnInv /\ phase' # "register" /\ open \subseteq open'
    BY <1>2 DEF WaitInv
  <2>2. \A f \in FDs : table'.fd[f].allocated =>
          table.fd[f].allocated /\ table'.fd[f].proc_id = table.fd[f].proc_id
    BY <1>4
  <2>3. \A p \in Procs : k'.proc[p].alive => k.proc[p].alive /\ Base(k', p) = Base(k, p)
    BY <1>2
  <2>4. /\ k'.proc[Main].sockets \in {k.proc[Main].sockets, {}}
        /\ \A p \in Procs : k'.proc[p].alive /\ p # cur' =>
             p # cur \/ Descriptors(Base(k, p)) \subseteq open
    BY <1>2
  <2> QED
    BY <2>1, <2>2, <2>3, <2>4, OwnKept
<1>7. SocketsInv'
  BY <1>2 DEF WaitInv, SocketsInv
<1>8. LoopInv'
  BY <1>2 DEF WaitInv, LoopInv
<1>9. ASSUME NEW p \in Procs, NEW i \in 1 .. Len(k.proc[p].blocked)
      PROVE  Served(k', table', cur', todo', p, k.proc[p].blocked[i], W)
  <2> DEFINE b == k.proc[p].blocked[i]
  <2>1. Served(k, table, cur, todo, p, b, W) /\ Sound(k, p, b)
    BY <1>9 DEF WaitInv, ServedInv, SocketsInv, SoundQueue
  <2>2. b \in Blocked
    <3>1. k.proc[p].blocked \in Seq(Blocked)
      BY <1>3 DEF KernType, Process
    <3> QED
      BY <1>9, <3>1
  <2> SUFFICES Served(k', table', cur', todo', p, b, W)
    OBVIOUS
  <2> HIDE DEF b
  <2>3. OwnedBy(table, p, b) /\ Interest(table, b, W)
    BY <1>3, <2>1, KernAssumption DEF Served, Roused, In
  <2>4. \A f \in {b.rx, b.tx} \ {NoFD} : f \in FDs /\ table.fd[f].allocated /\ table.fd[f].proc_id = p
    BY <2>2, <2>3 DEF Blocked, OwnedBy
  <2>5. OwnedBy(table', p, b)
    BY <1>4, <2>4 DEF OwnedBy
  <2>6. CASE \E f \in {b.rx, b.tx} \ {NoFD} : f \in table.polled /\ rev[f] # {}
    <3>1. PICK f \in {b.rx, b.tx} \ {NoFD} : f \in table.polled /\ rev[f] # {}
      BY <2>6
    <3>2. f \in table'.fresh /\ table'.fd[f].proc_id = p
      BY <1>4, <2>4, <3>1
    <3> QED
      BY <2>5, <3>2 DEF Served, Roused
  <2>7. CASE ~ \E f \in {b.rx, b.tx} \ {NoFD} : f \in table.polled /\ rev[f] # {}
    <3>1. \A f \in {b.rx, b.tx} \ {NoFD} :
            table'.fd[f] = table.fd[f] /\ (f \in table.dirty => f \in table'.dirty)
      BY <1>4, <1>5, <2>4, <2>7
    <3>2. /\ "IN" \in b.ev => b.rx \in {b.rx, b.tx} \ {NoFD}
          /\ "OUT" \in b.ev => b.tx \in {b.rx, b.tx} \ {NoFD}
      BY <2>1, KernAssumption DEF Sound
    <3>3. Interest(table', b, W)
      BY <2>3, <3>1, <3>2 DEF Interest
    <3> QED
      BY <2>5, <3>3 DEF Served
  <2> QED
    BY <2>6, <2>7
<1> QED
  BY <1>2, <1>6, <1>7, <1>8, <1>9 DEF WaitInv, ServedInv

(* Every step keeps it. *)
LEMMA NextWait ==
  ASSUME NEW W, ~ Lingers, SocketsApart, IInv, IInv', WaitInv(W), [Next]_vars
  PROVE  WaitInv(W)'
<1>1. CASE PostpollReturns
  BY <1>1, WaitIdle DEF PostpollReturns
<1>2. CASE RequestShutdown \/ PollAgain
  BY <1>2, WaitIdle DEF RequestShutdown, PollAgain
<1>3. CASE \E sig \in Requests \cap {"TERM", "USR1"} : Signal(sig)
  BY <1>3, WaitIdle DEF Signal
<1>4. CASE UNCHANGED vars
  BY <1>4, WaitIdle DEF vars
<1> QED
  BY <1>1, <1>2, <1>3, <1>4, WaitFresh, WaitDispatch, WaitAccept, WaitAcceptFails, WaitClose,
     WaitReturn, WaitPrepoll, WaitDone, WaitInterrupt, WaitPoll, WaitPollReturns
     DEF Next, Postpoll, Execute

----------------------------------------------------------------------------
(* The theorems *)

(* WaitInv is an invariant of a loop whose processes end once they closed  *)
(* a descriptor.                                                           *)
THEOREM KernWaitInvariant == ~ Lingers /\ SocketsApart => (Spec => []WaitInv({}))
<1> SUFFICES ASSUME ~ Lingers, SocketsApart PROVE Spec => []WaitInv({})
  OBVIOUS
<1>1. Init => WaitInv({})
  BY InitWait
<1>2. IInv /\ IInv' /\ WaitInv({}) /\ [Next]_vars => WaitInv({})'
  BY NextWait
<1> QED
  BY <1>1, <1>2, KernInvariant, PTL DEF Spec

(* While the loop is in poll(), a waiting process is neither listed nor    *)
(* about to be registered: its interest is.                                *)
LEMMA WaitingIs ==
  ASSUME NEW W, IInv, WaitInv(W), phase = "wait", NEW p \in Procs, NEW i \in 1 .. Len(k.proc[p].blocked)
  PROVE  LET b == k.proc[p].blocked[i]
         IN OwnedBy(table, p, b) /\ Interest(table, b, W) /\ Sound(k, p, b)
<1>1. cur = NoProc /\ table.fresh = {} /\ k.run_procs = << >> /\ NoProc \notin Procs
  BY KernAssumption DEF IInv, TypeOK, PhaseInv, WaitInv, LoopInv
<1>2. /\ Served(k, table, cur, todo, p, k.proc[p].blocked[i], W)
      /\ Sound(k, p, k.proc[p].blocked[i])
  BY DEF WaitInv, ServedInv, SocketsInv, SoundQueue
<1> QED
  BY <1>1, <1>2 DEF Served, Roused, In

(* Where processes end once they closed a descriptor, what a process waits *)
(* for is in the poll array whenever the loop is in poll(), for any number *)
(* of processes and descriptors, shutdown or not.                          *)
THEOREM KernInterestWatched == ~ Lingers /\ SocketsApart => (Spec => []InterestWatched)
<1> SUFFICES ASSUME ~ Lingers, SocketsApart PROVE Spec => []InterestWatched
  OBVIOUS
<1>1. IInv /\ WaitInv({}) => InterestWatched
  <2> SUFFICES ASSUME IInv, WaitInv({}), phase = "wait", NEW p \in k.blocked_procs,
                      NEW i \in 1 .. Len(k.proc[p].blocked)
               PROVE  LET b == k.proc[p].blocked[i]
                      IN /\ "IN" \in b.ev => Watched(b.rx, "IN")
                         /\ "OUT" \in b.ev /\ b.tx # b.rx => Watched(b.tx, "OUT")
    BY DEF InterestWatched
  <2> DEFINE b == k.proc[p].blocked[i]
  <2>1. p \in Procs
    BY DEF IInv, QueueInv, KernType
  <2>2. OwnedBy(table, p, b) /\ Interest(table, b, {}) /\ Sound(k, p, b)
    BY <2>1, WaitingIs
  <2> HIDE DEF b
  <2>3. /\ "IN" \in b.ev => b.rx \in FDs /\ b.rx # NoFD
        /\ "OUT" \in b.ev => b.tx \in FDs /\ b.tx # NoFD
    BY <2>2, KernAssumption DEF Sound
  <2>4. /\ "IN" \in b.ev => table.fd[b.rx].allocated
        /\ "OUT" \in b.ev => table.fd[b.tx].allocated
    BY <2>2, <2>3 DEF OwnedBy
  <2>5. \A f \in table.dirty : table.fd[f].allocated /\ table.fd[f].events # {} => f \in table.polled
    BY DEF WaitInv, LoopInv
  <2>6. /\ "IN" \in b.ev => Watched(b.rx, "IN")
        /\ "OUT" \in b.ev /\ b.tx # b.rx => Watched(b.tx, "OUT")
    BY <2>2, <2>4, <2>5 DEF Interest, Watched
  <2> QED
    BY <2>6 DEF b
<1>2. Spec => []WaitInv({})
  BY KernWaitInvariant
<1> QED
  BY <1>1, <1>2, KernInvariant, PTL

(* There too, the descriptors a process waits for are allocated to it, so  *)
(* that the loop wakes it and nobody else for their events.                *)
THEOREM KernEventsReachWaiter == ~ Lingers /\ SocketsApart => (Spec => []EventsReachWaiter)
<1> SUFFICES ASSUME ~ Lingers, SocketsApart PROVE Spec => []EventsReachWaiter
  OBVIOUS
<1>1. IInv /\ WaitInv({}) => EventsReachWaiter
  <2> SUFFICES ASSUME IInv, WaitInv({}), phase = "wait", NEW p \in k.blocked_procs,
                      NEW i \in 1 .. Len(k.proc[p].blocked)
               PROVE  LET b == k.proc[p].blocked[i]
                      IN \A f \in {b.rx, b.tx} \ {NoFD} :
                           table.fd[f].allocated /\ table.fd[f].proc_id = p
    BY DEF EventsReachWaiter
  <2>1. p \in Procs
    BY DEF IInv, QueueInv, KernType
  <2>2. OwnedBy(table, p, k.proc[p].blocked[i])
    BY <2>1, WaitingIs
  <2> QED
    BY <2>2 DEF OwnedBy
<1>2. Spec => []WaitInv({})
  BY KernWaitInvariant
<1> QED
  BY <1>1, <1>2, KernInvariant, PTL
=============================================================================
