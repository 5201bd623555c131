------------------------------- MODULE Kern -------------------------------
(***************************************************************************)
(* The event loop of struct vk_kern: the queues of runnable and blocked    *)
(* micro-processes, the table of file descriptors through which a blocked  *)
(* process is registered with poll(), and the process life cycle from the  *)
(* accept of a connection to the release of its zombie.                    *)
(*                                                                         *)
(* What a process does between two polls (module ProcLocal) is reduced to  *)
(* its outcome for the kernel: connections accepted, descriptors closed,   *)
(* and the queue of blocked sockets it is left with.  The poller is        *)
(* VK_POLL_DRIVER_POLL, the default.  Lists whose order nothing depends on *)
(* are sets; membership of a descriptor in dirty or fresh is its _qed flag.*)
(***************************************************************************)
EXTENDS Integers, Sequences, FiniteSets

CONSTANTS Procs,        \* the slots of the process pool
          Main,         \* the process the loop starts with, the listener
          MainSockets,  \* its sockets, as << read, write >> descriptors
          FDs,          \* the slots of the descriptor table
          Accepted,     \* the descriptors accept() may return
          NoFD,         \* the descriptor -1, of a virtual pipe
          NoProc,       \* no process is executing
          Requests,     \* the signals sent, and the shutdown commands served
          Lingers       \* whether a process may block after closing a descriptor

ASSUME KernAssumption ==
  /\ Main \in Procs /\ NoProc \notin Procs /\ NoFD \notin FDs
  /\ MainSockets \subseteq (FDs \cup {NoFD}) \X (FDs \cup {NoFD})
  /\ Accepted \subseteq FDs
  /\ Requests \subseteq {"TERM", "USR1", "SHUTDOWN"} /\ Lingers \in BOOLEAN

\* The listener's sockets share no descriptor, and accept() returns none of
\* theirs: they are not closed before the last accept.
SocketsApart ==
  /\ \A a, b \in MainSockets : a # b => {a[1], a[2]} \cap {b[1], b[2]} \subseteq {NoFD}
  /\ \A s \in MainSockets : Accepted \cap {s[1], s[2]} = {}

VARIABLES k,        \* run_procs, blocked_procs and the processes
          table,    \* the descriptors, the dirty and fresh lists, the poll array
          open,     \* the descriptors open in the operating system
          phase,    \* where vk_kern_loop is
          cur,      \* the process being dispatched
          todo,     \* its blocked sockets vk_proc_prepoll has still to register
          looping,  \* whether the first postpoll is over
          signo,    \* the signal vk_signal_recv will return
          shutdown  \* shutdown_requested

vars == << k, table, open, phase, cur, todo, looping, signo, shutdown >>

Events  == {"IN", "OUT"}
Sockets == (FDs \cup {NoFD}) \X (FDs \cup {NoFD})

\* A blocked socket: its two descriptors and the events it waits for.
Blocked == [rx : FDs \cup {NoFD}, tx : FDs \cup {NoFD}, ev : SUBSET Events]

----------------------------------------------------------------------------
(* The process queues of the kernel. *)

EnqueueRun(s, p) ==
  IF s.proc[p].run_qed THEN s
  ELSE [s EXCEPT !.proc[p].run_qed = TRUE, !.run_procs = << p >> \o @]

\* Seeded fault: the process is marked as queued and not inserted.
EnqueueBlockedMarks(s, p) == [s EXCEPT !.proc[p].blocked_qed = TRUE]

EnqueueBlocked(s, p) ==
  IF s.proc[p].blocked_qed THEN s
  ELSE [s EXCEPT !.proc[p].blocked_qed = TRUE, !.blocked_procs = @ \cup {p}]

Without(q, p) == LET Other(x) == x # p IN SelectSeq(q, Other)

DropRun(s, p) ==
  IF s.proc[p].run_qed
  THEN [s EXCEPT !.proc[p].run_qed = FALSE, !.run_procs = Without(@, p)] ELSE s

\* Seeded fault: the mark of a removed process stays.
DropBlockedMarked(s, p) == [s EXCEPT !.blocked_procs = @ \ {p}]

DropBlocked(s, p) ==
  IF s.proc[p].blocked_qed
  THEN [s EXCEPT !.proc[p].blocked_qed = FALSE, !.blocked_procs = @ \ {p}] ELSE s

\* Queue a process as its own run and blocked queues are empty or not.
FlushProcQueues(s, p) ==
  LET r == IF s.proc[p].run THEN EnqueueRun(s, p) ELSE DropRun(s, p)
  IN IF r.proc[p].blocked # << >> THEN EnqueueBlocked(r, p) ELSE DropBlocked(r, p)

Pending(s) == s.run_procs # << >> \/ s.blocked_procs # {}

IsZombie(s, p) == ~ s.proc[p].run_qed /\ ~ s.proc[p].blocked_qed

FreeSlot == [alive |-> FALSE, run_qed |-> FALSE, blocked_qed |-> FALSE,
             run |-> FALSE, blocked |-> << >>, sockets |-> {}]

\* vk_proc_alloc, vk_proc_alloc_thread and vk_play: one runnable coroutine.
NewProc(socks) == [FreeSlot EXCEPT !.alive = TRUE, !.run = TRUE, !.sockets = socks]

----------------------------------------------------------------------------
(* The descriptor table. *)

\* events is ioft_pre.event.events; shut is ioft_pre.rx_closed and tx_closed,
\* which are only ever set together.
FreeFd == [allocated |-> FALSE, proc_id |-> Main, closed |-> FALSE,
           zombie |-> FALSE, events |-> {}, shut |-> FALSE]

AllocatedTo(t, p) == {f \in FDs : t.fd[f].allocated /\ t.fd[f].proc_id = p}

\* Seeded fault: a descriptor keeps the number of its last process.
AllocateStale(t, f, p) ==
  [t EXCEPT !.fd[f] = [@ EXCEPT !.allocated = TRUE, !.closed = FALSE, !.zombie = FALSE]]

Allocate(t, f, p) ==
  IF t.fd[f].allocated THEN t
  ELSE [t EXCEPT !.fd[f] = [@ EXCEPT !.allocated = TRUE, !.proc_id = p,
                                     !.closed = FALSE, !.zombie = FALSE]]

\* Seeded fault: only a newly allocated descriptor becomes dirty.
PrepollBlockedFdOnce(t, f, ev, p) ==
  LET a == [Allocate(t, f, p) EXCEPT !.fd[f] = [@ EXCEPT !.events = ev, !.shut = FALSE]]
  IN IF ev # {} /\ ~ t.fd[f].allocated THEN [a EXCEPT !.dirty = @ \cup {f}] ELSE a

\* Overwrites what was registered for the descriptor before.
PrepollBlockedFd(t, f, ev, p) ==
  LET a == [Allocate(t, f, p) EXCEPT !.fd[f] = [@ EXCEPT !.events = ev, !.shut = FALSE]]
  IN IF ev # {} THEN [a EXCEPT !.dirty = @ \cup {f}] ELSE a

PrepollBlockedSocket(t, b, p) ==
  LET r == IF b.rx # NoFD THEN PrepollBlockedFd(t, b.rx, b.ev \cap {"IN"}, p) ELSE t
  IN IF b.tx # NoFD /\ b.tx # b.rx
     THEN PrepollBlockedFd(r, b.tx, b.ev \cap {"OUT"}, p) ELSE r

\* Seeded fault: the process number of a released descriptor is cleared.
PrepollZombieClears(t, p) ==
  [t EXCEPT !.fd = [f \in FDs |-> IF f \in AllocatedTo(t, p)
                                  THEN [@[f] EXCEPT !.shut = TRUE, !.zombie = TRUE,
                                                    !.allocated = FALSE, !.proc_id = NoProc]
                                  ELSE @[f]],
            !.dirty = @ \cup AllocatedTo(t, p)]

\* Seeded fault: the descriptors are released without being marked zombies.
PrepollZombieUnmarked(t, p) ==
  [t EXCEPT !.fd = [f \in FDs |-> IF f \in AllocatedTo(t, p)
                                  THEN [@[f] EXCEPT !.shut = TRUE, !.allocated = FALSE]
                                  ELSE @[f]],
            !.dirty = @ \cup AllocatedTo(t, p)]

PrepollZombie(t, p) ==
  [t EXCEPT !.fd = [f \in FDs |-> IF f \in AllocatedTo(t, p)
                                  THEN [@[f] EXCEPT !.shut = TRUE, !.zombie = TRUE,
                                                    !.allocated = FALSE]
                                  ELSE @[f]],
            !.dirty = @ \cup AllocatedTo(t, p)]

\* Descriptors the table knows to be closed leave the process.
PrepollClosed(t, p) ==
  LET gone == {f \in AllocatedTo(t, p) : t.fd[f].closed}
  IN [t EXCEPT !.fd = [f \in FDs |-> IF f \in gone THEN [@[f] EXCEPT !.allocated = FALSE]
                                     ELSE @[f]],
               !.dirty = @ \cup gone]

\* vk_fd_table_clean_fd of every dirty descriptor, then the poll array.
CleanFds(t) ==
  LET dead == {f \in t.dirty : t.fd[f].zombie}
      shut == {f \in t.dirty : ~ t.fd[f].closed /\ (t.fd[f].zombie \/ t.fd[f].shut)}
      left == t.dirty \ (dead \cup shut)
      fds  == [f \in FDs |-> IF f \in shut THEN [t.fd[f] EXCEPT !.closed = TRUE]
                             ELSE t.fd[f]]
  IN [fd |-> fds, dirty |-> left, fresh |-> (t.fresh \ dead) \cup (shut \ dead),
      polled |-> {f \in t.dirty : ~ fds[f].closed /\ fds[f].events # {}}]

\* vk_fd_table_process_fd of the poll array, of which poll() returned rev.
ProcessFds(t, rev) ==
  LET met  == {f \in t.polled : t.fd[f].events \subseteq rev[f]}
  IN [t EXCEPT !.fresh = @ \cup {f \in t.polled : rev[f] # {}},
               !.fd    = [f \in FDs |-> IF f \in met THEN [@[f] EXCEPT !.events = {}]
                                        ELSE @[f]],
               !.dirty = @ \ met]

----------------------------------------------------------------------------
(* Signals.  The handler leaves one signal number for the loop to fetch.   *)

Signal(sig) ==
  /\ phase # "done"
  /\ signo' = sig
  /\ UNCHANGED << k, table, open, phase, cur, todo, looping, shutdown >>

ReceiveSignal ==
  /\ signo' = "NONE"
  /\ shutdown' = (shutdown \/ signo = "TERM")

----------------------------------------------------------------------------
(* vk_kern_postpoll *)

\* Seeded fault: one wake-up for a whole list of fresh descriptors.
PostpollFreshOnce ==
  /\ phase = "postpoll" /\ table.fresh # {}
  /\ \E f \in table.fresh :
       /\ table' = [table EXCEPT !.fresh = {}]
       /\ k' = EnqueueRun(k, table.fd[f].proc_id)
  /\ UNCHANGED << open, phase, cur, todo, looping, signo, shutdown >>

PostpollFresh ==
  /\ phase = "postpoll" /\ table.fresh # {}
  /\ \E f \in table.fresh :
       /\ table' = [table EXCEPT !.fresh = @ \ {f}]
       /\ k' = EnqueueRun(k, table.fd[f].proc_id)
  /\ UNCHANGED << open, phase, cur, todo, looping, signo, shutdown >>

\* vk_proc_postpoll retries every blocked socket and runs its coroutine.
Retried(pr) == [pr EXCEPT !.run_qed = FALSE, !.blocked = << >>,
                          !.run = pr.run \/ pr.blocked # << >>]

Dispatch ==
  /\ phase = "postpoll" /\ table.fresh = {} /\ k.run_procs # << >>
  /\ LET p == Head(k.run_procs)
     IN /\ cur' = p
        /\ k' = [k EXCEPT !.run_procs = Tail(@), !.proc[p] = Retried(@)]
  /\ phase' = "execute"
  /\ ReceiveSignal
  /\ UNCHANGED << table, open, todo, looping >>

PostpollReturns ==
  /\ phase = "postpoll" /\ table.fresh = {} /\ k.run_procs = << >>
  /\ phase' = IF looping /\ ~ Pending(k) THEN "done" ELSE "prepoll"
  /\ looping' = TRUE
  /\ UNCHANGED << k, table, open, cur, todo, signo, shutdown >>

(* What a process does while it executes. *)

\* The listener is still in its loop: it asks for a shutdown before each
\* vk_accept, also the first.
Listening == phase = "execute" /\ cur = Main /\ k.proc[Main].sockets # {}
             /\ (shutdown => looping)

\* It leaves the loop, and its coroutine ends.
StopListening(s) == [s EXCEPT !.proc[Main].sockets = {}]

\* The listener accepts a connection and starts a process on its descriptor.
Accept ==
  /\ Listening
  /\ \E f \in Accepted \ open, p \in {q \in Procs : ~ k.proc[q].alive} :
       LET started == FlushProcQueues([k EXCEPT !.proc[p] = NewProc({<< f, f >>})], p)
       IN /\ open' = open \cup {f}
          /\ k' = IF shutdown THEN StopListening(started) ELSE started
  /\ UNCHANGED << table, phase, cur, todo, looping, signo, shutdown >>

\* With the process pool empty the listener raises ENOMEM and ends; the
\* accepted descriptor stays open.
AcceptFails ==
  /\ Listening /\ \A p \in Procs : k.proc[p].alive
  /\ \E f \in Accepted \ open : open' = open \cup {f}
  /\ k' = StopListening(k)
  /\ UNCHANGED << table, phase, cur, todo, looping, signo, shutdown >>

Descriptors(socks) == {f \in FDs : \E s \in socks : f \in {s[1], s[2]}}

Close ==
  /\ phase = "execute"
  /\ \E f \in Descriptors(k.proc[cur].sockets) \cap open : open' = open \ {f}
  /\ UNCHANGED << k, table, phase, cur, todo, looping, signo, shutdown >>

\* A process serves a shutdown command.
RequestShutdown ==
  /\ phase = "execute" /\ cur # Main /\ "SHUTDOWN" \in Requests
  /\ shutdown' = TRUE
  /\ UNCHANGED << k, table, open, phase, cur, todo, looping, signo >>

\* The blocked sockets a process may be left with: vk_socket_handle_block
\* queues a socket for an open descriptor that would block.
Waits(s) == {b \in Blocked : /\ << b.rx, b.tx >> = s /\ b.ev # {}
                             /\ "IN" \in b.ev => b.rx \in open
                             /\ "OUT" \in b.ev => b.tx \in open}

BlockedQueues(socks) ==
  LET w == UNION {Waits(s) : s \in socks}
  IN {<< >>} \cup {<< b >> : b \in w}
       \cup {q \in w \X w : << q[1].rx, q[1].tx >> # << q[2].rx, q[2].tx >>}

ExecuteReturns ==
  /\ phase = "execute"
  /\ \E q \in BlockedQueues(k.proc[cur].sockets) :
       /\ Descriptors(k.proc[cur].sockets) \subseteq open \/ Lingers \/ q = << >>
       /\ cur = Main /\ shutdown => looping \/ q = << >>
       /\ k' = [k EXCEPT !.proc[cur] = [@ EXCEPT !.run = FALSE, !.blocked = q]]
       /\ todo' = q
  /\ table' = PrepollClosed(table, cur)
  /\ phase' = "register"
  /\ UNCHANGED << open, cur, looping, signo, shutdown >>

PrepollSocket ==
  /\ phase = "register" /\ todo # << >>
  /\ table' = PrepollBlockedSocket(table, Head(todo), cur)
  /\ todo' = Tail(todo)
  /\ UNCHANGED << k, open, phase, cur, looping, signo, shutdown >>

\* The end of vk_kern_dispatch_proc: queue the process, or free a zombie.
DispatchReturns ==
  /\ phase = "register" /\ todo = << >>
  /\ LET s == FlushProcQueues(k, cur)
     IN IF IsZombie(s, cur)
        THEN /\ table' = PrepollZombie(table, cur)
             /\ k' = [s EXCEPT !.proc[cur] = FreeSlot]
        ELSE /\ k' = s
             /\ UNCHANGED table
  /\ phase' = "postpoll" /\ cur' = NoProc
  /\ ReceiveSignal
  /\ UNCHANGED << open, todo, looping >>

(* vk_kern_prepoll and vk_kern_poll *)

\* A shutdown raises EINTR in the coroutines of every blocked process.
Interrupt(s, p) ==
  FlushProcQueues([s EXCEPT !.proc[p] = [@ EXCEPT !.run_qed = TRUE, !.blocked = << >>,
                                                  !.run = TRUE]], p)

PrepollInterrupt ==
  /\ phase = "prepoll" /\ shutdown
  /\ \E p \in k.blocked_procs : k' = Interrupt(k, p)
  /\ UNCHANGED << table, open, phase, cur, todo, looping, signo, shutdown >>

\* Build the poll array, and enter poll() if anything is pending.
Poll ==
  /\ phase = "prepoll" /\ ~ (shutdown /\ k.blocked_procs # {})
  /\ table' = CleanFds(table)
  /\ phase' = IF Pending(k) THEN "wait" ELSE "postpoll"
  /\ UNCHANGED << k, open, cur, todo, looping, signo, shutdown >>

\* A signal interrupts poll(), which is called again, as after a timeout.
PollAgain ==
  /\ phase = "wait" /\ signo # "NONE"
  /\ ReceiveSignal
  /\ UNCHANGED << k, table, open, phase, cur, todo, looping >>

\* poll() reports what was asked for, a hang-up, or a descriptor not open.
Reports(f) == IF f \in open THEN SUBSET (table.fd[f].events \cup {"HUP"}) ELSE {{"NVAL"}}

PollReturns ==
  /\ phase = "wait"
  /\ \E rev \in [table.polled -> SUBSET {"IN", "OUT", "HUP", "NVAL"}] :
       /\ \A f \in table.polled : rev[f] \in Reports(f)
       /\ \E f \in table.polled : rev[f] # {}
       /\ table' = ProcessFds(table, rev)
  /\ phase' = "postpoll"
  /\ ReceiveSignal
  /\ UNCHANGED << k, open, cur, todo, looping >>

----------------------------------------------------------------------------

Init ==
  /\ k = FlushProcQueues(
           [run_procs |-> << >>, blocked_procs |-> {},
            proc |-> [p \in Procs |-> IF p = Main THEN NewProc(MainSockets) ELSE FreeSlot]],
           Main)
  /\ table = [fd |-> [f \in FDs |-> FreeFd], dirty |-> {}, fresh |-> {}, polled |-> {}]
  /\ open = Descriptors(MainSockets)
  /\ phase = "postpoll" /\ cur = NoProc /\ todo = << >> /\ looping = FALSE
  /\ signo = "NONE" /\ shutdown = FALSE

Postpoll == PostpollFresh \/ Dispatch \/ PostpollReturns
Execute  == Accept \/ AcceptFails \/ Close \/ RequestShutdown \/ ExecuteReturns
Loop     == Postpoll \/ ExecuteReturns \/ PrepollSocket \/ DispatchReturns
              \/ PrepollInterrupt \/ Poll \/ PollAgain

Next == \/ Postpoll \/ Execute \/ PrepollSocket \/ DispatchReturns
        \/ PrepollInterrupt \/ Poll \/ PollAgain \/ PollReturns
        \/ \E sig \in Requests \cap {"TERM", "USR1"} : Signal(sig)

Spec == Init /\ [][Next]_vars

(* The loop goes on by itself, and a coroutine returns to it; whether      *)
(* poll() returns depends on the peers.                                    *)
FairSpec == Spec /\ WF_vars(Loop)

----------------------------------------------------------------------------
(* Properties *)

Process == [alive : BOOLEAN, run_qed : BOOLEAN, blocked_qed : BOOLEAN, run : BOOLEAN,
            blocked : Seq(Blocked), sockets : SUBSET Sockets]

Descriptor == [allocated : BOOLEAN, proc_id : Procs, closed : BOOLEAN,
               zombie : BOOLEAN, events : SUBSET Events, shut : BOOLEAN]

(* The state of the kernel and of its descriptor table has its type. *)
TypeOK ==
  /\ k \in [run_procs : Seq(Procs), blocked_procs : SUBSET Procs, proc : [Procs -> Process]]
  /\ table \in [fd : [FDs -> Descriptor], dirty : SUBSET FDs, fresh : SUBSET FDs,
                polled : SUBSET FDs]
  /\ open \subseteq FDs
  /\ phase \in {"postpoll", "execute", "register", "prepoll", "wait", "done"}
  /\ cur \in Procs \cup {NoProc} /\ (cur = NoProc <=> phase \notin {"execute", "register"})
  /\ todo \in Seq(Blocked) /\ looping \in BOOLEAN
  /\ signo \in {"NONE", "TERM", "USR1"} /\ shutdown \in BOOLEAN

Listed(p) == \E i \in 1 .. Len(k.run_procs) : k.run_procs[i] = p

(* The flags that stand for list membership never claim less than the      *)
(* intrusive lists hold: no process is listed twice, a listed process is   *)
(* flagged, and blocked_qed agrees with the blocked list, also while a     *)
(* shutdown empties it.  Otherwise SLIST_INSERT_HEAD would make a cycle.   *)
ListsAreSound ==
  /\ \A i, j \in 1 .. Len(k.run_procs) : k.run_procs[i] = k.run_procs[j] => i = j
  /\ \A p \in Procs : Listed(p) => k.proc[p].run_qed
  /\ \A p \in Procs : p \in k.blocked_procs <=> k.proc[p].blocked_qed

(* A process the loop is not executing is on one of the lists as long as   *)
(* it is not freed: nothing else brings it back.                           *)
LiveProcListed ==
  \A p \in Procs : k.proc[p].alive /\ p # cur => Listed(p) \/ p \in k.blocked_procs

(* Neither list nor the executing process refers to a slot of the pool     *)
(* that was freed, although descriptors keep the number of their process   *)
(* after it is gone: dispatching a freed slot would follow a null pointer. *)
FreedNeverDispatched ==
  \A p \in Procs : Listed(p) \/ p \in k.blocked_procs \/ p = cur => k.proc[p].alive

Watched(f, e) == f \in table.polled /\ e \in table.fd[f].events

(* While the loop is in poll(), what a blocked socket waits for is in the  *)
(* poll array, with the exception of the write side of a socket that reads *)
(* and writes the same descriptor: prepoll registers only its read side.   *)
InterestWatched ==
  phase = "wait" =>
    \A p \in k.blocked_procs : \A i \in 1 .. Len(k.proc[p].blocked) :
      LET b == k.proc[p].blocked[i]
      IN /\ "IN" \in b.ev => Watched(b.rx, "IN")
         /\ "OUT" \in b.ev /\ b.tx # b.rx => Watched(b.tx, "OUT")

(* While the loop is in poll(), the descriptors a process waits for are    *)
(* allocated to it, so that their events wake it and not another process.  *)
EventsReachWaiter ==
  phase = "wait" =>
    \A p \in k.blocked_procs : \A i \in 1 .. Len(k.proc[p].blocked) :
      LET b == k.proc[p].blocked[i]
      IN \A f \in {b.rx, b.tx} \ {NoFD} :
           table.fd[f].allocated /\ table.fd[f].proc_id = p

(* A descriptor with news wakes the process it belongs to: the loop does   *)
(* not go back to poll() before that process was dispatched.               *)
NewsIsDispatched ==
  \A p \in Procs :
    (\E f \in table.fresh : table.fd[f].proc_id = p /\ table.fd[f].allocated) ~> (cur = p)
=============================================================================
