------------------------------- MODULE Epoll -------------------------------
(***************************************************************************)
(* The event loop of Kern with VK_POLL_DRIVER_OS on Linux: epoll, with     *)
(* edge-triggered or with one-shot registrations.  Unlike poll(), epoll    *)
(* keeps what is registered, forgets a descriptor that is closed, reports  *)
(* an edge once, and at most VK_EV_MAX descriptors at a time.              *)
(*                                                                         *)
(* So the readiness of the descriptors is part of the state: a process     *)
(* waits for what was not ready when it tried.  A hang-up makes a          *)
(* descriptor readable and writable.  Signals and shutdowns are those of   *)
(* Kern and left out.                                                      *)
(***************************************************************************)
EXTENDS Kern, Functions

CONSTANTS Methods,   \* the poll methods the loop is started with
          EvMax      \* VK_EV_MAX

ASSUME EpollAssumption ==
  Methods \subseteq {"EDGE", "ONESHOT"} /\ EvMax \in Nat \ {0} /\ IsFiniteSet(FDs)

VARIABLES method,   \* the poll method
          added,    \* the descriptors with fd_ptr->added set
          ready,    \* << f, e >>: I/O of kind e on f does not return EAGAIN
          watch,    \* what epoll watches each registered descriptor for
          queue     \* epoll's list of descriptors to report, oldest first

epvars == << method, added, ready, watch, queue >>

----------------------------------------------------------------------------
(* The operating system *)

Registered == DOMAIN watch
Now(f)     == {e \in Events : << f, e >> \in ready}
Waiting(f) == \E i \in DOMAIN queue : queue[i] = f

\* The descriptors of S enter the list, in any order.
Orders(S) == Bijection(1 .. Cardinality(S), S)
Queued(S) == {queue \o s : s \in Orders({f \in S : ~ Waiting(f)})}

\* A descriptor leaves it.
Unqueued(f) ==
  IF ~ Waiting(f) THEN queue
  ELSE LET i == CHOOSE j \in DOMAIN queue : queue[j] = f
       IN [j \in 1 .. Len(queue) - 1 |-> IF j < i THEN queue[j] ELSE queue[j + 1]]

\* Data, room or a connection arrives.
Arrive ==
  /\ phase # "done"
  /\ \E f \in open, e \in Events :
       /\ e = "OUT" => f \in Accepted \cup {s[2] : s \in MainSockets}
       /\ ready' = ready \cup {<< f, e >>}
       /\ queue' \in IF f \in Registered /\ e \in watch[f] THEN Queued({f}) ELSE {queue}
  /\ UNCHANGED << vars, method, added, watch >>

\* epoll_ctl for every descriptor of want: what is ready is reported at once.
Watching(want) == [f \in Registered \cup DOMAIN want |->
                     IF f \in DOMAIN want THEN want[f] ELSE watch[f]]

----------------------------------------------------------------------------
(* What the processes do to the readiness of their descriptors. *)

\* A read, a write or an accept returns EAGAIN.
Drain ==
  /\ phase = "execute"
  /\ \E f \in Descriptors(k.proc[cur].sockets) \cap open : \E e \in Now(f) :
       ready' = ready \ {<< f, e >>}
  /\ UNCHANGED << vars, method, added, watch, queue >>

\* A closed descriptor leaves epoll.  The listener closes none of its own.
Closes ==
  /\ Close /\ cur # Main
  /\ \E f \in open \ open' :
       /\ watch' = [g \in Registered \ {f} |-> watch[g]]
       /\ queue' = Unqueued(f)
       /\ ready' = ready \ ({f} \X Events)
  /\ UNCHANGED << method, added >>

\* A connection can be accepted; the new descriptor can be written.
Accepts ==
  /\ Accept \/ AcceptFails
  /\ \E f \in Descriptors(MainSockets) : << f, "IN" >> \in ready
  /\ ready' = ready \cup {<< f, "OUT" >> : f \in open' \ open}
  /\ UNCHANGED << method, added, watch, queue >>

\* A socket is left blocked only for what was not ready.
Returns ==
  /\ ExecuteReturns
  /\ \A i \in DOMAIN todo' :
       /\ "IN" \in todo'[i].ev => "IN" \notin Now(todo'[i].rx)
       /\ "OUT" \in todo'[i].ev => "OUT" \notin Now(todo'[i].tx)
  /\ UNCHANGED epvars

\* Seeded fault: vk_fd_allocate does not reset added.
PrepollsKeep ==
  PrepollSocket /\ UNCHANGED << method, added, ready, watch, queue >>

\* vk_fd_allocate resets added.
Prepolls ==
  /\ PrepollSocket
  /\ added' = added \ {f \in FDs : ~ table.fd[f].allocated /\ table'.fd[f].allocated}
  /\ UNCHANGED << method, ready, watch, queue >>

----------------------------------------------------------------------------
(* vk_fd_table_epoll *)

EnqueueFresh(t, fds) == [t EXCEPT !.fresh = @ \cup fds]
DropDirty(t, fds)    == [t EXCEPT !.dirty = @ \ fds]
DropFresh(t, fds)    == [t EXCEPT !.fresh = @ \ fds]

\* The events a descriptor is registered for: one-shot, reading replaces
\* writing.
EventsOf(f) ==
  IF method = "EDGE" THEN Events
  ELSE IF "IN" \in table.fd[f].events THEN {"IN"} ELSE table.fd[f].events

\* Seeded fault: an edge-triggered descriptor is added each time.
ToRegisterAgain == {f \in table.dirty : ~ table.fd[f].closed}

\* The dirty descriptors that need an epoll_ctl: with edges, once.
ToRegister ==
  {f \in table.dirty : ~ table.fd[f].closed /\ (method = "EDGE" => f \notin added)}

\* epoll_ctl fails for a closed descriptor, and when it adds one that is
\* there, or modifies one that is not.
Refused(f) ==
  f \notin open \/ (f \in Registered <=> method = "EDGE" \/ f \notin added)

\* Register what is dirty and enter epoll_wait, or leave the loop.
Register ==
  /\ phase = "prepoll"
  /\ IF \E f \in ToRegister : Refused(f)
     THEN phase' = "done" /\ UNCHANGED << table, added, watch, queue >>
     ELSE /\ phase' = "wait"
          /\ table' = DropDirty(table, table.dirty)
          /\ added' = added \cup ToRegister
          /\ watch' = Watching([f \in ToRegister |-> EventsOf(f)])
          /\ queue' \in Queued({f \in ToRegister : Now(f) \cap EventsOf(f) # {}})
  /\ UNCHANGED << k, open, cur, todo, looping, signo, shutdown, method, ready >>

\* Seeded fault: only the dirty list is cleaned.
CleanDirty(t, fds) == DropDirty(t, {f \in fds : t.fd[f].zombie})

\* vk_fd_table_clean_fd: the descriptors of freed processes.
Clean(t, fds) ==
  LET dead   == {f \in fds : t.fd[f].zombie}
      closed == [f \in FDs |-> IF f \in dead THEN [t.fd[f] EXCEPT !.closed = TRUE] ELSE t.fd[f]]
  IN [DropFresh(DropDirty(t, dead), dead) EXCEPT !.fd = closed]

\* Seeded fault: a descriptor wakes its process only when all is met.
ProcessMet(t, told) ==
  Clean(EnqueueFresh(t, {f \in told : t.fd[f].events \subseteq Now(f)}), told)

\* vk_fd_table_process_fd of every descriptor reported: its process is
\* woken, unless it is gone.  The interest in ioft_pre is not read again
\* before it is set anew.
ProcessTold(t, told) == Clean(EnqueueFresh(t, told), told)

\* What epoll_wait has to report when it has looked at n of its list.
Told(n) == {queue[i] : i \in {j \in 1 .. n : Now(queue[j]) \cap watch[queue[j]] # {}}}

\* It looks from the oldest on, until it has VK_EV_MAX to report.
Looks(n) ==
  /\ Cardinality(Told(n - 1)) < EvMax
  /\ n = Len(queue) \/ Cardinality(Told(n)) = EvMax

WaitReturns ==
  /\ phase = "wait"
  /\ \E n \in 1 .. Len(queue) :
       /\ Looks(n) /\ Told(n) # {}
       /\ table' = ProcessTold(table, Told(n))
       /\ queue' = SubSeq(queue, n + 1, Len(queue))
       /\ watch' = [f \in Registered |->
                      IF f \in Told(n) /\ method = "ONESHOT" THEN {} ELSE watch[f]]
  /\ phase' = "postpoll"
  /\ ReceiveSignal
  /\ UNCHANGED << k, open, cur, todo, looping, method, added, ready >>

----------------------------------------------------------------------------
EpollInit ==
  /\ Init
  /\ method \in Methods /\ added = {} /\ ready = {} /\ watch = << >> /\ queue = << >>

Around == Postpoll \/ DispatchReturns

EpollLoop == (Around /\ UNCHANGED epvars) \/ Returns \/ Prepolls \/ Register \/ WaitReturns

EpollNext ==
  \/ EpollLoop \/ Arrive \/ Drain \/ Closes \/ Accepts

EpollSpec == EpollInit /\ [][EpollNext]_<< vars, epvars >> /\ WF_<< vars, epvars >>(EpollLoop)

----------------------------------------------------------------------------
\* What a blocked process waits for and prepoll has registered.  A socket
\* that reads and writes one descriptor is never registered for writing:
\* with edges it is watched for both once it was registered for reading.
Expected(p) ==
  {x \in FDs \X Events : \E i \in DOMAIN k.proc[p].blocked :
     LET b == k.proc[p].blocked[i]
     IN /\ x[2] \in b.ev /\ x[1] = IF x[2] = "IN" THEN b.rx ELSE b.tx
        /\ x[2] = "OUT" /\ b.tx = b.rx => method = "EDGE" /\ x[1] \in added}

(***************************************************************************)
(* No edge is lost: while the loop is in epoll_wait, whatever a process    *)
(* waits for is watched, reported next if it is ready, and reported to     *)
(* that process; also when it became ready before it was registered, when  *)
(* the number of a closed descriptor came back, or when more descriptors   *)
(* are ready than one epoll_wait reports.                                  *)
(***************************************************************************)
EdgeKept ==
  phase = "wait" =>
    \A p \in k.blocked_procs : \A x \in Expected(p) :
      /\ x[1] \in Registered /\ x[2] \in watch[x[1]]
      /\ x \in ready => Waiting(x[1])
      /\ table.fd[x[1]].allocated /\ table.fd[x[1]].proc_id = p

(***************************************************************************)
(* With edges, epoll_ctl never fails, which would end the loop with every  *)
(* connection: no descriptor is added twice or after it was closed, though *)
(* the table learns of neither.                                            *)
(***************************************************************************)
EdgeNeverRefused ==
  method = "EDGE" /\ phase = "prepoll" => \A f \in ToRegister : ~ Refused(f)

(***************************************************************************)
(* A process that waits for what has become ready is dispatched, however   *)
(* busy the other descriptors are, or the loop ends on an epoll_ctl that   *)
(* fails, which only one-shot registrations allow (EdgeNeverRefused).      *)
(***************************************************************************)
ReadyIsServed ==
  \A p \in Procs :
    p \in k.blocked_procs /\ Expected(p) \cap ready # {} ~> cur = p \/ phase = "done"
=============================================================================
