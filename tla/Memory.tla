------------------------------ MODULE Memory -------------------------------
(***************************************************************************)
(* The memory of the processes of a server, and who may touch it.  The     *)
(* listener of vk_service.c sets processes up, in heaps of the server's    *)
(* pool or in mappings of their own; the kernel dispatches them, opening   *)
(* and masking their heaps and its own; a coroutine allocates and frees    *)
(* off its process's stack as vk_echo.c does; a fault comes back through   *)
(* the signal handler and the jumper.                                      *)
(*                                                                         *)
(* Everything runs in one OS thread, so a dispatch is cut only where code  *)
(* of a process runs.  The kernel configures no regions with               *)
(* vk_isolate_set_regions, so its gate masks none.                         *)
(***************************************************************************)
EXTENDS Stack

CONSTANTS ProcMax,        \* VK_KERN_PROC_MAX
          Count,          \* service_count, the heaps of the server's pool
          MapMax,         \* bound: mappings the OS has room for
          PageCounts,     \* the page counts a server is started with
          ListenerPages,  \* pages of the listener's heap
          \* sizes: the process's and the coroutine's objects, the service
          \* copied as argument, the coroutines' states, vk_echo's buffers
          LocalLen, ThreadLen, SocketLen, ServiceLen, ListenerLen, EchoLen, BufLen

ASSUME MemoryAssumption ==
  /\ ProcMax \in Nat \ {0} /\ Count \in Nat /\ MapMax \in Nat \ {0}
  /\ PageCounts \subseteq Nat \ {0} /\ ListenerPages \in Nat
  /\ {LocalLen, ThreadLen, SocketLen, ServiceLen, ListenerLen, EchoLen, BufLen}
       \subseteq Size \ {0}

Null     == -1
Kern     == 0                              \* the kernel's heap
Entries  == 1 .. Count                     \* the heaps of the server's pool
Maps     == Count + 1 .. Count + MapMax    \* private mappings
Regions  == {Kern} \cup Entries \cup Maps
Procs    == 0 .. ProcMax - 1
Listener == 0

VARIABLES m,        \* the memory and what is recorded of it
          service,  \* what vk_server_init was given, and whether SUD works
          mode,     \* "loop": the kernel, "user": code of who, "jumper": its fault
          who       \* the process being dispatched

vars == << m, service, mode, who >>

\* An empty slot, as vk_proc_clear leaves it.
Cleared ==
  [region |-> Null, prot |-> "none", entry |-> Null, privileged |-> FALSE,
   isolated |-> FALSE, live |-> FALSE, stack |-> NewStack(0), blocks |-> << >>,
   self |-> Null, at |-> "begin"]

----------------------------------------------------------------------------
(* vk_heap.c: the protection is changed only when the record says another. *)

Enter(s, p) ==
  IF s.proc[p].prot = "rw" THEN s
  ELSE [s EXCEPT !.proc[p].prot = "rw", !.prot[s.proc[p].region] = "rw"]

Exit(s, p) ==
  IF s.proc[p].prot = "none" THEN s
  ELSE [s EXCEPT !.proc[p].prot = "none", !.prot[s.proc[p].region] = "none"]

Unmap(s, p) == [s EXCEPT !.prot[s.proc[p].region] = "unmapped"]

\* The kernel's heap, by the copy of its record that stays accessible.
KernEnter(s) == IF s.kern_hd = "rw" THEN s ELSE [s EXCEPT !.kern_hd = "rw", !.prot[Kern] = "rw"]
KernExit(s)  == IF s.kern_hd = "none" THEN s ELSE [s EXCEPT !.kern_hd = "none", !.prot[Kern] = "none"]

CanAlloc(s, p, n) == Fits(s.proc[p].stack, 1, n)

\* vk_stack_push and vk_stack_pop on the stack of process p; blocks are the
\* requests.
Alloc(s, p, n) ==
  IF ~ CanAlloc(s, p, n) THEN s
  ELSE [s EXCEPT !.proc[p].stack = Push(@, 1, n),
                 !.proc[p].blocks = Append(@, [addr |-> s.proc[p].stack.cursor, want |-> n])]

Free(s, p) ==
  [s EXCEPT !.proc[p].stack = Pop(@),
            !.proc[p].blocks = IF @ = << >> THEN @ ELSE SubSeq(@, 1, Len(@) - 1)]

----------------------------------------------------------------------------
(* Setting a process up *)

\* The length of a service's heap.
HeapLen == Wrapped(PageSize * service.pages)

\* vk_proc_alloc_from_pool: the process gets a copy of the entry's record,
\* which still has the protection and the stack of vk_pool_init.  A heap has
\* room for the process's own object.
FromPool(s, p) ==
  LET r == Head(s.free_entries)
  IN Alloc(Enter([s EXCEPT !.free_entries = Tail(@),
                           !.proc[p].region = r, !.proc[p].prot = "none", !.proc[p].entry = r,
                           !.proc[p].stack = NewStack(SafeAlignedlen(1, HeapLen))],
                 p), p, LocalLen)

\* vk_proc_alloc by VK_PROC_INIT_PRIVATE, entered, on mapping r of len bytes.
Private(s, p, r, len) ==
  Alloc([s EXCEPT !.prot[r] = "rw", !.proc[p].region = r, !.proc[p].prot = "rw",
                  !.proc[p].stack = NewStack(len)], p, LocalLen)

\* Whole pages, or whole huge pages when the OS has them.
MapLens(len) ==
  LET aligned == SafeAlignedlen(1, len)
      huge    == HugeAlignedLen(1, aligned)
  IN {aligned} \cup (IF huge = Fail THEN {} ELSE {huge})

\* vk_proc_alloc_thread and vk_init.
Thread(s, p) ==
  LET t == Alloc(Alloc(Enter(s, p), p, ThreadLen), p, SocketLen)
  IN [t EXCEPT !.proc[p].self = t.proc[p].stack.cursor]

\* vk_copy_arg, which writes beyond the cursor.
CopyArg(s, p, n) == [s EXCEPT !.proc[p].stack = Store(@, s.proc[p].self, n)]
CanCopy(s, p, n) == n <= s.proc[p].stack.stop - s.proc[p].self

----------------------------------------------------------------------------
(* Dispatching a process *)

\* vk_proc_execute, up to the call of the coroutine: an unprivileged process
\* runs with the kernel's heap masked, an isolated one behind the gate.
Execute(s, p) ==
  LET open   == Enter(s, p)
      masked == IF s.proc[p].privileged THEN open
                ELSE KernExit([open EXCEPT !.kern_hd = "rw"])
  IN IF s.proc[p].isolated THEN [masked EXCEPT !.window = TRUE, !.block = service.sud]
     ELSE masked

\* vk_isolate_yield, vk_isolate_on_signal and vk_sigsys_handler.
OpenGate(s) == [s EXCEPT !.window = FALSE, !.block = FALSE]

\* Seeded fault: the slot is not cleared.
FreeProcStale(s, p) == [s EXCEPT !.free_procs = << p >> \o @, !.proc[p].live = FALSE,
                                 !.proc[p].blocks = << >>, !.proc[p].at = "begin"]

\* vk_kern_free_proc: onto the list, and cleared.
FreeProc(s, p) == [s EXCEPT !.free_procs = << p >> \o @, !.proc[p] = Cleared]

\* Seeded fault: the heap goes back to the pool unmasked.
ReapOpen(s, p) ==
  FreeProc(IF s.proc[p].entry # Null
           THEN [s EXCEPT !.free_entries = << s.proc[p].entry >> \o @]
           ELSE Unmap(s, p), p)

\* Seeded fault: only the slot is given back.
ReapSlot(s, p) == FreeProc(Exit(s, p), p)

\* The end of a zombie in vk_kern_dispatch_proc: vk_proc_free_from_pool and
\* vk_heap_exit, or vk_proc_free; then the slot.
Reap(s, p) ==
  FreeProc(IF s.proc[p].entry # Null
           THEN Exit([s EXCEPT !.free_entries = << s.proc[p].entry >> \o @], p)
           ELSE Unmap(s, p), p)

\* From the return of a coroutine, which vk_deinit pops if it has ended, to
\* the end of vk_kern_dispatch_proc.
Leave(s, p, ended) ==
  LET open == OpenGate(s)
      kern == IF s.proc[p].privileged THEN open ELSE KernEnter(open)
  IN IF ended THEN Reap(Free(Free(kern, p), p), p)
     ELSE IF s.proc[p].isolated THEN Exit(kern, p) ELSE kern

----------------------------------------------------------------------------
(* The kernel *)

Dispatch(p) ==
  /\ mode = "loop" /\ m.proc[p].live
  /\ m' = Execute(Enter(m, p), p)
  /\ mode' = "user" /\ who' = p
  /\ UNCHANGED service

\* Seeded fault: the jumper does not open the kernel's heap.
JumperBlind(s, p) == [Enter(OpenGate(s), p) EXCEPT !.proc[p].at = "end"]

\* vk_proc_execute_jumper opens everything; EFAULT is raised in the coroutine.
Jumper(s, p) == [Enter(OpenGate(KernEnter(s)), p) EXCEPT !.proc[p].at = "end"]

\* A fault in the process: the signal handler jumps back to vk_signal_setjmp,
\* which now calls the jumper.
Fault ==
  /\ mode = "user"
  /\ m' = Jumper(m, who)
  /\ mode' = "jumper"
  /\ UNCHANGED << service, who >>

\* The jumper executes the process again.
Reexecute ==
  /\ mode = "jumper"
  /\ m' = Execute(m, who)
  /\ mode' = "user"
  /\ UNCHANGED << service, who >>

\* A system call behind the gate: the handler opens it and returns.
Trap ==
  /\ mode = "user" /\ m.block
  /\ m' = OpenGate(m)
  /\ UNCHANGED << service, mode, who >>

\* vk_kern_dump, asked for by a signal: a process whose heap is masked has it
\* opened, printed and masked again.
Dump ==
  /\ mode = "loop"
  /\ m' = [m EXCEPT !.prot = [r \in Regions |->
             IF \E p \in Procs : m.proc[p].live /\ m.proc[p].prot # "rw" /\ m.proc[p].region = r
             THEN "none" ELSE m.prot[r]]]
  /\ UNCHANGED << service, mode, who >>

----------------------------------------------------------------------------
(* The coroutines *)

Running(p, l) == mode = "user" /\ who = p /\ m.proc[p].at = l
Goto(s, p, l) == [s EXCEPT !.proc[p].at = l]
Stays         == UNCHANGED << service, mode, who >>

SelfLen(p) == IF p = Listener THEN ListenerLen ELSE EchoLen

\* vk_begin: the state of the coroutine is allocated where self points.
Begin(p) ==
  /\ Running(p, "begin")
  /\ m' = IF CanAlloc(m, p, SelfLen(p))
          THEN LET s == Alloc(m, p, SelfLen(p))
               IN [s EXCEPT !.proc[p].self = m.proc[p].stack.cursor,
                            !.proc[p].at = IF p = Listener THEN "listen" ELSE "top"]
          ELSE Goto(m, p, "end")
  /\ Stays

\* vk_echo allocates its buffers for a line,
EchoCalloc(p) ==
  /\ Running(p, "top")
  /\ m' = IF CanAlloc(m, p, BufLen) THEN Goto(Alloc(m, p, BufLen), p, "line") ELSE Goto(m, p, "end")
  /\ Stays

\* fills them, and frees them; the last time it ends.
EchoLine(p) ==
  /\ Running(p, "line")
  /\ \E l \in {"top", "end"} :
       m' = LET s == [m EXCEPT !.proc[p].stack =
                        Store(@, m.proc[p].blocks[Len(m.proc[p].blocks)].addr, BufLen)]
            IN Goto(Free(s, p), p, l)
  /\ Stays

\* A coroutine returns to wait, or for good.
Return(p) ==
  /\ mode = "user" /\ who = p
  /\ \/ m.proc[p].at \in {"line", "listen"} /\ m' = Leave(m, p, FALSE)
     \/ m.proc[p].at = "end" /\ m' = Leave(m, p, TRUE)
  /\ mode' = "loop" /\ UNCHANGED << service, who >>

\* The heap of an accepted connection's process: of the pool, else a
\* mapping of its own, which the OS may refuse.
Heaps(s, p) ==
  IF s.free_entries # << >> THEN {FromPool(s, p)}
  ELSE {Private(s, p, r, len) : r \in {r \in Maps : s.prot[r] = "unmapped"},
                                len \in MapLens(HeapLen)}

\* Seeded fault: the heap of the new process is left open.
StartedOpen(s, p) ==
  [CopyArg(s, p, ServiceLen) EXCEPT !.proc[p].live = TRUE]

\* The argument is copied, the process enqueued, its heap masked.
Started(s, p) ==
  Exit([CopyArg(s, p, ServiceLen) EXCEPT !.proc[p].live = TRUE], p)

\* A process is set up on heap s: coroutine, socket, argument.
SetUp(s, p) ==
  LET flags == [s EXCEPT !.proc[p].privileged = service.privileged,
                         !.proc[p].isolated = service.isolated]
      t     == Thread(flags, p)
  IN IF ~ CanAlloc(s, p, ThreadLen) THEN Goto(Enter(flags, p), Listener, "end")
     ELSE IF ~ CanCopy(t, p, ServiceLen) THEN Goto(t, Listener, "end")
     ELSE Started(t, p)

\* vk_service_listener goes on to the next connection, or ends: by a
\* shutdown, or because it raises when it gets no slot, no heap or no room
\* in it.  What was taken for the connection until then stays taken.
Accept ==
  /\ Running(Listener, "listen")
  /\ \/ m' = Goto(m, Listener, "end")
     \/ /\ m.free_procs # << >>
        /\ LET p     == Head(m.free_procs)
               taken == [m EXCEPT !.free_procs = Tail(@)]
           IN \/ m.free_entries = << >> /\ m' = Goto(taken, Listener, "end")
              \/ \E h \in Heaps(taken, p) : m' = SetUp(h, p)
  /\ Stays

----------------------------------------------------------------------------
Flags == [privileged : BOOLEAN, isolated : BOOLEAN, sud : BOOLEAN, pages : PageCounts]

\* vk_server_init: the kernel, the pool, and the listener ready to run, its
\* heap left open.
Init ==
  /\ service \in Flags
  /\ mode = "loop" /\ who = Listener
  /\ \E hd \in {"none", "rw"} :
       LET empty == [free_procs   |-> [i \in 1 .. ProcMax - 1 |-> i],
                     free_entries |-> [i \in 1 .. Count |-> i],
                     proc    |-> [p \in Procs |-> Cleared],
                     prot    |-> [r \in Regions |-> CASE r = Kern -> "rw"
                                                      [] r \in Entries -> "none"
                                                      [] OTHER -> "unmapped"],
                     kern_hd |-> hd, window |-> FALSE, block |-> FALSE]
           mapped == Private(empty, Listener, Count + 1, PageSize * ListenerPages)
           ready  == CopyArg(Thread(mapped, Listener), Listener, ServiceLen)
       IN m = [ready EXCEPT !.proc[Listener].privileged = TRUE,
                            !.proc[Listener].isolated = service.isolated,
                            !.proc[Listener].live = TRUE]

Next ==
  \/ Fault \/ Reexecute \/ Trap \/ Dump \/ Accept
  \/ \E p \in Procs : Dispatch(p) \/ Begin(p) \/ EchoCalloc(p) \/ EchoLine(p) \/ Return(p)

Spec == Init /\ [][Next]_vars

----------------------------------------------------------------------------
Live == {p \in Procs : m.proc[p].live}
Listed(q) == {q[i] : i \in DOMAIN q}
Distinct(q) == \A i, j \in DOMAIN q : q[i] = q[j] => i = j

(***************************************************************************)
(* No memory has two owners: no slot and no heap is on a free list twice,  *)
(* a listed slot is empty, and the heap of a live process is no other      *)
(* process's and not free.  A heap returned twice, or returned to a pool   *)
(* it did not come from, would be handed to two connections.               *)
(***************************************************************************)
OneOwner ==
  /\ Distinct(m.free_procs) /\ Distinct(m.free_entries)
  /\ \A p \in Live : p \notin Listed(m.free_procs)
  /\ \A p \in Live : m.proc[p].region \notin Listed(m.free_entries) \cup {Kern}
  /\ \A p, q \in Live : m.proc[p].region = m.proc[q].region => p = q

(***************************************************************************)
(* Nothing is lost while the listener listens: every slot is free or holds *)
(* a live process, every pool heap is free or in use, and what is mapped   *)
(* belongs to somebody, through any number of connections, faults and      *)
(* falls back from the pool to private mappings.                           *)
(***************************************************************************)
NothingLost ==
  m.proc[Listener].live /\ m.proc[Listener].at # "end" =>
    /\ Procs = Live \cup Listed(m.free_procs)
    /\ LET used == {m.proc[p].region : p \in Live}
       IN /\ Entries \subseteq used \cup Listed(m.free_entries)
          /\ \A r \in Maps : m.prot[r] # "unmapped" => r \in used

(***************************************************************************)
(* The protection recorded with a process, which vk_heap_enter and         *)
(* vk_heap_exit go by, is the one its heap has; a free pool heap is        *)
(* masked, as its entry still records.  A stale record makes the next      *)
(* enter do nothing, and the kernel fault on the process's own queues.     *)
(***************************************************************************)
RecordsTrue ==
  /\ \A p \in Live : m.prot[m.proc[p].region] = m.proc[p].prot
  /\ \A r \in Listed(m.free_entries) : m.prot[r] = "none"

(***************************************************************************)
(* While code of an unprivileged process runs, the kernel's heap is        *)
(* masked, and so is the heap of every other isolated process; also when   *)
(* it runs on after a fault.                                               *)
(***************************************************************************)
Confined ==
  mode = "user" /\ ~ m.proc[who].privileged =>
    /\ m.prot[Kern] = "none"
    /\ \A p \in Live \ {who} : m.proc[p].isolated => m.prot[m.proc[p].region] = "none"

(***************************************************************************)
(* Whoever runs can reach what it works on: the kernel its heap, with the  *)
(* gate open, also when a fault brings it back; a process its own heap,    *)
(* and a privileged one the kernel's.                                      *)
(***************************************************************************)
Reachable ==
  /\ mode # "user" => m.prot[Kern] = "rw" /\ ~ m.block /\ ~ m.window
  /\ mode # "loop" => m.prot[m.proc[who].region] = "rw"
  /\ mode = "user" /\ m.proc[who].privileged => m.prot[Kern] = "rw"

End(b) == b.addr + SafeAlignedlen(1, b.want)

(***************************************************************************)
(* The blocks of a process lie one after the other below its cursor, each  *)
(* as large as was asked for, with its length in its link word: a vk_free  *)
(* gives back the last block and nothing else.  So also in a heap used     *)
(* before, after a fault between vk_calloc and vk_free, and when a request *)
(* does not fit.                                                           *)
(***************************************************************************)
StackSound ==
  \A p \in Live :
    LET b == m.proc[p].blocks
        s == m.proc[p].stack
    IN /\ s.cursor = (IF b = << >> THEN 0 ELSE End(b[Len(b)])) /\ s.cursor <= s.stop
       /\ \A i \in DOMAIN b :
            /\ b[i].addr = (IF i = 1 THEN 0 ELSE End(b[i - 1]))
            /\ End(b[i]) >= b[i].addr + b[i].want
            /\ s.link[End(b[i])] = SafeAlignedlen(1, b[i].want)
=============================================================================
