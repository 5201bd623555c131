--------------------------- MODULE MemoryProofs ----------------------------
(***************************************************************************)
(* First the arithmetic of Stack: the overflow guards refuse exactly what  *)
(* overflows, lengths rounded to pages hold what was asked for, and a      *)
(* stack returns to where it was.  Then who owns and who may touch a heap  *)
(* of Memory, for any number of slots, pool heaps and mappings, and any    *)
(* sizes: the invariants the run checks on a small server, from one        *)
(* inductive invariant.                                                    *)
(***************************************************************************)
EXTENDS Memory, TLAPS

----------------------------------------------------------------------------
(* Products and quotients *)

\* A product grows with its factors.
LEMMA MulMonotone ==
  ASSUME NEW a \in Nat, NEW b \in Nat, NEW c \in Nat, NEW d \in Nat, a <= c, b <= d
  PROVE  a * b <= c * d
  BY SMT

\* A quotient, between its bounds.
LEMMA DivLaw ==
  ASSUME NEW n \in Nat, NEW d \in Nat \ {0}
  PROVE  /\ n \div d \in Nat
         /\ d * (n \div d) <= n
         /\ n < d * (n \div d) + d
  BY SMT

\* A quotient is below b just when the product by b is above.
LEMMA DivBelow ==
  ASSUME NEW n \in Nat, NEW a \in Nat \ {0}, NEW b \in Nat
  PROVE  n \div a < b <=> n < a * b
<1> DEFINE q == n \div a
<1>1. q \in Nat /\ a * q <= n /\ n < a * q + a
  BY DivLaw
<1>2. ASSUME q < b PROVE n < a * b
  <2>1. a * (q + 1) <= a * b
    BY <1>1, <1>2, MulMonotone
  <2>2. a * (q + 1) = a * q + a
    BY <1>1, SMT
  <2> QED
    BY <1>1, <2>1, <2>2, SMT
<1>3. ASSUME b <= q PROVE a * b <= n
  <2>1. a * b <= a * q
    BY <1>1, <1>3, MulMonotone
  <2> QED
    BY <1>1, <2>1, SMT
<1>4. a * b \in Nat
  BY SMT
<1> QED
  BY <1>1, <1>2, <1>3, <1>4, SMT

\* The sizes are numbers.
LEMMA SizeTypes ==
  /\ SizeMax \in Nat
  /\ PageSize \in Nat \ {0}
  /\ MulNoOverflow \in Nat \ {0}
  /\ SizeMax + 1 = MulNoOverflow * MulNoOverflow
  BY StackAssumption, SMT

\* A number in range does not wrap.
LEMMA WrappedInRange ==
  ASSUME NEW n \in Size
  PROVE  Wrapped(n) = n
  BY SizeTypes, SMT DEF Wrapped, Size

----------------------------------------------------------------------------
(* The guards of vk_wrapguard.c *)

\* vk_wrapguard_mult refuses just the products that overflow: its short way
\* for two small factors lets none through, and zero is no exception.
THEOREM MultGuardExact ==
  \A a, b \in Size : WrapguardMult(a, b) <=> a * b > SizeMax
<1> SUFFICES ASSUME NEW a \in Size, NEW b \in Size
             PROVE  WrapguardMult(a, b) <=> a * b > SizeMax
  OBVIOUS
<1>1. a \in Nat /\ b \in Nat /\ a * b \in Nat
  BY SizeTypes, SMT DEF Size
<1>2. CASE a = 0
  <2>1. a * b = 0
    BY <1>1, <1>2, SMT
  <2> QED
    BY <1>2, <2>1, SizeTypes, SMT DEF WrapguardMult
<1>3. CASE a > 0 /\ a < MulNoOverflow /\ b < MulNoOverflow
  <2>1. a * b <= (MulNoOverflow - 1) * (MulNoOverflow - 1)
    BY <1>1, <1>3, SizeTypes, MulMonotone
  <2>2. (MulNoOverflow - 1) * (MulNoOverflow - 1) < MulNoOverflow * MulNoOverflow
    BY SizeTypes, SMT
  <2>3. a * b <= SizeMax
    BY <1>1, <2>1, <2>2, SizeTypes, SMT
  <2> QED
    BY <1>1, <1>3, <2>3, SizeTypes DEF WrapguardMult
<1>4. CASE a > 0 /\ (a >= MulNoOverflow \/ b >= MulNoOverflow)
  <2>1. SizeMax \div a < b <=> SizeMax < a * b
    BY <1>1, <1>4, SizeTypes, DivBelow
  <2> QED
    BY <1>1, <1>4, <2>1, SizeTypes DEF WrapguardMult
<1> QED
  BY <1>1, <1>2, <1>3, <1>4, SizeTypes

\* vk_wrapguard_add refuses just the sums that overflow.
THEOREM AddGuardExact ==
  \A a, b \in Size : WrapguardAdd(a, b) <=> a + b > SizeMax
<1> SUFFICES ASSUME NEW a \in Size, NEW b \in Size
             PROVE  WrapguardAdd(a, b) <=> a + b > SizeMax
  OBVIOUS
<1>1. CASE a + b <= SizeMax
  BY <1>1, SizeTypes, SMT DEF WrapguardAdd, Wrapped, Size
<1>2. CASE a + b > SizeMax
  <2>1. (a + b) % (SizeMax + 1) = a + b - (SizeMax + 1)
    BY <1>2, SizeTypes, SMT DEF Size
  <2> QED
    BY <1>2, <2>1, SizeTypes, SMT DEF WrapguardAdd, Wrapped, Size
<1> QED
  BY <1>1, <1>2, SizeTypes, SMT DEF Size

\* What vk_safe_mult returns.
LEMMA SafeMultResult ==
  ASSUME NEW a \in Size, NEW b \in Size
  PROVE  SafeMult(a, b) = IF a * b > SizeMax THEN Fail ELSE a * b
<1>1. a * b \in Nat
  BY SizeTypes, SMT DEF Size
<1>2. ASSUME a * b <= SizeMax PROVE Wrapped(a * b) = a * b
  BY <1>1, <1>2, SizeTypes, WrappedInRange DEF Size
<1> QED
  BY <1>1, <1>2, MultGuardExact, SizeTypes DEF SafeMult

\* The pages of len bytes hold len and less than a page more.
LEMMA PageLenResult ==
  ASSUME NEW len \in Size
  PROVE  /\ PageLen(len) \in Size
         /\ len <= PageLen(len) * PageSize
         /\ PageLen(len) * PageSize < len + PageSize
<1> DEFINE n == len \div PageSize
<1>1. len \in Nat
  BY SizeTypes DEF Size
<1>2. n \in Nat /\ PageSize * n <= len /\ len < PageSize * n + PageSize
  BY <1>1, SizeTypes, DivLaw
<1>3. PageSize * n = n * PageSize /\ (n + 1) * PageSize = n * PageSize + PageSize
  BY <1>2, SizeTypes, SMT
<1>4. n <= PageSize * n
  BY <1>2, SizeTypes, SMT
<1>5. PageLen(len) = IF n * PageSize < len THEN n + 1 ELSE n
  BY DEF PageLen
<1> HIDE DEF n
<1>6. CASE n * PageSize < len
  <2>1. n + 1 <= len
    BY <1>1, <1>2, <1>3, <1>4, <1>6, SizeTypes
  <2>2. PageLen(len) = n + 1 /\ n + 1 \in Size
    BY <1>1, <1>2, <1>5, <1>6, <2>1, SizeTypes DEF Size
  <2> QED
    BY <1>1, <1>2, <1>3, <1>6, <2>2, SizeTypes
<1>7. CASE ~ (n * PageSize < len)
  <2>1. PageLen(len) = n /\ n \in Size
    BY <1>1, <1>2, <1>4, <1>5, <1>7, SizeTypes DEF Size
  <2> QED
    BY <1>1, <1>2, <1>3, <1>7, <2>1, SizeTypes
<1> QED
  BY <1>6, <1>7

\* vk_safe_alignedlen: a request either fails, because its bytes or the
\* pages for them are more than a size can count, or is given whole pages
\* that hold it, and never one page too many.
THEOREM AlignedLenCovers ==
  \A nmemb, count \in Size :
    LET len == SafeAlignedlen(nmemb, count)
    IN \/ len = Fail /\ nmemb * count + PageSize > SizeMax
       \/ /\ len \in Size
          /\ \E n \in Size : len = n * PageSize
          /\ nmemb * count <= len /\ len < nmemb * count + PageSize
<1> SUFFICES ASSUME NEW nmemb \in Size, NEW count \in Size
             PROVE  LET len == SafeAlignedlen(nmemb, count)
                    IN \/ len = Fail /\ nmemb * count + PageSize > SizeMax
                       \/ /\ len \in Size
                          /\ \E n \in Size : len = n * PageSize
                          /\ nmemb * count <= len /\ len < nmemb * count + PageSize
  OBVIOUS
<1> DEFINE bytes == nmemb * count
           pages == PageLen(bytes)
<1>1. bytes \in Nat
  BY SizeTypes, SMT DEF Size
<1>2. PageSize \in Size /\ Fail \notin Size /\ SizeMax \in Nat /\ PageSize \in Nat
  BY StackAssumption, SizeTypes, SMT DEF Size, Fail
<1>3. CASE bytes > SizeMax
  <2>1. SafeMult(nmemb, count) = Fail
    BY <1>3, SafeMultResult
  <2>2. SafeAlignedlen(nmemb, count) = Fail
    BY <2>1 DEF SafeAlignedlen, SafePagelen
  <2>3. bytes + PageSize > SizeMax
    BY <1>1, <1>2, <1>3, SMT
  <2> QED
    BY <2>2, <2>3
<1>4. CASE bytes <= SizeMax
  <2>1. bytes \in Size
    BY <1>1, <1>2, <1>4, SMT DEF Size
  <2>2. SafeMult(nmemb, count) = bytes
    <3>1. ~ (bytes > SizeMax)
      BY <1>1, <1>2, <1>4, SMT
    <3> QED
      BY <3>1, SafeMultResult
  <2>3. bytes # Fail
    BY <1>2, <2>1
  <2>4. /\ pages \in Size
        /\ bytes <= pages * PageSize
        /\ pages * PageSize < bytes + PageSize
    BY <2>1, PageLenResult
  <2>5. pages # Fail
    BY <1>2, <2>4
  <2>6. SafeAlignedlen(nmemb, count) = SafeMult(pages, PageSize)
    BY <2>2, <2>3, <2>5 DEF SafeAlignedlen, SafePagelen
  <2>7. pages * PageSize \in Nat
    BY <1>2, <2>4, SMT DEF Size
  <2>8. SafeMult(pages, PageSize) = IF pages * PageSize > SizeMax THEN Fail ELSE pages * PageSize
    BY <1>2, <2>4, SafeMultResult
  <2>9. CASE pages * PageSize > SizeMax
    <3>1. bytes + PageSize > SizeMax
      BY <1>1, <1>2, <2>4, <2>7, <2>9, SMT
    <3> QED
      BY <2>6, <2>8, <2>9, <3>1
  <2>10. CASE ~ (pages * PageSize > SizeMax)
    <3>1. pages * PageSize \in Size
      BY <1>2, <2>7, <2>10, SMT DEF Size
    <3>2. SafeAlignedlen(nmemb, count) = pages * PageSize
      BY <2>6, <2>8, <2>10
    <3> QED
      BY <2>4, <3>1, <3>2
  <2> QED
    BY <2>9, <2>10
<1> QED
  BY <1>1, <1>2, <1>3, <1>4, SMT

----------------------------------------------------------------------------
(* The stack of vk_stack.c *)

\* A stack whose cursor is inside its mapping.
IsStack(s) ==
  /\ s \in [cursor : Nat, stop : Size, link : [0 .. s.stop -> Size]]
  /\ s.cursor <= s.stop

\* What vk_stack_push does when there is room.
Pushed(s, len, bytes, t) ==
  /\ len \in Size /\ bytes <= len
  /\ s.cursor + len \in 0 .. s.stop
  /\ t \in [cursor : Nat, stop : Size, link : [0 .. s.stop -> Size]]
  /\ t.cursor = s.cursor + len /\ t.stop = s.stop
  /\ t.link = [s.link EXCEPT ![s.cursor + len] = len]

\* vk_stack_push does so.
LEMMA PushResult ==
  ASSUME NEW s, IsStack(s), NEW nmemb \in Size, NEW count \in Size, Fits(s, nmemb, count)
  PROVE  Pushed(s, SafeAlignedlen(nmemb, count), nmemb * count, Push(s, nmemb, count))
<1> DEFINE len == SafeAlignedlen(nmemb, count)
           t   == Push(s, nmemb, count)
<1>1. len # Fail /\ s.cursor + len <= s.stop
  BY DEF Fits
<1>2. len \in Size /\ nmemb * count <= len
  BY <1>1, AlignedLenCovers
<1>3. s.cursor + len \in 0 .. s.stop
  BY <1>1, <1>2, SizeTypes DEF IsStack, Size
<1>4. t = [s EXCEPT !.cursor = s.cursor + len, !.link[s.cursor + len] = len]
  BY DEF Push
<1> HIDE DEF len, t
<1>5. /\ t.cursor = s.cursor + len /\ t.stop = s.stop
      /\ t.link = [s.link EXCEPT ![s.cursor + len] = len]
  BY <1>4 DEF IsStack
<1>6. /\ s.cursor + len \in Nat
      /\ [s.link EXCEPT ![s.cursor + len] = len] \in [0 .. s.stop -> Size]
  BY <1>2, <1>3 DEF IsStack
<1>7. t \in [cursor : Nat, stop : Size, link : [0 .. s.stop -> Size]]
  BY <1>4, <1>6 DEF IsStack
<1> QED
  BY <1>2, <1>3, <1>5, <1>7 DEF len, t, Pushed

\* vk_stack_push never leaves the mapping, whatever is asked for: a request
\* that overflows or does not fit changes nothing, and any other is given
\* as many bytes as it asked for between the old cursor and the new.
THEOREM PushInBounds ==
  \A nmemb, count \in Size : \A s : IsStack(s) =>
    LET t == Push(s, nmemb, count)
    IN /\ IsStack(t)
       /\ IF Fits(s, nmemb, count) THEN t.cursor - s.cursor >= nmemb * count ELSE t = s
<1> SUFFICES ASSUME NEW nmemb \in Size, NEW count \in Size, NEW s, IsStack(s)
             PROVE  LET t == Push(s, nmemb, count)
                    IN /\ IsStack(t)
                       /\ IF Fits(s, nmemb, count)
                          THEN t.cursor - s.cursor >= nmemb * count ELSE t = s
  OBVIOUS
<1>1. CASE ~ Fits(s, nmemb, count)
  BY <1>1 DEF Push
<1>2. CASE Fits(s, nmemb, count)
  <2> DEFINE len == SafeAlignedlen(nmemb, count)
             t   == Push(s, nmemb, count)
  <2>1. Pushed(s, len, nmemb * count, t)
    BY <1>2, PushResult
  <2> HIDE DEF len, t
  <2>2. IsStack(t)
    BY <2>1 DEF IsStack, Pushed
  <2>3. nmemb * count \in Int /\ s.cursor \in Int /\ len \in Int
    BY <2>1, SizeTypes, SMT DEF Size, IsStack, Pushed
  <2>4. t.cursor - s.cursor >= nmemb * count
    BY <2>1, <2>3, SMT DEF Pushed
  <2> QED
    BY <1>2, <2>2, <2>4 DEF t
<1> QED
  BY <1>1, <1>2

\* vk_stack_pop after vk_stack_push returns the cursor to where it was, and
\* between them no link but the one that ends the new block has changed: a
\* block that is not empty leaves the pops of the blocks below as they were.
THEOREM PopUndoesPush ==
  \A nmemb, count \in Size : \A s : IsStack(s) /\ Fits(s, nmemb, count) =>
    LET t == Push(s, nmemb, count)
    IN /\ Pop(t).cursor = s.cursor
       /\ \A a \in 0 .. s.stop : a # t.cursor => Pop(t).link[a] = s.link[a]
<1> SUFFICES ASSUME NEW nmemb \in Size, NEW count \in Size,
                    NEW s, IsStack(s), Fits(s, nmemb, count)
             PROVE  LET t == Push(s, nmemb, count)
                    IN /\ Pop(t).cursor = s.cursor
                       /\ \A a \in 0 .. s.stop : a # t.cursor => Pop(t).link[a] = s.link[a]
  OBVIOUS
<1> DEFINE len == SafeAlignedlen(nmemb, count)
           t   == Push(s, nmemb, count)
           l   == [s.link EXCEPT ![s.cursor + len] = len]
<1>1. Pushed(s, len, nmemb * count, t)
  BY PushResult
<1>2. l[s.cursor + len] = len /\ \A a \in 0 .. s.stop : a # s.cursor + len => l[a] = s.link[a]
  BY <1>1 DEF IsStack, Pushed
<1>3. s.cursor \in Nat /\ len \in Nat
  BY <1>1, SizeTypes DEF IsStack, Size, Pushed
<1>4. /\ t \in [cursor : Nat, stop : Size, link : [0 .. s.stop -> Size]]
      /\ t.cursor = s.cursor + len /\ t.link = l
  BY <1>1 DEF Pushed
<1> HIDE DEF len, t, l
<1>5. CASE t.cursor <= 0
  <2>1. Pop(t) = t
    BY <1>5 DEF Pop
  <2>2. s.cursor = s.cursor + len
    BY <1>4, <1>3, <1>5
  <2> QED
    BY <1>4, <1>2, <2>1, <2>2 DEF t
<1>6. CASE ~ (t.cursor <= 0)
  <2>1. Pop(t) = [t EXCEPT !.cursor = t.cursor - t.link[t.cursor]]
    BY <1>6 DEF Pop
  <2>2. Pop(t).cursor = t.cursor - t.link[t.cursor] /\ Pop(t).link = t.link
    BY <1>4, <2>1
  <2>3. Pop(t).cursor = s.cursor
    BY <1>4, <1>2, <1>3, <2>2
  <2> QED
    BY <1>4, <1>2, <2>2, <2>3 DEF t
<1> QED
  BY <1>5, <1>6

----------------------------------------------------------------------------
(* Types.  They say nothing of a stack: those are StackSound's matter.     *)

IsProc(x) ==
  /\ DOMAIN x = {"region", "prot", "entry", "privileged", "isolated", "live", "stack",
                 "blocks", "self", "at"}
  /\ x.region \in Regions \cup {Null} /\ x.prot \in {"none", "rw"}
  /\ x.entry \in Entries \cup {Null}
  /\ x.privileged \in BOOLEAN /\ x.isolated \in BOOLEAN /\ x.live \in BOOLEAN

IsMem(s) ==
  /\ DOMAIN s = {"free_procs", "free_entries", "proc", "prot", "kern_hd", "window", "block"}
  /\ s.free_procs \in Seq(Procs) /\ s.free_entries \in Seq(Entries)
  /\ DOMAIN s.proc = Procs /\ \A q \in Procs : IsProc(s.proc[q])
  /\ s.prot \in [Regions -> {"none", "rw", "unmapped"}] /\ s.kern_hd \in {"none", "rw"}
  /\ s.window \in BOOLEAN /\ s.block \in BOOLEAN

\* Only the record of p differs.
Replaced(s, t, p, pr) ==
  /\ IsMem(t) /\ t.proc[p] = pr /\ \A q \in Procs \ {p} : t.proc[q] = s.proc[q]
  /\ t.free_procs = s.free_procs /\ t.free_entries = s.free_entries
  /\ t.prot = s.prot /\ t.kern_hd = s.kern_hd /\ t.window = s.window /\ t.block = s.block

\* One record replaced by another leaves a memory.
LEMMA ProcReplaced ==
  ASSUME NEW s, IsMem(s), NEW p \in Procs, NEW pr, IsProc(pr), NEW t, t = [s EXCEPT !.proc[p] = pr]
  PROVE  Replaced(s, t, p, pr)
<1>1. /\ t.proc = [s.proc EXCEPT ![p] = pr] /\ DOMAIN t = DOMAIN s
      /\ t.free_procs = s.free_procs /\ t.free_entries = s.free_entries
      /\ t.prot = s.prot /\ t.kern_hd = s.kern_hd /\ t.window = s.window /\ t.block = s.block
  BY DEF IsMem
<1>2. DOMAIN t.proc = Procs /\ t.proc[p] = pr /\ \A q \in Procs \ {p} : t.proc[q] = s.proc[q]
  BY <1>1 DEF IsMem
<1> QED
  BY <1>1, <1>2 DEF IsMem, Replaced

----------------------------------------------------------------------------
(* The inductive invariant *)

\* What is recorded of a live process: a heap that is not free, of the pool
\* just when the entry says so, with the protection it has.
Sound(s, p) ==
  /\ s.proc[p].region \in Entries \cup Maps
  /\ s.proc[p].region \notin Listed(s.free_entries)
  /\ IF s.proc[p].entry = Null THEN s.proc[p].region \in Maps
     ELSE s.proc[p].entry = s.proc[p].region
  /\ s.prot[s.proc[p].region] = s.proc[p].prot

\* Every owner is sound and alone, and what is listed is nobody's: a slot
\* without an entry left in it, a heap that is masked.
OwnerInv(s) ==
  /\ IsMem(s)
  /\ Distinct(s.free_procs) /\ Distinct(s.free_entries)
  /\ \A p \in Listed(s.free_procs) : ~ s.proc[p].live /\ s.proc[p].entry = Null
  /\ \A r \in Listed(s.free_entries) : s.prot[r] = "none"
  /\ \A p \in Procs : s.proc[p].live => Sound(s, p)
  /\ \A p, q \in Procs :
       s.proc[p].live /\ s.proc[q].live /\ s.proc[p].region = s.proc[q].region => p = q

\* The copy of the kernel's record never claims more than is open.
KernInv(s) == s.kern_hd = "rw" => s.prot[Kern] = "rw"

\* Isolated heaps other than w's are masked.
Masked(s, w) == \A p \in Procs \ {w} : s.proc[p].live /\ s.proc[p].isolated => s.proc[p].prot = "none"

\* Before the first dispatch only the listener's heap is open; after any other
\* dispatch its process is masked too, if it is isolated.
Idle(s, w) ==
  \/ \A p \in Procs : s.proc[p].live => p = w
  \/ s.proc[w].live /\ s.proc[w].isolated => s.proc[w].prot = "none"

ModeInv(s, md, w) ==
  /\ w \in Procs /\ md \in {"loop", "user", "jumper"}
  /\ Masked(s, w)
  /\ md = "loop" => Idle(s, w)
  /\ md # "loop" => s.proc[w].live /\ s.proc[w].prot = "rw"
  /\ md # "user" => s.prot[Kern] = "rw" /\ ~ s.block /\ ~ s.window
  /\ md = "user" => IF s.proc[w].privileged THEN s.prot[Kern] = "rw"
                    ELSE s.kern_hd = "none" /\ s.prot[Kern] = "none"

\* Every slot, every pool heap and every mapping is somebody's or listed.
Kept(s) ==
  /\ \A p \in Procs : s.proc[p].live \/ p \in Listed(s.free_procs)
  /\ \A r \in Entries :
       r \in Listed(s.free_entries) \/ \E p \in Procs : s.proc[p].live /\ s.proc[p].region = r
  /\ \A r \in Maps :
       s.prot[r] # "unmapped" => \E p \in Procs : s.proc[p].live /\ s.proc[p].region = r

Listens(s) == s.proc[Listener].live /\ s.proc[Listener].at # "end"

IInv ==
  /\ service \in Flags
  /\ OwnerInv(m) /\ KernInv(m) /\ ModeInv(m, mode, who)
  /\ Listens(m) => Kept(m)

----------------------------------------------------------------------------
(* What stacks do with a heap is no matter of its owner.                   *)

\* The same owners, but for the kernel's own heap.
SameHeaps(s, t) ==
  /\ IsMem(t)
  /\ t.free_procs = s.free_procs /\ t.free_entries = s.free_entries
  /\ \A r \in Regions \ {Kern} : t.prot[r] = s.prot[r]
  /\ \A q \in Procs :
       /\ t.proc[q].region = s.proc[q].region /\ t.proc[q].prot = s.proc[q].prot
       /\ t.proc[q].entry = s.proc[q].entry /\ t.proc[q].live = s.proc[q].live
       /\ t.proc[q].privileged = s.proc[q].privileged
       /\ t.proc[q].isolated = s.proc[q].isolated

\* The same for the kernel: its heap, its record, its gate.
SameKern(s, t) ==
  /\ t.prot[Kern] = s.prot[Kern] /\ t.kern_hd = s.kern_hd
  /\ t.window = s.window /\ t.block = s.block

SameOwners(s, t) == SameHeaps(s, t) /\ SameKern(s, t)

\* Owners that are the same twice are the same.
LEMMA SameOwnersTransitive ==
  ASSUME NEW s, NEW t, NEW u, SameOwners(s, t), SameOwners(t, u)
  PROVE  SameOwners(s, u)
BY DEF SameOwners, SameHeaps, SameKern

\* vk_stack_push on a process's stack, taken or refused.
LEMMA AllocOwners ==
  ASSUME NEW s, IsMem(s), NEW p \in Procs, NEW n
  PROVE  SameOwners(s, Alloc(s, p, n))
BY DEF Alloc, IsMem, IsProc, SameOwners, SameHeaps, SameKern

\* vk_stack_pop on it.
LEMMA FreeOwners ==
  ASSUME NEW s, IsMem(s), NEW p \in Procs
  PROVE  SameOwners(s, Free(s, p))
BY DEF Free, IsMem, IsProc, SameOwners, SameHeaps, SameKern

\* Where a coroutine goes on.
LEMMA GotoOwners ==
  ASSUME NEW s, IsMem(s), NEW p \in Procs, NEW l
  PROVE  SameOwners(s, Goto(s, p, l)) /\ Goto(s, p, l).proc[p].at = l
BY DEF Goto, IsMem, IsProc, SameOwners, SameHeaps, SameKern

\* The others stay where they are.
LEMMA GotoOthers ==
  ASSUME NEW s, IsMem(s), NEW p \in Procs, NEW l
  PROVE  \A q \in Procs \ {p} : Goto(s, p, l).proc[q].at = s.proc[q].at
BY DEF Goto, IsMem, IsProc

\* Where its state lies.
LEMMA SelfOwners ==
  ASSUME NEW s, IsMem(s), NEW p \in Procs, NEW a
  PROVE  SameOwners(s, [s EXCEPT !.proc[p].self = a])
BY DEF IsMem, IsProc, SameOwners, SameHeaps, SameKern

\* What is written into its stack.
LEMMA StoreOwners ==
  ASSUME NEW s, IsMem(s), NEW p \in Procs, NEW x
  PROVE  SameOwners(s, [s EXCEPT !.proc[p].stack = x])
BY DEF IsMem, IsProc, SameOwners, SameHeaps, SameKern

\* vk_copy_arg.
LEMMA CopyArgOwners ==
  ASSUME NEW s, IsMem(s), NEW p \in Procs, NEW n
  PROVE  SameOwners(s, CopyArg(s, p, n))
BY StoreOwners DEF CopyArg

\* No process's heap is the kernel's.
LEMMA RegionsApart == (Entries \cup Maps) \subseteq Regions \ {Kern} /\ Kern \in Regions
                      /\ Null \notin Regions /\ Entries \cap Maps = {}
BY MemoryAssumption DEF Entries, Maps, Regions, Kern, Null

\* Slots on a list are slots, heaps on a list heaps.
LEMMA ListedTypes ==
  ASSUME NEW s, IsMem(s)
  PROVE  Listed(s.free_procs) \subseteq Procs /\ Listed(s.free_entries) \subseteq Entries
BY DEF IsMem, Listed

\* Owners are sound or not whatever the stacks hold, and the kernel does.
LEMMA OwnerInvSame ==
  ASSUME NEW s, NEW t, SameHeaps(s, t), OwnerInv(s)
  PROVE  OwnerInv(t)
<1>1. \A q \in Procs : Sound(s, q) => Sound(t, q)
  BY RegionsApart DEF SameHeaps, Sound
<1>2. IsMem(s) /\ IsMem(t) /\ t.free_procs = s.free_procs /\ t.free_entries = s.free_entries
  BY DEF OwnerInv, SameHeaps
<1>3. Listed(s.free_procs) \subseteq Procs /\ Listed(s.free_entries) \subseteq Entries
  BY <1>2, ListedTypes
<1>4. \A r \in Listed(s.free_entries) : t.prot[r] = s.prot[r]
  BY <1>3, RegionsApart DEF SameHeaps
<1> QED
  BY <1>1, <1>2, <1>3, <1>4 DEF SameHeaps, OwnerInv

\* So is what is masked.
LEMMA MaskedSame ==
  ASSUME NEW s, NEW t, SameHeaps(s, t), NEW w \in Procs
  PROVE  (Masked(s, w) => Masked(t, w)) /\ (Idle(s, w) => Idle(t, w))
BY DEF SameHeaps, Masked, Idle

\* And so the whole invariant.
LEMMA InvSame ==
  ASSUME NEW s, NEW t, SameOwners(s, t), OwnerInv(s), KernInv(s), NEW md, NEW w, ModeInv(s, md, w)
  PROVE  OwnerInv(t) /\ KernInv(t) /\ ModeInv(t, md, w)
<1>1. OwnerInv(t)
  BY OwnerInvSame DEF SameOwners
<1>2. KernInv(t)
  BY DEF SameOwners, SameKern, KernInv
<1>3. w \in Procs
  BY DEF ModeInv
<1>4. Masked(t, w) /\ (Idle(s, w) => Idle(t, w))
  BY <1>3, MaskedSame DEF SameOwners, ModeInv
<1>5. ModeInv(t, md, w)
  BY <1>4 DEF SameOwners, SameHeaps, SameKern, ModeInv
<1> QED
  BY <1>1, <1>2, <1>5

----------------------------------------------------------------------------
(* Opening and masking *)

\* Only the heap of p changes, to x, and its record with it.
Turned(s, t, p, x) ==
  /\ IsMem(t)
  /\ t.free_procs = s.free_procs /\ t.free_entries = s.free_entries
  /\ t.kern_hd = s.kern_hd /\ t.window = s.window /\ t.block = s.block
  /\ \A r \in Regions : t.prot[r] = IF r = s.proc[p].region THEN x ELSE s.prot[r]
  /\ \A q \in Procs :
       /\ t.proc[q].prot = IF q = p THEN x ELSE s.proc[q].prot
       /\ t.proc[q].region = s.proc[q].region
       /\ t.proc[q].entry = s.proc[q].entry /\ t.proc[q].live = s.proc[q].live
       /\ t.proc[q].privileged = s.proc[q].privileged
       /\ t.proc[q].isolated = s.proc[q].isolated
       /\ t.proc[q].at = s.proc[q].at

\* vk_heap_enter opens the heap of a process whose record is true,
LEMMA EnterTurns ==
  ASSUME NEW s, IsMem(s), NEW p \in Procs, s.proc[p].region \in Regions,
         s.proc[p].prot = s.prot[s.proc[p].region]
  PROVE  Turned(s, Enter(s, p), p, "rw")
<1> DEFINE pr == [s.proc[p] EXCEPT !.prot = "rw"]
           h  == [s EXCEPT !.proc[p] = pr]
           t  == [h EXCEPT !.prot = [h.prot EXCEPT ![s.proc[p].region] = "rw"]]
<1>1. IsProc(s.proc[p])
  BY DEF IsMem
<1>2. /\ IsProc(pr) /\ pr.prot = "rw" /\ pr.region = s.proc[p].region /\ pr.entry = s.proc[p].entry
      /\ pr.live = s.proc[p].live /\ pr.privileged = s.proc[p].privileged
      /\ pr.isolated = s.proc[p].isolated /\ pr.at = s.proc[p].at
  BY <1>1 DEF IsProc
<1>3. Enter(s, p) = IF s.proc[p].prot = "rw" THEN s ELSE t
  BY DEF Enter, IsMem, IsProc
<1> HIDE DEF pr
<1>a. h = [s EXCEPT !.proc[p] = pr]
  OBVIOUS
<1> HIDE DEF h
<1>b. Replaced(s, h, p, pr)
  BY <1>2, <1>a, ProcReplaced
<1>4. /\ IsMem(h) /\ h.proc[p] = pr /\ \A q \in Procs \ {p} : h.proc[q] = s.proc[q]
      /\ h.free_procs = s.free_procs /\ h.free_entries = s.free_entries
      /\ h.prot = s.prot /\ h.kern_hd = s.kern_hd /\ h.window = s.window /\ h.block = s.block
  BY <1>b DEF Replaced
<1>5. /\ IsMem(t) /\ t.proc = h.proc /\ t.free_procs = h.free_procs
      /\ t.free_entries = h.free_entries
      /\ t.kern_hd = h.kern_hd /\ t.window = h.window /\ t.block = h.block
      /\ \A r \in Regions : t.prot[r] = IF r = s.proc[p].region THEN "rw" ELSE h.prot[r]
  BY <1>4 DEF IsMem
<1> HIDE DEF t
<1>6. Turned(s, t, p, "rw")
  BY <1>2, <1>4, <1>5 DEF Turned
<1>7. CASE s.proc[p].prot = "rw"
  BY <1>3, <1>7 DEF Turned
<1> QED
  BY <1>3, <1>6, <1>7

\* vk_heap_exit masks it.
LEMMA ExitTurns ==
  ASSUME NEW s, IsMem(s), NEW p \in Procs, s.proc[p].region \in Regions,
         s.proc[p].prot = s.prot[s.proc[p].region]
  PROVE  Turned(s, Exit(s, p), p, "none")
<1> DEFINE pr == [s.proc[p] EXCEPT !.prot = "none"]
           h  == [s EXCEPT !.proc[p] = pr]
           t  == [h EXCEPT !.prot = [h.prot EXCEPT ![s.proc[p].region] = "none"]]
<1>1. IsProc(s.proc[p])
  BY DEF IsMem
<1>2. /\ IsProc(pr) /\ pr.prot = "none" /\ pr.region = s.proc[p].region
      /\ pr.entry = s.proc[p].entry
      /\ pr.live = s.proc[p].live /\ pr.privileged = s.proc[p].privileged
      /\ pr.isolated = s.proc[p].isolated /\ pr.at = s.proc[p].at
  BY <1>1 DEF IsProc
<1>3. Exit(s, p) = IF s.proc[p].prot = "none" THEN s ELSE t
  BY DEF Exit, IsMem, IsProc
<1> HIDE DEF pr
<1>a. h = [s EXCEPT !.proc[p] = pr]
  OBVIOUS
<1> HIDE DEF h
<1>b. Replaced(s, h, p, pr)
  BY <1>2, <1>a, ProcReplaced
<1>4. /\ IsMem(h) /\ h.proc[p] = pr /\ \A q \in Procs \ {p} : h.proc[q] = s.proc[q]
      /\ h.free_procs = s.free_procs /\ h.free_entries = s.free_entries
      /\ h.prot = s.prot /\ h.kern_hd = s.kern_hd /\ h.window = s.window /\ h.block = s.block
  BY <1>b DEF Replaced
<1>5. /\ IsMem(t) /\ t.proc = h.proc /\ t.free_procs = h.free_procs
      /\ t.free_entries = h.free_entries
      /\ t.kern_hd = h.kern_hd /\ t.window = h.window /\ t.block = h.block
      /\ \A r \in Regions : t.prot[r] = IF r = s.proc[p].region THEN "none" ELSE h.prot[r]
  BY <1>4 DEF IsMem
<1> HIDE DEF t
<1>6. Turned(s, t, p, "none")
  BY <1>2, <1>4, <1>5 DEF Turned
<1>7. CASE s.proc[p].prot = "none"
  BY <1>3, <1>7 DEF Turned
<1> QED
  BY <1>3, <1>6, <1>7

\* Either leaves the owners sound, since no two share a heap, and the kernel
\* as it was.
LEMMA TurnedOwners ==
  ASSUME NEW s, NEW t, NEW p \in Procs, NEW x \in {"none", "rw"}, OwnerInv(s), s.proc[p].live,
         Turned(s, t, p, x)
  PROVE  OwnerInv(t) /\ SameKern(s, t)
<1>1. Sound(s, p) /\ s.proc[p].region \in Regions \ {Kern}
  BY RegionsApart DEF OwnerInv, Sound
<1>2. SameKern(s, t)
  BY <1>1, RegionsApart DEF Turned, SameKern
<1>3. ASSUME NEW q \in Procs, t.proc[q].live PROVE Sound(t, q)
  <2>1. Sound(s, q) /\ s.proc[q].region \in Regions
    BY <1>3, RegionsApart DEF Turned, OwnerInv, Sound
  <2>2. q # p => s.proc[q].region # s.proc[p].region
    BY <1>3 DEF Turned, OwnerInv
  <2> QED
    BY <2>1, <2>2 DEF Turned, Sound
<1>4. IsMem(s) /\ IsMem(t) /\ t.free_procs = s.free_procs /\ t.free_entries = s.free_entries
  BY DEF OwnerInv, Turned
<1>5. Listed(s.free_procs) \subseteq Procs /\ Listed(s.free_entries) \subseteq Entries
  BY <1>4, ListedTypes
<1>6. \A r \in Listed(s.free_entries) : t.prot[r] = s.prot[r]
  BY <1>1, <1>5, RegionsApart DEF Turned, Sound
<1>7. \A q, r \in Procs :
        t.proc[q].live /\ t.proc[r].live /\ t.proc[q].region = t.proc[r].region => q = r
  BY DEF Turned, OwnerInv
<1>8. \A q \in Listed(t.free_procs) : ~ t.proc[q].live /\ t.proc[q].entry = Null
  BY <1>4, <1>5 DEF Turned, OwnerInv
<1> QED
  BY <1>2, <1>3, <1>4, <1>6, <1>7, <1>8 DEF OwnerInv

\* A live process is opened, and keeps the owners sound.
LEMMA EnterLive ==
  ASSUME NEW s, NEW p \in Procs, OwnerInv(s), s.proc[p].live
  PROVE  /\ Turned(s, Enter(s, p), p, "rw")
         /\ OwnerInv(Enter(s, p)) /\ SameKern(s, Enter(s, p))
<1>1. Turned(s, Enter(s, p), p, "rw")
  BY EnterTurns, RegionsApart DEF OwnerInv, Sound
<1> QED
  BY <1>1, TurnedOwners

\* Or masked.
LEMMA ExitLive ==
  ASSUME NEW s, NEW p \in Procs, OwnerInv(s), s.proc[p].live
  PROVE  /\ Turned(s, Exit(s, p), p, "none")
         /\ OwnerInv(Exit(s, p)) /\ SameKern(s, Exit(s, p))
<1>1. Turned(s, Exit(s, p), p, "none")
  BY ExitTurns, RegionsApart DEF OwnerInv, Sound
<1> QED
  BY <1>1, TurnedOwners

\* The kernel's heap is opened, whatever its record says,
LEMMA KernEnterOpens ==
  ASSUME NEW s, IsMem(s), KernInv(s)
  PROVE  LET t == KernEnter(s)
         IN /\ SameHeaps(s, t) /\ KernInv(t) /\ t.prot[Kern] = "rw"
            /\ t.window = s.window /\ t.block = s.block
            /\ \A q \in Procs : t.proc[q].at = s.proc[q].at
BY RegionsApart DEF KernEnter, IsMem, SameHeaps, KernInv

\* or masked.
LEMMA KernExitMasks ==
  ASSUME NEW s, IsMem(s)
  PROVE  LET t == KernExit([s EXCEPT !.kern_hd = "rw"])
         IN /\ SameHeaps(s, t) /\ t.kern_hd = "none" /\ t.prot[Kern] = "none"
BY RegionsApart DEF KernExit, IsMem, SameHeaps

\* The gate opens and nothing else.
LEMMA OpenGateOpens ==
  ASSUME NEW s, IsMem(s)
  PROVE  LET t == OpenGate(s)
         IN /\ SameHeaps(s, t) /\ t.prot[Kern] = s.prot[Kern] /\ t.kern_hd = s.kern_hd
            /\ ~ t.window /\ ~ t.block
            /\ \A q \in Procs : t.proc[q].at = s.proc[q].at
BY DEF OpenGate, IsMem, SameHeaps

----------------------------------------------------------------------------
(* Dispatching *)

\* A process whose kernel heap is open is executed, confined to what it may
\* touch.
LEMMA ExecuteInv ==
  ASSUME NEW s, NEW p \in Procs, service \in Flags, OwnerInv(s), KernInv(s),
         s.proc[p].live, s.prot[Kern] = "rw", Masked(s, p)
  PROVE  LET t == Execute(s, p) IN OwnerInv(t) /\ KernInv(t) /\ ModeInv(t, "user", p)
<1> DEFINE open   == Enter(s, p)
           masked == IF s.proc[p].privileged THEN open ELSE KernExit([open EXCEPT !.kern_hd = "rw"])
           t      == Execute(s, p)
<1>1. /\ Turned(s, open, p, "rw") /\ OwnerInv(open) /\ SameKern(s, open)
  BY EnterLive
<1>2. IsMem(open)
  BY <1>1 DEF OwnerInv
<1>3. /\ SameHeaps(open, masked)
      /\ s.proc[p].privileged => masked = open
      /\ ~ s.proc[p].privileged => masked.kern_hd = "none" /\ masked.prot[Kern] = "none"
  BY <1>2, KernExitMasks DEF SameHeaps
<1>4. t = IF s.proc[p].isolated THEN [masked EXCEPT !.window = TRUE, !.block = service.sud] ELSE masked
  BY DEF Execute
<1>5. IsMem(masked) /\ service.sud \in BOOLEAN
  BY <1>3 DEF SameHeaps, Flags
<1> HIDE DEF open, masked, t
<1>6. SameHeaps(masked, t) /\ t.kern_hd = masked.kern_hd /\ t.prot[Kern] = masked.prot[Kern]
  BY <1>4, <1>5 DEF IsMem, SameHeaps
<1>7. OwnerInv(t)
  BY <1>1, <1>3, <1>6, OwnerInvSame
<1>8. KernInv(t)
  BY <1>1, <1>3, <1>6 DEF KernInv, SameKern
<1>9. Masked(open, p)
  BY <1>1 DEF Turned, Masked
<1>10. Masked(t, p)
  BY <1>9, <1>3, <1>6, MaskedSame
<1>11. t.proc[p].live /\ t.proc[p].prot = "rw" /\ t.proc[p].privileged = s.proc[p].privileged
  BY <1>1, <1>3, <1>6 DEF Turned, SameHeaps
<1>12. ModeInv(t, "user", p)
  BY <1>1, <1>3, <1>6, <1>10, <1>11 DEF ModeInv, SameKern
<1> QED
  BY <1>7, <1>8, <1>12 DEF t

\* After a fault the kernel reaches its heap and the process's, through an
\* open gate.
LEMMA JumperInv ==
  ASSUME NEW s, NEW p, OwnerInv(s), KernInv(s), ModeInv(s, "user", p)
  PROVE  LET t == Jumper(s, p) IN OwnerInv(t) /\ KernInv(t) /\ ModeInv(t, "jumper", p)
<1> DEFINE a == KernEnter(s)
           b == OpenGate(a)
           c == Enter(b, p)
           t == Jumper(s, p)
<1>1. p \in Procs /\ s.proc[p].live /\ Masked(s, p) /\ IsMem(s)
  BY DEF ModeInv, OwnerInv
<1>2. SameHeaps(s, a) /\ KernInv(a) /\ a.prot[Kern] = "rw"
  BY <1>1, KernEnterOpens
<1>3. IsMem(a)
  BY <1>2 DEF SameHeaps
<1>4. /\ SameHeaps(a, b) /\ b.prot[Kern] = "rw" /\ b.kern_hd = a.kern_hd
      /\ ~ b.window /\ ~ b.block
  BY <1>2, <1>3, OpenGateOpens
<1>5. OwnerInv(b) /\ Masked(b, p) /\ b.proc[p].live
  <2>1. OwnerInv(a) /\ Masked(a, p) /\ a.proc[p].live
    BY <1>1, <1>2, OwnerInvSame, MaskedSame DEF SameHeaps
  <2> QED
    BY <1>1, <1>4, <2>1, OwnerInvSame, MaskedSame DEF SameHeaps
<1>6. t = [c EXCEPT !.proc[p].at = "end"]
  BY DEF Jumper
<1> HIDE DEF a, t
<1>7. Turned(b, c, p, "rw") /\ OwnerInv(c) /\ SameKern(b, c)
  BY <1>1, <1>5, EnterLive
<1> HIDE DEF b, c
<1>8. SameOwners(c, t)
  <2>1. IsMem(c)
    BY <1>7 DEF OwnerInv
  <2> QED
    BY <1>1, <1>6, <2>1, GotoOwners DEF Goto
<1>9. KernInv(c) /\ ModeInv(c, "jumper", p)
  <2>1. KernInv(c)
    BY <1>4, <1>7 DEF KernInv, SameKern
  <2>2. Masked(c, p)
    BY <1>5, <1>7 DEF Turned, Masked
  <2>3. c.proc[p].live /\ c.proc[p].prot = "rw" /\ c.prot[Kern] = "rw" /\ ~ c.block /\ ~ c.window
    BY <1>1, <1>4, <1>5, <1>7 DEF Turned, SameKern
  <2> QED
    BY <1>1, <2>1, <2>2, <2>3 DEF ModeInv
<1> QED
  BY <1>7, <1>8, <1>9, InvSame DEF t

----------------------------------------------------------------------------
(* The end of a process *)

\* What is left when process p is reaped: its slot is listed and empty, its
\* heap listed and masked, or unmapped, and nothing else has changed.
Reaped(s, t, p) ==
  /\ IsMem(t)
  /\ t.free_procs = << p >> \o s.free_procs
  /\ t.free_entries = IF s.proc[p].entry = Null THEN s.free_entries
                      ELSE << s.proc[p].entry >> \o s.free_entries
  /\ \A r \in Regions :
       t.prot[r] = IF r # s.proc[p].region THEN s.prot[r]
                   ELSE IF s.proc[p].entry = Null THEN "unmapped" ELSE "none"
  /\ t.kern_hd = s.kern_hd /\ t.window = s.window /\ t.block = s.block
  /\ ~ t.proc[p].live /\ t.proc[p].entry = Null
  /\ \A q \in Procs \ {p} : t.proc[q] = s.proc[q]

\* An empty slot is a slot.
LEMMA ClearedType == IsProc(Cleared) /\ ~ Cleared.live /\ Cleared.entry = Null
BY DEF Cleared, IsProc

\* vk_kern_free_proc.
LEMMA FreeProcResult ==
  ASSUME NEW s, IsMem(s), NEW p \in Procs
  PROVE  LET t == FreeProc(s, p)
         IN /\ IsMem(t) /\ t.free_procs = << p >> \o s.free_procs
            /\ t.free_entries = s.free_entries /\ t.prot = s.prot
            /\ t.kern_hd = s.kern_hd /\ t.window = s.window /\ t.block = s.block
            /\ ~ t.proc[p].live /\ t.proc[p].entry = Null
            /\ \A q \in Procs \ {p} : t.proc[q] = s.proc[q]
<1> DEFINE t == FreeProc(s, p)
<1>1. t = [s EXCEPT !.free_procs = << p >> \o s.free_procs, !.proc[p] = Cleared]
  BY DEF FreeProc
<1>2. << p >> \o s.free_procs \in Seq(Procs)
  <2>1. << p >> \in Seq(Procs)
    OBVIOUS
  <2> QED
    BY <2>1 DEF IsMem
<1> HIDE DEF t
<1> DEFINE c == Cleared
<1>3. IsProc(c) /\ ~ c.live /\ c.entry = Null
  BY ClearedType
<1> HIDE DEF c
<1>4. t = [s EXCEPT !.free_procs = << p >> \o s.free_procs, !.proc[p] = c]
  BY <1>1 DEF c
<1>5. IsMem(t)
  BY <1>2, <1>3, <1>4 DEF IsMem
<1> QED
  BY <1>3, <1>4, <1>5 DEF IsMem, t

\* Reaping does so.
LEMMA ReapResult ==
  ASSUME NEW s, NEW p \in Procs, OwnerInv(s), s.proc[p].live
  PROVE  Reaped(s, Reap(s, p), p)
<1>1. IsMem(s) /\ Sound(s, p) /\ s.proc[p].region \in Regions
  BY RegionsApart DEF OwnerInv, Sound
<1>2. CASE s.proc[p].entry = Null
  <2> DEFINE u == Unmap(s, p)
  <2>1. /\ IsMem(u) /\ u.free_procs = s.free_procs /\ u.free_entries = s.free_entries
        /\ \A r \in Regions : u.prot[r] = IF r # s.proc[p].region THEN s.prot[r] ELSE "unmapped"
        /\ u.kern_hd = s.kern_hd /\ u.window = s.window /\ u.block = s.block
        /\ u.proc = s.proc
    BY <1>1 DEF Unmap, IsMem
  <2>2. Reap(s, p) = FreeProc(u, p)
    BY <1>2 DEF Reap
  <2> HIDE DEF u
  <2> QED
    BY <1>2, <2>1, <2>2, FreeProcResult DEF Reaped
<1>3. CASE s.proc[p].entry # Null
  <2> DEFINE e == s.proc[p].entry
             v == [s EXCEPT !.free_entries = << e >> \o s.free_entries]
             u == Exit(v, p)
  <2>1. << e >> \o s.free_entries \in Seq(Entries)
    <3>1. e \in Entries
      BY <1>1, <1>3 DEF IsMem, IsProc
    <3>2. << e >> \in Seq(Entries)
      BY <3>1
    <3> QED
      BY <1>1, <3>2 DEF IsMem
  <2>2. /\ IsMem(v) /\ v.free_procs = s.free_procs /\ v.free_entries = << e >> \o s.free_entries
        /\ v.prot = s.prot /\ v.proc = s.proc
        /\ v.kern_hd = s.kern_hd /\ v.window = s.window /\ v.block = s.block
    BY <1>1, <2>1 DEF IsMem
  <2>3. Reap(s, p) = FreeProc(u, p)
    BY <1>3 DEF Reap
  <2> HIDE DEF v
  <2>4. v.proc[p].region \in Regions /\ v.proc[p].prot = v.prot[v.proc[p].region]
    BY <1>1, <2>2 DEF Sound
  <2>5. Turned(v, u, p, "none")
    BY <2>2, <2>4, ExitTurns
  <2>6. \A q \in Procs \ {p} : u.proc[q] = v.proc[q]
    BY <2>2 DEF Exit, IsMem
  <2> HIDE DEF u, e
  <2>7. /\ IsMem(u) /\ u.free_procs = s.free_procs /\ u.free_entries = << e >> \o s.free_entries
        /\ \A r \in Regions : u.prot[r] = IF r # s.proc[p].region THEN s.prot[r] ELSE "none"
        /\ u.kern_hd = s.kern_hd /\ u.window = s.window /\ u.block = s.block
        /\ \A q \in Procs \ {p} : u.proc[q] = s.proc[q]
    BY <2>2, <2>5, <2>6 DEF Turned
  <2>8. e = s.proc[p].entry
    BY DEF e
  <2> DEFINE w == FreeProc(u, p)
  <2>9. /\ IsMem(w) /\ w.free_procs = << p >> \o u.free_procs
        /\ w.free_entries = u.free_entries /\ w.prot = u.prot
        /\ w.kern_hd = u.kern_hd /\ w.window = u.window /\ w.block = u.block
        /\ ~ w.proc[p].live /\ w.proc[p].entry = Null
        /\ \A q \in Procs \ {p} : w.proc[q] = u.proc[q]
    BY <2>7, FreeProcResult, SMTT(30)
  <2> HIDE DEF w
  <2>10. Reaped(s, w, p)
    BY <1>3, <2>7, <2>8, <2>9 DEF Reaped
  <2> QED
    BY <2>3, <2>10 DEF w
<1> QED
  BY <1>2, <1>3

\* Elements of a list with one more in front.
LEMMA ListedCons ==
  ASSUME NEW T, NEW x \in T, NEW q \in Seq(T)
  PROVE  /\ Listed(<< x >> \o q) = {x} \cup Listed(q)
         /\ Distinct(q) /\ x \notin Listed(q) => Distinct(<< x >> \o q)
<1> DEFINE c == << x >> \o q
<1>1. Len(c) = Len(q) + 1 /\ c[1] = x /\ \A i \in 1 .. Len(q) : c[i + 1] = q[i]
  OBVIOUS
<1>2. DOMAIN c = 1 .. Len(q) + 1 /\ DOMAIN q = 1 .. Len(q) /\ Len(q) \in Nat
  OBVIOUS
<1> HIDE DEF c
<1>3. \A i \in DOMAIN c : i # 1 => i - 1 \in DOMAIN q /\ c[i] = q[i - 1]
  BY <1>1, <1>2
<1>4. Listed(c) = {x} \cup Listed(q)
  <2>1. \A y \in Listed(c) : y \in {x} \cup Listed(q)
    BY <1>1, <1>3 DEF Listed
  <2>2. \A y \in {x} \cup Listed(q) : y \in Listed(c)
    BY <1>1, <1>2 DEF Listed
  <2> QED
    BY <2>1, <2>2
<1>5. ASSUME Distinct(q), x \notin Listed(q) PROVE Distinct(c)
  <2> SUFFICES ASSUME NEW i \in DOMAIN c, NEW j \in DOMAIN c, c[i] = c[j]
               PROVE  i = j
    BY DEF Distinct
  <2>1. CASE i = 1 \/ j = 1
    BY <1>1, <1>3, <1>5, <2>1 DEF Listed
  <2>2. CASE i # 1 /\ j # 1
    <3>1. i - 1 = j - 1
      BY <1>3, <1>5, <2>2 DEF Distinct
    <3> QED
      BY <3>1, <1>2
  <2> QED
    BY <2>1, <2>2
<1> QED
  BY <1>4, <1>5 DEF c

\* Owners stay sound when one is reaped.
LEMMA ReapedOwners ==
  ASSUME NEW s, NEW t, NEW p \in Procs, OwnerInv(s), s.proc[p].live, Reaped(s, t, p)
  PROVE  OwnerInv(t) /\ SameKern(s, t)
<1> DEFINE r == s.proc[p].region
           e == s.proc[p].entry
<1>1. Sound(s, p) /\ r \in Regions \ {Kern} /\ r \notin Listed(s.free_entries) /\ e \in {Null, r}
  BY RegionsApart DEF OwnerInv, Sound
<1>2. IsMem(s) /\ IsMem(t)
  BY DEF OwnerInv, Reaped
<1>3. SameKern(s, t)
  BY <1>1, RegionsApart DEF Reaped, SameKern
<1>4. /\ Listed(t.free_procs) = {p} \cup Listed(s.free_procs) /\ Distinct(t.free_procs)
  <2>1. p \notin Listed(s.free_procs) /\ s.free_procs \in Seq(Procs) /\ Distinct(s.free_procs)
    BY <1>2 DEF OwnerInv, IsMem
  <2> QED
    BY <2>1, ListedCons DEF Reaped
<1>5. /\ Listed(t.free_entries) = (IF e = Null THEN {} ELSE {r}) \cup Listed(s.free_entries)
      /\ Distinct(t.free_entries)
  <2>1. s.free_entries \in Seq(Entries) /\ Distinct(s.free_entries) /\ e \in Entries \cup {Null}
    BY <1>2 DEF OwnerInv, IsMem, IsProc
  <2>2. CASE e = Null
    BY <2>1, <2>2 DEF Reaped
  <2>3. CASE e # Null
    <3>1. e = r /\ e \in Entries /\ t.free_entries = << e >> \o s.free_entries
      BY <1>1, <2>1, <2>3 DEF Reaped
    <3> HIDE DEF e, r
    <3> QED
      BY <1>1, <2>1, <2>3, <3>1, ListedCons
  <2> QED
    BY <2>2, <2>3
<1>6. Listed(s.free_procs) \subseteq Procs /\ Listed(s.free_entries) \subseteq Entries
  BY <1>2, ListedTypes
<1>7. \A q \in Listed(t.free_procs) : ~ t.proc[q].live /\ t.proc[q].entry = Null
  BY <1>4, <1>6 DEF OwnerInv, Reaped
<1>8. \A x \in Listed(t.free_entries) : t.prot[x] = "none"
  BY <1>1, <1>5, <1>6, RegionsApart DEF OwnerInv, Reaped
<1>9. ASSUME NEW q \in Procs, t.proc[q].live
      PROVE  /\ q # p /\ s.proc[q].live /\ t.proc[q] = s.proc[q]
             /\ Sound(t, q)
  <2>1. q # p /\ t.proc[q] = s.proc[q] /\ s.proc[q].live
    BY <1>9 DEF Reaped
  <2>2. Sound(s, q) /\ s.proc[q].region # r /\ s.proc[q].region \in Regions
    BY <2>1, RegionsApart DEF OwnerInv, Sound
  <2> QED
    BY <1>5, <2>1, <2>2 DEF Sound, Reaped
<1>10. \A q, x \in Procs :
         t.proc[q].live /\ t.proc[x].live /\ t.proc[q].region = t.proc[x].region => q = x
  BY <1>9 DEF OwnerInv
<1> QED
  BY <1>2, <1>3, <1>4, <1>5, <1>7, <1>8, <1>9, <1>10 DEF OwnerInv

\* From the return of a coroutine to the end of the dispatch: the kernel's
\* heap and the gate are open, and an isolated process is masked again.
LEMMA LeaveInv ==
  ASSUME NEW s, NEW p, NEW ended \in BOOLEAN, OwnerInv(s), KernInv(s), ModeInv(s, "user", p)
  PROVE  LET t == Leave(s, p, ended) IN OwnerInv(t) /\ KernInv(t) /\ ModeInv(t, "loop", p)
<1> DEFINE open == OpenGate(s)
           kern == IF s.proc[p].privileged THEN open ELSE KernEnter(open)
           t    == Leave(s, p, ended)
<1>1. p \in Procs /\ s.proc[p].live /\ Masked(s, p) /\ IsMem(s)
  BY DEF ModeInv, OwnerInv
<1>2. /\ SameHeaps(s, open) /\ KernInv(open) /\ ~ open.window /\ ~ open.block
      /\ open.prot[Kern] = s.prot[Kern]
  BY <1>1, OpenGateOpens DEF KernInv
<1>3. IsMem(open)
  BY <1>2 DEF SameHeaps
<1>4. /\ SameHeaps(open, kern) /\ KernInv(kern) /\ kern.prot[Kern] = "rw"
      /\ ~ kern.window /\ ~ kern.block
  <2>1. CASE s.proc[p].privileged
    BY <1>2, <1>3, <2>1 DEF SameHeaps, ModeInv
  <2>2. CASE ~ s.proc[p].privileged
    BY <1>2, <1>3, <2>2, KernEnterOpens
  <2> QED
    BY <2>1, <2>2
<1>5. t = IF ended THEN Reap(Free(Free(kern, p), p), p)
          ELSE IF s.proc[p].isolated THEN Exit(kern, p) ELSE kern
  BY DEF Leave
<1> HIDE DEF open, kern, t
<1>6. OwnerInv(kern) /\ Masked(kern, p) /\ kern.proc[p].live /\ IsMem(kern)
      /\ kern.proc[p].isolated = s.proc[p].isolated
  <2>1. OwnerInv(open) /\ Masked(open, p) /\ open.proc[p].live /\ open.proc[p].isolated = s.proc[p].isolated
    BY <1>1, <1>2, OwnerInvSame, MaskedSame DEF SameHeaps
  <2> QED
    BY <1>1, <1>4, <2>1, OwnerInvSame, MaskedSame DEF SameHeaps
<1>7. CASE ~ ended /\ s.proc[p].isolated
  <2>1. t = Exit(kern, p)
    BY <1>5, <1>7
  <2>2. Turned(kern, t, p, "none") /\ OwnerInv(t) /\ SameKern(kern, t)
    BY <1>1, <1>6, <2>1, ExitLive
  <2>3. Masked(t, p) /\ Idle(t, p)
    BY <1>1, <1>6, <2>2 DEF Turned, Masked, Idle
  <2> QED
    BY <1>1, <1>4, <2>2, <2>3 DEF t, SameKern, KernInv, ModeInv
<1>8. CASE ~ ended /\ ~ s.proc[p].isolated
  <2>1. t = kern
    BY <1>5, <1>8
  <2>2. Idle(t, p)
    BY <1>6, <1>8, <2>1 DEF Idle
  <2> QED
    BY <1>1, <1>4, <1>6, <2>1, <2>2 DEF t, ModeInv
<1>9. CASE ended
  <2> DEFINE f == Free(kern, p)
             g == Free(f, p)
  <2>1. SameOwners(kern, f)
    BY <1>1, <1>6, FreeOwners
  <2>2. IsMem(f)
    BY <2>1 DEF SameOwners, SameHeaps
  <2>3. SameOwners(f, g)
    BY <1>1, <2>2, FreeOwners
  <2>4. t = Reap(g, p)
    BY <1>5, <1>9
  <2> HIDE DEF f, g
  <2>5. SameOwners(kern, g)
    BY <2>1, <2>3, SameOwnersTransitive
  <2>6. OwnerInv(g) /\ Masked(g, p) /\ g.proc[p].live
    BY <1>1, <1>6, <2>5, OwnerInvSame, MaskedSame DEF SameOwners, SameHeaps
  <2>7. Reaped(g, t, p)
    BY <1>1, <2>4, <2>6, ReapResult
  <2>8. OwnerInv(t) /\ SameKern(g, t)
    BY <1>1, <2>6, <2>7, ReapedOwners
  <2>9. Masked(t, p) /\ Idle(t, p)
    BY <1>1, <2>6, <2>7 DEF Reaped, Masked, Idle
  <2> QED
    BY <1>1, <1>4, <2>5, <2>8, <2>9 DEF t, SameOwners, SameKern, KernInv, ModeInv
<1> QED
  BY <1>7, <1>8, <1>9

----------------------------------------------------------------------------
(* A new process *)

\* What the listener leaves when it takes slot p and heap r for a connection:
\* both are off their lists, and nothing else has changed.
Taken(s, t, p, r) ==
  /\ IsMem(t) /\ SameKern(s, t)
  /\ r \in Entries \cup Maps
  /\ t.free_procs = Tail(s.free_procs)
  /\ IF r \in Maps THEN s.prot[r] = "unmapped" /\ t.free_entries = s.free_entries
     ELSE s.free_entries # << >> /\ r = Head(s.free_entries) /\ t.free_entries = Tail(s.free_entries)
  /\ \A x \in Regions \ {r} : t.prot[x] = s.prot[x]
  /\ \A q \in Procs \ {p} :
       /\ t.proc[q].region = s.proc[q].region /\ t.proc[q].prot = s.proc[q].prot
       /\ t.proc[q].entry = s.proc[q].entry /\ t.proc[q].live = s.proc[q].live
       /\ t.proc[q].privileged = s.proc[q].privileged
       /\ t.proc[q].isolated = s.proc[q].isolated
  /\ t.prot[r] = t.proc[p].prot
  /\ t.proc[p].region = r /\ t.proc[p].entry = IF r \in Maps THEN Null ELSE r

\* Elements of a list without its first.
LEMMA ListedTail ==
  ASSUME NEW T, NEW q \in Seq(T), q # << >>
  PROVE  /\ Head(q) \in T /\ Tail(q) \in Seq(T)
         /\ Listed(q) = {Head(q)} \cup Listed(Tail(q))
         /\ Distinct(q) => Head(q) \notin Listed(Tail(q)) /\ Distinct(Tail(q))
<1> DEFINE c == Tail(q)
<1>1. /\ Head(q) = q[1] /\ q[1] \in T /\ c \in Seq(T) /\ Len(c) = Len(q) - 1
      /\ \A i \in 1 .. Len(q) - 1 : c[i] = q[i + 1]
  OBVIOUS
<1>2. DOMAIN c = 1 .. Len(q) - 1 /\ DOMAIN q = 1 .. Len(q) /\ Len(q) \in Nat \ {0}
  BY <1>1
<1> HIDE DEF c
<1>3. \A i \in DOMAIN c : i + 1 \in DOMAIN q /\ c[i] = q[i + 1] /\ i + 1 # 1
  BY <1>1, <1>2
<1>4. \A i \in DOMAIN q : i # 1 => i - 1 \in DOMAIN c /\ c[i - 1] = q[i]
  BY <1>1, <1>2
<1>5. Listed(q) = {q[1]} \cup Listed(c)
  <2>1. \A y \in Listed(q) : y \in {q[1]} \cup Listed(c)
    BY <1>4 DEF Listed
  <2>2. \A y \in {q[1]} \cup Listed(c) : y \in Listed(q)
    BY <1>2, <1>3 DEF Listed
  <2> QED
    BY <2>1, <2>2
<1>6. ASSUME Distinct(q) PROVE q[1] \notin Listed(c) /\ Distinct(c)
  <2>1. q[1] \notin Listed(c)
    BY <1>2, <1>3, <1>6 DEF Listed, Distinct
  <2>2. ASSUME NEW i \in DOMAIN c, NEW j \in DOMAIN c, c[i] = c[j] PROVE i = j
    <3>1. i + 1 = j + 1
      BY <1>3, <1>6, <2>2 DEF Distinct
    <3> QED
      BY <3>1, <1>2
  <2> QED
    BY <2>1, <2>2 DEF Distinct
<1> QED
  BY <1>1, <1>5, <1>6 DEF c

\* A slot and a heap taken leave the owners sound, and the new one too if it
\* is alive.
LEMMA TakenOwners ==
  ASSUME NEW s, NEW t, NEW p \in Procs, NEW r, OwnerInv(s), s.free_procs # << >>,
         p = Head(s.free_procs), Taken(s, t, p, r)
  PROVE  OwnerInv(t)
<1>1. IsMem(s) /\ IsMem(t) /\ s.free_procs \in Seq(Procs) /\ s.free_entries \in Seq(Entries)
      /\ Distinct(s.free_procs) /\ Distinct(s.free_entries)
  BY DEF OwnerInv, IsMem, Taken
<1>2. /\ Listed(s.free_procs) = {p} \cup Listed(t.free_procs) /\ Distinct(t.free_procs)
      /\ p \notin Listed(t.free_procs)
  BY <1>1, ListedTail DEF Taken
<1>3. /\ Distinct(t.free_entries) /\ Listed(t.free_entries) \subseteq Listed(s.free_entries) \ {r}
      /\ r \notin Maps => r \in Listed(s.free_entries)
  <2>1. CASE r \in Maps
    BY <1>1, <2>1, ListedTypes, RegionsApart DEF Taken
  <2>2. CASE r \notin Maps
    BY <1>1, <2>2, ListedTail DEF Taken
  <2> QED
    BY <2>1, <2>2
<1>4. Listed(s.free_procs) \subseteq Procs /\ Listed(s.free_entries) \subseteq Entries
  BY <1>1, ListedTypes
<1>5. \A q \in Procs : s.proc[q].live => s.proc[q].region # r /\ q # p
  <2> SUFFICES ASSUME NEW q \in Procs, s.proc[q].live PROVE s.proc[q].region # r /\ q # p
    OBVIOUS
  <2>1. q # p
    BY <1>2 DEF OwnerInv
  <2>2. Sound(s, q) /\ s.proc[q].prot \in {"none", "rw"}
    BY <1>1 DEF OwnerInv, IsMem, IsProc
  <2>3. r \in Maps => s.prot[r] = "unmapped"
    BY DEF Taken
  <2> QED
    BY <1>3, <2>1, <2>2, <2>3 DEF Sound
<1>6. \A q \in Listed(t.free_procs) : ~ t.proc[q].live /\ t.proc[q].entry = Null
  BY <1>2, <1>4 DEF OwnerInv, Taken
<1>7. \A x \in Listed(t.free_entries) : t.prot[x] = "none"
  BY <1>3, <1>4, RegionsApart DEF OwnerInv, Taken
<1>8. ASSUME NEW q \in Procs, q # p, t.proc[q].live PROVE Sound(t, q) /\ t.proc[q].region # r
  <2>1. s.proc[q].live /\ Sound(s, q) /\ s.proc[q].region # r /\ s.proc[q].region \in Regions
    BY <1>5, <1>8, RegionsApart DEF OwnerInv, Taken, Sound
  <2> QED
    BY <1>3, <1>8, <2>1 DEF Sound, Taken
<1>9. Sound(t, p)
  <2>1. r \notin Listed(t.free_entries) /\ Null \notin Entries \cup Maps
    BY <1>3, RegionsApart
  <2> QED
    BY <2>1 DEF Sound, Taken
<1>10. ASSUME NEW q \in Procs, NEW x \in Procs, t.proc[q].live, t.proc[x].live,
              t.proc[q].region = t.proc[x].region
       PROVE  q = x
  <2>1. CASE q = p \/ x = p
    BY <1>8, <1>10, <2>1 DEF Taken
  <2>2. CASE q # p /\ x # p
    BY <1>10, <2>2 DEF OwnerInv, Taken
  <2> QED
    BY <2>1, <2>2
<1> QED
  BY <1>1, <1>2, <1>3, <1>6, <1>7, <1>8, <1>9, <1>10 DEF OwnerInv

\* A taken heap is the same whatever is on its stack.
LEMMA TakenSame ==
  ASSUME NEW s, NEW t, NEW u, NEW p \in Procs, NEW r, Taken(s, t, p, r), SameOwners(t, u)
  PROVE  Taken(s, u, p, r)
<1>1. r \in Regions \ {Kern}
  BY RegionsApart DEF Taken
<1>2. \A x \in Regions : u.prot[x] = t.prot[x]
  BY DEF SameOwners, SameHeaps, SameKern
<1>3. SameKern(s, u)
  BY DEF Taken, SameOwners, SameKern
<1> QED
  BY <1>1, <1>2, <1>3 DEF Taken, SameOwners, SameHeaps

\* The heap of a new process is of the pool or a new mapping, and open.
LEMMA HeapTaken ==
  ASSUME NEW s, OwnerInv(s), s.free_procs # << >>, NEW p \in Procs, p = Head(s.free_procs),
         NEW h \in Heaps([s EXCEPT !.free_procs = Tail(@)], p)
  PROVE  \E r : Taken(s, h, p, r) /\ h.proc[p].prot = "rw" /\ ~ h.proc[p].live
<1> DEFINE taken == [s EXCEPT !.free_procs = Tail(@)]
<1>1. IsMem(s) /\ s.free_procs \in Seq(Procs) /\ s.free_entries \in Seq(Entries)
  BY DEF OwnerInv, IsMem
<1>2. /\ Tail(s.free_procs) \in Seq(Procs) /\ p \in Listed(s.free_procs)
  BY <1>1, ListedTail
<1>3. ~ s.proc[p].live /\ s.proc[p].entry = Null
  BY <1>2 DEF OwnerInv
<1>4. /\ IsMem(taken) /\ taken.free_procs = Tail(s.free_procs) /\ taken.proc = s.proc
      /\ taken.free_entries = s.free_entries /\ taken.prot = s.prot /\ SameKern(s, taken)
  BY <1>1, <1>2 DEF IsMem, SameKern
<1> HIDE DEF taken
<1>5. CASE s.free_entries # << >>
  <2> DEFINE r  == Head(s.free_entries)
             st == NewStack(SafeAlignedlen(1, HeapLen))
             x  == [taken EXCEPT !.free_entries = Tail(@),
                                 !.proc[p].region = r, !.proc[p].prot = "none", !.proc[p].entry = r,
                                 !.proc[p].stack = st]
             y  == Enter(x, p)
  <2>1. h = Alloc(y, p, LocalLen)
    BY <1>4, <1>5 DEF Heaps, FromPool, taken
  <2>2. r \in Entries /\ Tail(s.free_entries) \in Seq(Entries) /\ r \in Listed(s.free_entries)
    BY <1>1, <1>5, ListedTail
  <2>3. s.prot[r] = "none"
    BY <2>2 DEF OwnerInv
  <2> HIDE DEF st, r
  <2>5. /\ x.free_procs = Tail(s.free_procs) /\ x.free_entries = Tail(s.free_entries)
        /\ x.prot = s.prot /\ SameKern(s, x)
        /\ \A q \in Procs \ {p} : x.proc[q] = s.proc[q]
    BY <1>4 DEF IsMem, SameKern
  <2>6. /\ x.proc[p].region = r /\ x.proc[p].prot = "none" /\ x.proc[p].entry = r
        /\ ~ x.proc[p].live
    BY <1>3, <1>4 DEF IsMem, IsProc
  <2>4. IsMem(x)
    <3>1. DOMAIN x.proc = Procs /\ DOMAIN x = DOMAIN taken
      BY <1>4 DEF IsMem
    <3>2. /\ DOMAIN x.proc[p] = DOMAIN taken.proc[p]
          /\ x.proc[p].privileged = taken.proc[p].privileged
          /\ x.proc[p].isolated = taken.proc[p].isolated
          /\ x.proc[p].live = taken.proc[p].live
      BY <1>4 DEF IsMem, IsProc
    <3>3. x.kern_hd = taken.kern_hd /\ x.window = taken.window /\ x.block = taken.block
      BY <1>4 DEF IsMem
    <3> HIDE DEF x
    <3>4. IsProc(taken.proc[p])
      BY <1>4 DEF IsMem
    <3>5. IsProc(x.proc[p])
      BY <2>2, <2>6, <3>2, <3>4, RegionsApart DEF IsProc
    <3> QED
      BY <1>4, <2>2, <2>5, <3>1, <3>3, <3>5 DEF IsMem
  <2> HIDE DEF x
  <2>7. Turned(x, y, p, "rw")
    BY <2>2, <2>3, <2>4, <2>5, <2>6, EnterTurns, RegionsApart
  <2> HIDE DEF y
  <2>8. Taken(s, y, p, r) /\ y.proc[p].prot = "rw" /\ ~ y.proc[p].live
    <3>1. r \in Regions \ {Kern} /\ r \notin Maps /\ Kern \in Regions
      BY <2>2, RegionsApart
    <3>2. SameKern(s, y)
      BY <2>5, <2>6, <2>7, <3>1 DEF Turned, SameKern
    <3>3. IsMem(y) /\ y.free_procs = Tail(s.free_procs) /\ y.free_entries = Tail(s.free_entries)
          /\ (\A z \in Regions \ {r} : y.prot[z] = s.prot[z])
          /\ y.prot[r] = "rw" /\ y.proc[p].prot = "rw" /\ y.proc[p].region = r
          /\ y.proc[p].entry = r /\ ~ y.proc[p].live
      BY <2>5, <2>6, <2>7, <3>1 DEF Turned
    <3>4. \A q \in Procs \ {p} :
            /\ y.proc[q].region = s.proc[q].region /\ y.proc[q].prot = s.proc[q].prot
            /\ y.proc[q].entry = s.proc[q].entry /\ y.proc[q].live = s.proc[q].live
            /\ y.proc[q].privileged = s.proc[q].privileged
            /\ y.proc[q].isolated = s.proc[q].isolated
      BY <2>5, <2>7 DEF Turned
    <3> QED
      BY <1>5, <2>2, <3>1, <3>2, <3>3, <3>4 DEF Taken, r
  <2>9. SameOwners(y, h)
    BY <2>1, <2>8, AllocOwners DEF Taken
  <2>10. Taken(s, h, p, r)
    BY <2>8, <2>9, TakenSame
  <2>11. h.proc[p].prot = "rw" /\ ~ h.proc[p].live
    BY <2>8, <2>9 DEF SameOwners, SameHeaps
  <2> QED
    BY <2>10, <2>11
<1>6. CASE s.free_entries = << >>
  <2>1. PICK r \in {z \in Maps : taken.prot[z] = "unmapped"}, len \in MapLens(HeapLen) :
          h = Private(taken, p, r, len)
    BY <1>4, <1>6 DEF Heaps, taken
  <2> DEFINE st == NewStack(len)
             y  == [taken EXCEPT !.prot[r] = "rw", !.proc[p].region = r, !.proc[p].prot = "rw",
                                 !.proc[p].stack = st]
  <2>2. h = Alloc(y, p, LocalLen)
    BY <2>1 DEF Private
  <2> HIDE DEF st
  <2>3. r \in Maps /\ r \in Regions \ {Kern} /\ s.prot[r] = "unmapped"
    BY <1>4, RegionsApart
  <2>5. /\ y.free_procs = Tail(s.free_procs) /\ y.free_entries = s.free_entries
        /\ y.prot[r] = "rw" /\ SameKern(s, y)
        /\ \A z \in Regions \ {r} : y.prot[z] = s.prot[z]
    BY <1>4, <2>3, RegionsApart DEF IsMem, SameKern
  <2>6. /\ y.proc[p].region = r /\ y.proc[p].prot = "rw" /\ y.proc[p].entry = Null
        /\ ~ y.proc[p].live
        /\ \A q \in Procs \ {p} : y.proc[q] = s.proc[q]
    BY <1>3, <1>4 DEF IsMem, IsProc
  <2>4. IsMem(y)
    <3>1. DOMAIN y.proc = Procs /\ DOMAIN y = DOMAIN taken
      BY <1>4 DEF IsMem
    <3>2. /\ DOMAIN y.proc[p] = DOMAIN taken.proc[p]
          /\ y.proc[p].privileged = taken.proc[p].privileged
          /\ y.proc[p].isolated = taken.proc[p].isolated
          /\ y.proc[p].live = taken.proc[p].live
      BY <1>4 DEF IsMem, IsProc
    <3>3. /\ y.kern_hd = taken.kern_hd /\ y.window = taken.window /\ y.block = taken.block
          /\ y.prot = [taken.prot EXCEPT ![r] = "rw"]
      BY <1>4 DEF IsMem
    <3> HIDE DEF y
    <3>4. IsProc(taken.proc[p])
      BY <1>4 DEF IsMem
    <3>5. IsProc(y.proc[p])
      BY <2>3, <2>6, <3>2, <3>4, RegionsApart DEF IsProc
    <3> QED
      BY <1>4, <2>3, <2>5, <2>6, <3>1, <3>3, <3>5 DEF IsMem
  <2> HIDE DEF y
  <2>7. Taken(s, y, p, r)
    BY <2>3, <2>4, <2>5, <2>6 DEF Taken
  <2>8. SameOwners(y, h)
    BY <2>2, <2>4, AllocOwners
  <2>9. Taken(s, h, p, r)
    BY <2>7, <2>8, TakenSame
  <2>10. h.proc[p].prot = "rw" /\ ~ h.proc[p].live
    BY <2>6, <2>8 DEF SameOwners, SameHeaps
  <2> QED
    BY <2>9, <2>10
<1> QED
  BY <1>5, <1>6

\* What the listener leaves of a connection it has accepted: a process ready
\* to run with its heap masked, or, when it raises, what it had taken.
LEMMA SetUpResult ==
  ASSUME NEW s, OwnerInv(s), s.free_procs # << >>, NEW p \in Procs, p = Head(s.free_procs),
         NEW h, NEW r, Taken(s, h, p, r), h.proc[p].prot = "rw", ~ h.proc[p].live,
         Listener \in Procs, service \in Flags
  PROVE  LET t == SetUp(h, p)
         IN \E u : /\ Taken(s, u, p, r) /\ OwnerInv(u)
                   /\ \/ ~ u.proc[p].live /\ SameOwners(u, t) /\ t.proc[Listener].at = "end"
                      \/ u.proc[p].live /\ Turned(u, t, p, "none")
<1> DEFINE t  == SetUp(h, p)
           f  == [h EXCEPT !.proc[p].privileged = service.privileged,
                           !.proc[p].isolated = service.isolated]
           a  == Alloc(f, p, ThreadLen)
           b  == Alloc(a, p, SocketLen)
           th == Thread(f, p)
<1>1. IsMem(h) /\ service.privileged \in BOOLEAN /\ service.isolated \in BOOLEAN
  BY DEF Taken, Flags
<1>2. IsMem(f) /\ f.proc[p].prot = "rw" /\ ~ f.proc[p].live
  <2> DEFINE pr == [h.proc[p] EXCEPT !.privileged = service.privileged,
                                     !.isolated = service.isolated]
  <2>1. IsProc(h.proc[p])
    BY <1>1 DEF IsMem
  <2>2. IsProc(pr) /\ pr.prot = h.proc[p].prot /\ pr.live = h.proc[p].live
    BY <1>1, <2>1 DEF IsProc
  <2>3. f = [h EXCEPT !.proc[p] = pr]
    BY <1>1 DEF IsMem, IsProc
  <2> HIDE DEF pr, f
  <2>4. Replaced(h, f, p, pr)
    BY <1>1, <2>2, <2>3, ProcReplaced
  <2> QED
    BY <2>2, <2>4 DEF Replaced
<1>3. Taken(s, f, p, r)
  <2>1. /\ f.free_procs = h.free_procs /\ f.free_entries = h.free_entries /\ f.prot = h.prot
        /\ SameKern(h, f)
    BY <1>1 DEF IsMem, SameKern
  <2>2. /\ f.proc[p].region = h.proc[p].region /\ f.proc[p].entry = h.proc[p].entry
        /\ f.proc[p].prot = h.proc[p].prot
        /\ \A q \in Procs \ {p} : f.proc[q] = h.proc[q]
    BY <1>1 DEF IsMem, IsProc
  <2>3. SameKern(s, f)
    BY <2>1 DEF Taken, SameKern
  <2> HIDE DEF f
  <2> QED
    BY <1>2, <2>1, <2>2, <2>3 DEF Taken
<1>4. Enter(f, p) = f
  BY <1>2 DEF Enter
<1>5. th = [b EXCEPT !.proc[p].self = b.proc[p].stack.cursor]
  BY <1>4 DEF Thread
<1>6. t = IF ~ CanAlloc(h, p, ThreadLen) THEN Goto(f, Listener, "end")
          ELSE IF ~ CanCopy(th, p, ServiceLen) THEN Goto(th, Listener, "end")
          ELSE Started(th, p)
  BY <1>4 DEF SetUp
<1> HIDE DEF f, t, th
<1>7. SameOwners(f, th)
  <2>1. SameOwners(f, a)
    BY <1>2, AllocOwners
  <2>2. SameOwners(a, b)
    <3>1. IsMem(a)
      BY <2>1 DEF SameOwners, SameHeaps
    <3> QED
      BY <3>1, AllocOwners
  <2>3. SameOwners(b, th)
    <3>1. IsMem(b)
      BY <2>2 DEF SameOwners, SameHeaps
    <3> HIDE DEF b
    <3> QED
      BY <1>5, <3>1, SelfOwners
  <2> HIDE DEF a, b
  <2> QED
    BY <2>1, <2>2, <2>3, SameOwnersTransitive
<1>8. Taken(s, th, p, r) /\ ~ th.proc[p].live /\ th.proc[p].prot = "rw" /\ IsMem(th)
  <2>1. Taken(s, th, p, r)
    BY <1>3, <1>7, TakenSame
  <2>2. IsMem(th)
    BY <2>1 DEF Taken
  <2> QED
    BY <1>2, <1>7, <2>1, <2>2 DEF SameOwners, SameHeaps
<1>9. CASE ~ CanAlloc(h, p, ThreadLen)
  <2>1. t = Goto(f, Listener, "end")
    BY <1>6, <1>9
  <2> QED
    BY <1>2, <1>3, <2>1, GotoOwners, TakenOwners DEF t
<1>10. CASE CanAlloc(h, p, ThreadLen) /\ ~ CanCopy(th, p, ServiceLen)
  <2>1. t = Goto(th, Listener, "end")
    BY <1>6, <1>10
  <2> QED
    BY <1>8, <2>1, GotoOwners, TakenOwners DEF t
<1>11. CASE CanAlloc(h, p, ThreadLen) /\ CanCopy(th, p, ServiceLen)
  <2> DEFINE c == CopyArg(th, p, ServiceLen)
             u == [c EXCEPT !.proc[p].live = TRUE]
  <2>1. t = Exit(u, p)
    BY <1>6, <1>11 DEF Started
  <2>2. SameOwners(th, c)
    BY <1>8, CopyArgOwners
  <2>3. Taken(s, c, p, r) /\ IsMem(c)
    <3>1. Taken(s, c, p, r)
      BY <1>8, <2>2, TakenSame
    <3> QED
      BY <3>1 DEF Taken
  <2> HIDE DEF c
  <2>4. /\ IsMem(u) /\ u.free_procs = c.free_procs /\ u.free_entries = c.free_entries
        /\ u.prot = c.prot /\ SameKern(c, u) /\ u.proc[p].live
    <3> DEFINE pr == [c.proc[p] EXCEPT !.live = TRUE]
    <3>a. IsProc(c.proc[p])
      BY <2>3 DEF IsMem
    <3>b. IsProc(pr) /\ pr.live
      BY <3>a DEF IsProc
    <3>c. u = [c EXCEPT !.proc[p] = pr]
      BY <2>3 DEF IsMem, IsProc
    <3> HIDE DEF pr, u
    <3>d. Replaced(c, u, p, pr)
      BY <2>3, <3>b, <3>c, ProcReplaced
    <3> QED
      BY <3>b, <3>d DEF Replaced, SameKern
  <2>5. /\ u.proc[p].region = c.proc[p].region /\ u.proc[p].entry = c.proc[p].entry
        /\ u.proc[p].prot = c.proc[p].prot
        /\ \A q \in Procs \ {p} : u.proc[q] = c.proc[q]
    BY <2>3 DEF IsMem, IsProc
  <2> HIDE DEF u
  <2>6. Taken(s, u, p, r)
    <3>1. SameKern(s, u)
      BY <2>3, <2>4 DEF Taken, SameKern
    <3> QED
      BY <2>3, <2>4, <2>5, <3>1 DEF Taken
  <2>7. OwnerInv(u)
    BY <2>6, TakenOwners
  <2>8. Turned(u, t, p, "none")
    BY <2>1, <2>4, <2>7, ExitLive
  <2> QED
    BY <2>4, <2>6, <2>7, <2>8 DEF t
<1> QED
  BY <1>9, <1>10, <1>11

----------------------------------------------------------------------------
(* What is kept *)

SameAt(s, t) == \A q \in Procs : t.proc[q].at = s.proc[q].at

\* Nothing is lost when the owners are the same,
LEMMA KeptSame ==
  ASSUME NEW s, NEW t, SameHeaps(s, t), Kept(s)
  PROVE  Kept(t)
BY RegionsApart DEF SameHeaps, Kept

\* nor when one of them is opened or masked,
LEMMA KeptTurned ==
  ASSUME NEW s, NEW t, NEW p \in Procs, NEW x, s.proc[p].live, Turned(s, t, p, x), Kept(s)
  PROVE  Kept(t)
<1>1. \A r \in Maps : r \in Regions
  BY RegionsApart
<1> QED
  BY <1>1 DEF Turned, Kept

\* nor when one is reaped,
LEMMA KeptReaped ==
  ASSUME NEW s, NEW t, NEW p \in Procs, OwnerInv(s), s.proc[p].live, Reaped(s, t, p), Kept(s)
  PROVE  Kept(t)
<1>1. IsMem(s) /\ Sound(s, p) /\ s.free_procs \in Seq(Procs) /\ s.free_entries \in Seq(Entries)
  BY DEF OwnerInv, IsMem
<1>2. Listed(t.free_procs) = {p} \cup Listed(s.free_procs)
  BY <1>1, ListedCons DEF Reaped
<1>3. CASE s.proc[p].entry = Null
  <2>1. /\ t.free_entries = s.free_entries /\ s.proc[p].region \in Maps
        /\ t.prot[s.proc[p].region] = "unmapped"
    BY <1>1, <1>3, RegionsApart DEF Reaped, Sound
  <2>2. \A r \in Maps : t.prot[r] # "unmapped" => r # s.proc[p].region /\ s.prot[r] # "unmapped"
    BY <2>1, RegionsApart DEF Reaped
  <2>3. \A q \in Procs : s.proc[q].live /\ q # p => t.proc[q].live /\ t.proc[q].region = s.proc[q].region
    BY DEF Reaped
  <2>4. s.proc[p].region \notin Entries
    BY <2>1, RegionsApart
  <2> QED
    BY <1>2, <2>1, <2>2, <2>3, <2>4 DEF Kept
<1>4. CASE s.proc[p].entry # Null
  <2>1. /\ s.proc[p].entry = s.proc[p].region /\ s.proc[p].entry \in Entries
        /\ t.free_entries = << s.proc[p].entry >> \o s.free_entries
    BY <1>1, <1>4 DEF Reaped, Sound, IsMem, IsProc
  <2>2. Listed(t.free_entries) = {s.proc[p].region} \cup Listed(s.free_entries)
    BY <1>1, <2>1, ListedCons
  <2>3. \A r \in Maps : r # s.proc[p].region /\ t.prot[r] = s.prot[r]
    BY <2>1, RegionsApart DEF Reaped
  <2>4. \A q \in Procs : s.proc[q].live /\ q # p => t.proc[q].live /\ t.proc[q].region = s.proc[q].region
    BY DEF Reaped
  <2> QED
    BY <1>2, <2>2, <2>3, <2>4 DEF Kept
<1> QED
  BY <1>3, <1>4

\* nor when one comes alive.
LEMMA KeptTaken ==
  ASSUME NEW s, NEW t, NEW p \in Procs, NEW r, OwnerInv(s), s.free_procs # << >>,
         p = Head(s.free_procs), Taken(s, t, p, r), t.proc[p].live, Kept(s)
  PROVE  Kept(t)
<1>1. IsMem(s) /\ s.free_procs \in Seq(Procs) /\ s.free_entries \in Seq(Entries)
  BY DEF OwnerInv, IsMem
<1>2. Listed(s.free_procs) = {p} \cup Listed(t.free_procs)
  BY <1>1, ListedTail DEF Taken
<1>3. Listed(s.free_entries) \subseteq {r} \cup Listed(t.free_entries)
  BY <1>1, ListedTail DEF Taken
<1>4. ~ s.proc[p].live
  BY <1>2 DEF OwnerInv
<1>5. \A q \in Procs : s.proc[q].live => t.proc[q].live /\ t.proc[q].region = s.proc[q].region
  BY <1>4 DEF Taken
<1>6. \A x \in Maps : x # r => t.prot[x] = s.prot[x]
  BY RegionsApart DEF Taken
<1>7. t.proc[p].live /\ t.proc[p].region = r
  BY DEF Taken
<1> QED
  BY <1>2, <1>3, <1>5, <1>6, <1>7 DEF Kept

\* Executing a process loses nothing and resumes it where it was.
LEMMA ExecuteKept ==
  ASSUME NEW s, NEW p \in Procs, service \in Flags, OwnerInv(s), s.proc[p].live
  PROVE  LET t == Execute(s, p)
         IN /\ Kept(s) => Kept(t)
            /\ SameAt(s, t) /\ \A q \in Procs : t.proc[q].live = s.proc[q].live
<1> DEFINE open   == Enter(s, p)
           masked == IF s.proc[p].privileged THEN open ELSE KernExit([open EXCEPT !.kern_hd = "rw"])
           t      == Execute(s, p)
<1>1. Turned(s, open, p, "rw") /\ IsMem(open)
  BY EnterLive DEF OwnerInv
<1>2. t = IF s.proc[p].isolated THEN [masked EXCEPT !.window = TRUE, !.block = service.sud] ELSE masked
  BY DEF Execute
<1> HIDE DEF open, t
<1>3. SameHeaps(open, masked) /\ SameAt(open, masked)
  <2>1. CASE s.proc[p].privileged
    BY <1>1, <2>1 DEF SameHeaps, SameAt
  <2>2. CASE ~ s.proc[p].privileged
    <3>1. SameHeaps(open, masked)
      BY <1>1, <2>2, KernExitMasks
    <3>2. SameAt(open, masked)
      BY <1>1, <2>2 DEF SameAt, KernExit, IsMem
    <3> QED
      BY <3>1, <3>2
  <2> QED
    BY <2>1, <2>2
<1> HIDE DEF masked
<1>4. SameHeaps(masked, t) /\ SameAt(masked, t)
  <2>1. IsMem(masked) /\ service.sud \in BOOLEAN
    BY <1>3 DEF SameHeaps, Flags
  <2> QED
    BY <1>2, <2>1 DEF IsMem, SameHeaps, SameAt
<1>5. Kept(s) => Kept(t)
  BY <1>1, <1>3, <1>4, KeptTurned, KeptSame
<1>6. SameAt(s, t)
  BY <1>1, <1>3, <1>4 DEF SameAt, Turned
<1>7. \A q \in Procs : t.proc[q].live = s.proc[q].live
  BY <1>1, <1>3, <1>4 DEF SameHeaps, Turned
<1> QED
  BY <1>5, <1>6, <1>7 DEF t

\* A pop leaves the coroutine where it was.
LEMMA FreeAt ==
  ASSUME NEW s, IsMem(s), NEW p \in Procs
  PROVE  SameAt(s, Free(s, p))
BY DEF Free, SameAt, IsMem, IsProc

\* Leaving it loses nothing, even for good.
LEMMA LeaveKept ==
  ASSUME NEW s, NEW p \in Procs, NEW ended \in BOOLEAN, OwnerInv(s), KernInv(s), s.proc[p].live
  PROVE  LET t == Leave(s, p, ended)
         IN /\ Kept(s) => Kept(t)
            /\ \A q \in Procs : t.proc[q].live => s.proc[q].live /\ t.proc[q].at = s.proc[q].at
<1> DEFINE open == OpenGate(s)
           kern == IF s.proc[p].privileged THEN open ELSE KernEnter(open)
           t    == Leave(s, p, ended)
<1>1. IsMem(s)
  BY DEF OwnerInv
<1>2. SameHeaps(s, open) /\ KernInv(open) /\ SameAt(s, open)
  BY <1>1, OpenGateOpens DEF KernInv, SameAt
<1>3. IsMem(open)
  BY <1>2 DEF SameHeaps
<1> HIDE DEF open
<1>4. SameHeaps(open, kern) /\ SameAt(open, kern)
  <2>1. CASE s.proc[p].privileged
    BY <1>3, <2>1 DEF SameHeaps, SameAt
  <2>2. CASE ~ s.proc[p].privileged
    BY <1>2, <1>3, <2>2, KernEnterOpens DEF SameAt
  <2> QED
    BY <2>1, <2>2
<1>5. t = IF ended THEN Reap(Free(Free(kern, p), p), p)
          ELSE IF s.proc[p].isolated THEN Exit(kern, p) ELSE kern
  BY DEF Leave, open
<1> HIDE DEF kern, t
<1>6. /\ OwnerInv(kern) /\ kern.proc[p].live /\ IsMem(kern) /\ SameAt(s, kern)
      /\ Kept(s) => Kept(kern)
      /\ \A q \in Procs : kern.proc[q].live = s.proc[q].live
  <2>1. OwnerInv(open) /\ (Kept(s) => Kept(open))
    BY <1>2, OwnerInvSame, KeptSame
  <2>2. OwnerInv(kern) /\ (Kept(s) => Kept(kern))
    BY <1>4, <2>1, OwnerInvSame, KeptSame
  <2> QED
    BY <1>2, <1>4, <2>2 DEF SameHeaps, SameAt
<1>7. CASE ~ ended /\ s.proc[p].isolated
  <2>1. Turned(kern, t, p, "none")
    BY <1>5, <1>6, <1>7, ExitLive
  <2>2. Kept(kern) => Kept(t)
    BY <1>6, <2>1, KeptTurned
  <2>3. \A q \in Procs : t.proc[q].live => s.proc[q].live /\ t.proc[q].at = s.proc[q].at
    BY <1>6, <2>1 DEF Turned, SameAt
  <2> QED
    BY <1>6, <2>2, <2>3 DEF t
<1>8. CASE ~ ended /\ ~ s.proc[p].isolated
  <2>1. t = kern
    BY <1>5, <1>8
  <2> QED
    BY <1>6, <2>1 DEF t, SameAt
<1>9. CASE ended
  <2> DEFINE f == Free(kern, p)
             g == Free(f, p)
  <2>1. SameOwners(kern, f) /\ SameAt(kern, f)
    BY <1>6, FreeOwners, FreeAt
  <2>2. IsMem(f)
    BY <2>1 DEF SameOwners, SameHeaps
  <2>3. t = Reap(g, p)
    BY <1>5, <1>9
  <2> HIDE DEF f
  <2>4. SameOwners(f, g) /\ SameAt(f, g)
    BY <2>2, FreeOwners, FreeAt
  <2> HIDE DEF g
  <2>5. OwnerInv(g) /\ g.proc[p].live /\ (Kept(kern) => Kept(g))
    <3>1. OwnerInv(f) /\ (Kept(kern) => Kept(f))
      BY <1>6, <2>1, OwnerInvSame, KeptSame DEF SameOwners
    <3>2. OwnerInv(g) /\ (Kept(f) => Kept(g))
      BY <3>1, <2>4, OwnerInvSame, KeptSame DEF SameOwners
    <3> QED
      BY <1>6, <2>1, <2>4, <3>1, <3>2 DEF SameOwners, SameHeaps
  <2>6. Reaped(g, t, p)
    BY <2>3, <2>5, ReapResult
  <2>7. Kept(g) => Kept(t)
    BY <2>5, <2>6, KeptReaped
  <2>8. \A q \in Procs : g.proc[q].live = s.proc[q].live /\ g.proc[q].at = s.proc[q].at
    BY <1>6, <2>1, <2>4 DEF SameOwners, SameHeaps, SameAt
  <2>9. \A q \in Procs : t.proc[q].live => s.proc[q].live /\ t.proc[q].at = s.proc[q].at
    BY <2>6, <2>8 DEF Reaped
  <2> QED
    BY <1>6, <2>5, <2>7, <2>9 DEF t
<1> QED
  BY <1>7, <1>8, <1>9

----------------------------------------------------------------------------
(* The invariant is inductive *)

\* The listener has a slot.
LEMMA ListenerSlot == Listener \in Procs
BY MemoryAssumption DEF Listener, Procs

\* A list of all numbers from 1.
LEMMA ListedAll ==
  ASSUME NEW n \in Nat
  PROVE  LET q == [i \in 1 .. n |-> i]
         IN q \in Seq(1 .. n) /\ Listed(q) = 1 .. n /\ Distinct(q)
BY DEF Listed, Distinct

\* The server starts with the listener alone, nothing lost and all heaps but
\* the listener's and the kernel's masked.
LEMMA InitIInv == Init => IInv
<1> SUFFICES ASSUME Init PROVE IInv
  OBVIOUS
<1> USE ListenerSlot
<1> DEFINE L  == Count + 1
           fp == [i \in 1 .. ProcMax - 1 |-> i]
           fe == [i \in 1 .. Count |-> i]
           pr == [r \in Regions |-> CASE r = Kern -> "rw" [] r \in Entries -> "none"
                                       [] OTHER -> "unmapped"]
<1>1. PICK hd \in {"none", "rw"} :
        LET empty == [free_procs |-> fp, free_entries |-> fe, proc |-> [p \in Procs |-> Cleared],
                      prot |-> pr, kern_hd |-> hd, window |-> FALSE, block |-> FALSE]
            mapped == Private(empty, Listener, L, PageSize * ListenerPages)
            ready  == CopyArg(Thread(mapped, Listener), Listener, ServiceLen)
        IN m = [ready EXCEPT !.proc[Listener].privileged = TRUE,
                             !.proc[Listener].isolated = service.isolated,
                             !.proc[Listener].live = TRUE]
  BY DEF Init
<1> DEFINE e == [free_procs |-> fp, free_entries |-> fe, proc |-> [p \in Procs |-> Cleared],
                 prot |-> pr, kern_hd |-> hd, window |-> FALSE, block |-> FALSE]
           st == NewStack(PageSize * ListenerPages)
           y  == [e EXCEPT !.prot[L] = "rw", !.proc[Listener].region = L,
                           !.proc[Listener].prot = "rw", !.proc[Listener].stack = st]
           a  == Alloc(y, Listener, LocalLen)
           b  == Alloc(a, Listener, ThreadLen)
           c  == Alloc(b, Listener, SocketLen)
           d  == [c EXCEPT !.proc[Listener].self = c.proc[Listener].stack.cursor]
           f  == CopyArg(d, Listener, ServiceLen)
<1>27. m = [CopyArg(Thread(a, Listener), Listener, ServiceLen)
             EXCEPT !.proc[Listener].privileged = TRUE,
                    !.proc[Listener].isolated = service.isolated,
                    !.proc[Listener].live = TRUE]
  BY <1>1 DEF Private
<1>2. L \in Maps /\ L \in Regions \ {Kern} /\ Null \notin Regions
  BY MemoryAssumption, RegionsApart DEF Maps
<1>3. /\ fp \in Seq(1 .. ProcMax - 1) /\ Listed(fp) = 1 .. ProcMax - 1 /\ Distinct(fp)
      /\ fe \in Seq(Entries) /\ Listed(fe) = Entries /\ Distinct(fe)
  BY MemoryAssumption, ListedAll DEF Entries
<1>4. 1 .. ProcMax - 1 = Procs \ {Listener}
  BY MemoryAssumption DEF Procs, Listener
<1>5. fp \in Seq(Procs) /\ Listed(fp) = Procs \ {Listener}
  <2>1. \A i \in 1 .. ProcMax - 1 : fp[i] \in Procs
    BY <1>4
  <2>2. fp \in Seq(Procs)
    BY <2>1, MemoryAssumption
  <2> QED
    BY <1>3, <1>4, <2>2
<1>6. /\ pr \in [Regions -> {"none", "rw", "unmapped"}] /\ pr[Kern] = "rw"
      /\ \A r \in Entries : pr[r] = "none"
      /\ \A r \in Maps : pr[r] = "unmapped"
  BY RegionsApart
<1> HIDE DEF fp, fe, pr, st, L
<1>7. IsProc(Cleared) /\ ~ Cleared.live /\ Cleared.entry = Null /\ Cleared.region = Null
      /\ Cleared.at = "begin"
  BY ClearedType DEF Cleared
<1>8. /\ IsMem(e) /\ e.free_procs = fp /\ e.free_entries = fe /\ e.prot = pr
      /\ e.kern_hd = hd /\ ~ e.window /\ ~ e.block
      /\ \A p \in Procs : e.proc[p] = Cleared
  BY <1>3, <1>5, <1>6, <1>7 DEF IsMem
<1> HIDE DEF e
<1>9. /\ y.free_procs = fp /\ y.free_entries = fe
      /\ y.kern_hd = hd /\ ~ y.window /\ ~ y.block
      /\ y.prot = [pr EXCEPT ![L] = "rw"]
      /\ \A p \in Procs \ {Listener} : y.proc[p] = Cleared
  BY <1>8 DEF IsMem
<1>10. /\ y.proc[Listener].region = L /\ y.proc[Listener].prot = "rw"
       /\ y.proc[Listener].entry = Null
  BY <1>7, <1>8 DEF IsMem, IsProc
<1>11. IsMem(y)
  <2>1. DOMAIN y = DOMAIN e /\ DOMAIN y.proc = Procs /\ y.kern_hd = e.kern_hd
        /\ y.window = e.window /\ y.block = e.block
    BY <1>8 DEF IsMem
  <2>2. /\ DOMAIN y.proc[Listener] = DOMAIN e.proc[Listener]
        /\ y.proc[Listener].privileged = e.proc[Listener].privileged
        /\ y.proc[Listener].isolated = e.proc[Listener].isolated
        /\ y.proc[Listener].live = e.proc[Listener].live
    BY <1>8 DEF IsMem, IsProc
  <2> HIDE DEF y
  <2>3. IsProc(y.proc[Listener])
    BY <1>2, <1>7, <1>8, <1>10, <2>2 DEF IsProc
  <2> QED
    BY <1>2, <1>3, <1>5, <1>6, <1>7, <1>8, <1>9, <2>1, <2>3 DEF IsMem
<1> HIDE DEF y
<1>12. SameOwners(y, a) /\ IsMem(a)
  BY <1>11, AllocOwners DEF SameOwners, SameHeaps
<1>13. Thread(a, Listener) = d
  <2>1. a.proc[Listener].prot = "rw"
    BY <1>10, <1>12 DEF SameOwners, SameHeaps
  <2>2. Enter(a, Listener) = a
    BY <2>1 DEF Enter
  <2> QED
    BY <2>2 DEF Thread
<1>14. m = [f EXCEPT !.proc[Listener].privileged = TRUE,
                     !.proc[Listener].isolated = service.isolated,
                     !.proc[Listener].live = TRUE]
  BY <1>13, <1>27
<1> HIDE DEF a
<1>15. SameOwners(a, b) /\ IsMem(b)
  BY <1>12, AllocOwners DEF SameOwners, SameHeaps
<1> HIDE DEF b
<1>16. SameOwners(b, c) /\ IsMem(c)
  BY <1>15, AllocOwners DEF SameOwners, SameHeaps
<1> HIDE DEF c
<1>17. SameOwners(c, d) /\ IsMem(d)
  <2>1. SameOwners(c, d)
    BY <1>16, SelfOwners
  <2> QED
    BY <2>1 DEF SameOwners, SameHeaps
<1> HIDE DEF d
<1>18. SameOwners(d, f) /\ IsMem(f)
  BY <1>17, CopyArgOwners DEF SameOwners, SameHeaps
<1> HIDE DEF f
<1>19. SameOwners(y, f)
  BY <1>12, <1>15, <1>16, <1>17, <1>18, SameOwnersTransitive
<1>20. service \in Flags /\ service.isolated \in BOOLEAN /\ mode = "loop" /\ who = Listener
  BY DEF Init, Flags
<1>21. /\ IsMem(m) /\ m.free_procs = f.free_procs /\ m.free_entries = f.free_entries
       /\ m.prot = f.prot /\ m.kern_hd = f.kern_hd
       /\ m.window = f.window /\ m.block = f.block
       /\ \A p \in Procs \ {Listener} : m.proc[p] = f.proc[p]
  <2>1. IsMem(m)
    <3>1. /\ DOMAIN m = DOMAIN f /\ DOMAIN m.proc = Procs /\ m.free_procs = f.free_procs
          /\ m.free_entries = f.free_entries /\ m.prot = f.prot /\ m.kern_hd = f.kern_hd
          /\ m.window = f.window /\ m.block = f.block
          /\ \A p \in Procs \ {Listener} : m.proc[p] = f.proc[p]
      BY <1>14, <1>18 DEF IsMem
    <3>2. /\ DOMAIN m.proc[Listener] = DOMAIN f.proc[Listener]
          /\ m.proc[Listener].region = f.proc[Listener].region
          /\ m.proc[Listener].prot = f.proc[Listener].prot
          /\ m.proc[Listener].entry = f.proc[Listener].entry
          /\ m.proc[Listener].privileged = TRUE /\ m.proc[Listener].live = TRUE
          /\ m.proc[Listener].isolated = service.isolated
      BY <1>14, <1>18 DEF IsMem, IsProc
    <3>3. IsProc(f.proc[Listener])
      BY <1>18 DEF IsMem
    <3>4. IsProc(m.proc[Listener])
      BY <1>20, <3>2, <3>3 DEF IsProc
    <3> QED
      BY <1>18, <3>1, <3>4 DEF IsMem
  <2> QED
    BY <1>14, <1>18, <2>1 DEF IsMem
<1>22. /\ m.proc[Listener].region = L /\ m.proc[Listener].prot = "rw"
       /\ m.proc[Listener].entry = Null /\ m.proc[Listener].live
  <2>1. /\ m.proc[Listener].region = f.proc[Listener].region
        /\ m.proc[Listener].prot = f.proc[Listener].prot
        /\ m.proc[Listener].entry = f.proc[Listener].entry /\ m.proc[Listener].live
    BY <1>14, <1>18 DEF IsMem, IsProc
  <2> QED
    BY <1>10, <1>19, <2>1 DEF SameOwners, SameHeaps
<1>23. /\ m.free_procs = fp /\ m.free_entries = fe /\ m.prot[Kern] = "rw"
       /\ ~ m.window /\ ~ m.block
       /\ \A r \in Entries : m.prot[r] = "none"
       /\ m.prot[L] = "rw" /\ \A r \in Maps \ {L} : m.prot[r] = "unmapped"
       /\ \A p \in Procs \ {Listener} : ~ m.proc[p].live /\ m.proc[p].entry = Null
  <2>1. \A r \in Regions : m.prot[r] = IF r = L THEN "rw" ELSE pr[r]
    <3>1. \A r \in Regions : m.prot[r] = y.prot[r]
      BY <1>19, <1>21 DEF SameOwners, SameHeaps, SameKern
    <3> QED
      BY <1>2, <1>6, <1>9, <3>1
  <2>2. \A p \in Procs \ {Listener} : ~ m.proc[p].live /\ m.proc[p].entry = Null
    BY <1>7, <1>9, <1>19, <1>21 DEF SameOwners, SameHeaps
  <2>3. m.free_procs = fp /\ m.free_entries = fe /\ ~ m.window /\ ~ m.block
    BY <1>9, <1>19, <1>21 DEF SameOwners, SameHeaps, SameKern
  <2> QED
    BY <1>2, <1>6, <2>1, <2>2, <2>3, RegionsApart
<1>24. OwnerInv(m)
  <2>1. Sound(m, Listener)
    BY <1>2, <1>3, <1>22, <1>23, RegionsApart DEF Sound
  <2> QED
    BY <1>3, <1>5, <1>21, <1>23, <2>1 DEF OwnerInv
<1>25. KernInv(m) /\ ModeInv(m, mode, who)
  BY <1>20, <1>22, <1>23 DEF KernInv, ModeInv, Masked, Idle
<1>26. Kept(m)
  BY <1>3, <1>5, <1>22, <1>23 DEF Kept
<1> QED
  BY <1>20, <1>24, <1>25, <1>26 DEF IInv

\* A connection is accepted, or the listener ends.
LEMMA AcceptIInv == IInv /\ Accept => IInv'
<1> SUFFICES ASSUME IInv, Accept PROVE IInv'
  OBVIOUS
<1> USE ListenerSlot
<1>1. mode = "user" /\ who = Listener /\ m.proc[Listener].at = "listen"
  BY DEF Accept, Running
<1>2. /\ OwnerInv(m) /\ KernInv(m) /\ ModeInv(m, "user", Listener) /\ service \in Flags
      /\ IsMem(m) /\ m.proc[Listener].live
  BY <1>1 DEF IInv, OwnerInv, ModeInv
<1>3. Kept(m)
  BY <1>1, <1>2 DEF IInv, Listens
<1>4. service' = service /\ mode' = "user" /\ who' = Listener
  BY <1>1 DEF Accept, Stays
<1>5. CASE m' = Goto(m, Listener, "end")
  <2>1. SameOwners(m, m') /\ m'.proc[Listener].at = "end"
    BY <1>2, <1>5, GotoOwners
  <2>2. OwnerInv(m') /\ KernInv(m') /\ ModeInv(m', "user", Listener)
    BY <1>2, <2>1, InvSame
  <2> QED
    BY <1>2, <1>4, <2>1, <2>2 DEF IInv, Listens
<1>6. CASE m.free_procs # << >>
        /\ m' = Goto([m EXCEPT !.free_procs = Tail(@)], Listener, "end")
  <2> DEFINE x == [m EXCEPT !.free_procs = Tail(@)]
  <2>1. m.free_procs \in Seq(Procs) /\ Distinct(m.free_procs)
    BY <1>2 DEF OwnerInv, IsMem
  <2>2. /\ Tail(m.free_procs) \in Seq(Procs) /\ Distinct(Tail(m.free_procs))
        /\ Listed(Tail(m.free_procs)) \subseteq Listed(m.free_procs)
    BY <1>6, <2>1, ListedTail
  <2>3. /\ IsMem(x) /\ x.free_procs = Tail(m.free_procs) /\ x.free_entries = m.free_entries
        /\ x.prot = m.prot /\ x.proc = m.proc /\ SameKern(m, x)
    BY <1>2, <2>2 DEF IsMem, SameKern
  <2>4. m' = Goto(x, Listener, "end")
    BY <1>6
  <2> HIDE DEF x
  <2>5. OwnerInv(x)
    BY <1>2, <2>2, <2>3 DEF OwnerInv, Sound
  <2>6. KernInv(x) /\ ModeInv(x, "user", Listener)
    BY <1>2, <2>3 DEF KernInv, ModeInv, Masked, SameKern
  <2>7. SameOwners(x, m') /\ m'.proc[Listener].at = "end"
    BY <2>3, <2>4, GotoOwners
  <2>8. OwnerInv(m') /\ KernInv(m') /\ ModeInv(m', "user", Listener)
    BY <2>5, <2>6, <2>7, InvSame
  <2> QED
    BY <1>2, <1>4, <2>7, <2>8 DEF IInv, Listens
<1>7. ASSUME m.free_procs # << >>,
             NEW h \in Heaps([m EXCEPT !.free_procs = Tail(@)], Head(m.free_procs)),
             m' = SetUp(h, Head(m.free_procs))
      PROVE  IInv'
  <2> DEFINE p == Head(m.free_procs)
  <2>1. m.free_procs \in Seq(Procs)
    BY <1>2 DEF IsMem
  <2>2. p \in Procs /\ p \in Listed(m.free_procs)
    BY <1>7, <2>1, ListedTail
  <2>3. p # Listener
    BY <1>2, <2>2 DEF OwnerInv
  <2>4. h \in Heaps([m EXCEPT !.free_procs = Tail(@)], p) /\ p = Head(m.free_procs)
        /\ m' = SetUp(h, p)
    BY <1>7
  <2> HIDE DEF p
  <2>5. PICK r : Taken(m, h, p, r) /\ h.proc[p].prot = "rw" /\ ~ h.proc[p].live
    BY <1>2, <1>7, <2>2, <2>4, HeapTaken
  <2>6. PICK u : /\ Taken(m, u, p, r) /\ OwnerInv(u)
                 /\ \/ ~ u.proc[p].live /\ SameOwners(u, m') /\ m'.proc[Listener].at = "end"
                    \/ u.proc[p].live /\ Turned(u, m', p, "none")
    BY <1>2, <1>7, <2>2, <2>4, <2>5, SetUpResult
  <2>7. SameKern(m, u)
    BY <2>6 DEF Taken
  <2>8. KernInv(u)
    BY <1>2, <2>7 DEF KernInv, SameKern
  <2>9. /\ u.proc[Listener].live /\ u.proc[Listener].prot = m.proc[Listener].prot
        /\ u.proc[Listener].privileged = m.proc[Listener].privileged
        /\ \A q \in Procs \ {p, Listener} :
             u.proc[q].live /\ u.proc[q].isolated => u.proc[q].prot = "none"
    BY <1>2, <2>3, <2>6 DEF Taken, ModeInv, Masked
  <2>10. CASE ~ u.proc[p].live /\ SameOwners(u, m') /\ m'.proc[Listener].at = "end"
    <3>1. Masked(u, Listener)
      BY <2>9, <2>10 DEF Masked
    <3>2. ModeInv(u, "user", Listener)
      BY <1>2, <2>7, <2>9, <3>1 DEF ModeInv, SameKern
    <3>3. OwnerInv(m') /\ KernInv(m') /\ ModeInv(m', "user", Listener)
      BY <2>6, <2>8, <2>10, <3>2, InvSame
    <3> QED
      BY <1>2, <1>4, <2>10, <3>3 DEF IInv, Listens
  <2>11. CASE u.proc[p].live /\ Turned(u, m', p, "none")
    <3>1. OwnerInv(m') /\ SameKern(u, m')
      BY <2>2, <2>6, <2>11, TurnedOwners
    <3>2. Masked(m', Listener)
      BY <2>9, <2>11 DEF Masked, Turned
    <3>3. KernInv(m')
      BY <2>8, <3>1 DEF KernInv, SameKern
    <3>4. /\ m'.proc[Listener].live /\ m'.proc[Listener].prot = m.proc[Listener].prot
          /\ m'.proc[Listener].privileged = m.proc[Listener].privileged
      BY <2>3, <2>9, <2>11 DEF Turned
    <3>5. ModeInv(m', "user", Listener)
      BY <1>2, <2>7, <3>1, <3>2, <3>4 DEF ModeInv, SameKern
    <3>6. Kept(u)
      BY <1>2, <1>3, <1>7, <2>2, <2>4, <2>6, <2>11, KeptTaken
    <3>7. Kept(m')
      BY <2>2, <2>11, <3>6, KeptTurned
    <3> QED
      BY <1>2, <1>4, <3>1, <3>3, <3>5, <3>7 DEF IInv
  <2> QED
    BY <2>6, <2>10, <2>11
<1> QED
  BY <1>5, <1>6, <1>7 DEF Accept

\* A step of a coroutine on its own stack.
LEMMA CoroutineIInv ==
  ASSUME IInv, mode = "user", SameOwners(m, m'), UNCHANGED << service, mode, who >>,
         Listens(m') => Listens(m)
  PROVE  IInv'
<1>1. OwnerInv(m') /\ KernInv(m') /\ ModeInv(m', mode', who')
  BY InvSame DEF IInv
<1>2. Kept(m) => Kept(m')
  BY KeptSame DEF SameOwners
<1> QED
  BY <1>1, <1>2 DEF IInv

\* Every step keeps the invariant.
LEMMA NextIInv == IInv /\ [Next]_vars => IInv'
<1> SUFFICES ASSUME IInv, [Next]_vars PROVE IInv'
  OBVIOUS
<1> USE ListenerSlot
<1>1. /\ service \in Flags /\ OwnerInv(m) /\ KernInv(m) /\ ModeInv(m, mode, who)
      /\ IsMem(m) /\ who \in Procs
  BY DEF IInv, OwnerInv, ModeInv
<1>2. CASE Fault
  <2>1. mode = "user" /\ m' = Jumper(m, who) /\ mode' = "jumper" /\ service' = service /\ who' = who
    BY <1>2 DEF Fault
  <2>2. OwnerInv(m') /\ KernInv(m') /\ ModeInv(m', "jumper", who)
    BY <1>1, <2>1, JumperInv
  <2>3. Listens(m') => Listens(m) /\ (Kept(m) => Kept(m'))
    <3> DEFINE a == KernEnter(m)
               b == OpenGate(a)
               c == Enter(b, who)
    <3>1. SameHeaps(m, a) /\ SameAt(m, a)
      BY <1>1, KernEnterOpens DEF SameAt
    <3>2. IsMem(a)
      BY <3>1 DEF SameHeaps
    <3>3. SameHeaps(a, b) /\ SameAt(a, b)
      BY <3>2, OpenGateOpens DEF SameAt
    <3>4. m' = [c EXCEPT !.proc[who].at = "end"]
      BY <2>1 DEF Jumper
    <3> HIDE DEF a
    <3>5. OwnerInv(b) /\ b.proc[who].live /\ (Kept(m) => Kept(b))
      <4>1. OwnerInv(a) /\ (Kept(m) => Kept(a))
        BY <1>1, <3>1, OwnerInvSame, KeptSame
      <4>2. OwnerInv(b) /\ (Kept(a) => Kept(b))
        BY <4>1, <3>3, OwnerInvSame, KeptSame
      <4> QED
        BY <1>1, <2>1, <3>1, <3>3, <4>1, <4>2 DEF SameHeaps, ModeInv
    <3> HIDE DEF b
    <3>6. Turned(b, c, who, "rw") /\ IsMem(c)
      BY <1>1, <3>5, EnterLive DEF OwnerInv
    <3>7. Kept(b) => Kept(c)
      BY <1>1, <3>5, <3>6, KeptTurned
    <3> HIDE DEF c
    <3>8. SameOwners(c, m') /\ m'.proc[who].at = "end"
      BY <1>1, <3>4, <3>6, GotoOwners DEF Goto
    <3>9. Kept(c) => Kept(m')
      BY <3>8, KeptSame DEF SameOwners
    <3>10. who # Listener => m'.proc[Listener].at = c.proc[Listener].at
      BY <1>1, <3>4, <3>6 DEF IsMem
    <3>11. Listens(m') => Listens(m)
      BY <3>1, <3>3, <3>6, <3>8, <3>10 DEF Listens, SameHeaps, SameAt, Turned, SameOwners
    <3> QED
      BY <3>5, <3>7, <3>9, <3>11
  <2> QED
    BY <1>1, <2>1, <2>2, <2>3 DEF IInv
<1>3. CASE Reexecute
  <2>1. mode = "jumper" /\ m' = Execute(m, who) /\ mode' = "user" /\ service' = service /\ who' = who
    BY <1>3 DEF Reexecute
  <2>2. m.proc[who].live /\ m.prot[Kern] = "rw" /\ Masked(m, who)
    BY <1>1, <2>1 DEF ModeInv
  <2>3. OwnerInv(m') /\ KernInv(m') /\ ModeInv(m', "user", who)
    BY <1>1, <2>1, <2>2, ExecuteInv
  <2>4. /\ Kept(m) => Kept(m')
        /\ SameAt(m, m') /\ \A q \in Procs : m'.proc[q].live = m.proc[q].live
    BY <1>1, <2>1, <2>2, ExecuteKept
  <2> QED
    BY <1>1, <2>1, <2>3, <2>4 DEF IInv, Listens, SameAt
<1>4. CASE Trap
  <2>1. mode = "user" /\ m' = OpenGate(m) /\ UNCHANGED << service, mode, who >>
    BY <1>4 DEF Trap
  <2>2. /\ SameHeaps(m, m') /\ m'.prot[Kern] = m.prot[Kern] /\ m'.kern_hd = m.kern_hd
        /\ SameAt(m, m')
    BY <1>1, <2>1, OpenGateOpens DEF SameAt
  <2>3. OwnerInv(m') /\ KernInv(m') /\ Masked(m', who)
    BY <1>1, <2>2, OwnerInvSame, MaskedSame DEF KernInv, ModeInv
  <2>4. ModeInv(m', "user", who)
    BY <1>1, <2>1, <2>2, <2>3 DEF ModeInv, SameHeaps
  <2>5. Kept(m) => Kept(m')
    BY <2>2, KeptSame
  <2> QED
    BY <1>1, <2>1, <2>2, <2>3, <2>4, <2>5 DEF IInv, Listens, SameAt, SameHeaps
<1>5. CASE Dump
  <2>1. /\ mode = "loop" /\ UNCHANGED << service, mode, who >>
        /\ m' = [m EXCEPT !.prot = [r \in Regions |->
                   IF \E p \in Procs : m.proc[p].live /\ m.proc[p].prot # "rw" /\ m.proc[p].region = r
                   THEN "none" ELSE m.prot[r]]]
    BY <1>5 DEF Dump
  <2>2. \A p \in Procs :
          m.proc[p].live /\ m.proc[p].prot # "rw" => m.prot[m.proc[p].region] = "none"
    BY <1>1 DEF OwnerInv, Sound, IsMem, IsProc
  <2>3. \A r \in Regions : m'.prot[r] = m.prot[r]
    BY <1>1, <2>1, <2>2 DEF IsMem
  <2>4. /\ m'.free_procs = m.free_procs /\ m'.free_entries = m.free_entries /\ m'.proc = m.proc
        /\ m'.kern_hd = m.kern_hd /\ m'.window = m.window /\ m'.block = m.block
        /\ DOMAIN m' = DOMAIN m
        /\ m'.prot \in [Regions -> {"none", "rw", "unmapped"}]
    BY <1>1, <2>1 DEF IsMem
  <2>5. SameOwners(m, m') /\ SameAt(m, m')
    <3>1. IsMem(m')
      BY <1>1, <2>4 DEF IsMem
    <3> QED
      BY <2>3, <2>4, <3>1, RegionsApart DEF SameOwners, SameHeaps, SameKern, SameAt
  <2>6. OwnerInv(m') /\ KernInv(m') /\ ModeInv(m', mode', who')
    BY <1>1, <2>1, <2>5, InvSame
  <2>7. Kept(m) => Kept(m')
    BY <2>5, KeptSame DEF SameOwners
  <2> QED
    BY <1>1, <2>1, <2>4, <2>6, <2>7 DEF IInv, Listens
<1>6. CASE Accept
  BY <1>6, AcceptIInv
<1>7. ASSUME NEW p \in Procs, Dispatch(p) PROVE IInv'
  <2> DEFINE s == Enter(m, p)
  <2>1. /\ mode = "loop" /\ m.proc[p].live /\ m' = Execute(s, p)
        /\ mode' = "user" /\ who' = p /\ service' = service
    BY <1>7 DEF Dispatch
  <2>2. Turned(m, s, p, "rw") /\ OwnerInv(s) /\ SameKern(m, s)
    BY <1>1, <2>1, EnterLive
  <2>3. Masked(m, p)
    BY <1>1, <2>1 DEF ModeInv, Masked, Idle
  <2> HIDE DEF s
  <2>4. s.proc[p].live /\ s.prot[Kern] = "rw" /\ Masked(s, p) /\ KernInv(s)
    BY <1>1, <2>1, <2>2, <2>3 DEF Turned, Masked, SameKern, KernInv, ModeInv
  <2>5. OwnerInv(m') /\ KernInv(m') /\ ModeInv(m', "user", p)
    BY <1>1, <2>1, <2>2, <2>4, ExecuteInv
  <2>6. /\ Kept(s) => Kept(m')
        /\ SameAt(s, m') /\ \A q \in Procs : m'.proc[q].live = s.proc[q].live
    BY <1>1, <2>1, <2>2, <2>4, ExecuteKept
  <2>7. Kept(m) => Kept(s)
    BY <2>1, <2>2, KeptTurned
  <2>8. Listens(m') => Listens(m)
    BY <2>2, <2>6 DEF Listens, SameAt, Turned
  <2> QED
    BY <1>1, <2>1, <2>5, <2>6, <2>7, <2>8 DEF IInv
<1>8. ASSUME NEW p \in Procs, Begin(p) PROVE IInv'
  <2>1. /\ mode = "user" /\ who = p /\ m.proc[p].at = "begin" /\ UNCHANGED << service, mode, who >>
    BY <1>8 DEF Begin, Running, Stays
  <2>2. m.proc[p].live
    BY <1>1, <2>1 DEF ModeInv
  <2>3. SameOwners(m, m') /\ \A q \in Procs \ {p} : m'.proc[q].at = m.proc[q].at
    <3>1. CASE CanAlloc(m, p, SelfLen(p))
      <4> DEFINE s == Alloc(m, p, SelfLen(p))
                 l == IF p = Listener THEN "listen" ELSE "top"
      <4>1. m' = [s EXCEPT !.proc[p].self = m.proc[p].stack.cursor, !.proc[p].at = l]
        BY <1>8, <3>1 DEF Begin
      <4>2. SameOwners(m, s) /\ IsMem(s)
        BY <1>1, AllocOwners DEF SameOwners, SameHeaps
      <4>3. \A q \in Procs \ {p} : s.proc[q].at = m.proc[q].at
        BY <1>1 DEF Alloc, IsMem, IsProc
      <4> HIDE DEF s, l
      <4>4. SameOwners(s, m') /\ \A q \in Procs \ {p} : m'.proc[q].at = s.proc[q].at
        <5> DEFINE a == m.proc[p].stack.cursor
        <5> HIDE DEF a
        <5>1. IsMem(s) /\ m' = [s EXCEPT !.proc[p].self = a, !.proc[p].at = l]
          BY <4>1, <4>2 DEF a
        <5> QED
          BY <5>1 DEF IsMem, IsProc, SameOwners, SameHeaps, SameKern
      <4> QED
        BY <4>2, <4>3, <4>4, SameOwnersTransitive
    <3>2. CASE ~ CanAlloc(m, p, SelfLen(p))
      <4>1. m' = Goto(m, p, "end")
        BY <1>8, <3>2 DEF Begin
      <4> QED
        BY <1>1, <4>1, GotoOwners, GotoOthers
    <3> QED
      BY <3>1, <3>2
  <2>4. Listens(m') => Listens(m)
    BY <2>1, <2>2, <2>3 DEF Listens, SameOwners, SameHeaps
  <2> QED
    BY <2>1, <2>3, <2>4, CoroutineIInv
<1>9. ASSUME NEW p \in Procs, EchoCalloc(p) PROVE IInv'
  <2>1. /\ mode = "user" /\ who = p /\ m.proc[p].at = "top" /\ UNCHANGED << service, mode, who >>
    BY <1>9 DEF EchoCalloc, Running, Stays
  <2>2. m.proc[p].live
    BY <1>1, <2>1 DEF ModeInv
  <2>3. SameOwners(m, m') /\ \A q \in Procs \ {p} : m'.proc[q].at = m.proc[q].at
    <3> DEFINE s == Alloc(m, p, BufLen)
    <3>1. SameOwners(m, s) /\ IsMem(s)
      BY <1>1, AllocOwners DEF SameOwners, SameHeaps
    <3>2. \A q \in Procs \ {p} : s.proc[q].at = m.proc[q].at
      BY <1>1 DEF Alloc, IsMem, IsProc
    <3>3. m' = Goto(s, p, "line") \/ m' = Goto(m, p, "end")
      BY <1>9 DEF EchoCalloc
    <3> HIDE DEF s
    <3>4. /\ SameOwners(s, Goto(s, p, "line")) /\ SameOwners(m, Goto(m, p, "end"))
          /\ \A q \in Procs \ {p} : /\ Goto(s, p, "line").proc[q].at = s.proc[q].at
                                   /\ Goto(m, p, "end").proc[q].at = m.proc[q].at
      BY <1>1, <3>1, GotoOwners, GotoOthers
    <3> QED
      BY <3>1, <3>2, <3>3, <3>4, SameOwnersTransitive
  <2>4. Listens(m') => Listens(m)
    BY <2>1, <2>2, <2>3 DEF Listens, SameOwners, SameHeaps
  <2> QED
    BY <2>1, <2>3, <2>4, CoroutineIInv
<1>10. ASSUME NEW p \in Procs, EchoLine(p) PROVE IInv'
  <2>1. /\ mode = "user" /\ who = p /\ m.proc[p].at = "line" /\ UNCHANGED << service, mode, who >>
    BY <1>10 DEF EchoLine, Running, Stays
  <2>2. m.proc[p].live
    BY <1>1, <2>1 DEF ModeInv
  <2>3. SameOwners(m, m') /\ \A q \in Procs \ {p} : m'.proc[q].at = m.proc[q].at
    <3> DEFINE x == Store(m.proc[p].stack, m.proc[p].blocks[Len(m.proc[p].blocks)].addr, BufLen)
               s == [m EXCEPT !.proc[p].stack = x]
               f == Free(s, p)
    <3>1. PICK l \in {"top", "end"} : m' = Goto(f, p, l)
      BY <1>10 DEF EchoLine
    <3> HIDE DEF x
    <3>2. SameOwners(m, s) /\ IsMem(s)
      BY <1>1, StoreOwners DEF SameOwners, SameHeaps
    <3>3. \A q \in Procs \ {p} : s.proc[q].at = m.proc[q].at
      BY <1>1 DEF IsMem, IsProc
    <3> HIDE DEF s
    <3>4. SameOwners(s, f) /\ SameAt(s, f)
      BY <3>2, FreeOwners, FreeAt
    <3>5. IsMem(f)
      BY <3>4 DEF SameOwners, SameHeaps
    <3> HIDE DEF f
    <3>6. SameOwners(f, m') /\ \A q \in Procs \ {p} : m'.proc[q].at = f.proc[q].at
      BY <3>1, <3>5, GotoOwners, GotoOthers
    <3>7. SameOwners(m, m')
      BY <3>2, <3>4, <3>6, SameOwnersTransitive
    <3> QED
      BY <3>3, <3>4, <3>6, <3>7 DEF SameAt
  <2>4. Listens(m') => Listens(m)
    BY <2>1, <2>2, <2>3 DEF Listens, SameOwners, SameHeaps
  <2> QED
    BY <2>1, <2>3, <2>4, CoroutineIInv
<1>11. ASSUME NEW p \in Procs, Return(p) PROVE IInv'
  <2>1. /\ mode = "user" /\ who = p /\ mode' = "loop" /\ service' = service /\ who' = who
    BY <1>11 DEF Return
  <2>2. PICK ended \in BOOLEAN : m' = Leave(m, p, ended)
    BY <1>11 DEF Return
  <2>3. m.proc[p].live
    BY <1>1, <2>1 DEF ModeInv
  <2>4. OwnerInv(m') /\ KernInv(m') /\ ModeInv(m', "loop", p)
    BY <1>1, <2>1, <2>2, LeaveInv
  <2>5. /\ Kept(m) => Kept(m')
        /\ \A q \in Procs : m'.proc[q].live => m.proc[q].live /\ m'.proc[q].at = m.proc[q].at
    BY <1>1, <2>2, <2>3, LeaveKept
  <2> QED
    BY <1>1, <2>1, <2>4, <2>5 DEF IInv, Listens
<1>12. CASE UNCHANGED vars
  BY <1>12 DEF vars, IInv
<1> QED
  BY <1>2, <1>3, <1>4, <1>5, <1>6, <1>7, <1>8, <1>9, <1>10, <1>11, <1>12 DEF Next

----------------------------------------------------------------------------
(* Theorems *)

\* The invariant holds throughout.
LEMMA Invariance == Spec => []IInv
BY InitIInv, NextIInv, PTL DEF Spec

\* No memory ever has two owners: no slot or heap is listed twice, the slot of
\* a live process is not listed, and its heap is neither free nor the
\* kernel's nor another's, for any numbers of slots, pool heaps and mappings.
THEOREM OneOwnerHolds == Spec => []OneOwner
<1>1. IInv => OneOwner
  <2> SUFFICES ASSUME IInv PROVE OneOwner
    OBVIOUS
  <2>1. OwnerInv(m)
    BY DEF IInv
  <2>2. \A p \in Live : m.proc[p].region \notin Listed(m.free_entries) \cup {Kern}
    BY <2>1, RegionsApart DEF Live, OwnerInv, Sound
  <2> QED
    BY <2>1, <2>2 DEF OneOwner, OwnerInv, Live
<1> QED
  BY <1>1, Invariance, PTL

\* While the listener listens, nothing it set up is ever lost: slots, pool
\* heaps and mappings are listed or in use.
THEOREM NothingLostHolds == Spec => []NothingLost
<1>1. IInv => NothingLost
  <2> SUFFICES ASSUME IInv, m.proc[Listener].live /\ m.proc[Listener].at # "end"
               PROVE  /\ Procs = Live \cup Listed(m.free_procs)
                      /\ LET used == {m.proc[p].region : p \in Live}
                         IN /\ Entries \subseteq used \cup Listed(m.free_entries)
                            /\ \A r \in Maps : m.prot[r] # "unmapped" => r \in used
    BY DEF NothingLost
  <2>1. Kept(m) /\ IsMem(m)
    BY DEF IInv, Listens, OwnerInv
  <2>2. Procs = Live \cup Listed(m.free_procs)
    BY <2>1, ListedTypes DEF Kept, Live
  <2> QED
    BY <2>1, <2>2 DEF Kept, Live
<1> QED
  BY <1>1, Invariance, PTL

\* The protection recorded with a live process is the one its heap has, and a
\* free pool heap is masked.
THEOREM RecordsTrueHolds == Spec => []RecordsTrue
<1>1. IInv => RecordsTrue
  BY DEF IInv, OwnerInv, Sound, RecordsTrue, Live
<1> QED
  BY <1>1, Invariance, PTL

\* While an unprivileged process runs, before and after a fault, the kernel's
\* heap is masked and so is that of every other isolated process.
THEOREM ConfinedHolds == Spec => []Confined
<1>1. IInv => Confined
  BY DEF IInv, OwnerInv, Sound, ModeInv, Masked, Confined, Live
<1> QED
  BY <1>1, Invariance, PTL

\* Whoever runs reaches what it works on: the kernel its heap through an open
\* gate, a process its own heap, a privileged one the kernel's.
THEOREM ReachableHolds == Spec => []Reachable
<1>1. IInv => Reachable
  BY DEF IInv, OwnerInv, Sound, ModeInv, Reachable
<1> QED
  BY <1>1, Invariance, PTL

----------------------------------------------------------------------------
(***************************************************************************)
(* The stacks of the processes of Memory: whatever connections come and    *)
(* go, the blocks of each process lie one after the other below its cursor *)
(* and a pop finds the length of the last.                                 *)
(***************************************************************************)

Block == [addr : Nat, want : Size \ {0}]

\* The blocks b one after the other on stack st, each with its length in its
\* link word.
Chain(st, b) ==
  /\ DOMAIN st = {"cursor", "stop", "link"}
  /\ st.cursor \in Nat /\ st.stop \in Int /\ DOMAIN st.link = 0 .. st.stop
  /\ b \in Seq(Block)
  /\ st.cursor = IF b = << >> THEN 0 ELSE End(b[Len(b)])
  /\ \A i \in DOMAIN b :
       /\ End(b[i]) \in 0 .. st.stop
       /\ b[i].addr = IF i = 1 THEN 0 ELSE End(b[i - 1])
       /\ End(b[i]) >= b[i].addr + b[i].want
       /\ st.link[End(b[i])] = SafeAlignedlen(1, b[i].want)
  /\ \A i, j \in DOMAIN b : i < j => End(b[i]) < End(b[j])

----------------------------------------------------------------------------
(* What the operations of vk_stack.c do to a chain *)

\* A request is given whole pages that hold it, unless there is no such size.
LEMMA AlignedOne ==
  ASSUME NEW n \in Size
  PROVE  LET len == SafeAlignedlen(1, n) IN len = Fail \/ (len \in Size /\ n <= len)
<1>1. 1 \in Size /\ 1 * n = n
  BY StackAssumption, SizeTypes DEF Size
<1>2. \A len : len \in Size => len \in Int
  BY SizeTypes DEF Size
<1> DEFINE len == SafeAlignedlen(1, n)
<1>3. len = Fail \/ (len \in Size /\ 1 * n <= len)
  BY <1>1, AlignedLenCovers
<1> QED
  BY <1>1, <1>3

\* A stack as vk_stack_init leaves it has no blocks.
LEMMA NewChain ==
  ASSUME NEW len \in Int
  PROVE  Chain(NewStack(len), << >>)
BY DEF Chain, NewStack

\* vk_stack_push adds a block at the end,
LEMMA PushChain ==
  ASSUME NEW st, NEW b, Chain(st, b), NEW n \in Size \ {0}, Fits(st, 1, n)
  PROVE  LET t == Push(st, 1, n)
         IN Chain(t, Append(b, [addr |-> st.cursor, want |-> n])) /\ t.cursor <= t.stop
<1> DEFINE len == SafeAlignedlen(1, n)
           x   == [addr |-> st.cursor, want |-> n]
           c   == Append(b, x)
           t   == Push(st, 1, n)
<1>1. len \in Size /\ n <= len /\ st.cursor + len <= st.stop
  BY AlignedOne DEF Fits
<1>2. t = [st EXCEPT !.cursor = st.cursor + len, !.link[st.cursor + len] = len]
  BY DEF Push
<1>3. n \in Nat /\ n >= 1 /\ len \in Nat /\ st.cursor \in Nat /\ st.stop \in Int
  BY <1>1, SizeTypes DEF Size, Chain
<1>4. x \in Block /\ End(x) = st.cursor + len /\ x.addr = st.cursor /\ x.want = n
  BY <1>3 DEF Block, End
<1> HIDE DEF len, t, x
<1>5. /\ DOMAIN t = {"cursor", "stop", "link"} /\ t.cursor = st.cursor + len /\ t.stop = st.stop
      /\ DOMAIN t.link = 0 .. st.stop /\ t.link[st.cursor + len] = len
      /\ \A a \in 0 .. st.stop : a # st.cursor + len => t.link[a] = st.link[a]
  BY <1>1, <1>2, <1>3 DEF Chain
<1>6. /\ c \in Seq(Block) /\ Len(c) = Len(b) + 1 /\ c[Len(b) + 1] = x
      /\ DOMAIN c = 1 .. Len(b) + 1 /\ DOMAIN b = 1 .. Len(b) /\ Len(b) \in Nat
      /\ \A i \in 1 .. Len(b) : c[i] = b[i]
  BY <1>4 DEF Chain
<1> HIDE DEF c
<1>7. \A i \in DOMAIN b : End(b[i]) \in 0 .. st.stop /\ End(b[i]) <= st.cursor
  <2> SUFFICES ASSUME NEW i \in DOMAIN b PROVE End(b[i]) \in 0 .. st.stop /\ End(b[i]) <= st.cursor
    OBVIOUS
  <2>1. st.cursor = End(b[Len(b)]) /\ Len(b) \in DOMAIN b
    BY <1>6 DEF Chain
  <2>2. i < Len(b) => End(b[i]) < End(b[Len(b)])
    BY <2>1 DEF Chain
  <2>3. End(b[i]) \in 0 .. st.stop
    BY DEF Chain
  <2> QED
    BY <1>3, <1>6, <2>1, <2>2, <2>3
<1>8. b = << >> <=> Len(b) = 0
  BY DEF Chain
<1>9. ASSUME NEW i \in DOMAIN c
      PROVE  /\ End(c[i]) \in 0 .. t.stop
             /\ c[i].addr = IF i = 1 THEN 0 ELSE End(c[i - 1])
             /\ End(c[i]) >= c[i].addr + c[i].want
             /\ t.link[End(c[i])] = SafeAlignedlen(1, c[i].want)
  <2>1. CASE i \in 1 .. Len(b)
    <3>1. c[i] = b[i] /\ i \in DOMAIN b /\ (i # 1 => c[i - 1] = b[i - 1])
      BY <1>6, <2>1
    <3>2. End(b[i]) # st.cursor + len
      BY <1>1, <1>3, <1>7, <3>1
    <3>3. t.link[End(b[i])] = st.link[End(b[i])]
      BY <1>5, <1>7, <3>1, <3>2
    <3> QED
      BY <1>5, <3>1, <3>3 DEF Chain
  <2>2. CASE i = Len(b) + 1
    <3>1. c[i] = x
      BY <1>6, <2>2
    <3>2. st.cursor = IF i = 1 THEN 0 ELSE End(c[i - 1])
      <4>1. CASE Len(b) = 0
        BY <1>8, <2>2, <4>1 DEF Chain
      <4>2. CASE Len(b) # 0
        <5>1. st.cursor = End(b[Len(b)]) /\ i - 1 = Len(b) /\ i # 1 /\ c[i - 1] = b[Len(b)]
          BY <1>6, <1>8, <2>2, <4>2 DEF Chain
        <5> QED
          BY <5>1
      <4> QED
        BY <4>1, <4>2
    <3>3. st.cursor + len \in 0 .. t.stop /\ st.cursor + len >= st.cursor + n
      BY <1>1, <1>3, <1>5
    <3> QED
      BY <1>4, <1>5, <3>1, <3>2, <3>3 DEF len
  <2> QED
    BY <1>6, <2>1, <2>2
<1>10. ASSUME NEW i \in DOMAIN c, NEW j \in DOMAIN c, i < j PROVE End(c[i]) < End(c[j])
  <2>1. i \in DOMAIN b /\ c[i] = b[i]
    BY <1>6, <1>10
  <2>2. CASE j \in 1 .. Len(b)
    <3>1. j \in DOMAIN b /\ c[j] = b[j]
      BY <1>6, <2>2
    <3> QED
      BY <1>10, <2>1, <3>1 DEF Chain
  <2>3. CASE j = Len(b) + 1
    BY <1>1, <1>3, <1>4, <1>6, <1>7, <2>1, <2>3
  <2> QED
    BY <1>6, <2>2, <2>3
<1>11. t.cursor = IF c = << >> THEN 0 ELSE End(c[Len(c)])
  BY <1>4, <1>5, <1>6
<1>12. Chain(t, c)
  BY <1>3, <1>5, <1>6, <1>9, <1>10, <1>11 DEF Chain
<1> QED
  BY <1>1, <1>5, <1>12 DEF t, c, x

\* vk_stack_pop takes the last away and nothing else,
LEMMA PopChain ==
  ASSUME NEW st, NEW b, Chain(st, b), b # << >>
  PROVE  LET t == Pop(st)
         IN /\ Chain(t, SubSeq(b, 1, Len(b) - 1))
            /\ t.stop = st.stop /\ t.cursor <= st.cursor
<1> DEFINE n == Len(b)
           c == SubSeq(b, 1, n - 1)
           t == Pop(st)
<1>1. /\ n \in Nat \ {0} /\ DOMAIN b = 1 .. n /\ n \in DOMAIN b
      /\ c \in Seq(Block) /\ Len(c) = n - 1 /\ DOMAIN c = 1 .. n - 1
      /\ \A i \in 1 .. n - 1 : c[i] = b[i]
  <2>1. b \in Seq(Block)
    BY DEF Chain
  <2>2. n \in Nat \ {0} /\ DOMAIN b = 1 .. n /\ n \in DOMAIN b
    BY <2>1
  <2>3. c \in Seq(Block) /\ Len(c) = n - 1 /\ \A i \in 1 .. n - 1 : c[i] = b[i]
    BY <2>1, <2>2
  <2>4. DOMAIN c = 1 .. n - 1
    BY <2>3
  <2> QED
    BY <2>2, <2>3, <2>4
<1>2. /\ b[n].addr \in Nat /\ b[n].want \in Nat /\ b[n].want >= 1 /\ b[n].want \in Size
  <2>1. b[n] \in Block
    BY <1>1 DEF Chain
  <2> QED
    BY <2>1, SizeTypes DEF Block, Size
<1> DEFINE len == SafeAlignedlen(1, b[n].want)
<1>3. /\ st.cursor = b[n].addr + len /\ st.link[st.cursor] = len
      /\ st.cursor >= b[n].addr + b[n].want /\ st.cursor \in 0 .. st.stop
  BY <1>1 DEF Chain, End
<1>4. len \in Int
  <2>1. \A x : x \in Size \/ x = Fail => x \in Int
    BY SizeTypes DEF Size, Fail
  <2> QED
    BY <1>2, <2>1, AlignedOne
<1> HIDE DEF len
<1>5. t = [st EXCEPT !.cursor = st.cursor - st.link[st.cursor]]
  <2>1. ~ (st.cursor <= 0)
    BY <1>2, <1>3 DEF Chain
  <2> QED
    BY <2>1 DEF Pop
<1> HIDE DEF c, t
<1>6. /\ DOMAIN t = {"cursor", "stop", "link"} /\ t.stop = st.stop /\ t.link = st.link
      /\ t.cursor = b[n].addr
  <2>1. st.cursor - st.link[st.cursor] = b[n].addr
    BY <1>2, <1>3, <1>4
  <2> QED
    BY <1>5, <2>1 DEF Chain
<1>7. t.cursor = IF c = << >> THEN 0 ELSE End(c[Len(c)])
  <2>1. b[n].addr = IF n = 1 THEN 0 ELSE End(b[n - 1])
    BY <1>1 DEF Chain
  <2>2. c = << >> <=> n = 1
    BY <1>1
  <2>3. n # 1 => c[Len(c)] = b[n - 1]
    BY <1>1
  <2> QED
    BY <1>6, <2>1, <2>2, <2>3
<1>8. \A i \in DOMAIN c : i \in DOMAIN b /\ c[i] = b[i] /\ (i # 1 => c[i - 1] = b[i - 1])
  BY <1>1
<1> HIDE DEF n
<1>9. \A i \in DOMAIN c :
       /\ End(c[i]) \in 0 .. t.stop
       /\ c[i].addr = IF i = 1 THEN 0 ELSE End(c[i - 1])
       /\ End(c[i]) >= c[i].addr + c[i].want
       /\ t.link[End(c[i])] = SafeAlignedlen(1, c[i].want)
  BY <1>6, <1>8 DEF Chain
<1>10. \A i, j \in DOMAIN c : i < j => End(c[i]) < End(c[j])
  BY <1>8 DEF Chain
<1>11. Chain(t, c)
  BY <1>1, <1>2, <1>6, <1>7, <1>9, <1>10 DEF Chain
<1>12. t.cursor <= st.cursor
  BY <1>2, <1>3, <1>6 DEF Chain
<1> QED
  BY <1>6, <1>11, <1>12 DEF t, c, n

\* and bytes written beside the links leave it alone.
LEMMA StoreChain ==
  ASSUME NEW st, NEW b, Chain(st, b), NEW a, NEW n,
         \A i \in DOMAIN b : ~ (n > 0 /\ a < End(b[i]) /\ End(b[i]) - Word < a + n)
  PROVE  LET t == Store(st, a, n) IN Chain(t, b) /\ t.cursor = st.cursor /\ t.stop = st.stop
<1> DEFINE l == [e \in DOMAIN st.link |->
                   IF n > 0 /\ a < e /\ e - Word < a + n THEN SizeMax ELSE st.link[e]]
           t == Store(st, a, n)
<1>1. t = [st EXCEPT !.link = l]
  BY DEF Store
<1>2. DOMAIN l = 0 .. st.stop
  BY DEF Chain
<1>3. \A i \in DOMAIN b : l[End(b[i])] = st.link[End(b[i])]
  BY DEF Chain
<1> HIDE DEF l, t
<1>4. /\ DOMAIN t = {"cursor", "stop", "link"} /\ t.cursor = st.cursor /\ t.stop = st.stop
      /\ t.link = l
  BY <1>1 DEF Chain
<1>5. Chain(t, b)
  BY <1>2, <1>3, <1>4 DEF Chain
<1> QED
  BY <1>4, <1>5 DEF t

\* So does the copying of an argument beyond the cursor.
LEMMA StoreBeyond ==
  ASSUME NEW st, NEW b, Chain(st, b), NEW n
  PROVE  LET t == Store(st, st.cursor, n) IN Chain(t, b) /\ t.cursor = st.cursor /\ t.stop = st.stop
<1>1. ASSUME NEW i \in DOMAIN b PROVE ~ (st.cursor < End(b[i]))
  <2>1. /\ Len(b) \in Nat \ {0} /\ DOMAIN b = 1 .. Len(b) /\ b # << >>
    BY DEF Chain
  <2>2. st.cursor = End(b[Len(b)]) /\ End(b[i]) \in Int /\ Len(b) \in DOMAIN b
    BY <2>1 DEF Chain
  <2>3. i < Len(b) => End(b[i]) < End(b[Len(b)])
    BY <2>2 DEF Chain
  <2> QED
    BY <2>1, <2>2, <2>3 DEF Chain
<1> QED
  BY <1>1, StoreChain

----------------------------------------------------------------------------
(* The stacks of the processes *)

\* The stack of a process that has one: the block vk_echo works on is its
\* last.
Held(x) ==
  /\ Chain(x.stack, x.blocks) /\ x.stack.cursor <= x.stack.stop
  /\ x.at = "line" => x.blocks # << >> /\ x.blocks[Len(x.blocks)].want = BufLen

\* Every live process has a stack, and a listed slot has nothing left of one.
StackInv(s) ==
  /\ \A p \in Procs : s.proc[p].live => Held(s.proc[p])
  /\ \A p \in Listed(s.free_procs) : s.proc[p].blocks = << >> /\ s.proc[p].at = "begin"

\* The stacks and the resume points are the same.
Untouched(s, t) ==
  /\ IsMem(t) /\ t.free_procs = s.free_procs
  /\ \A q \in Procs :
       /\ t.proc[q].stack = s.proc[q].stack /\ t.proc[q].blocks = s.proc[q].blocks
       /\ t.proc[q].live = s.proc[q].live /\ t.proc[q].at = s.proc[q].at

\* So is what is said of them.
LEMMA UntouchedInv ==
  ASSUME NEW s, NEW t, IsMem(s), Untouched(s, t), StackInv(s)
  PROVE  StackInv(t)
<1>1. \A q \in Procs : Held(s.proc[q]) => Held(t.proc[q])
  BY DEF Untouched, Held
<1>2. Listed(s.free_procs) \subseteq Procs
  BY ListedTypes
<1> QED
  BY <1>1, <1>2 DEF Untouched, StackInv

\* Opening and masking a heap, the kernel's heap or the gate touches no stack.
LEMMA EnterUntouched ==
  ASSUME NEW s, IsMem(s), NEW p \in Procs, s.proc[p].region \in Regions
  PROVE  Untouched(s, Enter(s, p)) /\ Untouched(s, Exit(s, p))
BY DEF Enter, Exit, IsMem, IsProc, Untouched

\* Nor does what the kernel does to itself.
LEMMA KernUntouched ==
  ASSUME NEW s, IsMem(s)
  PROVE  /\ Untouched(s, KernEnter(s)) /\ Untouched(s, OpenGate(s))
         /\ Untouched(s, KernExit([s EXCEPT !.kern_hd = "rw"]))
<1>1. Untouched(s, KernEnter(s))
  BY RegionsApart DEF KernEnter, IsMem, Untouched
<1>2. Untouched(s, OpenGate(s))
  BY DEF OpenGate, IsMem, Untouched
<1>3. Untouched(s, KernExit([s EXCEPT !.kern_hd = "rw"]))
  BY RegionsApart DEF KernExit, IsMem, Untouched
<1> QED
  BY <1>1, <1>2, <1>3

\* Untouched twice is untouched.
LEMMA UntouchedTransitive ==
  ASSUME NEW s, NEW t, NEW u, Untouched(s, t), Untouched(t, u)
  PROVE  Untouched(s, u)
BY DEF Untouched

\* A live process has a region.
LEMMA LiveRegion ==
  ASSUME NEW s, OwnerInv(s), NEW p \in Procs, s.proc[p].live
  PROVE  s.proc[p].region \in Regions /\ IsMem(s)
BY RegionsApart DEF OwnerInv, Sound

\* Dispatching a process touches no stack.
LEMMA ExecuteUntouched ==
  ASSUME NEW s, IsMem(s), NEW p \in Procs, s.proc[p].region \in Regions, service \in Flags
  PROVE  Untouched(s, Execute(s, p))
<1> DEFINE open   == Enter(s, p)
           masked == IF s.proc[p].privileged THEN open ELSE KernExit([open EXCEPT !.kern_hd = "rw"])
           t      == Execute(s, p)
<1>1. Untouched(s, open)
  BY EnterUntouched
<1>2. IsMem(open)
  BY <1>1 DEF Untouched
<1>3. t = IF s.proc[p].isolated THEN [masked EXCEPT !.window = TRUE, !.block = service.sud] ELSE masked
  BY DEF Execute
<1> HIDE DEF open, t
<1>4. Untouched(open, masked)
  <2>1. CASE s.proc[p].privileged
    BY <1>2, <2>1 DEF Untouched
  <2>2. CASE ~ s.proc[p].privileged
    BY <1>2, <2>2, KernUntouched
  <2> QED
    BY <2>1, <2>2
<1> HIDE DEF masked
<1>5. Untouched(masked, t)
  <2>1. IsMem(masked) /\ service.sud \in BOOLEAN
    BY <1>4 DEF Untouched, Flags
  <2> QED
    BY <1>3, <2>1 DEF IsMem, Untouched
<1> QED
  BY <1>1, <1>4, <1>5, UntouchedTransitive DEF t

\* Only the stack of p has changed.
OnStack(s, t, p) ==
  /\ IsMem(t) /\ t.free_procs = s.free_procs
  /\ t.proc[p].at = s.proc[p].at /\ t.proc[p].live = s.proc[p].live
  /\ \A q \in Procs \ {p} : t.proc[q] = s.proc[q]

\* A block is pushed when it fits, and then below the end of the heap.
LEMMA AllocStack ==
  ASSUME NEW s, IsMem(s), NEW p \in Procs, NEW n \in Size \ {0},
         Chain(s.proc[p].stack, s.proc[p].blocks)
  PROVE  LET t == Alloc(s, p, n)
         IN /\ OnStack(s, t, p) /\ Chain(t.proc[p].stack, t.proc[p].blocks)
            /\ s.proc[p].stack.cursor <= s.proc[p].stack.stop \/ CanAlloc(s, p, n) =>
                 t.proc[p].stack.cursor <= t.proc[p].stack.stop
            /\ CanAlloc(s, p, n) => t.proc[p].blocks # << >>
                                    /\ t.proc[p].blocks[Len(t.proc[p].blocks)].want = n
<1> DEFINE t == Alloc(s, p, n)
<1>1. CASE ~ CanAlloc(s, p, n)
  <2>1. t = s
    BY <1>1 DEF Alloc
  <2> QED
    BY <1>1, <2>1 DEF OnStack
<1>2. CASE CanAlloc(s, p, n)
  <2> DEFINE st == s.proc[p].stack
             b  == s.proc[p].blocks
             x  == [addr |-> st.cursor, want |-> n]
             u  == Push(st, 1, n)
             c  == Append(b, x)
  <2>1. Fits(st, 1, n)
    BY <1>2 DEF CanAlloc
  <2>2. Chain(u, c) /\ u.cursor <= u.stop
    BY <2>1, PushChain
  <2>3. b \in Seq(Block) /\ x \in Block /\ x.want = n
    BY DEF Chain, Block
  <2>4. c # << >> /\ c[Len(c)].want = n
    <3> HIDE DEF b, x
    <3>1. Len(c) = Len(b) + 1 /\ c[Len(b) + 1] = x /\ Len(b) \in Nat
      BY <2>3
    <3> QED
      BY <2>3, <3>1
  <2>5. t = [s EXCEPT !.proc[p].stack = u, !.proc[p].blocks = c]
    BY <1>2 DEF Alloc
  <2> HIDE DEF u, c, t
  <2>6. OnStack(s, t, p) /\ t.proc[p].stack = u /\ t.proc[p].blocks = c
    BY <2>5 DEF IsMem, IsProc, OnStack
  <2> QED
    BY <2>2, <2>4, <2>6 DEF t
<1> QED
  BY <1>1, <1>2

\* A pop changes one stack.
LEMMA FreeStack ==
  ASSUME NEW s, IsMem(s), NEW p \in Procs
  PROVE  OnStack(s, Free(s, p), p)
BY DEF Free, IsMem, IsProc, OnStack

\* The argument is copied beyond the cursor.
LEMMA CopyStack ==
  ASSUME NEW s, IsMem(s), NEW p \in Procs, NEW n, Chain(s.proc[p].stack, s.proc[p].blocks),
         s.proc[p].self = s.proc[p].stack.cursor
  PROVE  LET t == CopyArg(s, p, n)
         IN /\ OnStack(s, t, p) /\ Chain(t.proc[p].stack, t.proc[p].blocks)
            /\ t.proc[p].stack.cursor = s.proc[p].stack.cursor
            /\ t.proc[p].stack.stop = s.proc[p].stack.stop
<1> DEFINE u == Store(s.proc[p].stack, s.proc[p].stack.cursor, n)
           t == CopyArg(s, p, n)
<1>1. /\ Chain(u, s.proc[p].blocks)
      /\ u.cursor = s.proc[p].stack.cursor /\ u.stop = s.proc[p].stack.stop
  BY StoreBeyond
<1>2. t = [s EXCEPT !.proc[p].stack = u]
  BY DEF CopyArg
<1> HIDE DEF u, t
<1>3. OnStack(s, t, p) /\ t.proc[p].stack = u /\ t.proc[p].blocks = s.proc[p].blocks
  BY <1>2 DEF IsMem, IsProc, OnStack
<1> QED
  BY <1>1, <1>3 DEF t

\* A coroutine's thread and socket, and where its state will be.
LEMMA ThreadStack ==
  ASSUME NEW s, IsMem(s), NEW p \in Procs, s.proc[p].prot = "rw",
         Chain(s.proc[p].stack, s.proc[p].blocks),
         s.proc[p].stack.cursor <= s.proc[p].stack.stop \/ CanAlloc(s, p, ThreadLen)
  PROVE  LET t == Thread(s, p)
         IN /\ OnStack(s, t, p) /\ Chain(t.proc[p].stack, t.proc[p].blocks)
            /\ t.proc[p].stack.cursor <= t.proc[p].stack.stop
            /\ t.proc[p].self = t.proc[p].stack.cursor
<1> DEFINE a == Alloc(s, p, ThreadLen)
           b == Alloc(a, p, SocketLen)
           t == Thread(s, p)
<1>1. ThreadLen \in Size \ {0} /\ SocketLen \in Size \ {0}
  BY MemoryAssumption
<1>2. /\ OnStack(s, a, p) /\ Chain(a.proc[p].stack, a.proc[p].blocks)
      /\ a.proc[p].stack.cursor <= a.proc[p].stack.stop
  BY <1>1, AllocStack
<1>3. t = [b EXCEPT !.proc[p].self = b.proc[p].stack.cursor]
  BY DEF Thread, Enter
<1> HIDE DEF a, t
<1>4. /\ OnStack(a, b, p) /\ Chain(b.proc[p].stack, b.proc[p].blocks)
      /\ b.proc[p].stack.cursor <= b.proc[p].stack.stop
  <2>1. IsMem(a)
    BY <1>2 DEF OnStack
  <2> QED
    BY <1>1, <1>2, <2>1, AllocStack
<1> HIDE DEF b
<1>5. /\ OnStack(b, t, p) /\ t.proc[p].self = b.proc[p].stack.cursor
      /\ t.proc[p].stack = b.proc[p].stack /\ t.proc[p].blocks = b.proc[p].blocks
  <2>1. IsMem(b)
    BY <1>4 DEF OnStack
  <2> DEFINE c == b.proc[p].stack.cursor
  <2> HIDE DEF c
  <2>2. t = [b EXCEPT !.proc[p].self = c]
    BY <1>3 DEF c
  <2>3. /\ OnStack(b, t, p) /\ t.proc[p].self = c
        /\ t.proc[p].stack = b.proc[p].stack /\ t.proc[p].blocks = b.proc[p].blocks
    BY <2>1, <2>2 DEF OnStack, IsMem, IsProc
  <2> QED
    BY <2>3 DEF c
<1>6. OnStack(s, t, p)
  BY <1>2, <1>4, <1>5 DEF OnStack
<1> QED
  BY <1>4, <1>5, <1>6 DEF t

\* The lengths of a heap are numbers.
LEMMA HeapLens ==
  ASSUME service \in Flags
  PROVE  /\ SafeAlignedlen(1, HeapLen) \in Int
         /\ \A len \in MapLens(HeapLen) : len \in Int
<1>1. \A x \in Int : Wrapped(x) \in Int
  BY SizeTypes DEF Wrapped
<1>2. HeapLen \in Size
  <2>1. service.pages \in Nat
    BY MemoryAssumption DEF Flags
  <2>2. PageSize * service.pages \in Nat
    BY <2>1, SizeTypes
  <2> QED
    BY <2>2, SizeTypes DEF HeapLen, Wrapped, Size
<1> DEFINE a == SafeAlignedlen(1, HeapLen)
<1>3. a \in Int
  <2>1. \A x : x \in Size \/ x = Fail => x \in Int
    BY SizeTypes DEF Size, Fail
  <2> QED
    BY <1>2, <2>1, AlignedOne
<1> HIDE DEF a
<1>4. \A x, y \in Int : SafeMult(x, y) \in Int /\ SafeAdd(x, y) \in Int
  <2> SUFFICES ASSUME NEW x \in Int, NEW y \in Int
               PROVE  SafeMult(x, y) \in Int /\ SafeAdd(x, y) \in Int
    OBVIOUS
  <2>1. x * y \in Int /\ x + y \in Int
    OBVIOUS
  <2>2. Wrapped(x * y) \in Int /\ Wrapped(x + y) \in Int /\ Fail \in Int
    BY <1>1, <2>1 DEF Fail
  <2> QED
    BY <2>2 DEF SafeMult, SafeAdd
<1>5. HugeAlignedLen(1, a) \in Int
  <2> DEFINE l == SafeMult(1, a)
             q == l \div HugePage
             n == IF l % HugePage # 0 THEN SafeAdd(q, 1) ELSE q
  <2>1. l \in Int
    BY <1>3, <1>4
  <2> HIDE DEF l
  <2>2. q \in Int
    BY <2>1, StackAssumption
  <2> HIDE DEF q
  <2>3. n \in Int
    BY <1>4, <2>2
  <2>4. HugeAlignedLen(1, a) = IF l = Fail THEN Fail ELSE IF n = Fail THEN Fail ELSE SafeMult(n, HugePage)
    BY DEF HugeAlignedLen, l, q
  <2> HIDE DEF n
  <2>5. HugePage \in Int /\ Fail \in Int
    BY StackAssumption DEF Fail
  <2> QED
    BY <1>4, <2>3, <2>4, <2>5
<1> QED
  BY <1>3, <1>5 DEF MapLens, a

\* Slot p has been taken and given a heap with a new stack.
NewHeap(s, h, p) ==
  /\ IsMem(h) /\ h.free_procs = Tail(s.free_procs) /\ h.proc[p].prot = "rw"
  /\ \A q \in Procs \ {p} : h.proc[q] = s.proc[q]
  /\ Chain(h.proc[p].stack, h.proc[p].blocks)
  /\ h.proc[p].at = "begin" /\ ~ h.proc[p].live

\* The heap of a new process has a new stack, with room or without for the
\* process's own object.
LEMMA HeapStack ==
  ASSUME NEW s, OwnerInv(s), StackInv(s), service \in Flags, s.free_procs # << >>,
         NEW p \in Procs, p = Head(s.free_procs),
         NEW h \in Heaps([s EXCEPT !.free_procs = Tail(@)], p)
  PROVE  NewHeap(s, h, p)
<1> DEFINE taken == [s EXCEPT !.free_procs = Tail(@)]
<1>1. IsMem(s) /\ s.free_procs \in Seq(Procs)
  BY DEF OwnerInv, IsMem
<1>2. Tail(s.free_procs) \in Seq(Procs) /\ p \in Listed(s.free_procs)
  BY <1>1, ListedTail
<1>3. s.proc[p].blocks = << >> /\ s.proc[p].at = "begin"
  BY <1>2 DEF StackInv
<1>4. IsMem(h) /\ h.proc[p].prot = "rw" /\ ~ h.proc[p].live
  <2>1. PICK r : Taken(s, h, p, r) /\ h.proc[p].prot = "rw" /\ ~ h.proc[p].live
    BY HeapTaken
  <2> QED
    BY <2>1 DEF Taken
<1>5. /\ IsMem(taken) /\ taken.free_procs = Tail(s.free_procs) /\ taken.proc = s.proc
      /\ taken.free_entries = s.free_entries /\ taken.prot = s.prot
  BY <1>1, <1>2 DEF IsMem
<1>6. h \in Heaps(taken, p)
  OBVIOUS
<1> HIDE DEF taken
<1>7. LocalLen \in Size \ {0}
  BY MemoryAssumption
<1>8. \E y : /\ h = Alloc(y, p, LocalLen) /\ IsMem(y) /\ y.free_procs = Tail(s.free_procs)
             /\ \A q \in Procs \ {p} : y.proc[q] = s.proc[q]
             /\ y.proc[p].blocks = << >> /\ y.proc[p].at = "begin"
             /\ Chain(y.proc[p].stack, << >>)
  <2>1. CASE taken.free_entries # << >>
    <3> DEFINE r  == Head(taken.free_entries)
               st == NewStack(SafeAlignedlen(1, HeapLen))
               x  == [taken EXCEPT !.free_entries = Tail(@),
                                   !.proc[p].region = r, !.proc[p].prot = "none", !.proc[p].entry = r,
                                   !.proc[p].stack = st]
               y  == Enter(x, p)
    <3>1. h = Alloc(y, p, LocalLen)
      <4>1. h = FromPool(taken, p)
        BY <1>6, <2>1 DEF Heaps
      <4> QED
        BY <4>1, Zenon DEF FromPool
    <3>2. Chain(st, << >>)
      BY HeapLens, NewChain
    <3>3. r \in Entries /\ Tail(taken.free_entries) \in Seq(Entries)
      BY <1>5, <2>1, ListedTail DEF IsMem
    <3> HIDE DEF st, r
    <3>4. /\ x.free_procs = Tail(s.free_procs) /\ \A q \in Procs \ {p} : x.proc[q] = s.proc[q]
          /\ x.proc[p].blocks = << >> /\ x.proc[p].at = "begin" /\ x.proc[p].stack = st
          /\ x.proc[p].region = r
      <4>1. x.free_procs = Tail(s.free_procs) /\ \A q \in Procs \ {p} : x.proc[q] = s.proc[q]
        BY <1>5 DEF IsMem
      <4>2. x.proc[p].stack = st /\ x.proc[p].region = r
        BY <1>5 DEF IsMem, IsProc
      <4>3. x.proc[p].blocks = taken.proc[p].blocks /\ x.proc[p].at = taken.proc[p].at
        BY <1>5 DEF IsMem, IsProc
      <4> QED
        BY <1>3, <1>5, <4>1, <4>2, <4>3
    <3>5. IsMem(x)
      <4>1. /\ DOMAIN x.proc = Procs /\ DOMAIN x = DOMAIN taken
            /\ x.free_entries = Tail(taken.free_entries) /\ x.prot = taken.prot
            /\ x.kern_hd = taken.kern_hd /\ x.window = taken.window /\ x.block = taken.block
        BY <1>5 DEF IsMem
      <4>2. /\ DOMAIN x.proc[p] = DOMAIN taken.proc[p]
            /\ x.proc[p].prot = "none" /\ x.proc[p].entry = r
            /\ x.proc[p].privileged = taken.proc[p].privileged
            /\ x.proc[p].isolated = taken.proc[p].isolated
            /\ x.proc[p].live = taken.proc[p].live
        BY <1>5 DEF IsMem, IsProc
      <4> HIDE DEF x
      <4>3. IsProc(x.proc[p])
        <5>1. IsProc(taken.proc[p])
          BY <1>5 DEF IsMem
        <5> QED
          BY <3>3, <3>4, <4>2, <5>1, RegionsApart DEF IsProc
      <4> QED
        BY <1>2, <1>5, <3>3, <3>4, <4>1, <4>3 DEF IsMem
    <3> HIDE DEF x
    <3>6. /\ IsMem(y) /\ y.free_procs = x.free_procs
          /\ \A q \in Procs \ {p} : y.proc[q] = x.proc[q]
          /\ y.proc[p].blocks = x.proc[p].blocks /\ y.proc[p].at = x.proc[p].at
          /\ y.proc[p].stack = x.proc[p].stack
      <4>1. x.proc[p].region \in Regions
        BY <3>3, <3>4, RegionsApart
      <4>2. Untouched(x, y)
        BY <3>5, <4>1, EnterUntouched
      <4>3. \A q \in Procs \ {p} : y.proc[q] = x.proc[q]
        BY <3>5 DEF Enter, IsMem
      <4> HIDE DEF y
      <4> QED
        BY <4>2, <4>3 DEF Untouched
    <3> HIDE DEF y
    <3> QED
      BY <3>1, <3>2, <3>4, <3>6
  <2>2. CASE taken.free_entries = << >>
    <3>1. PICK r \in {z \in Maps : taken.prot[z] = "unmapped"}, len \in MapLens(HeapLen) :
            h = Private(taken, p, r, len)
      BY <1>6, <2>2 DEF Heaps
    <3> DEFINE st == NewStack(len)
               y  == [taken EXCEPT !.prot[r] = "rw", !.proc[p].region = r, !.proc[p].prot = "rw",
                                   !.proc[p].stack = st]
    <3>2. h = Alloc(y, p, LocalLen)
      BY <3>1 DEF Private
    <3>3. Chain(st, << >>)
      BY HeapLens, NewChain
    <3> HIDE DEF st
    <3>4. /\ y.free_procs = Tail(s.free_procs) /\ \A q \in Procs \ {p} : y.proc[q] = s.proc[q]
          /\ y.proc[p].blocks = << >> /\ y.proc[p].at = "begin" /\ y.proc[p].stack = st
          /\ y.proc[p].region = r
      BY <1>3, <1>5 DEF IsMem, IsProc
    <3>5. IsMem(y)
      <4>1. /\ DOMAIN y.proc = Procs /\ DOMAIN y = DOMAIN taken
            /\ y.free_entries = taken.free_entries /\ y.prot = [taken.prot EXCEPT ![r] = "rw"]
            /\ y.kern_hd = taken.kern_hd /\ y.window = taken.window /\ y.block = taken.block
        BY <1>5 DEF IsMem
      <4>2. /\ DOMAIN y.proc[p] = DOMAIN taken.proc[p]
            /\ y.proc[p].prot = "rw" /\ y.proc[p].entry = taken.proc[p].entry
            /\ y.proc[p].privileged = taken.proc[p].privileged
            /\ y.proc[p].isolated = taken.proc[p].isolated
            /\ y.proc[p].live = taken.proc[p].live
        BY <1>5 DEF IsMem, IsProc
      <4> HIDE DEF y
      <4>3. IsProc(y.proc[p])
        <5>1. IsProc(taken.proc[p])
          BY <1>5 DEF IsMem
        <5> QED
          BY <3>1, <3>4, <4>2, <5>1, RegionsApart DEF IsProc
      <4>4. y.prot \in [Regions -> {"none", "rw", "unmapped"}]
        BY <1>5, <3>1, <4>1, RegionsApart DEF IsMem
      <4> QED
        BY <1>2, <1>5, <3>4, <4>1, <4>3, <4>4 DEF IsMem
    <3> HIDE DEF y
    <3> QED
      BY <3>2, <3>3, <3>4, <3>5
  <2> QED
    BY <2>1, <2>2
<1>9. PICK y : /\ h = Alloc(y, p, LocalLen) /\ IsMem(y) /\ y.free_procs = Tail(s.free_procs)
               /\ \A q \in Procs \ {p} : y.proc[q] = s.proc[q]
               /\ y.proc[p].blocks = << >> /\ y.proc[p].at = "begin"
               /\ Chain(y.proc[p].stack, << >>)
  BY <1>8
<1>10. OnStack(y, h, p) /\ Chain(h.proc[p].stack, h.proc[p].blocks)
  BY <1>7, <1>9, AllocStack
<1> QED
  BY <1>4, <1>9, <1>10 DEF OnStack, NewHeap

\* What t has of the stacks of h: that of p, if it comes alive, within its
\* heap, and those of the others as they were.
ReadyToRun(h, t, p) ==
  /\ t.free_procs = h.free_procs
  /\ t.proc[p].live => Held(t.proc[p])
  /\ \A q \in Procs \ {p} :
       /\ t.proc[q].stack = h.proc[q].stack /\ t.proc[q].blocks = h.proc[q].blocks
       /\ t.proc[q].live = h.proc[q].live
       /\ IF q = Listener THEN t.proc[q].at \in {h.proc[q].at, "end"}
          ELSE t.proc[q].at = h.proc[q].at

\* A process that comes alive has a stack within its heap.
LEMMA SetUpStack ==
  ASSUME NEW h, IsMem(h), NEW p \in Procs, h.proc[p].prot = "rw", service \in Flags,
         Chain(h.proc[p].stack, h.proc[p].blocks), h.proc[p].at = "begin", ~ h.proc[p].live,
         h.proc[p].region \in Regions, Listener \in Procs, p # Listener
  PROVE  ReadyToRun(h, SetUp(h, p), p)
<1> DEFINE t  == SetUp(h, p)
           f  == [h EXCEPT !.proc[p].privileged = service.privileged,
                           !.proc[p].isolated = service.isolated]
           th == Thread(f, p)
<1> SUFFICES /\ t.free_procs = h.free_procs
             /\ t.proc[p].live => Held(t.proc[p])
             /\ \A q \in Procs \ {p} :
                  /\ t.proc[q].stack = h.proc[q].stack /\ t.proc[q].blocks = h.proc[q].blocks
                  /\ t.proc[q].live = h.proc[q].live
                  /\ IF q = Listener THEN t.proc[q].at \in {h.proc[q].at, "end"}
                     ELSE t.proc[q].at = h.proc[q].at
  BY DEF ReadyToRun
<1>1. service.privileged \in BOOLEAN /\ service.isolated \in BOOLEAN
  BY DEF Flags
<1>2. IsMem(f)
  BY <1>1 DEF IsMem, IsProc
<1>3. /\ f.free_procs = h.free_procs /\ \A q \in Procs \ {p} : f.proc[q] = h.proc[q]
      /\ f.proc[p].stack = h.proc[p].stack /\ f.proc[p].blocks = h.proc[p].blocks
      /\ f.proc[p].at = "begin" /\ ~ f.proc[p].live /\ f.proc[p].prot = "rw"
  BY DEF IsMem, IsProc
<1>4. t = IF ~ CanAlloc(h, p, ThreadLen) THEN Goto(f, Listener, "end")
          ELSE IF ~ CanCopy(th, p, ServiceLen) THEN Goto(th, Listener, "end")
          ELSE Started(th, p)
  <2>1. Enter(f, p) = f
    BY <1>3 DEF Enter
  <2> QED
    BY <2>1 DEF SetUp
<1> HIDE DEF f, t
<1>5. \A x : IsMem(x) /\ x.free_procs = h.free_procs /\ ~ x.proc[p].live
              /\ (\A q \in Procs \ {p} : x.proc[q] = h.proc[q]) /\ t = Goto(x, Listener, "end") =>
        /\ t.free_procs = h.free_procs /\ ~ t.proc[p].live
        /\ \A q \in Procs \ {p} :
             /\ t.proc[q].stack = h.proc[q].stack /\ t.proc[q].blocks = h.proc[q].blocks
             /\ t.proc[q].live = h.proc[q].live
             /\ IF q = Listener THEN t.proc[q].at \in {h.proc[q].at, "end"}
                ELSE t.proc[q].at = h.proc[q].at
  BY DEF Goto, IsMem, IsProc
<1>6. CASE ~ CanAlloc(h, p, ThreadLen)
  <2>1. t = Goto(f, Listener, "end")
    BY <1>4, <1>6
  <2> QED
    BY <1>2, <1>3, <1>5, <2>1 DEF t
<1>7. CASE CanAlloc(h, p, ThreadLen)
  <2>1. CanAlloc(f, p, ThreadLen)
    BY <1>3, <1>7 DEF CanAlloc
  <2>2. /\ OnStack(f, th, p) /\ Chain(th.proc[p].stack, th.proc[p].blocks)
        /\ th.proc[p].stack.cursor <= th.proc[p].stack.stop
        /\ th.proc[p].self = th.proc[p].stack.cursor
    BY <1>2, <1>3, <2>1, ThreadStack
  <2> HIDE DEF th
  <2>3. /\ IsMem(th) /\ th.free_procs = h.free_procs /\ th.proc[p].at = "begin" /\ ~ th.proc[p].live
        /\ \A q \in Procs \ {p} : th.proc[q] = h.proc[q]
    BY <1>3, <2>2 DEF OnStack
  <2>4. CASE ~ CanCopy(th, p, ServiceLen)
    <3>1. t = Goto(th, Listener, "end")
      BY <1>4, <1>7, <2>4
    <3> QED
      BY <1>5, <2>3, <3>1 DEF t
  <2>5. CASE CanCopy(th, p, ServiceLen)
    <3> DEFINE c == CopyArg(th, p, ServiceLen)
               u == [c EXCEPT !.proc[p].live = TRUE]
    <3>1. t = Exit(u, p)
      BY <1>4, <1>7, <2>5 DEF Started
    <3>2. /\ OnStack(th, c, p) /\ Chain(c.proc[p].stack, c.proc[p].blocks)
          /\ c.proc[p].stack.cursor = th.proc[p].stack.cursor
          /\ c.proc[p].stack.stop = th.proc[p].stack.stop
      BY <2>2, <2>3, CopyStack
    <3>3. c.proc[p].region = th.proc[p].region /\ c.proc[p].prot = th.proc[p].prot
      BY <2>3, CopyArgOwners DEF SameOwners, SameHeaps
    <3> HIDE DEF c
    <3>4. IsMem(c)
      BY <3>2 DEF OnStack
    <3>5. /\ IsMem(u) /\ u.free_procs = c.free_procs /\ \A q \in Procs \ {p} : u.proc[q] = c.proc[q]
      <4> DEFINE pr == [c.proc[p] EXCEPT !.live = TRUE]
      <4>a. IsProc(pr)
        BY <3>4 DEF IsMem, IsProc
      <4>b. u = [c EXCEPT !.proc[p] = pr]
        BY <3>4 DEF IsMem, IsProc
      <4> HIDE DEF pr, u
      <4>1. Replaced(c, u, p, pr)
        BY <3>4, <4>a, <4>b, ProcReplaced
      <4> QED
        BY <4>1 DEF Replaced
    <3>6. /\ u.proc[p].stack = c.proc[p].stack /\ u.proc[p].blocks = c.proc[p].blocks
          /\ u.proc[p].at = c.proc[p].at
      BY <3>4 DEF IsMem, IsProc
    <3>7. /\ t.free_procs = u.free_procs
          /\ \A q \in Procs : /\ t.proc[q].stack = u.proc[q].stack /\ t.proc[q].blocks = u.proc[q].blocks
                               /\ t.proc[q].at = u.proc[q].at /\ t.proc[q].live = u.proc[q].live
      <4> HIDE DEF u
      <4> QED
        BY <3>1, <3>5 DEF Exit, IsMem, IsProc
    <3> HIDE DEF u
    <3>8. /\ t.proc[p].stack = c.proc[p].stack /\ t.proc[p].blocks = c.proc[p].blocks
          /\ t.proc[p].at = "begin" /\ t.free_procs = h.free_procs
      BY <2>3, <3>2, <3>5, <3>6, <3>7 DEF OnStack
    <3>9. Held(t.proc[p])
      BY <2>2, <3>2, <3>8 DEF Held
    <3>10. \A q \in Procs \ {p} : u.proc[q] = h.proc[q]
      BY <2>3, <3>2, <3>5 DEF OnStack
    <3> QED
      BY <3>7, <3>8, <3>9, <3>10 DEF t
  <2> QED
    BY <2>4, <2>5
<1> QED
  BY <1>6, <1>7

----------------------------------------------------------------------------
(* The invariant is inductive *)

\* vk_echo leaves the link word at the end of its buffers alone.
RoomForLink == SafeAlignedlen(1, BufLen) = Fail \/ SafeAlignedlen(1, BufLen) >= BufLen + Word

\* The listener starts with its thread, its socket and its argument.
LEMMA InitStackInv == Init => StackInv(m)
<1> SUFFICES ASSUME Init PROVE StackInv(m)
  OBVIOUS
<1> USE ListenerSlot
<1> DEFINE L  == Count + 1
           fp == [i \in 1 .. ProcMax - 1 |-> i]
           fe == [i \in 1 .. Count |-> i]
           pr == [r \in Regions |-> CASE r = Kern -> "rw" [] r \in Entries -> "none"
                                       [] OTHER -> "unmapped"]
<1>1. PICK hd \in {"none", "rw"} :
        LET empty == [free_procs |-> fp, free_entries |-> fe, proc |-> [p \in Procs |-> Cleared],
                      prot |-> pr, kern_hd |-> hd, window |-> FALSE, block |-> FALSE]
            mapped == Private(empty, Listener, L, PageSize * ListenerPages)
            ready  == CopyArg(Thread(mapped, Listener), Listener, ServiceLen)
        IN m = [ready EXCEPT !.proc[Listener].privileged = TRUE,
                             !.proc[Listener].isolated = service.isolated,
                             !.proc[Listener].live = TRUE]
  BY DEF Init
<1> DEFINE e == [free_procs |-> fp, free_entries |-> fe, proc |-> [p \in Procs |-> Cleared],
                 prot |-> pr, kern_hd |-> hd, window |-> FALSE, block |-> FALSE]
           st == NewStack(PageSize * ListenerPages)
           y  == [e EXCEPT !.prot[L] = "rw", !.proc[Listener].region = L,
                           !.proc[Listener].prot = "rw", !.proc[Listener].stack = st]
           a  == Alloc(y, Listener, LocalLen)
           d  == Thread(a, Listener)
           f  == CopyArg(d, Listener, ServiceLen)
<1>2. m = [f EXCEPT !.proc[Listener].privileged = TRUE,
                    !.proc[Listener].isolated = service.isolated,
                    !.proc[Listener].live = TRUE]
  BY <1>1 DEF Private
<1>3. /\ L \in Regions /\ LocalLen \in Size \ {0}
      /\ fp \in Seq(Procs) /\ fe \in Seq(Entries)
      /\ pr \in [Regions -> {"none", "rw", "unmapped"}]
  <2>1. L \in Regions
    BY MemoryAssumption, RegionsApart DEF Maps
  <2>2. \A i \in 1 .. ProcMax - 1 : fp[i] \in Procs
    BY MemoryAssumption DEF Procs
  <2>3. fp \in Seq(Procs) /\ fe \in Seq(Entries)
    BY <2>2, MemoryAssumption DEF Entries
  <2> QED
    BY <2>1, <2>3, MemoryAssumption
<1>4. Chain(st, << >>) /\ st.cursor <= st.stop
  <2>1. PageSize * ListenerPages \in Nat
    BY MemoryAssumption, SizeTypes
  <2>2. st.cursor = 0 /\ st.stop = PageSize * ListenerPages
    BY DEF NewStack
  <2> QED
    BY <2>1, <2>2, NewChain
<1> HIDE DEF st, fp, fe, pr, L
<1>5. IsProc(Cleared) /\ ~ Cleared.live /\ Cleared.blocks = << >> /\ Cleared.at = "begin"
  BY ClearedType DEF Cleared
<1>6. IsMem(e) /\ \A p \in Procs : e.proc[p] = Cleared
  BY <1>3, <1>5 DEF IsMem
<1> HIDE DEF e
<1>7. /\ \A p \in Procs \ {Listener} : y.proc[p] = Cleared
      /\ y.proc[Listener].stack = st /\ y.proc[Listener].blocks = << >>
      /\ y.proc[Listener].at = "begin" /\ y.proc[Listener].prot = "rw"
      /\ y.proc[Listener].region = L
  BY <1>5, <1>6 DEF IsMem, IsProc
<1>8. IsMem(y)
  <2>1. /\ DOMAIN y = DOMAIN e /\ DOMAIN y.proc = Procs /\ y.kern_hd = e.kern_hd
        /\ y.free_procs = e.free_procs /\ y.free_entries = e.free_entries
        /\ y.window = e.window /\ y.block = e.block /\ y.prot = [e.prot EXCEPT ![L] = "rw"]
    BY <1>6 DEF IsMem
  <2>2. /\ DOMAIN y.proc[Listener] = DOMAIN e.proc[Listener]
        /\ y.proc[Listener].privileged = e.proc[Listener].privileged
        /\ y.proc[Listener].isolated = e.proc[Listener].isolated
        /\ y.proc[Listener].live = e.proc[Listener].live
        /\ y.proc[Listener].entry = e.proc[Listener].entry
    BY <1>6 DEF IsMem, IsProc
  <2> HIDE DEF y
  <2>3. IsProc(y.proc[Listener])
    BY <1>3, <1>5, <1>6, <1>7, <2>2 DEF IsProc
  <2>4. y.prot \in [Regions -> {"none", "rw", "unmapped"}]
    BY <1>3, <1>6, <2>1 DEF IsMem
  <2> QED
    BY <1>5, <1>6, <1>7, <2>1, <2>3, <2>4 DEF IsMem
<1> HIDE DEF y
<1>9. /\ OnStack(y, a, Listener) /\ Chain(a.proc[Listener].stack, a.proc[Listener].blocks)
      /\ a.proc[Listener].stack.cursor <= a.proc[Listener].stack.stop
  BY <1>3, <1>4, <1>7, <1>8, AllocStack
<1>10. a.proc[Listener].prot = "rw"
  BY <1>7, <1>8, AllocOwners DEF SameOwners, SameHeaps
<1> HIDE DEF a
<1>11. IsMem(a)
  BY <1>9 DEF OnStack
<1>12. /\ OnStack(a, d, Listener) /\ Chain(d.proc[Listener].stack, d.proc[Listener].blocks)
       /\ d.proc[Listener].stack.cursor <= d.proc[Listener].stack.stop
       /\ d.proc[Listener].self = d.proc[Listener].stack.cursor
  BY <1>9, <1>10, <1>11, ThreadStack
<1> HIDE DEF d
<1>13. IsMem(d)
  BY <1>12 DEF OnStack
<1>14. /\ OnStack(d, f, Listener) /\ Chain(f.proc[Listener].stack, f.proc[Listener].blocks)
       /\ f.proc[Listener].stack.cursor = d.proc[Listener].stack.cursor
       /\ f.proc[Listener].stack.stop = d.proc[Listener].stack.stop
  BY <1>12, <1>13, CopyStack
<1> HIDE DEF f
<1>15. /\ IsMem(f) /\ f.proc[Listener].at = "begin"
       /\ \A p \in Procs \ {Listener} : f.proc[p] = Cleared
  BY <1>7, <1>9, <1>12, <1>14 DEF OnStack
<1>16. /\ m.proc[Listener].stack = f.proc[Listener].stack
       /\ m.proc[Listener].blocks = f.proc[Listener].blocks
       /\ m.proc[Listener].at = "begin" /\ m.proc[Listener].live
       /\ \A p \in Procs \ {Listener} : m.proc[p] = Cleared
  BY <1>2, <1>15 DEF IsMem, IsProc
<1>17. Held(m.proc[Listener])
  BY <1>12, <1>14, <1>16 DEF Held
<1>18. Listed(m.free_procs) \subseteq Procs \ {Listener}
  <2>1. OwnerInv(m)
    BY InitIInv DEF IInv
  <2>2. Listed(m.free_procs) \subseteq Procs
    BY <2>1, ListedTypes DEF OwnerInv
  <2> QED
    BY <1>16, <2>1, <2>2 DEF OwnerInv
<1> QED
  BY <1>5, <1>16, <1>17, <1>18 DEF StackInv

\* A step of the coroutine of live process p.
LEMMA StepStackInv ==
  ASSUME NEW s, NEW t, OwnerInv(s), StackInv(s), NEW p \in Procs, s.proc[p].live,
         t.free_procs = s.free_procs, Held(t.proc[p]),
         \A q \in Procs \ {p} :
           /\ t.proc[q].stack = s.proc[q].stack /\ t.proc[q].blocks = s.proc[q].blocks
           /\ t.proc[q].live = s.proc[q].live /\ t.proc[q].at = s.proc[q].at
  PROVE  StackInv(t)
<1>1. Listed(s.free_procs) \subseteq Procs /\ p \notin Listed(s.free_procs)
  BY ListedTypes DEF OwnerInv
<1>2. \A q \in Procs \ {p} : Held(s.proc[q]) => Held(t.proc[q])
  BY DEF Held
<1> QED
  BY <1>1, <1>2 DEF StackInv

\* vk_echo fills its buffers and pops them: the link word is as the push left
\* it, and the blocks below are not reached.
LEMMA EchoLineStack ==
  ASSUME RoomForLink, NEW st, NEW b, Chain(st, b), b # << >>, b[Len(b)].want = BufLen
  PROVE  LET t == Pop(Store(st, b[Len(b)].addr, BufLen))
         IN /\ Chain(t, SubSeq(b, 1, Len(b) - 1))
            /\ t.stop = st.stop /\ t.cursor <= st.cursor
<1> DEFINE n == Len(b)
           a == b[n].addr
           u == Store(st, a, BufLen)
<1>1. n \in Nat \ {0} /\ DOMAIN b = 1 .. n /\ n \in DOMAIN b /\ b[n] \in Block
  BY DEF Chain
<1>2. a \in Nat /\ a = (IF n = 1 THEN 0 ELSE End(b[n - 1])) /\ End(b[n]) \in Nat
      /\ End(b[n]) >= a + BufLen
  <2>1. a \in Nat
    BY <1>1 DEF Block
  <2>2. a = (IF n = 1 THEN 0 ELSE End(b[n - 1])) /\ End(b[n]) \in 0 .. st.stop
        /\ End(b[n]) >= a + BufLen /\ st.stop \in Int
    BY <1>1 DEF Chain
  <2> QED
    BY <2>1, <2>2
<1>3. Word \in Nat /\ BufLen \in Nat /\ BufLen > 0 /\ BufLen \in Size
  BY StackAssumption, MemoryAssumption, SizeTypes, SMTT(30) DEF Size
<1>4. ASSUME NEW i \in DOMAIN b PROVE ~ (a < End(b[i]) /\ End(b[i]) - Word < a + BufLen)
  <2>1. CASE i = n
    <3>1. End(b[n]) = a + SafeAlignedlen(1, BufLen)
      BY DEF End
    <3>2. SafeAlignedlen(1, BufLen) >= BufLen + Word
      <4>1. SafeAlignedlen(1, BufLen) # Fail
        BY <1>2, <1>3, <3>1 DEF Fail
      <4> QED
        BY <4>1 DEF RoomForLink
    <3>3. SafeAlignedlen(1, BufLen) \in Int
      <4>1. \A x : x \in Size \/ x = Fail => x \in Int
        BY SizeTypes DEF Size, Fail
      <4> QED
        BY <1>3, <4>1, AlignedOne
    <3> HIDE DEF n, a
    <3> QED
      BY <1>2, <1>3, <2>1, <3>1, <3>2, <3>3
  <2>2. CASE i # n
    <3>1. n # 1 /\ n - 1 \in DOMAIN b /\ i <= n - 1 /\ i \in Nat
      BY <1>1, <2>2
    <3>2. i < n - 1 => End(b[i]) < End(b[n - 1])
      BY <3>1 DEF Chain
    <3>3. End(b[i]) \in Nat
      BY DEF Chain
    <3>4. End(b[i]) <= a
      <4>1. a = End(b[n - 1])
        BY <1>2, <3>1
      <4> QED
        BY <1>1, <1>2, <3>1, <3>2, <3>3, <4>1
    <3> QED
      BY <1>2, <3>3, <3>4
  <2> QED
    BY <2>1, <2>2
<1>5. Chain(u, b) /\ u.cursor = st.cursor /\ u.stop = st.stop
  BY <1>4, StoreChain
<1> HIDE DEF u
<1>6. /\ Chain(Pop(u), SubSeq(b, 1, Len(b) - 1))
      /\ Pop(u).stop = u.stop /\ Pop(u).cursor <= u.cursor
  BY <1>5, PopChain
<1> QED
  BY <1>5, <1>6 DEF u

\* Whatever a coroutine returns, the other stacks are untouched.
LEMMA LeaveStackInv ==
  ASSUME NEW s, NEW p \in Procs, NEW ended \in BOOLEAN, OwnerInv(s), KernInv(s), s.proc[p].live,
         StackInv(s)
  PROVE  StackInv(Leave(s, p, ended))
<1> DEFINE open == OpenGate(s)
           kern == IF s.proc[p].privileged THEN open ELSE KernEnter(open)
           t    == Leave(s, p, ended)
<1>1. IsMem(s)
  BY DEF OwnerInv
<1>2. Untouched(s, open) /\ SameHeaps(s, open) /\ KernInv(open)
  BY <1>1, KernUntouched, OpenGateOpens DEF KernInv
<1>3. IsMem(open)
  BY <1>2 DEF SameHeaps
<1> HIDE DEF open
<1>4. Untouched(open, kern) /\ SameHeaps(open, kern)
  <2>1. CASE s.proc[p].privileged
    BY <1>3, <2>1 DEF SameHeaps, Untouched
  <2>2. CASE ~ s.proc[p].privileged
    BY <1>2, <1>3, <2>2, KernEnterOpens, KernUntouched
  <2> QED
    BY <2>1, <2>2
<1>5. t = IF ended THEN Reap(Free(Free(kern, p), p), p)
          ELSE IF s.proc[p].isolated THEN Exit(kern, p) ELSE kern
  BY DEF Leave, open
<1> HIDE DEF kern, t
<1>6. /\ OwnerInv(kern) /\ kern.proc[p].live /\ IsMem(kern)
      /\ Untouched(s, kern) /\ kern.proc[p].region \in Regions
  <2>1. OwnerInv(open)
    BY <1>2, OwnerInvSame
  <2>2. OwnerInv(kern)
    BY <1>4, <2>1, OwnerInvSame
  <2>3. kern.proc[p].live
    BY <1>2, <1>4 DEF SameHeaps
  <2> QED
    BY <1>2, <1>4, <2>2, <2>3, LiveRegion, UntouchedTransitive
<1>7. CASE ~ ended
  <2>1. Untouched(kern, t)
    <3>1. CASE s.proc[p].isolated
      BY <1>5, <1>6, <1>7, <3>1, EnterUntouched
    <3>2. CASE ~ s.proc[p].isolated
      BY <1>5, <1>6, <1>7, <3>2 DEF Untouched
    <3> QED
      BY <3>1, <3>2
  <2>2. Untouched(s, t)
    BY <1>6, <2>1, UntouchedTransitive
  <2> QED
    BY <1>1, <2>2, UntouchedInv DEF t
<1>8. CASE ended
  <2> DEFINE f == Free(kern, p)
             g == Free(f, p)
  <2>1. SameOwners(kern, f) /\ OnStack(kern, f, p)
    <3>1. SameOwners(kern, f)
      BY <1>6, FreeOwners
    <3>2. OnStack(kern, f, p)
      BY <1>6, FreeStack
    <3> QED
      BY <3>1, <3>2
  <2>2. t = Reap(g, p)
    BY <1>5, <1>8
  <2> HIDE DEF f
  <2>3. IsMem(f)
    BY <2>1 DEF OnStack
  <2>4. SameOwners(f, g) /\ OnStack(f, g, p)
    <3>1. SameOwners(f, g)
      BY <2>3, FreeOwners
    <3>2. OnStack(f, g, p)
      BY <2>3, FreeStack
    <3> QED
      BY <3>1, <3>2
  <2> HIDE DEF g
  <2>5. OwnerInv(g) /\ g.proc[p].live
    <3>1. OwnerInv(f)
      BY <1>6, <2>1, OwnerInvSame DEF SameOwners
    <3> QED
      BY <1>6, <2>1, <2>4, <3>1, OwnerInvSame DEF SameOwners, SameHeaps
  <2>6. Reaped(g, t, p)
    BY <2>2, <2>5, ReapResult
  <2>7. t.proc[p] = Cleared
    <3> DEFINE w == IF g.proc[p].entry # Null
                    THEN Exit([g EXCEPT !.free_entries = << g.proc[p].entry >> \o @], p)
                    ELSE Unmap(g, p)
    <3>1. t = FreeProc(w, p)
      BY <2>2 DEF Reap
    <3>2. "proc" \in DOMAIN w /\ DOMAIN w.proc = Procs /\ "free_procs" \in DOMAIN w
      <4>1. IsMem(g)
        BY <2>5 DEF OwnerInv
      <4> QED
        BY <4>1 DEF IsMem, Exit, Unmap
    <3> HIDE DEF w
    <3> DEFINE c == Cleared
    <3>3. t = [w EXCEPT !.free_procs = << p >> \o @, !.proc[p] = c]
      BY <3>1 DEF FreeProc
    <3> HIDE DEF c
    <3>4. t.proc[p] = c
      BY <3>2, <3>3
    <3> QED
      BY <3>4 DEF c
  <2>8. Cleared.blocks = << >> /\ Cleared.at = "begin" /\ ~ Cleared.live
    BY DEF Cleared
  <2>9. Listed(t.free_procs) = {p} \cup Listed(s.free_procs)
    <3>1. g.free_procs = s.free_procs
      BY <1>6, <2>1, <2>4 DEF OnStack, Untouched
    <3>2. s.free_procs \in Seq(Procs)
      BY <1>1 DEF IsMem
    <3> QED
      BY <2>6, <3>1, <3>2, ListedCons DEF Reaped
  <2>10. \A q \in Procs \ {p} :
           /\ t.proc[q].stack = s.proc[q].stack /\ t.proc[q].blocks = s.proc[q].blocks
           /\ t.proc[q].live = s.proc[q].live /\ t.proc[q].at = s.proc[q].at
    BY <1>6, <2>1, <2>4, <2>6 DEF OnStack, Untouched, Reaped
  <2>11. \A q \in Procs \ {p} : Held(s.proc[q]) => Held(t.proc[q])
    BY <2>10 DEF Held
  <2>12. Listed(s.free_procs) \subseteq Procs
    BY <1>1, ListedTypes
  <2>13. StackInv(t)
    BY <2>7, <2>8, <2>9, <2>10, <2>11, <2>12 DEF StackInv
  <2> QED
    BY <2>13 DEF t
<1> QED
  BY <1>7, <1>8

\* A connection's process comes alive with a stack, or the listener ends.
LEMMA AcceptStackInv == IInv /\ StackInv(m) /\ Accept => StackInv(m')
<1> SUFFICES ASSUME IInv, StackInv(m), Accept PROVE StackInv(m')
  OBVIOUS
<1> USE ListenerSlot
<1>1. mode = "user" /\ who = Listener /\ m.proc[Listener].at = "listen"
  BY DEF Accept, Running
<1>2. /\ OwnerInv(m) /\ service \in Flags /\ IsMem(m) /\ m.proc[Listener].live
  BY <1>1 DEF IInv, OwnerInv, ModeInv
<1>3. Held(m.proc[Listener])
  BY <1>2 DEF StackInv
<1>4. CASE m' = Goto(m, Listener, "end")
  <2>1. /\ m'.free_procs = m.free_procs
        /\ m'.proc[Listener].stack = m.proc[Listener].stack
        /\ m'.proc[Listener].blocks = m.proc[Listener].blocks /\ m'.proc[Listener].at = "end"
        /\ \A q \in Procs \ {Listener} : m'.proc[q] = m.proc[q]
    BY <1>2, <1>4 DEF Goto, IsMem, IsProc
  <2>2. Held(m'.proc[Listener])
    BY <1>3, <2>1 DEF Held
  <2> QED
    BY <1>2, <2>1, <2>2, StepStackInv
<1>5. CASE m.free_procs # << >>
        /\ m' = Goto([m EXCEPT !.free_procs = Tail(@)], Listener, "end")
  <2> DEFINE x == [m EXCEPT !.free_procs = Tail(@)]
  <2>1. m.free_procs \in Seq(Procs)
    BY <1>2 DEF IsMem
  <2>2. Listed(Tail(m.free_procs)) \subseteq Listed(m.free_procs)
        /\ Tail(m.free_procs) \in Seq(Procs)
    BY <1>5, <2>1, ListedTail
  <2>3. IsMem(x) /\ x.free_procs = Tail(m.free_procs) /\ x.proc = m.proc
    BY <1>2, <2>2 DEF IsMem
  <2>4. m' = Goto(x, Listener, "end")
    BY <1>5
  <2> HIDE DEF x
  <2>5. /\ m'.free_procs = x.free_procs
        /\ m'.proc[Listener].stack = m.proc[Listener].stack
        /\ m'.proc[Listener].blocks = m.proc[Listener].blocks /\ m'.proc[Listener].at = "end"
        /\ \A q \in Procs \ {Listener} : m'.proc[q] = m.proc[q]
    BY <2>3, <2>4 DEF Goto, IsMem, IsProc
  <2>6. Held(m'.proc[Listener])
    BY <1>3, <2>5 DEF Held
  <2>7. Listed(m.free_procs) \subseteq Procs \ {Listener}
    BY <1>2, ListedTypes DEF OwnerInv
  <2> QED
    BY <2>2, <2>3, <2>5, <2>6, <2>7 DEF StackInv
<1>6. ASSUME m.free_procs # << >>,
             NEW h \in Heaps([m EXCEPT !.free_procs = Tail(@)], Head(m.free_procs)),
             m' = SetUp(h, Head(m.free_procs))
      PROVE  StackInv(m')
  <2> DEFINE p == Head(m.free_procs)
  <2>1. m.free_procs \in Seq(Procs) /\ Distinct(m.free_procs)
    BY <1>2 DEF IsMem, OwnerInv
  <2>2. /\ p \in Procs /\ Listed(m.free_procs) = {p} \cup Listed(Tail(m.free_procs))
        /\ p \notin Listed(Tail(m.free_procs))
    BY <1>6, <2>1, ListedTail
  <2>3. p # Listener /\ Listener \notin Listed(m.free_procs)
    BY <1>2, <2>2 DEF OwnerInv
  <2>4. h \in Heaps([m EXCEPT !.free_procs = Tail(@)], p) /\ p = Head(m.free_procs)
        /\ m' = SetUp(h, p)
    BY <1>6
  <2> HIDE DEF p
  <2>5. /\ IsMem(h) /\ h.free_procs = Tail(m.free_procs) /\ h.proc[p].prot = "rw"
        /\ \A q \in Procs \ {p} : h.proc[q] = m.proc[q]
        /\ Chain(h.proc[p].stack, h.proc[p].blocks)
        /\ h.proc[p].at = "begin" /\ ~ h.proc[p].live
    <3>1. NewHeap(m, h, p)
      BY <1>2, <1>6, <2>2, <2>4, HeapStack
    <3> QED
      BY <3>1 DEF NewHeap
  <2>6. h.proc[p].region \in Regions
    <3>1. PICK r : Taken(m, h, p, r)
      BY <1>2, <1>6, <2>2, <2>4, HeapTaken
    <3> QED
      BY <3>1, RegionsApart DEF Taken
  <2>7. /\ m'.free_procs = h.free_procs
        /\ m'.proc[p].live => Held(m'.proc[p])
        /\ \A q \in Procs \ {p} :
             /\ m'.proc[q].stack = h.proc[q].stack /\ m'.proc[q].blocks = h.proc[q].blocks
             /\ m'.proc[q].live = h.proc[q].live
             /\ IF q = Listener THEN m'.proc[q].at \in {h.proc[q].at, "end"}
                ELSE m'.proc[q].at = h.proc[q].at
    <3>1. service \in Flags /\ Listener \in Procs
      BY <1>2
    <3>2. ReadyToRun(h, SetUp(h, p), p)
      BY <2>2, <2>3, <2>5, <2>6, <3>1, SetUpStack
    <3> QED
      BY <2>4, <3>2 DEF ReadyToRun
  <2>8. \A q \in Procs \ {p} : Held(m.proc[q]) => Held(m'.proc[q])
    BY <2>5, <2>7 DEF Held
  <2>9. Listed(m.free_procs) \subseteq Procs
    BY <1>2, ListedTypes
  <2> QED
    BY <2>2, <2>3, <2>5, <2>7, <2>8, <2>9 DEF StackInv
<1> QED
  BY <1>4, <1>5, <1>6 DEF Accept

\* A coroutine raises: nothing but its resume point changes.
LEMMA EndStackInv ==
  ASSUME NEW s, NEW t, NEW p \in Procs, OwnerInv(s), StackInv(s), s.proc[p].live,
         t = Goto(s, p, "end")
  PROVE  StackInv(t)
<1>1. IsMem(s)
  BY DEF OwnerInv
<1>2. /\ t.free_procs = s.free_procs /\ t.proc[p].stack = s.proc[p].stack
      /\ t.proc[p].blocks = s.proc[p].blocks /\ t.proc[p].at = "end"
      /\ \A q \in Procs \ {p} : t.proc[q] = s.proc[q]
  BY <1>1 DEF Goto, IsMem, IsProc
<1>3. Held(t.proc[p])
  BY <1>2 DEF StackInv, Held
<1> QED
  BY <1>2, <1>3, StepStackInv

\* A coroutine pushes a block and goes on, to "line" only with vk_echo's
\* buffers.
LEMMA PushStackInv ==
  ASSUME NEW s, NEW t, NEW p \in Procs, OwnerInv(s), StackInv(s), s.proc[p].live,
         NEW n \in Size \ {0}, CanAlloc(s, p, n),
         t.free_procs = Alloc(s, p, n).free_procs,
         t.proc[p].stack = Alloc(s, p, n).proc[p].stack,
         t.proc[p].blocks = Alloc(s, p, n).proc[p].blocks,
         t.proc[p].at = "line" => n = BufLen,
         \A q \in Procs \ {p} : t.proc[q] = Alloc(s, p, n).proc[q]
  PROVE  StackInv(t)
<1> DEFINE u == Alloc(s, p, n)
<1>1. IsMem(s) /\ Held(s.proc[p])
  BY DEF OwnerInv, StackInv
<1>2. /\ OnStack(s, u, p) /\ Chain(u.proc[p].stack, u.proc[p].blocks)
      /\ u.proc[p].stack.cursor <= u.proc[p].stack.stop
      /\ u.proc[p].blocks # << >> /\ u.proc[p].blocks[Len(u.proc[p].blocks)].want = n
  BY <1>1, AllocStack DEF Held
<1>3. /\ t.free_procs = u.free_procs /\ t.proc[p].stack = u.proc[p].stack
      /\ t.proc[p].blocks = u.proc[p].blocks
      /\ \A q \in Procs \ {p} : t.proc[q] = u.proc[q]
  OBVIOUS
<1> HIDE DEF u
<1>4. Held(t.proc[p])
  BY <1>2, <1>3 DEF Held
<1>5. t.free_procs = s.free_procs /\ \A q \in Procs \ {p} : t.proc[q] = s.proc[q]
  BY <1>2, <1>3 DEF OnStack
<1> QED
  BY <1>4, <1>5, StepStackInv

\* A coroutine's own steps keep the stacks.
LEMMA CoroutineStackInv ==
  ASSUME RoomForLink, IInv, StackInv(m), NEW p \in Procs,
         Begin(p) \/ EchoCalloc(p) \/ EchoLine(p) \/ Return(p)
  PROVE  StackInv(m')
<1>1. mode = "user" /\ who = p
  BY DEF Begin, EchoCalloc, EchoLine, Return, Running
<1>2. OwnerInv(m) /\ KernInv(m) /\ IsMem(m) /\ m.proc[p].live
  BY <1>1 DEF IInv, OwnerInv, ModeInv
<1>3. Held(m.proc[p])
  BY <1>2 DEF StackInv
<1>4. {ListenerLen, EchoLen, BufLen} \subseteq Size \ {0}
  BY MemoryAssumption
<1>5. CASE Begin(p)
  <2>1. CASE CanAlloc(m, p, SelfLen(p))
    <3> DEFINE n == SelfLen(p)
               s == Alloc(m, p, n)
               c == m.proc[p].stack.cursor
               l == IF p = Listener THEN "listen" ELSE "top"
    <3>1. m' = [s EXCEPT !.proc[p].self = c, !.proc[p].at = l]
      BY <1>5, <2>1 DEF Begin
    <3>2. n \in Size \ {0} /\ l # "line"
      BY <1>4 DEF SelfLen
    <3>3. OnStack(m, s, p)
      <4> HIDE DEF n
      <4> QED
        BY <1>2, <1>3, <3>2, AllocStack DEF Held
    <3>4. IsMem(s)
      BY <3>3 DEF OnStack
    <3> HIDE DEF s, c, l
    <3>5. /\ m'.free_procs = s.free_procs /\ m'.proc[p].stack = s.proc[p].stack
          /\ m'.proc[p].blocks = s.proc[p].blocks /\ m'.proc[p].at = l
          /\ \A q \in Procs \ {p} : m'.proc[q] = s.proc[q]
      BY <3>1, <3>4 DEF IsMem, IsProc
    <3> HIDE DEF n
    <3> QED
      BY <1>2, <2>1, <3>2, <3>5, PushStackInv DEF s, n
  <2>2. CASE ~ CanAlloc(m, p, SelfLen(p))
    <3>1. m' = Goto(m, p, "end")
      BY <1>5, <2>2 DEF Begin
    <3> QED
      BY <1>2, <3>1, EndStackInv
  <2> QED
    BY <2>1, <2>2
<1>6. CASE EchoCalloc(p)
  <2>1. CASE CanAlloc(m, p, BufLen)
    <3> DEFINE s == Alloc(m, p, BufLen)
    <3>1. m' = [s EXCEPT !.proc[p].at = "line"]
      BY <1>6, <2>1 DEF EchoCalloc, Goto
    <3>2. OnStack(m, s, p)
      BY <1>2, <1>3, <1>4, AllocStack DEF Held
    <3>3. IsMem(s)
      BY <3>2 DEF OnStack
    <3> HIDE DEF s
    <3>4. /\ m'.free_procs = s.free_procs /\ m'.proc[p].stack = s.proc[p].stack
          /\ m'.proc[p].blocks = s.proc[p].blocks
          /\ \A q \in Procs \ {p} : m'.proc[q] = s.proc[q]
      BY <3>1, <3>3 DEF IsMem, IsProc
    <3> QED
      BY <1>2, <1>4, <2>1, <3>4, PushStackInv DEF s
  <2>2. CASE ~ CanAlloc(m, p, BufLen)
    <3>1. m' = Goto(m, p, "end")
      BY <1>6, <2>2 DEF EchoCalloc
    <3> QED
      BY <1>2, <3>1, EndStackInv
  <2> QED
    BY <2>1, <2>2
<1>7. CASE EchoLine(p)
  <2> DEFINE st == m.proc[p].stack
             b  == m.proc[p].blocks
             u  == Store(st, b[Len(b)].addr, BufLen)
             v  == Pop(u)
             c  == SubSeq(b, 1, Len(b) - 1)
             s  == [m EXCEPT !.proc[p].stack = u]
             f  == Free(s, p)
  <2>1. b # << >> /\ b[Len(b)].want = BufLen /\ Chain(st, b) /\ st.cursor <= st.stop
        /\ st.cursor \in Nat /\ st.stop \in Int
    <3>1. m.proc[p].at = "line"
      BY <1>7 DEF EchoLine, Running
    <3> QED
      BY <1>3, <3>1 DEF Held, Chain
  <2>2. Chain(v, c) /\ v.stop = st.stop /\ v.cursor <= st.cursor
    <3> HIDE DEF st, b
    <3> QED
      BY <2>1, EchoLineStack
  <2>3. PICK l \in {"top", "end"} : m' = Goto(f, p, l)
    BY <1>7 DEF EchoLine
  <2> HIDE DEF u
  <2>4. /\ IsMem(s) /\ s.proc[p].stack = u /\ s.proc[p].blocks = b
        /\ s.free_procs = m.free_procs /\ \A q \in Procs \ {p} : s.proc[q] = m.proc[q]
    BY <1>2 DEF IsMem, IsProc
  <2>5. f = [s EXCEPT !.proc[p].stack = Pop(@),
                      !.proc[p].blocks = IF @ = << >> THEN @ ELSE SubSeq(@, 1, Len(@) - 1)]
    BY DEF Free
  <2> HIDE DEF s, f, b, st, v, c
  <2>6. /\ IsMem(f) /\ f.proc[p].stack = v /\ f.proc[p].blocks = c
        /\ f.free_procs = s.free_procs /\ \A q \in Procs \ {p} : f.proc[q] = s.proc[q]
    <3>1. f = [s EXCEPT !.proc[p].stack = v, !.proc[p].blocks = c]
      <4>1. Pop(s.proc[p].stack) = v
        BY <2>4 DEF v
      <4>2. s.proc[p].blocks # << >>
            /\ SubSeq(s.proc[p].blocks, 1, Len(s.proc[p].blocks) - 1) = c
        BY <2>1, <2>4 DEF c
      <4> QED
        BY <2>4, <2>5, <4>1, <4>2 DEF IsMem, IsProc
    <3> QED
      BY <2>4, <3>1 DEF IsMem, IsProc
  <2>7. /\ m'.free_procs = f.free_procs /\ m'.proc[p].stack = f.proc[p].stack
        /\ m'.proc[p].blocks = f.proc[p].blocks /\ m'.proc[p].at = l
        /\ \A q \in Procs \ {p} : m'.proc[q] = f.proc[q]
    BY <2>3, <2>6 DEF Goto, IsMem, IsProc
  <2>8. v.cursor <= v.stop
    BY <2>1, <2>2 DEF Chain
  <2>9. Held(m'.proc[p])
    BY <2>2, <2>3, <2>6, <2>7, <2>8 DEF Held
  <2>10. m'.free_procs = m.free_procs /\ \A q \in Procs \ {p} : m'.proc[q] = m.proc[q]
    BY <2>4, <2>6, <2>7
  <2> QED
    BY <1>2, <2>9, <2>10, StepStackInv
<1>8. CASE Return(p)
  <2>1. PICK ended \in BOOLEAN : m' = Leave(m, p, ended)
    BY <1>8 DEF Return
  <2> QED
    BY <1>2, <2>1, LeaveStackInv
<1> QED
  BY <1>5, <1>6, <1>7, <1>8

\* Every step keeps the stacks, if vk_echo leaves its link word alone.
LEMMA NextStackInv ==
  ASSUME RoomForLink, IInv, StackInv(m), [Next]_vars
  PROVE  StackInv(m')
<1> USE ListenerSlot
<1>1. /\ service \in Flags /\ OwnerInv(m) /\ KernInv(m) /\ ModeInv(m, mode, who)
      /\ IsMem(m) /\ who \in Procs
  BY DEF IInv, OwnerInv, ModeInv
<1>2. CASE Fault
  <2> DEFINE a == KernEnter(m)
             b == OpenGate(a)
             c == Enter(b, who)
  <2>1. mode = "user" /\ m' = [c EXCEPT !.proc[who].at = "end"]
    BY <1>2 DEF Fault, Jumper
  <2>2. m.proc[who].live
    BY <1>1, <2>1 DEF ModeInv
  <2>3. Untouched(m, a) /\ SameHeaps(m, a)
    BY <1>1, KernUntouched, KernEnterOpens
  <2>4. IsMem(a)
    BY <2>3 DEF SameHeaps
  <2> HIDE DEF a
  <2>5. Untouched(a, b) /\ SameHeaps(a, b)
    BY <2>4, KernUntouched, OpenGateOpens
  <2>6. IsMem(b) /\ b.proc[who].region \in Regions
    BY <1>1, <2>2, <2>3, <2>5, LiveRegion DEF SameHeaps
  <2> HIDE DEF b
  <2>7. Untouched(b, c)
    BY <1>1, <2>6, EnterUntouched
  <2> HIDE DEF c
  <2>8. Untouched(m, c) /\ IsMem(c)
    BY <2>3, <2>5, <2>7, UntouchedTransitive DEF Untouched
  <2>9. /\ m'.free_procs = c.free_procs /\ m'.proc[who].stack = c.proc[who].stack
        /\ m'.proc[who].blocks = c.proc[who].blocks /\ m'.proc[who].at = "end"
        /\ \A q \in Procs \ {who} : m'.proc[q] = c.proc[q]
    <3>1. IsMem(c)
      BY <2>8
    <3> QED
      BY <1>1, <2>1, <3>1 DEF IsMem, IsProc
  <2>10. Held(m'.proc[who])
    BY <1>1, <2>2, <2>8, <2>9 DEF StackInv, Held, Untouched
  <2> QED
    BY <1>1, <2>2, <2>8, <2>9, <2>10, StepStackInv DEF Untouched
<1>3. CASE Reexecute
  <2>1. mode = "jumper" /\ m' = Execute(m, who)
    BY <1>3 DEF Reexecute
  <2>2. m.proc[who].region \in Regions
    BY <1>1, <2>1, LiveRegion DEF ModeInv
  <2> QED
    BY <1>1, <2>1, <2>2, ExecuteUntouched, UntouchedInv
<1>4. CASE Trap
  <2>1. m' = OpenGate(m)
    BY <1>4 DEF Trap
  <2> QED
    BY <1>1, <2>1, KernUntouched, UntouchedInv
<1>5. CASE Dump
  <2>1. m'.free_procs = m.free_procs /\ m'.proc = m.proc
    BY <1>1, <1>5 DEF Dump, IsMem
  <2> QED
    BY <2>1 DEF StackInv
<1>6. CASE Accept
  BY <1>6, AcceptStackInv
<1>7. ASSUME NEW p \in Procs, Dispatch(p) PROVE StackInv(m')
  <2> DEFINE s == Enter(m, p)
  <2>1. m.proc[p].live /\ m' = Execute(s, p)
    BY <1>7 DEF Dispatch
  <2>2. m.proc[p].region \in Regions
    BY <1>1, <2>1, LiveRegion
  <2>3. Untouched(m, s) /\ Turned(m, s, p, "rw")
    BY <1>1, <2>1, <2>2, EnterUntouched, EnterLive
  <2> HIDE DEF s
  <2>4. IsMem(s) /\ s.proc[p].region \in Regions
    BY <2>2, <2>3 DEF Turned
  <2>5. Untouched(s, m')
    BY <1>1, <2>1, <2>4, ExecuteUntouched
  <2> QED
    BY <1>1, <2>3, <2>5, UntouchedTransitive, UntouchedInv
<1>8. ASSUME NEW p \in Procs, Begin(p) \/ EchoCalloc(p) \/ EchoLine(p) \/ Return(p)
      PROVE  StackInv(m')
  BY <1>8, CoroutineStackInv
<1>9. CASE UNCHANGED vars
  BY <1>9 DEF vars
<1> QED
  BY <1>2, <1>3, <1>4, <1>5, <1>6, <1>7, <1>8, <1>9 DEF Next

(***************************************************************************)
(* StackSound always holds where vk_echo's buffers leave the last word of  *)
(* their block alone: whatever connections, faults and refusals come, a    *)
(* vk_free gives back the last block of the process and nothing else.      *)
(***************************************************************************)
THEOREM StackSoundHolds == RoomForLink => (Spec => []StackSound)
<1> SUFFICES ASSUME RoomForLink PROVE Spec => []StackSound
  OBVIOUS
<1>1. Init => IInv /\ StackInv(m)
  BY InitIInv, InitStackInv
<1>2. IInv /\ StackInv(m) /\ [Next]_vars => IInv' /\ StackInv(m)'
  BY NextIInv, NextStackInv
<1>3. StackInv(m) => StackSound
  BY DEF StackInv, Held, Chain, StackSound, Live
<1> QED
  BY <1>1, <1>2, <1>3, PTL DEF Spec
=============================================================================
