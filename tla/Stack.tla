------------------------------- MODULE Stack -------------------------------
(***************************************************************************)
(* The sizes and the stack every micro-heap is allocated from: the         *)
(* overflow guards of vk_wrapguard.c, lengths rounded up to whole pages,   *)
(* and vk_stack.c, where each block ends in a link word that holds its     *)
(* length.  A size is a number of bytes below SizeMax + 1, and products    *)
(* and sums wrap there.                                                    *)
(*                                                                         *)
(* An address is an offset from the start of its mapping.  That the end of *)
(* a block wraps around the address space is left out: no mapping lies     *)
(* that high, and every request of the code is a small sizeof.             *)
(***************************************************************************)
EXTENDS Integers, Sequences

CONSTANTS SizeMax,         \* SIZE_MAX
          MulNoOverflow,   \* MUL_NO_OVERFLOW, the root of SizeMax + 1
          PageSize,        \* vk_pagesize()
          HugePage,        \* vk_huge_page_bytes()
          Word             \* sizeof(size_t)

ASSUME StackAssumption ==
  /\ MulNoOverflow \in Nat /\ MulNoOverflow > 1
  /\ SizeMax = MulNoOverflow * MulNoOverflow - 1
  /\ PageSize \in 1 .. SizeMax /\ HugePage \in 1 .. SizeMax
  /\ Word \in 1 .. PageSize

Size == 0 .. SizeMax
Fail == -1
Wrapped(n) == n % (SizeMax + 1)

----------------------------------------------------------------------------
(* vk_wrapguard.c *)

\* Whether vk_wrapguard_mult, or vk_wrapguard_add, refuses.
WrapguardMult(a, b) ==
  (a >= MulNoOverflow \/ b >= MulNoOverflow) /\ a > 0 /\ SizeMax \div a < b

WrapguardAdd(a, b) == Wrapped(a + b) < a \/ Wrapped(a + b) < b

SafeMult(a, b) == IF WrapguardMult(a, b) THEN Fail ELSE Wrapped(a * b)
SafeAdd(a, b)  == IF WrapguardAdd(a, b) THEN Fail ELSE Wrapped(a + b)

\* Seeded fault: a length that is no multiple of the page loses its tail.
PageLenShort(len) == len \div PageSize

\* The pages that hold len bytes.
PageLen(len) ==
  LET n == len \div PageSize IN IF n * PageSize < len THEN n + 1 ELSE n

SafePagelen(nmemb, count) ==
  LET len == SafeMult(nmemb, count) IN IF len = Fail THEN Fail ELSE PageLen(len)

SafeAlignedlen(nmemb, count) ==
  LET n == SafePagelen(nmemb, count) IN IF n = Fail THEN Fail ELSE SafeMult(n, PageSize)

\* vk_huge_aligned_len
HugeAlignedLen(nmemb, count) ==
  LET len == SafeMult(nmemb, count)
      n   == IF len % HugePage # 0 THEN SafeAdd(len \div HugePage, 1) ELSE len \div HugePage
  IN IF len = Fail THEN Fail
     ELSE IF n = Fail THEN Fail ELSE SafeMult(n, HugePage)

----------------------------------------------------------------------------
(* vk_stack.c *)

\* link[a] is the word that ends at address a.
NewStack(len) == [cursor |-> 0, stop |-> len, link |-> [a \in 0 .. len |-> 0]]

\* Whether a push returns a block rather than NULL.
Fits(s, nmemb, count) ==
  LET len == SafeAlignedlen(nmemb, count) IN len # Fail /\ s.cursor + len <= s.stop

\* vk_stack_push: the block starts where the cursor was, and ends in its link.
Push(s, nmemb, count) ==
  LET len == SafeAlignedlen(nmemb, count)
  IN IF Fits(s, nmemb, count)
     THEN [s EXCEPT !.cursor = s.cursor + len, !.link[s.cursor + len] = len]
     ELSE s

\* vk_stack_pop: ERANGE when nothing is left.
Pop(s) == IF s.cursor <= 0 THEN s ELSE [s EXCEPT !.cursor = s.cursor - s.link[s.cursor]]

\* Bytes written by the owner of memory: n of them from address a.  A link
\* word among them is lost.
Store(s, a, n) ==
  [s EXCEPT !.link =
     [e \in DOMAIN s.link |-> IF n > 0 /\ a < e /\ e - Word < a + n THEN SizeMax ELSE s.link[e]]]
=============================================================================
