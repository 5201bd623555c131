---------------------------- MODULE Http11Proofs ----------------------------
(***************************************************************************)
(* What holds of the HTTP service for every ring, entity and number of     *)
(* requests.  The invariant says where each coroutine may be and what it   *)
(* may be inside of there, and reads the pipe from the front: the rest of  *)
(* the entity the response is at, then struct after struct, each before    *)
(* its entity, up to what the request has still to write.                  *)
(***************************************************************************)
EXTENDS Http11, ResponderProofs

Described == [version : {"09", "10", "11", "20"}, method : {"GET", "POST", "PRI"},
              len : 0 .. MaxBody, chunked : BOOLEAN, close : BOOLEAN]
Requests  == {r \in Described : Framed(r)}

\* Where t goes on after operation o.
After(t, o) ==
  IF t = Request
  THEN CASE o = "READ"    -> {"method", "field", "chunkhead", "chunkfoot", "trailerfield",
                              "preface", "preface2"}
         [] o = "WRITE"   -> {"entity"}
         [] o = "FORWARD" -> {"body", "chunkbody"}
         [] o = "FLUSH"   -> {"next", "hup", "finally"}
         [] o = "HUP"     -> {"trailer"}
         [] OTHER         -> {}
  ELSE CASE o = "READ"     -> {"got"}
         [] o = "POLLREAD" -> {"polled"}
         [] o = "WRITE"    -> {"headed", "done", "chunkhead", "chunks"}
         [] o = "FORWARD"  -> {"sent", "chunkbody"}
         [] o = "FLUSH"    -> {"flushed"}
         [] o = "TX_CLOSE" -> {"end"}
         [] OTHER          -> {}

Last(t) == IF t = Request THEN "called" ELSE "end"

\* t is at l: inside of an operation that leads there, asleep in one that
\* may wait, or ended where it may; only the request raises.
Place(s, l, t) ==
  /\ s.op[t] \in Ops \cup {"NONE"} /\ (s.op[t] = "TX_CLOSE" => t = Response)
  /\ s.inside[t] => l \in After(t, s.op[t])
  /\ s.status[t] = "WAIT" => s.inside[t] /\ s.op[t] # "TX_CLOSE"
  /\ s.status[t] = "ERR" => t = Request /\ ~ s.inside[t] /\ l = "finally"
  /\ s.status[t] = "END" => ~ s.inside[t] /\ l = Last(t)

PlaceInv == \A t \in Threads : Place(p, pc[t], t)

\* Until the response is played, only the request runs.
StartInv ==
  pc[Request] = "start" =>
    /\ phase = "execute" /\ pc[Response] = "start"
    /\ p.status[Request] = "RUN" /\ p.status[Response] = "RUN"
    /\ p.running # Response /\ ~ p.run_enq[Response]
    /\ p.op[Request] = "NONE" /\ ~ p.inside[Request]

\* Who is ready runs or is queued, but for a request that waits in vk_call
\* and a response not yet played; and only the request that runs is between
\* two operations.
RunInv ==
  /\ \A t \in Threads : p.status[t] \in {"RUN", "ERR"} /\ p.running # t =>
       \/ p.run_enq[t]
       \/ t = Request /\ pc[Request] = "called"
       \/ t = Response /\ pc[Request] = "start"
  /\ pc[Request] \notin {"start", "called"} /\ ~ p.inside[Request] => p.running = Request

PhaseInv ==
  /\ phase # "execute" => p.running = NoThread
  /\ Idle => p.run_q = << >>
  /\ phase = "freed" => p.blocked_q = << >>

TypeInv ==
  /\ DOMAIN pc = Threads /\ error \in [Threads -> BOOLEAN] /\ request \in Described
  /\ asked \in Seq(Requests) /\ taken \in Seq(Byte) /\ answered \in Nat /\ size \in 0 .. BufLen

\* Nothing of a request was written yet.
Asking == {"start", "line", "method", "header", "field", "write"}

Handing == p.inside[Request] /\ p.op[Request] = "WRITE"

\* The last request is the one at hand, and the first to ask for the close.
AskInv ==
  /\ \A i \in 1 .. Asked - 1 : ~ asked[i].close
  /\ pc[Request] \in Asking /\ Asked > 0 => ~ asked[Asked].close
  /\ pc[Request] \notin Asking /\ ~ error[Request] => Asked > 0 /\ request = asked[Asked]
  /\ pc[Request] = "write" => Framed(request)
  /\ error[Request] => pc[Request] \in {"finally", "called"}
  /\ Handing => p.need[Request] <= 1
  /\ p.op[Request] = "FORWARD" /\ ~ error[Request] => pc[Request] \in {"body", "chunkbody"}
  /\ pc[Request] = "body" => asked[Asked].len > 0

\* The request's ring is flushed before it goes on to the next request.
FlushInv ==
  /\ pc[Request] \in Asking \cup {"trailer", "trailerfield"} => p.tx[Request].data = << >>
  /\ pc[Request] = "called" /\ ~ error[Request] => p.tx[Request].data = << >>
  /\ pc[Request] \in {"next", "hup", "finally"} /\ ~ p.inside[Request] /\ ~ error[Request] =>
       \/ p.tx[Request].data = << >>
       \/ pc[Request] = "next" /\ Pollhup(p, Request)
  /\ pc[Request] = "preface2" /\ ~ p.inside[Request] /\ p.need[Request] = 1 => Pollhup(p, Request)

\* Requests whose struct was written to the pipe.
Given == IF Handing /\ p.need[Request] > 0 THEN Asked - 1 ELSE Asked

\* What the request has still to write of its entity.
Owed == IF pc[Request] = "entity" /\ Given = Asked THEN request.len
        ELSE IF pc[Request] = "body" THEN p.need[Request] ELSE 0
Lacks == IF error[Request] THEN Nat ELSE {Owed}

\* The request the response is reading, or answering.
Cur == IF pc[Response] = "got" THEN answered + Len(taken) ELSE answered

\* Its struct was read, and its entity not begun.
Met == pc[Response] = "headed" \/ (pc[Response] = "got" /\ taken # << >>)

\* The entity of it ends with a hup.
Open == pc[Response] \in {"chunks", "polled", "chunkhead", "chunkbody"} \/ (Met /\ asked[Cur].chunked)

\* The units of it that the response has still to read.
Rest == IF Open THEN Len(Flow(p, Response))
        ELSE IF Met THEN asked[Cur].len
        ELSE IF pc[Response] = "sent" THEN p.need[Response] ELSE 0

\* Behind the first j units of q come n of the entity of request i, less those
\* not yet written, one of W; and then request i + 1, if it is one of the s.
Follows(q, j, n, i, s, W) ==
  /\ \A k \in 1 .. Len(q) : j < k /\ k <= j + n => q[k] = - i
  /\ i < s => j + n < Len(q) /\ q[j + n + 1] = i + 1
  /\ i = s => Len(q) <= j + n /\ j + n - Len(q) \in W

\* The units of the entity of request i of a, with m units behind its struct.
Units(a, i, m) == IF a[i].chunked THEN m ELSE a[i].len

\* The requests of a that are in q follow each other up to s.
Ordered(a, q, n, c, s, W) ==
  /\ Follows(q, 0, n, c, s, W)
  /\ \A j \in 1 .. Len(q) : q[j] > 0 =>
       q[j] <= s /\ Follows(q, j, Units(a, q[j], Len(q) - j), q[j], s, W)

FlowInv == Cur <= Given /\ Ordered(asked, Flow(p, Response), Rest, Cur, Given, Lacks)

\* A chunked entity is under way in the request.
Chunking ==
  \/ pc[Request] \in {"chunk", "chunkhead", "chunkbody", "chunkfoot", "hup"}
  \/ pc[Request] = "entity" /\ Given = Asked /\ request.chunked
  \/ pc[Request] = "trailer" /\ p.tx[Request].eof

\* The response reads a chunked entity to its end and no further.
ChunkInv ==
  /\ Chunking => asked[Asked].chunked /\ (Cur = Asked => Open)
  /\ p.tx[Request].eof => pc[Request] = "trailer" /\ p.inside[Request]
  /\ Given > 0 /\ asked[Given].chunked /\ ~ Chunking /\ ~ error[Request] => Cur = Given /\ ~ Open
  /\ \A i \in Cur + 1 .. Given - 1 : ~ asked[i].chunked
  /\ Open => Cur > 0 /\ asked[Cur].chunked

Answers == {"headed", "done", "sent", "flushed", "end",
            "chunks", "polled", "chunkhead", "chunkbody", "lastchunk"}

\* Where the response is.
AnswerInv ==
  /\ ~ error[Response] /\ ~ p.tx[Response].eof
  /\ pc[Response] \in {"start", "read", "got"} \cup Answers
  /\ pc[Response] = "start" => answered = 0 /\ taken = << >>
  /\ pc[Response] = "got" =>
       /\ p.op[Response] = "READ" /\ (~ p.inside[Response] => p.need[Response] = 0)
       /\ IF p.need[Response] = 0 THEN taken = << answered + 1 >>
                                  ELSE taken = << >> /\ p.need[Response] = 1
  /\ pc[Response] \in Answers => taken = << answered >> /\ answered > 0
  /\ pc[Response] \in {"sent", "chunkbody"} =>
       p.op[Response] = "FORWARD" /\ (~ p.inside[Response] => p.need[Response] = 0)
  /\ pc[Response] = "chunkhead" => size <= Len(Flow(p, Response))
  /\ pc[Response] = "chunkbody" => p.need[Response] <= Len(Flow(p, Response))

\* The response goes on after a request but for the one to close after.
EndInv ==
  /\ pc[Response] \in {"start", "read", "got"} /\ answered > 0 => ~ asked[answered].close
  /\ pc[Response] \in {"flushed", "end"} => asked[answered].close
  /\ pc[Response] = "flushed" /\ ~ p.inside[Response] => p.tx[Response].data = << >>
  /\ pc[Response] = "end" =>
       /\ p.tx[Response].data = << >>
       /\ \/ p.closed[Response]
          \/ p.inside[Response] /\ p.op[Response] = "TX_CLOSE" /\ p.need[Response] # 0

\* The response sleeps on the pipe alone.
Naps(s) ==
  /\ s.status[Response] = "WAIT" /\ s.op[Response] \in {"READ", "POLLREAD", "FORWARD"}
  /\ ~ s.blocked_enq[Response]

\* Then its own ring is empty; what it has not read ends with an entity, but
\* for a request not yet flushed.
NapInv ==
  Naps(p) =>
    /\ p.tx[Response].data = << >>
    /\ p.op[Response] \in {"READ", "FORWARD"} => p.need[Response] # 0
    /\ \A i \in Cur + 1 .. Asked :
         \/ asked[i].len > 0 \/ asked[i].chunked
         \/ i = Asked /\ (error[Request] \/ Given < Asked \/ p.tx[Request].data # << >>)
    /\ pc[Request] = "called" /\ ~ error[Request] => Flow(p, Response) = << >>

ControlInv == QueueInv /\ SleepInv(p, {}) /\ PlaceInv /\ StartInv /\ RunInv /\ PhaseInv

HttpInv ==
  /\ ControlInv /\ TypeInv /\ AskInv /\ FlushInv /\ FlowInv /\ ChunkInv /\ AnswerInv /\ EndInv
  /\ NapInv

----------------------------------------------------------------------------
(* Reading the pipe *)

LEMMA Joined ==
  ASSUME NEW f \in Seq(Byte), NEW r \in Seq(Byte)
  PROVE  /\ f \o r \in Seq(Byte) /\ Len(f \o r) = Len(f) + Len(r) /\ Len(f) \in Nat /\ Len(r) \in Nat
         /\ \A x \in 1 .. Len(f) : (f \o r)[x] = f[x]
         /\ \A x \in 1 .. Len(r) : (f \o r)[Len(f) + x] = r[x]
         /\ f \o << >> = f /\ << >> \o f = f
OBVIOUS

\* A request asked is framed, and of a size.
LEMMA Sizes ==
  ASSUME NEW a \in Seq(Requests), NEW i \in 1 .. Len(a)
  PROVE  /\ a[i] \in Described /\ Framed(a[i]) /\ a[i].len \in Nat /\ a[i].len <= MaxBody
         /\ a[i].chunked \in BOOLEAN /\ a[i].close \in BOOLEAN
         /\ a[i].chunked => a[i].len = 0
         /\ \A m \in Nat : Units(a, i, m) \in Nat
<1>0. MaxBody \in Nat
  BY HttpAssumption
<1>1. a[i] \in Described /\ Framed(a[i])
  BY DEF Requests
<1>2. a[i].len \in 0 .. MaxBody /\ a[i].chunked \in BOOLEAN /\ a[i].close \in BOOLEAN
  BY <1>1 DEF Described
<1>3. a[i].len \in Nat /\ a[i].len <= MaxBody
  BY <1>0, <1>2
<1>4. a[i].chunked => a[i].len = 0
  BY <1>1, <1>3 DEF Framed
<1> QED
  BY <1>1, <1>2, <1>3, <1>4 DEF Units

\* What follows in the whole follows in a rest of it.
LEMMA FollowsShift ==
  ASSUME NEW f \in Seq(Byte), NEW r \in Seq(Byte), NEW j \in Nat, NEW n \in Nat, NEW i \in Int,
         NEW s \in Nat, NEW W, Follows(f \o r, Len(f) + j, n, i, s, W)
  PROVE  Follows(r, j, n, i, s, W)
<1> DEFINE q == f \o r
           k == Len(f)
<1>1. /\ Len(q) = k + Len(r) /\ k \in Nat /\ Len(r) \in Nat
      /\ \A x \in 1 .. Len(r) : q[k + x] = r[x]
  BY Joined
<1>2. Follows(q, k + j, n, i, s, W)
  OBVIOUS
<1> HIDE DEF q, k
<1>3. ASSUME NEW x \in 1 .. Len(r), j < x, x <= j + n PROVE r[x] = - i
  <2>1. k + x \in 1 .. Len(q) /\ k + j < k + x /\ k + x <= k + j + n
    BY <1>1, <1>3
  <2> QED
    BY <1>1, <1>2, <2>1 DEF Follows
<1>4. ASSUME i < s PROVE j + n < Len(r) /\ r[j + n + 1] = i + 1
  <2>1. k + j + n < Len(q) /\ q[k + j + n + 1] = i + 1
    BY <1>2, <1>4 DEF Follows
  <2>2. j + n < Len(r) /\ j + n + 1 \in 1 .. Len(r) /\ k + (j + n + 1) = k + j + n + 1
    BY <1>1, <2>1
  <2> QED
    BY <1>1, <2>1, <2>2
<1>5. ASSUME i = s PROVE Len(r) <= j + n /\ j + n - Len(r) \in W
  <2>1. Len(q) <= k + j + n /\ k + j + n - Len(q) \in W
    BY <1>2, <1>5 DEF Follows
  <2>2. k + j + n - Len(q) = j + n - Len(r)
    BY <1>1
  <2> QED
    BY <1>1, <2>1, <2>2
<1> QED
  BY <1>3, <1>4, <1>5 DEF Follows

\* So does what the structs in the rest say.
LEMMA StructsShift ==
  ASSUME NEW f \in Seq(Byte), NEW r \in Seq(Byte), NEW a \in Seq(Requests), NEW s \in Nat, s <= Len(a), NEW W,
         \A j \in 1 .. Len(f \o r) : (f \o r)[j] > 0 =>
           /\ (f \o r)[j] <= s
           /\ Follows(f \o r, j, Units(a, (f \o r)[j], Len(f \o r) - j), (f \o r)[j], s, W)
  PROVE  \A j \in 1 .. Len(r) : r[j] > 0 =>
           r[j] <= s /\ Follows(r, j, Units(a, r[j], Len(r) - j), r[j], s, W)
<1> SUFFICES ASSUME NEW j \in 1 .. Len(r), r[j] > 0
             PROVE  r[j] <= s /\ Follows(r, j, Units(a, r[j], Len(r) - j), r[j], s, W)
  OBVIOUS
<1> DEFINE q == f \o r
           k == Len(f)
<1>1. /\ Len(q) = k + Len(r) /\ k \in Nat /\ Len(r) \in Nat /\ q \in Seq(Byte)
      /\ \A x \in 1 .. Len(r) : q[k + x] = r[x]
  BY Joined
<1>2. \A x \in 1 .. Len(q) : q[x] > 0 => q[x] <= s /\ Follows(q, x, Units(a, q[x], Len(q) - x), q[x], s, W)
  OBVIOUS
<1>3. k + j \in 1 .. Len(q) /\ q[k + j] = r[j] /\ Len(q) - (k + j) = Len(r) - j /\ Len(r) - j \in Nat
  <2> HIDE DEF q, k
  <2> QED
    BY <1>1
<1>4. r[j] <= s /\ Follows(q, k + j, Units(a, r[j], Len(r) - j), r[j], s, W)
  <2> HIDE DEF q, k
  <2> QED
    BY <1>2, <1>3
<1>5. r[j] \in Int /\ r[j] \in 1 .. Len(a)
  BY <1>4 DEF Byte
<1>6. Units(a, r[j], Len(r) - j) \in Nat
  BY <1>3, <1>5, Sizes
<1> QED
  BY <1>4, <1>5, <1>6, FollowsShift

\* The response reads units of the entity at hand.
LEMMA OrderedPop ==
  ASSUME NEW f \in Seq(Byte), NEW r \in Seq(Byte), NEW a \in Seq(Requests), NEW n \in Nat, Len(f) <= n,
         NEW c \in Nat, NEW s \in Nat, s <= Len(a), NEW W, Ordered(a, f \o r, n, c, s, W)
  PROVE  Ordered(a, r, n - Len(f), c, s, W)
<1> DEFINE q == f \o r
           k == Len(f)
<1>1. /\ Len(q) = k + Len(r) /\ k \in Nat /\ Len(r) \in Nat /\ q \in Seq(Byte)
      /\ \A x \in 1 .. Len(r) : q[k + x] = r[x]
  BY Joined
<1>2. Follows(q, 0, n, c, s, W) /\ k <= n
  BY DEF Ordered
<1>3. Follows(r, 0, n - k, c, s, W)
  <2> HIDE DEF q, k
  <2>1. ASSUME NEW x \in 1 .. Len(r), 0 < x, x <= 0 + (n - k) PROVE r[x] = - c
    <3>1. k + x \in 1 .. Len(q) /\ 0 < k + x /\ k + x <= 0 + n
      BY <1>1, <1>2, <2>1
    <3> QED
      BY <1>1, <1>2, <3>1 DEF Follows
  <2>2. ASSUME c < s PROVE 0 + (n - k) < Len(r) /\ r[0 + (n - k) + 1] = c + 1
    <3>1. 0 + n < Len(q) /\ q[0 + n + 1] = c + 1
      BY <1>2, <2>2 DEF Follows
    <3>2. 0 + (n - k) < Len(r) /\ 0 + (n - k) + 1 \in 1 .. Len(r) /\ k + (0 + (n - k) + 1) = 0 + n + 1
      BY <1>1, <1>2, <3>1
    <3> QED
      BY <1>1, <3>1, <3>2
  <2>3. ASSUME c = s PROVE Len(r) <= 0 + (n - k) /\ 0 + (n - k) - Len(r) \in W
    <3>1. Len(q) <= 0 + n /\ 0 + n - Len(q) \in W
      BY <1>2, <2>3 DEF Follows
    <3>2. 0 + n - Len(q) = 0 + (n - k) - Len(r) /\ Len(r) <= 0 + (n - k)
      BY <1>1, <1>2, <3>1
    <3> QED
      BY <3>1, <3>2
  <2> QED
    BY <2>1, <2>2, <2>3 DEF Follows
<1>4. \A j \in 1 .. Len(r) : r[j] > 0 => r[j] <= s /\ Follows(r, j, Units(a, r[j], Len(r) - j), r[j], s, W)
  <2>1. \A x \in 1 .. Len(q) : q[x] > 0 => q[x] <= s /\ Follows(q, x, Units(a, q[x], Len(q) - x), q[x], s, W)
    BY DEF Ordered
  <2> QED
    BY <2>1, StructsShift
<1> QED
  BY <1>3, <1>4 DEF Ordered

\* It reads the next struct.
LEMMA OrderedTake ==
  ASSUME NEW f \in Seq(Byte), NEW r \in Seq(Byte), NEW a \in Seq(Requests), Len(f) = 1,
         NEW c \in Nat, NEW s \in Nat, c <= s, s <= Len(a), NEW W, Ordered(a, f \o r, 0, c, s, W)
  PROVE  c < s /\ f = << c + 1 >> /\ Ordered(a, r, Units(a, c + 1, Len(r)), c + 1, s, W)
<1> DEFINE q == f \o r
<1>1. /\ Len(q) = 1 + Len(r) /\ Len(r) \in Nat /\ q \in Seq(Byte) /\ q[1] = f[1]
      /\ \A x \in 1 .. Len(r) : q[1 + x] = r[x]
  <2>1. /\ q \in Seq(Byte) /\ Len(q) = Len(f) + Len(r) /\ Len(r) \in Nat
        /\ \A x \in 1 .. Len(f) : q[x] = f[x]
        /\ \A x \in 1 .. Len(r) : q[Len(f) + x] = r[x]
    BY Joined
  <2> HIDE DEF q
  <2> QED
    BY <2>1
<1>2. Follows(q, 0, 0, c, s, W)
  BY DEF Ordered
<1>3. \A x \in 1 .. Len(q) : q[x] > 0 => q[x] <= s /\ Follows(q, x, Units(a, q[x], Len(q) - x), q[x], s, W)
  BY DEF Ordered
<1>4. c < s /\ q[1] = c + 1
  <2> HIDE DEF q
  <2>1. c # s
    BY <1>1, <1>2 DEF Follows
  <2> QED
    BY <1>2, <2>1 DEF Follows
<1>5. f = << c + 1 >>
  <2>1. f[1] = c + 1
    BY <1>1, <1>4
  <2> QED
    BY <2>1
<1>6. Follows(q, 1, Units(a, c + 1, Len(r)), c + 1, s, W)
  <2> HIDE DEF q
  <2>1. 1 \in 1 .. Len(q) /\ q[1] > 0 /\ Len(q) - 1 = Len(r)
    BY <1>1, <1>4
  <2> QED
    BY <1>3, <1>4, <2>1
<1>7. Units(a, c + 1, Len(r)) \in Nat
  <2>1. c + 1 \in 1 .. Len(a)
    BY <1>4
  <2> QED
    BY <1>1, <2>1, Sizes
<1>8. Follows(r, 0, Units(a, c + 1, Len(r)), c + 1, s, W)
  <2>1. Follows(f \o r, Len(f) + 0, Units(a, c + 1, Len(r)), c + 1, s, W)
    BY <1>6
  <2>2. c + 1 \in Int /\ 0 \in Nat
    OBVIOUS
  <2> QED
    BY <1>7, <2>1, <2>2, FollowsShift
<1>9. \A j \in 1 .. Len(r) : r[j] > 0 => r[j] <= s /\ Follows(r, j, Units(a, r[j], Len(r) - j), r[j], s, W)
  BY <1>3, StructsShift
<1> QED
  BY <1>4, <1>5, <1>8, <1>9 DEF Ordered

\* Nothing is left to read of the last request.
LEMMA OrderedEmpty ==
  ASSUME NEW a, NEW n \in Nat, NEW c \in Nat, NEW s \in Nat, c <= s, NEW W,
         NEW q \in Seq(Byte), Len(q) <= n, Ordered(a, q, n, c, s, W)
  PROVE  c = s /\ n - Len(q) \in W
<1>1. Follows(q, 0, n, c, s, W) /\ Len(q) \in Nat
  BY DEF Ordered
<1>2. ~ (c < s)
  BY <1>1 DEF Follows
<1>3. c = s /\ 0 + n = n
  BY <1>2
<1> QED
  BY <1>1, <1>3 DEF Follows

\* It lacks what it may.
LEMMA OrderedWiden ==
  ASSUME NEW a, NEW q, NEW n, NEW c, NEW s, NEW V, NEW W, V \subseteq W, Ordered(a, q, n, c, s, V)
  PROVE  Ordered(a, q, n, c, s, W)
BY DEF Ordered, Follows

\* A later request makes no difference.
LEMMA OrderedSame ==
  ASSUME NEW a, NEW b, NEW q \in Seq(Byte), NEW n, NEW c, NEW s \in Nat, NEW W,
         \A i \in 1 .. s : a[i] = b[i], Ordered(a, q, n, c, s, W)
  PROVE  Ordered(b, q, n, c, s, W)
<1>1. ASSUME NEW j \in 1 .. Len(q), q[j] > 0
      PROVE  q[j] <= s /\ Follows(q, j, Units(b, q[j], Len(q) - j), q[j], s, W)
  <2>1. q[j] <= s /\ Follows(q, j, Units(a, q[j], Len(q) - j), q[j], s, W)
    BY <1>1 DEF Ordered
  <2>2. q[j] \in 1 .. s
    BY <1>1, <2>1 DEF Byte
  <2>3. Units(b, q[j], Len(q) - j) = Units(a, q[j], Len(q) - j)
    BY <2>2 DEF Units
  <2> QED
    BY <2>1, <2>3
<1> QED
  BY <1>1 DEF Ordered

\* The request writes units of its entity.
LEMMA OrderedPut ==
  ASSUME NEW a \in Seq(Requests), NEW q \in Seq(Byte), NEW n \in Nat, NEW c \in Nat, NEW s \in Nat,
         c <= s, s > 0, s <= Len(a), NEW w \in Nat, Ordered(a, q, n, c, s, {w}),
         NEW k \in Nat, NEW m \in Nat, NEW v \in Nat,
         IF a[s].chunked THEN w = 0 /\ v = 0 /\ m = (IF c = s THEN n + k ELSE n)
                         ELSE m = n /\ v = w - k
  PROVE  Ordered(a, q \o Bytes(k, - s), m, c, s, {v})
<1> DEFINE d == Bytes(k, - s)
           e == q \o d
<1>1. d \in Seq(Byte) /\ Len(d) = k /\ \A x \in 1 .. k : d[x] = - s
  BY DEF Bytes, Byte
<1>2. /\ e \in Seq(Byte) /\ Len(e) = Len(q) + k /\ Len(q) \in Nat
      /\ \A x \in 1 .. Len(q) : e[x] = q[x]
      /\ \A x \in 1 .. k : e[Len(q) + x] = - s
  <2> HIDE DEF d
  <2> QED
    BY <1>1, Joined
<1>3. Ordered(a, q, n, c, s, {w})
  OBVIOUS
<1> HIDE DEF d, e
<1>4. \A x \in 1 .. Len(e) : x > Len(q) => e[x] = - s
  <2>1. SUFFICES ASSUME NEW x \in 1 .. Len(e), x > Len(q) PROVE e[x] = - s
    OBVIOUS
  <2>2. x - Len(q) \in 1 .. k /\ Len(q) + (x - Len(q)) = x
    BY <1>2, <2>1
  <2> QED
    BY <1>2, <2>2
<1>5. a[s].chunked \in BOOLEAN
  <2>1. s \in 1 .. Len(a)
    OBVIOUS
  <2> QED
    BY <2>1, Sizes
<1>6. ASSUME NEW j \in Nat, j <= Len(q), NEW i \in Nat, i <= s, NEW g \in Nat, NEW h \in Nat,
             Follows(q, j, g, i, s, {w}),
             i < s => h = g, i = s => h - v = g + k - w
      PROVE  Follows(e, j, h, i, s, {v})
  <2>1. CASE i < s
    <3>1. h = g /\ j + g < Len(q) /\ q[j + g + 1] = i + 1 /\ j + g + 1 \in 1 .. Len(q)
      BY <1>2, <1>6, <2>1 DEF Follows
    <3>2. j + h < Len(e) /\ e[j + h + 1] = i + 1
      BY <1>2, <3>1
    <3>3. ASSUME NEW x \in 1 .. Len(e), j < x, x <= j + h PROVE e[x] = - i
      <4>1. x \in 1 .. Len(q) /\ x <= j + g
        BY <1>2, <3>1, <3>3
      <4> QED
        BY <1>2, <1>6, <3>3, <4>1 DEF Follows
    <3> QED
      BY <2>1, <3>2, <3>3 DEF Follows
  <2>2. CASE i = s
    <3>1. h = g + k - w + v /\ Len(q) <= j + g /\ j + g - Len(q) = w
      BY <1>2, <1>6, <2>2 DEF Follows
    <3>2. Len(e) <= j + h /\ j + h - Len(e) = v
      <4>1. j + g = Len(q) + w /\ Len(q) \in Nat /\ Len(e) = Len(q) + k
        BY <1>2, <3>1
      <4>2. \A l \in Nat : j + g = l + w => l + k <= j + h /\ j + h - (l + k) = v
        BY <3>1
      <4> QED
        BY <4>1, <4>2
    <3>3. ASSUME NEW x \in 1 .. Len(e), j < x, x <= j + h PROVE e[x] = - i
      <4>1. CASE x <= Len(q)
        <5>1. x \in 1 .. Len(q) /\ x <= j + g
          BY <1>2, <3>1, <4>1
        <5> QED
          BY <1>2, <1>6, <3>3, <5>1 DEF Follows
      <4>2. CASE x > Len(q)
        BY <1>4, <2>2, <4>2
      <4> QED
        BY <1>2, <4>1, <4>2
    <3> QED
      BY <2>2, <3>2, <3>3 DEF Follows
  <2> QED
    BY <1>6, <2>1, <2>2
<1>7. Follows(e, 0, m, c, s, {v})
  <2>1. Follows(q, 0, n, c, s, {w})
    BY <1>3 DEF Ordered
  <2>2. c < s => m = n
    BY <1>5
  <2>3. c = s => m - v = n + k - w
    BY <1>5
  <2>4. 0 \in Nat /\ 0 <= Len(q)
    BY <1>2
  <2> QED
    BY <1>6, <2>1, <2>2, <2>3, <2>4
<1>8. ASSUME NEW j \in 1 .. Len(e), e[j] > 0
      PROVE  e[j] <= s /\ Follows(e, j, Units(a, e[j], Len(e) - j), e[j], s, {v})
  <2>1. j \in 1 .. Len(q) /\ e[j] = q[j]
    <3>1. ~ (j > Len(q))
      BY <1>4, <1>8
    <3> QED
      BY <1>2, <3>1
  <2> DEFINE i == q[j]
             g == Units(a, i, Len(q) - j)
             h == Units(a, i, Len(e) - j)
  <2>2. i <= s /\ Follows(q, j, g, i, s, {w})
    BY <1>3, <1>8, <2>1 DEF Ordered
  <2>3. i \in 1 .. s /\ i \in 1 .. Len(a) /\ i \in Nat
    BY <1>8, <2>1, <2>2 DEF Byte
  <2>4. Len(q) - j \in Nat /\ Len(e) - j \in Nat /\ j \in Nat /\ j <= Len(q)
    BY <1>2, <2>1
  <2>5. g \in Nat /\ h \in Nat /\ a[i].chunked \in BOOLEAN
    BY <2>3, <2>4, Sizes
  <2>6. /\ a[i].chunked => g = Len(q) - j /\ h = Len(e) - j
        /\ ~ a[i].chunked => h = g
    BY <2>5 DEF Units
  <2>7. i = s => h - v = g + k - w
    <3> HIDE DEF g, h
    <3>1. CASE i = s /\ a[s].chunked
      BY <1>2, <2>4, <2>6, <3>1
    <3>2. CASE i = s /\ ~ a[s].chunked
      BY <2>5, <2>6, <3>2
    <3> QED
      BY <1>5, <3>1, <3>2
  <2>8. i < s => h = g
    <3> HIDE DEF g, h, i
    <3>1. SUFFICES ASSUME i < s, a[i].chunked PROVE FALSE
      BY <2>5, <2>6
    <3>2. j + g < Len(q)
      BY <2>2, <3>1 DEF Follows
    <3> QED
      BY <1>2, <2>4, <2>6, <3>1, <3>2
  <2>9. Follows(e, j, h, i, s, {v})
    <3> HIDE DEF g, h, i
    <3> QED
      BY <1>6, <2>2, <2>3, <2>4, <2>5, <2>7, <2>8
  <2> QED
    BY <2>1, <2>2, <2>9
<1> QED
  BY <1>7, <1>8 DEF Ordered, e, d

\* It writes a further struct.
LEMMA OrderedMore ==
  ASSUME NEW a \in Seq(Requests), NEW q \in Seq(Byte), NEW n \in Nat, NEW c \in Nat, NEW s \in Nat,
         c <= s, s + 1 <= Len(a), Ordered(a, q, n, c, s, {0}), s > 0 /\ a[s].chunked => c = s
  PROVE  Ordered(a, Append(q, s + 1), n, c, s + 1, {a[s + 1].len})
<1> DEFINE e == Append(q, s + 1)
           W == {a[s + 1].len}
<1>1. /\ e \in Seq(Byte) /\ Len(e) = Len(q) + 1 /\ Len(q) \in Nat
      /\ \A x \in 1 .. Len(q) : e[x] = q[x]
      /\ e[Len(q) + 1] = s + 1
  BY DEF Byte
<1>2. Ordered(a, q, n, c, s, {0})
  OBVIOUS
<1>3. s + 1 \in 1 .. Len(a)
  OBVIOUS
<1>4. a[s + 1].len \in Nat /\ (a[s + 1].chunked => a[s + 1].len = 0)
  BY <1>3, Sizes
<1> HIDE DEF e, W
<1>5. ASSUME NEW j \in Nat, j <= Len(q), NEW i \in Nat, i <= s, NEW g \in Nat, Follows(q, j, g, i, s, {0})
      PROVE  Follows(e, j, g, i, s + 1, W)
  <2>1. j + g <= Len(q) /\ e[j + g + 1] = i + 1
    <3>1. CASE i < s
      <4>1. j + g < Len(q) /\ q[j + g + 1] = i + 1 /\ j + g + 1 \in 1 .. Len(q)
        BY <1>1, <1>5, <3>1 DEF Follows
      <4> QED
        BY <1>1, <4>1
    <3>2. CASE i = s
      <4>1. Len(q) <= j + g /\ j + g - Len(q) = 0
        BY <1>5, <3>2 DEF Follows
      <4>2. j + g = Len(q)
        BY <1>1, <4>1
      <4> QED
        BY <1>1, <3>2, <4>2
    <3> QED
      BY <1>5, <3>1, <3>2
  <2>2. ASSUME NEW x \in 1 .. Len(e), j < x, x <= j + g PROVE e[x] = - i
    <3>1. x \in 1 .. Len(q)
      BY <1>1, <2>1, <2>2
    <3> QED
      BY <1>1, <1>5, <2>2, <3>1 DEF Follows
  <2>3. i < s + 1 /\ i # s + 1 /\ j + g < Len(e)
    BY <1>1, <1>5, <2>1
  <2> QED
    BY <2>1, <2>2, <2>3 DEF Follows
<1>6. Follows(e, 0, n, c, s + 1, W)
  <2>1. Follows(q, 0, n, c, s, {0}) /\ 0 \in Nat /\ 0 <= Len(q)
    BY <1>1, <1>2 DEF Ordered
  <2> QED
    BY <1>5, <2>1
<1>7. ASSUME NEW j \in 1 .. Len(e), e[j] > 0
      PROVE  e[j] <= s + 1 /\ Follows(e, j, Units(a, e[j], Len(e) - j), e[j], s + 1, W)
  <2>1. CASE j = Len(q) + 1
    <3>1. e[j] = s + 1 /\ Len(e) - j = 0 /\ j = Len(e) /\ Len(e) \in Nat
      BY <1>1, <2>1
    <3>2. Units(a, s + 1, 0) = a[s + 1].len
      BY <1>4 DEF Units
    <3> DEFINE g == a[s + 1].len
    <3>3. g \in Nat /\ W = {g}
      BY <1>4 DEF W
    <3> HIDE DEF g
    <3>4. Follows(e, j, g, s + 1, s + 1, W)
      BY <3>1, <3>3 DEF Follows
    <3> QED
      BY <3>1, <3>2, <3>4 DEF g
  <2>2. CASE j # Len(q) + 1
    <3>1. j \in 1 .. Len(q) /\ e[j] = q[j]
      BY <1>1, <2>2
    <3> DEFINE i == q[j]
               g == Units(a, i, Len(q) - j)
    <3>2. i <= s /\ Follows(q, j, g, i, s, {0})
      BY <1>2, <1>7, <3>1 DEF Ordered
    <3>3. i \in 1 .. s /\ i \in 1 .. Len(a) /\ i \in Nat
      BY <1>7, <3>1, <3>2 DEF Byte
    <3>4. Len(q) - j \in Nat /\ j \in Nat /\ j <= Len(q)
      BY <1>1, <3>1
    <3>5. g \in Nat /\ a[i].chunked \in BOOLEAN
      BY <3>3, <3>4, Sizes
    <3>6. ~ a[i].chunked
      <4> SUFFICES ASSUME a[i].chunked PROVE FALSE
        OBVIOUS
      <4>1. g = Len(q) - j
        BY DEF Units
      <4>2. i = s
        <5> HIDE DEF g, i
        <5>1. i < s => j + g < Len(q)
          BY <3>2 DEF Follows
        <5> QED
          BY <1>1, <3>3, <3>4, <4>1, <5>1
      <4>3. c = s /\ s > 0
        BY <3>3, <4>2
      <4>4. Follows(q, 0, n, s, s, {0})
        BY <1>2, <4>3 DEF Ordered
      <4>5. j <= n
        BY <1>1, <3>1, <4>4 DEF Follows
      <4>6. q[j] = - s
        <5>1. 0 < j /\ j <= 0 + n
          BY <3>1, <4>5
        <5> QED
          BY <3>1, <4>4, <5>1 DEF Follows
      <4> QED
        BY <1>7, <3>1, <4>3, <4>6
    <3>7. Units(a, i, Len(e) - j) = g
      BY <3>6 DEF Units
    <3>8. Follows(e, j, g, i, s + 1, W) /\ i <= s + 1
      <4> HIDE DEF g, i
      <4> QED
        BY <1>5, <3>2, <3>3, <3>4, <3>5
    <3> QED
      BY <3>1, <3>7, <3>8
  <2> QED
    BY <2>1, <2>2
<1> QED
  BY <1>6, <1>7 DEF Ordered, e, W

----------------------------------------------------------------------------
(* Control *)

LEMMA Pipe ==
  /\ Threads = {Request, Response} /\ Request # Response
  /\ Request \in Threads /\ Response \in Threads /\ NoThread \notin Threads
  /\ Source[Request] = FD /\ Sink[Request] = Response /\ Sink[Response] = FD
  /\ Source[Response] = Request /\ Response # FD /\ Request # FD
BY ResponderAssumption, PipeAssumption

\* Who was not moved on keeps its place.
LEMMA PlaceKept ==
  ASSUME NEW s, NEW u, NEW x, NEW l, Stays(s, u, x), Place(s, l, x)
  PROVE  Place(u, l, x)
BY DEF Stays, Place

LEMMA SamePlaceStays ==
  ASSUME NEW s, NEW u, SamePlace(s, u), NEW x, u.status[x] = s.status[x] \/ u.status[x] = "RUN"
  PROVE  Stays(s, u, x)
BY DEF SamePlace, Stays

\* A step of t inside its function, that leaves the others in their place.
Steps(t) ==
  /\ phase = "execute" /\ phase' = "execute" /\ p.running = t /\ p'.running = t /\ Orderly
  /\ \A x \in Threads \ {t} :
       /\ Stays(p, p', x)
       /\ p'.status[x] = p.status[x] \/ p'.run_enq[x]
       /\ p.run_enq[x] => p'.run_enq[x]
       /\ p.blocked_enq[x] => p'.blocked_enq[x]
  /\ \A x \in Threads : p.closed[x] => p'.closed[x]

LEMMA BesideSteps ==
  ASSUME NEW t \in Threads, Orderly, Beside(p, p', t), phase = "execute", phase' = phase, p.running = t
  PROVE  Steps(t) /\ \A x \in Threads \ {t} : p'.tx[x].eof = p.tx[x].eof
BY DEF Beside, Steps

\* It leaves the control in order when it ends where it may.
LEMMA StepControl ==
  ASSUME ControlInv, NEW t \in Threads, Steps(t), Place(p', pc'[t], t),
         \A x \in Threads \ {t} : pc'[x] = pc[x], pc[Request] # "start", pc'[Request] # "start"
  PROVE  ControlInv'
<1>1. QueueInv' /\ SleepInv(p', {}) /\ p'.running = t
  BY DEF Steps, Orderly, ControlInv
<1>3. PlaceInv'
  <2>1. ASSUME NEW x \in Threads \ {t} PROVE Place(p', pc'[x], x)
    BY PlaceKept DEF ControlInv, PlaceInv, Steps
  <2> QED
    BY <2>1 DEF PlaceInv
<1>4. StartInv'
  BY DEF StartInv
<1>5. RunInv'
  <2>1. ASSUME NEW x \in Threads, p'.status[x] \in {"RUN", "ERR"}, p'.running # x
        PROVE  \/ p'.run_enq[x]
               \/ x = Request /\ pc'[Request] = "called"
               \/ x = Response /\ pc'[Request] = "start"
    <3>2. x \in Threads \ {t}
      BY <1>1, <2>1
    <3>3. /\ p'.status[x] = p.status[x] \/ p'.run_enq[x]
          /\ p.run_enq[x] => p'.run_enq[x]
      BY <3>2 DEF Steps
    <3>4. ASSUME p'.status[x] = p.status[x]
          PROVE  p.run_enq[x] \/ (x = Request /\ pc[Request] = "called")
      BY <2>1, <3>2, <3>4 DEF ControlInv, RunInv, Steps
    <3>5. x = Request => pc'[Request] = pc[Request]
      BY <3>2
    <3> QED
      BY <3>3, <3>4, <3>5
  <2>2. ASSUME pc'[Request] \notin {"start", "called"}, ~ p'.inside[Request]
        PROVE  p'.running = Request
    <3>1. CASE t = Request
      BY <1>1, <3>1
    <3>2. CASE t # Request
      <4>1. pc'[Request] = pc[Request] /\ p'.inside[Request] = p.inside[Request]
        BY <3>2, Pipe DEF Steps, Stays
      <4>2. p.running = Request
        BY <2>2, <4>1 DEF ControlInv, RunInv
      <4> QED
        BY <3>2, <4>2 DEF Steps
    <3> QED
      BY <3>1, <3>2
  <2> QED
    BY <2>1, <2>2 DEF RunInv
<1>6. PhaseInv'
  BY DEF PhaseInv, Idle, Steps
<1> QED
  BY <1>1, <1>3, <1>4, <1>5, <1>6 DEF ControlInv

\* Between two operations.
LEMMA BetweenPlace ==
  ASSUME ControlInv, NEW t \in Threads, NEW l, At(t, l)
  PROVE  /\ phase = "execute" /\ p.running = t /\ p.status[t] = "RUN" /\ ~ p.inside[t]
         /\ pc[t] = l /\ Place(p, l, t) /\ QueueInv
         /\ t = Response => pc[Request] # "start"
BY DEF ControlInv, PlaceInv, Place, At, Between, Active, StartInv

LEMMA InsidePlace ==
  ASSUME ControlInv, NEW t \in Threads, NEW o, Inside(t, o)
  PROVE  /\ phase = "execute" /\ p.running = t /\ p.status[t] = "RUN" /\ p.inside[t] /\ p.op[t] = o
         /\ pc[t] \in After(t, o) /\ Place(p, pc[t], t) /\ QueueInv
         /\ pc[Request] # "start"
<1>1. /\ phase = "execute" /\ p.running = t /\ p.status[t] = "RUN" /\ p.inside[t] /\ p.op[t] = o
      /\ pc[t] \in After(t, o) /\ Place(p, pc[t], t) /\ QueueInv
  BY DEF ControlInv, PlaceInv, Place, Inside, Active
<1>2. t = Request => pc[Request] # "start"
  BY <1>1 DEF After
<1>3. t = Response => pc[Request] # "start"
  BY <1>1 DEF ControlInv, StartInv
<1> QED
  BY <1>1, <1>2, <1>3, Pipe

\* While the response runs, the request is inside of an operation or calls.
LEMMA RequestInside ==
  ASSUME ControlInv, p.running # Request, pc[Request] # "start"
  PROVE  p.inside[Request] \/ pc[Request] = "called"
BY DEF ControlInv, RunInv

----------------------------------------------------------------------------
(* What one coroutine leaves of the other's *)

\* What the process holds is of its kind.
LEMMA Kinds ==
  ASSUME QueueInv
  PROVE  /\ \A t \in Threads : /\ p.need[t] \in Nat /\ p.need[t] <= MaxLen /\ p.inside[t] \in BOOLEAN
                               /\ p.rx[t].data \in Seq(Byte) /\ p.tx[t].data \in Seq(Byte)
                               /\ p.tx[t].eof \in BOOLEAN
                               /\ Len(p.rx[t].data) <= BufLen
         /\ Flow(p, Response) \in Seq(Byte)
<1>1. IsProcess(p) /\ MaxLen \in Nat
  BY BufLenAssumption DEF QueueInv, Good
<1>2. \A t \in Threads : IsRing(p.rx[t]) /\ IsRing(p.tx[t]) /\ p.need[t] \in 0 .. MaxLen /\ p.inside[t] \in BOOLEAN
  BY <1>1 DEF IsProcess
<1>3. \A t \in Threads : /\ p.rx[t].data \in Seq(Byte) /\ p.tx[t].data \in Seq(Byte)
                         /\ p.tx[t].eof \in BOOLEAN /\ Len(p.rx[t].data) <= BufLen
  BY <1>2 DEF IsRing
<1>4. Flow(p, Response) \in Seq(Byte)
  BY <1>3, Pipe DEF Flow
<1> QED
  BY <1>1, <1>2, <1>3, <1>4

LEMMA KindsAfter ==
  ASSUME QueueInv'
  PROVE  /\ \A t \in Threads : /\ p'.need[t] \in Nat /\ p'.inside[t] \in BOOLEAN
                               /\ p'.rx[t].data \in Seq(Byte) /\ p'.tx[t].data \in Seq(Byte)
         /\ Flow(p', Response) \in Seq(Byte) /\ Len(Flow(p', Response)) \in Nat
<1>1. IsProcess(p') /\ MaxLen \in Nat
  BY BufLenAssumption DEF QueueInv, Good
<1>2. \A t \in Threads : IsRing(p'.rx[t]) /\ IsRing(p'.tx[t]) /\ p'.need[t] \in 0 .. MaxLen
                         /\ p'.inside[t] \in BOOLEAN
  BY <1>1 DEF IsProcess
<1>3. \A t \in Threads : p'.rx[t].data \in Seq(Byte) /\ p'.tx[t].data \in Seq(Byte)
  BY <1>2 DEF IsRing
<1>4. Flow(p', Response) \in Seq(Byte)
  BY <1>3, Pipe DEF Flow
<1>5. Len(Flow(p', Response)) \in Nat
  BY <1>4
<1> QED
  BY <1>1, <1>2, <1>3, <1>4, <1>5

\* The request that is answered was asked.
LEMMA MetAsked ==
  ASSUME HttpInv, Met \/ Open
  PROVE  Cur \in 1 .. Asked
<1>1. asked \in Seq(Requests) /\ taken \in Seq(Byte) /\ answered \in Nat /\ Asked \in Nat
  BY DEF HttpInv, TypeInv, Asked
<1>2. Cur \in Nat
  BY <1>1 DEF Cur
<1>3. Cur <= Asked
  <2>1. Given \in Int /\ Given <= Asked /\ Cur <= Given
    BY <1>1 DEF Given, HttpInv, FlowInv
  <2> QED
    BY <1>1, <1>2, <2>1
<1>4. Cur > 0
  <2>1. CASE Open
    BY <2>1 DEF HttpInv, ChunkInv
  <2>2. CASE Met
    <3>1. pc[Response] = "headed" => answered > 0
      BY DEF HttpInv, AnswerInv, Answers
    <3>2. taken # << >> => Len(taken) > 0
      BY <1>1
    <3> QED
      BY <1>1, <2>2, <3>1, <3>2 DEF Met, Cur
  <2> QED
    BY <2>1, <2>2
<1> QED
  BY <1>1, <1>2, <1>3, <1>4

LEMMA Counts ==
  ASSUME HttpInv
  PROVE  /\ Asked \in Nat /\ asked \in Seq(Requests) /\ taken \in Seq(Byte) /\ answered \in Nat
         /\ Given \in Nat /\ Given <= Asked /\ Cur \in Nat /\ Cur <= Given /\ answered <= Cur
         /\ Rest \in Nat /\ (Lacks = Nat \/ (Lacks = {Owed} /\ ~ error[Request])) /\ Owed \in Nat
         /\ Flow(p, Response) \in Seq(Byte) /\ Len(Flow(p, Response)) \in Nat
         /\ Ordered(asked, Flow(p, Response), Rest, Cur, Given, Lacks)
         /\ error[Request] \in BOOLEAN
<1>1. asked \in Seq(Requests) /\ taken \in Seq(Byte) /\ answered \in Nat /\ Asked \in Nat
  BY DEF HttpInv, TypeInv, Asked
<1>2. /\ \A t \in Threads : p.need[t] \in Nat
      /\ Flow(p, Response) \in Seq(Byte) /\ Len(Flow(p, Response)) \in Nat
  <2>1. Flow(p, Response) \in Seq(Byte) /\ \A t \in Threads : p.need[t] \in Nat
    BY Kinds DEF HttpInv, ControlInv
  <2> QED
    BY <2>1
<1>3. Cur \in Nat /\ answered <= Cur
  BY <1>1 DEF Cur
<1>4. Given \in Int /\ Given <= Asked /\ Cur <= Given
  BY <1>1 DEF Given, HttpInv, FlowInv
<1>5. Given \in Nat
  BY <1>3, <1>4
<1>6. error[Request] \in BOOLEAN /\ request.len \in Nat
  <2>1. request \in Described /\ MaxBody \in Nat
    BY HttpAssumption DEF HttpInv, TypeInv
  <2>2. request.len \in 0 .. MaxBody
    BY <2>1 DEF Described
  <2>3. error[Request] \in BOOLEAN
    BY Pipe DEF HttpInv, TypeInv
  <2> QED
    BY <2>1, <2>2, <2>3
<1>7. Owed \in Nat /\ (Lacks = Nat \/ (Lacks = {Owed} /\ ~ error[Request]))
  BY <1>2, <1>6, Pipe DEF Owed, Lacks
<1>8. Rest \in Nat
  <2>1. CASE Open
    BY <1>2, <2>1 DEF Rest
  <2>2. CASE ~ Open /\ Met
    <3>3. Cur \in 1 .. Len(asked)
      BY <2>2, MetAsked DEF Asked
    <3>4. asked[Cur].len \in Nat
      BY <1>1, <3>3, Sizes
    <3> QED
      BY <2>2, <3>4 DEF Rest
  <2>3. CASE ~ Open /\ ~ Met
    BY <1>2, <2>3, Pipe DEF Rest
  <2> QED
    BY <2>1, <2>2, <2>3
<1> QED
  BY <1>1, <1>2, <1>3, <1>4, <1>5, <1>6, <1>7, <1>8 DEF HttpInv, FlowInv

LEMMA Cancel ==
  ASSUME NEW f \in Seq(Byte), NEW g \in Seq(Byte), NEW h \in Seq(Byte), f \o g = f \o h
  PROVE  g = h
<1>1. Len(g) = Len(h) /\ Len(f) \in Nat /\ Len(g) \in Nat
  BY Joined
<1>2. \A x \in 1 .. Len(g) : (f \o g)[Len(f) + x] = g[x]
  BY Joined
<1>3. \A x \in 1 .. Len(h) : (f \o h)[Len(f) + x] = h[x]
  BY Joined
<1>4. \A x \in 1 .. Len(g) : g[x] = h[x]
  BY <1>1, <1>2, <1>3
<1> QED
  BY <1>1, <1>4

\* x stays in its place, and no descriptor is opened again.
Aside(x) ==
  /\ Stays(p, p', x) /\ p'.tx[x].eof = p.tx[x].eof
  /\ p.blocked_enq[x] => p'.blocked_enq[x]
  /\ \A y \in Threads : p.closed[y] => p'.closed[y]

\* What is asked further changes nothing of the response.
LEMMA ResponseSame ==
  ASSUME HttpInv, pc'[Response] = pc[Response], UNCHANGED << taken, answered >>,
         p'.need[Response] = p.need[Response], \A i \in 1 .. Asked : asked'[i] = asked[i]
  PROVE  /\ Cur' = Cur /\ (Met <=> Met') /\ (Open <=> Open')
         /\ Rest' = IF Open THEN Len(Flow(p', Response)) ELSE Rest
<1>1. Cur' = Cur
  BY DEF Cur
<1>2. Met <=> Met'
  BY DEF Met
<1>3. Met => asked'[Cur] = asked[Cur]
  BY MetAsked
<1>4. Open <=> Open'
  BY <1>1, <1>2, <1>3 DEF Open
<1>5. Rest' = IF Open THEN Len(Flow(p', Response)) ELSE Rest
  <2>1. CASE Open
    BY <1>4, <2>1 DEF Rest, Flow
  <2>2. CASE ~ Open /\ Met
    BY <1>1, <1>2, <1>3, <1>4, <2>2 DEF Rest
  <2>3. CASE ~ Open /\ ~ Met
    BY <1>2, <1>4, <2>3 DEF Rest
  <2> QED
    BY <2>1, <2>2, <2>3
<1> QED
  BY <1>1, <1>2, <1>4, <1>5

\* The request went on.
LEMMA RequestRest ==
  ASSUME HttpInv, ControlInv', Aside(Response), DOMAIN pc' = Threads, pc'[Response] = pc[Response],
         error' \in [Threads -> BOOLEAN], error'[Response] = error[Response], request' \in Described,
         UNCHANGED << taken, size, answered >>,
         asked' \in Seq(Requests), \A i \in 1 .. Asked : asked'[i] = asked[i],
         Len(Flow(p', Response)) >= Len(Flow(p, Response)),
         AskInv', FlushInv', FlowInv', ChunkInv', NapInv'
  PROVE  HttpInv'
<1>1. TypeInv'
  BY DEF HttpInv, TypeInv
<1>2. /\ p'.op[Response] = p.op[Response] /\ p'.need[Response] = p.need[Response]
      /\ p'.inside[Response] = p.inside[Response] /\ p'.tx[Response].eof = p.tx[Response].eof
      /\ p.tx[Response].data = << >> => p'.tx[Response].data = << >>
      /\ p.closed[Response] => p'.closed[Response]
  BY Pipe DEF Aside, Stays
<1>3. Len(Flow(p', Response)) \in Nat /\ Len(Flow(p, Response)) \in Nat
  BY Counts, KindsAfter DEF ControlInv
<1>4. AnswerInv'
  <2>1. AnswerInv
    BY DEF HttpInv
  <2>2. size \in Nat /\ p.need[Response] \in Nat
    <3>1. size \in 0 .. BufLen /\ BufLen \in Nat
      BY BufLenAssumption DEF HttpInv, TypeInv
    <3> QED
      BY <3>1, Kinds, Pipe DEF HttpInv, ControlInv
  <2>3. /\ \A k \in Nat : k <= Len(Flow(p, Response)) => k <= Len(Flow(p', Response))
        /\ Flow(p, Response)' = Flow(p', Response)
    <3>1. \A k \in Nat : k <= Len(Flow(p, Response)) => k <= Len(Flow(p', Response))
      BY <1>3
    <3>2. Flow(p, Response)' = Flow(p', Response)
      BY DEF Flow
    <3> QED
      BY <3>1, <3>2
  <2>4. pc'[Response] = "chunkhead" => size' <= Len(Flow(p', Response))
    BY <2>1, <2>2, <2>3 DEF AnswerInv
  <2>5. pc'[Response] = "chunkbody" => p'.need[Response] <= Len(Flow(p', Response))
    BY <1>2, <2>1, <2>2, <2>3 DEF AnswerInv
  <2>6. /\ ~ error'[Response] /\ ~ p'.tx[Response].eof
        /\ pc'[Response] \in {"start", "read", "got"} \cup Answers
    BY <1>2, <2>1 DEF AnswerInv
  <2>7. /\ pc'[Response] = "start" => answered' = 0 /\ taken' = << >>
        /\ pc'[Response] \in Answers => taken' = << answered' >> /\ answered' > 0
    BY <2>1 DEF AnswerInv
  <2>8. pc'[Response] = "got" =>
          /\ p'.op[Response] = "READ" /\ (~ p'.inside[Response] => p'.need[Response] = 0)
          /\ IF p'.need[Response] = 0 THEN taken' = << answered' + 1 >>
                                      ELSE taken' = << >> /\ p'.need[Response] = 1
    BY <1>2, <2>1 DEF AnswerInv
  <2>9. pc'[Response] \in {"sent", "chunkbody"} =>
          p'.op[Response] = "FORWARD" /\ (~ p'.inside[Response] => p'.need[Response] = 0)
    BY <1>2, <2>1 DEF AnswerInv
  <2> QED
    BY <2>3, <2>4, <2>5, <2>6, <2>7, <2>8, <2>9 DEF AnswerInv
<1>5. EndInv'
  <2>1. answered > 0 => asked'[answered] = asked[answered]
    <3>1. answered > 0 => answered \in 1 .. Asked
      BY Counts
    <3> QED
      BY <3>1
  <2>2. pc[Response] \in {"flushed", "end"} => answered > 0
    BY DEF HttpInv, AnswerInv, Answers
  <2> QED
    BY <1>2, <2>1, <2>2 DEF HttpInv, EndInv
<1> QED
  BY <1>1, <1>4, <1>5 DEF HttpInv

\* And the pipe carries what it carried.
LEMMA RequestMoves ==
  ASSUME HttpInv, ControlInv', Aside(Response), Undisturbed(p, p', Response),
         Flow(p', Response) = Flow(p, Response), p'.tx[Request].eof = p.tx[Request].eof,
         DOMAIN pc' = Threads, pc'[Response] = pc[Response],
         error' \in [Threads -> BOOLEAN], error'[Response] = error[Response], request' \in Described,
         UNCHANGED << asked, taken, size, answered >>, AskInv', FlushInv',
         Given' = Given, error[Request] => error'[Request],
         error'[Request] \/ (Owed' = Owed /\ (Chunking <=> Chunking')),
         p.tx[Request].eof => pc'[Request] = "trailer" /\ p'.inside[Request],
         pc'[Request] = "called" => pc[Request] = "called" \/ p'.status[Response] # "WAIT"
  PROVE  HttpInv'
<1>1. /\ Cur' = Cur /\ (Open <=> Open') /\ Asked' = Asked /\ Rest' = Rest
      /\ Flow(p, Response)' = Flow(p', Response)
  <2>1. p'.need[Response] = p.need[Response] /\ \A i \in 1 .. Asked : asked'[i] = asked[i]
    BY DEF Aside, Stays
  <2>2. /\ Cur' = Cur /\ (Open <=> Open')
        /\ Rest' = IF Open THEN Len(Flow(p', Response)) ELSE Rest
    BY <2>1, ResponseSame
  <2>3. Open => Rest = Len(Flow(p, Response))
    BY DEF Rest
  <2> QED
    BY <2>2, <2>3 DEF Asked, Flow
<1>2. FlowInv'
  <2>1. Lacks \subseteq Lacks'
    <3>1. CASE error'[Request]
      BY <3>1, Counts DEF Lacks
    <3>2. CASE ~ error'[Request]
      BY <3>2 DEF Lacks
    <3> QED
      BY <3>1, <3>2
  <2>2. Ordered(asked, Flow(p, Response), Rest, Cur, Given, Lacks')
    <3>1. Ordered(asked, Flow(p, Response), Rest, Cur, Given, Lacks)
      BY Counts
    <3> QED
      BY <2>1, <3>1, OrderedWiden
  <2>3. Ordered(asked', Flow(p, Response)', Rest', Cur', Given', Lacks')
    BY <1>1, <2>2
  <2> QED
    BY <1>1, <2>3 DEF HttpInv, FlowInv
<1>3. ChunkInv'
  <2>1. error'[Request] => ~ Chunking'
    BY DEF AskInv, Chunking
  <2>2. Chunking' => Chunking
    BY <2>1
  <2>3. Chunking => Chunking' \/ error'[Request]
    OBVIOUS
  <2>4. Chunking' => asked'[Asked'].chunked /\ (Cur' = Asked' => Open')
    BY <1>1, <2>2 DEF HttpInv, ChunkInv
  <2>5. p'.tx[Request].eof => pc'[Request] = "trailer" /\ p'.inside[Request]
    OBVIOUS
  <2>6. Given' > 0 /\ asked'[Given'].chunked /\ ~ Chunking' /\ ~ error'[Request] => Cur' = Given' /\ ~ Open'
    BY <1>1, <2>3 DEF HttpInv, ChunkInv
  <2>7. \A i \in Cur' + 1 .. Given' - 1 : ~ asked'[i].chunked
    BY <1>1 DEF HttpInv, ChunkInv
  <2>8. Open' => Cur' > 0 /\ asked'[Cur'].chunked
    BY <1>1 DEF HttpInv, ChunkInv
  <2> QED
    BY <2>4, <2>5, <2>6, <2>7, <2>8 DEF ChunkInv
<1>4. NapInv'
  <2>1. SUFFICES ASSUME Naps(p')
        PROVE /\ p'.tx[Response].data = << >>
              /\ p'.op[Response] \in {"READ", "FORWARD"} => p'.need[Response] # 0
              /\ \A i \in Cur' + 1 .. Asked' :
                   \/ asked'[i].len > 0 \/ asked'[i].chunked
                   \/ i = Asked' /\ (error'[Request] \/ Given' < Asked' \/ p'.tx[Request].data # << >>)
              /\ pc'[Request] = "called" /\ ~ error'[Request] => Flow(p, Response)' = << >>
    BY DEF NapInv
  <2>2. Naps(p) /\ p'.status[Response] = "WAIT"
    BY <2>1 DEF Naps, Aside, Stays
  <2>3. p'.rx[Response].data = p.rx[Response].data
    BY <2>2 DEF Undisturbed
  <2>4. p'.tx[Request].data = p.tx[Request].data
    <3>1. /\ p.rx[Response].data \in Seq(Byte) /\ p.tx[Request].data \in Seq(Byte)
          /\ p'.tx[Request].data \in Seq(Byte)
      BY Kinds, KindsAfter, Pipe DEF HttpInv, ControlInv
    <3>2. p.rx[Response].data \o p'.tx[Request].data = p.rx[Response].data \o p.tx[Request].data
      BY <2>3, Pipe DEF Flow
    <3> QED
      BY <3>1, <3>2, Cancel
  <2>5. NapInv
    BY DEF HttpInv
  <2>6. p'.op[Response] = p.op[Response] /\ p'.need[Response] = p.need[Response]
    BY DEF Aside, Stays
  <2>7. pc'[Request] = "called" /\ ~ error'[Request] => Flow(p, Response)' = << >>
    BY <1>1, <2>2, <2>5 DEF NapInv
  <2>8. p'.tx[Response].data = << >>
    BY <2>2, <2>5 DEF NapInv, Aside, Stays
  <2>9. p'.op[Response] \in {"READ", "FORWARD"} => p'.need[Response] # 0
    BY <2>2, <2>5, <2>6 DEF NapInv
  <2>10. \A i \in Cur' + 1 .. Asked' :
                   \/ asked'[i].len > 0 \/ asked'[i].chunked
                   \/ i = Asked' /\ (error'[Request] \/ Given' < Asked' \/ p'.tx[Request].data # << >>)
    BY <1>1, <2>2, <2>4, <2>5 DEF NapInv
  <2> QED
    BY <2>7, <2>8, <2>9, <2>10
<1> QED
  <2>1. asked' \in Seq(Requests) /\ \A i \in 1 .. Asked : asked'[i] = asked[i]
    BY DEF HttpInv, TypeInv
  <2>2. Len(Flow(p', Response)) >= Len(Flow(p, Response))
    BY Counts
  <2> QED
    BY <1>2, <1>3, <1>4, <2>1, <2>2, RequestRest

\* The response leaves the request in its place.
LEMMA RequestSame ==
  ASSUME HttpInv, Stays(p, p', Request), pc'[Request] = pc[Request], UNCHANGED << asked, request >>,
         error'[Request] = error[Request]
  PROVE  /\ Asked' = Asked /\ Given' = Given /\ Owed' = Owed /\ Lacks' = Lacks /\ (Handing <=> Handing')
         /\ p'.tx[Request].eof = p.tx[Request].eof => (Chunking <=> Chunking')
<1>1. Asked' = Asked /\ (Handing <=> Handing') /\ p'.need[Request] = p.need[Request]
  BY DEF Asked, Handing, Stays
<1>2. Given' = Given
  BY <1>1 DEF Given
<1>3. Owed' = Owed
  BY <1>1, <1>2 DEF Owed
<1>4. Lacks' = Lacks
  BY <1>3 DEF Lacks
<1>5. p'.tx[Request].eof = p.tx[Request].eof => (Chunking <=> Chunking')
  BY <1>1, <1>2 DEF Chunking
<1> QED
  BY <1>1, <1>2, <1>3, <1>4, <1>5

\* And what is asked of it.
LEMMA RequestKept ==
  ASSUME HttpInv, Stays(p, p', Request), pc'[Request] = pc[Request], UNCHANGED << asked, request >>,
         error'[Request] = error[Request],
         \/ p.inside[Request] \/ pc[Request] = "called"
         \/ p'.rx[Request] = p.rx[Request] /\ p'.tx[Request] = p.tx[Request]
  PROVE  AskInv' /\ FlushInv'
<1>1. /\ Asked' = Asked /\ (Handing <=> Handing') /\ p'.need[Request] = p.need[Request]
      /\ p'.op[Request] = p.op[Request] /\ p'.inside[Request] = p.inside[Request]
      /\ p.tx[Request].data = << >> => p'.tx[Request].data = << >>
  BY RequestSame DEF Stays
<1>2. AskInv'
  BY <1>1 DEF HttpInv, AskInv
<1>3. FlushInv'
  <2>1. FlushInv
    BY DEF HttpInv
  <2>2. CASE p.inside[Request] \/ pc[Request] = "called"
    BY <1>1, <2>1, <2>2 DEF FlushInv
  <2>3. CASE p'.rx[Request] = p.rx[Request] /\ p'.tx[Request] = p.tx[Request]
    <3>1. Pollhup(p, Request) => Pollhup(p', Request)
      BY <2>3, Pipe DEF Pollhup
    <3> QED
      BY <1>1, <2>1, <3>1 DEF FlushInv, Pollhup
  <2> QED
    BY <2>2, <2>3
<1> QED
  BY <1>2, <1>3

\* The response went on.
LEMMA ResponseRest ==
  ASSUME HttpInv, ControlInv', Stays(p, p', Request), p.inside[Request] \/ pc[Request] = "called",
         DOMAIN pc' = Threads, pc'[Request] = pc[Request], error' = error, UNCHANGED << asked, request >>,
         taken' \in Seq(Byte), size' \in 0 .. BufLen, answered' \in Nat,
         FlowInv', ChunkInv', AnswerInv', EndInv', NapInv'
  PROVE  HttpInv'
<1>1. TypeInv'
  BY DEF HttpInv, TypeInv
<1>2. AskInv' /\ FlushInv'
  BY RequestKept
<1> QED
  BY <1>1, <1>2 DEF HttpInv

\* And took nothing of the pipe.
LEMMA ResponseMoves ==
  ASSUME HttpInv, ControlInv', Stays(p, p', Request), p.inside[Request] \/ pc[Request] = "called",
         p'.tx[Request].eof = p.tx[Request].eof, Flow(p', Response) = Flow(p, Response),
         DOMAIN pc' = Threads, pc'[Request] = pc[Request], error' = error, UNCHANGED << asked, request >>,
         taken' \in Seq(Byte), size' \in 0 .. BufLen, answered' \in Nat,
         Cur' = Cur, Rest' = Rest, Open <=> Open', AnswerInv', EndInv', NapInv'
  PROVE  HttpInv'
<1>1. Asked' = Asked /\ Given' = Given /\ Lacks' = Lacks /\ (Chunking <=> Chunking')
  BY RequestSame
<1>2. Flow(p, Response)' = Flow(p, Response)
  BY DEF Flow
<1>3. FlowInv'
  <2>1. FlowInv
    BY DEF HttpInv
  <2> QED
    BY <1>1, <1>2, <2>1 DEF FlowInv
<1>4. ChunkInv'
  <2>1. ChunkInv
    BY DEF HttpInv
  <2>2. p'.inside[Request] = p.inside[Request]
    BY DEF Stays
  <2> QED
    BY <1>1, <2>1, <2>2 DEF ChunkInv
<1> QED
  BY <1>3, <1>4, ResponseRest

\* The executor or the poller went on.
LEMMA SystemRest ==
  ASSUME HttpInv, ControlInv', UNCHANGED << svars, hvars >>,
         \A x \in Threads : Stays(p, p', x) /\ p'.tx[x].eof = p.tx[x].eof /\ (p.closed[x] => p'.closed[x]),
         SameFlows(p, p'),
         pc[Request] = "start" \/ p.running = Request => p'.rx = p.rx /\ p'.tx = p.tx,
         Naps(p') => /\ ~ p.blocked_enq[Response]
                     /\ p.op[Request] = "FORWARD" \/ p'.rx[Response].data = p.rx[Response].data
  PROVE  HttpInv'
<1>1. /\ UNCHANGED << pc, error, asked, taken >> /\ UNCHANGED << request, size, answered >>
  BY DEF svars, hvars
<1>2. /\ Stays(p, p', Request) /\ Stays(p, p', Response) /\ Flow(p', Response) = Flow(p, Response)
      /\ p'.tx[Request].eof = p.tx[Request].eof /\ p'.tx[Response].eof = p.tx[Response].eof
      /\ p.closed[Response] => p'.closed[Response]
  BY Pipe DEF SameFlows
<1>3. /\ p'.op[Response] = p.op[Response] /\ p'.need[Response] = p.need[Response]
      /\ p'.inside[Response] = p.inside[Response]
      /\ p.tx[Response].data = << >> => p'.tx[Response].data = << >>
      /\ p'.inside[Request] = p.inside[Request]
  BY <1>2 DEF Stays
<1>4. /\ Asked' = Asked /\ Given' = Given /\ Lacks' = Lacks /\ (Chunking <=> Chunking')
  BY <1>1, <1>2, RequestSame
<1>5. /\ Cur' = Cur /\ (Open <=> Open') /\ Rest' = Rest /\ Flow(p, Response)' = Flow(p, Response)
  <2>1. /\ Cur' = Cur /\ (Open <=> Open')
        /\ Rest' = IF Open THEN Len(Flow(p', Response)) ELSE Rest
    BY <1>1, <1>3, ResponseSame
  <2>2. Open => Rest = Len(Flow(p, Response))
    BY DEF Rest
  <2> QED
    BY <1>2, <2>1, <2>2 DEF Flow
<1>6. TypeInv'
  BY <1>1 DEF HttpInv, TypeInv
<1>7. AskInv' /\ FlushInv'
  <2>1. \/ p.inside[Request] \/ pc[Request] = "called"
        \/ p'.rx[Request] = p.rx[Request] /\ p'.tx[Request] = p.tx[Request]
    BY RequestInside DEF HttpInv
  <2> QED
    BY <1>1, <1>2, <2>1, RequestKept
<1>8. FlowInv'
  <2>1. FlowInv
    BY DEF HttpInv
  <2> QED
    BY <1>1, <1>4, <1>5, <2>1 DEF FlowInv
<1>9. ChunkInv'
  <2>1. ChunkInv
    BY DEF HttpInv
  <2> QED
    BY <1>1, <1>2, <1>3, <1>4, <1>5, <2>1 DEF ChunkInv
<1>10. AnswerInv'
  <2>1. AnswerInv
    BY DEF HttpInv
  <2>2. pc'[Response] = "chunkhead" => size' <= Len(Flow(p, Response)')
    BY <1>1, <1>5, <2>1 DEF AnswerInv
  <2>3. pc'[Response] = "chunkbody" => p'.need[Response] <= Len(Flow(p, Response)')
    BY <1>1, <1>3, <1>5, <2>1 DEF AnswerInv
  <2> QED
    BY <1>1, <1>2, <1>3, <2>1, <2>2, <2>3 DEF AnswerInv
<1>11. EndInv'
  BY <1>1, <1>2, <1>3 DEF HttpInv, EndInv
<1>12. NapInv'
  <2>1. SUFFICES ASSUME Naps(p')
        PROVE /\ p'.tx[Response].data = << >>
              /\ p'.op[Response] \in {"READ", "FORWARD"} => p'.need[Response] # 0
              /\ \A i \in Cur' + 1 .. Asked' :
                   \/ asked'[i].len > 0 \/ asked'[i].chunked
                   \/ i = Asked' /\ (error'[Request] \/ Given' < Asked' \/ p'.tx[Request].data # << >>)
              /\ pc'[Request] = "called" /\ ~ error'[Request] => Flow(p, Response)' = << >>
    BY DEF NapInv
  <2>2. Naps(p)
    BY <1>2, <2>1 DEF Naps, Stays
  <2>3. NapInv
    BY DEF HttpInv
  <2>4. pc'[Request] = "called" /\ ~ error'[Request] => Flow(p, Response)' = << >>
    BY <1>1, <1>5, <2>2, <2>3 DEF NapInv
  <2>5. p'.tx[Response].data = << >>
    BY <1>3, <2>2, <2>3 DEF NapInv
  <2>6. p'.op[Response] \in {"READ", "FORWARD"} => p'.need[Response] # 0
    BY <1>3, <2>2, <2>3 DEF NapInv
  <2>7. CASE p'.rx[Response].data = p.rx[Response].data
    <3>1. p'.tx[Request].data = p.tx[Request].data
      <4>1. /\ p.rx[Response].data \in Seq(Byte) /\ p.tx[Request].data \in Seq(Byte)
            /\ p'.tx[Request].data \in Seq(Byte)
        BY Kinds, KindsAfter, Pipe DEF HttpInv, ControlInv
      <4>2. p.rx[Response].data \o p'.tx[Request].data = p.rx[Response].data \o p.tx[Request].data
        BY <1>2, <2>7, Pipe DEF Flow
      <4> QED
        BY <4>1, <4>2, Cancel
    <3>2. \A i \in Cur' + 1 .. Asked' :
                   \/ asked'[i].len > 0 \/ asked'[i].chunked
                   \/ i = Asked' /\ (error'[Request] \/ Given' < Asked' \/ p'.tx[Request].data # << >>)
      BY <1>1, <1>4, <1>5, <2>2, <2>3, <3>1 DEF NapInv
    <3> QED
      BY <2>4, <2>5, <2>6, <3>2
  <2>8. CASE p.op[Request] = "FORWARD"
    <3>1. error[Request] \/ asked[Asked].len > 0 \/ asked[Asked].chunked
      <4>1. ~ error[Request] => pc[Request] \in {"body", "chunkbody"}
        BY <2>8 DEF HttpInv, AskInv
      <4>2. pc[Request] = "body" => asked[Asked].len > 0
        BY DEF HttpInv, AskInv
      <4>3. pc[Request] = "chunkbody" => asked[Asked].chunked
        BY DEF HttpInv, ChunkInv, Chunking
      <4> QED
        BY <4>1, <4>2, <4>3
    <3>2. \A i \in Cur' + 1 .. Asked' :
                   \/ asked'[i].len > 0 \/ asked'[i].chunked
                   \/ i = Asked' /\ (error'[Request] \/ Given' < Asked' \/ p'.tx[Request].data # << >>)
      BY <1>1, <1>4, <1>5, <2>2, <2>3, <3>1 DEF NapInv
    <3> QED
      BY <2>4, <2>5, <2>6, <3>2
  <2> QED
    BY <2>1, <2>7, <2>8
<1> QED
  BY <1>6, <1>7, <1>8, <1>9, <1>10, <1>11, <1>12 DEF HttpInv

----------------------------------------------------------------------------
(* The executor and the poller *)

LEMMA QueuedMarks ==
  ASSUME Good(p)
  PROVE  /\ p.run_q # << >> => Head(p.run_q) \in Threads /\ p.run_enq[Head(p.run_q)]
         /\ p.run_q = << >> => \A t \in Threads : ~ p.run_enq[t]
         /\ p.blocked_q = << >> => \A t \in Threads : ~ p.blocked_enq[t]
<1>1. /\ p.run_q \in Seq(Threads) /\ p.blocked_q \in Seq(Threads)
      /\ \A t \in Threads : p.run_enq[t] \in BOOLEAN /\ p.blocked_enq[t] \in BOOLEAN
  BY DEF Good, IsProcess
<1>2. /\ \A t \in Threads : p.run_enq[t] <=> \E i \in 1 .. Len(p.run_q) : p.run_q[i] = t
      /\ \A t \in Threads : p.blocked_enq[t] <=> \E i \in 1 .. Len(p.blocked_q) : p.blocked_q[i] = t
  BY DEF Good, Queued
<1>3. p.run_q # << >> => /\ Head(p.run_q) \in Threads /\ 1 \in 1 .. Len(p.run_q)
                         /\ Head(p.run_q) = p.run_q[1]
  BY <1>1
<1>4. /\ p.run_q = << >> => Len(p.run_q) = 0
      /\ p.blocked_q = << >> => Len(p.blocked_q) = 0
  OBVIOUS
<1> QED
  BY <1>2, <1>3, <1>4

LEMMA DispatchKept ==
  ASSUME HttpInv, Dispatch, UNCHANGED << svars, hvars >>
  PROVE  HttpInv'
<1>0. QueueInv /\ Good(p) /\ phase = "execute" /\ phase' = "execute" /\ p.running = NoThread
      /\ p.run_q # << >>
  BY DEF HttpInv, ControlInv, QueueInv, Dispatch
<1>1. /\ Orderly /\ SamePlace(p, p') /\ p'.status = p.status /\ p'.blocked_enq = p.blocked_enq
      /\ \A x \in Threads : x = p'.running \/ p'.run_enq[x] = p.run_enq[x]
  BY <1>0, DispatchTurn
<1>2. pc' = pc
  BY DEF svars
<1>3. p'.running = Head(p.run_q) /\ p.run_enq[p'.running]
  <2>1. DOMAIN DequeueRun(p) = DOMAIN p /\ "running" \in DOMAIN p
    BY <1>0 DEF DequeueRun, Good, IsProcess
  <2> QED
    BY <1>0, <2>1, QueuedMarks DEF Dispatch
<1>4. \A x \in Threads : Stays(p, p', x)
  BY <1>1, SamePlaceStays
<1>5. PlaceInv'
  BY <1>2, <1>4, PlaceKept DEF HttpInv, ControlInv, PlaceInv
<1>6. StartInv'
  <2>1. pc[Request] = "start" => ~ p.run_enq[Response]
    BY DEF HttpInv, ControlInv, StartInv
  <2> QED
    BY <1>0, <1>1, <1>2, <1>3, <2>1, Pipe DEF HttpInv, ControlInv, StartInv, SamePlace
<1>7. RunInv'
  BY <1>0, <1>1, <1>2, Pipe DEF HttpInv, ControlInv, RunInv, SamePlace
<1>8. PhaseInv'
  BY <1>0 DEF PhaseInv, Idle
<1>9. ControlInv'
  BY <1>1, <1>5, <1>6, <1>7, <1>8 DEF HttpInv, ControlInv, Orderly
<1>10. SameFlows(p, p')
  BY <1>1 DEF SamePlace, SameFlows, Flow
<1>11. Naps(p') => ~ p.blocked_enq[Response]
  BY <1>1 DEF Naps
<1> QED
  BY <1>1, <1>4, <1>9, <1>10, <1>11, SystemRest DEF SamePlace

LEMMA LeaveKept ==
  ASSUME HttpInv, NEW t \in Threads, Leave(t), UNCHANGED << svars, hvars >>
  PROVE  HttpInv'
<1>0. QueueInv /\ phase = "execute" /\ phase' = "execute"
  BY DEF HttpInv, ControlInv, Leave
<1>1. /\ Orderly /\ SamePlace(p, p') /\ p'.status = p.status /\ p'.running = NoThread
      /\ p'.run_enq = p.run_enq /\ p'.blocked_enq = p.blocked_enq
      /\ p.running = t /\ p.status[t] \notin {"RUN", "ERR"}
  BY <1>0, LeaveTurn
<1>2. pc' = pc
  BY DEF svars
<1>4. \A x \in Threads : Stays(p, p', x)
  BY <1>1, SamePlaceStays
<1>5. PlaceInv'
  BY <1>2, <1>4, PlaceKept DEF HttpInv, ControlInv, PlaceInv
<1>6. StartInv'
  BY <1>0, <1>1, <1>2, Pipe DEF HttpInv, ControlInv, StartInv, SamePlace
<1>7. RunInv'
  <2>1. t = Request => p.inside[Request] \/ pc[Request] = "called"
    <3>1. p.status[t] \in {"RUN", "WAIT", "ERR", "END"} /\ Place(p, pc[t], t)
      BY <1>0 DEF HttpInv, ControlInv, PlaceInv, QueueInv, Good, IsProcess
    <3> QED
      BY <1>1, <3>1 DEF Place, Last
  <2> QED
    BY <1>0, <1>1, <1>2, <2>1 DEF HttpInv, ControlInv, RunInv, SamePlace
<1>8. PhaseInv'
  BY <1>0 DEF PhaseInv, Idle
<1>9. ControlInv'
  BY <1>1, <1>5, <1>6, <1>7, <1>8 DEF HttpInv, ControlInv, Orderly
<1>10. SameFlows(p, p')
  BY <1>1 DEF SamePlace, SameFlows, Flow
<1>11. Naps(p') => ~ p.blocked_enq[Response]
  BY <1>1 DEF Naps
<1> QED
  BY <1>1, <1>4, <1>9, <1>10, <1>11, SystemRest DEF SamePlace

LEMMA StandKept ==
  ASSUME HttpInv, p' = p, ControlInv', UNCHANGED << svars, hvars >>
  PROVE  HttpInv'
<1>1. \A x \in Threads : Stays(p, p', x) /\ p'.tx[x].eof = p.tx[x].eof /\ (p.closed[x] => p'.closed[x])
  BY DEF Stays
<1>2. SameFlows(p, p')
  BY DEF SameFlows
<1>3. Naps(p') => ~ p.blocked_enq[Response]
  BY DEF Naps
<1> QED
  BY <1>1, <1>2, <1>3, SystemRest

LEMMA PollerKept ==
  ASSUME HttpInv, UNCHANGED << svars, hvars >>,
         ExecuteReturns \/ Poll \/ PostpollReturns \/ Free \/ FdEnds(Request)
  PROVE  HttpInv'
<1>0. QueueInv /\ Good(p)
  BY DEF HttpInv, ControlInv, QueueInv
<1>1. Orderly /\ p' = p
  BY <1>0, PollerTurn, Pipe
<1>2. pc' = pc
  BY DEF svars
<1>4. PlaceInv' /\ RunInv'
  BY <1>1, <1>2 DEF HttpInv, ControlInv, PlaceInv, RunInv
<1>5. StartInv'
  <2>1. ASSUME pc[Request] = "start" PROVE phase' = "execute"
    <3>1. phase = "execute" /\ p.status[Request] = "RUN"
      BY <2>1 DEF HttpInv, ControlInv, StartInv
    <3>2. ~ ExecuteReturns
      <4>1. ASSUME ExecuteReturns PROVE FALSE
        <5>1. p.running = NoThread /\ p.run_q = << >>
          BY <4>1 DEF ExecuteReturns
        <5>2. p.run_enq[Request]
          BY <2>1, <3>1, <5>1, Pipe DEF HttpInv, ControlInv, RunInv
        <5> QED
          BY <1>0, <5>1, <5>2, QueuedMarks, Pipe
      <4> QED
        BY <4>1
    <3> QED
      BY <3>1, <3>2 DEF Poll, PostpollReturns, Free, FdEnds
  <2> QED
    BY <1>1, <1>2, <2>1 DEF HttpInv, ControlInv, StartInv
<1>7. PhaseInv'
  BY <1>1 DEF HttpInv, ControlInv, PhaseInv, Idle, ExecuteReturns, Poll, PostpollReturns, Free, FdEnds
<1>8. ControlInv'
  BY <1>1, <1>4, <1>5, <1>7 DEF HttpInv, ControlInv, Orderly
<1> QED
  BY <1>1, <1>8, StandKept

LEMMA RetryKept ==
  ASSUME HttpInv, NEW t \in Threads, RetrySocket(t), UNCHANGED << svars, hvars >>
  PROVE  HttpInv'
<1>0. /\ QueueInv /\ phase = "postpoll" /\ phase' = "postpoll" /\ p.running = NoThread
  BY DEF HttpInv, ControlInv, RetrySocket, PhaseInv
<1>1. /\ Orderly /\ SameFlows(p, p') /\ p'.running = p.running /\ p'.status[t] # "WAIT"
      /\ \A x \in Threads : /\ Stays(p, p', x) /\ (~ Copies(p, t) => Undisturbed(p, p', x))
                            /\ x # t /\ p.blocked_enq[x] => p'.blocked_enq[x]
                            /\ p'.status[x] = p.status[x] \/ p'.run_enq[x]
                            /\ p.run_enq[x] => p'.run_enq[x]
                            /\ p.closed[x] => p'.closed[x]
                            /\ p'.tx[x].eof = p.tx[x].eof \/ (p.op[x] = "TX_CLOSE" /\ Sink[x] # FD)
  BY <1>0, RetryTurn
<1>2. pc' = pc
  BY DEF svars
<1>4. PlaceInv'
  BY <1>1, <1>2, PlaceKept DEF HttpInv, ControlInv, PlaceInv
<1>3. pc[Request] # "start"
  BY <1>0 DEF HttpInv, ControlInv, StartInv
<1>5. StartInv'
  BY <1>2, <1>3 DEF StartInv
<1>6. RunInv'
  <2>0. SUFFICES ASSUME NEW x \in Threads, p'.status[x] \in {"RUN", "ERR"}, ~ p'.run_enq[x]
                 PROVE  \/ x = Request /\ pc[Request] = "called"
                        \/ x = Response /\ pc[Request] = "start"
    <3>1. p'.inside[Request] = p.inside[Request]
      BY <1>1, Pipe DEF Stays
    <3> QED
      BY <1>0, <1>1, <1>2, <3>1 DEF RunInv, HttpInv, ControlInv
  <2>2. p'.status[x] = p.status[x] /\ ~ p.run_enq[x]
    BY <1>1, <2>0
  <2>3. p.running # x
    BY <1>0, Pipe
  <2> QED
    BY <2>0, <2>2, <2>3 DEF HttpInv, ControlInv, RunInv
<1>7. PhaseInv'
  BY <1>0, <1>1 DEF PhaseInv, Idle
<1>8. ControlInv'
  BY <1>1, <1>4, <1>5, <1>6, <1>7 DEF HttpInv, ControlInv, Orderly
<1>9. \A x \in Threads : p'.tx[x].eof = p.tx[x].eof
  <2>1. p.op[Request] # "TX_CLOSE"
    BY Pipe DEF HttpInv, ControlInv, PlaceInv, Place
  <2> QED
    BY <1>1, <2>1, Pipe
<1>10. ASSUME Naps(p')
       PROVE  /\ ~ p.blocked_enq[Response]
              /\ p.op[Request] = "FORWARD" \/ p'.rx[Response].data = p.rx[Response].data
  <2>1. t # Response /\ p'.status[Response] = "WAIT" /\ ~ p'.blocked_enq[Response]
    BY <1>1, <1>10 DEF Naps
  <2>2. ~ p.blocked_enq[Response]
    BY <1>1, <2>1, Pipe
  <2>3. Copies(p, t) => p.op[Request] = "FORWARD"
    BY <2>1, Pipe DEF Copies
  <2>4. ~ Copies(p, t) => p'.rx[Response].data = p.rx[Response].data
    BY <1>1, <2>1, Pipe DEF Undisturbed
  <2> QED
    BY <2>2, <2>3, <2>4
<1> QED
  BY <1>0, <1>1, <1>3, <1>8, <1>9, <1>10, Pipe, SystemRest

LEMMA AroundKept ==
  ASSUME HttpInv, Around, UNCHANGED hvars
  PROVE  HttpInv'
<1>1. CASE phase = "freed" /\ UNCHANGED << vars, svars >>
  <2>1. /\ UNCHANGED << p, phase, retry, ended, msg, pc, error, asked, taken >>
        /\ UNCHANGED << request, size, answered >>
    BY <1>1 DEF vars, svars, hvars
  <2>2. ControlInv'
    BY <2>1 DEF HttpInv, ControlInv, QueueInv, PlaceInv, StartInv, RunInv, PhaseInv, Idle
  <2> QED
    BY <1>1, <2>1, <2>2, StandKept
<1>2. CASE ~ (phase = "freed" /\ UNCHANGED << vars, svars >>)
  <2>1. UNCHANGED svars /\ (System \/ FdEnds(Request))
    BY <1>2 DEF Around
  <2>2. \/ Dispatch \/ (ExecuteReturns \/ Poll \/ PostpollReturns \/ Free \/ FdEnds(Request))
        \/ \E t \in Threads : Leave(t) \/ RetrySocket(t)
    BY <2>1 DEF System
  <2> QED
    BY <2>1, <2>2, DispatchKept, PollerKept, LeaveKept, RetryKept
<1> QED
  BY <1>1, <1>2

----------------------------------------------------------------------------
(* Turns of an operation *)

LEMMA StepAside ==
  ASSUME NEW t \in Threads, Steps(t), NEW x \in Threads \ {t}, p'.tx[x].eof = p.tx[x].eof
  PROVE  Aside(x)
BY DEF Steps, Aside

\* A chunked entity in the pipe is the last in it.
LEMMA OpenLast ==
  ASSUME HttpInv, Open
  PROVE  Cur = Given
<1>1. /\ Cur <= Given /\ Cur \in Nat /\ Given \in Nat /\ Len(Flow(p, Response)) \in Nat
      /\ Ordered(asked, Flow(p, Response), Rest, Cur, Given, Lacks)
  BY Counts
<1>2. Rest = Len(Flow(p, Response))
  BY DEF Rest
<1>3. ~ (Cur < Given)
  BY <1>1, <1>2 DEF Ordered, Follows
<1> QED
  BY <1>1, <1>3

\* Where the response sleeps on an empty pipe, it has come to the last struct.
LEMMA DryNap ==
  ASSUME FlowInv', Asked' \in Nat, Given' \in Nat, Given' = Asked' \/ Given' = Asked' - 1,
         Cur' \in Nat, Rest' \in Nat,
         Naps(p') => /\ Flow(p', Response) = << >> /\ p'.tx[Response].data = << >>
                     /\ p'.op[Response] \in {"READ", "FORWARD"} => p'.need[Response] # 0
  PROVE  NapInv'
<1>1. SUFFICES ASSUME Naps(p')
      PROVE  /\ \A i \in Cur' + 1 .. Asked' :
                   \/ asked'[i].len > 0 \/ asked'[i].chunked
                   \/ i = Asked' /\ (error'[Request] \/ Given' < Asked' \/ p'.tx[Request].data # << >>)
             /\ Flow(p, Response)' = << >>
  BY DEF NapInv
<1>2. Flow(p, Response)' = Flow(p', Response)
  BY DEF Flow
<1>3. Flow(p, Response)' = << >>
  BY <1>1, <1>2
<1>4. Cur' = Given'
  <2>1. << >> \in Seq(Byte) /\ Len(<< >>) = 0
    OBVIOUS
  <2>2. Ordered(asked', << >>, Rest', Cur', Given', Lacks') /\ Cur' <= Given'
    BY <1>3 DEF FlowInv
  <2> DEFINE q == << >>
  <2>3. q \in Seq(Byte) /\ Len(q) <= Rest' /\ Ordered(asked', q, Rest', Cur', Given', Lacks')
    BY <2>1, <2>2
  <2> HIDE DEF q
  <2> QED
    BY <2>2, <2>3, OrderedEmpty
<1>5. \A i \in Cur' + 1 .. Asked' : i = Asked' /\ Given' < Asked'
  <2> DEFINE a == Asked'
             g == Given'
             c == Cur'
  <2>1. a \in Nat /\ g \in Nat /\ c = g /\ (g = a \/ g = a - 1)
    BY <1>4
  <2> HIDE DEF a, g, c
  <2>2. \A i \in c + 1 .. a : i = a /\ g < a
    BY <2>1
  <2> QED
    BY <2>2 DEF a, g, c
<1> QED
  BY <1>3, <1>5

\* The request has not finished writing, and nothing of it went to the pipe.
LEMMA RequestTurn ==
  ASSUME HttpInv, Orderly, Others(p, p', Request), phase = "execute", phase' = phase,
         p.running = Request, StaysIn(p, p', Request), UNCHANGED << svars, hvars >>,
         Flow(p', Response) = Flow(p, Response), pc[Request] # "start",
         p.inside[Request], p.op[Request] \in {"FLUSH", "HUP", "READ"},
         pc[Request] \in After(Request, p.op[Request]),
         p.tx[Request].data = << >> => p'.tx[Request].data = << >>,
         p.op[Request] = "FLUSH" => p'.inside[Request] \/ p'.tx[Request].data = << >>,
         p.tx[Request].eof => p'.inside[Request],
         p.op[Request] = "READ" => p'.inside[Request] \/ p'.need[Request] # 1 \/ Pollhup(p', Request)
  PROVE  HttpInv'
<1>1. /\ UNCHANGED << pc, error, asked, taken >> /\ UNCHANGED << request, size, answered >>
  BY DEF svars, hvars
<1>2. Steps(Request) /\ Aside(Response) /\ Undisturbed(p, p', Response)
  <2>1. Beside(p, p', Request) /\ Undisturbed(p, p', Response)
    BY Pipe DEF Others
  <2>2. Steps(Request) /\ p'.tx[Response].eof = p.tx[Response].eof
    BY <2>1, Pipe, BesideSteps
  <2> QED
    BY <2>1, <2>2, Pipe, StepAside
<1>3. /\ p'.op[Request] = p.op[Request] /\ p'.tx[Request].eof = p.tx[Request].eof
      /\ p'.status[Request] \in {"RUN", "WAIT"} /\ (p'.status[Request] = "WAIT" => p'.inside[Request])
  BY DEF StaysIn
<1>4. ControlInv'
  <2>1. Place(p', pc'[Request], Request)
    BY <1>1, <1>3, Pipe DEF Place, Ops
  <2> QED
    BY <1>1, <1>2, <2>1, Pipe, StepControl DEF HttpInv
<1>5. pc[Request] \notin {"entity", "body", "start", "write"}
  BY DEF After
<1>6. ~ Handing /\ ~ Handing' /\ Asked' = Asked /\ Given' = Given /\ Owed' = Owed
  BY <1>1, <1>3, <1>5 DEF Handing, Given, Owed, Asked
<1>7. Chunking <=> Chunking'
  BY <1>1, <1>3, <1>5 DEF Chunking
<1>8. AskInv'
  BY <1>1, <1>3, <1>6 DEF HttpInv, AskInv
<1>9. FlushInv'
  <2>1. FlushInv
    BY DEF HttpInv
  <2>2. pc'[Request] \in Asking \cup {"trailer", "trailerfield"} => p'.tx[Request].data = << >>
    BY <1>1, <2>1 DEF FlushInv
  <2>3. pc'[Request] = "called" /\ ~ error'[Request] => p'.tx[Request].data = << >>
    BY <1>1, <2>1 DEF FlushInv
  <2>4. pc'[Request] \in {"next", "hup", "finally"} /\ ~ p'.inside[Request] => p'.tx[Request].data = << >>
    BY <1>1 DEF After
  <2>5. pc'[Request] = "preface2" /\ ~ p'.inside[Request] /\ p'.need[Request] = 1 => Pollhup(p', Request)
    BY <1>1 DEF After
  <2>6. Pollhup(p, Request)' <=> Pollhup(p', Request)
    BY DEF Pollhup
  <2> QED
    BY <2>2, <2>3, <2>4, <2>5, <2>6 DEF FlushInv
<1>10. p.tx[Request].eof => pc'[Request] = "trailer" /\ p'.inside[Request]
  BY <1>1 DEF HttpInv, ChunkInv
<1>11. DOMAIN pc' = Threads /\ error' \in [Threads -> BOOLEAN] /\ request' \in Described
  BY <1>1 DEF HttpInv, TypeInv
<1> QED
  BY <1>1, <1>2, <1>3, <1>4, <1>6, <1>7, <1>8, <1>9, <1>10, <1>11, RequestMoves

\* The response has taken nothing of the pipe.
LEMMA ResponseTurn ==
  ASSUME HttpInv, Orderly, Others(p, p', Response), phase = "execute", phase' = phase,
         p.running = Response, p'.op[Response] = p.op[Response], p'.status[Response] \in {"RUN", "WAIT"},
         p'.status[Response] = "WAIT" => p'.inside[Response] /\ p.op[Response] # "TX_CLOSE",
         p'.tx[Response].eof = p.tx[Response].eof, UNCHANGED << svars, hvars >>,
         Flow(p', Response) = Flow(p, Response), pc[Request] # "start",
         p.inside[Response], p.op[Response] \in {"FLUSH", "TX_CLOSE", "WRITE", "POLLREAD"},
         pc[Response] \in After(Response, p.op[Response]),
         p.op[Response] \in {"FLUSH", "TX_CLOSE"} /\ p.tx[Response].data = << >> => p'.tx[Response].data = << >>,
         p.op[Response] = "FLUSH" => p'.inside[Response] \/ p'.tx[Response].data = << >>,
         p.op[Response] = "TX_CLOSE" /\ p.need[Response] # 0 => p'.closed[Response],
         p.op[Response] = "POLLREAD" => Dry(p', Response)
  PROVE  HttpInv'
<1>1. /\ UNCHANGED << pc, error, asked, taken >> /\ UNCHANGED << request, size, answered >>
  BY DEF svars, hvars
<1>2. /\ Steps(Response) /\ Stays(p, p', Request) /\ p'.tx[Request].eof = p.tx[Request].eof
      /\ \A x \in Threads : p.closed[x] => p'.closed[x]
  <2>1. Beside(p, p', Response)
    BY DEF Others
  <2>2. Steps(Response) /\ p'.tx[Request].eof = p.tx[Request].eof
    BY <2>1, Pipe, BesideSteps
  <2> QED
    BY <2>1, <2>2, Pipe DEF Steps
<1>3. p.inside[Request] \/ pc[Request] = "called"
  BY Pipe, RequestInside DEF HttpInv
<1>4. ControlInv'
  <2>1. Place(p', pc'[Response], Response)
    BY <1>1, Pipe DEF Place, Ops
  <2> QED
    BY <1>1, <1>2, <2>1, Pipe, StepControl DEF HttpInv
<1>5. pc[Response] \notin {"start", "read", "got", "sent", "chunkbody"}
  BY Pipe DEF After
<1>6. Cur' = Cur /\ (Open <=> Open') /\ Rest' = Rest /\ Flow(p, Response)' = Flow(p, Response)
  <2>1. Cur' = Cur
    BY <1>1 DEF Cur
  <2>2. (Met <=> Met') /\ (Open <=> Open')
    BY <1>1, <2>1 DEF Met, Open
  <2>3. Flow(p, Response)' = Flow(p, Response)
    BY DEF Flow
  <2>4. Rest' = Rest
    BY <1>1, <1>5, <2>1, <2>2, <2>3 DEF Rest
  <2> QED
    BY <2>1, <2>2, <2>3, <2>4
<1>7. AnswerInv'
  <2>1. AnswerInv
    BY DEF HttpInv
  <2>2. pc'[Response] = "chunkhead" => size' <= Len(Flow(p, Response)')
    BY <1>1, <1>6, <2>1 DEF AnswerInv
  <2> QED
    BY <1>1, <1>5, <2>1, <2>2 DEF AnswerInv
<1>8. EndInv'
  <2>1. EndInv
    BY DEF HttpInv
  <2>2. pc'[Response] = "flushed" /\ ~ p'.inside[Response] => p'.tx[Response].data = << >>
    BY <1>1, Pipe DEF After
  <2>3. ASSUME pc'[Response] = "end"
        PROVE  /\ p'.tx[Response].data = << >>
               /\ p'.closed[Response]
    <3>1. p.op[Response] = "TX_CLOSE"
      BY <1>1, <2>3, Pipe DEF After
    <3>2. p.tx[Response].data = << >> /\ (p.closed[Response] \/ p.need[Response] # 0)
      BY <1>1, <2>1, <2>3 DEF EndInv
    <3> QED
      BY <1>2, <3>1, <3>2, Pipe
  <2>4. pc'[Response] \in {"flushed", "end"} => asked'[answered'].close
    BY <1>1, <2>1 DEF EndInv
  <2> QED
    BY <1>1, <1>5, <2>2, <2>3, <2>4 DEF EndInv
<1>9. NapInv'
  <2>1. /\ Cur \in Nat /\ Rest \in Nat /\ Asked \in Nat /\ Given \in Nat /\ (Given = Asked \/ Given = Asked - 1)
    BY Counts DEF Given
  <2>2. Asked' = Asked /\ Given' = Given /\ Lacks' = Lacks
    BY <1>1, <1>2, RequestSame
  <2>3. FlowInv'
    <3>1. FlowInv
      BY DEF HttpInv
    <3> QED
      BY <1>1, <1>6, <2>2, <3>1 DEF FlowInv
  <2>4. Naps(p') => Flow(p', Response) = << >> /\ p'.tx[Response].data = << >> /\ p'.op[Response] = "POLLREAD"
    BY DEF Naps, Dry
  <2> QED
    BY <1>6, <2>1, <2>2, <2>3, <2>4, DryNap
<1>10. DOMAIN pc' = Threads /\ taken' \in Seq(Byte) /\ size' \in 0 .. BufLen /\ answered' \in Nat
  BY <1>1 DEF HttpInv, TypeInv
<1> QED
  BY <1>1, <1>2, <1>3, <1>4, <1>6, <1>7, <1>8, <1>9, <1>10, ResponseMoves

\* vk_flush.
LEMMA FlushKept ==
  ASSUME HttpInv, NEW t \in Threads, Flush(t), UNCHANGED << svars, hvars >>
  PROVE  HttpInv'
<1>1. /\ Inside(t, "FLUSH") /\ phase' = phase
  BY DEF Flush
<1>2. /\ phase = "execute" /\ p.running = t /\ p.status[t] = "RUN" /\ p.inside[t] /\ p.op[t] = "FLUSH"
      /\ pc[t] \in After(t, "FLUSH") /\ QueueInv /\ pc[Request] # "start"
  BY <1>1, InsidePlace DEF HttpInv
<1>3. /\ Orderly /\ Others(p, p', t) /\ StaysIn(p, p', t) /\ SameFlows(p, p')
      /\ p'.need[t] = p.need[t] /\ (p'.inside[t] \/ p'.tx[t].data = << >>)
      /\ p.tx[t].data = << >> => p'.tx[t].data = << >>
  BY <1>2, FlushTurn
<1>4. Flow(p', Response) = Flow(p, Response)
  BY <1>3, Pipe DEF SameFlows
<1>5. CASE t = Request
  <2>1. ~ p.tx[Request].eof
    BY <1>2, <1>5 DEF HttpInv, ChunkInv, After
  <2> QED
    BY <1>1, <1>2, <1>3, <1>4, <1>5, <2>1, RequestTurn
<1>6. CASE t = Response
  BY <1>1, <1>2, <1>3, <1>4, <1>6, ResponseTurn DEF StaysIn
<1> QED
  BY <1>5, <1>6, Pipe

\* vk_tx_close.
LEMMA TxCloseKept ==
  ASSUME HttpInv, NEW t \in Threads, TxClose(t), UNCHANGED << svars, hvars >>
  PROVE  HttpInv'
<1>1. Inside(t, "TX_CLOSE") /\ phase' = phase
  BY DEF TxClose
<1>2. /\ phase = "execute" /\ p.running = t /\ p.status[t] = "RUN" /\ p.inside[t] /\ p.op[t] = "TX_CLOSE"
      /\ pc[t] \in After(t, "TX_CLOSE") /\ QueueInv /\ pc[Request] # "start"
  BY <1>1, InsidePlace DEF HttpInv
<1>0. t = Response
  BY <1>2, Pipe DEF After
<1>3. /\ Orderly /\ Others(p, p', t) /\ SameFlows(p, p')
      /\ p'.op[t] = "TX_CLOSE" /\ p'.status[t] = "RUN" /\ p'.need[t] = 0
      /\ Sink[t] = FD => p'.tx[t].eof = p.tx[t].eof /\ (p.need[t] # 0 => p'.closed[t])
      /\ p.tx[t].data = << >> => p'.tx[t].data = << >>
  BY <1>2, TxCloseTurn
<1>4. Flow(p', Response) = Flow(p, Response)
  BY <1>3, Pipe DEF SameFlows
<1> QED
  BY <1>0, <1>1, <1>2, <1>3, <1>4, Pipe, ResponseTurn

\* vk_hup, waiting for the response to take the EOF.
LEMMA HupReturnsKept ==
  ASSUME HttpInv, NEW t \in Threads, HupReturns(t), UNCHANGED << svars, hvars >>
  PROVE  HttpInv'
<1>1. Inside(t, "HUP") /\ phase' = phase
  BY DEF HupReturns
<1>2. /\ phase = "execute" /\ p.running = t /\ p.status[t] = "RUN" /\ p.inside[t] /\ p.op[t] = "HUP"
      /\ pc[t] \in After(t, "HUP") /\ QueueInv /\ pc[Request] # "start"
  BY <1>1, InsidePlace DEF HttpInv
<1>0. t = Request
  BY <1>2, Pipe DEF After
<1>3. /\ Orderly /\ Others(p, p', t) /\ StaysIn(p, p', t) /\ SameFlows(p, p')
      /\ p.tx[t].data = << >> => p'.tx[t].data = << >>
      /\ p.tx[t].eof => p'.inside[t]
  BY <1>2, HupReturnsTurn
<1>4. Flow(p', Response) = Flow(p, Response)
  BY <1>3, Pipe DEF SameFlows
<1> QED
  BY <1>0, <1>1, <1>2, <1>3, <1>4, RequestTurn

\* vk_readrfcline of the request, from the client.
LEMMA RequestReadKept ==
  ASSUME HttpInv, Read(Request), UNCHANGED << svars, hvars >>
  PROVE  HttpInv'
<1>1. Inside(Request, "READ") /\ phase' = phase
  BY DEF Read
<1>2. /\ phase = "execute" /\ p.running = Request /\ p.status[Request] = "RUN" /\ p.inside[Request]
      /\ p.op[Request] = "READ" /\ pc[Request] \in After(Request, "READ") /\ QueueInv /\ pc[Request] # "start"
  BY <1>1, Pipe, InsidePlace DEF HttpInv
<1>3. /\ Orderly /\ Others(p, p', Request) /\ StaysIn(p, p', Request) /\ SameFlow(p, p', Request)
      /\ p.tx[Request].data = << >> => p'.tx[Request].data = << >>
      /\ p'.inside[Request] \/ p'.need[Request] = 0 \/ Pollhup(p', Request)
  BY <1>2, Pipe, ReadTurn
<1>4. Flow(p', Response) = Flow(p, Response)
  BY <1>3, Pipe DEF SameFlow
<1>5. ~ p.tx[Request].eof
  BY <1>2 DEF HttpInv, ChunkInv, After
<1> QED
  BY <1>1, <1>2, <1>3, <1>4, <1>5, RequestTurn

\* vk_pollread of the response.
LEMMA PollreadKept ==
  ASSUME HttpInv, Pollread(Response), UNCHANGED << svars, hvars >>
  PROVE  HttpInv'
<1>1. Inside(Response, "POLLREAD") /\ phase' = phase
  BY DEF Pollread
<1>2. /\ phase = "execute" /\ p.running = Response /\ p.status[Response] = "RUN" /\ p.inside[Response]
      /\ p.op[Response] = "POLLREAD" /\ pc[Response] \in After(Response, "POLLREAD") /\ QueueInv
      /\ pc[Request] # "start"
  BY <1>1, Pipe, InsidePlace DEF HttpInv
<1>3. /\ Orderly /\ Others(p, p', Response) /\ StaysIn(p, p', Response) /\ SameFlows(p, p')
      /\ p'.need[Response] = p.need[Response]
      /\ p.tx[Response].data = << >> => p'.tx[Response].data = << >>
      /\ Dry(p', Response)
  BY <1>2, Pipe, PollreadTurn
<1>4. Flow(p', Response) = Flow(p, Response)
  BY <1>3, Pipe DEF SameFlows
<1> QED
  BY <1>1, <1>2, <1>3, <1>4, ResponseTurn DEF StaysIn

----------------------------------------------------------------------------
(* Turns that put something into the pipe *)

\* The request wrote to the pipe, whatever it wrote.
LEMMA RequestPuts ==
  ASSUME HttpInv, Orderly, Beside(p, p', Request), phase = "execute", phase' = phase,
         p.running = Request, StaysIn(p, p', Request), UNCHANGED << svars, hvars >>,
         p.inside[Request], p.op[Request] \in {"WRITE", "FORWARD"}, p'.need[Request] <= p.need[Request],
         pc[Request] \in After(Request, p.op[Request]),
         Len(Flow(p', Response)) >= Len(Flow(p, Response)), FlowInv', ChunkInv',
         Naps(p) /\ Naps(p') =>
           \A i \in Cur + 1 .. Asked :
             \/ asked[i].len > 0 \/ asked[i].chunked
             \/ i = Asked /\ (error[Request] \/ Given' < Asked \/ p'.tx[Request].data # << >>)
  PROVE  HttpInv'
<1>1. /\ UNCHANGED << pc, error, asked, taken >> /\ UNCHANGED << request, size, answered >>
  BY DEF svars, hvars
<1>2. Steps(Request) /\ Aside(Response)
  <2>1. Steps(Request) /\ p'.tx[Response].eof = p.tx[Response].eof
    BY Pipe, BesideSteps
  <2> QED
    BY <2>1, Pipe, StepAside
<1>3. /\ p'.op[Request] = p.op[Request] /\ p'.status[Request] \in {"RUN", "WAIT"}
      /\ (p'.status[Request] = "WAIT" => p'.inside[Request])
      /\ pc[Request] \in {"entity", "body", "chunkbody"}
  BY DEF StaysIn, After
<1>4. ControlInv'
  <2>1. Place(p', pc'[Request], Request)
    BY <1>1, <1>3, Pipe DEF Place, Ops
  <2> QED
    BY <1>1, <1>2, <1>3, <2>1, Pipe, StepControl DEF HttpInv
<1>5. Asked' = Asked /\ Cur' = Cur
  BY <1>1 DEF Asked, Cur
<1>6. AskInv'
  <2>1. AskInv
    BY DEF HttpInv
  <2>2. Handing' => p'.need[Request] <= 1
    <3>1. p.need[Request] \in Nat /\ p'.need[Request] \in Nat
      BY <1>4, Kinds, KindsAfter, Pipe DEF HttpInv, ControlInv
    <3>2. Handing' => p.need[Request] <= 1
      BY <1>3, <2>1 DEF AskInv, Handing
    <3> QED
      BY <3>1, <3>2
  <2>3. pc'[Request] \in {"entity", "body", "chunkbody"}
    BY <1>1, <1>3
  <2> QED
    BY <1>1, <1>3, <1>5, <2>1, <2>2, <2>3 DEF AskInv
<1>7. FlushInv'
  BY <1>1, <1>3 DEF FlushInv, Asking
<1>8. NapInv'
  <2>1. SUFFICES ASSUME Naps(p')
        PROVE /\ p'.tx[Response].data = << >>
              /\ p'.op[Response] \in {"READ", "FORWARD"} => p'.need[Response] # 0
              /\ \A i \in Cur' + 1 .. Asked' :
                   \/ asked'[i].len > 0 \/ asked'[i].chunked
                   \/ i = Asked' /\ (error'[Request] \/ Given' < Asked' \/ p'.tx[Request].data # << >>)
              /\ pc'[Request] = "called" /\ ~ error'[Request] => Flow(p, Response)' = << >>
    BY DEF NapInv
  <2>2. Naps(p)
    BY <1>2, <2>1 DEF Naps, Aside, Stays
  <2>3. /\ p'.tx[Response].data = << >>
        /\ p'.op[Response] \in {"READ", "FORWARD"} => p'.need[Response] # 0
    BY <1>2, <2>2 DEF HttpInv, NapInv, Aside, Stays
  <2>4. \A i \in Cur + 1 .. Asked :
             \/ asked[i].len > 0 \/ asked[i].chunked
             \/ i = Asked /\ (error[Request] \/ Given' < Asked \/ p'.tx[Request].data # << >>)
    BY <2>1, <2>2
  <2>5. pc'[Request] # "called"
    BY <1>1, <1>3
  <2> QED
    BY <1>1, <1>5, <2>3, <2>4, <2>5
<1>9. DOMAIN pc' = Threads /\ error' \in [Threads -> BOOLEAN] /\ request' \in Described
      /\ asked' \in Seq(Requests) /\ \A i \in 1 .. Asked : asked'[i] = asked[i]
  BY <1>1 DEF HttpInv, TypeInv
<1> QED
  BY <1>1, <1>2, <1>4, <1>6, <1>7, <1>8, <1>9, RequestRest

\* vk_write of the struct.
LEMMA RequestWritten ==
  ASSUME HttpInv, WriteAs(Request, Asked), UNCHANGED << svars, hvars >>
  PROVE  HttpInv'
<1>1. /\ Inside(Request, "WRITE") /\ phase' = phase
  BY DEF WriteAs
<1>2. /\ phase = "execute" /\ p.running = Request /\ p.inside[Request] /\ p.op[Request] = "WRITE"
      /\ pc[Request] \in After(Request, "WRITE") /\ QueueInv /\ pc[Request] = "entity"
  BY <1>1, Pipe, InsidePlace DEF HttpInv, After
<1> DEFINE n == p.need[Request] - p'.need[Request]
<1>3. /\ Asked \in Nat /\ asked \in Seq(Requests) /\ Given \in Nat /\ Given <= Asked /\ Cur \in Nat
      /\ Cur <= Given /\ Rest \in Nat /\ Flow(p, Response) \in Seq(Byte) /\ Len(Flow(p, Response)) \in Nat
      /\ Ordered(asked, Flow(p, Response), Rest, Cur, Given, Lacks)
  BY Counts
<1>4. Asked \in Byte
  BY <1>3 DEF Byte
<1>5. /\ Orderly /\ Others(p, p', Request) /\ StaysIn(p, p', Request)
      /\ n \in Nat /\ p'.need[Request] \in Nat /\ (p'.inside[Request] \/ p'.need[Request] = 0)
      /\ Flow(p', Response) = Flow(p, Response) \o Bytes(n, Asked)
  <2>1. /\ Orderly /\ Others(p, p', Request) /\ StaysIn(p, p', Request)
        /\ n \in Nat /\ p'.need[Request] \in Nat /\ (p'.inside[Request] \/ p'.need[Request] = 0)
        /\ \A r \in Threads : Source[r] # FD =>
             Flow(p', r) = IF Source[r] = Request THEN Flow(p, r) \o Bytes(n, Asked) ELSE Flow(p, r)
    BY <1>2, <1>4, Pipe, WriteTurn
  <2> QED
    BY <2>1, Pipe
<1>6. p.need[Request] \in Nat /\ p.need[Request] <= 1 /\ Handing
  BY <1>2, Kinds, Pipe DEF HttpInv, AskInv, ControlInv, Handing
<1>7. /\ UNCHANGED << pc, error, asked, taken >> /\ UNCHANGED << request, size, answered >>
      /\ p'.op[Request] = "WRITE"
  BY <1>2, <1>5 DEF svars, hvars, StaysIn
<1>8. ~ error[Request] /\ Asked > 0 /\ request = asked[Asked] /\ ~ p.tx[Request].eof
  BY <1>2 DEF HttpInv, AskInv, ChunkInv, Asking
<1>9. Stays(p, p', Response) /\ p'.need[Response] = p.need[Response] /\ Undisturbed(p, p', Response)
      /\ Beside(p, p', Request) /\ p'.tx[Request].eof = p.tx[Request].eof
  BY <1>5, Pipe DEF Others, Undisturbed, Stays, StaysIn
<1>10. /\ Cur' = Cur /\ (Met <=> Met') /\ (Open <=> Open')
       /\ Rest' = IF Open THEN Len(Flow(p', Response)) ELSE Rest
  BY <1>7, <1>9, ResponseSame
<1>11. Flow(p, Response)' = Flow(p', Response) /\ Asked' = Asked
  BY <1>7 DEF Flow, Asked
<1>12. CASE n = 0
  <2>1. p'.need[Request] = p.need[Request]
    BY <1>5, <1>6, <1>12
  <2>2. Flow(p', Response) = Flow(p, Response)
    <3>1. Flow(p', Response) = Flow(p, Response) \o << >>
      <4>1. Bytes(0, Asked) = << >>
        BY DEF Bytes
      <4> QED
        BY <1>5, <1>12, <4>1
    <3> QED
      BY <1>3, <3>1
  <2>3. Given' = Given /\ Owed' = Owed /\ (Chunking <=> Chunking')
    <3>1. Given' = Given
      BY <1>2, <1>7, <1>11, <1>5, <1>12, <2>1 DEF Given, Handing, StaysIn
    <3> QED
      BY <1>7, <1>11, <2>1, <3>1, <1>9 DEF Owed, Chunking
  <2>4. Lacks' = Lacks /\ Rest' = Rest
    <3>1. Open => Rest = Len(Flow(p, Response))
      BY DEF Rest
    <3> QED
      BY <1>7, <1>10, <2>2, <2>3, <3>1 DEF Lacks
  <2>5. FlowInv'
    BY <1>3, <1>7, <1>10, <1>11, <2>2, <2>3, <2>4 DEF FlowInv
  <2>6. ChunkInv'
    <3>1. ChunkInv
      BY DEF HttpInv
    <3> QED
      BY <1>7, <1>8, <1>9, <1>10, <1>11, <2>3, <3>1 DEF ChunkInv
  <2>7. ASSUME Naps(p), Naps(p')
        PROVE  \A i \in Cur + 1 .. Asked :
                 \/ asked[i].len > 0 \/ asked[i].chunked
                 \/ i = Asked /\ (error[Request] \/ Given' < Asked \/ p'.tx[Request].data # << >>)
    <3>1. p'.rx[Response].data = p.rx[Response].data
      BY <1>9, <2>7 DEF Undisturbed, Naps
    <3>2. p'.tx[Request].data = p.tx[Request].data
      <4>1. /\ p.rx[Response].data \in Seq(Byte) /\ p.tx[Request].data \in Seq(Byte)
            /\ p'.tx[Request].data \in Seq(Byte)
        BY <1>5, Kinds, KindsAfter, Pipe DEF HttpInv, ControlInv, Orderly
      <4>2. p.rx[Response].data \o p'.tx[Request].data = p.rx[Response].data \o p.tx[Request].data
        BY <2>2, <3>1, Pipe DEF Flow
      <4> QED
        BY <4>1, <4>2, Cancel
    <3> QED
      BY <2>3, <2>7, <3>2 DEF HttpInv, NapInv
  <2>8. Len(Flow(p', Response)) >= Len(Flow(p, Response)) /\ p'.need[Request] <= p.need[Request]
    BY <1>3, <1>6, <2>1, <2>2
  <2> QED
    BY <1>1, <1>2, <1>5, <1>9, <2>5, <2>6, <2>7, <2>8, RequestPuts
<1>13. CASE n # 0
  <2>1. n = 1 /\ p.need[Request] = 1 /\ p'.need[Request] = 0
    BY <1>5, <1>6, <1>13
  <2>3. Given = Asked - 1 /\ Given' = Asked
    BY <1>3, <1>6, <1>7, <1>11, <2>1 DEF Given
  <2>4. ~ Chunking /\ Owed = 0 /\ Lacks = {0}
    <3>1. Given # Asked
      BY <1>3, <2>3
    <3> QED
      BY <1>2, <1>8, <3>1 DEF Chunking, Owed, Lacks
  <2>5. Owed' = request.len /\ Lacks' = {asked[Asked].len} /\ (Chunking' <=> request.chunked)
    <3>1. Owed' = request.len
      BY <1>2, <1>7, <1>11, <2>3 DEF Owed
    <3>2. Lacks' = {asked[Asked].len}
      BY <1>7, <1>8, <3>1 DEF Lacks
    <3>3. Chunking' <=> request.chunked
      BY <1>2, <1>7, <1>11, <2>3 DEF Chunking
    <3> QED
      BY <3>1, <3>2, <3>3
  <2>6. Given > 0 /\ asked[Given].chunked => Cur = Given /\ ~ Open
    BY <1>8, <2>4 DEF HttpInv, ChunkInv
  <2>7. ~ Open
    <3>1. Open => Cur = Given /\ Cur > 0 /\ asked[Cur].chunked
      BY OpenLast DEF HttpInv, ChunkInv
    <3> QED
      BY <2>6, <3>1
  <2>8. Flow(p', Response) = Append(Flow(p, Response), Given + 1)
    <3>1. Bytes(1, Asked) = << Asked >>
      BY DEF Bytes
    <3>2. Flow(p', Response) = Flow(p, Response) \o << Asked >>
      BY <1>5, <2>1, <3>1
    <3>3. Asked = Given + 1
      BY <1>3, <2>3
    <3> QED
      BY <1>3, <1>4, <3>2, <3>3
  <2>9. FlowInv'
    <3>1. Given + 1 = Asked /\ Given + 1 <= Len(asked) /\ Asked = Len(asked)
      BY <1>3, <2>3 DEF Asked
    <3>2. Ordered(asked, Append(Flow(p, Response), Given + 1), Rest, Cur, Given + 1, {asked[Given + 1].len})
      BY <1>3, <2>4, <2>6, <3>1, OrderedMore
    <3>3. Rest' = Rest
      BY <1>10, <2>7
    <3> QED
      BY <1>3, <1>7, <1>10, <1>11, <2>3, <2>5, <2>8, <3>1, <3>2, <3>3 DEF FlowInv
  <2>10. ChunkInv'
    <3>1. ChunkInv
      BY DEF HttpInv
    <3>2. Chunking' => asked'[Asked'].chunked /\ (Cur' = Asked' => Open')
      <4>1. Cur' # Asked'
        BY <1>3, <1>10, <1>11, <2>3
      <4> QED
        BY <1>7, <1>8, <1>11, <2>5, <4>1
    <3>3. p'.tx[Request].eof => pc'[Request] = "trailer" /\ p'.inside[Request]
      BY <1>8, <1>9
    <3>4. ~ (asked'[Given'].chunked /\ ~ Chunking')
      BY <1>7, <1>8, <2>3, <2>5
    <3>5. \A i \in Cur' + 1 .. Given' - 1 : ~ asked'[i].chunked
      <4>1. SUFFICES ASSUME NEW i \in Cur + 1 .. Asked - 1 PROVE ~ asked[i].chunked
        BY <1>7, <1>10, <2>3
      <4>2. CASE i \in Cur + 1 .. Given - 1
        BY <3>1, <4>2 DEF ChunkInv
      <4>3. CASE i \notin Cur + 1 .. Given - 1
        <5>1. i = Given /\ Given > 0 /\ Cur # Given
          BY <1>3, <2>3, <4>3
        <5> QED
          BY <2>6, <5>1
      <4> QED
        BY <4>2, <4>3
    <3>6. ~ Open'
      BY <1>10, <2>7
    <3> QED
      BY <3>2, <3>3, <3>4, <3>5, <3>6 DEF ChunkInv
  <2>11. ASSUME Naps(p), Naps(p')
         PROVE  \A i \in Cur + 1 .. Asked :
                  \/ asked[i].len > 0 \/ asked[i].chunked
                  \/ i = Asked /\ (error[Request] \/ Given' < Asked \/ p'.tx[Request].data # << >>)
    <3>1. p'.rx[Response].data = p.rx[Response].data
      BY <1>9, <2>11 DEF Undisturbed, Naps
    <3>2. p'.tx[Request].data # << >>
      <4>1. /\ p.rx[Response].data \in Seq(Byte) /\ p.tx[Request].data \in Seq(Byte)
        BY Kinds, Pipe DEF HttpInv, ControlInv
      <4>2. p'.tx[Request].data = << >> =>
              Flow(p', Response) = p.rx[Response].data
        BY <3>1, <4>1, Pipe DEF Flow
      <4>3. Len(Flow(p, Response)) = Len(p.rx[Response].data) + Len(p.tx[Request].data)
        BY <4>1, Pipe, Joined DEF Flow
      <4>4. Len(Flow(p', Response)) = Len(Flow(p, Response)) + 1
        BY <1>3, <2>8, <2>3, <1>4
      <4>5. Len(p.rx[Response].data) \in Nat /\ Len(p.tx[Request].data) \in Nat
        BY <4>1
      <4>6. Len(Flow(p', Response)) # Len(p.rx[Response].data)
        <5>1. \A a, b, c, d : a \in Nat /\ b \in Nat /\ c = a + b /\ d = c + 1 => d # a
          OBVIOUS
        <5> QED
          BY <4>3, <4>4, <4>5, <5>1, Zenon
      <4> QED
        BY <4>2, <4>6, Zenon
    <3>3. \A i \in Cur + 1 .. Asked : i # Asked => asked[i].len > 0 \/ asked[i].chunked
      BY <2>11 DEF HttpInv, NapInv
    <3> QED
      BY <3>2, <3>3
  <2>12. Len(Flow(p', Response)) >= Len(Flow(p, Response)) /\ p'.need[Request] <= p.need[Request]
    BY <1>3, <2>1, <2>8
  <2> QED
    BY <1>1, <1>2, <1>5, <1>9, <2>9, <2>10, <2>11, <2>12, RequestPuts
<1> QED
  BY <1>12, <1>13

\* vk_write, of the response to the client.
LEMMA WriteKept ==
  ASSUME HttpInv, NEW t \in Threads, WriteAs(t, Asked), UNCHANGED << svars, hvars >>
  PROVE  HttpInv'
<1>1. CASE t = Request
  BY <1>1, RequestWritten
<1>2. CASE t = Response
  <2>1. Inside(Response, "WRITE") /\ phase' = phase /\ WriteAs(Response, Asked)
    BY <1>2 DEF WriteAs
  <2>2. /\ phase = "execute" /\ p.running = Response /\ p.inside[Response] /\ p.op[Response] = "WRITE"
        /\ pc[Response] \in After(Response, "WRITE") /\ QueueInv /\ pc[Request] # "start"
    BY <2>1, Pipe, InsidePlace DEF HttpInv
  <2>3. Asked \in Byte
    BY Counts DEF Byte
  <2>4. /\ Orderly /\ Others(p, p', Response) /\ StaysIn(p, p', Response)
        /\ Flow(p', Response) = Flow(p, Response)
    <3>1. /\ Orderly /\ Others(p, p', Response) /\ StaysIn(p, p', Response)
          /\ \A r \in Threads : Source[r] # FD =>
               Flow(p', r) = IF Source[r] = Response
                             THEN Flow(p, r) \o Bytes(p.need[Response] - p'.need[Response], Asked)
                             ELSE Flow(p, r)
      BY <2>1, <2>2, <2>3, Pipe, WriteTurn
    <3> QED
      BY <3>1, Pipe
  <2> QED
    BY <2>1, <2>2, <2>4, ResponseTurn DEF StaysIn
<1> QED
  BY <1>1, <1>2, Pipe

\* vk_forward of the entity, or of a chunk, into the pipe.
LEMMA RequestForwarded ==
  ASSUME HttpInv, ForwardAs(Request, - Asked), UNCHANGED << svars, hvars >>
  PROVE  HttpInv'
<1>1. /\ Inside(Request, "FORWARD") /\ phase' = phase
  BY DEF ForwardAs
<1>2. /\ phase = "execute" /\ p.running = Request /\ p.inside[Request] /\ p.op[Request] = "FORWARD"
      /\ pc[Request] \in After(Request, "FORWARD") /\ QueueInv /\ pc[Request] \in {"body", "chunkbody"}
  BY <1>1, Pipe, InsidePlace DEF HttpInv, After
<1>3. /\ Asked \in Nat /\ asked \in Seq(Requests) /\ Given \in Nat /\ Given <= Asked /\ Cur \in Nat
      /\ Cur <= Given /\ Rest \in Nat /\ Flow(p, Response) \in Seq(Byte) /\ Len(Flow(p, Response)) \in Nat
      /\ Ordered(asked, Flow(p, Response), Rest, Cur, Given, Lacks)
  BY Counts
<1>4. - Asked \in Byte
  BY <1>3 DEF Byte
<1>5. PICK n \in Nat :
        /\ Orderly /\ Beside(p, p', Request) /\ StaysIn(p, p', Request)
        /\ p'.need[Request] = p.need[Request] - n /\ p'.need[Request] \in Nat
        /\ Flow(p', Response) = Flow(p, Response) \o Bytes(n, - Asked)
  <2>1. PICK n \in Nat :
          /\ Orderly /\ Beside(p, p', Request) /\ StaysIn(p, p', Request)
          /\ p'.need[Request] = p.need[Request] - n /\ p'.need[Request] \in Nat
          /\ \A r \in Threads \ {Request} : Source[r] # FD =>
               Flow(p', r) = IF Source[r] = Request THEN Flow(p, r) \o Bytes(n, - Asked) ELSE Flow(p, r)
    <3> DEFINE v == - Asked
    <3>1. QueueInv /\ Request \in Threads /\ v \in Byte /\ ForwardAs(Request, v)
      BY <1>2, <1>4, Pipe
    <3> HIDE DEF v
    <3>2. \E n \in Nat :
            /\ Orderly /\ Beside(p, p', Request) /\ StaysIn(p, p', Request)
            /\ p'.need[Request] = p.need[Request] - n /\ p'.need[Request] \in Nat
            /\ \A r \in Threads \ {Request} : Source[r] # FD =>
                 Flow(p', r) = IF Source[r] = Request THEN Flow(p, r) \o Bytes(n, v) ELSE Flow(p, r)
      <4>1. \E n \in Nat :
              /\ Orderly /\ Beside(p, p', Request) /\ (Sink[Request] = FD => Others(p, p', Request)) /\ StaysIn(p, p', Request)
              /\ p'.need[Request] = p.need[Request] - n /\ p'.need[Request] \in Nat
              /\ \A r \in Threads \ {Request} : Source[r] # FD =>
                   Flow(p', r) = IF Source[r] = Request THEN Flow(p, r) \o Bytes(n, v) ELSE Flow(p, r)
              /\ Source[Request] \notin {FD, Request} =>
                   \E f \in Seq(Byte) : Len(f) = n /\ Flow(p, Request) = f \o Flow(p', Request)
              /\ p'.inside[Request] \/ p'.need[Request] = 0 \/ (Pollhup(p, Request) /\ n = 0)
              /\ Source[Request] # FD /\ Sink[Request] = FD =>
                   Dry(p', Request) /\ (p'.status[Request] = "WAIT" /\ ~ p'.blocked_enq[Request] => p'.need[Request] # 0)
        BY <3>1, ForwardTurn, Zenon
      <4> QED
        BY <4>1, Zenon
    <3> QED
      BY <3>2 DEF v
  <2>2. Flow(p', Response) = Flow(p, Response) \o Bytes(n, - Asked)
    BY <2>1, Pipe
  <2> QED
    BY <2>1, <2>2
<1>6. p.need[Request] \in Nat /\ p'.need[Request] <= p.need[Request]
  <2>1. p.need[Request] \in Nat
    BY Kinds, Pipe DEF HttpInv, ControlInv
  <2> QED
    BY <1>5, <2>1
<1>7. /\ UNCHANGED << pc, error, asked, taken >> /\ UNCHANGED << request, size, answered >>
      /\ p'.op[Request] = "FORWARD"
  BY <1>2, <1>5 DEF svars, hvars, StaysIn
<1>8. ~ error[Request] /\ Asked > 0 /\ request = asked[Asked] /\ ~ p.tx[Request].eof
  BY <1>2 DEF HttpInv, AskInv, ChunkInv, Asking
<1>9. Stays(p, p', Response) /\ p'.need[Response] = p.need[Response] /\ p'.tx[Request].eof = p.tx[Request].eof
  BY <1>5, Pipe DEF Beside, Stays, StaysIn
<1>10. /\ Cur' = Cur /\ (Met <=> Met') /\ (Open <=> Open')
       /\ Rest' = IF Open THEN Len(Flow(p', Response)) ELSE Rest
  BY <1>7, <1>9, ResponseSame
<1>11. Flow(p, Response)' = Flow(p', Response) /\ Asked' = Asked
  BY <1>7 DEF Flow, Asked
<1>12. Given = Asked /\ Given' = Asked /\ (Chunking <=> Chunking')
  <2>1. ~ Handing /\ ~ Handing'
    BY <1>2, <1>7 DEF Handing
  <2>2. Given = Asked /\ Given' = Asked
    BY <1>11, <2>1 DEF Given
  <2> QED
    BY <1>7, <1>9, <1>11, <2>2 DEF Chunking
<1>13. /\ pc[Request] = "body" => asked[Asked].len > 0
       /\ pc[Request] = "chunkbody" => asked[Asked].chunked /\ (Cur = Asked => Open)
  BY DEF HttpInv, AskInv, ChunkInv, Chunking
<1>14. asked[Asked].chunked \in BOOLEAN /\ asked[Asked].len \in Nat /\ (asked[Asked].chunked => asked[Asked].len = 0)
  <2>1. Asked \in 1 .. Len(asked)
    BY <1>3, <1>8 DEF Asked
  <2> QED
    BY <1>3, <2>1, Sizes
<1>15. /\ pc[Request] = "body" => ~ asked[Asked].chunked
       /\ Open => Cur = Asked /\ asked[Asked].chunked
  <2>1. Open => Cur = Given /\ asked[Cur].chunked
    BY OpenLast DEF HttpInv, ChunkInv
  <2> QED
    BY <1>12, <1>13, <1>14, <2>1
<1>16. /\ Lacks = {Owed} /\ Lacks' = {Owed'}
       /\ pc[Request] = "body" => Owed = p.need[Request] /\ Owed' = p'.need[Request]
       /\ pc[Request] = "chunkbody" => Owed = 0 /\ Owed' = 0
  <2>1. Lacks = {Owed} /\ Lacks' = {Owed'}
    BY <1>7, <1>8 DEF Lacks
  <2> QED
    BY <1>2, <1>7, <2>1 DEF Owed
<1>17. Len(Flow(p', Response)) = Len(Flow(p, Response)) + n
  <2>1. Bytes(n, - Asked) \in Seq(Byte) /\ Len(Bytes(n, - Asked)) = n
    <3>1. \A v \in Byte : Bytes(n, v) \in Seq(Byte) /\ Len(Bytes(n, v)) = n
      BY DEF Bytes, Byte
    <3> QED
      BY <1>4, <3>1
  <2> DEFINE d == Bytes(n, - Asked)
             q == Flow(p, Response)
  <2>2. d \in Seq(Byte) /\ q \in Seq(Byte) /\ Len(d) = n /\ Flow(p', Response) = q \o d
    BY <1>3, <1>5, <2>1
  <2> HIDE DEF d, q
  <2>3. Len(q \o d) = Len(q) + n
    BY <2>2, Joined
  <2> QED
    BY <2>2, <2>3 DEF q
<1>18. FlowInv'
  <2>1. Rest' \in Nat /\ Owed \in Nat /\ Owed' \in Nat
    BY <1>2, <1>3, <1>5, <1>6, <1>10, <1>16, <1>17
  <2>2. IF asked[Asked].chunked THEN Owed = 0 /\ Owed' = 0 /\ Rest' = (IF Cur = Asked THEN Rest + n ELSE Rest)
                                ELSE Rest' = Rest /\ Owed' = Owed - n
    <3>1. CASE pc[Request] = "body"
      BY <1>5, <1>10, <1>15, <1>16, <3>1
    <3>2. CASE pc[Request] = "chunkbody"
      <4>1. Open => Rest = Len(Flow(p, Response))
        BY DEF Rest
      <4>2. Open <=> Cur = Asked
        BY <1>13, <1>15, <3>2
      <4> QED
        BY <1>10, <1>13, <1>16, <1>17, <3>2, <4>1, <4>2
    <3> QED
      BY <1>2, <3>1, <3>2
  <2>3. Ordered(asked, Flow(p, Response) \o Bytes(n, - Asked), Rest', Cur, Asked, {Owed'})
    <3>1. Ordered(asked, Flow(p, Response), Rest, Cur, Asked, {Owed}) /\ Cur <= Asked /\ Asked <= Len(asked)
      BY <1>3, <1>12, <1>16 DEF Asked
    <3>2. Rest' \in Nat /\ Owed' \in Nat
      BY <2>1
    <3> DEFINE m == Rest'
               v == Owed'
    <3>3. /\ m \in Nat /\ v \in Nat
          /\ IF asked[Asked].chunked THEN Owed = 0 /\ v = 0 /\ m = (IF Cur = Asked THEN Rest + n ELSE Rest)
                                     ELSE m = Rest /\ v = Owed - n
      BY <2>2, <3>2
    <3> HIDE DEF m, v
    <3>4. Ordered(asked, Flow(p, Response) \o Bytes(n, - Asked), m, Cur, Asked, {v})
      BY <1>3, <1>8, <2>1, <3>1, <3>3, OrderedPut
    <3> QED
      BY <3>4 DEF m, v
  <2> QED
    BY <1>3, <1>5, <1>7, <1>10, <1>11, <1>12, <1>16, <2>3 DEF FlowInv
<1>19. ChunkInv'
  <2>1. ChunkInv
    BY DEF HttpInv
  <2> QED
    BY <1>7, <1>8, <1>9, <1>10, <1>11, <1>12, <2>1 DEF ChunkInv
<1>20. ASSUME Naps(p), Naps(p')
       PROVE  \A i \in Cur + 1 .. Asked :
                \/ asked[i].len > 0 \/ asked[i].chunked
                \/ i = Asked /\ (error[Request] \/ Given' < Asked \/ p'.tx[Request].data # << >>)
  <2>1. \A i \in Cur + 1 .. Asked : i # Asked => asked[i].len > 0 \/ asked[i].chunked
    BY <1>20 DEF HttpInv, NapInv
  <2>2. asked[Asked].len > 0 \/ asked[Asked].chunked
    BY <1>2, <1>13
  <2> QED
    BY <2>1, <2>2
<1>21. Len(Flow(p', Response)) >= Len(Flow(p, Response))
  BY <1>3, <1>17
<1> QED
  BY <1>1, <1>2, <1>5, <1>6, <1>18, <1>19, <1>20, <1>21, RequestPuts

----------------------------------------------------------------------------
(* Turns that take something off the pipe *)

\* The response took off the pipe, whatever it took.
LEMMA ResponseTakes ==
  ASSUME HttpInv, Orderly, Others(p, p', Response), phase = "execute", phase' = phase,
         p.running = Response, StaysIn(p, p', Response), p.inside[Response],
         p.op[Response] \in {"READ", "FORWARD"}, pc[Response] \in After(Response, p.op[Response]),
         UNCHANGED << pc, error, asked, hvars >>, taken' \in Seq(Byte),
         FlowInv', ChunkInv', AnswerInv', Cur' \in Nat, Rest' \in Nat, Dry(p', Response),
         p'.status[Response] = "WAIT" /\ ~ p'.blocked_enq[Response] => p'.need[Response] # 0
  PROVE  HttpInv'
<1>1. /\ UNCHANGED << pc, error, asked >> /\ UNCHANGED << request, size, answered >>
  BY DEF hvars
<1>2. /\ Steps(Response) /\ Stays(p, p', Request) /\ p'.tx[Request].eof = p.tx[Request].eof
      /\ pc[Request] # "start"
  <2>1. Beside(p, p', Response)
    BY DEF Others
  <2>2. Steps(Response) /\ p'.tx[Request].eof = p.tx[Request].eof
    BY <2>1, Pipe, BesideSteps
  <2>3. pc[Request] # "start"
    BY Pipe DEF HttpInv, ControlInv, StartInv
  <2> QED
    BY <2>2, <2>3, Pipe DEF Steps
<1>3. p.inside[Request] \/ pc[Request] = "called"
  BY <1>2, Pipe, RequestInside DEF HttpInv
<1>4. ControlInv'
  <2>1. Place(p', pc'[Response], Response)
    BY <1>1, Pipe DEF Place, Ops, StaysIn
  <2> QED
    BY <1>1, <1>2, <2>1, Pipe, StepControl DEF HttpInv
<1>5. pc[Response] \in {"got", "sent", "chunkbody"}
  BY Pipe DEF After
<1>6. EndInv'
  BY <1>1, <1>5 DEF HttpInv, EndInv
<1>7. NapInv'
  <2>1. Asked \in Nat /\ Given \in Nat /\ (Given = Asked \/ Given = Asked - 1)
    BY Counts DEF Given
  <2>2. Asked' = Asked /\ Given' = Given
    BY <1>1, <1>2, RequestSame
  <2>4. Naps(p') => /\ Flow(p', Response) = << >> /\ p'.tx[Response].data = << >>
                    /\ p'.need[Response] # 0
    BY DEF Naps, Dry
  <2> QED
    BY <2>1, <2>2, <2>4, DryNap
<1>8. DOMAIN pc' = Threads /\ size' \in 0 .. BufLen /\ answered' \in Nat
  BY <1>1 DEF HttpInv, TypeInv
<1> QED
  BY <1>1, <1>2, <1>3, <1>4, <1>6, <1>7, <1>8, ResponseRest

\* The end of the pipe comes with a chunked entity alone.
LEMMA EofOpen ==
  ASSUME HttpInv, p.tx[Request].eof, Len(Flow(p, Response)) <= Rest
  PROVE  Open
<1>1. pc[Request] = "trailer" /\ p.inside[Request]
  BY DEF HttpInv, ChunkInv
<1>2. Chunking
  BY <1>1 DEF Chunking
<1>3. p.op[Request] = "HUP"
  <2>1. Place(p, "trailer", Request)
    BY <1>1, Pipe DEF HttpInv, ControlInv, PlaceInv
  <2>2. "trailer" \in After(Request, p.op[Request])
    BY <1>1, <2>1 DEF Place
  <2> QED
    BY <2>2 DEF After
<1>4. Given = Asked
  BY <1>3 DEF Given, Handing
<1>5. Cur = Given
  <2>1. /\ Cur <= Given /\ Cur \in Nat /\ Given \in Nat /\ Rest \in Nat /\ Flow(p, Response) \in Seq(Byte)
        /\ Ordered(asked, Flow(p, Response), Rest, Cur, Given, Lacks)
    BY Counts
  <2> QED
    BY <2>1, OrderedEmpty
<1> QED
  BY <1>2, <1>4, <1>5 DEF HttpInv, ChunkInv

\* vk_forward of the entity, or of a chunk, to the client.
LEMMA ResponseForwarded ==
  ASSUME HttpInv, ForwardAs(Response, 0), UNCHANGED << svars, hvars >>
  PROVE  HttpInv'
<1>1. /\ Inside(Response, "FORWARD") /\ phase' = phase
  BY DEF ForwardAs
<1>2. /\ phase = "execute" /\ p.running = Response /\ p.inside[Response] /\ p.op[Response] = "FORWARD"
      /\ pc[Response] \in After(Response, "FORWARD") /\ QueueInv /\ pc[Response] \in {"sent", "chunkbody"}
  BY <1>1, Pipe, InsidePlace DEF HttpInv, After
<1>3. /\ Asked \in Nat /\ asked \in Seq(Requests) /\ Given \in Nat /\ Given <= Asked /\ Cur \in Nat
      /\ Cur <= Given /\ Rest \in Nat /\ Flow(p, Response) \in Seq(Byte) /\ Len(Flow(p, Response)) \in Nat
      /\ Ordered(asked, Flow(p, Response), Rest, Cur, Given, Lacks)
  BY Counts
<1>4. 0 \in Byte
  BY DEF Byte
<1>5. PICK n \in Nat :
        /\ Orderly /\ Others(p, p', Response) /\ StaysIn(p, p', Response)
        /\ p'.need[Response] = p.need[Response] - n /\ p'.need[Response] \in Nat
        /\ \E f \in Seq(Byte) : Len(f) = n /\ Flow(p, Response) = f \o Flow(p', Response)
        /\ p'.inside[Response] \/ p'.need[Response] = 0 \/ (Pollhup(p, Response) /\ n = 0)
        /\ Dry(p', Response)
        /\ p'.status[Response] = "WAIT" /\ ~ p'.blocked_enq[Response] => p'.need[Response] # 0
  <2>1. PICK n \in Nat :
          /\ Orderly /\ (Sink[Response] = FD => Others(p, p', Response)) /\ StaysIn(p, p', Response)
          /\ p'.need[Response] = p.need[Response] - n /\ p'.need[Response] \in Nat
          /\ Source[Response] \notin {FD, Response} =>
               \E f \in Seq(Byte) : Len(f) = n /\ Flow(p, Response) = f \o Flow(p', Response)
          /\ p'.inside[Response] \/ p'.need[Response] = 0 \/ (Pollhup(p, Response) /\ n = 0)
          /\ Source[Response] # FD /\ Sink[Response] = FD =>
               /\ Dry(p', Response)
               /\ p'.status[Response] = "WAIT" /\ ~ p'.blocked_enq[Response] => p'.need[Response] # 0
    BY <1>2, <1>4, Pipe, ForwardTurn
  <2>2. Source[Response] \notin {FD, Response} /\ Source[Response] # FD /\ Sink[Response] = FD
    BY Pipe
  <2> QED
    BY <2>1, <2>2
<1>6. PICK f \in Seq(Byte) : Len(f) = n /\ Flow(p, Response) = f \o Flow(p', Response)
  BY <1>5
<1>7. Flow(p', Response) \in Seq(Byte) /\ Len(Flow(p', Response)) \in Nat
  BY <1>5, KindsAfter DEF Orderly
<1>8. Len(Flow(p, Response)) = n + Len(Flow(p', Response))
  BY <1>6, <1>7, Joined
<1>9. /\ UNCHANGED << pc, error, asked, taken >> /\ UNCHANGED << request, size, answered >>
      /\ p'.op[Response] = "FORWARD" /\ UNCHANGED << pc, error, asked, hvars >>
  BY <1>2, <1>5 DEF svars, hvars, StaysIn
<1>10. p.need[Response] \in Nat
  BY Kinds, Pipe DEF HttpInv, ControlInv
<1>11. /\ Cur' = Cur /\ ~ Met /\ ~ Met' /\ (Open <=> pc[Response] = "chunkbody") /\ (Open <=> Open')
       /\ Flow(p, Response)' = Flow(p', Response)
  <2>1. Cur' = Cur /\ ~ Met /\ ~ Met'
    BY <1>2, <1>9 DEF Cur, Met
  <2>2. (Open <=> pc[Response] = "chunkbody") /\ (Open <=> Open')
    BY <1>2, <1>9, <2>1 DEF Open
  <2>3. Flow(p, Response)' = Flow(p', Response)
    BY DEF Flow
  <2> QED
    BY <2>1, <2>2, <2>3
<1>12. Rest' = Rest - n /\ Rest' \in Nat /\ n <= Rest
  <2>1. CASE pc[Response] = "chunkbody"
    <3>1. Rest = Len(Flow(p, Response)) /\ Rest' = Len(Flow(p', Response))
      BY <1>11, <2>1 DEF Rest
    <3> QED
      BY <1>7, <1>8, <3>1
  <2>2. CASE pc[Response] = "sent"
    <3>1. Rest = p.need[Response] /\ Rest' = p'.need[Response]
      BY <1>9, <1>11, <2>2 DEF Rest
    <3> QED
      BY <1>5, <1>10, <3>1
  <2> QED
    BY <1>2, <2>1, <2>2
<1>13. Stays(p, p', Request) /\ p'.tx[Request].eof = p.tx[Request].eof
  BY <1>5, Pipe DEF Others, Beside
<1>14. Asked' = Asked /\ Given' = Given /\ Lacks' = Lacks /\ (Chunking <=> Chunking')
  BY <1>9, <1>13, RequestSame
<1>15. FlowInv'
  <2>1. Ordered(asked, f \o Flow(p', Response), Rest, Cur, Given, Lacks)
    BY <1>3, <1>6
  <2>2. Len(f) <= Rest /\ Given <= Len(asked)
    BY <1>3, <1>6, <1>12 DEF Asked
  <2> DEFINE r == Flow(p', Response)
             W == Lacks
  <2>3. Ordered(asked, f \o r, Rest, Cur, Given, W) /\ r \in Seq(Byte)
    BY <1>7, <2>1
  <2> HIDE DEF r, W
  <2>4. Ordered(asked, r, Rest - Len(f), Cur, Given, W)
    BY <1>3, <1>6, <2>2, <2>3, OrderedPop
  <2>5. Ordered(asked', Flow(p, Response)', Rest', Cur', Given', Lacks')
    BY <1>6, <1>9, <1>11, <1>12, <1>14, <2>4 DEF r, W
  <2> QED
    BY <1>3, <1>11, <1>14, <2>5 DEF FlowInv
<1>16. ChunkInv'
  <2>1. ChunkInv
    BY DEF HttpInv
  <2>2. p'.inside[Request] = p.inside[Request]
    BY <1>13 DEF Stays
  <2> QED
    BY <1>9, <1>11, <1>13, <1>14, <2>1, <2>2 DEF ChunkInv
<1>17. ~ p'.inside[Response] => p'.need[Response] = 0
  <2>1. SUFFICES ASSUME Pollhup(p, Response), n = 0, p'.need[Response] # 0 PROVE FALSE
    BY <1>5
  <2>2. p.tx[Request].eof /\ p.rx[Response].data = << >> /\ p.tx[Request].data = << >>
    BY <2>1, Pipe DEF Pollhup
  <2>3. Len(Flow(p, Response)) = 0
    <3>1. Flow(p, Response) = << >> \o << >>
      BY <2>2, Pipe DEF Flow
    <3> QED
      BY <3>1
  <2>4. p.need[Response] # 0
    BY <1>5, <1>10, <2>1
  <2>5. Open
    <3>1. Len(Flow(p, Response)) <= Rest
      BY <1>3, <2>3
    <3> QED
      BY <2>2, <3>1, EofOpen
  <2>6. p.need[Response] <= Len(Flow(p, Response))
    BY <1>11, <2>5 DEF HttpInv, AnswerInv
  <2> QED
    BY <1>10, <2>3, <2>4, <2>6
<1>18. AnswerInv'
  <2>1. AnswerInv
    BY DEF HttpInv
  <2>2. pc'[Response] = "chunkbody" => p'.need[Response] <= Len(Flow(p, Response)')
    <3>1. pc[Response] = "chunkbody" => p.need[Response] <= Len(Flow(p, Response))
      BY <2>1 DEF AnswerInv
    <3> QED
      BY <1>5, <1>7, <1>8, <1>9, <1>10, <1>11, <3>1
  <2>3. ~ p'.tx[Response].eof
    BY <1>5, <2>1 DEF AnswerInv, StaysIn
  <2>4. pc'[Response] \in {"sent", "chunkbody"} /\ pc'[Response] \in Answers
    BY <1>2, <1>9 DEF Answers
  <2>5. taken' = << answered' >> /\ answered' > 0 /\ ~ error'[Response]
    BY <1>2, <1>9, <2>1 DEF AnswerInv, Answers
  <2> QED
    BY <1>9, <1>17, <2>2, <2>3, <2>4, <2>5 DEF AnswerInv
<1>19. taken' \in Seq(Byte)
  BY <1>9 DEF HttpInv, TypeInv
<1>20. Cur' \in Nat
  BY <1>3, <1>11
<1> QED
  BY <1>1, <1>2, <1>5, <1>9, <1>12, <1>15, <1>16, <1>18, <1>19, <1>20, ResponseTakes


\* vk_read of the struct: it ends with all of it, never at the end of the
\* pipe, since the last struct comes before that end.
LEMMA TurnReadKept ==
  ASSUME HttpInv, TurnRead, UNCHANGED hvars
  PROVE  HttpInv'
<1> DEFINE f == SubSeq(p.rx[Response].data, 1, p.need[Response] - p'.need[Response])
<1>1. /\ Inside(Response, "READ") /\ phase' = phase /\ Read(Response) /\ taken' = taken \o f
      /\ UNCHANGED << pc, error, asked >> /\ UNCHANGED << request, size, answered >>
  BY DEF TurnRead, Read, hvars
<1>2. /\ phase = "execute" /\ p.running = Response /\ p.inside[Response] /\ p.op[Response] = "READ"
      /\ pc[Response] = "got" /\ pc[Response] \in After(Response, "READ") /\ QueueInv
  <2>1. /\ phase = "execute" /\ p.running = Response /\ p.inside[Response] /\ p.op[Response] = "READ"
        /\ pc[Response] \in After(Response, "READ") /\ QueueInv
    BY <1>1, Pipe, InsidePlace DEF HttpInv
  <2>2. pc[Response] = "got"
    BY <2>1, Pipe DEF After
  <2> QED
    BY <2>1, <2>2
<1>3. /\ Orderly /\ Others(p, p', Response) /\ StaysIn(p, p', Response)
      /\ f \in Seq(Byte) /\ Len(f) = p.need[Response] - p'.need[Response] /\ p'.need[Response] \in Nat
      /\ Flow(p, Response) = f \o Flow(p', Response)
      /\ p'.status[Response] = "WAIT" => p'.need[Response] # 0
      /\ \/ p'.inside[Response] \/ p'.need[Response] = 0
         \/ Flow(p', Response) = << >> /\ p.tx[Request].eof
      /\ Dry(p', Response)
  BY <1>1, <1>2, Pipe, ReadTurn
<1> HIDE DEF f
<1>4. /\ Asked \in Nat /\ asked \in Seq(Requests) /\ taken \in Seq(Byte) /\ answered \in Nat
      /\ Given \in Nat /\ Given <= Asked /\ Cur \in Nat /\ Cur <= Given /\ Rest \in Nat
      /\ Flow(p, Response) \in Seq(Byte) /\ Ordered(asked, Flow(p, Response), Rest, Cur, Given, Lacks)
  BY Counts
<1>5. Flow(p', Response) \in Seq(Byte) /\ Len(Flow(p', Response)) \in Nat
  BY <1>3, KindsAfter DEF Orderly
<1>6. Stays(p, p', Request) /\ p'.tx[Request].eof = p.tx[Request].eof
  BY <1>3, Pipe DEF Others, Beside
<1>7. Asked' = Asked /\ Given' = Given /\ Lacks' = Lacks /\ (Chunking <=> Chunking')
  BY <1>1, <1>6, RequestSame
<1>8. Flow(p, Response)' = Flow(p', Response)
  BY DEF Flow
<1>9. IF p.need[Response] = 0 THEN taken = << answered + 1 >>
                              ELSE taken = << >> /\ p.need[Response] = 1
  BY <1>2 DEF HttpInv, AnswerInv
<1>10. ChunkInv /\ AnswerInv
  BY DEF HttpInv
<1>11. p.need[Response] \in Nat
  BY <1>2, Kinds, Pipe
<1> DEFINE Outcome == /\ taken' \in Seq(Byte) /\ Cur' \in Nat /\ Rest' \in Nat /\ FlowInv' /\ ChunkInv'
                      /\ IF p'.need[Response] = 0 THEN taken' = << answered + 1 >>
                                                  ELSE taken' = << >> /\ p'.need[Response] = 1
                      /\ ~ p'.inside[Response] => p'.need[Response] = 0
<1>12. ASSUME p'.need[Response] = p.need[Response] PROVE Outcome
  <2>1. f = << >>
    <3>1. \A a \in Nat : a - a = 0
      OBVIOUS
    <3>2. Len(f) = 0
      BY <1>3, <1>11, <1>12, <3>1
    <3> QED
      BY <1>3, <3>2
  <2>2. taken' = taken /\ Flow(p', Response) = Flow(p, Response)
    BY <1>1, <1>3, <1>4, <1>5, <2>1, Joined
  <2>3. /\ Cur' = Cur /\ (Met <=> Met') /\ (Open <=> Open')
        /\ Rest' = IF Open THEN Len(Flow(p', Response)) ELSE Rest
    BY <1>1, <1>12, <2>2, ResponseSame
  <2>4. Rest' = Rest
    <3>1. Open => Rest = Len(Flow(p, Response))
      BY DEF Rest
    <3> QED
      BY <2>2, <2>3, <3>1
  <2>5. FlowInv'
    <3>1. Ordered(asked', Flow(p, Response)', Rest', Cur', Given', Lacks')
      BY <1>1, <1>4, <1>7, <1>8, <2>2, <2>3, <2>4
    <3> QED
      BY <1>4, <1>7, <2>3, <3>1 DEF FlowInv
  <2>6. ChunkInv'
    <3>1. p'.inside[Request] = p.inside[Request]
      BY <1>6 DEF Stays
    <3> QED
      BY <1>1, <1>6, <1>7, <1>10, <2>3, <3>1 DEF ChunkInv
  <2>7. ~ p'.inside[Response] => p'.need[Response] = 0
    <3>1. SUFFICES ASSUME Flow(p', Response) = << >>, p.tx[Request].eof, p.need[Response] # 0
                   PROVE  FALSE
      BY <1>3, <1>12
    <3>2. Len(Flow(p, Response)) <= Rest
      <4>1. Len(Flow(p, Response)) = 0
        BY <2>2, <3>1
      <4> QED
        BY <1>4, <4>1
    <3>3. Open
      BY <3>1, <3>2, EofOpen
    <3> QED
      BY <1>2, <1>9, <3>1, <3>3 DEF Open, Met
  <2>8. IF p'.need[Response] = 0 THEN taken' = << answered + 1 >>
                                 ELSE taken' = << >> /\ p'.need[Response] = 1
    BY <1>9, <1>12, <2>2
  <2> QED
    BY <1>4, <2>2, <2>3, <2>4, <2>5, <2>6, <2>7, <2>8
<1>13. ASSUME p'.need[Response] # p.need[Response] PROVE Outcome
  <2>1. p.need[Response] = 1 /\ p'.need[Response] = 0 /\ taken = << >> /\ Len(f) = 1
    <3>1. Len(f) \in Nat
      BY <1>3
    <3>2. \A a, b, c : a \in Nat /\ b \in Nat /\ c \in Nat /\ c = a - b /\ b # a /\ (a = 0 \/ a = 1)
                         => a = 1 /\ b = 0 /\ c = 1
      OBVIOUS
    <3>3. p.need[Response] = 1 /\ p'.need[Response] = 0 /\ Len(f) = 1
      BY <1>3, <1>9, <1>11, <1>13, <3>1, <3>2
    <3> QED
      BY <1>9, <3>3
  <2>2. Cur = answered /\ ~ Open /\ Rest = 0
    <3>1. Cur = answered
      BY <1>2, <1>4, <2>1 DEF Cur
    <3>2. ~ Met
      BY <1>2, <2>1 DEF Met
    <3>3. ~ Open
      BY <1>2, <3>2 DEF Open
    <3> QED
      BY <1>2, <3>1, <3>2, <3>3 DEF Rest
  <2> DEFINE r == Flow(p', Response)
             W == Lacks
  <2>3. r \in Seq(Byte) /\ Len(r) \in Nat /\ Ordered(asked, f \o r, 0, Cur, Given, W) /\ Given <= Len(asked)
    BY <1>3, <1>4, <1>5, <2>2 DEF Asked
  <2> HIDE DEF r, W
  <2>4. Cur < Given /\ f = << Cur + 1 >> /\ Ordered(asked, r, Units(asked, Cur + 1, Len(r)), Cur + 1, Given, W)
    BY <1>3, <1>4, <2>1, <2>3, OrderedTake
  <2>5. Cur + 1 \in 1 .. Len(asked) /\ Cur + 1 \in Byte
    BY <1>4, <2>3, <2>4 DEF Byte
  <2>6. taken' = << answered + 1 >> /\ taken' \in Seq(Byte) /\ Len(taken') = 1
    <3>1. taken' = f
      BY <1>1, <1>3, <2>1, Joined
    <3> QED
      BY <1>3, <2>1, <2>2, <2>4, <3>1
  <2>7. Cur' = Cur + 1
    BY <1>1, <1>2, <2>2, <2>6 DEF Cur
  <2>8. Met' /\ (Open' <=> asked[Cur + 1].chunked)
    <3>1. Met'
      BY <1>1, <1>2, <2>6 DEF Met
    <3> QED
      BY <1>1, <1>2, <2>7, <3>1 DEF Open
  <2>9. Rest' = Units(asked, Cur + 1, Len(r)) /\ Rest' \in Nat
    <3>1. Rest' = IF Open' THEN Len(Flow(p', Response)) ELSE asked'[Cur'].len
      BY <1>8, <2>8 DEF Rest
    <3>2. Rest' = Units(asked, Cur + 1, Len(r))
      BY <1>1, <2>7, <2>8, <3>1 DEF Units, r
    <3> QED
      BY <1>4, <2>3, <2>5, <3>2, Sizes
  <2>10. FlowInv'
    <3>1. Ordered(asked', Flow(p, Response)', Rest', Cur', Given', Lacks')
      BY <1>1, <1>7, <1>8, <2>4, <2>7, <2>9 DEF r, W
    <3>2. Cur' <= Given'
      BY <1>4, <1>7, <2>4, <2>7
    <3> QED
      BY <3>1, <3>2 DEF FlowInv
  <2>11. ChunkInv'
    <3>1. p'.inside[Request] = p.inside[Request]
      BY <1>6 DEF Stays
    <3>2. Chunking' => asked'[Asked'].chunked /\ (Cur' = Asked' => Open')
      BY <1>1, <1>7, <1>10, <2>7, <2>8 DEF ChunkInv
    <3>3. p'.tx[Request].eof => pc'[Request] = "trailer" /\ p'.inside[Request]
      BY <1>1, <1>6, <1>10, <3>1 DEF ChunkInv
    <3>4. Given' > 0 /\ asked'[Given'].chunked /\ ~ Chunking' /\ ~ error'[Request] => Cur' = Given' /\ ~ Open'
      <4>1. ~ (Given > 0 /\ asked[Given].chunked /\ ~ Chunking /\ ~ error[Request])
        BY <1>4, <1>10, <2>4 DEF ChunkInv
      <4> QED
        BY <1>1, <1>7, <4>1
    <3>5. \A i \in Cur' + 1 .. Given' - 1 : ~ asked'[i].chunked
      <4>1. \A i \in Cur + 1 .. Given - 1 : ~ asked[i].chunked
        BY <1>10 DEF ChunkInv
      <4> QED
        BY <1>1, <1>4, <1>7, <2>7, <4>1
    <3>6. Open' => Cur' > 0 /\ asked'[Cur'].chunked
      BY <1>1, <1>4, <2>7, <2>8
    <3> QED
      BY <3>2, <3>3, <3>4, <3>5, <3>6 DEF ChunkInv
  <2>12. Cur' \in Nat
    BY <1>4, <2>7
  <2> QED
    BY <2>1, <2>6, <2>9, <2>10, <2>11, <2>12
<1>14. Outcome
  BY <1>12, <1>13
<1> HIDE DEF Outcome
<1>15. AnswerInv'
  <2>1. ~ error'[Response] /\ ~ p'.tx[Response].eof
    BY <1>1, <1>3, <1>10 DEF AnswerInv, StaysIn
  <2>2. pc'[Response] = "got" /\ p'.op[Response] = "READ" /\ answered' = answered
    BY <1>1, <1>2, <1>3 DEF StaysIn
  <2>3. /\ IF p'.need[Response] = 0 THEN taken' = << answered + 1 >>
                                    ELSE taken' = << >> /\ p'.need[Response] = 1
        /\ ~ p'.inside[Response] => p'.need[Response] = 0
    BY <1>14 DEF Outcome
  <2> QED
    BY <2>1, <2>2, <2>3 DEF AnswerInv, Answers
<1>16. /\ taken' \in Seq(Byte) /\ FlowInv' /\ ChunkInv' /\ Cur' \in Nat /\ Rest' \in Nat
       /\ UNCHANGED << pc, error, asked, hvars >>
  BY <1>1, <1>14 DEF Outcome
<1> QED
  BY <1>1, <1>2, <1>3, <1>15, <1>16, ResponseTakes

----------------------------------------------------------------------------
(* The start, and the ways out *)

\* vk_finally, which only the request is raised to.
LEMMA CatchKept ==
  ASSUME HttpInv, NEW t \in Threads, Catch(t), UNCHANGED hvars
  PROVE  HttpInv'
<1>1. /\ phase = "execute" /\ phase' = "execute" /\ p.running = t /\ p.status[t] = "ERR" /\ Finally(t)
      /\ UNCHANGED svars
  BY DEF Catch, Finally
<1>2. /\ t = Request /\ ~ p.inside[Request] /\ pc[Request] = "finally" /\ QueueInv
      /\ Place(p, "finally", Request)
  BY <1>1 DEF HttpInv, ControlInv, PlaceInv, Place
<1>3. /\ Orderly /\ Others(p, p', Request) /\ p'.status[Request] = "RUN" /\ ~ p'.inside[Request]
      /\ p'.op = p.op /\ p'.need = p.need /\ p'.rx = p.rx /\ p'.tx = p.tx /\ p'.closed = p.closed
  BY <1>1, <1>2, FinallyTurn
<1>4. Steps(Request) /\ Beside(p, p', Request)
  BY <1>1, <1>2, <1>3, BesideSteps DEF Others
<1>5. UNCHANGED << pc, error, asked, taken >> /\ UNCHANGED << request, size, answered >>
  BY <1>1 DEF svars, hvars
<1>6. ControlInv'
  <2>1. Place(p', pc'[Request], Request)
    BY <1>2, <1>3, <1>5 DEF Place
  <2> QED
    BY <1>2, <1>4, <1>5, <2>1, Pipe, StepControl DEF HttpInv
<1>7. Stays(p, p', Request) /\ Flow(p', Response) = Flow(p, Response)
  <2>1. p'.inside[Request] = p.inside[Request]
    <3>1. p.inside[Request] \in BOOLEAN /\ p'.inside[Request] \in BOOLEAN
      BY <1>2, <1>3, Kinds, KindsAfter, Pipe DEF Orderly
    <3> QED
      BY <1>2, <1>3, <3>1
  <2>2. Flow(p', Response) = Flow(p, Response)
    BY <1>3 DEF Flow
  <2> QED
    BY <1>3, <2>1, <2>2 DEF Stays
<1>8. AskInv' /\ FlushInv'
  BY <1>3, <1>5, <1>7, RequestKept
<1>9. /\ Given' = Given /\ Owed' = Owed /\ (Chunking <=> Chunking') /\ p'.tx[Request].eof = p.tx[Request].eof
  BY <1>3, <1>5, <1>7, RequestSame
<1>10. Aside(Response) /\ Undisturbed(p, p', Response)
  BY <1>3, <1>4, <1>9, StepAside, Pipe DEF Others
<1>11. ~ p.tx[Request].eof
  BY <1>2 DEF HttpInv, ChunkInv
<1>12. DOMAIN pc' = Threads /\ error' \in [Threads -> BOOLEAN] /\ request' \in Described
  BY <1>5 DEF HttpInv, TypeInv
<1> QED
  BY <1>2, <1>5, <1>6, <1>7, <1>8, <1>9, <1>10, <1>11, <1>12, RequestMoves

\* vk_end.
LEMMA EndsKept ==
  ASSUME HttpInv, NEW t \in Threads, Ends(t), UNCHANGED hvars
  PROVE  HttpInv'
<1>1. At(t, Last(t)) /\ End(t) /\ phase' = phase
  BY DEF Ends, End, Last
<1>2. /\ phase = "execute" /\ p.running = t /\ p.status[t] = "RUN" /\ ~ p.inside[t]
      /\ pc[t] = Last(t) /\ Place(p, Last(t), t) /\ QueueInv /\ (t = Response => pc[Request] # "start")
  BY <1>1, BetweenPlace DEF HttpInv
<1>3. Orderly /\ Others(p, p', t) /\ SamePlace(p, p') /\ p'.status[t] = "END"
  BY <1>1, <1>2, EndTurn
<1>4. Steps(t) /\ pc[Request] # "start"
  <2>1. Steps(t)
    BY <1>1, <1>2, <1>3, BesideSteps DEF Others
  <2>2. pc[Request] # "start"
    BY <1>2, Pipe DEF Last
  <2> QED
    BY <2>1, <2>2
<1>5. UNCHANGED << pc, error, asked, taken >> /\ UNCHANGED << request, size, answered >>
  BY DEF Ends, svars, hvars
<1>6. ControlInv'
  <2>1. Place(p', pc'[t], t)
    BY <1>2, <1>3, <1>5 DEF Place, SamePlace
  <2> QED
    BY <1>4, <1>5, <2>1, StepControl DEF HttpInv
<1>7. /\ p'.op = p.op /\ p'.need = p.need /\ p'.inside = p.inside /\ p'.rx = p.rx /\ p'.tx = p.tx
      /\ p'.closed = p.closed /\ Flow(p', Response) = Flow(p, Response)
  BY <1>3 DEF SamePlace, Flow
<1>8. DOMAIN pc' = Threads /\ error' \in [Threads -> BOOLEAN] /\ request' \in Described
  BY <1>5 DEF HttpInv, TypeInv
<1>9. /\ Given' = Given /\ Owed' = Owed /\ (Chunking <=> Chunking')
      /\ Asked' = Asked /\ (Handing <=> Handing')
  <2>1. Asked' = Asked /\ (Handing <=> Handing')
    BY <1>5, <1>7 DEF Asked, Handing
  <2>2. Given' = Given
    BY <1>7, <2>1 DEF Given
  <2>3. Owed' = Owed /\ (Chunking <=> Chunking')
    BY <1>5, <1>7, <2>1, <2>2 DEF Owed, Chunking
  <2> QED
    BY <2>1, <2>2, <2>3
<1>10. CASE t = Request
  <2>1. Aside(Response) /\ Undisturbed(p, p', Response)
    BY <1>3, <1>4, <1>7, <1>10, StepAside, Pipe DEF Others
  <2>2. AskInv'
    <3>1. AskInv
      BY DEF HttpInv
    <3> QED
      BY <1>5, <1>7, <1>9, <3>1 DEF AskInv
  <2>3. FlushInv'
    <3>1. Pollhup(p, Request)' <=> Pollhup(p, Request)
      BY <1>7 DEF Pollhup
    <3>2. FlushInv
      BY DEF HttpInv
    <3> QED
      BY <1>5, <1>7, <3>1, <3>2 DEF FlushInv
  <2>4. ~ p.tx[Request].eof
    BY <1>2, <1>10 DEF HttpInv, ChunkInv
  <2>5. pc'[Request] = "called" => pc[Request] = "called"
    BY <1>5
  <2> QED
    BY <1>5, <1>6, <1>7, <1>8, <1>9, <2>1, <2>2, <2>3, <2>4, <2>5, RequestMoves
<1>11. CASE t = Response
  <2>1. Stays(p, p', Request)
    BY <1>3, <1>11, Pipe DEF Others, Undisturbed
  <2>2. p.inside[Request] \/ pc[Request] = "called"
    BY <1>2, <1>4, <1>11, Pipe, RequestInside DEF HttpInv
  <2>3. Cur' = Cur /\ (Met <=> Met') /\ (Open <=> Open') /\ Rest' = Rest
    <3>1. Cur' = Cur /\ (Met <=> Met')
      BY <1>5 DEF Cur, Met
    <3>2. Open <=> Open'
      BY <1>5, <3>1 DEF Open
    <3> QED
      BY <1>5, <1>7, <3>1, <3>2 DEF Rest, Flow
  <2>4. AnswerInv' /\ EndInv'
    <3>1. AnswerInv /\ EndInv /\ Flow(p, Response)' = Flow(p', Response)
      BY DEF HttpInv, Flow
    <3>2. AnswerInv'
      BY <1>5, <1>7, <3>1 DEF AnswerInv
    <3> QED
      BY <1>5, <1>7, <3>1, <3>2 DEF EndInv
  <2>5. NapInv'
    BY <1>3, <1>11 DEF NapInv, Naps
  <2>6. taken' \in Seq(Byte) /\ size' \in 0 .. BufLen /\ answered' \in Nat
    BY <1>5 DEF HttpInv, TypeInv
  <2> QED
    BY <1>5, <1>6, <1>7, <1>8, <2>1, <2>2, <2>3, <2>4, <2>5, <2>6, ResponseMoves
<1> QED
  BY <1>10, <1>11, Pipe

\* The request is between two operations, has written what it owes, and
\* goes on to owe nothing else.
LEMMA RequestOn ==
  ASSUME HttpInv, ControlInv', ~ p.inside[Request], Aside(Response), Undisturbed(p, p', Response),
         Flow(p', Response) = Flow(p, Response), p'.tx[Request] = p.tx[Request],
         DOMAIN pc' = Threads, pc'[Response] = pc[Response],
         error' \in [Threads -> BOOLEAN], error'[Response] = error[Response], error[Request] => error'[Request],
         request' \in Described, UNCHANGED << asked, taken, size, answered >>, AskInv', FlushInv',
         p'.inside[Request] => p'.op[Request] # "WRITE",
         error'[Request] \/ (Given = Asked /\ Given' = Asked => Owed' = Owed /\ (Chunking <=> Chunking')),
         pc'[Request] = "called" => pc[Request] = "called" \/ p'.status[Response] # "WAIT"
  PROVE  HttpInv'
<1>1. Given = Asked /\ Given' = Asked
  BY DEF Given, Handing, Asked
<1>2. ~ p.tx[Request].eof
  BY DEF HttpInv, ChunkInv
<1> QED
  BY <1>1, <1>2, RequestMoves

\* vk_call: the request is left ready until the response is through.
LEMMA RequestCallKept ==
  ASSUME HttpInv, RequestCall, UNCHANGED hvars
  PROVE  HttpInv'
<1>1. /\ At(Request, "finally") /\ Call(Request, Response) /\ Goto(Request, "called")
      /\ UNCHANGED << error, asked, taken >> /\ phase' = phase /\ UNCHANGED << request, size, answered >>
  BY DEF RequestCall, Call, hvars
<1>2. /\ phase = "execute" /\ p.running = Request /\ p.status[Request] = "RUN" /\ ~ p.inside[Request]
      /\ pc[Request] = "finally" /\ Place(p, "finally", Request) /\ QueueInv
  BY <1>1, BetweenPlace, Pipe DEF HttpInv
<1>3. /\ Orderly /\ SamePlace(p, p') /\ p'.running = NoThread /\ p'.status[Request] = "RUN"
      /\ p'.status[Response] = p.status[Response] \/ (p'.status[Response] = "RUN" /\ p'.run_enq[Response])
      /\ p.blocked_enq[Response] => p'.blocked_enq[Response]
      /\ p'.status[Response] \in {"RUN", "ERR"} => p'.run_enq[Response]
      /\ p'.status[Response] # "WAIT"
  BY <1>1, <1>2, Pipe, CallTurn
<1>4. /\ DOMAIN pc' = Threads /\ pc'[Request] = "called" /\ pc'[Response] = pc[Response]
  BY <1>1, Pipe DEF Goto, HttpInv, TypeInv
<1>5. PlaceInv'
  <2>1. Place(p', "called", Request)
    BY <1>2, <1>3, Pipe DEF Place, SamePlace
  <2>2. Place(p', pc'[Response], Response)
    BY <1>3, <1>4, SamePlaceStays, PlaceKept, Pipe DEF HttpInv, ControlInv, PlaceInv
  <2> QED
    BY <1>4, <2>1, <2>2, Pipe DEF PlaceInv
<1>6. StartInv' /\ RunInv' /\ PhaseInv'
  BY <1>1, <1>2, <1>3, <1>4, Pipe DEF StartInv, RunInv, PhaseInv, Idle
<1>7. ControlInv'
  BY <1>3, <1>5, <1>6 DEF Orderly, HttpInv, ControlInv
<1>8. /\ p'.op = p.op /\ p'.need = p.need /\ p'.inside = p.inside /\ p'.rx = p.rx /\ p'.tx = p.tx
      /\ p'.closed = p.closed /\ Flow(p', Response) = Flow(p, Response)
  BY <1>3 DEF SamePlace, Flow
<1>9. Aside(Response) /\ Undisturbed(p, p', Response)
  <2>1. Stays(p, p', Response)
    BY <1>3, SamePlaceStays
  <2> QED
    BY <1>3, <1>8, <2>1 DEF Aside, Undisturbed
<1>10. AskInv'
  BY <1>1, <1>2, <1>4, <1>8 DEF HttpInv, AskInv, Asked, Asking, Handing
<1>11. FlushInv'
  BY <1>1, <1>2, <1>4, <1>8 DEF HttpInv, FlushInv, Asking
<1>12. Owed' = 0 /\ Owed = 0 /\ ~ Chunking /\ ~ Chunking'
  BY <1>2, <1>4 DEF Owed, Chunking
<1>13. error' \in [Threads -> BOOLEAN] /\ request' \in Described
  BY <1>1 DEF HttpInv, TypeInv
<1> QED
  BY <1>1, <1>2, <1>3, <1>4, <1>7, <1>8, <1>9, <1>10, <1>11, <1>12, <1>13, RequestOn

\* vk_responder: the response is played.
LEMMA RespondKept ==
  ASSUME HttpInv, Respond("line"), UNCHANGED hvars
  PROVE  HttpInv'
<1>1. /\ At(Request, "start") /\ Goto(Request, "line") /\ p' = EnqueueRun(p, Response)
      /\ UNCHANGED << phase, retry, ended, msg >> /\ UNCHANGED << error, asked, taken >>
      /\ UNCHANGED << request, size, answered >>
  BY DEF Respond, hvars
<1>2. /\ phase = "execute" /\ p.running = Request /\ p.status[Request] = "RUN" /\ ~ p.inside[Request]
      /\ pc[Request] = "start" /\ QueueInv /\ Place(p, "start", Request)
  BY <1>1, Pipe, BetweenPlace DEF HttpInv
<1>3. /\ Orderly /\ SamePlace(p, p') /\ Woken(p, p') /\ p'.running = p.running
      /\ p'.status[Response] \in {"RUN", "ERR"} => p'.run_enq[Response]
  BY <1>1, <1>2, Pipe, PlayTurn
<1>4. /\ DOMAIN pc' = Threads /\ pc'[Request] = "line" /\ pc'[Response] = pc[Response]
  BY <1>1, Pipe DEF Goto, HttpInv, TypeInv
<1>5. /\ p'.status[Request] = "RUN" /\ (p'.status[Response] = p.status[Response] \/ p'.status[Response] = "RUN")
      /\ p.blocked_enq[Response] => p'.blocked_enq[Response]
  BY <1>2, <1>3, Pipe DEF Woken
<1>6. PlaceInv'
  <2>1. Place(p', "line", Request)
    BY <1>2, <1>3, <1>5 DEF Place, SamePlace
  <2>2. Place(p', pc'[Response], Response)
    BY <1>3, <1>4, <1>5, SamePlaceStays, PlaceKept, Pipe DEF HttpInv, ControlInv, PlaceInv
  <2> QED
    BY <1>4, <2>1, <2>2, Pipe DEF PlaceInv
<1>7. StartInv' /\ RunInv' /\ PhaseInv'
  BY <1>1, <1>2, <1>3, <1>4, <1>5, Pipe DEF StartInv, RunInv, PhaseInv, Idle
<1>8. ControlInv'
  BY <1>3, <1>6, <1>7 DEF Orderly, HttpInv, ControlInv
<1>9. /\ p'.op = p.op /\ p'.need = p.need /\ p'.inside = p.inside /\ p'.rx = p.rx /\ p'.tx = p.tx
      /\ p'.closed = p.closed /\ Flow(p', Response) = Flow(p, Response)
  BY <1>3 DEF SamePlace, Flow
<1>10. Aside(Response) /\ Undisturbed(p, p', Response)
  <2>1. Stays(p, p', Response)
    BY <1>3, <1>5, SamePlaceStays
  <2> QED
    BY <1>5, <1>9, <2>1 DEF Aside, Undisturbed
<1>11. AskInv'
  BY <1>1, <1>2, <1>4, <1>9 DEF HttpInv, AskInv, Asked, Asking, Handing
<1>12. FlushInv'
  BY <1>1, <1>2, <1>4, <1>9 DEF HttpInv, FlushInv, Asking
<1>13. Owed' = 0 /\ Owed = 0 /\ ~ Chunking /\ ~ Chunking'
  BY <1>2, <1>4 DEF Owed, Chunking
<1>14. error' \in [Threads -> BOOLEAN] /\ request' \in Described
  BY <1>1 DEF HttpInv, TypeInv
<1> QED
  BY <1>1, <1>2, <1>4, <1>8, <1>9, <1>10, <1>11, <1>12, <1>13, <1>14, RequestOn

LEMMA CommonKept ==
  ASSUME HttpInv, Common, UNCHANGED hvars
  PROVE  HttpInv'
<1>1. ASSUME NEW t \in Threads, Turn(t) PROVE HttpInv'
  <2>1. UNCHANGED << svars, hvars >>
    BY <1>1 DEF Turn
  <2> QED
    BY <1>1, <2>1, FlushKept, TxCloseKept, HupReturnsKept, WriteKept, RequestReadKept DEF Turn
<1> QED
  BY <1>1, RequestCallKept, TurnReadKept, CatchKept, EndsKept DEF Common

LEMMA ForwardsKept ==
  ASSUME HttpInv, Forwards, UNCHANGED hvars
  PROVE  HttpInv'
BY RequestForwarded, ResponseForwarded, PollreadKept DEF Forwards

----------------------------------------------------------------------------
(* Between two operations *)

\* t, and only t, goes on at m.
GoesTo(t, m) ==
  /\ ControlInv' /\ DOMAIN pc' = Threads /\ pc'[t] = m
  /\ \A x \in Threads \ {t} : Aside(x) /\ Undisturbed(p, p', x) /\ pc'[x] = pc[x]
  /\ p'.tx = p.tx /\ p'.rx = p.rx /\ p'.closed = p.closed /\ Flow(p', Response) = Flow(p, Response)

LEMMA GotoGoes ==
  ASSUME HttpInv, NEW t \in Threads, NEW m, Goto(t, m)
  PROVE  DOMAIN pc' = Threads /\ pc'[t] = m /\ \A x \in Threads \ {t} : pc'[x] = pc[x]
BY DEF Goto, HttpInv, TypeInv

LEMMA OperationStep ==
  ASSUME HttpInv, NEW t \in Threads, NEW l, At(t, l), t = Request => l # "start",
         NEW o \in Ops \ {"HUP"}, NEW n \in 0 .. MaxLen, NEW m \in After(t, o), Do(t, o, n, m),
         o = "TX_CLOSE" => n # 0
  PROVE  /\ GoesTo(t, m) /\ error' = error /\ p'.op[t] = o /\ p'.need[t] = n /\ p'.inside[t]
         /\ p'.status[t] = "RUN"
<1>1. /\ phase = "execute" /\ p.running = t /\ p.status[t] = "RUN" /\ ~ p.inside[t]
      /\ pc[t] = l /\ Place(p, l, t) /\ QueueInv /\ (t = Response => pc[Request] # "start")
  BY BetweenPlace DEF HttpInv
<1>2. Begin(t, o, n) /\ error' = error /\ phase' = phase
  BY DEF Do, Begin
<1>3. ~ p.tx[t].eof
  <2>1. ~ p.tx[Response].eof /\ (t = Request => ~ p.tx[Request].eof)
    BY <1>1 DEF HttpInv, AnswerInv, ChunkInv
  <2> QED
    BY <2>1, Pipe
<1>4. /\ Orderly /\ Others(p, p', t)
      /\ p'.op[t] = o /\ p'.need[t] = n /\ p'.inside[t] /\ p'.status[t] = "RUN"
      /\ p'.rx = p.rx /\ p'.tx = p.tx /\ p'.closed = p.closed
  BY <1>1, <1>2, <1>3, BeginTurn
<1>5. Steps(t) /\ \A x \in Threads \ {t} : p'.tx[x].eof = p.tx[x].eof
  BY <1>1, <1>2, <1>4, BesideSteps DEF Others
<1>6. DOMAIN pc' = Threads /\ pc'[t] = m /\ \A x \in Threads \ {t} : pc'[x] = pc[x]
  BY GotoGoes DEF Do
<1>7. Place(p', m, t)
  <2>1. o = "TX_CLOSE" => t = Response
    <3>1. t = Request => o # "TX_CLOSE"
      BY DEF After
    <3> QED
      BY <3>1, Pipe
  <2> QED
    BY <1>4, <2>1 DEF Place
<1>8. pc[Request] # "start" /\ pc'[Request] # "start"
  <2>1. t = Request => m # "start"
    BY DEF After
  <2> QED
    BY <1>1, <1>6, <2>1, Pipe
<1>9. ControlInv'
  BY <1>5, <1>6, <1>7, <1>8, StepControl DEF HttpInv
<1>10. Flow(p', Response) = Flow(p, Response)
  BY <1>4 DEF Flow
<1>11. \A x \in Threads \ {t} : Aside(x) /\ Undisturbed(p, p', x)
  BY <1>4, <1>5, StepAside DEF Others
<1> QED
  BY <1>2, <1>4, <1>6, <1>9, <1>10, <1>11 DEF GoesTo

\* Nothing happens.
LEMMA StandStill ==
  ASSUME QueueInv, NEW t \in Threads, p' = p, UNCHANGED << phase, retry, ended, msg >>
  PROVE  Orderly /\ Others(p, p', t)
<1>1. QueueInv'
  BY DEF QueueInv
<1>2. Others(p, p', t)
  BY DEF Others, Beside, Undisturbed, Stays
<1> QED
  BY <1>1, <1>2 DEF Orderly

LEMMA SkipStep ==
  ASSUME HttpInv, NEW t \in Threads, NEW l, At(t, l), t = Request => l # "start",
         NEW m, m # "start", Skip(t, m)
  PROVE  /\ GoesTo(t, m) /\ error' = error /\ p' = p
<1>1. /\ phase = "execute" /\ p.running = t /\ p.status[t] = "RUN" /\ ~ p.inside[t]
      /\ pc[t] = l /\ Place(p, l, t) /\ QueueInv /\ (t = Response => pc[Request] # "start")
  BY BetweenPlace DEF HttpInv
<1>2. UNCHANGED vars /\ error' = error /\ p' = p /\ UNCHANGED << phase, retry, ended, msg >>
  BY DEF Skip, vars
<1>3. Orderly /\ Others(p, p', t)
  BY <1>1, <1>2, StandStill
<1>4. Steps(t) /\ \A x \in Threads \ {t} : p'.tx[x].eof = p.tx[x].eof
  BY <1>1, <1>2, <1>3, BesideSteps DEF Others
<1>5. DOMAIN pc' = Threads /\ pc'[t] = m /\ \A x \in Threads \ {t} : pc'[x] = pc[x]
  BY GotoGoes DEF Skip
<1>6. Place(p', m, t)
  BY <1>1, <1>2 DEF Place
<1>7. pc[Request] # "start" /\ pc'[Request] # "start"
  BY <1>1, <1>5, Pipe
<1>8. ControlInv'
  BY <1>4, <1>5, <1>6, <1>7, StepControl DEF HttpInv
<1>9. \A x \in Threads \ {t} : Aside(x) /\ Undisturbed(p, p', x)
  BY <1>3, <1>4, StepAside DEF Others
<1> QED
  BY <1>2, <1>5, <1>8, <1>9 DEF GoesTo

\* The request raises.
LEMMA ThrowStep ==
  ASSUME HttpInv, NEW l, At(Request, l), l # "start", Throw(Request, "finally")
  PROVE  /\ GoesTo(Request, "finally") /\ ~ p'.inside[Request]
         /\ error' \in [Threads -> BOOLEAN] /\ error'[Request] /\ error'[Response] = error[Response]
<1>1. /\ phase = "execute" /\ p.running = Request /\ p.status[Request] = "RUN" /\ ~ p.inside[Request]
      /\ pc[Request] = l /\ Place(p, l, Request) /\ QueueInv
  BY BetweenPlace, Pipe DEF HttpInv
<1>2. Orderly /\ Others(p, p', Request) /\ SamePlace(p, p') /\ p'.status[Request] = "ERR"
  BY <1>1, RaiseTurn, Pipe DEF Throw
<1>3. Steps(Request) /\ \A x \in Threads \ {Request} : p'.tx[x].eof = p.tx[x].eof
  BY <1>1, <1>2, BesideSteps, Pipe DEF Others, Throw
<1>4. DOMAIN pc' = Threads /\ pc'[Request] = "finally" /\ \A x \in Threads \ {Request} : pc'[x] = pc[x]
  BY GotoGoes, Pipe DEF Throw
<1>5. Place(p', "finally", Request)
  BY <1>1, <1>2 DEF Place, SamePlace
<1>6. ControlInv'
  BY <1>1, <1>3, <1>4, <1>5, Pipe, StepControl DEF HttpInv
<1>7. \A x \in Threads \ {Request} : Aside(x) /\ Undisturbed(p, p', x)
  BY <1>2, <1>3, StepAside, Pipe DEF Others
<1>8. error' \in [Threads -> BOOLEAN] /\ error'[Request] /\ error'[Response] = error[Response]
  BY Pipe DEF Throw, HttpInv, TypeInv
<1>9. ~ p'.inside[Request] /\ p'.tx = p.tx /\ p'.rx = p.rx /\ p'.closed = p.closed
  BY <1>1, <1>2 DEF SamePlace
<1>10. Flow(p', Response) = Flow(p, Response)
  BY <1>9 DEF Flow
<1> QED
  BY <1>4, <1>6, <1>7, <1>8, <1>9, <1>10 DEF GoesTo

----------------------------------------------------------------------------
(* http11_request *)

\* The request goes on, and asks nothing new.
LEMMA RequestGoes ==
  ASSUME HttpInv, NEW l, At(Request, l), NEW m, GoesTo(Request, m), m # "called",
         error' \in [Threads -> BOOLEAN], error'[Response] = error[Response], error[Request] => error'[Request],
         request' \in Described, UNCHANGED << asked, taken, size, answered >>, AskInv', FlushInv',
         p'.inside[Request] => p'.op[Request] # "WRITE",
         error'[Request] \/ (Given = Asked /\ Given' = Asked => Owed' = Owed /\ (Chunking <=> Chunking'))
  PROVE  HttpInv'
<1>1. /\ Aside(Response) /\ Undisturbed(p, p', Response) /\ ControlInv' /\ DOMAIN pc' = Threads
      /\ pc'[Response] = pc[Response] /\ pc'[Request] = m /\ p'.tx[Request] = p.tx[Request]
      /\ Flow(p', Response) = Flow(p, Response)
  BY Pipe DEF GoesTo
<1>2. ~ p.inside[Request]
  BY BetweenPlace, Pipe DEF HttpInv
<1> QED
  BY <1>1, <1>2, RequestOn

\* The request raises.
LEMMA RequestThrows ==
  ASSUME HttpInv, NEW l, At(Request, l), l # "start", Throw(Request, "finally"),
         UNCHANGED << asked, taken, hvars >>
  PROVE  HttpInv'
<1>1. /\ GoesTo(Request, "finally") /\ ~ p'.inside[Request]
      /\ error' \in [Threads -> BOOLEAN] /\ error'[Request] /\ error'[Response] = error[Response]
  BY ThrowStep
<1>2. UNCHANGED << asked, taken, size, answered >> /\ request' = request /\ Asked' = Asked
  BY DEF hvars, Asked
<1>3. pc'[Request] = "finally" /\ request' \in Described
  BY <1>1, <1>2 DEF GoesTo, HttpInv, TypeInv
<1>4. AskInv' /\ FlushInv'
  <2>1. \A i \in 1 .. Asked' - 1 : ~ asked'[i].close
    BY <1>2 DEF HttpInv, AskInv
  <2> QED
    BY <1>1, <1>3, <2>1 DEF AskInv, FlushInv, Asking, Handing
<1> QED
  BY <1>1, <1>2, <1>3, <1>4, RequestGoes

\* An operation of the request that writes nothing.
LEMMA RequestOperates ==
  ASSUME HttpInv, NEW l, At(Request, l), l # "start",
         NEW o \in {"READ", "FLUSH", "FORWARD"}, NEW n \in 0 .. MaxLen, NEW m \in After(Request, o),
         Do(Request, o, n, m), UNCHANGED << asked, taken, hvars >>,
         l \in Asking <=> m \in Asking, m = "body" => asked[Asked].len > 0,
         o = "FORWARD" => ~ error[Request],
         ~ error[Request] \/ m = "finally",
         m \in {"next", "hup", "finally"} => o # "READ",
         l \in Asking \cup {"trailer", "trailerfield"} \/ m \notin Asking \cup {"trailer", "trailerfield"},
         Given = Asked /\ Given' = Asked => Owed' = Owed /\ (Chunking <=> Chunking')
  PROVE  HttpInv'
<1>1. /\ GoesTo(Request, m) /\ error' = error /\ p'.op[Request] = o /\ p'.need[Request] = n
      /\ p'.inside[Request]
  BY OperationStep, Pipe DEF Ops
<1>2. UNCHANGED << asked, taken, size, answered >> /\ request' = request /\ Asked' = Asked
  BY DEF hvars, Asked
<1>3. /\ pc'[Request] = m /\ pc[Request] = l /\ request' \in Described /\ p'.tx[Request] = p.tx[Request]
      /\ ~ p.inside[Request]
  BY <1>1, <1>2, BetweenPlace, Pipe DEF GoesTo, HttpInv, TypeInv
<1>4. m \notin {"called", "write"} /\ (o = "FORWARD" => m \in {"body", "chunkbody"})
  BY DEF After
<1>5. AskInv'
  <2>1. AskInv
    BY DEF HttpInv
  <2> QED
    BY <1>1, <1>2, <1>3, <1>4, <2>1 DEF AskInv, Asking, Handing
<1>6. FlushInv'
  <2>1. FlushInv
    BY DEF HttpInv
  <2>2. m \in Asking \cup {"trailer", "trailerfield"} => p'.tx[Request].data = << >>
    BY <1>3, <2>1 DEF FlushInv
  <2> QED
    BY <1>1, <1>3, <1>4, <2>2 DEF FlushInv
<1>7. error' \in [Threads -> BOOLEAN] /\ error'[Response] = error[Response]
  BY <1>1 DEF HttpInv, TypeInv
<1> QED
  BY <1>1, <1>2, <1>3, <1>4, <1>5, <1>6, <1>7, RequestGoes

\* The request goes on without any operation.
LEMMA RequestSkips ==
  ASSUME HttpInv, NEW l, At(Request, l), l # "start", NEW m, m \notin {"start", "called"},
         Skip(Request, m), request' \in Described, UNCHANGED << asked, taken, size, answered >>,
         AskInv', FlushInv', Given = Asked /\ Given' = Asked => Owed' = Owed /\ (Chunking <=> Chunking')
  PROVE  HttpInv'
<1>1. GoesTo(Request, m) /\ error' = error /\ p' = p
  BY SkipStep, Pipe
<1>2. ~ p.inside[Request] /\ error' \in [Threads -> BOOLEAN]
  BY <1>1, BetweenPlace, Pipe DEF HttpInv, TypeInv
<1> QED
  BY <1>1, <1>2, RequestGoes

\* Between two operations the request has not raised, and marked no end.
LEMMA RequestAt ==
  ASSUME HttpInv, NEW l, At(Request, l)
  PROVE  /\ pc[Request] = l /\ ~ p.inside[Request] /\ ~ p.tx[Request].eof /\ ~ Handing /\ Given = Asked
         /\ l \notin {"finally", "called"} => ~ error[Request]
         /\ p.need[Request] \in Nat
<1>1. pc[Request] = l /\ ~ p.inside[Request] /\ QueueInv
  BY BetweenPlace, Pipe DEF HttpInv
<1>2. ~ Handing /\ Given = Asked
  BY <1>1 DEF Handing, Given
<1>3. ~ p.tx[Request].eof /\ (l \notin {"finally", "called"} => ~ error[Request])
  BY <1>1 DEF HttpInv, AskInv, ChunkInv
<1> QED
  BY <1>1, <1>2, <1>3, Kinds, Pipe

\* Where it goes on to a place of the same kind.
LEMMA RequestSteps ==
  ASSUME HttpInv, NEW l, At(Request, l), l \notin {"start", "finally", "called", "body", "chunkbody"},
         NEW m, m \notin {"start", "called", "write", "body", "finally", "hup"}, Skip(Request, m),
         request' \in Described, UNCHANGED << asked, taken, size, answered >>,
         (l \in Asking /\ m \in Asking) \/ (m \notin Asking /\ l \notin Asking /\ request' = request),
         m \in {"trailer", "trailerfield", "next"} => p.tx[Request].data = << >> \/ (m = "next" /\ Pollhup(p, Request)),
         m # "preface2", Given = Asked /\ Given' = Asked => Owed' = Owed /\ (Chunking <=> Chunking')
  PROVE  HttpInv'
<1>1. GoesTo(Request, m) /\ error' = error /\ p' = p
  BY SkipStep, Pipe
<1>2. pc[Request] = l /\ ~ p.inside[Request] /\ pc'[Request] = m /\ ~ error[Request] /\ Asked' = Asked
      /\ ~ Handing'
  BY <1>1, RequestAt DEF GoesTo, Asked, Handing
<1>3. AskInv'
  <2>1. AskInv
    BY DEF HttpInv
  <2>2. p.op[Request] # "FORWARD"
    BY <1>2, <2>1 DEF AskInv
  <2> QED
    BY <1>1, <1>2, <2>1, <2>2 DEF AskInv, Asking
<1>4. FlushInv'
  BY <1>1, <1>2 DEF FlushInv, HttpInv, Asking
<1> QED
  BY <1>1, <1>3, <1>4, RequestSkips

\* vk_readrfcline.
LEMMA RequestReadsKept ==
  ASSUME HttpInv, RequestReads
  PROVE  HttpInv'
<1>1. UNCHANGED << asked, taken, hvars >> /\ request' = request
  BY DEF RequestReads, hvars
<1>2. ASSUME NEW l, NEW m, Line(l, m),
             << l, m >> \in {<< "line", "method" >>, << "header", "field" >>, << "chunk", "chunkhead" >>,
                            << "trailer", "trailerfield" >>}
      PROVE  HttpInv'
  <2>1. At(Request, l) /\ Do(Request, "READ", 1, m) /\ l # "start" /\ 1 \in 0 .. MaxLen
    BY <1>2, BufLenAssumption DEF Line
  <2>2. pc[Request] = l /\ ~ p.tx[Request].eof /\ ~ error[Request]
    BY <1>2, <2>1, RequestAt
  <2>3. m \in After(Request, "READ")
    BY <1>2 DEF After
  <2>4. pc'[Request] = m /\ p'.tx = p.tx
    BY <2>1, <2>3, OperationStep, Pipe DEF GoesTo, Ops
  <2>5. Owed' = Owed /\ (Chunking <=> Chunking')
    BY <1>1, <1>2, <2>2, <2>4 DEF Owed, Chunking
  <2> QED
    BY <1>1, <1>2, <2>1, <2>2, <2>3, <2>5, RequestOperates DEF Asking
<1> QED
  BY <1>2 DEF RequestReads

\* The request line.
LEMMA RequestMethodKept ==
  ASSUME HttpInv, RequestMethod
  PROVE  HttpInv'
<1>1. At(Request, "method") /\ UNCHANGED << asked, taken, size, answered >>
  BY DEF RequestMethod
<1>2. CASE Throw(Request, "finally") /\ UNCHANGED request
  BY <1>1, <1>2, RequestThrows DEF hvars
<1>3. ASSUME NEW m \in {"write", "header"}, Skip(Request, m), request' \in Described,
             m = "write" => Framed(request')
      PROVE  HttpInv'
  <2>1. GoesTo(Request, m) /\ error' = error /\ p' = p
    BY <1>1, <1>3, SkipStep, Pipe
  <2>2. pc[Request] = "method" /\ ~ p.inside[Request] /\ pc'[Request] = m /\ ~ error[Request]
        /\ Asked' = Asked /\ ~ Handing'
    BY <1>1, <2>1, RequestAt DEF GoesTo, Asked, Handing
  <2>3. AskInv'
    <3>1. AskInv
      BY DEF HttpInv
    <3> QED
      BY <1>1, <1>3, <2>1, <2>2, <3>1 DEF AskInv, Asking
  <2>4. FlushInv'
    BY <1>3, <2>1, <2>2 DEF FlushInv, HttpInv, Asking
  <2>5. Owed' = Owed /\ (Chunking <=> Chunking')
    BY <1>3, <2>2 DEF Owed, Chunking
  <2> QED
    BY <1>1, <1>3, <2>3, <2>4, <2>5, RequestSkips
<1>4. ASSUME NEW v \in {"09", "10", "11"}, NEW m \in {"GET", "POST"},
             request' = [version |-> v, method |-> m, len |-> 0, chunked |-> FALSE, close |-> v # "11"],
             Skip(Request, IF v = "09" THEN "write" ELSE "header")
      PROVE  HttpInv'
  <2>1. request' \in Described
    BY <1>4, HttpAssumption DEF Described
  <2>2. Framed(request')
    BY <1>4 DEF Framed
  <2> QED
    BY <1>3, <1>4, <2>1, <2>2
<1>5. ASSUME request' = [version |-> "20", method |-> "PRI", len |-> 0, chunked |-> FALSE, close |-> FALSE],
             Skip(Request, "header")
      PROVE  HttpInv'
  <2>1. request' \in Described
    BY <1>5, HttpAssumption DEF Described
  <2> QED
    BY <1>3, <1>5, <2>1
<1> QED
  BY <1>2, <1>4, <1>5 DEF RequestMethod, Missing

\* A header line, or the end of them.
LEMMA RequestFieldKept ==
  ASSUME HttpInv, RequestField
  PROVE  HttpInv'
<1>1. At(Request, "field") /\ UNCHANGED << asked, taken, size, answered >>
  BY DEF RequestField
<1>2. CASE Throw(Request, "finally") /\ UNCHANGED request
  BY <1>1, <1>2, RequestThrows DEF hvars
<1>3. ASSUME NEW m \in {"write", "header"}, Skip(Request, m), request' \in Described,
             m = "write" => Framed(request')
      PROVE  HttpInv'
  <2>1. GoesTo(Request, m) /\ error' = error /\ p' = p
    BY <1>1, <1>3, SkipStep, Pipe
  <2>2. pc[Request] = "field" /\ ~ p.inside[Request] /\ pc'[Request] = m /\ ~ error[Request]
        /\ Asked' = Asked /\ ~ Handing'
    BY <1>1, <2>1, RequestAt DEF GoesTo, Asked, Handing
  <2>3. AskInv'
    <3>1. AskInv
      BY DEF HttpInv
    <3> QED
      BY <1>1, <1>3, <2>1, <2>2, <3>1 DEF AskInv, Asking
  <2>4. FlushInv'
    BY <1>3, <2>1, <2>2 DEF FlushInv, HttpInv, Asking
  <2>5. Owed' = Owed /\ (Chunking <=> Chunking')
    BY <1>3, <2>2 DEF Owed, Chunking
  <2> QED
    BY <1>1, <1>3, <2>3, <2>4, <2>5, RequestSkips
<1>4. CASE Framed(request) /\ Skip(Request, "write") /\ UNCHANGED request
  BY <1>3, <1>4 DEF HttpInv, TypeInv
<1>5. ASSUME Skip(Request, "header"),
             \/ \E n \in 0 .. MaxBody : request' = [request EXCEPT !.len = n]
             \/ request' = [request EXCEPT !.chunked = TRUE]
             \/ request' = [request EXCEPT !.close = TRUE]
      PROVE  HttpInv'
  <2>1. request \in Described
    BY DEF HttpInv, TypeInv
  <2>2. request' \in Described
    BY <1>5, <2>1 DEF Described
  <2> QED
    BY <1>3, <1>5, <2>2
<1> QED
  BY <1>2, <1>4, <1>5 DEF RequestField, Missing

\* The struct is what the request is from here on.
LEMMA RequestWriteKept ==
  ASSUME HttpInv, RequestWrite
  PROVE  HttpInv'
<1>1. /\ At(Request, "write") /\ Do(Request, "WRITE", 1, "entity") /\ asked' = Append(asked, request)
      /\ UNCHANGED taken /\ UNCHANGED << request, size, answered >>
  BY DEF RequestWrite, hvars
<1>2. pc[Request] = "write" /\ ~ p.inside[Request] /\ ~ error[Request] /\ ~ p.tx[Request].eof
      /\ ~ Handing /\ Given = Asked
  BY <1>1, RequestAt
<1>3. /\ GoesTo(Request, "entity") /\ error' = error /\ p'.op[Request] = "WRITE"
      /\ p'.need[Request] = 1 /\ p'.inside[Request]
  <2>1. 1 \in 0 .. MaxLen /\ "entity" \in After(Request, "WRITE")
    BY BufLenAssumption DEF After
  <2> QED
    BY <1>1, <2>1, OperationStep, Pipe DEF Ops
<1>4. /\ pc'[Request] = "entity" /\ Aside(Response) /\ Undisturbed(p, p', Response)
      /\ pc'[Response] = pc[Response] /\ p'.tx = p.tx /\ Flow(p', Response) = Flow(p, Response)
      /\ ControlInv' /\ DOMAIN pc' = Threads
  BY <1>3, Pipe DEF GoesTo
<1>5. /\ Asked \in Nat /\ asked \in Seq(Requests) /\ Cur \in Nat /\ Cur <= Asked /\ Rest \in Nat
      /\ Flow(p, Response) \in Seq(Byte) /\ Ordered(asked, Flow(p, Response), Rest, Cur, Asked, Lacks)
      /\ Len(Flow(p, Response)) \in Nat
  BY <1>2, Counts
<1>6. AskInv /\ FlushInv /\ ChunkInv /\ request \in Described
  BY DEF HttpInv, TypeInv
<1>7. /\ request \in Requests /\ asked' \in Seq(Requests) /\ Asked' = Asked + 1
      /\ asked'[Asked'] = request /\ \A i \in 1 .. Asked : asked'[i] = asked[i]
  <2>1. request \in Requests
    BY <1>2, <1>6 DEF AskInv, Requests
  <2> DEFINE r == request
             a == asked
  <2>2. r \in Requests /\ a \in Seq(Requests)
    BY <1>5, <2>1
  <2> HIDE DEF r, a
  <2>3. /\ Append(a, r) \in Seq(Requests) /\ Len(Append(a, r)) = Len(a) + 1
        /\ Append(a, r)[Len(a) + 1] = r /\ \A i \in 1 .. Len(a) : Append(a, r)[i] = a[i]
    BY <2>2
  <2> QED
    BY <1>1, <2>1, <2>3 DEF Asked, a, r
<1>8. Handing' /\ Given' = Asked
  <2>1. Handing'
    BY <1>3 DEF Handing
  <2> QED
    BY <1>3, <1>5, <1>7, <2>1 DEF Given
<1>9. /\ Cur' = Cur /\ (Met <=> Met') /\ (Open <=> Open')
      /\ Rest' = IF Open THEN Len(Flow(p', Response)) ELSE Rest
  <2>1. p'.need[Response] = p.need[Response]
    BY <1>4 DEF Aside, Stays
  <2> QED
    BY <1>1, <1>4, <1>7, <2>1, ResponseSame
<1>10. Rest' = Rest
  <2>1. Open => Rest = Len(Flow(p, Response))
    BY DEF Rest
  <2> QED
    BY <1>4, <1>9, <2>1
<1>11. FlowInv'
  <2>1. Lacks' = Lacks
    <3>1. Owed' = 0 /\ Owed = 0
      BY <1>2, <1>4, <1>5, <1>7, <1>8 DEF Owed
    <3> QED
      BY <1>3, <3>1 DEF Lacks
  <2> DEFINE q == Flow(p, Response)
             W == Lacks
             n == Rest
             c == Cur
             s == Asked
             a == asked
             b == asked'
  <2>2. q \in Seq(Byte) /\ s \in Nat /\ Ordered(a, q, n, c, s, W) /\ \A i \in 1 .. s : a[i] = b[i]
    BY <1>5, <1>7
  <2> HIDE DEF q, W, n, c, s, a, b
  <2>3. Ordered(b, q, n, c, s, W)
    BY <2>2, OrderedSame
  <2>4. Flow(p, Response)' = Flow(p, Response)
    BY <1>4 DEF Flow
  <2>5. Ordered(asked', Flow(p, Response)', Rest', Cur', Given', Lacks')
    BY <1>8, <1>9, <1>10, <2>1, <2>3, <2>4 DEF q, W, n, c, s, b
  <2> QED
    BY <1>5, <1>8, <1>9, <2>5 DEF FlowInv
<1>12. ChunkInv'
  <2>1. ~ Chunking /\ ~ Chunking'
    BY <1>2, <1>4, <1>5, <1>7, <1>8 DEF Chunking
  <2>2. Given' > 0 /\ asked'[Given'].chunked => Cur' = Given' /\ ~ Open'
    BY <1>2, <1>5, <1>6, <1>7, <1>8, <1>9, <2>1 DEF ChunkInv
  <2>3. \A i \in Cur' + 1 .. Given' - 1 : ~ asked'[i].chunked
    BY <1>2, <1>5, <1>6, <1>7, <1>8, <1>9 DEF ChunkInv
  <2>4. Open' => Cur' > 0 /\ asked'[Cur'].chunked
    BY <1>5, <1>6, <1>7, <1>9 DEF ChunkInv
  <2> QED
    BY <1>2, <1>4, <2>1, <2>2, <2>3, <2>4 DEF ChunkInv
<1>13. AskInv'
  <2>1. \A i \in 1 .. Asked' - 1 : ~ asked'[i].close
    <3>1. SUFFICES ASSUME NEW i \in 1 .. Asked PROVE ~ asked[i].close
      BY <1>5, <1>7
    <3>2. i = Asked => Asked > 0 /\ ~ asked[Asked].close
      BY <1>2, <1>5, <1>6 DEF AskInv, Asking
    <3>3. i # Asked => i \in 1 .. Asked - 1
      BY <1>5
    <3> QED
      BY <1>6, <3>2, <3>3 DEF AskInv
  <2>2. /\ ~ error'[Request] /\ pc'[Request] = "entity" /\ p'.op[Request] = "WRITE" /\ p'.need[Request] <= 1
        /\ request' = asked'[Asked'] /\ Asked' > 0
    BY <1>1, <1>2, <1>3, <1>4, <1>5, <1>7
  <2> QED
    BY <2>1, <2>2 DEF AskInv, Asking
<1>14. FlushInv'
  BY <1>4 DEF FlushInv, Asking
<1>15. NapInv'
  <2>1. SUFFICES ASSUME Naps(p') PROVE NapInv'
    BY DEF NapInv
  <2>2. Naps(p) /\ p'.op[Response] = p.op[Response] /\ p'.need[Response] = p.need[Response]
    BY <1>4, <2>1 DEF Naps, Undisturbed, Aside, Stays
  <2>3. NapInv
    BY DEF HttpInv
  <2>4. p'.tx[Response].data = << >> /\ (p'.op[Response] \in {"READ", "FORWARD"} => p'.need[Response] # 0)
    BY <1>4, <2>2, <2>3 DEF NapInv
  <2>5. \A i \in Cur' + 1 .. Asked' :
          \/ asked'[i].len > 0 \/ asked'[i].chunked
          \/ i = Asked' /\ (error'[Request] \/ Given' < Asked' \/ p'.tx[Request].data # << >>)
    <3>1. SUFFICES ASSUME NEW i \in Cur + 1 .. Asked + 1, i # Asked + 1
                   PROVE  asked[i].len > 0 \/ asked[i].chunked
      BY <1>5, <1>7, <1>8, <1>9
    <3>2. i \in Cur + 1 .. Asked
      BY <1>5, <3>1
    <3>3. p.tx[Request].data = << >>
      BY <1>2, <1>6 DEF FlushInv, Asking
    <3>4. ~ (Given < Asked)
      BY <1>2, <1>5
    <3> QED
      BY <1>2, <2>2, <2>3, <3>2, <3>3, <3>4 DEF NapInv
  <2>6. pc'[Request] # "called"
    BY <1>4
  <2> QED
    BY <2>4, <2>5, <2>6 DEF NapInv
<1>16. error' \in [Threads -> BOOLEAN] /\ request' \in Described
  BY <1>1, <1>3 DEF HttpInv, TypeInv
<1>17. Len(Flow(p', Response)) >= Len(Flow(p, Response))
  BY <1>4, <1>5
<1> QED
  BY <1>1, <1>3, <1>4, <1>7, <1>11, <1>12, <1>13, <1>14, <1>15, <1>16, <1>17, RequestRest

\* After the struct its entity, by what the headers said of it.
LEMMA RequestEntityKept ==
  ASSUME HttpInv, RequestEntity
  PROVE  HttpInv'
<1>1. At(Request, "entity") /\ UNCHANGED << asked, taken, hvars >> /\ UNCHANGED << request, size, answered >>
  BY DEF RequestEntity, hvars
<1>2. pc[Request] = "entity" /\ ~ p.inside[Request] /\ ~ error[Request] /\ ~ p.tx[Request].eof
      /\ ~ Handing /\ Given = Asked
  BY <1>1, RequestAt
<1>3. Asked > 0 /\ request = asked[Asked] /\ Asked \in Nat /\ asked \in Seq(Requests)
  BY <1>2, Counts DEF HttpInv, AskInv, Asking
<1>4. /\ request.len \in Nat /\ request.len <= MaxBody /\ request.chunked \in BOOLEAN
      /\ request.chunked => request.len = 0
  <2>1. Asked \in 1 .. Len(asked)
    BY <1>3 DEF Asked
  <2> QED
    BY <1>3, <2>1, Sizes
<1>5. Owed = request.len /\ (Chunking <=> request.chunked)
  BY <1>2 DEF Owed, Chunking
<1>6. request.len \in 0 .. MaxLen /\ 1 \in 0 .. MaxLen /\ 0 \in 0 .. MaxLen
  BY <1>4, BufLenAssumption, HttpAssumption
<1>7. CASE request.len > 0 /\ Do(Request, "FORWARD", request.len, "body")
  <2>1. "body" \in After(Request, "FORWARD")
    BY DEF After
  <2>2. GoesTo(Request, "body") /\ p'.need[Request] = request.len
    BY <1>1, <1>6, <1>7, <2>1, OperationStep, Pipe DEF Ops
  <2>3. Owed' = Owed /\ (Chunking <=> Chunking')
    BY <1>4, <1>5, <1>7, <2>2 DEF Owed, Chunking, GoesTo
  <2> QED
    BY <1>1, <1>2, <1>3, <1>6, <1>7, <2>1, <2>3, RequestOperates DEF Asking
<1>8. CASE request.len = 0 /\ request.chunked /\ Skip(Request, "chunk")
  <2>1. GoesTo(Request, "chunk")
    BY <1>1, <1>8, SkipStep, Pipe
  <2>2. Owed' = Owed /\ (Chunking <=> Chunking')
    BY <1>5, <1>8, <2>1 DEF Owed, Chunking, GoesTo
  <2>3. request' \in Described /\ request' = request
    BY <1>1 DEF HttpInv, TypeInv
  <2> QED
    BY <1>1, <1>2, <1>8, <2>2, <2>3, RequestSteps DEF Asking
<1>9. ASSUME request.len = 0, ~ request.chunked, NEW o \in {"READ", "FLUSH"}, NEW n \in {0, 1}, NEW m,
             << o, m >> \in {<< "READ", "preface" >>, << "FLUSH", "next" >>}, Do(Request, o, n, m)
      PROVE  HttpInv'
  <2>1. m \in After(Request, o) /\ n \in 0 .. MaxLen
    BY <1>6, <1>9 DEF After
  <2>2. GoesTo(Request, m)
    BY <1>1, <1>9, <2>1, OperationStep, Pipe DEF Ops
  <2>3. pc'[Request] = m /\ m \in {"preface", "next"}
    BY <1>9, <2>2 DEF GoesTo
  <2>4. Owed' = Owed /\ (Chunking <=> Chunking')
    BY <1>5, <1>9, <2>3 DEF Owed, Chunking
  <2> QED
    BY <1>1, <1>2, <1>9, <2>1, <2>3, <2>4, RequestOperates DEF Asking
<1>10. \/ request.len > 0 /\ Do(Request, "FORWARD", request.len, "body")
       \/ request.len = 0 /\ request.chunked /\ Skip(Request, "chunk")
       \/ request.len = 0 /\ ~ request.chunked
            /\ (Do(Request, "READ", 1, "preface") \/ Do(Request, "FLUSH", 0, "next"))
  <2> DEFINE A == Do(Request, "FORWARD", request.len, "body")
             B == Skip(Request, "chunk")
             C == Do(Request, "READ", 1, "preface")
             D == Do(Request, "FLUSH", 0, "next")
             k == request.len > 0
             z == request.len = 0
             h == request.chunked
  <2>1. (CASE k -> A [] z /\ h -> B [] z /\ ~ h /\ request.method = "PRI" -> C [] OTHER -> D)
    BY DEF RequestEntity
  <2>2. (k \/ z) /\ ~ (k /\ z) /\ h \in BOOLEAN /\ k \in BOOLEAN /\ z \in BOOLEAN
    BY <1>4
  <2>3. A \in BOOLEAN /\ B \in BOOLEAN /\ C \in BOOLEAN /\ D \in BOOLEAN
    BY DEF Do, Skip
  <2> HIDE DEF A, B, C, D, k, z, h
  <2>4. (k /\ A) \/ (z /\ h /\ B) \/ (z /\ ~ h /\ (C \/ D))
    BY <2>1, <2>2, <2>3
  <2> QED
    BY <2>4 DEF A, B, C, D, k, z, h
<1> QED
  BY <1>7, <1>8, <1>9, <1>10

\* The entity, or a chunk, was forwarded.
LEMMA RequestBodyKept ==
  ASSUME HttpInv, RequestBody
  PROVE  HttpInv'
<1>1. UNCHANGED << asked, taken, hvars >> /\ UNCHANGED << request, size, answered >>
  BY DEF RequestBody, hvars
<1>2. ASSUME NEW l \in {"body", "chunkbody"}, At(Request, l), Throw(Request, "finally")
      PROVE  HttpInv'
  BY <1>1, <1>2, RequestThrows
<1>3. ASSUME NEW l, At(Request, l), p.need[Request] = 0, NEW o \in {"READ", "FLUSH"}, NEW n \in {0, 1}, NEW m,
             << l, o, m >> \in {<< "body", "FLUSH", "next" >>, << "chunkbody", "READ", "chunkfoot" >>},
             Do(Request, o, n, m)
      PROVE  HttpInv'
  <2>1. l # "start" /\ m \in After(Request, o) /\ n \in 0 .. MaxLen
    BY <1>3, BufLenAssumption DEF After
  <2>2. pc[Request] = l /\ ~ error[Request]
    BY <1>3, RequestAt
  <2>3. GoesTo(Request, m)
    BY <1>3, <2>1, OperationStep, Pipe DEF Ops
  <2>4. Owed' = Owed /\ (Chunking <=> Chunking')
    BY <1>3, <2>2, <2>3 DEF Owed, Chunking, GoesTo
  <2> QED
    BY <1>1, <1>3, <2>1, <2>2, <2>4, RequestOperates DEF Asking
<1> QED
  BY <1>2, <1>3 DEF RequestBody, Missing

\* The size of a chunk, of which one is the last.
LEMMA RequestChunkheadKept ==
  ASSUME HttpInv, RequestChunkhead
  PROVE  HttpInv'
<1>1. /\ At(Request, "chunkhead") /\ UNCHANGED << asked, taken, hvars >>
      /\ UNCHANGED << request, size, answered >>
  BY DEF RequestChunkhead, hvars
<1>2. CASE Throw(Request, "finally")
  BY <1>1, <1>2, RequestThrows
<1>3. ASSUME NEW o \in {"FLUSH", "FORWARD"}, NEW n \in 0 .. MaxBody, NEW m,
             << o, m >> \in {<< "FLUSH", "hup" >>, << "FORWARD", "chunkbody" >>}, Do(Request, o, n, m)
      PROVE  HttpInv'
  <2>1. m \in After(Request, o) /\ n \in 0 .. MaxLen
    BY <1>3, BufLenAssumption, HttpAssumption DEF After
  <2>2. pc[Request] = "chunkhead" /\ ~ error[Request]
    BY <1>1, RequestAt
  <2>3. GoesTo(Request, m)
    BY <1>1, <1>3, <2>1, OperationStep, Pipe DEF Ops
  <2>4. Owed' = Owed /\ (Chunking <=> Chunking')
    BY <1>3, <2>2, <2>3 DEF Owed, Chunking, GoesTo
  <2> QED
    BY <1>1, <1>3, <2>1, <2>2, <2>4, RequestOperates DEF Asking
<1>4. 0 \in 0 .. MaxBody /\ 1 .. MaxBody \subseteq 0 .. MaxBody
  BY HttpAssumption
<1> QED
  BY <1>2, <1>3, <1>4 DEF RequestChunkhead, Missing

\* The line after a chunk, and after the trailers.
LEMMA RequestLinesKept ==
  ASSUME HttpInv, RequestChunkfoot \/ RequestTrailer
  PROVE  HttpInv'
<1>1. UNCHANGED << asked, taken, hvars >> /\ UNCHANGED << request, size, answered >>
  BY DEF RequestChunkfoot, RequestTrailer, hvars
<1>2. ASSUME NEW l \in {"chunkfoot", "trailerfield"}, At(Request, l), Throw(Request, "finally")
      PROVE  HttpInv'
  BY <1>1, <1>2, RequestThrows
<1>3. ASSUME NEW l, At(Request, l), NEW m, Skip(Request, m),
             << l, m >> \in {<< "chunkfoot", "chunk" >>, << "trailerfield", "trailer" >>, << "trailerfield", "next" >>}
      PROVE  HttpInv'
  <2>1. pc[Request] = l /\ ~ error[Request] /\ ~ p.tx[Request].eof /\ l # "start" /\ m # "start"
    BY <1>3, RequestAt
  <2>2. GoesTo(Request, m)
    BY <1>3, <2>1, SkipStep, Pipe
  <2>3. Owed' = Owed /\ (Chunking <=> Chunking')
    BY <1>3, <2>1, <2>2 DEF Owed, Chunking, GoesTo
  <2>4. m \in {"trailer", "next"} => p.tx[Request].data = << >>
    BY <1>3, <2>1 DEF HttpInv, FlushInv
  <2>5. request' \in Described /\ request' = request
    BY <1>1 DEF HttpInv, TypeInv
  <2> QED
    BY <1>1, <1>3, <2>1, <2>3, <2>4, <2>5, RequestSteps DEF Asking
<1> QED
  BY <1>2, <1>3 DEF RequestChunkfoot, RequestTrailer, Missing

\* vk_hup, after the last chunk went through.
LEMMA RequestHupKept ==
  ASSUME HttpInv, RequestHup
  PROVE  HttpInv'
<1>1. /\ At(Request, "hup") /\ Hup(Request) /\ Goto(Request, "trailer") /\ phase' = phase
      /\ UNCHANGED << error, asked, taken >> /\ UNCHANGED << request, size, answered >>
      /\ p.tx[Request].data = << >>
  BY DEF RequestHup, hvars, Hup
<1>2. /\ phase = "execute" /\ p.running = Request /\ p.status[Request] = "RUN" /\ ~ p.inside[Request]
      /\ pc[Request] = "hup" /\ Place(p, "hup", Request) /\ QueueInv
  BY <1>1, BetweenPlace, Pipe DEF HttpInv
<1>3. ~ error[Request] /\ ~ p.tx[Request].eof /\ ~ Handing /\ Given = Asked
  BY <1>1, RequestAt
<1>4. /\ Orderly /\ Others(p, p', Request) /\ SameFlows(p, p')
      /\ p'.op[Request] = "HUP" /\ p'.inside[Request] /\ p'.status[Request] \in {"RUN", "WAIT"}
      /\ p'.tx[Request].data = << >> /\ p'.tx[Request].eof
  BY <1>1, <1>2, <1>3, HupTurn, Pipe
<1>5. Steps(Request) /\ \A x \in Threads \ {Request} : p'.tx[x].eof = p.tx[x].eof
  BY <1>1, <1>2, <1>4, BesideSteps, Pipe DEF Others
<1>6. DOMAIN pc' = Threads /\ pc'[Request] = "trailer" /\ pc'[Response] = pc[Response]
      /\ \A x \in Threads \ {Request} : pc'[x] = pc[x]
  BY <1>1, GotoGoes, Pipe
<1>7. Place(p', "trailer", Request)
  BY <1>4 DEF Place, Ops, After
<1>8. ControlInv'
  BY <1>2, <1>5, <1>6, <1>7, Pipe, StepControl DEF HttpInv
<1>9. Aside(Response) /\ Undisturbed(p, p', Response) /\ Flow(p', Response) = Flow(p, Response)
  BY <1>4, <1>5, StepAside, Pipe DEF Others, SameFlows
<1>10. Asked' = Asked /\ Given' = Asked /\ Chunking /\ Chunking' /\ Owed' = Owed
  <2>1. Asked' = Asked
    BY <1>1 DEF Asked
  <2>2. Given' = Asked
    BY <1>4, <2>1 DEF Given, Handing
  <2> QED
    BY <1>2, <1>4, <1>6, <2>1, <2>2 DEF Chunking, Owed
<1>11. Lacks' = Lacks
  BY <1>1, <1>10 DEF Lacks
<1>12. /\ Asked \in Nat /\ asked \in Seq(Requests) /\ Cur \in Nat /\ Cur <= Asked /\ Rest \in Nat
       /\ Flow(p, Response) \in Seq(Byte) /\ Ordered(asked, Flow(p, Response), Rest, Cur, Asked, Lacks)
       /\ Len(Flow(p, Response)) \in Nat
  BY <1>3, Counts
<1>13. /\ Cur' = Cur /\ (Open <=> Open') /\ Rest' = Rest
  <2>1. p'.need[Response] = p.need[Response]
    BY <1>9 DEF Aside, Stays
  <2>2. /\ Cur' = Cur /\ (Open <=> Open')
        /\ Rest' = IF Open THEN Len(Flow(p', Response)) ELSE Rest
    BY <1>1, <1>6, <2>1, ResponseSame
  <2>3. Open => Rest = Len(Flow(p, Response))
    BY DEF Rest
  <2> QED
    BY <1>9, <2>2, <2>3
<1>14. FlowInv'
  <2>1. Flow(p, Response)' = Flow(p, Response)
    BY <1>9 DEF Flow
  <2>2. Ordered(asked', Flow(p, Response)', Rest', Cur', Given', Lacks')
    BY <1>1, <1>10, <1>11, <1>12, <1>13, <2>1
  <2> QED
    BY <1>10, <1>12, <1>13, <2>2 DEF FlowInv
<1>15. ChunkInv'
  <2>1. ChunkInv
    BY DEF HttpInv
  <2> QED
    BY <1>1, <1>3, <1>4, <1>6, <1>10, <1>13, <2>1 DEF ChunkInv
<1>16. AskInv'
  <2>1. AskInv
    BY DEF HttpInv
  <2> QED
    BY <1>1, <1>2, <1>3, <1>4, <1>6, <1>10, <2>1 DEF AskInv, Asking, Handing
<1>17. FlushInv'
  BY <1>4, <1>6 DEF FlushInv, Asking
<1>18. NapInv'
  <2>1. SUFFICES ASSUME Naps(p') PROVE NapInv'
    BY DEF NapInv
  <2>2. Naps(p) /\ p'.op[Response] = p.op[Response] /\ p'.need[Response] = p.need[Response]
    BY <1>9, <2>1 DEF Naps, Undisturbed, Aside, Stays
  <2>3. NapInv
    BY DEF HttpInv
  <2>4. p'.tx[Response].data = << >> /\ (p'.op[Response] \in {"READ", "FORWARD"} => p'.need[Response] # 0)
    BY <1>9, <2>2, <2>3 DEF NapInv, Aside, Stays
  <2>5. \A i \in Cur + 1 .. Asked : asked[i].len > 0 \/ asked[i].chunked
    BY <1>1, <1>3, <1>12, <2>2, <2>3 DEF NapInv
  <2> QED
    BY <1>1, <1>6, <1>10, <1>13, <2>4, <2>5 DEF NapInv
<1>19. error' \in [Threads -> BOOLEAN] /\ request' \in Described /\ asked' \in Seq(Requests)
  BY <1>1 DEF HttpInv, TypeInv
<1>20. Len(Flow(p', Response)) >= Len(Flow(p, Response)) /\ \A i \in 1 .. Asked : asked'[i] = asked[i]
  BY <1>1, <1>9, <1>12
<1> QED
  BY <1>1, <1>6, <1>8, <1>9, <1>14, <1>15, <1>16, <1>17, <1>18, <1>19, <1>20, RequestRest

\* The preface of HTTP/2.
LEMMA RequestPrefaceKept ==
  ASSUME HttpInv, RequestPreface
  PROVE  HttpInv'
<1>1. UNCHANGED << asked, taken, hvars >> /\ UNCHANGED << request, size, answered >>
  BY DEF RequestPreface, hvars
<1>2. ASSUME NEW l \in {"preface", "preface2"}, At(Request, l), Throw(Request, "finally")
      PROVE  HttpInv'
  BY <1>1, <1>2, RequestThrows
<1>3. ASSUME NEW l, At(Request, l), NEW m, Skip(Request, m), p.need[Request] = 1,
             << l, m >> \in {<< "preface", "loopend" >>, << "preface2", "next" >>}
      PROVE  HttpInv'
  <2>1. pc[Request] = l /\ ~ p.inside[Request] /\ l # "start" /\ m # "start"
    BY <1>3, RequestAt
  <2>2. GoesTo(Request, m)
    BY <1>3, <2>1, SkipStep, Pipe
  <2>3. Owed' = Owed /\ (Chunking <=> Chunking')
    BY <1>3, <2>1, <2>2 DEF Owed, Chunking, GoesTo
  <2>4. m = "next" => Pollhup(p, Request)
    BY <1>3, <2>1 DEF HttpInv, FlushInv
  <2>5. request' \in Described /\ request' = request
    BY <1>1 DEF HttpInv, TypeInv
  <2> QED
    BY <1>1, <1>3, <2>1, <2>3, <2>4, <2>5, RequestSteps DEF Asking
<1>4. ASSUME At(Request, "preface"), Do(Request, "READ", 1, "preface2")
      PROVE  HttpInv'
  <2>1. "preface2" \in After(Request, "READ") /\ 1 \in 0 .. MaxLen
    BY BufLenAssumption DEF After
  <2>2. pc[Request] = "preface" /\ ~ error[Request]
    BY <1>4, RequestAt
  <2>3. GoesTo(Request, "preface2")
    BY <1>4, <2>1, OperationStep, Pipe DEF Ops
  <2>4. Owed' = Owed /\ (Chunking <=> Chunking')
    BY <2>2, <2>3 DEF Owed, Chunking, GoesTo
  <2> QED
    BY <1>1, <1>4, <2>1, <2>2, <2>4, RequestOperates DEF Asking
<1> QED
  BY <1>2, <1>3, <1>4 DEF RequestPreface

\* The next request, or the end of the loop.
LEMMA RequestNextKept ==
  ASSUME HttpInv, RequestNext
  PROVE  HttpInv'
<1>1. /\ UNCHANGED << asked, taken, hvars >> /\ UNCHANGED << request, size, answered >>
      /\ request' \in Described
  BY DEF RequestNext, hvars, HttpInv, TypeInv
<1>2. ASSUME At(Request, "next"), Skip(Request, "loopend") PROVE HttpInv'
  <2>1. pc[Request] = "next"
    BY <1>2, RequestAt
  <2>2. GoesTo(Request, "loopend")
    BY <1>2, SkipStep, Pipe
  <2>3. Owed' = Owed /\ (Chunking <=> Chunking')
    BY <2>1, <2>2 DEF Owed, Chunking, GoesTo
  <2> QED
    BY <1>1, <1>2, <2>3, RequestSteps DEF Asking
<1>3. ASSUME At(Request, "next"), Skip(Request, "line"), ~ Pollhup(p, Request), ~ request.close PROVE HttpInv'
  <2>1. pc[Request] = "next" /\ ~ p.inside[Request] /\ ~ error[Request]
    BY <1>3, RequestAt
  <2>2. GoesTo(Request, "line") /\ error' = error /\ p' = p
    BY <1>3, SkipStep, Pipe
  <2>3. pc'[Request] = "line" /\ Asked' = Asked /\ ~ Handing'
    BY <1>1, <2>1, <2>2 DEF GoesTo, Asked, Handing
  <2>4. Owed' = Owed /\ (Chunking <=> Chunking')
    BY <2>1, <2>3 DEF Owed, Chunking
  <2>5. AskInv'
    <3>1. AskInv
      BY DEF HttpInv
    <3> QED
      BY <1>1, <1>3, <2>1, <2>2, <2>3, <3>1 DEF AskInv, Asking
  <2>6. FlushInv'
    BY <1>3, <2>1, <2>2, <2>3 DEF FlushInv, HttpInv, Asking
  <2> QED
    BY <1>1, <1>3, <2>4, <2>5, <2>6, RequestSkips
<1>4. ASSUME At(Request, "loopend"), Do(Request, "FLUSH", 0, "finally") PROVE HttpInv'
  <2>1. "finally" \in After(Request, "FLUSH") /\ 0 \in 0 .. MaxLen
    BY BufLenAssumption DEF After
  <2>2. pc[Request] = "loopend" /\ ~ error[Request]
    BY <1>4, RequestAt
  <2>3. GoesTo(Request, "finally")
    BY <1>4, <2>1, OperationStep, Pipe DEF Ops
  <2>4. Owed' = Owed /\ (Chunking <=> Chunking')
    BY <2>2, <2>3 DEF Owed, Chunking, GoesTo
  <2> QED
    BY <1>1, <1>4, <2>1, <2>2, <2>4, RequestOperates DEF Asking
<1> QED
  BY <1>2, <1>3, <1>4 DEF RequestNext

----------------------------------------------------------------------------
(* http11_response *)

\* Between two operations of the response.
LEMMA ResponseAt ==
  ASSUME HttpInv, NEW l, At(Response, l)
  PROVE  /\ pc[Response] = l /\ ~ p.inside[Response] /\ p.status[Response] = "RUN" /\ QueueInv
         /\ p.inside[Request] \/ pc[Request] = "called"
         /\ ~ error[Response] /\ ~ p.tx[Response].eof
         /\ l \in {"start", "read", "got"} \cup Answers
         /\ l \in Answers => taken = << answered >> /\ answered > 0 /\ answered \in 1 .. Asked
         /\ l = "got" => taken = << answered + 1 >>
         /\ l \in {"sent", "chunkbody"} => p.need[Response] = 0
         /\ answered \in Nat
<1>1. /\ p.running = Response /\ p.status[Response] = "RUN" /\ ~ p.inside[Response] /\ pc[Response] = l
      /\ QueueInv /\ pc[Request] # "start"
  BY BetweenPlace, Pipe DEF HttpInv
<1>2. p.inside[Request] \/ pc[Request] = "called"
  BY <1>1, RequestInside, Pipe DEF HttpInv
<1>3. AnswerInv
  BY DEF HttpInv
<1>4. l = "got" => taken = << answered + 1 >>
  BY <1>1, <1>3 DEF AnswerInv
<1>5. l \in Answers => taken = << answered >> /\ answered > 0 /\ answered \in 1 .. Asked
  <2>1. l \in Answers => answered > 0 /\ answered = Cur
    BY <1>1, <1>3 DEF AnswerInv, Answers, Cur
  <2>2. Cur \in Nat /\ Asked \in Nat /\ Cur <= Asked
    BY Counts
  <2> QED
    BY <1>1, <1>3, <2>1, <2>2 DEF AnswerInv
<1> QED
  BY <1>1, <1>2, <1>3, <1>4, <1>5, Counts DEF AnswerInv

\* The response goes on, and takes nothing of the pipe.
LEMMA ResponseGoes ==
  ASSUME HttpInv, NEW l, At(Response, l), NEW m, GoesTo(Response, m), p'.status[Response] # "WAIT",
         error' = error, UNCHANGED << asked, request >>,
         taken' \in Seq(Byte), size' \in 0 .. BufLen, answered' \in Nat,
         Cur' = Cur, Rest' = Rest, Open <=> Open', AnswerInv', EndInv'
  PROVE  HttpInv'
<1>1. /\ Aside(Request) /\ ControlInv' /\ DOMAIN pc' = Threads /\ pc'[Request] = pc[Request]
      /\ Flow(p', Response) = Flow(p, Response) /\ p'.tx = p.tx
  BY Pipe DEF GoesTo
<1>2. p.inside[Request] \/ pc[Request] = "called"
  BY ResponseAt
<1>3. NapInv'
  BY DEF NapInv, Naps
<1>4. Stays(p, p', Request) /\ p'.tx[Request].eof = p.tx[Request].eof
  BY <1>1 DEF Aside
<1> QED
  BY <1>1, <1>2, <1>3, <1>4, ResponseMoves

\* It goes on by an operation, or by none.
LEMMA ResponseStep ==
  ASSUME HttpInv, NEW l, At(Response, l), NEW m,
         \/ m # "start" /\ Skip(Response, m)
         \/ \E o \in Ops \ {"HUP"}, n \in 0 .. MaxLen :
              m \in After(Response, o) /\ (o = "TX_CLOSE" => n # 0) /\ Do(Response, o, n, m)
  PROVE  /\ GoesTo(Response, m) /\ p'.status[Response] = "RUN" /\ error' = error
         /\ pc'[Response] = m /\ Flow(p, Response)' = Flow(p, Response) /\ p'.tx = p.tx
         /\ ~ error'[Response] /\ ~ p'.tx[Response].eof
<1>1. GoesTo(Response, m) /\ p'.status[Response] = "RUN" /\ error' = error
  <2>1. CASE m # "start" /\ Skip(Response, m)
    BY <2>1, SkipStep, ResponseAt, Pipe
  <2>2. ASSUME NEW o \in Ops \ {"HUP"}, NEW n \in 0 .. MaxLen,
               m \in After(Response, o), o = "TX_CLOSE" => n # 0, Do(Response, o, n, m)
        PROVE  GoesTo(Response, m) /\ p'.status[Response] = "RUN" /\ error' = error
    BY <2>2, OperationStep, Pipe
  <2> QED
    BY <2>1, <2>2
<1>2. ~ error[Response] /\ ~ p.tx[Response].eof
  BY ResponseAt
<1> QED
  BY <1>1, <1>2 DEF GoesTo, Flow

\* vk_read of the next struct.
LEMMA ResponseReadKept ==
  ASSUME HttpInv, ResponseRead
  PROVE  HttpInv'
<1>1. /\ Do(Response, "READ", 1, "got") /\ taken' = << >> /\ UNCHANGED << asked, request, size, answered >>
  BY DEF ResponseRead, hvars
<1>2. PICK l \in {"start", "read"} : At(Response, l)
  BY DEF ResponseRead
<1>3. "READ" \in Ops \ {"HUP"} /\ 1 \in 0 .. MaxLen /\ "got" \in After(Response, "READ")
  BY BufLenAssumption, Pipe DEF After, Ops
<1>4. /\ GoesTo(Response, "got") /\ p'.status[Response] = "RUN" /\ error' = error
      /\ pc'[Response] = "got" /\ ~ error'[Response] /\ ~ p'.tx[Response].eof
  BY <1>1, <1>2, <1>3, ResponseStep
<1>5. p'.op[Response] = "READ" /\ p'.need[Response] = 1 /\ p'.inside[Response]
  BY <1>1, <1>2, <1>3, OperationStep, Pipe
<1>6. pc[Response] = l /\ answered \in Nat
  BY <1>2, ResponseAt
<1>7. Cur' = Cur /\ Rest' = Rest /\ (Open <=> Open')
  <2>1. Cur = answered /\ Cur' = answered
    BY <1>1, <1>2, <1>4, <1>6 DEF Cur
  <2>2. ~ Met /\ ~ Met'
    BY <1>1, <1>2, <1>4, <1>6 DEF Met
  <2>3. ~ Open /\ ~ Open'
    BY <1>2, <1>4, <1>6, <2>2 DEF Open
  <2> QED
    BY <1>2, <1>4, <1>6, <2>1, <2>2, <2>3 DEF Rest
<1>8. AnswerInv'
  BY <1>1, <1>4, <1>5 DEF AnswerInv, Answers
<1>9. EndInv'
  BY <1>1, <1>2, <1>4, <1>6 DEF HttpInv, EndInv
<1>10. taken' \in Seq(Byte) /\ size' \in 0 .. BufLen /\ answered' \in Nat
  BY <1>1 DEF HttpInv, TypeInv
<1> QED
  BY <1>1, <1>2, <1>4, <1>7, <1>8, <1>9, <1>10, ResponseGoes

\* The struct is there, and is answered.
LEMMA ResponseGotKept ==
  ASSUME HttpInv, ResponseGot
  PROVE  HttpInv'
<1>1. At(Response, "got") /\ UNCHANGED << asked, taken, request, size >>
  BY DEF ResponseGot
<1>2. /\ pc[Response] = "got" /\ taken = << answered + 1 >> /\ answered \in Nat
      /\ p.need[Response] = 0
  BY <1>1, ResponseAt DEF HttpInv, AnswerInv
<1>3. Do(Response, "WRITE", 1, "headed") /\ answered' = answered + 1
  BY <1>2 DEF ResponseGot
<1>4. "WRITE" \in Ops \ {"HUP"} /\ 1 \in 0 .. MaxLen /\ "headed" \in After(Response, "WRITE")
  BY BufLenAssumption, Pipe DEF After, Ops
<1>5. /\ GoesTo(Response, "headed") /\ p'.status[Response] = "RUN" /\ error' = error
      /\ pc'[Response] = "headed" /\ ~ error'[Response] /\ ~ p'.tx[Response].eof
      /\ Flow(p, Response)' = Flow(p, Response)
  BY <1>1, <1>3, <1>4, ResponseStep
<1>6. Cur' = Cur /\ Rest' = Rest /\ (Open <=> Open')
  <2>1. Cur = answered + 1 /\ Cur' = answered + 1
    <3>1. Len(taken) = 1
      BY <1>2
    <3> QED
      BY <1>2, <1>3, <1>5, <3>1 DEF Cur
  <2>2. Met /\ Met'
    BY <1>2, <1>5 DEF Met
  <2>3. Open <=> Open'
    BY <1>1, <1>2, <1>5, <2>1, <2>2 DEF Open
  <2> QED
    BY <1>1, <1>5, <2>1, <2>2, <2>3 DEF Rest
<1>7. AnswerInv'
  BY <1>1, <1>2, <1>3, <1>5 DEF AnswerInv, Answers
<1>8. EndInv'
  BY <1>5 DEF EndInv
<1>9. taken' \in Seq(Byte) /\ size' \in 0 .. BufLen /\ answered' \in Nat
  BY <1>1, <1>2, <1>3 DEF HttpInv, TypeInv
<1> QED
  BY <1>1, <1>5, <1>6, <1>7, <1>8, <1>9, ResponseGoes

\* It goes on answering the same request.
LEMMA ResponseAnswers ==
  ASSUME HttpInv, NEW l \in Answers, At(Response, l), NEW m \in Answers,
         \/ Skip(Response, m)
         \/ \E o \in Ops \ {"HUP"}, n \in 0 .. MaxLen :
              m \in After(Response, o) /\ (o = "TX_CLOSE" => n # 0) /\ Do(Response, o, n, m),
         UNCHANGED << asked, taken, request, answered >>, size' \in 0 .. BufLen,
         Rest' = Rest, Open <=> Open',
         m \in {"sent", "chunkbody"} => p'.op[Response] = "FORWARD" /\ p'.inside[Response],
         m = "chunkhead" => size' <= Len(Flow(p, Response)),
         m = "chunkbody" => p'.need[Response] <= Len(Flow(p, Response)),
         m \in {"flushed", "end"} => EndInv'
  PROVE  HttpInv'
<1>1. m # "start"
  BY DEF Answers
<1>2. /\ GoesTo(Response, m) /\ p'.status[Response] = "RUN" /\ error' = error
      /\ pc'[Response] = m /\ ~ error'[Response] /\ ~ p'.tx[Response].eof
      /\ Flow(p, Response)' = Flow(p, Response)
  BY <1>1, ResponseStep
<1>3. pc[Response] = l /\ taken = << answered >> /\ answered > 0 /\ answered \in Nat
  BY ResponseAt
<1>4. Cur' = Cur
  BY <1>2, <1>3 DEF Cur, Answers
<1>5. AnswerInv'
  BY <1>2, <1>3 DEF AnswerInv, Answers
<1>6. EndInv'
  <2>1. ASSUME m \notin {"flushed", "end"} PROVE EndInv'
    BY <1>2, <2>1 DEF EndInv, Answers
  <2> QED
    BY <2>1
<1>7. taken' \in Seq(Byte) /\ answered' \in Nat
  BY DEF HttpInv, TypeInv
<1> QED
  BY <1>2, <1>4, <1>5, <1>6, <1>7, ResponseGoes

\* What the response has to read still, when it is at its entity.
LEMMA AnswersRest ==
  ASSUME HttpInv, NEW l \in Answers, pc[Response] = l
  PROVE  /\ Cur = answered /\ (Met <=> l = "headed")
         /\ l # "headed" => (Open <=> l \in {"chunks", "polled", "chunkhead", "chunkbody"})
         /\ Open => Rest = Len(Flow(p, Response))
         /\ l \notin {"headed", "sent"} /\ ~ Open => Rest = 0
         /\ l = "sent" => Rest = p.need[Response]
<1>1. Cur = answered /\ (Met <=> l = "headed")
  BY DEF Cur, Met, Answers
<1>2. l # "headed" => (Open <=> l \in {"chunks", "polled", "chunkhead", "chunkbody"})
  BY <1>1 DEF Open
<1> QED
  BY <1>1, <1>2 DEF Rest

LEMMA AnswersRestAfter ==
  ASSUME HttpInv, NEW m \in Answers \ {"headed"}, pc'[Response] = m, Flow(p, Response)' = Flow(p, Response)
  PROVE  /\ Open' <=> m \in {"chunks", "polled", "chunkhead", "chunkbody"}
         /\ Rest' = IF m \in {"chunks", "polled", "chunkhead", "chunkbody"} THEN Len(Flow(p, Response))
                    ELSE IF m = "sent" THEN p'.need[Response] ELSE 0
<1>1. ~ Met'
  BY DEF Met, Answers
<1>2. Open' <=> m \in {"chunks", "polled", "chunkhead", "chunkbody"}
  BY <1>1 DEF Open
<1> QED
  BY <1>1, <1>2 DEF Rest

\* The body, by what the struct says of the entity.
LEMMA ResponseHeadedKept ==
  ASSUME HttpInv, ResponseHeaded
  PROVE  HttpInv'
<1>1. At(Response, "headed") /\ UNCHANGED << asked, taken, request, size, answered >>
  BY DEF ResponseHeaded, hvars
<1>2. /\ pc[Response] = "headed" /\ taken = << answered >> /\ answered \in 1 .. Asked
      /\ "headed" \in Answers /\ answered \in Nat
  BY <1>1, ResponseAt DEF Answers
<1> DEFINE r == asked[answered]
<1>3. /\ r \in Described /\ Framed(r) /\ r.len \in Nat /\ r.len <= MaxBody
      /\ r.chunked \in BOOLEAN /\ (r.chunked => r.len = 0)
  <2>1. asked \in Seq(Requests) /\ answered \in 1 .. Len(asked)
    BY <1>2, Counts DEF Asked
  <2> QED
    BY <2>1, Sizes
<1>4. Cur = answered /\ Met /\ (Open <=> r.chunked)
  BY <1>2, AnswersRest DEF Open
<1>5. Rest = IF r.chunked THEN Len(Flow(p, Response)) ELSE r.len
  BY <1>4 DEF Rest
<1>6. r = Answering
  <2>1. taken[1] = answered
    BY <1>2
  <2> QED
    BY <2>1 DEF Answering
<1>7. \/ r.len = 0 /\ ~ r.chunked /\ (Skip(Response, "done") \/ Do(Response, "WRITE", 1, "done"))
      \/ r.len > 0 /\ ~ r.chunked /\ Do(Response, "FORWARD", r.len, "sent")
      \/ r.chunked /\ Skip(Response, "chunks")
  <2> DEFINE A == Skip(Response, "done")
             B == Do(Response, "WRITE", 1, "done")
             C == Do(Response, "FORWARD", r.len, "sent")
             D == Skip(Response, "chunks")
             v == r.version
             g == r.method = "GET"
             k == r.len > 0
             h == r.chunked
             e == v = "11"
             z == v = "09"
  <2>1. (CASE z -> A [] ~ z /\ g -> B [] ~ g /\ k -> C [] ~ g /\ h /\ e -> D [] OTHER -> A)
    BY <1>6 DEF ResponseHeaded
  <2>2. /\ k => ~ h /\ ~ g /\ ~ z
        /\ h => ~ g /\ e
        /\ e => ~ z
    BY <1>3 DEF Framed
  <2>3. g \in BOOLEAN /\ k \in BOOLEAN /\ h \in BOOLEAN /\ e \in BOOLEAN /\ z \in BOOLEAN
    BY <1>3
  <2>4. A \in BOOLEAN /\ B \in BOOLEAN /\ C \in BOOLEAN /\ D \in BOOLEAN
    BY DEF Do, Skip
  <2>5. ~ k <=> r.len = 0
    BY <1>3
  <2> HIDE DEF A, B, C, D, g, k, h, e, z
  <2>6. (~ k /\ ~ h /\ (A \/ B)) \/ (k /\ ~ h /\ C) \/ (h /\ D)
    BY <2>1, <2>2, <2>3, <2>4
  <2> QED
    BY <2>5, <2>6 DEF A, B, C, D, k, h
<1>8. r.len \in 0 .. MaxLen /\ 1 \in 0 .. MaxLen /\ size' \in 0 .. BufLen
  BY <1>1, <1>3, BufLenAssumption, HttpAssumption DEF HttpInv, TypeInv
<1>9. \A o, m : << o, m >> \in {<< "WRITE", "done" >>, << "FORWARD", "sent" >>} =>
        o \in Ops \ {"HUP"} /\ o # "TX_CLOSE" /\ m \in After(Response, o)
  BY Pipe DEF Ops, After
<1>10. ASSUME NEW m \in {"done", "sent", "chunks"},
              \/ Skip(Response, m)
              \/ \E o \in Ops \ {"HUP"}, n \in 0 .. MaxLen :
                   m \in After(Response, o) /\ (o = "TX_CLOSE" => n # 0) /\ Do(Response, o, n, m),
              r.chunked <=> m = "chunks",
              m = "done" => r.len = 0,
              m = "sent" => p'.op[Response] = "FORWARD" /\ p'.inside[Response] /\ p'.need[Response] = r.len
       PROVE  HttpInv'
  <2>1. m \in Answers /\ m # "headed" /\ m # "start"
    BY DEF Answers
  <2>2. pc'[Response] = m /\ Flow(p, Response)' = Flow(p, Response)
    BY <1>1, <1>10, <2>1, ResponseStep
  <2>3. /\ Open' <=> m = "chunks"
        /\ Rest' = IF m = "chunks" THEN Len(Flow(p, Response)) ELSE IF m = "sent" THEN p'.need[Response] ELSE 0
    BY <2>1, <2>2, AnswersRestAfter
  <2>4. Rest' = Rest /\ (Open <=> Open')
    BY <1>4, <1>5, <1>10, <2>3
  <2> QED
    BY <1>1, <1>2, <1>8, <1>10, <2>1, <2>4, ResponseAnswers
<1>11. CASE r.len = 0 /\ ~ r.chunked /\ (Skip(Response, "done") \/ Do(Response, "WRITE", 1, "done"))
  BY <1>8, <1>9, <1>10, <1>11
<1>12. CASE r.len > 0 /\ ~ r.chunked /\ Do(Response, "FORWARD", r.len, "sent")
  <2>1. p'.op[Response] = "FORWARD" /\ p'.inside[Response] /\ p'.need[Response] = r.len
    BY <1>1, <1>8, <1>9, <1>12, OperationStep, Pipe
  <2> QED
    BY <1>8, <1>9, <1>10, <1>12, <2>1
<1>13. CASE r.chunked /\ Skip(Response, "chunks")
  BY <1>10, <1>13
<1> QED
  BY <1>7, <1>11, <1>12, <1>13

\* The entity was sent back.
LEMMA ResponseSentKept ==
  ASSUME HttpInv, ResponseSent
  PROVE  HttpInv'
<1>1. At(Response, "sent") /\ UNCHANGED << asked, taken, request, size, answered >>
  BY DEF ResponseSent, hvars
<1>2. pc[Response] = "sent" /\ p.need[Response] = 0 /\ "sent" \in Answers /\ "done" \in Answers
  BY <1>1, ResponseAt DEF Answers
<1>3. Skip(Response, "done")
  BY <1>2 DEF ResponseSent
<1>4. pc'[Response] = "done" /\ Flow(p, Response)' = Flow(p, Response)
  BY <1>1, <1>3, ResponseStep
<1>5. Rest' = Rest /\ (Open <=> Open')
  BY <1>2, <1>4, AnswersRest, AnswersRestAfter
<1>6. size' \in 0 .. BufLen
  BY <1>1 DEF HttpInv, TypeInv
<1> QED
  BY <1>1, <1>2, <1>3, <1>5, <1>6, ResponseAnswers

\* A chunk is read when there is one; at the hup the entity ends.
LEMMA ResponseHupKept ==
  ASSUME HttpInv, At(Response, "chunks"), Pollhup(p, Response), Readhup(Response), Goto(Response, "lastchunk"),
         UNCHANGED << error, asked, taken, request, size, answered >>
  PROVE  HttpInv'
<1>1. /\ phase = "execute" /\ p.running = Response /\ p.status[Response] = "RUN" /\ ~ p.inside[Response]
      /\ pc[Response] = "chunks" /\ Place(p, "chunks", Response) /\ QueueInv /\ pc[Request] # "start"
  BY BetweenPlace, Pipe DEF HttpInv
<1>2. /\ Orderly /\ SameFlows(p, p')
      /\ \A x \in Threads \ {Response} : /\ Undisturbed(p, p', x)
                                         /\ p'.status[x] = p.status[x] \/ p'.run_enq[x]
                                         /\ p.run_enq[x] => p'.run_enq[x]
                                         /\ p.blocked_enq[x] => p'.blocked_enq[x]
      /\ \A x \in Threads : p.closed[x] => p'.closed[x]
      /\ p'.running = p.running
      /\ ~ p'.tx[Request].eof /\ p'.tx[Response].eof = p.tx[Response].eof
      /\ p'.op[Response] = p.op[Response] /\ p'.need[Response] = p.need[Response]
      /\ p'.inside[Response] = p.inside[Response] /\ p'.status[Response] = "RUN"
  BY <1>1, Pipe, ReadhupTurn
<1>3. phase' = phase
  BY DEF Readhup
<1>4. Steps(Response)
  BY <1>1, <1>2, <1>3 DEF Steps, Undisturbed
<1>5. DOMAIN pc' = Threads /\ pc'[Response] = "lastchunk" /\ pc'[Request] = pc[Request]
      /\ \A x \in Threads \ {Response} : pc'[x] = pc[x]
  BY GotoGoes, Pipe
<1>6. Place(p', "lastchunk", Response)
  BY <1>1, <1>2 DEF Place
<1>7. ControlInv'
  BY <1>1, <1>4, <1>5, <1>6, Pipe, StepControl DEF HttpInv
<1>8. Stays(p, p', Request) /\ (p.inside[Request] \/ pc[Request] = "called")
  BY <1>2, Pipe, ResponseAt DEF Undisturbed
<1>9. "chunks" \in Answers /\ "lastchunk" \in Answers /\ "lastchunk" # "headed"
  BY DEF Answers
<1>10. /\ taken = << answered >> /\ answered > 0 /\ answered \in 1 .. Asked /\ answered \in Nat
       /\ ~ error[Response] /\ ~ p.tx[Response].eof
  BY <1>9, ResponseAt
<1>11. /\ Flow(p, Response) = << >> /\ Flow(p', Response) = Flow(p, Response) /\ p.tx[Request].eof
  <2>1. p.rx[Response].data = << >> /\ p.tx[Request].data = << >> /\ p.tx[Request].eof
    BY Pipe DEF Pollhup
  <2>2. Flow(p, Response) = << >> \o << >>
    BY <2>1, Pipe DEF Flow
  <2>3. << >> \o << >> = << >>
    OBVIOUS
  <2> QED
    BY <1>2, <2>1, <2>2, <2>3, Pipe DEF SameFlows
<1>12. Flow(p, Response)' = Flow(p, Response)
  BY <1>11 DEF Flow
<1>13. pc[Request] = "trailer" /\ p.inside[Request] /\ p'.inside[Request]
  BY <1>8, <1>11 DEF HttpInv, ChunkInv, Stays
<1>14. Cur = answered /\ Open /\ Rest = 0
  <2>1. Len(Flow(p, Response)) = 0
    BY <1>11
  <2> QED
    BY <1>1, <1>9, <2>1, AnswersRest
<1>15. Cur' = answered /\ ~ Open' /\ Rest' = 0
  <2>1. Cur' = answered
    BY <1>5 DEF Cur
  <2>2. (Open' <=> "lastchunk" \in {"chunks", "polled", "chunkhead", "chunkbody"})
        /\ Rest' = IF "lastchunk" \in {"chunks", "polled", "chunkhead", "chunkbody"} THEN Len(Flow(p, Response))
                   ELSE IF "lastchunk" = "sent" THEN p'.need[Response] ELSE 0
    BY <1>5, <1>9, <1>12, AnswersRestAfter
  <2> QED
    BY <2>1, <2>2
<1>16. Asked' = Asked /\ Given' = Given /\ Owed' = Owed /\ Lacks' = Lacks /\ (Handing <=> Handing')
  <2>1. error'[Request] = error[Request]
    OBVIOUS
  <2> QED
    BY <1>5, <1>8, <2>1, RequestSame
<1>17. FlowInv'
  <2>1. Cur <= Given /\ Ordered(asked, Flow(p, Response), Rest, Cur, Given, Lacks)
    BY Counts
  <2>2. Ordered(asked', Flow(p, Response)', Rest', Cur', Given', Lacks')
    BY <1>12, <1>14, <1>15, <1>16, <2>1
  <2> QED
    BY <1>14, <1>15, <1>16, <2>1, <2>2 DEF FlowInv
<1>18. Given = Asked /\ Given' = Asked
  <2>1. Place(p, pc[Request], Request)
    BY Pipe DEF HttpInv, ControlInv, PlaceInv
  <2>2. ~ Handing
    BY <1>13, <2>1, Pipe DEF Place, After, Handing
  <2> QED
    BY <1>16, <2>2 DEF Given
<1>19. Cur = Asked
  <2>1. /\ Cur \in Nat /\ Given \in Nat /\ Cur <= Given
        /\ Ordered(asked, Flow(p, Response), 0, Cur, Given, Lacks)
    BY <1>14, Counts
  <2>2. Cur = Given
    <3> DEFINE q == Flow(p, Response)
    <3>1. q \in Seq(Byte) /\ Len(q) <= 0 /\ 0 \in Nat
      BY <1>11
    <3> HIDE DEF q
    <3>2. Ordered(asked, q, 0, Cur, Given, Lacks)
      BY <2>1 DEF q
    <3> QED
      BY <2>1, <3>1, <3>2, OrderedEmpty
  <2> QED
    BY <1>18, <2>2
<1>20. ChunkInv'
  <2>1. ~ Chunking'
    BY <1>2, <1>5, <1>13 DEF Chunking
  <2>2. \A i \in Cur' + 1 .. Given' - 1 : ~ asked'[i].chunked
    <3> DEFINE c == Cur'
               s == Given'
    <3>1. c = s /\ s \in Nat
      BY <1>10, <1>14, <1>15, <1>18, <1>19
    <3> HIDE DEF c, s
    <3>2. c + 1 .. s - 1 = {}
      BY <3>1
    <3> QED
      BY <3>2 DEF c, s
  <2> QED
    BY <1>2, <1>14, <1>15, <1>18, <1>19, <2>1, <2>2 DEF ChunkInv
<1>21. AnswerInv'
  BY <1>2, <1>5, <1>10 DEF AnswerInv, Answers
<1>22. EndInv'
  BY <1>5 DEF EndInv
<1>23. NapInv'
  BY <1>2 DEF NapInv, Naps
<1>24. taken' \in Seq(Byte) /\ size' \in 0 .. BufLen /\ answered' \in Nat
  BY DEF HttpInv, TypeInv
<1> QED
  BY <1>5, <1>7, <1>8, <1>17, <1>20, <1>21, <1>22, <1>23, <1>24, ResponseRest

LEMMA ResponseChunksKept ==
  ASSUME HttpInv, ResponseChunks
  PROVE  HttpInv'
<1>1. UNCHANGED << asked, taken, request, size, answered >>
  BY DEF ResponseChunks, hvars
<1>2. size' \in 0 .. BufLen /\ 1 \in 0 .. MaxLen
  BY <1>1, BufLenAssumption DEF HttpInv, TypeInv
<1>3. /\ {"chunks", "polled", "lastchunk", "done"} \subseteq Answers /\ {"POLLREAD", "WRITE"} \subseteq Ops \ {"HUP"}
      /\ "polled" \in After(Response, "POLLREAD") /\ "done" \in After(Response, "WRITE")
  BY Pipe DEF Answers, Ops, After
<1>4. CASE At(Response, "chunks") /\ Do(Response, "POLLREAD", 1, "polled")
  <2>1. pc[Response] = "chunks"
    BY <1>4 DEF At
  <2>2. pc'[Response] = "polled" /\ Flow(p, Response)' = Flow(p, Response)
    BY <1>2, <1>3, <1>4, ResponseStep
  <2>3. Rest' = Rest /\ (Open <=> Open')
    BY <1>3, <2>1, <2>2, AnswersRest, AnswersRestAfter
  <2> QED
    BY <1>1, <1>2, <1>3, <1>4, <2>3, ResponseAnswers
<1>5. CASE At(Response, "lastchunk") /\ Do(Response, "WRITE", 1, "done")
  <2>1. pc[Response] = "lastchunk"
    BY <1>5 DEF At
  <2>2. pc'[Response] = "done" /\ Flow(p, Response)' = Flow(p, Response)
    BY <1>2, <1>3, <1>5, ResponseStep
  <2>3. Rest' = Rest /\ (Open <=> Open')
    BY <1>3, <2>1, <2>2, AnswersRest, AnswersRestAfter
  <2> QED
    BY <1>1, <1>2, <1>3, <1>5, <2>3, ResponseAnswers
<1>6. CASE At(Response, "chunks") /\ Pollhup(p, Response) /\ Readhup(Response) /\ Goto(Response, "lastchunk")
           /\ UNCHANGED error
  BY <1>1, <1>6, ResponseHupKept
<1> QED
  BY <1>4, <1>5, <1>6 DEF ResponseChunks

\* The size of a chunk is what the response's ring holds.
LEMMA ResponsePolledKept ==
  ASSUME HttpInv, ResponsePolled
  PROVE  HttpInv'
<1>1. /\ At(Response, "polled") /\ UNCHANGED << asked, taken, request, answered >>
      /\ size' = Len(p.rx[Response].data)
      /\ Skip(Response, "chunks") \/ Do(Response, "WRITE", 1, "chunkhead")
  BY DEF ResponsePolled
<1>2. pc[Response] = "polled" /\ QueueInv
  BY <1>1, ResponseAt
<1>3. size' \in 0 .. BufLen /\ size' <= Len(Flow(p, Response)) /\ 1 \in 0 .. MaxLen
  <2>1. /\ p.rx[Response].data \in Seq(Byte) /\ p.tx[Request].data \in Seq(Byte)
        /\ Len(p.rx[Response].data) <= BufLen
    BY <1>2, Kinds, Pipe
  <2>2. Flow(p, Response) = p.rx[Response].data \o p.tx[Request].data
    BY Pipe DEF Flow
  <2>3. /\ Len(Flow(p, Response)) = Len(p.rx[Response].data) + Len(p.tx[Request].data)
        /\ Len(p.rx[Response].data) \in Nat /\ Len(p.tx[Request].data) \in Nat
    BY <2>1, <2>2, Joined
  <2> DEFINE a == Len(p.rx[Response].data)
             b == Len(p.tx[Request].data)
             c == Len(Flow(p, Response))
  <2>4. a \in Nat /\ b \in Nat /\ c = a + b /\ a <= BufLen /\ size' = a
    BY <1>1, <2>1, <2>3
  <2> HIDE DEF a, b, c
  <2>5. size' \in 0 .. BufLen /\ size' <= c /\ 1 \in 0 .. MaxLen
    BY <2>4, BufLenAssumption
  <2> QED
    BY <2>5 DEF c
<1>4. /\ {"chunks", "polled", "chunkhead"} \subseteq Answers /\ "WRITE" \in Ops \ {"HUP"}
      /\ "chunkhead" \in After(Response, "WRITE")
  BY Pipe DEF Answers, Ops, After
<1>5. ASSUME NEW m \in {"chunks", "chunkhead"},
             \/ Skip(Response, m)
             \/ \E o \in Ops \ {"HUP"}, n \in 0 .. MaxLen :
                  m \in After(Response, o) /\ (o = "TX_CLOSE" => n # 0) /\ Do(Response, o, n, m)
      PROVE  HttpInv'
  <2>1. m \in Answers /\ m # "headed" /\ m # "start"
    BY <1>4
  <2>2. pc'[Response] = m /\ Flow(p, Response)' = Flow(p, Response)
    BY <1>1, <1>5, <2>1, ResponseStep
  <2>3. Rest' = Rest /\ (Open <=> Open')
    BY <1>2, <1>4, <2>1, <2>2, AnswersRest, AnswersRestAfter
  <2> QED
    BY <1>1, <1>3, <1>4, <1>5, <2>1, <2>3, ResponseAnswers
<1> QED
  BY <1>1, <1>3, <1>4, <1>5

\* A chunk was announced, or sent.
LEMMA ResponseChunkKept ==
  ASSUME HttpInv, ResponseChunk
  PROVE  HttpInv'
<1>1. UNCHANGED << asked, taken, request, size, answered >>
  BY DEF ResponseChunk, hvars
<1>2. size \in 0 .. BufLen /\ size' \in 0 .. BufLen /\ size \in 0 .. MaxLen /\ 1 \in 0 .. MaxLen
  <2>1. size \in 0 .. BufLen
    BY DEF HttpInv, TypeInv
  <2> QED
    BY <1>1, <2>1, BufLenAssumption, HttpAssumption
<1>3. /\ {"chunks", "chunkhead", "chunkbody"} \subseteq Answers /\ {"FORWARD", "WRITE"} \subseteq Ops \ {"HUP"}
      /\ "chunkbody" \in After(Response, "FORWARD") /\ "chunks" \in After(Response, "WRITE")
  BY Pipe DEF Answers, Ops, After
<1>4. CASE At(Response, "chunkhead") /\ Do(Response, "FORWARD", size, "chunkbody")
  <2>1. pc[Response] = "chunkhead"
    BY <1>4 DEF At
  <2>2. pc'[Response] = "chunkbody" /\ Flow(p, Response)' = Flow(p, Response)
    BY <1>2, <1>3, <1>4, ResponseStep
  <2>3. Rest' = Rest /\ (Open <=> Open')
    BY <1>3, <2>1, <2>2, AnswersRest, AnswersRestAfter
  <2>4. p'.op[Response] = "FORWARD" /\ p'.inside[Response] /\ p'.need[Response] = size
    BY <1>2, <1>3, <1>4, OperationStep, Pipe
  <2>5. size <= Len(Flow(p, Response))
    BY <2>1 DEF HttpInv, AnswerInv
  <2> QED
    BY <1>1, <1>2, <1>3, <1>4, <2>3, <2>4, <2>5, ResponseAnswers
<1>5. CASE At(Response, "chunkbody") /\ Do(Response, "WRITE", 1, "chunks")
  <2>1. pc[Response] = "chunkbody"
    BY <1>5 DEF At
  <2>2. pc'[Response] = "chunks" /\ Flow(p, Response)' = Flow(p, Response)
    BY <1>2, <1>3, <1>5, ResponseStep
  <2>3. Rest' = Rest /\ (Open <=> Open')
    BY <1>3, <2>1, <2>2, AnswersRest, AnswersRestAfter
  <2> QED
    BY <1>1, <1>2, <1>3, <1>5, <2>3, ResponseAnswers
<1>6. At(Response, "chunkbody") => p.need[Response] = 0
  BY ResponseAt
<1> QED
  BY <1>4, <1>5, <1>6 DEF ResponseChunk

\* The request was answered: the next is read, or the reply flushed and the
\* descriptor closed.
LEMMA ResponseDoneKept ==
  ASSUME HttpInv, ResponseDone
  PROVE  HttpInv'
<1>1. UNCHANGED << asked, taken, request, size, answered >>
  BY DEF ResponseDone, hvars
<1>2. size' \in 0 .. BufLen /\ taken' \in Seq(Byte) /\ answered' \in Nat /\ 0 \in 0 .. MaxLen /\ 1 \in 0 .. MaxLen
  BY <1>1, BufLenAssumption DEF HttpInv, TypeInv
<1>3. /\ {"done", "flushed", "end"} \subseteq Answers /\ {"FLUSH", "TX_CLOSE"} \subseteq Ops \ {"HUP"}
      /\ "flushed" \in After(Response, "FLUSH") /\ "end" \in After(Response, "TX_CLOSE")
  BY Pipe DEF Answers, Ops, After
<1>4. CASE At(Response, "done") /\ ~ Answering.close /\ Skip(Response, "read")
  <2>1. /\ pc[Response] = "done" /\ taken = << answered >> /\ answered > 0 /\ answered \in Nat
    BY <1>3, <1>4, ResponseAt
  <2>2. ~ asked[answered].close
    <3>1. taken[1] = answered
      BY <2>1
    <3> QED
      BY <1>4, <3>1 DEF Answering
  <2>3. /\ GoesTo(Response, "read") /\ p'.status[Response] = "RUN" /\ error' = error
        /\ pc'[Response] = "read" /\ Flow(p, Response)' = Flow(p, Response)
        /\ ~ error'[Response] /\ ~ p'.tx[Response].eof
    BY <1>4, ResponseStep
  <2>4. Cur' = Cur /\ Rest' = Rest /\ (Open <=> Open')
    <3>1. Cur = answered /\ ~ Open /\ Rest = 0
      BY <1>3, <2>1, AnswersRest
    <3>2. Cur' = answered /\ ~ Met'
      BY <1>1, <2>3 DEF Cur, Met
    <3>3. ~ Open' /\ Rest' = 0
      BY <2>3, <3>2 DEF Open, Rest
    <3> QED
      BY <3>1, <3>2, <3>3
  <2>5. AnswerInv'
    BY <2>3 DEF AnswerInv, Answers
  <2>6. EndInv'
    BY <1>1, <2>2, <2>3 DEF EndInv
  <2> QED
    BY <1>1, <1>2, <1>4, <2>3, <2>4, <2>5, <2>6, ResponseGoes
<1>5. CASE At(Response, "done") /\ Answering.close /\ Do(Response, "FLUSH", 0, "flushed")
  <2>1. /\ pc[Response] = "done" /\ taken = << answered >>
    BY <1>3, <1>5, ResponseAt
  <2>2. asked[answered].close
    <3>1. taken[1] = answered
      BY <2>1
    <3> QED
      BY <1>5, <3>1 DEF Answering
  <2>3. pc'[Response] = "flushed" /\ Flow(p, Response)' = Flow(p, Response)
    BY <1>2, <1>3, <1>5, ResponseStep
  <2>4. Rest' = Rest /\ (Open <=> Open')
    BY <1>3, <2>1, <2>3, AnswersRest, AnswersRestAfter
  <2>5. p'.inside[Response]
    BY <1>2, <1>3, <1>5, OperationStep, Pipe
  <2>6. EndInv'
    BY <1>1, <2>2, <2>3, <2>5 DEF EndInv
  <2> QED
    BY <1>1, <1>2, <1>3, <1>5, <2>4, <2>6, ResponseAnswers
<1>6. CASE At(Response, "flushed") /\ Do(Response, "TX_CLOSE", 1, "end")
  <2>1. pc[Response] = "flushed" /\ ~ p.inside[Response]
    BY <1>6, ResponseAt
  <2>2. asked[answered].close /\ p.tx[Response].data = << >>
    <3>1. EndInv
      BY DEF HttpInv
    <3> QED
      BY <2>1, <3>1 DEF EndInv
  <2>3. pc'[Response] = "end" /\ Flow(p, Response)' = Flow(p, Response) /\ p'.tx = p.tx
    <3>1. \E o \in Ops \ {"HUP"}, n \in 0 .. MaxLen :
            "end" \in After(Response, o) /\ (o = "TX_CLOSE" => n # 0) /\ Do(Response, o, n, "end")
      BY <1>2, <1>3, <1>6
    <3> QED
      BY <1>6, <3>1, ResponseStep
  <2>4. Rest' = Rest /\ (Open <=> Open')
    BY <1>3, <2>1, <2>3, AnswersRest, AnswersRestAfter
  <2>5. p'.inside[Response] /\ p'.op[Response] = "TX_CLOSE" /\ p'.need[Response] = 1
    BY <1>2, <1>3, <1>6, OperationStep, Pipe
  <2>6. EndInv'
    BY <1>1, <2>2, <2>3, <2>5 DEF EndInv
  <2> QED
    BY <1>1, <1>2, <1>3, <1>6, <2>4, <2>6, ResponseAnswers
<1>7. ~ At(Response, "sorry") /\ ~ At(Response, "page")
  <2>1. "sorry" \notin {"start", "read", "got"} \cup Answers /\ "page" \notin {"start", "read", "got"} \cup Answers
    BY DEF Answers
  <2> QED
    BY <2>1, ResponseAt
<1>8. \A s \in LastSteps : At(Response, s[1]) /\ Do(Response, s[2], s[3], s[4]) =>
        \/ At(Response, "sorry") \/ At(Response, "page")
        \/ At(Response, "flushed") /\ Do(Response, "TX_CLOSE", 1, "end")
  BY DEF LastSteps
<1> QED
  BY <1>4, <1>5, <1>6, <1>7, <1>8 DEF ResponseDone

----------------------------------------------------------------------------
(* The theorems *)

LEMMA HttpInitKeeps ==
  ASSUME HttpInit
  PROVE  HttpInv
<1>1. /\ Starts(<< Request >>) /\ pc = [t \in Threads |-> "start"] /\ error = [t \in Threads |-> FALSE]
      /\ asked = << >> /\ taken = << >> /\ request = NoRequest /\ size = 0 /\ answered = 0
  BY DEF HttpInit, ResponderInit
<1>2. /\ << Request >> \in Seq(Threads) /\ << Request >> # << >> /\ DOMAIN << Request >> = {1}
      /\ << Request >>[1] = Request
  BY Pipe
<1>3. /\ QueueInv /\ SleepInv(p, {}) /\ p.run_q = << Request >> /\ p.running = NoThread /\ phase = "execute"
      /\ \A t \in Threads :
           /\ p.status[t] = "RUN" /\ p.op[t] = "NONE" /\ p.need[t] = 0 /\ ~ p.inside[t]
           /\ p.rx[t].data = << >> /\ p.tx[t].data = << >> /\ ~ p.tx[t].eof
           /\ p.run_enq[t] <=> t = Request
  <2>1. \A i, j \in DOMAIN << Request >> : << Request >>[i] = << Request >>[j] => i = j
    BY <1>2
  <2>2. \A t \in Threads : (\E i \in DOMAIN << Request >> : << Request >>[i] = t) <=> t = Request
    BY <1>2
  <2> DEFINE q == << Request >>
  <2>3. q \in Seq(Threads) /\ q # << >> /\ (\A i, j \in DOMAIN q : q[i] = q[j] => i = j) /\ Starts(q)
    BY <1>1, <1>2, <2>1
  <2>4. \A t \in Threads : (\E i \in DOMAIN q : q[i] = t) <=> t = Request
    BY <2>2
  <2> HIDE DEF q
  <2>5. /\ QueueInv /\ SleepInv(p, {}) /\ p.run_q = q /\ p.running = NoThread /\ phase = "execute"
        /\ \A t \in Threads :
             /\ p.status[t] = "RUN" /\ p.op[t] = "NONE" /\ p.need[t] = 0 /\ ~ p.inside[t]
             /\ p.rx[t].data = << >> /\ p.tx[t].data = << >> /\ ~ p.tx[t].eof
             /\ p.run_enq[t] <=> \E i \in DOMAIN q : q[i] = t
    BY <2>3, StartKeeps
  <2> QED
    BY <2>4, <2>5 DEF q
<1>4. \A t \in Threads : pc[t] = "start" /\ ~ error[t]
  BY <1>1
<1>5. PlaceInv
  BY <1>3 DEF PlaceInv, Place
<1>6. StartInv /\ RunInv /\ PhaseInv
  BY <1>3, <1>4, Pipe DEF StartInv, RunInv, PhaseInv, Idle
<1>7. Asked = 0 /\ Len(taken) = 0
  BY <1>1 DEF Asked
<1>8. TypeInv
  <2>1. asked \in Seq(Requests) /\ taken \in Seq(Byte)
    BY <1>1
  <2>2. DOMAIN pc = Threads /\ error \in [Threads -> BOOLEAN]
    BY <1>1
  <2>3. request \in Described
    BY <1>1, HttpAssumption DEF NoRequest, Described
  <2>4. answered \in Nat /\ size \in 0 .. BufLen
    BY <1>1, BufLenAssumption
  <2> QED
    BY <2>1, <2>2, <2>3, <2>4 DEF TypeInv
<1>9. AskInv /\ FlushInv
  BY <1>3, <1>4, <1>7, Pipe DEF AskInv, FlushInv, Asking, Handing
<1>10. Given = 0 /\ Cur = 0 /\ ~ Met /\ ~ Open /\ Rest = 0 /\ ~ Handing /\ ~ Chunking /\ Owed = 0 /\ Lacks = {0}
  <2>1. ~ Handing /\ Given = 0
    BY <1>3, <1>7, Pipe DEF Handing, Given
  <2>2. Cur = 0 /\ ~ Met
    BY <1>1, <1>4, Pipe DEF Cur, Met
  <2>3. ~ Open /\ Rest = 0
    BY <1>4, <2>2, Pipe DEF Open, Rest
  <2>4. ~ Chunking /\ Owed = 0
    BY <1>4, Pipe DEF Chunking, Owed
  <2>5. Lacks = {0}
    BY <1>4, <2>4, Pipe DEF Lacks
  <2> QED
    BY <2>1, <2>2, <2>3, <2>4, <2>5
<1>11. FlowInv
  <2>1. Flow(p, Response) = << >> \o << >>
    BY <1>3, Pipe DEF Flow
  <2>2. Flow(p, Response) = << >>
    BY <2>1
  <2> DEFINE q == Flow(p, Response)
  <2>3. Len(q) = 0 /\ 1 .. Len(q) = {}
    BY <2>2
  <2> HIDE DEF q
  <2>4. Follows(q, 0, 0, 0, 0, {0})
    BY <2>3 DEF Follows
  <2>5. Ordered(asked, q, 0, 0, 0, {0})
    BY <2>3, <2>4 DEF Ordered
  <2> QED
    BY <1>10, <2>5 DEF FlowInv, q
<1>12. ChunkInv
  <2>1. \A i \in 0 + 1 .. 0 - 1 : ~ asked[i].chunked
    OBVIOUS
  <2>2. \A i \in Cur + 1 .. Given - 1 : ~ asked[i].chunked
    BY <1>10, <2>1
  <2> QED
    BY <1>3, <1>10, <2>2, Pipe DEF ChunkInv
<1>13. AnswerInv
  BY <1>1, <1>3, <1>4, Pipe DEF AnswerInv, Answers
<1>14. EndInv
  BY <1>1, <1>4, Pipe DEF EndInv
<1>15. NapInv
  BY <1>3, Pipe DEF NapInv, Naps
<1> QED
  BY <1>3, <1>5, <1>6, <1>8, <1>9, <1>11, <1>12, <1>13, <1>14, <1>15 DEF HttpInv, ControlInv

LEMMA HttpNextKeeps ==
  ASSUME HttpInv, [HttpNext]_all
  PROVE  HttpInv'
<1>1. CASE UNCHANGED all
  <2>1. /\ UNCHANGED << p, phase, retry, ended, msg, pc, error, asked, taken >>
        /\ UNCHANGED << svars, hvars >>
    BY <1>1 DEF all, vars, svars, hvars
  <2>2. ControlInv'
    BY <2>1 DEF HttpInv, ControlInv, QueueInv, PlaceInv, StartInv, RunInv, PhaseInv, Idle
  <2> QED
    BY <2>1, <2>2, StandKept
<1>2. CASE HttpNext
  BY <1>2, AroundKept, CommonKept, ForwardsKept, RespondKept,
     RequestReadsKept, RequestMethodKept, RequestFieldKept, RequestWriteKept, RequestEntityKept,
     RequestBodyKept, RequestChunkheadKept, RequestLinesKept, RequestHupKept, RequestPrefaceKept,
     RequestNextKept, ResponseReadKept, ResponseGotKept, ResponseHeadedKept, ResponseSentKept,
     ResponseChunksKept, ResponsePolledKept, ResponseChunkKept, ResponseDoneKept DEF HttpNext
<1> QED
  BY <1>1, <1>2

\* The control and the pipe stay in order, with rings, entities and chunks of
\* any size, whatever the client asks and however it is fragmented.
THEOREM HttpInvariant == HttpSpec => []HttpInv
<1>1. HttpInit => HttpInv
  BY HttpInitKeeps
<1>2. HttpInv /\ [HttpNext]_all => HttpInv'
  BY HttpNextKeeps
<1> QED
  BY <1>1, <1>2, PTL DEF HttpSpec

\* Both coroutines agree where each request's entity ends.
THEOREM HttpFramingAgrees == HttpSpec => []FramingAgrees
<1>1. ASSUME HttpInv PROVE FramingAgrees
  <2> DEFINE q == Flow(p, Response)
  <2>1. q = Stream
    BY Pipe DEF Flow, Stream
  <2>2. /\ q \in Seq(Byte) /\ Len(q) \in Nat /\ Rest \in Nat /\ Cur \in Nat /\ Given \in Nat /\ Cur <= Given
        /\ answered \in Nat /\ Ordered(asked, q, Rest, Cur, Given, Lacks)
    BY <1>1, Counts
  <2>3. QueueInv /\ AnswerInv /\ Place(p, pc[Response], Response)
    BY <1>1, Pipe DEF HttpInv, ControlInv, PlaceInv
  <2>4. Follows(q, 0, Rest, Cur, Given, Lacks)
    BY <2>2 DEF Ordered
  <2> HIDE DEF q
  <2>5. ASSUME pc[Response] \in {"start", "read", "got"}, q # << >>, taken = << >>
        PROVE  q[1] = answered + 1
    <3>1. Len(q) > 0
      BY <2>2, <2>5
    <3>2. Len(taken) = 0
      BY <2>5
    <3>3. Cur = answered /\ ~ Met
      BY <2>2, <2>5, <3>2 DEF Cur, Met
    <3>4. Rest = 0
      BY <2>5, <3>3 DEF Open, Rest
    <3> QED
      BY <2>2, <2>4, <3>1, <3>3, <3>4 DEF Follows
  <2>6. At(Response, "got") /\ p.need[Response] = 0 => taken = << answered + 1 >>
    BY <2>3 DEF AnswerInv, At
  <2>7. ASSUME p.op[Response] = "FORWARD", p.inside[Response],
               NEW i \in 1 .. Smaller(p.need[Response], Len(q))
        PROVE  q[i] = - answered
    <3>1. pc[Response] \in {"sent", "chunkbody"}
      BY <2>3, <2>7, Pipe DEF Place, After
    <3>2. pc[Response] \in Answers /\ pc[Response] # "headed"
      BY <3>1 DEF Answers
    <3>3. /\ Cur = answered
          /\ pc[Response] = "sent" => Rest = p.need[Response]
          /\ pc[Response] = "chunkbody" => Rest = Len(q)
      BY <1>1, <3>2, AnswersRest DEF q
    <3>4. i \in 1 .. Len(q) /\ i <= p.need[Response] /\ 0 < i
      <4>1. p.need[Response] \in Nat
        BY <2>3, Kinds, Pipe
      <4> QED
        BY <2>2, <2>7, <4>1 DEF Smaller
    <3>5. i <= 0 + Rest
      BY <2>2, <3>1, <3>3, <3>4
    <3> QED
      BY <2>4, <3>3, <3>4, <3>5 DEF Follows
  <2> QED
    BY <2>1, <2>5, <2>6, <2>7 DEF FramingAgrees
<1> QED
  BY <1>1, HttpInvariant, PTL

\* The response never raises.
THEOREM HttpResponderNeverRaises == HttpSpec => []ResponderNeverRaises
<1>1. HttpInv => ResponderNeverRaises
  BY DEF HttpInv, AnswerInv, ResponderNeverRaises
<1> QED
  BY <1>1, HttpInvariant, PTL

\* Where the response may be when nothing runs and it is not polled for: at
\* its end, or asleep on the pipe.
LEMMA IdleResponse ==
  ASSUME HttpInv, Idle, ~ p.blocked_enq[Response]
  PROVE  \/ p.status[Response] = "END" /\ pc[Response] = "end" /\ ~ p.inside[Response]
         \/ /\ Naps(p) /\ p.inside[Response] /\ pc[Response] \in After(Response, p.op[Response])
            /\ p.op[Response] = "READ" => p.need[Response] # 0 /\ taken = << >>
<1>0. /\ Good(p) /\ phase # "execute" /\ p.running = NoThread /\ p.run_q = << >> /\ WakeInv(p, {})
      /\ Place(p, pc[Response], Response)
  BY Pipe DEF Idle, HttpInv, ControlInv, QueueInv, PhaseInv, PlaceInv, SleepInv
<1>1. \A t \in Threads : ~ p.run_enq[t] /\ p.running # t
  BY <1>0, QueuedMarks, Pipe
<1>2. pc[Request] # "start"
  BY <1>0 DEF HttpInv, ControlInv, StartInv
<1>3. p.status[Response] \in {"RUN", "WAIT", "ERR", "END"}
  BY <1>0, Pipe DEF Good, IsProcess
<1>4. p.status[Response] \in {"WAIT", "END"}
  BY <1>1, <1>2, <1>3, Pipe DEF HttpInv, ControlInv, RunInv
<1>5. CASE p.status[Response] = "END"
  BY <1>0, <1>5, Pipe DEF Place, Last
<1>6. CASE p.status[Response] = "WAIT"
  <2>1. /\ p.inside[Response] /\ p.op[Response] # "TX_CLOSE"
        /\ pc[Response] \in After(Response, p.op[Response])
    BY <1>0, <1>6 DEF Place
  <2>2. p.op[Response] \in {"READ", "POLLREAD", "FORWARD", "WRITE", "FLUSH"}
    BY <2>1, Pipe DEF After
  <2>3. p.op[Response] \notin {"WRITE", "FLUSH"}
    <3>1. Waits(p, Response)
      BY <1>0, Pipe DEF WakeInv
    <3> QED
      BY <1>6, <3>1, Pipe DEF Waits, Sleeps, Writing
  <2>4. Naps(p)
    BY <1>6, <2>2, <2>3 DEF Naps
  <2>5. ASSUME p.op[Response] = "READ" PROVE p.need[Response] # 0 /\ taken = << >>
    <3>1. p.need[Response] # 0
      BY <2>4, <2>5 DEF HttpInv, NapInv
    <3>2. pc[Response] = "got"
      BY <2>1, <2>5, Pipe DEF After
    <3>3. AnswerInv
      BY DEF HttpInv
    <3> QED
      BY <3>1, <3>2, <3>3 DEF AnswerInv
  <2> QED
    BY <2>1, <2>4, <2>5
<1> QED
  BY <1>4, <1>5, <1>6

\* When the process is idle and the response waits for nothing but its pipe,
\* every request that is due was answered and the replies have left the ring.
THEOREM HttpAnsweredWhenIdle == HttpSpec => []AnsweredWhenIdle
<1>1. ASSUME HttpInv PROVE AnsweredWhenIdle
  <2> SUFFICES ASSUME Idle, ~ p.blocked_enq[Response]
               PROVE  /\ \A i \in 1 .. Asked : Due(i) => i <= answered
                      /\ WaitsIn(Response, {"READ", "POLLREAD"}) => p.tx[Response].data = << >>
    BY DEF AnsweredWhenIdle
  <2>1. \/ p.status[Response] = "END" /\ pc[Response] = "end" /\ ~ p.inside[Response]
        \/ /\ Naps(p) /\ p.inside[Response] /\ pc[Response] \in After(Response, p.op[Response])
           /\ p.op[Response] = "READ" => p.need[Response] # 0 /\ taken = << >>
    BY <1>1, IdleResponse
  <2>2. /\ Asked \in Nat /\ Given \in Nat /\ Given <= Asked /\ Cur \in Nat /\ Cur <= Given /\ answered \in Nat
        /\ answered <= Cur
    BY <1>1, Counts
  <2>3. AskInv /\ FlushInv /\ ChunkInv /\ AnswerInv /\ EndInv /\ NapInv
    BY <1>1 DEF HttpInv
  <2>4. WaitsIn(Response, {"READ", "POLLREAD"}) => p.tx[Response].data = << >>
    <3>1. WaitsIn(Response, {"READ", "POLLREAD"}) => Naps(p)
      BY DEF WaitsIn, Naps
    <3> QED
      BY <2>3, <3>1 DEF NapInv
  <2>5. ASSUME NEW i \in 1 .. Asked, Due(i) PROVE i <= answered
    <3>1. CASE pc[Response] = "end"
      <4>1. answered > 0 /\ asked[answered].close
        BY <2>3, <3>1 DEF EndInv, AnswerInv, Answers
      <4>2. ~ (answered \in 1 .. Asked - 1)
        BY <2>3, <4>1 DEF AskInv
      <4> QED
        BY <2>2, <4>1, <4>2
    <3>2. CASE /\ Naps(p) /\ p.inside[Response] /\ pc[Response] \in After(Response, p.op[Response])
               /\ p.op[Response] = "READ" => p.need[Response] # 0 /\ taken = << >>
      <4>1. Cur = answered
        <5>1. ASSUME pc[Response] = "got" PROVE Cur = answered
          <6>1. p.op[Response] = "READ"
            BY <3>2, <5>1, Pipe DEF After, Naps
          <6>2. Len(taken) = 0
            BY <3>2, <6>1
          <6> QED
            BY <2>2, <5>1, <6>2 DEF Cur
        <5>2. ASSUME pc[Response] # "got" PROVE Cur = answered
          BY <5>2 DEF Cur
        <5> QED
          BY <5>1, <5>2
      <4> SUFFICES ASSUME i > Cur PROVE FALSE
        BY <2>2, <4>1
      <4>2. i \in Cur + 1 .. Asked
        BY <2>2
      <4>3. /\ asked[i].len = 0
            /\ i < Asked \/ (pc[Request] \in {"method", "field", "called"} /\ ~ error[Request])
        BY <2>5 DEF Due
      <4>4. \/ asked[i].chunked
            \/ i = Asked /\ (error[Request] \/ Given < Asked \/ p.tx[Request].data # << >>)
        <5>1. \/ asked[i].len > 0 \/ asked[i].chunked
              \/ i = Asked /\ (error[Request] \/ Given < Asked \/ p.tx[Request].data # << >>)
          BY <2>3, <3>2, <4>2 DEF NapInv
        <5> QED
          BY <4>3, <5>1
      <4>5. Place(p, pc[Request], Request)
        BY <1>1, Pipe DEF HttpInv, ControlInv, PlaceInv
      <4>6. Handing => pc[Request] = "entity" /\ ~ error[Request]
        <5>1. Handing => pc[Request] = "entity"
          BY <4>5, Pipe DEF Handing, Place, After
        <5>2. error[Request] => pc[Request] \in {"finally", "called"}
          BY <2>3 DEF AskInv
        <5> QED
          BY <5>1, <5>2
      <4>7. Given # Asked => Handing /\ Given = Asked - 1
        BY DEF Given
      <4>8. ASSUME pc[Request] \in {"method", "field", "called"}, ~ error[Request]
            PROVE  Given = Asked /\ p.tx[Request].data = << >> /\ ~ Chunking
        <5>1. Given = Asked
          BY <4>6, <4>7, <4>8
        <5>2. p.tx[Request].data = << >>
          BY <2>3, <4>8 DEF FlushInv, Asking
        <5> QED
          BY <4>8, <5>1, <5>2 DEF Chunking
      <4>9. asked[i].chunked
        <5>1. SUFFICES ASSUME i = Asked, error[Request] \/ Given < Asked \/ p.tx[Request].data # << >>
                       PROVE  FALSE
          BY <4>4
        <5>2. pc[Request] \in {"method", "field", "called"} /\ ~ error[Request]
          BY <2>2, <4>3, <5>1
        <5> QED
          BY <2>2, <4>8, <5>1, <5>2
      <4>10. ~ (i \in Cur + 1 .. Given - 1)
        BY <2>3, <4>9 DEF ChunkInv
      <4>11. i = Given \/ i = Asked
        BY <2>2, <4>2, <4>7, <4>10
      <4>12. i = Given /\ ~ Chunking /\ ~ error[Request]
        <5>1. CASE i < Asked
          <6>1. i = Given /\ Given # Asked /\ Handing
            BY <2>2, <4>7, <4>11, <5>1
          <6>2. pc[Request] = "entity" /\ ~ error[Request]
            BY <4>6, <6>1
          <6>3. ~ Chunking
            BY <6>1, <6>2 DEF Chunking
          <6> QED
            BY <6>1, <6>2, <6>3
        <5>2. CASE i = Asked
          <6>1. pc[Request] \in {"method", "field", "called"} /\ ~ error[Request]
            BY <2>2, <4>3, <5>2
          <6> QED
            BY <4>8, <5>2, <6>1
        <5> QED
          BY <2>2, <5>1, <5>2
      <4>13. Cur = Given
        BY <2>2, <2>3, <4>9, <4>12 DEF ChunkInv
      <4> QED
        BY <2>2, <4>12, <4>13
    <3> QED
      BY <2>1, <3>1, <3>2
  <2> QED
    BY <2>4, <2>5
<1> QED
  BY <1>1, HttpInvariant, PTL

\* A process that is gone after a request that asked for it has closed the
\* client's descriptor, on no reply still in the ring.
THEOREM HttpClosingIsClosed == HttpSpec => []ClosingIsClosed
<1>1. ASSUME HttpInv PROVE ClosingIsClosed
  <2> SUFFICES ASSUME phase = "freed", pc[Request] = "called", ~ error[Request], request.close
               PROVE  ClosedClean
    BY DEF ClosingIsClosed
  <2>1. Good(p) /\ Idle /\ p.blocked_q = << >>
    BY <1>1 DEF Idle, HttpInv, ControlInv, QueueInv, PhaseInv
  <2>2. ~ p.blocked_enq[Response]
    BY <2>1, QueuedMarks, Pipe
  <2>3. \/ p.status[Response] = "END" /\ pc[Response] = "end" /\ ~ p.inside[Response]
        \/ /\ Naps(p) /\ p.inside[Response] /\ pc[Response] \in After(Response, p.op[Response])
           /\ p.op[Response] = "READ" => p.need[Response] # 0 /\ taken = << >>
    BY <1>1, <2>1, <2>2, IdleResponse
  <2>4. AskInv /\ ChunkInv /\ AnswerInv /\ EndInv /\ NapInv /\ Place(p, "called", Request)
    BY <1>1, Pipe DEF HttpInv, ControlInv, PlaceInv
  <2>5. CASE pc[Response] = "end" /\ ~ p.inside[Response]
    BY <2>4, <2>5 DEF EndInv, ClosedClean
  <2>6. CASE /\ Naps(p) /\ p.inside[Response] /\ pc[Response] \in After(Response, p.op[Response])
             /\ p.op[Response] = "READ" => p.need[Response] # 0 /\ taken = << >>
    <3>1. Flow(p, Response) = << >> /\ (p.op[Response] \in {"READ", "FORWARD"} => p.need[Response] # 0)
      BY <2>4, <2>6 DEF NapInv
    <3>2. /\ Asked \in Nat /\ Given \in Nat /\ Cur \in Nat /\ Cur <= Given /\ Rest \in Nat /\ answered \in Nat
          /\ Ordered(asked, Flow(p, Response), Rest, Cur, Given, Lacks)
      BY <1>1, Counts
    <3>3. ~ Handing /\ Given = Asked /\ Owed = 0 /\ Lacks = {0} /\ ~ Chunking
      <4>1. ~ Handing
        BY <2>4, Pipe DEF Place, After, Handing
      <4>2. ~ p.tx[Request].eof
        BY <2>4 DEF ChunkInv
      <4> QED
        BY <4>1 DEF Given, Owed, Lacks, Chunking
    <3>4. Asked > 0 /\ asked[Asked].close
      BY <2>4 DEF AskInv, Asking
    <3>5. Cur = Given /\ Rest = 0
      <4> DEFINE q == Flow(p, Response)
      <4>1. q \in Seq(Byte) /\ Len(q) = 0
        BY <3>1
      <4>2. Ordered(asked, q, Rest, Cur, Given, Lacks)
        BY <3>2
      <4> HIDE DEF q
      <4>3. Len(q) <= Rest /\ Rest \in Nat /\ Cur \in Nat /\ Given \in Nat /\ Cur <= Given
        BY <3>2, <4>1
      <4>4. Cur = Given /\ Rest - Len(q) \in Lacks
        BY <4>1, <4>2, <4>3, OrderedEmpty
      <4> QED
        BY <3>2, <3>3, <4>1, <4>4
    <3>6. CASE p.op[Response] = "READ"
      <4>1. pc[Response] = "got" /\ Len(taken) = 0
        BY <2>6, <3>6, Pipe DEF After
      <4>2. Cur = answered
        BY <3>2, <4>1 DEF Cur
      <4>3. ~ asked[answered].close
        BY <2>4, <3>2, <3>3, <3>4, <3>5, <4>1, <4>2 DEF EndInv
      <4> QED
        BY <3>3, <3>4, <3>5, <4>2, <4>3
    <3>7. CASE p.op[Response] = "FORWARD"
      <4>1. pc[Response] \in {"sent", "chunkbody"}
        BY <2>6, <3>7, Pipe DEF After
      <4>2. CASE pc[Response] = "sent"
        <5>1. Rest = p.need[Response]
          BY <1>1, <4>2, AnswersRest DEF Answers
        <5> QED
          BY <3>1, <3>5, <3>7, <5>1
      <4>3. CASE pc[Response] = "chunkbody"
        <5>1. p.need[Response] <= Len(Flow(p, Response))
          BY <2>4, <4>3 DEF AnswerInv
        <5>2. p.need[Response] \in Nat
          BY <1>1, Kinds, Pipe DEF HttpInv, ControlInv
        <5>3. Len(Flow(p, Response)) = 0
          BY <3>1
        <5> QED
          BY <3>1, <3>7, <5>1, <5>2, <5>3
      <4> QED
        BY <4>1, <4>2, <4>3
    <3>8. CASE p.op[Response] = "POLLREAD"
      <4>1. pc[Response] = "polled"
        BY <2>6, <3>8, Pipe DEF After
      <4>2. Open
        BY <4>1 DEF Open
      <4>3. asked[Cur].chunked
        BY <2>4, <4>2 DEF ChunkInv
      <4> QED
        BY <2>4, <3>3, <3>4, <3>5, <4>2, <4>3 DEF ChunkInv
    <3> QED
      BY <2>6, <3>6, <3>7, <3>8 DEF Naps
  <2> QED
    BY <2>3, <2>5, <2>6
<1> QED
  BY <1>1, HttpInvariant, PTL
=============================================================================
